------------------------ MODULE InstallerNoticeProofs ------------------------
(***************************************************************************)
(* No edit, deletion or creation is lost on its way to the worker.  A step  *)
(* either publishes versions, of which the handlers will be told if they    *)
(* differ in what the handlers look at, or moves keys between the informer, *)
(* the queue and the worker; none loses a key that was coming.              *)
(***************************************************************************)
EXTENDS InstallerStepProofs

-----------------------------------------------------------------------------
(* The queue *)

\* What is in a sequence is in a longer one.
LEMMA AppendKeeps ==
  ASSUME NEW S, NEW s \in Seq(S), NEW k \in S
  PROVE  /\ \E i \in 1..Len(Append(s, k)) : Append(s, k)[i] = k
         /\ \A n : (\E i \in 1..Len(s) : s[i] = n) =>
                   (\E i \in 1..Len(Append(s, k)) : Append(s, k)[i] = n)
<1>1. /\ Len(s) \in Nat
      /\ Len(Append(s, k)) = Len(s) + 1
      /\ \A i \in 1..Len(s) : Append(s, k)[i] = s[i]
      /\ Append(s, k)[Len(s) + 1] = k
  BY AppendProperties, LenProperties
<1>2. Len(s) + 1 \in 1..Len(Append(s, k)) BY <1>1
<1>3. \A i \in 1..Len(s) : i \in 1..Len(Append(s, k)) BY <1>1
<1>4. QED BY <1>1, <1>2, <1>3

\* An added key is in the queue, unless it is there already or Done will put it there.
LEMMA AddKeeps ==
  ASSUME NEW q \in QueueType(Names, MaxRetry), NEW k \in Names
  PROVE  /\ Add(q, k).dirty = q.dirty \cup {k}
         /\ Add(q, k).processing = q.processing /\ Add(q, k).waiting = q.waiting
         /\ \A n : Queued(q, n) => Queued(Add(q, k), n)
         /\ k \in q.dirty \cup q.processing \/ Queued(Add(q, k), k)
<1>1. q.queue \in Seq(Names) BY DEF QueueType
<1>2. CASE k \in q.dirty
  <2>1. Add(q, k) = q BY <1>2 DEF Add
  <2>2. QED BY <1>2, <2>1
<1>3. CASE k \notin q.dirty /\ k \in q.processing
  <2>1. Add(q, k) = [q EXCEPT !.dirty = @ \cup {k}, !.queue = @] BY <1>3 DEF Add
  <2>2. /\ Add(q, k).dirty = q.dirty \cup {k} /\ Add(q, k).queue = q.queue
        /\ Add(q, k).processing = q.processing /\ Add(q, k).waiting = q.waiting
    BY <2>1 DEF QueueType
  <2>3. QED BY <1>3, <2>2 DEF Queued
<1>4. CASE k \notin q.dirty /\ k \notin q.processing
  <2>1. Add(q, k) = [q EXCEPT !.dirty = @ \cup {k}, !.queue = Append(@, k)] BY <1>4 DEF Add
  <2>2. /\ Add(q, k).dirty = q.dirty \cup {k} /\ Add(q, k).queue = Append(q.queue, k)
        /\ Add(q, k).processing = q.processing /\ Add(q, k).waiting = q.waiting
    BY <2>1 DEF QueueType
  <2>3. QED BY <1>1, <2>2, AppendKeeps DEF Queued
<1>5. QED BY <1>2, <1>3, <1>4

\* Get takes no key but the one it hands out.
LEMMA GetKeeps ==
  ASSUME NEW q \in QueueType(Names, MaxRetry), q.queue # <<>>
  PROVE  LET k == Head(q.queue) IN
         /\ k \in Names
         /\ Get(q).dirty = q.dirty \ {k} /\ Get(q).processing = q.processing \cup {k}
         /\ Get(q).waiting = q.waiting
         /\ \A n : Queued(q, n) /\ n # k => Queued(Get(q), n)
<1> DEFINE k == Head(q.queue)
<1>1. q.queue \in Seq(Names) BY DEF QueueType
<1>2. /\ k \in Names /\ k = q.queue[1] /\ Len(q.queue) \in Nat \ {0}
      /\ Len(Tail(q.queue)) = Len(q.queue) - 1
      /\ \A i \in 1..(Len(q.queue) - 1) : Tail(q.queue)[i] = q.queue[i + 1]
  BY <1>1, HeadAndTail
<1>3. /\ Get(q).dirty = q.dirty \ {k} /\ Get(q).processing = q.processing \cup {k}
      /\ Get(q).waiting = q.waiting /\ Get(q).queue = Tail(q.queue)
  BY DEF Get, QueueType
<1>4. ASSUME NEW n, Queued(q, n), n # k PROVE Queued(Get(q), n)
  <2>1. PICK i \in 1..Len(q.queue) : q.queue[i] = n BY <1>4 DEF Queued
  <2>2. i # 1 BY <1>2, <1>4, <2>1
  <2>3. i - 1 \in 1..(Len(q.queue) - 1) /\ (i - 1) + 1 = i BY <1>2, <2>2
  <2>4. Tail(q.queue)[i - 1] = n BY <1>2, <2>1, <2>3
  <2>5. QED BY <1>2, <1>3, <2>3, <2>4 DEF Queued
<1>5. QED BY <1>2, <1>3, <1>4

\* Done puts a dirty key back.
LEMMA DoneKeeps ==
  ASSUME NEW q \in QueueType(Names, MaxRetry), NEW k \in Names
  PROVE  /\ Done(q, k).dirty = q.dirty /\ Done(q, k).processing = q.processing \ {k}
         /\ Done(q, k).waiting = q.waiting
         /\ \A n : Queued(q, n) => Queued(Done(q, k), n)
         /\ k \in q.dirty => Queued(Done(q, k), k)
<1>1. q.queue \in Seq(Names) BY DEF QueueType
<1>2. /\ Done(q, k).dirty = q.dirty /\ Done(q, k).processing = q.processing \ {k}
      /\ Done(q, k).waiting = q.waiting
      /\ Done(q, k).queue = IF k \in q.dirty THEN Append(q.queue, k) ELSE q.queue
  BY DEF Done, QueueType
<1>3. CASE k \in q.dirty
  <2>1. Done(q, k).queue = Append(q.queue, k) BY <1>2, <1>3
  <2>2. QED BY <1>1, <1>2, <2>1, AppendKeeps DEF Queued
<1>4. CASE k \notin q.dirty
  <2>1. Done(q, k).queue = q.queue BY <1>2, <1>4
  <2>2. QED BY <1>2, <1>4, <2>1 DEF Queued
<1>5. QED BY <1>3, <1>4

\* The rate limiter and the delaying queue take nothing out of the queue.
LEMMA LimiterKeeps ==
  ASSUME NEW q \in QueueType(Names, MaxRetry), NEW k \in Names
  PROVE  /\ LET f == Forget(q, k) IN
              /\ f.dirty = q.dirty /\ f.processing = q.processing /\ f.queue = q.queue
              /\ f.waiting = q.waiting
         /\ LET r == AddRateLimited(q, k) IN
              /\ r.dirty = q.dirty /\ r.processing = q.processing /\ r.queue = q.queue
              /\ r.waiting = q.waiting \cup {k}
         /\ LET e == [q EXCEPT !.waiting = @ \ {k}] IN
              /\ e \in QueueType(Names, MaxRetry)
              /\ e.dirty = q.dirty /\ e.processing = q.processing /\ e.queue = q.queue
              /\ e.waiting = q.waiting \ {k}
BY DEF Forget, AddRateLimited, AddAfter, QueueType

-----------------------------------------------------------------------------
(* The versions on their way *)

LEMMA SameIsEquivalence ==
  /\ \A u : SameToHandlers(u, u)
  /\ \A u, v : SameToHandlers(u, v) => SameToHandlers(v, u)
  /\ \A u, v, w : SameToHandlers(u, v) /\ SameToHandlers(v, w) => SameToHandlers(u, w)
BY DEF SameToHandlers

\* The last version on its way is what is stored.
LEMMA Latest ==
  ASSUME TypeInv, NEW n \in Names
  PROVE  /\ Len(watch[n]) \in Nat /\ watch[n] \in Seq(Kmds \cup {NoKmd})
         /\ Seen(n, Len(watch[n])) = api[n]
<1>1. watch[n] \in Seq(Kmds \cup {NoKmd}) BY TypeParts DEF ApiTypeOK
<1>2. /\ Len(watch[n]) \in Nat
      /\ watch[n] = <<>> <=> Len(watch[n]) = 0
  BY <1>1, EmptySeq
<1>3. api[n] = IF watch[n] = <<>> THEN cache[n] ELSE watch[n][Len(watch[n])]
  BY TypeParts DEF LastVersion, Fresh
<1>4. QED BY <1>1, <1>2, <1>3 DEF Seen

\* A version that is written loses no notice, and brings one if it differs.
LEMMA NoticesAppend ==
  ASSUME TypeInv, NEW n \in Names, NEW obj \in Kmds \cup {NoKmd},
         cache'[n] = cache[n], api'[n] = obj, watch'[n] = Append(watch[n], obj),
         SameToHandlers(api[n], obj) \/ Notifies(api[n], obj)
  PROVE  /\ \A i \in Nat : NoticeAfter(n, i) => NoticeAfter(n, i)'
         /\ SameToHandlers(api[n], obj) \/ \A i \in 0..Len(watch[n]) : NoticeAfter(n, i)'
         /\ WillTell(n) => WillTell(n)'
<1>0. PICK L : L = Len(watch[n]) OBVIOUS
<1>1. L \in Nat /\ watch[n] \in Seq(Kmds \cup {NoKmd}) /\ Seen(n, L) = api[n] BY <1>0, Latest
<1>2. /\ Len(watch'[n]) = L + 1
      /\ \A i \in 1..L : watch'[n][i] = watch[n][i]
      /\ watch'[n][L + 1] = obj
  BY <1>0, <1>1, AppendProperties
<1>3. /\ \A i \in 0..L : Seen(n, i)' = Seen(n, i)
      /\ Seen(n, L + 1)' = obj
  BY <1>1, <1>2 DEF Seen
<1>4. Len(watch[n]) = L BY <1>0
<1>5. ASSUME NEW i \in Nat, NoticeAfter(n, i) PROVE NoticeAfter(n, i)'
  <2>1. PICK j \in 1..L : i < j /\ Notifies(Seen(n, j - 1), Seen(n, j))
    BY <1>4, <1>5 DEF NoticeAfter
  <2>2. j \in 0..L /\ j - 1 \in 0..L /\ j \in 1..(L + 1) BY <1>1
  <2>3. Notifies(Seen(n, j - 1)', Seen(n, j)') BY <1>3, <2>1, <2>2
  <2>4. QED BY <1>2, <2>1, <2>2, <2>3 DEF NoticeAfter
<1>6. ASSUME ~SameToHandlers(api[n], obj), NEW i \in 0..L PROVE NoticeAfter(n, i)'
  <2>1. L + 1 \in 1..(L + 1) /\ i < L + 1 /\ (L + 1) - 1 = L /\ L \in 0..L BY <1>1
  <2>2. Notifies(Seen(n, (L + 1) - 1)', Seen(n, L + 1)') BY <1>1, <1>3, <1>6, <2>1
  <2>3. QED BY <1>2, <2>1, <2>2 DEF NoticeAfter
<1>7. ASSUME WillTell(n) PROVE WillTell(n)'
  <2> SUFFICES ASSUME NEW i \in 0..(L + 1)
               PROVE  SameToHandlers(Seen(n, i)', obj) \/ NoticeAfter(n, i)'
    BY <1>2 DEF WillTell
  <2>1. CASE i = L + 1 BY <1>3, <2>1, SameIsEquivalence
  <2>2. CASE i # L + 1
    <3>1. i \in 0..L /\ i \in Nat BY <1>1, <2>2
    <3>2. SameToHandlers(Seen(n, i), api[n]) \/ NoticeAfter(n, i)
      BY <1>4, <1>7, <3>1 DEF WillTell
    <3>3. Seen(n, i)' = Seen(n, i) BY <1>3, <3>1
    <3>4. QED BY <1>5, <1>6, <3>1, <3>2, <3>3, SameIsEquivalence
  <2>3. QED BY <2>1, <2>2
<1>8. QED BY <1>4, <1>5, <1>6, <1>7

\* A delivery passes on the notice that it is.
LEMMA NoticesDeliver ==
  ASSUME TypeInv, NEW n \in Names, Deliver(n)
  PROVE  /\ WillTell(n) => WillTell(n)'
         /\ NoticeAfter(n, 0) => NoticeAfter(n, 0)' \/ Notifies(cache[n], Head(watch[n]))
         /\ \A m \in Names : m # n => api'[m] = api[m] /\ cache'[m] = cache[m] /\ watch'[m] = watch[m]
<1>0. PICK L : L = Len(watch[n]) OBVIOUS
<1>1. watch[n] \in Seq(Kmds \cup {NoKmd}) /\ watch[n] # <<>>
  BY Latest DEF Deliver, Fresh
<1>2. /\ Head(watch[n]) = watch[n][1] /\ L \in Nat \ {0} /\ Len(Tail(watch[n])) = L - 1
      /\ \A i \in 1..(L - 1) : Tail(watch[n])[i] = watch[n][i + 1]
  BY <1>0, <1>1, HeadAndTail
<1>3. /\ cache' = [cache EXCEPT ![n] = Head(watch[n])] /\ watch' = [watch EXCEPT ![n] = Tail(@)]
      /\ api' = api
  BY DEF Deliver
<1>4. /\ cache'[n] = watch[n][1] /\ watch'[n] = Tail(watch[n])
      /\ \A m \in Names : m # n => api'[m] = api[m] /\ cache'[m] = cache[m] /\ watch'[m] = watch[m]
  BY <1>2, <1>3, TypeParts DEF ApiTypeOK
<1>5. \A i \in 0..(L - 1) : Seen(n, i)' = Seen(n, i + 1)
  <2> SUFFICES ASSUME NEW i \in 0..(L - 1) PROVE Seen(n, i)' = Seen(n, i + 1)
    OBVIOUS
  <2>1. CASE i = 0 BY <1>4, <2>1 DEF Seen
  <2>2. CASE i # 0
    <3>1. i \in 1..(L - 1) /\ i + 1 # 0 BY <1>2, <2>2
    <3>2. QED BY <1>2, <1>4, <2>2, <3>1 DEF Seen
  <2>3. QED BY <2>1, <2>2
<1>6. Len(watch'[n]) = L - 1 BY <1>2, <1>4
<1>7. Len(watch[n]) = L BY <1>0
<1>8. ASSUME NEW i \in 0..(L - 1), NEW j \in 1..L, i + 1 < j,
             Notifies(Seen(n, j - 1), Seen(n, j))
      PROVE  NoticeAfter(n, i)'
  <2>1. /\ j - 1 \in 1..(L - 1) /\ j - 1 \in 0..(L - 1) /\ (j - 1) - 1 \in 0..(L - 1)
        /\ i < j - 1 /\ (j - 1) + 1 = j /\ ((j - 1) - 1) + 1 = j - 1
    BY <1>2, <1>8
  <2>2. Notifies(Seen(n, (j - 1) - 1)', Seen(n, j - 1)') BY <1>5, <1>8, <2>1
  <2>3. QED BY <1>6, <2>1, <2>2 DEF NoticeAfter
<1>9. ASSUME WillTell(n) PROVE WillTell(n)'
  <2> SUFFICES ASSUME NEW i \in 0..(L - 1)
               PROVE  SameToHandlers(Seen(n, i)', api[n]) \/ NoticeAfter(n, i)'
    BY <1>3, <1>6 DEF WillTell
  <2>1. i + 1 \in 0..L BY <1>2
  <2>2. SameToHandlers(Seen(n, i + 1), api[n]) \/ NoticeAfter(n, i + 1)
    BY <1>7, <1>9, <2>1 DEF WillTell
  <2>3. CASE NoticeAfter(n, i + 1)
    <3>1. PICK j \in 1..L : i + 1 < j /\ Notifies(Seen(n, j - 1), Seen(n, j))
      BY <1>7, <2>3 DEF NoticeAfter
    <3>2. QED BY <1>8, <3>1
  <2>4. QED BY <1>5, <2>2, <2>3
<1>10. ASSUME NoticeAfter(n, 0)
       PROVE  NoticeAfter(n, 0)' \/ Notifies(cache[n], Head(watch[n]))
  <2>1. PICK j \in 1..L : Notifies(Seen(n, j - 1), Seen(n, j))
    BY <1>7, <1>10 DEF NoticeAfter
  <2>2. CASE j = 1
    <3>1. Seen(n, j - 1) = cache[n] /\ Seen(n, j) = Head(watch[n]) BY <1>2, <2>2 DEF Seen
    <3>2. QED BY <2>1, <3>1
  <2>3. CASE j # 1
    <3>1. 0 \in 0..(L - 1) /\ 0 + 1 < j BY <1>2, <2>3
    <3>2. QED BY <1>8, <2>1, <3>1
  <2>4. QED BY <2>2, <2>3
<1>11. QED BY <1>4, <1>9, <1>10

\* A process that starts is told of all that exists.
LEMMA NoticesRelist ==
  ASSUME TypeInv, NEW n \in Names, Relist
  PROVE  /\ WillTell(n)'
         /\ Exists(n) => NoticeAfter(n, 0)'
<1>1. /\ cache'[n] = NoKmd /\ api'[n] = api[n]
      /\ watch'[n] = IF Exists(n) THEN <<api[n]>> ELSE <<>>
  BY DEF Relist
<1>2. CASE Exists(n)
  <2>1. watch'[n] = <<api[n]>> /\ Len(watch'[n]) = 1 /\ watch'[n][1] = api[n] BY <1>1, <1>2
  <2>2. Seen(n, 0)' = NoKmd /\ Seen(n, 1)' = api[n] BY <1>1, <2>1 DEF Seen
  <2>3. NoticeAfter(n, 0)'
    <3>1. Notifies(Seen(n, 1 - 1)', Seen(n, 1)') BY <2>2 DEF Notifies
    <3>2. 1 \in 1..Len(watch'[n]) /\ 0 < 1 BY <2>1
    <3>3. QED BY <3>1, <3>2 DEF NoticeAfter
  <2>4. \A i \in 0..Len(watch'[n]) : i = 0 \/ i = 1 BY <2>1
  <2>5. QED BY <1>1, <2>2, <2>3, <2>4, SameIsEquivalence DEF WillTell
<1>3. CASE ~Exists(n)
  <2>1. Len(watch'[n]) = 0 BY <1>1, <1>3
  <2>2. Seen(n, 0)' = api'[n] BY <1>1, <1>3 DEF Seen, Exists
  <2>3. \A i \in 0..Len(watch'[n]) : i = 0 BY <2>1
  <2>4. QED BY <1>3, <2>2, <2>3, SameIsEquivalence DEF WillTell
<1>4. QED BY <1>2, <1>3

\* A deletion that has not been delivered is told.
LEMMA DeletionTold ==
  ASSUME TypeInv, NEW n \in Names, ~Fresh(n), Exists(n) => api[n].deleting
  PROVE  NoticeAfter(n, 0)
<1> DEFINE L == Len(watch[n])
<1>1. L \in Nat /\ watch[n] \in Seq(Kmds \cup {NoKmd}) /\ Seen(n, L) = api[n] BY Latest
<1>2. L # 0 BY <1>1, EmptySeq DEF Fresh
<1>3. L \in 1..L /\ 0 < L BY <1>1, <1>2
<1>4. Notifies(Seen(n, L - 1), Seen(n, L)) BY <1>1 DEF Notifies, Exists
<1>5. QED BY <1>3, <1>4 DEF NoticeAfter

-----------------------------------------------------------------------------
(* What writers publish *)

\* The versions of n stay, or one more is on its way, and it will be noticed if it
\* differs in what the handlers look at.
Publishes(n) ==
  /\ cache'[n] = cache[n]
  /\ \/ api'[n] = api[n] /\ watch'[n] = watch[n]
     \/ /\ api'[n] \in Kmds \cup {NoKmd}
        /\ watch'[n] = Append(watch[n], api'[n])
        /\ SameToHandlers(api[n], api'[n]) \/ Notifies(api[n], api'[n])

\* The installer's finalizer stays where it is.
HandsOff(n) ==
  api[n] # NoKmd /\ api'[n] # NoKmd =>
    (InstallerFinalizer \in api'[n].finalizers <=> InstallerFinalizer \in api[n].finalizers)

\* Nothing is written.
LEMMA NothingPublished ==
  ASSUME UNCHANGED <<api, watch, cache>>
  PROVE  \A n \in Names : Publishes(n) /\ HandsOff(n)
BY DEF Publishes, HandsOff

\* A write of the same incarnation, an object that appears and one that goes.
LEMMA PublishWrite ==
  ASSUME TypeInv, NEW n \in Names, NEW obj \in Kmds \cup {NoKmd}, Write(n, obj), UNCHANGED cache,
         api[n] # NoKmd /\ obj # NoKmd =>
           obj.uid = api[n].uid /\ (api[n].deleting => obj.deleting)
  PROVE  /\ \A m \in Names : Publishes(m)
         /\ api'[n] = obj /\ \A m \in Names : m # n => api'[m] = api[m]
<1>1. CASE obj = api[n]
  <2>1. UNCHANGED <<api, watch>> BY <1>1 DEF Write
  <2>2. QED BY <1>1, <2>1 DEF Publishes
<1>2. CASE obj # api[n]
  <2>1. /\ api' = [api EXCEPT ![n] = obj] /\ watch' = [watch EXCEPT ![n] = Append(@, obj)]
    BY <1>2 DEF Write
  <2>2. /\ api'[n] = obj /\ watch'[n] = Append(watch[n], obj)
        /\ \A m \in Names : m # n => api'[m] = api[m] /\ watch'[m] = watch[m]
    BY <2>1, TypeParts DEF ApiTypeOK
  <2>3. SameToHandlers(api[n], obj) \/ Notifies(api[n], obj)
    <3>1. api[n] \in Kmds \cup {NoKmd} BY TypeParts DEF ApiTypeOK
    <3>2. CASE api[n] = NoKmd \/ obj = NoKmd BY <3>2 DEF Notifies
    <3>3. CASE api[n] # NoKmd /\ obj # NoKmd
      <4>1. api[n].deleting \in BOOLEAN /\ obj.deleting \in BOOLEAN BY <3>1, <3>3 DEF Kmds
      <4>2. QED BY <3>3, <4>1 DEF Notifies, SameToHandlers
    <3>4. QED BY <3>2, <3>3
  <2>4. QED BY <2>2, <2>3 DEF Publishes
<1>3. QED BY <1>1, <1>2

\* Users.
LEMMA UserPublishes ==
  ASSUME TypeInv, NEW n \in Names, Create(n) \/ EditSpec(n) \/ EditLabel(n) \/ Delete(n)
  PROVE  \A m \in Names : Publishes(m) /\ HandsOff(m)
<1>a. api[n] \in Kmds \cup {NoKmd} BY TypeParts DEF ApiTypeOK
<1>b. UNCHANGED cache BY DEF Create, EditSpec, EditLabel, Delete
<1>1. PICK obj \in Kmds \cup {NoKmd} :
        /\ Write(n, obj)
        /\ api[n] # NoKmd /\ obj # NoKmd =>
             /\ obj.uid = api[n].uid /\ obj.finalizers = api[n].finalizers
             /\ api[n].deleting => obj.deleting
  <2>1. CASE Create(n)
    <3>1. PICK spec \in UserSpecs(n), label \in UserLabels :
            Write(n, [uid |-> born[n] + 1, gen |-> 1, deleting |-> FALSE, label |-> label,
                      finalizers |-> {}, spec |-> spec, status |-> NewStatus])
      BY <2>1 DEF Create
    <3>2. [uid |-> born[n] + 1, gen |-> 1, deleting |-> FALSE, label |-> label,
           finalizers |-> {}, spec |-> spec, status |-> NewStatus] \in Kmds
      <4>1. spec \in Specs /\ label \in Labels BY KmdApiAssumption DEF UserSpecs, Specs
      <4>2. NewStatus \in Statuses BY DEF NewStatus, Statuses, Phases, Reasons
      <4>3. born[n] + 1 \in Nat BY Numbers
      <4>4. QED BY <4>1, <4>2, <4>3 DEF Kmds
    <3>3. api[n] = NoKmd BY <2>1 DEF Create, Exists
    <3>4. QED BY <3>1, <3>2, <3>3
  <2>2. CASE EditSpec(n)
    <3>1. PICK spec \in UserSpecs(n) : Write(n, [api[n] EXCEPT !.spec = spec, !.gen = @ + 1])
      BY <2>2 DEF EditSpec
    <3>2. api[n] \in Kmds /\ spec \in Specs
      BY <2>2, <1>a, KmdApiAssumption DEF EditSpec, Exists, UserSpecs, Specs
    <3> DEFINE obj == [api[n] EXCEPT !.spec = spec, !.gen = @ + 1]
    <3>3. /\ obj \in Kmds /\ obj.uid = api[n].uid /\ obj.deleting = api[n].deleting
          /\ obj.finalizers = api[n].finalizers
      BY <3>2, EditedType DEF Kmds
    <3>4. QED BY <3>1, <3>3
  <2>3. CASE EditLabel(n)
    <3>1. PICK label \in UserLabels : Write(n, [api[n] EXCEPT !.label = label])
      BY <2>3 DEF EditLabel
    <3>2. api[n] \in Kmds /\ label \in Labels BY <2>3, <1>a, KmdApiAssumption DEF EditLabel, Exists
    <3> DEFINE obj == [api[n] EXCEPT !.label = label]
    <3>3. /\ obj \in Kmds /\ obj.uid = api[n].uid /\ obj.deleting = api[n].deleting
          /\ obj.finalizers = api[n].finalizers
      BY <3>2 DEF Kmds
    <3>4. QED BY <3>1, <3>3
  <2>4. CASE Delete(n)
    <3>1. api[n] \in Kmds BY <2>4, <1>a DEF Delete, Live, Exists
    <3> DEFINE obj == [api[n] EXCEPT !.deleting = TRUE, !.gen = @ + 1]
    <3>2. /\ obj \in Kmds /\ obj.uid = api[n].uid /\ obj.deleting
          /\ obj.finalizers = api[n].finalizers
      BY <3>1, MarkedType DEF Kmds
    <3>3. Write(n, NoKmd) \/ Write(n, obj) BY <2>4 DEF Delete
    <3>4. QED BY <3>2, <3>3
  <2>5. QED BY <2>1, <2>2, <2>3, <2>4
<1>2. /\ \A m \in Names : Publishes(m)
      /\ api'[n] = obj /\ \A m \in Names : m # n => api'[m] = api[m]
  BY <1>b, <1>1, PublishWrite
<1>3. QED BY <1>1, <1>2 DEF HandsOff

\* A status.
LEMMA StatusPublishes ==
  ASSUME TypeInv, NEW s \in Statuses, work.key \in Names, UNCHANGED cache,
         StatusSet(s) \/ StatusNotSet \/ UNCHANGED <<api, watch>>
  PROVE  /\ \A m \in Names : Publishes(m) /\ HandsOff(m)
         /\ StatusSet(s) =>
              /\ api[work.key] \in Kmds /\ api'[work.key] \in Kmds
              /\ api'[work.key].uid = api[work.key].uid
              /\ api'[work.key].deleting = api[work.key].deleting
              /\ api'[work.key].finalizers = api[work.key].finalizers
<1>1. CASE StatusSet(s)
  <2>0. PICK n \in Names : n = work.key OBVIOUS
  <2>1. Write(n, [api[n] EXCEPT !.status = s]) /\ api[n] \in Kmds
    BY <1>1, <2>0, TypeParts DEF StatusSet, SetStatus, Exists, ApiTypeOK, key
  <2>2. PICK obj \in Kmds : obj = [api[n] EXCEPT !.status = s] BY <2>1, KmdWithStatus
  <2>3. /\ obj.uid = api[n].uid /\ obj.deleting = api[n].deleting
        /\ obj.finalizers = api[n].finalizers
    BY <2>1, <2>2, KmdWithStatus
  <2>4. /\ \A m \in Names : Publishes(m)
        /\ api'[n] = obj /\ \A m \in Names : m # n => api'[m] = api[m]
    BY <2>1, <2>2, <2>3, PublishWrite
  <2>5. \A m \in Names : HandsOff(m) BY <2>3, <2>4 DEF HandsOff
  <2>6. QED BY <2>0, <2>1, <2>3, <2>4, <2>5
<1>2. CASE ~StatusSet(s)
  <2>1. UNCHANGED <<api, watch, cache>> BY <1>2 DEF StatusNotSet
  <2>2. QED BY <1>2, <2>1, NothingPublished
<1>3. QED BY <1>1, <1>2

\* An Update from the current copy.
LEMMA UpdatePublishes ==
  ASSUME TypeInv, NEW n \in Names, NEW obj \in Kmds, api[n] \in Kmds, Update(n, obj),
         UNCHANGED cache, obj.uid = api[n].uid, api[n].deleting => obj.deleting
  PROVE  /\ \A m \in Names : Publishes(m)
         /\ \A m \in Names : m # n => api'[m] = api[m]
         /\ \/ api'[n] = NoKmd /\ obj.deleting /\ obj.finalizers = {}
            \/ /\ api'[n] \in Kmds /\ api'[n].uid = obj.uid /\ api'[n].deleting = obj.deleting
               /\ api'[n].finalizers = obj.finalizers /\ api'[n].spec = obj.spec
<1>1. PICK new \in Kmds \cup {NoKmd} :
        /\ Write(n, new)
        /\ \/ new = NoKmd /\ obj.deleting /\ obj.finalizers = {}
           \/ /\ new \in Kmds /\ new.uid = obj.uid /\ new.deleting = obj.deleting
              /\ new.finalizers = obj.finalizers /\ new.spec = obj.spec
  BY UpdateOK, TypeParts
<1>2. api[n] # NoKmd /\ new # NoKmd =>
        new.uid = api[n].uid /\ (api[n].deleting => new.deleting)
  BY <1>1
<1>3. QED BY <1>1, <1>2, PublishWrite

-----------------------------------------------------------------------------
(* What is kept of the notices *)

\* The part of NoticeInv that is about notices.
Noticed == NoticesOK /\ QueueOK /\ WorkNoticed /\ EditsNoticed

\* What NothingForgotten says of a step.
NotForgotten(n) ==
  Unsettled(n)' /\ ~Owed(n)' =>
    \/ Unsettled(n) /\ ~Owed(n)
    \/ work.pc = "failed" /\ key = n /\ wq.failures[n] >= MaxRetry

\* A version that differs is noticed, and so is what was noticed before.
LEMMA Told ==
  ASSUME TypeInv, NEW n \in Names, Publishes(n)
  PROVE  /\ WillTell(n) => WillTell(n)'
         /\ NoticeAfter(n, 0) => NoticeAfter(n, 0)'
         /\ SameToHandlers(api[n], api'[n]) \/ NoticeAfter(n, 0)'
<1>1. CASE api'[n] = api[n] /\ watch'[n] = watch[n]
  <2>1. cache'[n] = cache[n] BY DEF Publishes
  <2>2. \A i : Seen(n, i)' = Seen(n, i) BY <1>1, <2>1 DEF Seen
  <2>3. \A i : NoticeAfter(n, i)' <=> NoticeAfter(n, i) BY <1>1, <2>2 DEF NoticeAfter
  <2>4. WillTell(n)' <=> WillTell(n) BY <1>1, <2>2, <2>3 DEF WillTell
  <2>5. QED BY <1>1, <2>3, <2>4, SameIsEquivalence
<1>2. CASE /\ api'[n] \in Kmds \cup {NoKmd} /\ watch'[n] = Append(watch[n], api'[n])
           /\ SameToHandlers(api[n], api'[n]) \/ Notifies(api[n], api'[n])
  <2>1. PICK obj \in Kmds \cup {NoKmd} : obj = api'[n] BY <1>2
  <2>2. cache'[n] = cache[n] BY DEF Publishes
  <2>3. /\ \A i \in Nat : NoticeAfter(n, i) => NoticeAfter(n, i)'
        /\ SameToHandlers(api[n], obj) \/ \A i \in 0..Len(watch[n]) : NoticeAfter(n, i)'
        /\ WillTell(n) => WillTell(n)'
    BY <1>2, <2>1, <2>2, NoticesAppend
  <2>4. 0 \in 0..Len(watch[n]) BY Latest
  <2>5. QED BY <2>1, <2>3, <2>4
<1>3. QED BY <1>1, <1>2 DEF Publishes

\* A key that comes still comes when the queue is left alone.
LEMMA ComingKept ==
  ASSUME TypeInv, NEW n \in Names, Publishes(n), UNCHANGED wq
  PROVE  Coming(n) => Coming(n)'
BY Told DEF Coming

\* The object is unsettled already, or its key comes.
LEMMA UnsettledKept ==
  ASSUME TypeInv, NEW n \in Names, Publishes(n), HandsOff(n), Unsettled(n)'
  PROVE  Unsettled(n) \/ NoticeAfter(n, 0)'
<1>1. SameToHandlers(api[n], api'[n]) \/ NoticeAfter(n, 0)' BY Told
<1>2. ASSUME SameToHandlers(api[n], api'[n]) PROVE Unsettled(n)
  <2>1. api'[n] # NoKmd BY DEF Unsettled, Exists
  <2>2. api[n] # NoKmd /\ api'[n].deleting = api[n].deleting BY <1>2, <2>1 DEF SameToHandlers
  <2>3. QED BY <2>1, <2>2 DEF Unsettled, Exists, HandsOff
<1>3. QED BY <1>1, <1>2

\* What a sync that goes on with its copy knows of the object.
LEMMA CurrentKept ==
  ASSUME TypeInv, NEW n \in Names, Publishes(n), UNCHANGED wq,
         NEW copy, NEW new, new.uid = copy.uid, new.spec = copy.spec,
         Exists(n) /\ api[n].uid = copy.uid =>
           (Live(n) /\ SpecSeen(copy.spec, api[n].spec)) \/ Coming(n),
         Exists(n)', api'[n].uid = new.uid
  PROVE  (Live(n)' /\ SpecSeen(new.spec, api'[n].spec)) \/ Coming(n)'
<1>1. CASE SameToHandlers(api[n], api'[n])
  <2>1. /\ api[n] # NoKmd /\ api'[n] # NoKmd /\ api'[n].uid = api[n].uid
        /\ api'[n].deleting = api[n].deleting /\ api'[n].spec = api[n].spec
    BY <1>1 DEF SameToHandlers, Exists
  <2>2. (Live(n) /\ SpecSeen(copy.spec, api[n].spec)) \/ Coming(n) BY <2>1 DEF Exists
  <2>3. QED BY <2>1, <2>2, ComingKept DEF Live, Exists
<1>2. CASE NoticeAfter(n, 0)' BY <1>2 DEF Coming
<1>3. QED BY <1>1, <1>2, Told

\* A key that is owed a sync is still owed it.
LEMMA OwedKept ==
  ASSUME TypeInv, NEW n \in Names, Publishes(n), UNCHANGED wq,
         work.pc # "idle" /\ work.key = n => work'.pc # "idle" /\ work'.key = n
  PROVE  Owed(n) => Owed(n)'
BY Told DEF Owed, Queued, key

\* So a step that publishes and leaves the finalizer alone forgets nothing.
LEMMA NothingLost ==
  ASSUME TypeInv, NEW n \in Names, Publishes(n), HandsOff(n), UNCHANGED wq,
         work.pc # "idle" /\ work.key = n => work'.pc # "idle" /\ work'.key = n
  PROVE  NotForgotten(n)
<1> SUFFICES ASSUME Unsettled(n)', ~Owed(n)' PROVE Unsettled(n) /\ ~Owed(n)
  BY DEF NotForgotten
<1>1. ~Owed(n) BY OwedKept
<1>2. Unsettled(n) BY UnsettledKept DEF Owed
<1>3. QED BY <1>1, <1>2

-----------------------------------------------------------------------------
(* Steps between taking a key and giving it back *)

LetGoPcs == UninstallPcs \cup {"finalize"}

\* The worker goes on installing; it is done; or it goes on uninstalling.
GoesOn == work.pc \in InstallPcs /\ work'.pc \in InstallPcs /\ SameBut(work'.kmd, work.kmd)
Finishes ==
  /\ work.pc \in InstallPcs /\ work'.pc = "ok" /\ SameBut(work'.kmd, work.kmd)
  /\ api[work.key] \in Kmds /\ api'[work.key] \in Kmds
  /\ api'[work.key].deleting = api[work.key].deleting
  /\ api'[work.key].finalizers = api[work.key].finalizers
LetsGo == work.pc \in LetGoPcs /\ work'.pc \in LetGoPcs /\ work'.kmd = work.kmd

Busy == work.pc # "idle" /\ work.key \in Names /\ work'.pc # "idle" /\ work'.key = work.key

Proceeds ==
  \/ work' = work
  \/ Busy /\ (work'.pc \in {"failed", "report"} \/ GoesOn \/ Finishes \/ LetsGo)

LEMMA PcDisjoint ==
  /\ LetGoPcs \cap (InstallPcs \cup {"ok", "failed", "report", "idle", "sync"}) = {}
  /\ InstallPcs \cap {"ok", "failed", "report", "idle", "sync"} = {}
BY DEF LetGoPcs, InstallPcs, UninstallPcs

\* The invariants, of the next state and its key.
LEMMA WorkNoticedNext ==
  ASSUME work'.pc \in InstallPcs => ~work'.kmd.deleting,
         work'.pc \in LetGoPcs => work'.kmd \in Kmds /\ work'.kmd.deleting,
         \A n \in Names : n = work'.key =>
           /\ work'.pc \in LetGoPcs /\ Live(n)' => Coming(n)'
           /\ work'.pc = "ok" /\ Unsettled(n)' => Coming(n)',
         work'.pc # "idle" => work'.key \in Names
  PROVE  WorkNoticed'
BY PcDisjoint DEF WorkNoticed, LetGoPcs, kmd, key, Live, Exists, Unsettled, Coming, NoticeAfter, Seen

LEMMA EditsNoticedNext ==
  ASSUME \A n \in Names :
           /\ n = work'.key
           /\ work'.pc \in InstallPcs \cup {"ok"}
           /\ work'.kmd # NoKmd /\ ~work'.kmd.deleting
           /\ Exists(n)' /\ api'[n].uid = work'.kmd.uid
           => (Live(n)' /\ SpecSeen(work'.kmd.spec, api'[n].spec)) \/ Coming(n)',
         work'.pc # "idle" => work'.key \in Names
  PROVE  EditsNoticed'
BY PcDisjoint DEF EditsNoticed, kmd, key, Live, Exists, Coming, NoticeAfter, Seen

\* The worker keeps its key to itself.
LEMMA QueueKept ==
  ASSUME QueueOK, UNCHANGED wq, work' = work \/ Busy
  PROVE  QueueOK'
BY DEF QueueOK, Queued, Busy, key

LEMMA NoticesKept ==
  ASSUME TypeInv, NoticesOK, \A n \in Names : Publishes(n)
  PROVE  NoticesOK'
<1>1. \A n \in Names : WillTell(n)' BY Told DEF NoticesOK
<1>2. QED BY <1>1 DEF NoticesOK

\* A step that publishes while the worker goes on with its copy.
LEMMA ProceedsNoticed ==
  ASSUME TypeInv, WorkerOK, Noticed, UNCHANGED wq, Proceeds, WorkOK',
         \A n \in Names : Publishes(n) /\ HandsOff(n)
  PROVE  Noticed' /\ \A n \in Names : NotForgotten(n)
<1>a. NoticesOK /\ QueueOK /\ WorkNoticed /\ EditsNoticed BY DEF Noticed
<1>b. work' = work \/ Busy BY DEF Proceeds
<1>c. work'.pc # "idle" => work'.key \in Names /\ work'.key = work.key /\ work.pc # "idle"
  BY <1>b DEF Busy, WorkOK
<1>1. NoticesOK' BY <1>a, NoticesKept
<1>2. QueueOK' BY <1>a, <1>b, QueueKept
<1>3. \A n \in Names : Coming(n) => Coming(n)' BY ComingKept
<1>4. WorkNoticed'
  <2>1. work'.pc \in InstallPcs => ~work'.kmd.deleting
    BY <1>a, PcDisjoint DEF Proceeds, GoesOn, Finishes, LetsGo, SameBut, WorkNoticed, kmd
  <2>2. work'.pc \in LetGoPcs => /\ work'.kmd \in Kmds /\ work'.kmd.deleting
                                 /\ work.pc \in LetGoPcs
    BY <1>a, PcDisjoint DEF Proceeds, GoesOn, Finishes, LetsGo, WorkNoticed, LetGoPcs, kmd
  <2>3. ASSUME NEW n \in Names, n = work'.key, work'.pc \in LetGoPcs, Live(n)' PROVE Coming(n)'
    <3>1. n = work.key BY <1>c, <2>3, PcDisjoint
    <3>2. Live(n) => Coming(n) BY <1>a, <2>2, <2>3, <3>1 DEF WorkNoticed, LetGoPcs, key
    <3>3. CASE SameToHandlers(api[n], api'[n])
      <4>1. Live(n) BY <2>3, <3>3 DEF Live, Exists, SameToHandlers
      <4>2. QED BY <1>3, <3>2, <4>1
    <3>4. CASE NoticeAfter(n, 0)' BY <3>4 DEF Coming
    <3>5. QED BY <3>3, <3>4, Told
  <2>4. ASSUME NEW n \in Names, n = work'.key, work'.pc = "ok", Unsettled(n)' PROVE Coming(n)'
    <3>1. n = work.key BY <1>c, <2>4
    <3>2. Unsettled(n) \/ Coming(n)' BY <2>4, UnsettledKept DEF Coming
    <3>3. CASE Finishes
      <4>1. Held(n, work.kmd) /\ ~work.kmd.deleting /\ work.kmd # NoKmd
        BY <1>a, <3>1, <3>3, WorkerHas, NoKmdIsNone DEF Finishes, WorkerOK, WorkNoticed, kmd
      <4>2. api'[n].deleting /\ ~Live(n)
        BY <2>4, <3>1, <3>3, <4>1 DEF Finishes, Held, Unsettled, Live, Exists
      <4>3. Coming(n)
        BY <1>a, <3>1, <3>3, <4>1, <4>2 DEF Finishes, EditsNoticed, Held, key, kmd
      <4>4. QED BY <1>3, <4>3
    <3>4. CASE ~Finishes
      <4>1. work' = work BY <2>4, <3>4, PcDisjoint DEF Proceeds, GoesOn, LetsGo
      <4>2. Unsettled(n) => Coming(n) BY <1>a, <2>4, <3>1, <4>1 DEF WorkNoticed, key
      <4>3. QED BY <1>3, <3>2, <4>2
    <3>5. QED BY <3>3, <3>4
  <2>5. QED BY <1>c, <2>1, <2>2, <2>3, <2>4, WorkNoticedNext
<1>5. EditsNoticed'
  <2>1. ASSUME NEW n \in Names, n = work'.key, work'.pc \in InstallPcs \cup {"ok"},
               work'.kmd # NoKmd, ~work'.kmd.deleting,
               Exists(n)', api'[n].uid = work'.kmd.uid
        PROVE  (Live(n)' /\ SpecSeen(work'.kmd.spec, api'[n].spec)) \/ Coming(n)'
    <3>1. n = work.key BY <1>c, <2>1, PcDisjoint
    <3>2. /\ work.pc \in InstallPcs \cup {"ok"} /\ work.kmd # NoKmd /\ ~work.kmd.deleting
          /\ work'.kmd.uid = work.kmd.uid /\ work'.kmd.spec = work.kmd.spec
      BY <2>1, PcDisjoint, WorkerHas, NoKmdIsNone
         DEF Proceeds, GoesOn, Finishes, LetsGo, SameBut
    <3>3. Exists(n) /\ api[n].uid = work.kmd.uid =>
            (Live(n) /\ SpecSeen(work.kmd.spec, api[n].spec)) \/ Coming(n)
      BY <1>a, <3>1, <3>2 DEF EditsNoticed, key, kmd
    <3>4. QED BY <2>1, <3>2, <3>3, CurrentKept
  <2>2. QED BY <1>c, <2>1, EditsNoticedNext
<1>6. ASSUME NEW n \in Names PROVE NotForgotten(n)
  <2>1. work.pc # "idle" /\ work.key = n => work'.pc # "idle" /\ work'.key = n
    BY <1>b DEF Busy
  <2>2. QED BY <2>1, NothingLost
<1>7. QED BY <1>1, <1>2, <1>4, <1>5, <1>6 DEF Noticed

-----------------------------------------------------------------------------
(* The actions *)

LEMMA StillPublishes ==
  ASSUME UNCHANGED apiVars
  PROVE  \A n \in Names : Publishes(n) /\ HandsOff(n)
BY NothingPublished DEF apiVars

\* The worker moves on, reports a failure or gives up.
LEMMA MovesProceed ==
  ASSUME TypeInv, work.pc \in InstallPcs \cup LetGoPcs \cup {"report", "sync"}
  PROVE  /\ Goto("failed") => Proceeds
         /\ work.kmd \in Kmds => \A r \in Reasons : Report(r) => Proceeds
         /\ work.pc \in InstallPcs => \A pc \in InstallPcs :
              /\ Goto(pc) => Proceeds
              /\ \A obj : SameBut(obj, work.kmd) /\ GotoWith(pc, obj) => Proceeds
         /\ work.pc \in LetGoPcs => \A pc \in LetGoPcs : Goto(pc) => Proceeds
<1>0. work.pc # "idle" /\ work.key \in Names BY WorkerHas, PcDisjoint
<1>1. ASSUME Goto("failed") PROVE Proceeds
  <2>1. work'.pc = "failed" /\ work'.key = work.key BY <1>1, Moves, PcSets
  <2>2. QED BY <1>0, <2>1 DEF Proceeds, Busy
<1>2. ASSUME NEW r \in Reasons, Report(r), work.kmd \in Kmds PROVE Proceeds
  <2>1. WithReason(work.kmd, r) \in Kmds BY <1>2, WithReasonType DEF SameBut
  <2>2. GotoWith("report", WithReason(work.kmd, r)) BY <1>2 DEF Report, kmd
  <2>3. work'.pc = "report" /\ work'.key = work.key BY <2>1, <2>2, Moves, PcSets
  <2>4. QED BY <1>0, <2>3 DEF Proceeds, Busy
<1>3. ASSUME work.pc \in InstallPcs, NEW pc \in InstallPcs, Goto(pc) PROVE Proceeds
  <2>1. work'.pc = pc /\ work'.key = work.key /\ work'.kmd = work.kmd BY <1>3, Moves, PcSets
  <2>2. SameBut(work'.kmd, work.kmd) BY <1>3, <2>1, WorkerHas DEF SameBut
  <2>3. GoesOn BY <1>3, <2>1, <2>2 DEF GoesOn
  <2>4. QED BY <1>0, <1>3, <2>1, <2>3, PcDisjoint DEF Proceeds, Busy
<1>4. ASSUME work.pc \in InstallPcs, NEW pc \in InstallPcs, NEW obj,
             SameBut(obj, work.kmd), GotoWith(pc, obj)
      PROVE  Proceeds
  <2>1. obj \in Kmds BY <1>4 DEF SameBut
  <2>2. work'.pc = pc /\ work'.key = work.key /\ work'.kmd = obj BY <1>4, <2>1, Moves, PcSets
  <2>3. GoesOn BY <1>4, <2>2 DEF GoesOn
  <2>4. QED BY <1>0, <1>4, <2>2, <2>3, PcDisjoint DEF Proceeds, Busy
<1>5. ASSUME work.pc \in LetGoPcs, NEW pc \in LetGoPcs, Goto(pc) PROVE Proceeds
  <2>0. pc \in Pcs BY PcSets DEF LetGoPcs
  <2>1. work'.pc = pc /\ work'.key = work.key /\ work'.kmd = work.kmd BY <1>5, <2>0, Moves
  <2>2. LetsGo BY <1>5, <2>1 DEF LetsGo
  <2>3. QED BY <1>0, <1>5, <2>1, <2>2, PcDisjoint DEF Proceeds, Busy
<1>6. QED BY <1>1, <1>2, <1>3, <1>4, <1>5

\* A phase that the workflow enters, or fails to.
LEMMA PhaseProceeds ==
  ASSUME TypeInv, NEW from \in InstallPcs, NEW phase \in Phases, NEW to \in InstallPcs,
         EnterPhase(from, phase, to)
  PROVE  /\ UNCHANGED wq /\ Proceeds
         /\ \A n \in Names : Publishes(n) /\ HandsOff(n)
<1>0. work.key \in Names /\ work.kmd \in Kmds /\ work.pc \in InstallPcs
  BY WorkerHas, PcSets DEF EnterPhase, InstallPcs
<1>1. PICK obj : obj = [kmd EXCEPT !.status.phase = phase] OBVIOUS
<1>2. SameBut(obj, work.kmd) BY <1>0, <1>1, RegisteredType DEF kmd
<1>3. /\ UNCHANGED <<cache, wq>>
      /\ \/ StatusSet(obj.status) /\ GotoWith(to, obj)
         \/ StatusNotSet /\ Goto("failed")
  BY <1>1 DEF EnterPhase
<1>4. obj.status \in Statuses BY <1>2 DEF SameBut, Kmds
<1>5. \A n \in Names : Publishes(n) /\ HandsOff(n) BY <1>0, <1>3, <1>4, StatusPublishes
<1>6. Proceeds BY <1>0, <1>2, <1>3, MovesProceed
<1>7. QED BY <1>3, <1>5, <1>6

\* InstallerFactory.
LEMMA FactoryProceeds ==
  ASSUME TypeInv, ObserveGeneration \/ NoInstaller \/ ReportFailure \/ RecordReady
  PROVE  /\ UNCHANGED wq /\ Proceeds
         /\ \A n \in Names : Publishes(n) /\ HandsOff(n)
<1>0. work.key \in Names /\ work.kmd \in Kmds
  BY WorkerHas
     DEF ObserveGeneration, NoInstaller, ReportFailure, RecordReady, InstallPcs, UninstallPcs
<1>a. /\ {"IntallModeFailed", "Succeeded"} \subseteq Reasons
      /\ {"install", "observe", "ready"} \subseteq InstallPcs /\ "uninstall" \in LetGoPcs
  BY DEF Reasons, InstallPcs, LetGoPcs, UninstallPcs
<1>b. work.kmd.status \in Statuses /\ SameBut(work.kmd, work.kmd) BY <1>0 DEF Kmds, SameBut
<1>1. CASE ObserveGeneration
  <2>1. PICK obj : /\ obj \in {kmd, WithReason([kmd EXCEPT !.status.obsGen = kmd.gen], "Progressing")}
                   /\ IF obj = kmd THEN UNCHANGED <<api, watch, faults>>
                      ELSE StatusSet(obj.status) \/ StatusNotSet
                   /\ GotoWith("install", obj)
                   /\ UNCHANGED <<cache, wq>>
                   /\ work.pc = "observe"
    BY <1>1 DEF ObserveGeneration
  <2>2. SameBut(obj, work.kmd) BY <1>0, <2>1, RegisteredType DEF kmd, SameBut
  <2>3. StatusSet(obj.status) \/ StatusNotSet \/ UNCHANGED <<api, watch>> BY <2>1
  <2>4. obj.status \in Statuses BY <2>2 DEF SameBut, Kmds
  <2>5. \A n \in Names : Publishes(n) /\ HandsOff(n) BY <1>0, <2>1, <2>3, <2>4, StatusPublishes
  <2>6. Proceeds BY <1>0, <1>a, <2>1, <2>2, MovesProceed
  <2>7. QED BY <2>1, <2>5, <2>6
<1>2. CASE NoInstaller
  <2>1. /\ Report("IntallModeFailed") /\ UNCHANGED apiVars /\ UNCHANGED wq
        /\ work.pc \in {"install", "uninstall"}
    BY <1>2 DEF NoInstaller
  <2>2. Proceeds BY <1>0, <1>a, <2>1, MovesProceed
  <2>3. QED BY <2>1, <2>2, StillPublishes
<1>3. CASE ReportFailure
  <2>1. /\ StatusSet(work.kmd.status) \/ StatusNotSet
        /\ Goto("failed") /\ UNCHANGED <<cache, wq>> /\ work.pc = "report"
    BY <1>3 DEF ReportFailure, kmd
  <2>2. \A n \in Names : Publishes(n) /\ HandsOff(n) BY <1>0, <1>b, <2>1, StatusPublishes
  <2>3. Proceeds BY <2>1, MovesProceed
  <2>4. QED BY <2>1, <2>2, <2>3
<1>4. CASE RecordReady
  <2>1. PICK obj : obj = WithReason(kmd, "Succeeded") OBVIOUS
  <2>2. SameBut(obj, work.kmd) BY <1>0, <1>a, <2>1, WithReasonType DEF kmd
  <2>3. /\ UNCHANGED <<cache, wq>> /\ work.pc = "ready"
        /\ \/ StatusSet(obj.status) /\ GotoWith("ok", obj)
           \/ StatusNotSet /\ Goto("failed")
    BY <1>4, <2>1 DEF RecordReady
  <2>4. obj.status \in Statuses /\ obj \in Kmds BY <2>2 DEF SameBut, Kmds
  <2>5. /\ \A n \in Names : Publishes(n) /\ HandsOff(n)
        /\ StatusSet(obj.status) =>
             /\ api[work.key] \in Kmds /\ api'[work.key] \in Kmds
             /\ api'[work.key].deleting = api[work.key].deleting
             /\ api'[work.key].finalizers = api[work.key].finalizers
    BY <1>0, <2>3, <2>4, StatusPublishes
  <2>6. CASE StatusSet(obj.status) /\ GotoWith("ok", obj)
    <3>1. work'.pc = "ok" /\ work'.key = work.key /\ work'.kmd = obj
      BY <2>4, <2>6, Moves, PcSets
    <3>2. Finishes BY <1>a, <2>2, <2>3, <2>5, <2>6, <3>1 DEF Finishes
    <3>3. Proceeds BY <1>0, <2>3, <3>1, <3>2 DEF Proceeds, Busy
    <3>4. QED BY <2>3, <2>5, <3>3
  <2>7. CASE Goto("failed")
    <3>1. Proceeds BY <1>a, <2>3, <2>7, MovesProceed
    <3>2. QED BY <2>3, <2>5, <3>1
  <2>8. QED BY <2>3, <2>6, <2>7
<1>5. QED BY <1>1, <1>2, <1>3, <1>4

\* installWorkflow.
LEMMA InstallProceeds ==
  ASSUME TypeInv, InstallStep
  PROVE  /\ UNCHANGED wq /\ Proceeds
         /\ \A n \in Names : Publishes(n) /\ HandsOff(n)
<1>a. /\ {"Preflight", "Deploying", "Completed"} \subseteq Phases
      /\ {"preflight", "chart", "namespace", "record", "ready", "helm", "helmWait", "completed",
          "install"} \subseteq InstallPcs
      /\ {"HelmChartFailed", "HelmInitFailed", "HelmReleaseFailed"} \subseteq Reasons
  BY DEF Phases, InstallPcs, Reasons
<1>1. CASE Preflight \/ Deploy \/ Completed
  BY <1>1, <1>a, PhaseProceeds DEF Preflight, Deploy, Completed
<1>2. CASE StoreKubeconfig
  <2>1. PICK obj : obj = [kmd EXCEPT !.status.secret = kmd.uid, !.status.cpr = TRUE,
                                     !.status.phase = "Completed"]
    OBVIOUS
  <2>2. /\ GotoWith("record", obj) /\ UNCHANGED apiVars /\ UNCHANGED wq /\ work.pc = "completed"
    BY <1>2, <2>1 DEF StoreKubeconfig
  <2>3. work.kmd \in Kmds BY <1>a, <2>2, WorkerHas
  <2>4. SameBut(obj, work.kmd) BY <2>1, <2>3, RegisteredType DEF kmd
  <2>5. Proceeds BY <1>a, <2>2, <2>4, MovesProceed
  <2>6. QED BY <2>2, <2>5, StillPublishes
<1>3. CASE ~(Preflight \/ Deploy \/ Completed \/ StoreKubeconfig)
  <2>1. /\ UNCHANGED apiVars /\ UNCHANGED wq
        /\ work.pc \in {"install", "chart", "namespace", "helm", "helmWait", "completed"}
        /\ \/ \E pc \in {"ready", "preflight", "helm", "helmWait", "completed", "failed"} : Goto(pc)
           \/ \E r \in {"HelmChartFailed", "HelmInitFailed", "HelmReleaseFailed"} : Report(r)
    <3>1. CASE Install
      <4>1. Goto("ready") \/ Goto("preflight") BY <3>1 DEF Install
      <4>2. QED BY <3>1, <4>1 DEF Install
    <3>2. CASE ChartNotFetched BY <3>2 DEF ChartNotFetched
    <3>3. CASE EnsureNamespace BY <3>3 DEF EnsureNamespace
    <3>4. CASE ValuesNotComposed \/ InstallRefused BY <3>4 DEF ValuesNotComposed, InstallRefused
    <3>5. CASE HelmInstalls BY <3>5 DEF HelmInstalls
    <3>6. CASE HelmDeploys BY <3>6 DEF HelmDeploys
    <3>7. CASE HelmInstallFails BY <3>7 DEF HelmInstallFails
    <3>8. CASE KubeconfigNotStored BY <3>8 DEF KubeconfigNotStored
    <3>9. QED BY <1>3, <3>1, <3>2, <3>3, <3>4, <3>5, <3>6, <3>7, <3>8 DEF InstallStep
  <2>2. work.pc \in InstallPcs /\ work.kmd \in Kmds BY <1>a, <2>1, WorkerHas
  <2>3. Proceeds BY <1>a, <2>1, <2>2, MovesProceed
  <2>4. QED BY <2>1, <2>3, StillPublishes
<1>4. QED BY <1>1, <1>2, <1>3

\* uninstallWorkflow.
LEMMA UninstallProceeds ==
  ASSUME TypeInv, UninstallStep
  PROVE  /\ UNCHANGED wq /\ Proceeds
         /\ \A n \in Names : Publishes(n) /\ HandsOff(n)
<1>1. /\ UNCHANGED apiVars /\ UNCHANGED wq /\ work.pc \in UninstallPcs
      /\ \/ \E pc \in {"finalize", "cleanup", "deleteNs", "failed"} : Goto(pc)
         \/ \E ns \in Namespaces : work' = [work EXCEPT !.pc = "helmUninstall", !.ns = ns]
  <2>1. CASE UninstallNothing BY <2>1 DEF UninstallNothing, UninstallPcs
  <2>2. CASE FindRelease BY <2>2 DEF FindRelease, UninstallPcs
  <2>3. CASE HelmUninstall BY <2>3 DEF HelmUninstall, UninstallPcs
  <2>4. CASE Cleanup BY <2>4 DEF Cleanup, UninstallPcs
  <2>5. CASE DeleteNamespace
    <3>1. Goto("finalize") \/ Goto("failed") BY <2>5 DEF DeleteNamespace
    <3>2. QED BY <2>5, <3>1 DEF DeleteNamespace, UninstallPcs
  <2>6. QED BY <2>1, <2>2, <2>3, <2>4, <2>5 DEF UninstallStep
<1>2. work.pc \in LetGoPcs /\ {"finalize", "cleanup", "deleteNs", "helmUninstall"} \subseteq LetGoPcs
  BY <1>1 DEF LetGoPcs, UninstallPcs
<1>3. Proceeds
  <2>1. CASE \E pc \in {"finalize", "cleanup", "deleteNs", "failed"} : Goto(pc)
    BY <1>2, <2>1, MovesProceed
  <2>2. CASE \E ns \in Namespaces : work' = [work EXCEPT !.pc = "helmUninstall", !.ns = ns]
    <3>1. work'.pc = "helmUninstall" /\ work'.key = work.key /\ work'.kmd = work.kmd
      BY <2>2, TypeParts DEF WorkType
    <3>2. LetsGo BY <1>2, <3>1 DEF LetsGo
    <3>3. work.pc # "idle" /\ work.key \in Names BY <1>2, PcDisjoint, WorkerHas
    <3>4. QED BY <3>1, <3>2, <3>3 DEF Proceeds, Busy
  <2>3. QED BY <1>1, <2>1, <2>2
<1>4. QED BY <1>1, <1>3, StillPublishes

\* The failures of syncHandler.
LEMMA FailureProceeds ==
  ASSUME TypeInv, SyncInstallFails \/ RemoveFinalizerFails
  PROVE  /\ UNCHANGED wq /\ Proceeds
         /\ \A n \in Names : Publishes(n) /\ HandsOff(n)
<1>1. /\ UNCHANGED apiVars /\ UNCHANGED wq /\ work.pc \in {"sync", "finalize"}
      /\ \/ Goto("failed")
         \/ work.pc = "finalize" /\ work' = [work EXCEPT !.tries = @ + 1]
  BY DEF SyncInstallFails, RemoveFinalizerFails
<1>2. CASE Goto("failed")
  <2>1. Proceeds BY <1>1, <1>2, MovesProceed DEF LetGoPcs
  <2>2. QED BY <1>1, <2>1, StillPublishes
<1>3. CASE work.pc = "finalize" /\ work' = [work EXCEPT !.tries = @ + 1]
  <2>1. work'.pc = "finalize" /\ work'.key = work.key /\ work'.kmd = work.kmd
    BY <1>3, TypeParts DEF WorkType
  <2>2. LetsGo /\ Busy BY <1>3, <2>1, WorkerHas DEF LetsGo, LetGoPcs, Busy
  <2>3. QED BY <1>1, <2>2, StillPublishes DEF Proceeds
<1>4. QED BY <1>1, <1>2, <1>3

\* What the informer holds is current to the handlers, or they will be told.
LEMMA CacheTold ==
  ASSUME TypeInv, NoticesOK, NEW n \in Names, ~SameToHandlers(cache[n], api[n])
  PROVE  NoticeAfter(n, 0) /\ Coming(n)
<1>1. 0 \in 0..Len(watch[n]) BY Latest
<1>2. Seen(n, 0) = cache[n] BY DEF Seen
<1>3. QED BY <1>1, <1>2 DEF NoticesOK, WillTell, Coming

\* A sync that finds nothing to do.
LEMMA NothingToDo ==
  ASSUME TypeInv, Noticed, WorkOK', SyncGone \/ NothingToFinalize
  PROVE  Noticed' /\ \A n \in Names : NotForgotten(n)
<1>a. NoticesOK /\ QueueOK /\ WorkNoticed /\ EditsNoticed BY DEF Noticed
<1>b. /\ UNCHANGED apiVars /\ UNCHANGED wq /\ work.pc \in {"sync", "finalize"} /\ Goto("ok")
  BY DEF SyncGone, NothingToFinalize
<1>c. /\ work'.pc = "ok" /\ work'.key = work.key /\ work'.kmd = work.kmd
      /\ work.key \in Names
  BY <1>b, Moves, PcSets, WorkerHas
<1>d. Busy BY <1>b, <1>c DEF Busy
<1>e. \A n \in Names : Publishes(n) /\ HandsOff(n) BY <1>b, StillPublishes
<1>1. NoticesOK' BY <1>a, <1>e, NoticesKept
<1>2. QueueOK' BY <1>a, <1>b, <1>d, QueueKept
<1>3. PICK n \in Names : n = work.key BY <1>c
<1>4. SyncGone => (Exists(n) => Coming(n))
  <2> SUFFICES ASSUME SyncGone, Exists(n) PROVE Coming(n)
    OBVIOUS
  <2>1. cache[n] = NoKmd BY <1>3 DEF SyncGone, key
  <2>2. ~SameToHandlers(cache[n], api[n]) BY <2>1 DEF SameToHandlers, Exists
  <2>3. QED BY <1>a, <2>2, CacheTold
<1>5. NothingToFinalize =>
        /\ work.kmd.deleting
        /\ Unsettled(n) => Coming(n)
  <2> SUFFICES ASSUME NothingToFinalize
               PROVE  work.kmd.deleting /\ (Unsettled(n) => Coming(n))
    OBVIOUS
  <2>1. /\ work.pc = "finalize"
        /\ cache[n] # NoKmd => InstallerFinalizer \notin cache[n].finalizers
    BY <1>3 DEF NothingToFinalize, key
  <2>2. work.kmd.deleting /\ (Live(n) => Coming(n))
    BY <1>a, <1>3, <2>1 DEF WorkNoticed, key, kmd
  <2>3. ASSUME Unsettled(n), ~Live(n) PROVE Coming(n)
    <3>1. Exists(n) /\ api[n].deleting /\ InstallerFinalizer \in api[n].finalizers
      BY <2>3 DEF Unsettled, Live
    <3>2. ~Fresh(n)
      <4>1. cache[n] # api[n] BY <2>1, <3>1 DEF Exists
      <4>2. QED BY <4>1, FreshIsStored
    <3>3. QED BY <3>1, <3>2, DeletionTold DEF Coming
  <2>4. QED BY <2>2, <2>3
<1>6. Coming(n) => Coming(n)' BY <1>b, <1>e, ComingKept
<1>7. /\ Unsettled(n)' <=> Unsettled(n)
      /\ Exists(n)' <=> Exists(n)
  BY <1>b DEF apiVars, Unsettled, Exists
<1>8. WorkNoticed'
  <2>1. Unsettled(n)' => Coming(n)' BY <1>4, <1>5, <1>6, <1>7 DEF Unsettled
  <2>2. QED BY <1>c, <1>3, <2>1, PcDisjoint, WorkNoticedNext
<1>9. EditsNoticed'
  <2>1. Exists(n)' /\ ~work'.kmd.deleting => Coming(n)' BY <1>4, <1>5, <1>6, <1>7, <1>c
  <2>2. QED BY <1>c, <1>3, <2>1, EditsNoticedNext
<1>10. ASSUME NEW m \in Names PROVE NotForgotten(m)
  BY <1>b, <1>d, <1>e, NothingLost DEF Busy
<1>11. QED BY <1>1, <1>2, <1>8, <1>9, <1>10 DEF Noticed

\* A sync that finds the object deleted.
LEMMA DeletedNoticed ==
  ASSUME TypeInv, Noticed, WorkOK', SyncDeleted
  PROVE  Noticed' /\ \A n \in Names : NotForgotten(n)
<1>a. NoticesOK /\ QueueOK /\ WorkNoticed /\ EditsNoticed BY DEF Noticed
<1>0. PICK n \in Names : n = work.key BY WorkerHas DEF SyncDeleted
<1>b. /\ UNCHANGED apiVars /\ UNCHANGED wq /\ work.pc = "sync"
      /\ cache[n] # NoKmd /\ cache[n].deleting
      /\ GotoWith("uninstall", cache[n]) \/ GotoWith("finalize", cache[n])
  BY <1>0 DEF SyncDeleted, key
<1>1. cache[n] \in Kmds BY <1>b, TypeParts DEF ApiTypeOK
<1>2. work'.pc \in LetGoPcs /\ work'.key = n /\ work'.kmd = cache[n]
  BY <1>0, <1>1, <1>b, Moves, PcSets DEF LetGoPcs, UninstallPcs
<1>3. Busy BY <1>0, <1>2, <1>b, PcDisjoint DEF Busy
<1>4. \A m \in Names : Publishes(m) /\ HandsOff(m) BY <1>b, StillPublishes
<1>5. NoticesOK' BY <1>a, <1>4, NoticesKept
<1>6. QueueOK' BY <1>a, <1>b, <1>3, QueueKept
<1>7. WorkNoticed'
  <2>1. Live(n)' <=> Live(n) BY <1>b DEF apiVars, Live, Exists
  <2>2. Coming(n) => Coming(n)' BY <1>4, <1>b, ComingKept
  <2>3. Live(n) => Coming(n)
    <3> SUFFICES ASSUME Live(n) PROVE Coming(n)
      OBVIOUS
    <3>1. ~SameToHandlers(cache[n], api[n]) BY <1>b DEF SameToHandlers, Live, Exists
    <3>2. QED BY <1>a, <3>1, CacheTold
  <2>4. QED BY <1>0, <1>1, <1>2, <1>b, <2>1, <2>2, <2>3, PcDisjoint, WorkNoticedNext
<1>8. EditsNoticed' BY <1>2, PcDisjoint, EditsNoticedNext
<1>9. \A m \in Names : NotForgotten(m) BY <1>3, <1>4, <1>b, NothingLost DEF Busy
<1>10. QED BY <1>5, <1>6, <1>7, <1>8, <1>9 DEF Noticed

\* A sync that takes charge of the object: the copy it goes on with is the one that
\* is stored, or the worker will be told otherwise.
LEMMA InstallNoticed ==
  ASSUME TypeInv, Noticed, WorkOK', SyncInstall
  PROVE  Noticed' /\ \A n \in Names : NotForgotten(n)
<1>a. NoticesOK /\ QueueOK /\ WorkNoticed /\ EditsNoticed BY DEF Noticed
<1>0. PICK n \in Names : n = work.key BY WorkerHas DEF SyncInstall
<1>b. /\ UNCHANGED cache /\ UNCHANGED wq /\ work.pc = "sync"
      /\ cache[n] # NoKmd /\ ~cache[n].deleting
  BY <1>0 DEF SyncInstall, key
<1>c. PICK ns \in RandomNamespaces[n] :
        /\ GotoWith("observe", Defaulted(cache[n], ns))
        /\ IF IsUpdate(cache[n])
           THEN Fresh(n) /\ Update(n, Defaulted(cache[n], ns))
           ELSE UNCHANGED <<api, watch>>
  BY <1>0 DEF SyncInstall, key
<1>1. PICK old \in Kmds : old = cache[n] BY <1>b, TypeParts DEF ApiTypeOK
<1>2. PICK obj \in Kmds : obj = Defaulted(old, ns) BY DefaultedType
<1>3. /\ obj.uid = old.uid /\ ~obj.deleting /\ SpecSeen(obj.spec, old.spec)
      /\ InstallerFinalizer \in obj.finalizers
  <2>1. /\ Defaulted(old, ns).uid = old.uid /\ Defaulted(old, ns).deleting = old.deleting
        /\ Defaulted(old, ns).finalizers = old.finalizers \cup {InstallerFinalizer}
        /\ SpecSeen(Defaulted(old, ns).spec, old.spec)
    BY DefaultedType
  <2>2. ~old.deleting BY <1>1, <1>b
  <2>3. QED BY <1>2, <2>1, <2>2
<1>4. work'.pc = "observe" /\ work'.key = n /\ work'.kmd = obj
  <2>1. "observe" \in Pcs BY DEF Pcs, InstallPcs
  <2>2. QED BY <1>0, <1>1, <1>2, <1>c, <2>1, Moves
<1>5. Busy BY <1>0, <1>4, <1>b DEF Busy
<1>6. /\ \A m \in Names : Publishes(m)
      /\ \A m \in Names : m # n => HandsOff(m)
      /\ \/ api'[n] \in Kmds /\ ~api'[n].deleting /\ api'[n].spec = obj.spec
            /\ InstallerFinalizer \in api'[n].finalizers
         \/ api' = api /\ InstallerFinalizer \in old.finalizers
  <2>1. CASE IsUpdate(cache[n])
    <3>1. Fresh(n) /\ Update(n, obj) BY <1>1, <1>2, <1>c, <2>1
    <3>2. api[n] = old BY <1>1, <3>1, FreshIsStored
    <3>3. /\ \A m \in Names : Publishes(m)
          /\ \A m \in Names : m # n => api'[m] = api[m]
          /\ \/ api'[n] = NoKmd /\ obj.deleting
             \/ /\ api'[n] \in Kmds /\ api'[n].deleting = obj.deleting
                /\ api'[n].finalizers = obj.finalizers /\ api'[n].spec = obj.spec
      BY <1>1, <1>3, <1>b, <3>1, <3>2, UpdatePublishes
    <3>4. QED BY <1>3, <3>3 DEF HandsOff
  <2>2. CASE ~IsUpdate(cache[n])
    <3>1. UNCHANGED <<api, watch, cache>> BY <1>b, <1>c, <2>2
    <3>2. QED BY <1>1, <2>2, <3>1, NothingPublished DEF IsUpdate
  <2>3. QED BY <2>1, <2>2
<1>7. NoticesOK' BY <1>a, <1>6, NoticesKept
<1>8. QueueOK' BY <1>a, <1>b, <1>5, QueueKept
<1>9. WorkNoticed'
  <2>1. "observe" \in InstallPcs BY DEF InstallPcs
  <2>2. QED BY <1>3, <1>4, <2>1, PcDisjoint, WorkNoticedNext
<1>10. EditsNoticed'
  <2>1. ASSUME Exists(n)', api'[n].uid = obj.uid
        PROVE  (Live(n)' /\ SpecSeen(obj.spec, api'[n].spec)) \/ Coming(n)'
    <3>1. CASE api'[n] \in Kmds /\ ~api'[n].deleting /\ api'[n].spec = obj.spec
      <4>1. SpecSeen(obj.spec, api'[n].spec) BY <3>1 DEF SpecSeen
      <4>2. QED BY <2>1, <3>1, <4>1 DEF Live
    <3>2. CASE api' = api /\ SameToHandlers(old, api[n])
      <4>1. api'[n].spec = old.spec /\ ~api'[n].deleting
        BY <1>1, <1>b, <2>1, <3>2 DEF SameToHandlers, Exists
      <4>2. QED BY <1>3, <2>1, <4>1 DEF Live
    <3>3. CASE api' = api /\ ~SameToHandlers(old, api[n])
      <4>1. Coming(n) BY <1>1, <1>a, <3>3, CacheTold
      <4>2. QED BY <1>6, <1>b, <4>1, ComingKept
    <3>4. QED BY <1>6, <3>1, <3>2, <3>3
  <2>2. QED BY <1>4, <2>1, EditsNoticedNext
<1>11. ASSUME NEW m \in Names PROVE NotForgotten(m)
  <2>1. CASE m = n
    <3>1. Owed(m)' BY <1>4, <2>1 DEF Owed, key
    <3>2. QED BY <3>1 DEF NotForgotten
  <2>2. CASE m # n BY <1>5, <1>6, <1>b, <2>2, NothingLost DEF Busy
  <2>3. QED BY <2>1, <2>2
<1>12. QED BY <1>7, <1>8, <1>9, <1>10, <1>11 DEF Noticed

\* A sync that lets go of the object.
LEMMA FinalizerNoticed ==
  ASSUME TypeInv, WorkerOK, Noticed, WorkOK', RemoveFinalizer
  PROVE  Noticed' /\ \A n \in Names : NotForgotten(n)
<1>a. NoticesOK /\ QueueOK /\ WorkNoticed /\ EditsNoticed BY DEF Noticed
<1>0. PICK n \in Names : n = work.key BY WorkerHas DEF RemoveFinalizer
<1>b. /\ work.pc = "finalize" /\ Fresh(n) /\ cache[n] # NoKmd
      /\ InstallerFinalizer \in cache[n].finalizers
      /\ Update(n, [cache[n] EXCEPT !.finalizers = @ \ {InstallerFinalizer}])
      /\ Goto("ok") /\ UNCHANGED cache /\ UNCHANGED wq
  BY <1>0 DEF RemoveFinalizer, key
<1>1. PICK old \in Kmds : old = cache[n] BY <1>b, TypeParts DEF ApiTypeOK
<1>2. api[n] = old BY <1>1, <1>b, FreshIsStored
<1>3. old.deleting BY <1>0, <1>1, <1>2, <1>b, NoKmdIsNone DEF WorkerOK, Unguarded, Live, Exists
<1>4. PICK obj \in Kmds : obj = [old EXCEPT !.finalizers = @ \ {InstallerFinalizer}]
  BY FinalizersType
<1>5. /\ obj.uid = old.uid /\ obj.deleting = old.deleting
      /\ InstallerFinalizer \notin obj.finalizers
  BY <1>4, FinalizersType
<1>6. /\ \A m \in Names : Publishes(m)
      /\ \A m \in Names : m # n => api'[m] = api[m]
      /\ \/ api'[n] = NoKmd
         \/ /\ api'[n] \in Kmds /\ api'[n].deleting
            /\ InstallerFinalizer \notin api'[n].finalizers
  <2>1. Update(n, obj) BY <1>1, <1>4, <1>b
  <2>2. /\ \A m \in Names : Publishes(m)
        /\ \A m \in Names : m # n => api'[m] = api[m]
        /\ \/ api'[n] = NoKmd
           \/ /\ api'[n] \in Kmds /\ api'[n].deleting = obj.deleting
              /\ api'[n].finalizers = obj.finalizers
    BY <1>2, <1>5, <1>b, <2>1, UpdatePublishes
  <2>3. QED BY <1>3, <1>5, <2>2
<1>7. /\ work'.pc = "ok" /\ work'.key = n /\ work'.kmd = work.kmd
  BY <1>0, <1>b, Moves, PcSets
<1>8. Busy BY <1>0, <1>7, <1>b DEF Busy
<1>9. NoticesOK' BY <1>a, <1>6, NoticesKept
<1>10. QueueOK' BY <1>a, <1>8, <1>b, QueueKept
<1>11. WorkNoticed'
  <2>1. ~Unsettled(n)' BY <1>6 DEF Unsettled, Exists
  <2>2. QED BY <1>7, <2>1, PcDisjoint, WorkNoticedNext
<1>12. EditsNoticed'
  <2>1. work'.kmd.deleting BY <1>7, <1>a, <1>b DEF WorkNoticed, kmd
  <2>2. QED BY <1>7, <2>1, EditsNoticedNext
<1>13. ASSUME NEW m \in Names PROVE NotForgotten(m)
  <2>1. CASE m = n
    <3>1. Owed(m)' BY <1>7, <2>1 DEF Owed, key
    <3>2. QED BY <3>1 DEF NotForgotten
  <2>2. CASE m # n
    <3>1. HandsOff(m) BY <1>6, <2>2 DEF HandsOff
    <3>2. QED BY <1>6, <1>8, <1>b, <3>1, NothingLost DEF Busy
  <2>3. QED BY <2>1, <2>2
<1>14. QED BY <1>9, <1>10, <1>11, <1>12, <1>13 DEF Noticed

-----------------------------------------------------------------------------
(* Steps of the informer and of the queue *)

\* A key that is added will be synced, whatever the queue and the worker hold.
LEMMA Added ==
  ASSUME TypeInv, QueueOK, NEW n \in Names, NEW q \in QueueType(Names, MaxRetry),
         q.dirty = wq.dirty, q.queue = wq.queue, q.processing = wq.processing,
         wq' = Add(q, n), UNCHANGED work
  PROVE  /\ QueueOK'
         /\ wq'.dirty = wq.dirty \cup {n} /\ wq'.waiting = q.waiting
         /\ \A m : Queued(wq, m) => Queued(wq', m)
         /\ Queued(wq', n) \/ (work'.pc # "idle" /\ work'.key = n)
<1>1. /\ wq'.dirty = wq.dirty \cup {n}
      /\ wq'.processing = wq.processing /\ wq'.waiting = q.waiting
      /\ \A m : Queued(q, m) => Queued(wq', m)
      /\ n \in wq.dirty \cup wq.processing \/ Queued(wq', n)
  BY AddKeeps
<1>2. \A m : Queued(q, m) <=> Queued(wq, m) BY DEF Queued
<1>3. /\ wq.processing = IF work.pc = "idle" THEN {} ELSE {work.key}
      /\ \A m \in wq.dirty \ wq.processing : Queued(wq, m)
  BY DEF QueueOK, key
<1>4. n \in wq.processing \/ Queued(wq', n) BY <1>1, <1>2, <1>3
<1>5. \A m \in wq'.dirty \ wq'.processing : Queued(wq', m) BY <1>1, <1>2, <1>3, <1>4
<1>6. wq'.processing = IF work'.pc = "idle" THEN {} ELSE {work'.key} BY <1>1, <1>3
<1>7. QueueOK' BY <1>5, <1>6 DEF QueueOK, key, Queued
<1>8. QED BY <1>1, <1>2, <1>3, <1>4, <1>7

\* The worker stands still, and what was coming still comes.
LEMMA WaitsNoticed ==
  ASSUME TypeInv, WorkNoticed, EditsNoticed, UNCHANGED <<api, work>>,
         \A m \in Names : Coming(m) => Coming(m)'
  PROVE  WorkNoticed' /\ EditsNoticed'
<1>1. /\ \A m \in Names : Live(m)' <=> Live(m)
      /\ \A m \in Names : Unsettled(m)' <=> Unsettled(m)
      /\ \A m \in Names : Exists(m)' <=> Exists(m)
  BY DEF Live, Unsettled, Exists
<1>2. work'.pc # "idle" => work'.key \in Names BY WorkerHas
<1>3. WorkNoticed' BY <1>1, <1>2, WorkNoticedNext DEF WorkNoticed, LetGoPcs, key, kmd
<1>4. EditsNoticed' BY <1>1, <1>2, EditsNoticedNext DEF EditsNoticed, key, kmd
<1>5. QED BY <1>3, <1>4

\* No object changes, and what was owed is still owed.
LEMMA NothingLostInQueue ==
  ASSUME UNCHANGED api, NEW n \in Names, Owed(n) => Owed(n)'
  PROVE  NotForgotten(n)
BY DEF NotForgotten, Unsettled, Exists

\* The informer tells the handlers, and they enqueue the key.
LEMMA EventNoticed ==
  ASSUME TypeInv, Noticed, NEW n \in Names, InformerEvent(n)
  PROVE  Noticed' /\ \A m \in Names : NotForgotten(m)
<1>a. NoticesOK /\ QueueOK /\ WorkNoticed /\ EditsNoticed BY DEF Noticed
<1>b. /\ Deliver(n) /\ UNCHANGED work /\ UNCHANGED api
      /\ wq' = IF Notifies(cache[n], Head(watch[n])) THEN Add(wq, n) ELSE wq
  BY DEF InformerEvent, Deliver
<1>c. wq \in QueueType(Names, MaxRetry) BY TypeParts
<1>1. /\ WillTell(n) => WillTell(n)'
      /\ NoticeAfter(n, 0) => NoticeAfter(n, 0)' \/ Notifies(cache[n], Head(watch[n]))
      /\ \A m \in Names : m # n => Publishes(m)
  BY <1>b, NoticesDeliver DEF Publishes
<1>2. NoticesOK' BY <1>1, <1>a, Told DEF NoticesOK
<1>3. /\ QueueOK'
      /\ wq.dirty \subseteq wq'.dirty /\ wq'.waiting = wq.waiting
      /\ \A m : Queued(wq, m) => Queued(wq', m)
      /\ Notifies(cache[n], Head(watch[n])) =>
           n \in wq'.dirty /\ (Queued(wq', n) \/ (work'.pc # "idle" /\ work'.key = n))
  <2>1. CASE Notifies(cache[n], Head(watch[n]))
    <3>1. wq' = Add(wq, n) BY <1>b, <2>1
    <3>2. QED BY <1>a, <1>b, <1>c, <3>1, Added
  <2>2. CASE ~Notifies(cache[n], Head(watch[n]))
    <3>1. wq' = wq /\ work' = work BY <1>b, <2>2
    <3>2. QED BY <1>a, <2>2, <3>1, QueueKept
  <2>3. QED BY <2>1, <2>2
<1>4. \A m \in Names : NoticeAfter(m, 0) =>
        NoticeAfter(m, 0)' \/ (m = n /\ Notifies(cache[n], Head(watch[n])))
  BY <1>1, Told
<1>5. \A m \in Names : Coming(m) => Coming(m)' BY <1>3, <1>4 DEF Coming
<1>6. WorkNoticed' /\ EditsNoticed' BY <1>5, <1>a, <1>b, WaitsNoticed
<1>7. ASSUME NEW m \in Names PROVE NotForgotten(m)
  <2>1. Owed(m) => Owed(m)' BY <1>3, <1>4, <1>b DEF Owed, key, Queued
  <2>2. QED BY <1>b, <2>1, NothingLostInQueue
<1>8. QED BY <1>2, <1>3, <1>6, <1>7 DEF Noticed

\* A back-off elapses.
LEMMA BackoffNoticed ==
  ASSUME TypeInv, Noticed, NEW n \in Names, BackoffElapses(n)
  PROVE  Noticed' /\ \A m \in Names : NotForgotten(m)
<1>a. NoticesOK /\ QueueOK /\ WorkNoticed /\ EditsNoticed BY DEF Noticed
<1>b. UNCHANGED apiVars /\ UNCHANGED work /\ wq' = Elapse(wq, n) BY DEF BackoffElapses
<1>c. wq \in QueueType(Names, MaxRetry) BY TypeParts
<1>1. PICK q \in QueueType(Names, MaxRetry) :
        /\ q.dirty = wq.dirty /\ q.queue = wq.queue /\ q.processing = wq.processing
        /\ q.waiting = wq.waiting \ {n} /\ wq' = Add(q, n)
  BY <1>b, <1>c, LimiterKeeps DEF Elapse
<1>2. /\ QueueOK'
      /\ wq'.dirty = wq.dirty \cup {n} /\ wq'.waiting = wq.waiting \ {n}
      /\ \A m : Queued(wq, m) => Queued(wq', m)
      /\ Queued(wq', n) \/ (work'.pc # "idle" /\ work'.key = n)
  BY <1>1, <1>a, <1>b, Added
<1>3. \A m \in Names : Publishes(m) BY <1>b, StillPublishes
<1>4. NoticesOK' BY <1>3, <1>a, NoticesKept
<1>5. \A m \in Names : NoticeAfter(m, 0) => NoticeAfter(m, 0)' BY <1>3, Told
<1>6. \A m \in Names : Coming(m) => Coming(m)' BY <1>2, <1>5 DEF Coming
<1>7. UNCHANGED <<api, work>> BY <1>b DEF apiVars
<1>8. WorkNoticed' /\ EditsNoticed' BY <1>6, <1>7, <1>a, WaitsNoticed
<1>9. ASSUME NEW m \in Names PROVE NotForgotten(m)
  <2>1. Owed(m) => Owed(m)' BY <1>2, <1>5, <1>b DEF Owed, key, Queued
  <2>2. QED BY <1>7, <2>1, NothingLostInQueue
<1>10. QED BY <1>2, <1>4, <1>8, <1>9 DEF Noticed

\* A worker without a copy has nothing to be told.
LEMMA NothingInHand ==
  ASSUME work'.pc \in {"idle", "sync"}, work'.pc = "idle" \/ work'.key \in Names
  PROVE  WorkNoticed' /\ EditsNoticed'
BY PcDisjoint, WorkNoticedNext, EditsNoticedNext

\* The worker takes the first key.
LEMMA TakeNoticed ==
  ASSUME TypeInv, Noticed, TakeKey
  PROVE  Noticed' /\ \A m \in Names : NotForgotten(m)
<1>a. NoticesOK /\ QueueOK BY DEF Noticed
<1>b. /\ work.pc = "idle" /\ wq.queue # <<>> /\ wq' = Get(wq) /\ UNCHANGED apiVars
      /\ work' = [Idle EXCEPT !.pc = "sync", !.key = Head(wq.queue)]
  BY DEF TakeKey
<1>c. wq \in QueueType(Names, MaxRetry) BY TypeParts
<1>1. PICK h : h = Head(wq.queue) OBVIOUS
<1>2. /\ h \in Names
      /\ wq'.dirty = wq.dirty \ {h} /\ wq'.processing = wq.processing \cup {h}
      /\ wq'.waiting = wq.waiting
      /\ \A m : Queued(wq, m) /\ m # h => Queued(wq', m)
  BY <1>1, <1>b, <1>c, GetKeeps
<1>3. work'.pc = "sync" /\ work'.key = h
  BY <1>1, <1>2, <1>b, IdleType DEF WorkType
<1>4. QueueOK'
  <2>1. wq.processing = {} /\ \A m \in wq.dirty : Queued(wq, m) BY <1>a, <1>b DEF QueueOK
  <2>2. wq'.processing = {work'.key} /\ work'.pc # "idle" BY <1>2, <1>3, <2>1
  <2>3. \A m \in wq'.dirty \ wq'.processing : Queued(wq', m) BY <1>2, <2>1
  <2>4. QED BY <2>2, <2>3 DEF QueueOK, Queued, key
<1>5. \A m \in Names : Publishes(m) BY <1>b, StillPublishes
<1>6. NoticesOK' BY <1>5, <1>a, NoticesKept
<1>7. WorkNoticed' /\ EditsNoticed' BY <1>2, <1>3, NothingInHand
<1>8. ASSUME NEW m \in Names PROVE NotForgotten(m)
  <2>1. NoticeAfter(m, 0) => NoticeAfter(m, 0)' BY <1>5, Told
  <2>2. Owed(m) => Owed(m)' BY <1>2, <1>3, <1>b, <2>1 DEF Owed, key, Queued
  <2>3. UNCHANGED api BY <1>b DEF apiVars
  <2>4. QED BY <2>2, <2>3, NothingLostInQueue
<1>9. QED BY <1>4, <1>6, <1>7, <1>8 DEF Noticed

\* The worker gives its key back, through the rate limiter.
LEMMA GivenBack ==
  ASSUME TypeInv, Noticed, work.pc # "idle", NEW n \in Names, n = work.key,
         NEW q \in QueueType(Names, MaxRetry),
         q.dirty = wq.dirty, q.queue = wq.queue, q.processing = wq.processing,
         wq.waiting \subseteq q.waiting,
         wq' = Done(q, n), work' = Idle, UNCHANGED apiVars
  PROVE  /\ Noticed'
         /\ \A m \in Names : m # n => NotForgotten(m)
         /\ Coming(n) \/ n \in q.waiting => Owed(n)'
         /\ UNCHANGED api
<1>a. NoticesOK /\ QueueOK BY DEF Noticed
<1>1. /\ wq'.dirty = wq.dirty /\ wq'.processing = wq.processing \ {n}
      /\ wq'.waiting = q.waiting
      /\ \A m : Queued(q, m) => Queued(wq', m)
      /\ n \in wq.dirty => Queued(wq', n)
  BY DoneKeeps
<1>2. \A m : Queued(q, m) <=> Queued(wq, m) BY DEF Queued
<1>3. work'.pc = "idle" BY IdleType
<1>4. QueueOK'
  <2>1. wq.processing = {n} /\ \A m \in wq.dirty \ {n} : Queued(wq, m) BY <1>a DEF QueueOK, key
  <2>2. wq'.processing = {} BY <1>1, <2>1
  <2>3. \A m \in wq'.dirty : Queued(wq', m) BY <1>1, <1>2, <2>1
  <2>4. QED BY <1>3, <2>2, <2>3 DEF QueueOK, Queued
<1>5. \A m \in Names : Publishes(m) BY StillPublishes
<1>6. NoticesOK' BY <1>5, <1>a, NoticesKept
<1>7. WorkNoticed' /\ EditsNoticed' BY <1>3, NothingInHand
<1>8. UNCHANGED api BY DEF apiVars
<1>9. \A m \in Names : NoticeAfter(m, 0) => NoticeAfter(m, 0)' BY <1>5, Told
<1>10. ASSUME NEW m \in Names, m # n PROVE NotForgotten(m)
  <2>1. Owed(m) => Owed(m)' BY <1>1, <1>2, <1>9, <1>10 DEF Owed, key, Queued
  <2>2. QED BY <1>8, <2>1, NothingLostInQueue
<1>11. Coming(n) \/ n \in q.waiting => Owed(n)' BY <1>1, <1>9 DEF Coming, Owed, Queued
<1>12. QED BY <1>4, <1>6, <1>7, <1>8, <1>10, <1>11 DEF Noticed

\* A sync that went well, one that is retried, and one that is given up.
LEMMA ReturnNoticed ==
  ASSUME TypeInv, Noticed, Succeed \/ Retry \/ Drop
  PROVE  Noticed' /\ \A m \in Names : NotForgotten(m)
<1>a. WorkNoticed BY DEF Noticed
<1>b. wq \in QueueType(Names, MaxRetry) /\ MaxRetry \in Nat BY TypeParts, InstallerAssumption
<1>c. UNCHANGED apiVars /\ work' = Idle /\ work.pc # "idle" BY DEF Succeed, Retry, Drop
<1>0. PICK n \in Names : n = work.key BY <1>c, WorkerHas
<1>1. CASE Succeed
  <2>1. wq' = Done(Forget(wq, n), n) /\ work.pc = "ok" BY <1>0, <1>1 DEF Succeed, key
  <2>2. PICK q \in QueueType(Names, MaxRetry) : q = Forget(wq, n) BY <1>b, ForgetType
  <2>3. /\ q.dirty = wq.dirty /\ q.queue = wq.queue /\ q.processing = wq.processing
        /\ wq.waiting \subseteq q.waiting
    BY <1>b, <2>2, LimiterKeeps
  <2>4. /\ Noticed' /\ UNCHANGED api
        /\ \A m \in Names : m # n => NotForgotten(m)
        /\ Coming(n) => Owed(n)'
    BY <1>0, <1>c, <2>1, <2>2, <2>3, GivenBack
  <2>5. Unsettled(n) => Coming(n) BY <1>0, <1>a, <2>1 DEF WorkNoticed, key
  <2>6. NotForgotten(n) BY <2>4, <2>5 DEF NotForgotten, Unsettled, Exists
  <2>7. QED BY <2>4, <2>6
<1>2. CASE Retry
  <2>1. wq' = Done(AddRateLimited(wq, n), n) /\ wq.failures[n] < MaxRetry
    BY <1>0, <1>2 DEF Retry, key
  <2>2. PICK q \in QueueType(Names, MaxRetry) : q = AddRateLimited(wq, n)
    BY <1>b, <2>1, AddRateLimitedType
  <2>3. /\ q.dirty = wq.dirty /\ q.queue = wq.queue /\ q.processing = wq.processing
        /\ q.waiting = wq.waiting \cup {n}
    BY <1>b, <2>2, LimiterKeeps
  <2>4. /\ Noticed'
        /\ \A m \in Names : m # n => NotForgotten(m)
        /\ n \in q.waiting => Owed(n)'
    BY <1>0, <1>c, <2>1, <2>2, <2>3, GivenBack
  <2>5. NotForgotten(n) BY <2>3, <2>4 DEF NotForgotten
  <2>6. QED BY <2>4, <2>5
<1>3. CASE Drop
  <2>1. /\ wq' = Done(Forget(wq, n), n) /\ wq.failures[n] >= MaxRetry /\ work.pc = "failed"
    BY <1>0, <1>3 DEF Drop, key
  <2>2. PICK q \in QueueType(Names, MaxRetry) : q = Forget(wq, n) BY <1>b, ForgetType
  <2>3. /\ q.dirty = wq.dirty /\ q.queue = wq.queue /\ q.processing = wq.processing
        /\ wq.waiting \subseteq q.waiting
    BY <1>b, <2>2, LimiterKeeps
  <2>4. /\ Noticed'
        /\ \A m \in Names : m # n => NotForgotten(m)
    BY <1>0, <1>c, <2>1, <2>2, <2>3, GivenBack
  <2>5. NotForgotten(n) BY <1>0, <2>1 DEF NotForgotten, key
  <2>6. QED BY <2>4, <2>5
<1>4. QED BY <1>1, <1>2, <1>3

\* A process that starts is told of every object.
LEMMA RestartNoticed ==
  ASSUME TypeInv, Restart
  PROVE  Noticed' /\ \A m \in Names : NotForgotten(m)
<1>1. Relist /\ wq' = EmptyQueue(Names) /\ work' = Idle /\ UNCHANGED api BY DEF Restart, Relist
<1>2. work'.pc = "idle" BY <1>1, IdleType
<1>3. NoticesOK'
  <2>1. \A n \in Names : WillTell(n)' BY <1>1, NoticesRelist
  <2>2. QED BY <2>1 DEF NoticesOK
<1>4. wq'.processing = {} /\ wq'.dirty = {} BY <1>1 DEF EmptyQueue
<1>5. QueueOK' BY <1>2, <1>4 DEF QueueOK
<1>6. WorkNoticed' /\ EditsNoticed' BY <1>2, NothingInHand
<1>7. ASSUME NEW m \in Names PROVE NotForgotten(m)
  <2>1. Exists(m) => NoticeAfter(m, 0)' BY <1>1, NoticesRelist
  <2>2. QED BY <1>1, <2>1 DEF NotForgotten, Unsettled, Exists, Owed
<1>8. QED BY <1>3, <1>5, <1>6, <1>7 DEF Noticed

-----------------------------------------------------------------------------
\* Nothing exists, and nothing is to be told, when the operator starts.
LEMMA NoticeInit == Init => NoticeInv
<1> SUFFICES ASSUME Init PROVE NoticeInv
  OBVIOUS
<1>1. IInv BY InvInit
<1>2. /\ api = [n \in Names |-> NoKmd] /\ watch = [n \in Names |-> <<>>]
      /\ cache = [n \in Names |-> NoKmd] /\ work = Idle /\ wq = EmptyQueue(Names)
  BY DEF Init, ApiInit
<1>3. NoticesOK
  <2> SUFFICES ASSUME NEW n \in Names, NEW i \in 0..Len(watch[n])
               PROVE  SameToHandlers(Seen(n, i), api[n])
    BY DEF NoticesOK, WillTell
  <2>1. i = 0 /\ cache[n] = api[n] BY <1>2
  <2>2. QED BY <2>1, SameIsEquivalence DEF Seen
<1>4. work.pc = "idle" BY <1>2, IdleType
<1>5. QueueOK BY <1>2, <1>4 DEF QueueOK, EmptyQueue
<1>6. WorkNoticed /\ EditsNoticed BY <1>4, PcDisjoint DEF WorkNoticed, EditsNoticed, LetGoPcs
<1>7. QED BY <1>1, <1>3, <1>5, <1>6 DEF NoticeInv

\* Every step keeps what is coming, and forgets nothing.
LEMMA StepNoticed ==
  ASSUME TypeInv, WorkerOK, WorkOK', Noticed, [Next]_vars
  PROVE  Noticed' /\ \A n \in Names : NotForgotten(n)
<1>1. CASE \/ UserStep /\ UNCHANGED <<ctlVars, extVars, faults>>
           \/ ClusterStep \/ UNCHANGED vars
  <2>1. UNCHANGED wq /\ Proceeds
    BY <1>1 DEF ClusterStep, NamespaceGone, SecretCollected, vars, ctlVars, Proceeds
  <2>2. \A n \in Names : Publishes(n) /\ HandsOff(n)
    <3>1. CASE UserStep BY <3>1, UserPublishes DEF UserStep
    <3>2. CASE ClusterStep \/ UNCHANGED vars
      <4>1. UNCHANGED apiVars
        BY <3>2 DEF ClusterStep, NamespaceGone, SecretCollected, vars, apiVars
      <4>2. QED BY <4>1, StillPublishes
    <3>3. QED BY <1>1, <3>1, <3>2
  <2>3. QED BY <2>1, <2>2, ProceedsNoticed
<1>2. CASE \E n \in Names : InformerEvent(n) \/ BackoffElapses(n)
  BY <1>2, EventNoticed, BackoffNoticed
<1>3. CASE TakeKey \/ Succeed \/ Retry \/ Drop BY <1>3, TakeNoticed, ReturnNoticed
<1>4. CASE SyncStep \/ InstallStep \/ UninstallStep
  <2>1. CASE SyncGone \/ SyncDeleted \/ SyncInstall \/ NothingToFinalize \/ RemoveFinalizer
    BY <2>1, NothingToDo, DeletedNoticed, InstallNoticed, FinalizerNoticed
  <2>2. CASE \/ SyncInstallFails \/ RemoveFinalizerFails
             \/ ObserveGeneration \/ NoInstaller \/ ReportFailure \/ RecordReady
             \/ InstallStep \/ UninstallStep
    <3>1. /\ UNCHANGED wq /\ Proceeds
          /\ \A n \in Names : Publishes(n) /\ HandsOff(n)
      BY <2>2, FailureProceeds, FactoryProceeds, InstallProceeds, UninstallProceeds
    <3>2. QED BY <3>1, ProceedsNoticed
  <2>3. QED BY <1>4, <2>1, <2>2 DEF SyncStep
<1>5. CASE ProcessDies BY <1>5, RestartNoticed DEF ProcessDies, InstallerPanics, Crash
<1>6. QED BY <1>1, <1>2, <1>3, <1>4, <1>5 DEF Next, WorkerStep

LEMMA NoticeNext ==
  NoticeInv /\ [Next]_vars => NoticeInv' /\ \A n \in Names : NotForgotten(n)
<1> SUFFICES ASSUME NoticeInv, [Next]_vars
             PROVE  NoticeInv' /\ \A n \in Names : NotForgotten(n)
  OBVIOUS
<1>1. IInv /\ TypeInv /\ WorkerOK /\ Noticed BY InvParts DEF NoticeInv, Noticed
<1>2. IInv' BY <1>1, InvNext
<1>3. WorkOK' BY <1>2 DEF IInv
<1>4. Noticed' /\ \A n \in Names : NotForgotten(n) BY <1>1, <1>3, StepNoticed
<1>5. QED BY <1>2, <1>4 DEF NoticeInv, Noticed

\* A version that the worker has not seen is followed by an event that enqueues its
\* key, the queue and the worker agree on the keys that are due, and a sync ends well
\* only when the object is settled or its key comes again (AddEvent, UpdateEvent,
\* DeleteEvent, processNext).
THEOREM NoticeInvariant == Spec => []NoticeInv
BY NoticeInit, NoticeNext, PTL DEF Spec

\* No edit and no deletion is lost while the worker is busy with an older copy: up to
\* the end of a sync that goes well, the copy is current in all that matters, or the
\* sync is followed by another (UpdateEvent, processNext).
THEOREM NoEditUnnoticed == Spec => []EditsNoticed
<1>1. NoticeInv => EditsNoticed BY DEF NoticeInv
<1>2. QED BY NoticeInvariant, <1>1, PTL

\* The key of an object that only the installer can bring on is never lost between
\* the informer, the queue, the worker and the back-off, whatever crashes, conflicts
\* and stale copies come between: only a sync that fails once too often makes the
\* controller forget it (processNext).
THEOREM NoKeyForgotten == Spec => NothingForgotten
<1>1. NoticeInv /\ [Next]_vars =>
        [\A n \in Names :
           Unsettled(n)' /\ ~Owed(n)' =>
             \/ Unsettled(n) /\ ~Owed(n)
             \/ work.pc = "failed" /\ key = n /\ wq.failures[n] >= MaxRetry]_vars
  BY NoticeNext DEF NotForgotten
<1>2. QED BY NoticeInvariant, <1>1, PTL DEF Spec, NothingForgotten
=============================================================================
