------------------------ MODULE SummaryManagerProofs ------------------------
(***************************************************************************)
(* A summary is only made of stores that were filled, for any number of    *)
(* goroutines in Run, any resources and contents, and a shutdown at any    *)
(* time; and its totals are exact.                                         *)
(***************************************************************************)
EXTENDS SummaryManager, FoldProofs

\* A goroutine that goes for the lock has started the informers: that of a resource
\* nobody started is not one that WaitForCacheSync waits for.
InformersStarted ==
  \A g \in Runs : runs[g].pc \notin {"none", "start"} =>
    \A r \in Resources : im.informers[r] # "created"

ManagerInv == TypeOK /\ InformersStarted /\ ListersSynced

-----------------------------------------------------------------------------
(* The informer manager *)

LEMMA RegisteredInformers ==
  Registered = [informers |-> [r \in Resources |-> "created"], handlers |-> Resources,
                done |-> FALSE, lock |-> Nobody]
<1> DEFINE New(resources) ==
      [informers |-> [r \in Resources |-> IF r \in resources THEN "created" ELSE "none"],
       handlers |-> resources, done |-> FALSE, lock |-> Nobody]
<1>1. ASSUME NEW some \in SUBSET Resources, NEW more \in SUBSET Resources
      PROVE  ForResources(New(some), more) = New(some \cup more)
  <2> DEFINE was == New(some)
             new == {r \in more : ~IsHandlerExist(was, r)}
             base == Created(was, new)
             made == [r \in Resources |->
                        IF r \in new /\ was.informers[r] = "none" THEN "created" ELSE was.informers[r]]
  <2>1. new = more \ some
    BY DEF IsHandlerExist
  <2>2. Created(was, new) = [was EXCEPT !.informers = made]
    BY DEF Created
  <2>3. made = New(some \cup more).informers
    BY <2>1
  <2>4. base = [informers |-> made, handlers |-> some, done |-> FALSE, lock |-> Nobody]
    BY <2>2
  <2>5. ForResources(was, more) = [base EXCEPT !.handlers = some \cup new]
    BY <2>4 DEF ForResources
  <2> HIDE DEF base, made, new
  <2>6. ForResources(was, more) =
          [informers |-> made, handlers |-> some \cup new, done |-> FALSE, lock |-> Nobody]
    BY <2>4, <2>5
  <2>7. some \cup new = some \cup more
    BY <2>1
  <2>8. QED BY <2>3, <2>6, <2>7
<1>2. NewInformerManager(Resources) = New({})
  BY DEF NewInformerManager
<1>3. /\ CoreResources \subseteq Resources /\ PolicyResources \subseteq Resources
      /\ {ClusterGvr, DeploymentGvr} \subseteq Resources
      /\ CoreResources \cup PolicyResources \cup {ClusterGvr, DeploymentGvr} = Resources
  BY DEF Resources
<1> HIDE DEF New
<1>4. ForResources(New({}), CoreResources) = New(CoreResources)
  BY <1>1, <1>3
<1>5. ForResources(New(CoreResources), PolicyResources) = New(CoreResources \cup PolicyResources)
  BY <1>1, <1>3
<1>6. ForResources(New(CoreResources \cup PolicyResources), {ClusterGvr, DeploymentGvr})
        = New(Resources)
  BY <1>1, <1>3
<1>7. Registered = New(Resources)
  BY <1>2, <1>4, <1>5, <1>6 DEF Registered
<1>8. QED BY <1>7 DEF New

Informers == [Resources -> {"created", "listing", "synced", "dead"}]
Managers == [informers : Informers, handlers : {Resources}, done : BOOLEAN, lock : Runs \cup {Nobody}]

\* What the methods that the goroutines call return.
LEMMA MethodEffects ==
  ASSUME im \in Managers, NEW g \in Runs
  PROVE  /\ Start(im) \in Managers
         /\ Start(im).lock = im.lock /\ Start(im).done = im.done
         /\ \A r \in Resources :
              /\ Start(im).informers[r] # "created"
              /\ im.informers[r] # "created" => Start(im).informers[r] = im.informers[r]
         /\ Listers(im, Resources) = im
         /\ Cancel(im) \in Managers
         /\ Cancel(im).informers = im.informers /\ Cancel(im).lock = im.lock /\ Cancel(im).done
         /\ Acquire(im, g) \in Managers /\ Release(im) \in Managers
         /\ Acquire(im, g).informers = im.informers /\ Release(im).informers = im.informers
         /\ Acquire(im, g).done = im.done /\ Release(im).done = im.done
         /\ Acquire(im, g).lock = g /\ Release(im).lock = Nobody
<1>1. im.informers \in Informers /\ DOMAIN im.informers = Resources
  BY DEF Managers, Informers
<1>2. Start(im) = [im EXCEPT !.informers = Start(im).informers]
  BY DEF Start, Managers
<1>3. Start(im).informers =
        [r \in Resources |->
           IF im.informers[r] # "created" THEN im.informers[r]
           ELSE IF im.done THEN "dead" ELSE "listing"]
  BY <1>1 DEF Start, Managers
<1>4. Start(im).informers \in Informers
  BY <1>1, <1>3 DEF Informers
<1>5. Listers(im, Resources).informers = im.informers
  <2>1. Listers(im, Resources).informers =
          [r \in Resources |-> IF im.informers[r] = "none" THEN "created" ELSE im.informers[r]]
    BY <1>1 DEF Listers, Created, Managers
  <2>2. QED BY <1>1, <2>1 DEF Informers
<1>6. Listers(im, Resources) = im
  BY <1>5 DEF Listers, Created, Managers
<1>7. Start(im) \in Managers /\ Start(im).lock = im.lock /\ Start(im).done = im.done
  BY <1>2, <1>4 DEF Managers
<1>8. \A r \in Resources :
        /\ Start(im).informers[r] # "created"
        /\ im.informers[r] # "created" => Start(im).informers[r] = im.informers[r]
  BY <1>3
<1>9. /\ Cancel(im) \in Managers
      /\ Cancel(im).informers = im.informers /\ Cancel(im).lock = im.lock /\ Cancel(im).done
  BY DEF Managers, Cancel
<1>10. /\ Acquire(im, g) \in Managers /\ Release(im) \in Managers
       /\ Acquire(im, g).informers = im.informers /\ Release(im).informers = im.informers
       /\ Acquire(im, g).done = im.done /\ Release(im).done = im.done
       /\ Acquire(im, g).lock = g /\ Release(im).lock = Nobody
  BY DEF Managers, Acquire, Release
<1>11. QED BY <1>6, <1>7, <1>8, <1>9, <1>10

-----------------------------------------------------------------------------
(* Steps *)

LEMMA ManagerInit == Init => ManagerInv
<1> SUFFICES ASSUME Init PROVE ManagerInv
  OBVIOUS
<1>1. /\ im.informers = [r \in Resources |-> "created"] /\ im.lock = Nobody
      /\ im \in Managers
  BY RegisteredInformers DEF Init, Managers, Informers
<1>2. \A g \in Runs : runs[g] = NoRun /\ runs[g].pc = "none"
  BY DEF Init, NoRun
<1>3. /\ DOMAIN runs = Runs /\ DOMAIN stores = Resources
      /\ \A r \in Resources : stores[r] \in Contents[r]
      /\ changes \in 0..MaxChanges /\ faults \in 0..MaxFaults
  BY SummaryManagerAssumption DEF Init, Nothing
<1>4. TypeOK
  BY <1>1, <1>2, <1>3, SummaryManagerAssumption DEF Init, TypeOK, Managers, Informers, Pcs
<1>5. QED BY <1>2, <1>4 DEF ManagerInv, InformersStarted, ListersSynced

\* Where a goroutine may be, in terms of the informers and the lock.
Placed(g) ==
  /\ DOMAIN runs[g] = DOMAIN NoRun
  /\ runs[g].pc \in Pcs
  /\ runs[g].pc = "wait" <=> im.lock = g
  /\ runs[g].pc \notin {"none", "start"} => \A r \in Resources : im.informers[r] # "created"
  /\ runs[g].pc \in {"round", "collect", "write", "check"} =>
       \A r \in Resources : im.informers[r] = "synced"

\* An informer that has been started does not become unstarted, nor a synced one
\* unsynced.
InformersGrow ==
  \A r \in Resources :
    /\ im.informers[r] # "created" => im'.informers[r] # "created"
    /\ im.informers[r] = "synced" => im'.informers[r] = "synced"

Rest ==
  /\ DOMAIN stores = Resources
  /\ \A r \in Resources : stores[r] \in Contents[r]
  /\ manager \in {"open", "closing", "stopping", "closed"}
  /\ manager \in {"stopping", "closed"} => im.done
  /\ changes \in 0..MaxChanges /\ faults \in 0..MaxFaults

LEMMA ManagerParts ==
  /\ ManagerInv <=> /\ im \in Managers
                    /\ DOMAIN runs = Runs
                    /\ \A g \in Runs : Placed(g)
                    /\ Rest
  /\ ManagerInv' <=> /\ im' \in Managers
                     /\ DOMAIN runs' = Runs
                     /\ \A g \in Runs : Placed(g)'
                     /\ Rest'
BY DEF ManagerInv, TypeOK, InformersStarted, ListersSynced, Managers, Informers, Placed, Rest

\* A goroutine that a step leaves alone stays where it may be.
LEMMA OthersPlaced ==
  ASSUME ManagerInv, InformersGrow, NEW g \in Runs,
         runs'[g] = runs[g], (im'.lock = g) = (im.lock = g)
  PROVE  Placed(g)'
BY ManagerParts DEF Placed, InformersGrow

\* A step of one goroutine, to a place that the informers and the lock allow.
LEMMA OneMoves ==
  ASSUME ManagerInv, InformersGrow, im' \in Managers, Rest', NEW g \in Runs,
         \E run : runs' = [runs EXCEPT ![g] = run] /\ DOMAIN run = DOMAIN NoRun,
         runs'[g].pc \in Pcs,
         runs'[g].pc = "wait" <=> im'.lock = g,
         runs'[g].pc \notin {"none", "start"} =>
           \A r \in Resources : im'.informers[r] # "created",
         runs'[g].pc \in {"round", "collect", "write", "check"} =>
           \A r \in Resources : im'.informers[r] = "synced",
         \A h \in Runs \ {g} : (im'.lock = h) = (im.lock = h)
  PROVE  ManagerInv'
<1>1. PICK run : runs' = [runs EXCEPT ![g] = run] /\ DOMAIN run = DOMAIN NoRun
  OBVIOUS
<1>2. DOMAIN runs = Runs
  BY ManagerParts
<1>3. DOMAIN runs' = Runs /\ runs'[g] = run /\ \A h \in Runs \ {g} : runs'[h] = runs[h]
  BY <1>1, <1>2
<1>4. Placed(g)'
  BY <1>1, <1>3 DEF Placed
<1>5. \A h \in Runs \ {g} : Placed(h)'
  BY <1>3, OthersPlaced
<1>6. \A h \in Runs : Placed(h)'
  BY <1>4, <1>5
<1>7. QED BY <1>3, <1>6, ManagerParts

\* A step of no goroutine that leaves the lock alone.
LEMMA NoneMoves ==
  ASSUME ManagerInv, InformersGrow, im' \in Managers, Rest', UNCHANGED runs, im'.lock = im.lock
  PROVE  ManagerInv'
BY OthersPlaced, ManagerParts

\* The forms that the actions give the goroutine that moves.
LEMMA Moved ==
  ASSUME ManagerInv, NEW g \in Runs, NEW pc,
         Goto(g, pc) \/ (End(g) /\ pc = "none")
                     \/ (\E run : /\ runs' = [runs EXCEPT ![g] = run]
                                 /\ DOMAIN run = DOMAIN NoRun /\ run.pc = pc)
  PROVE  /\ \E run : runs' = [runs EXCEPT ![g] = run] /\ DOMAIN run = DOMAIN NoRun
         /\ runs'[g].pc = pc
<1>1. DOMAIN runs = Runs /\ DOMAIN runs[g] = DOMAIN NoRun
  BY ManagerParts DEF Placed
<1>2. CASE Goto(g, pc)
  <2> DEFINE run == [runs[g] EXCEPT !.pc = pc]
  <2>1. runs' = [runs EXCEPT ![g] = run]
    BY <1>2 DEF Goto
  <2>2. DOMAIN run = DOMAIN NoRun /\ run.pc = pc
    BY <1>1 DEF NoRun
  <2> HIDE DEF run
  <2>3. QED BY <1>1, <2>1, <2>2
<1>3. CASE End(g) /\ pc = "none"
  <2>1. runs' = [runs EXCEPT ![g] = NoRun] /\ NoRun.pc = "none"
    BY <1>3 DEF End, NoRun
  <2>2. QED BY <1>1, <1>3, <2>1
<1>4. CASE \E run : /\ runs' = [runs EXCEPT ![g] = run]
                   /\ DOMAIN run = DOMAIN NoRun /\ run.pc = pc
  BY <1>1, <1>4
<1>5. QED BY <1>2, <1>3, <1>4

LEMMA InformerSteps ==
  ASSUME ManagerInv, NEW r \in Resources, InformerLists(r) \/ InformerFollows(r)
  PROVE  ManagerInv'
<1>1. im \in Managers /\ Rest
  BY ManagerParts
<1>2. CASE InformerLists(r)
  <2>1. im' = [im EXCEPT !.informers[r] = "synced"] /\ UNCHANGED <<runs, changes, manager, faults>>
    BY <1>2 DEF InformerLists, statusVars
  <2>2. im' \in Managers /\ InformersGrow /\ im'.lock = im.lock /\ im'.done = im.done
    BY <1>1, <2>1 DEF Managers, Informers, InformersGrow
  <2>3. PICK c \in Contents[r] : stores' = [stores EXCEPT ![r] = c]
    BY <1>2 DEF InformerLists
  <2>4. Rest'
    BY <1>1, <2>1, <2>2, <2>3 DEF Rest
  <2>5. QED BY <2>1, <2>2, <2>4, NoneMoves
<1>3. CASE InformerFollows(r)
  <2>1. UNCHANGED <<im, runs, manager, faults>> /\ changes > 0 /\ changes' = changes - 1
    BY <1>3 DEF InformerFollows, statusVars, managerVars
  <2>2. im' \in Managers /\ InformersGrow
    BY <1>1, <2>1 DEF InformersGrow
  <2>3. PICK c \in Contents[r] : stores' = [stores EXCEPT ![r] = c]
    BY <1>3 DEF InformerFollows
  <2>4. Rest'
    BY <1>1, <2>1, <2>3, SummaryManagerAssumption DEF Rest
  <2>5. QED BY <2>1, <2>2, <2>4, NoneMoves
<1>4. QED BY <1>2, <1>3

\* Shuntdown, the relay and what happens to the object leave the goroutines alone.
LEMMA OtherSteps ==
  ASSUME ManagerInv,
         Shuntdown \/ Stop \/ Close \/ RelayEnds
           \/ CopyFollows \/ StatusWrittenBack \/ ObjectGoes
  PROVE  ManagerInv'
<1>1. im \in Managers /\ Rest
  BY ManagerParts
<1>2. UNCHANGED runs /\ (im' = im \/ im' = Cancel(im))
  BY DEF Shuntdown, Stop, Close, RelayEnds, CopyFollows, StatusWrittenBack, ObjectGoes, managerVars
<1>3. im' \in Managers /\ InformersGrow /\ im'.lock = im.lock /\ (im.done => im'.done)
  BY <1>1, <1>2 DEF Cancel, Managers, InformersGrow
<1>4. manager' \in {"open", "closing", "stopping", "closed"}
      /\ (manager' \in {"stopping", "closed"} => im'.done)
  <2>1. CASE Stop
    <3>1. im' = Cancel(im) /\ manager' = "stopping"
      BY <2>1 DEF Stop
    <3>2. QED BY <1>1, <3>1 DEF Cancel, Managers
  <2>2. CASE manager' = manager \/ Shuntdown \/ Close
    BY <1>1, <1>3, <2>2 DEF Shuntdown, Close, Rest
  <2>3. QED
    BY <2>1, <2>2 DEF RelayEnds, CopyFollows, StatusWrittenBack, ObjectGoes, managerVars
<1>5. UNCHANGED <<stores, changes>> /\ faults' \in 0..MaxFaults
  BY <1>1, SummaryManagerAssumption DEF Rest, Shuntdown, Stop, Close, RelayEnds, CopyFollows,
     StatusWrittenBack, ObjectGoes, storeVars, statusVars
<1>6. Rest'
  BY <1>1, <1>4, <1>5 DEF Rest
<1>7. QED BY <1>2, <1>3, <1>6, NoneMoves

\* The goroutine takes one of its steps.  Only what the step says of the informers, of
\* the lock and of its place matters.
LEMMA RunSteps ==
  ASSUME ManagerInv, NEW g \in Runs, RunAgain(g) \/ RunStep(g)
  PROVE  ManagerInv'
<1> USE DEF storeVars, statusVars, managerVars
<1>1. /\ im \in Managers /\ Rest /\ Placed(g)
      /\ \A h \in Runs : Placed(h)
  BY ManagerParts
<1>2. Start(im) \in Managers /\ Acquire(im, g) \in Managers /\ Release(im) \in Managers
  BY <1>1, MethodEffects
<1>3. NoRun.pc = "none" /\ DOMAIN [NoRun EXCEPT !.pc = "check"] = DOMAIN NoRun
      /\ [NoRun EXCEPT !.pc = "check"].pc = "check"
  BY DEF NoRun
<1>4. CASE RunAgain(g)
  <2>1. Goto(g, "start") /\ runs[g].pc = "none" /\ UNCHANGED <<im, stores, changes, manager, faults>>
    BY <1>4 DEF RunAgain, At
  <2>2. im' \in Managers /\ InformersGrow /\ Rest'
    BY <1>1, <2>1 DEF InformersGrow, Rest
  <2>3. runs'[g].pc = "start"
    BY <2>1, Moved
  <2>4. im.lock # g
    BY <1>1, <2>1 DEF Placed
  <2>5. QED BY <2>1, <2>2, <2>3, <2>4, Moved, OneMoves DEF Pcs
<1>5. CASE StartInformers(g)
  <2>1. Goto(g, "lock") /\ runs[g].pc = "start" /\ im' = Start(im)
        /\ UNCHANGED <<stores, changes, manager, faults>>
    BY <1>5 DEF StartInformers, At
  <2>2. im' \in Managers /\ InformersGrow /\ Rest' /\ im'.lock = im.lock
        /\ \A r \in Resources : im'.informers[r] # "created"
    BY <1>1, <2>1, MethodEffects DEF InformersGrow, Rest
  <2>3. runs'[g].pc = "lock"
    BY <2>1, Moved
  <2>4. im.lock # g
    BY <1>1, <2>1 DEF Placed
  <2>5. QED BY <2>1, <2>2, <2>3, <2>4, Moved, OneMoves DEF Pcs
<1>6. CASE BeginWait(g)
  <2>1. Goto(g, "wait") /\ runs[g].pc = "lock" /\ im.lock = Nobody /\ im' = Acquire(im, g)
        /\ UNCHANGED <<stores, changes, manager, faults>>
    BY <1>6 DEF BeginWait, At
  <2>2. im' \in Managers /\ InformersGrow /\ Rest' /\ im'.lock = g
        /\ \A r \in Resources : im'.informers[r] # "created"
    BY <1>1, <2>1, MethodEffects DEF InformersGrow, Rest, Placed
  <2>3. runs'[g].pc = "wait"
    BY <2>1, Moved
  <2>4. \A h \in Runs \ {g} : (im'.lock = h) = (im.lock = h)
    BY <2>1, <2>2, SummaryManagerAssumption
  <2>5. QED BY <2>1, <2>2, <2>3, <2>4, Moved, OneMoves DEF Pcs
<1>7. CASE AllSynced(g) \/ GiveUp(g)
  <2>1. /\ runs[g].pc = "wait" /\ im' = Release(im)
        /\ UNCHANGED <<stores, changes, manager, faults>>
        /\ \/ Goto(g, "round") /\ Unsynced(im) = {}
           \/ End(g)
    BY <1>7 DEF AllSynced, GiveUp, At
  <2>2. im' \in Managers /\ InformersGrow /\ Rest' /\ im'.lock = Nobody
        /\ im'.informers = im.informers
    BY <1>1, <2>1, MethodEffects DEF InformersGrow, Rest
  <2>3. \A r \in Resources : im.informers[r] # "created"
    BY <1>1, <2>1 DEF Placed
  <2>4. Unsynced(im) = {} => \A r \in Resources : im.informers[r] = "synced"
    BY <1>1, <2>3 DEF Unsynced, Started, Managers, Informers
  <2>5. im.lock = g
    BY <1>1, <2>1 DEF Placed
  <2>6. \A h \in Runs \ {g} : (im'.lock = h) = (im.lock = h)
    BY <2>2, <2>5, SummaryManagerAssumption
  <2>7. CASE Goto(g, "round") /\ Unsynced(im) = {}
    <3>1. runs'[g].pc = "round"
      BY <2>7, Moved
    <3>2. QED
      BY <2>2, <2>3, <2>4, <2>6, <2>7, <3>1, Moved, OneMoves, SummaryManagerAssumption DEF Pcs
  <2>8. CASE End(g)
    <3>1. runs'[g].pc = "none"
      BY <2>8, Moved
    <3>2. QED BY <2>2, <2>6, <2>8, <3>1, Moved, OneMoves, SummaryManagerAssumption DEF Pcs
  <2>9. QED BY <2>1, <2>7, <2>8
<1>8. CASE TakeCopy(g) \/ Collect(g) \/ WriteSummary(g) \/ EndRound(g)
  <2> DEFINE Moves(pc) ==
        Goto(g, pc) \/ (End(g) /\ pc = "none")
                    \/ (\E run : /\ runs' = [runs EXCEPT ![g] = run]
                                /\ DOMAIN run = DOMAIN NoRun /\ run.pc = pc)
  <2>1. im' = im /\ UNCHANGED <<stores, changes, manager>> /\ faults' \in 0..MaxFaults
    <3>1. CASE Collect(g)
      BY <1>1, <3>1, MethodEffects DEF Collect, Rest
    <3>2. CASE WriteSummary(g)
      BY <1>1, <3>2, SummaryManagerAssumption DEF WriteSummary, Rest
    <3>3. QED BY <1>1, <1>8, <3>1, <3>2 DEF TakeCopy, EndRound, Rest
  <2>2. runs[g].pc \in {"round", "collect", "write", "check"}
    BY <1>8 DEF TakeCopy, Collect, WriteSummary, EndRound, At
  <2>3. \A r \in Resources : im.informers[r] # "created" /\ im.informers[r] = "synced"
    BY <1>1, <2>2 DEF Placed
  <2>4. im.lock # g
    BY <1>1, <2>2 DEF Placed
  <2>5. im' \in Managers /\ InformersGrow /\ Rest'
    BY <1>1, <2>1 DEF InformersGrow, Rest
  <2>6. \E pc \in {"none", "round", "collect", "write", "check"} : Moves(pc)
    <3>0. DOMAIN runs[g] = DOMAIN NoRun
      BY <1>1 DEF Placed
    <3>1. CASE TakeCopy(g)
      <4>1. CASE copy = Gone
        BY <3>1, <4>1 DEF TakeCopy
      <4>2. CASE copy # Gone
        <5> DEFINE run == [[runs[g] EXCEPT !.pc = "collect"] EXCEPT !.copy = copy]
        <5>1. DOMAIN runs = Runs
          BY ManagerParts
        <5>2. runs' = [[runs EXCEPT ![g].pc = "collect"] EXCEPT ![g].copy = copy]
          BY <3>1, <4>2 DEF TakeCopy
        <5>3. runs' = [runs EXCEPT ![g] = run]
          BY <5>1, <5>2
        <5>4. DOMAIN run = DOMAIN NoRun /\ run.pc = "collect"
          BY <3>0 DEF NoRun
        <5>5. QED BY <5>3, <5>4
      <4>3. QED BY <4>1, <4>2
    <3>2. CASE Collect(g)
      <4> DEFINE summary == Summary(stores)
                 write == [[NoRun EXCEPT !.pc = "write"] EXCEPT !.summary = summary]
      <4>1. \/ runs' = [runs EXCEPT ![g] = [NoRun EXCEPT !.pc = "check"]]
            \/ runs' = [runs EXCEPT ![g] = write]
        BY <3>2 DEF Collect
      <4>2. DOMAIN write = DOMAIN NoRun /\ write.pc = "write"
        BY DEF NoRun
      <4>3. QED BY <1>3, <4>1, <4>2
    <3>3. CASE WriteSummary(g)
      BY <1>3, <3>3 DEF WriteSummary
    <3>4. CASE EndRound(g)
      BY <3>4 DEF EndRound
    <3>5. QED BY <1>8, <3>1, <3>2, <3>3, <3>4
  <2>7. PICK pc \in {"none", "round", "collect", "write", "check"} : Moves(pc)
    BY <2>6
  <2>8. runs'[g].pc = pc
    BY <2>7, Moved
  <2>9. \E run : runs' = [runs EXCEPT ![g] = run] /\ DOMAIN run = DOMAIN NoRun
    BY <2>7, Moved
  <2>10. QED BY <2>1, <2>3, <2>4, <2>5, <2>7, <2>8, <2>9, OneMoves DEF Pcs
<1>9. QED BY <1>4, <1>5, <1>6, <1>7, <1>8 DEF RunStep

LEMMA ManagerNext == ManagerInv /\ [Next]_summaryManagerVars => ManagerInv'
<1> SUFFICES ASSUME ManagerInv, [Next]_summaryManagerVars PROVE ManagerInv'
  OBVIOUS
<1>1. CASE UNCHANGED summaryManagerVars
  BY <1>1 DEF summaryManagerVars, ManagerInv, TypeOK, InformersStarted, ListersSynced
<1>2. CASE Next
  BY <1>2, InformerSteps, RunSteps, OtherSteps DEF Next
<1>3. QED BY <1>1, <1>2

\* The state is well typed, and the lock is held by the one goroutine that waits for
\* the informers (WaitForCacheSync).
THEOREM ManagerTypeCorrect == Spec => []TypeOK
<1>1. ManagerInv => TypeOK
  BY DEF ManagerInv
<1>2. QED BY <1>1, ManagerInit, ManagerNext, PTL DEF Spec

\* No round reads the lister of an informer that has not synced, however many
\* goroutines start the informers, under a context that may be cancelled already, and
\* however their waits end (NewSummaryManager, Run, WaitForCacheSync).
THEOREM SummariesOfSynced == Spec => []ListersSynced
<1>1. ManagerInv => ListersSynced
  BY DEF ManagerInv
<1>2. QED BY <1>1, ManagerInit, ManagerNext, PTL DEF Spec

-----------------------------------------------------------------------------
(* Totals *)

\* The part of the clusters that report something is finite, and a sum over it counts
\* the units that they report.
LEMMA SumOfReported ==
  ASSUME NEW clusters \in Contents[ClusterGvr], NEW part, NEW known, NEW value,
         known = Reporting(clusters, part), value \in [known -> 0..MaxUnits]
  PROVE  SumFunction(value) = Cardinality(UnitsOf(value, known, MaxUnits))
<1>1. IsFiniteSet(DOMAIN clusters) BY ContentsAssumption DEF Resources
<1>2. known \subseteq DOMAIN clusters BY DEF Reporting
<1>3. IsFiniteSet(known) BY <1>1, <1>2, FS_Subset
<1>4. MaxUnits \in Nat BY ContentsAssumption
<1>5. QED BY <1>3, <1>4, SumCounts

LEMMA NodesCounted ==
  ASSUME NEW clusters \in Contents[ClusterGvr]
  PROVE  /\ aggregateNodeSummary(clusters).totalNum =
              Cardinality(Units(clusters, "nodes", LAMBDA c : c.nodes.total))
         /\ aggregateNodeSummary(clusters).readyNum =
              Cardinality(Units(clusters, "nodes", LAMBDA c : c.nodes.ready))
<1>1. PICK known : known = Reporting(clusters, "nodes") OBVIOUS
<1>2. PICK total : total = [c \in known |-> clusters[c].nodes.total] OBVIOUS
<1>3. PICK ready : ready = [c \in known |-> clusters[c].nodes.ready] OBVIOUS
<1>4. total \in [known -> 0..MaxUnits] /\ ready \in [known -> 0..MaxUnits]
  <2>1. \A c \in known :
          clusters[c].nodes.total \in 0..MaxUnits /\ clusters[c].nodes.ready \in 0..MaxUnits
    BY <1>1, ContentsAssumption
  <2>2. QED BY <1>2, <1>3, <2>1
<1>5. /\ SumFunction(total) = Cardinality(UnitsOf(total, known, MaxUnits))
      /\ SumFunction(ready) = Cardinality(UnitsOf(ready, known, MaxUnits))
  BY <1>1, <1>4, SumOfReported
<1>6. Units(clusters, "nodes", LAMBDA c : c.nodes.total) = UnitsOf(total, known, MaxUnits)
  BY <1>1, <1>2 DEF Units, UnitsOf, Reporting
<1>7. Units(clusters, "nodes", LAMBDA c : c.nodes.ready) = UnitsOf(ready, known, MaxUnits)
  BY <1>1, <1>3 DEF Units, UnitsOf, Reporting
<1>8. /\ aggregateNodeSummary(clusters).totalNum = SumFunction(total)
      /\ aggregateNodeSummary(clusters).readyNum = SumFunction(ready)
  BY <1>1, <1>2, <1>3 DEF aggregateNodeSummary
<1>9. QED BY <1>5, <1>6, <1>7, <1>8

LEMMA QuantitiesCounted ==
  ASSUME NEW clusters \in Contents[ClusterGvr], NEW l \in Lists, NEW name \in ResourceNames
  PROVE  calculateResourceList(clusters, Reporting(clusters, "resources"), l)[name] =
           Cardinality(Units(clusters, "resources", LAMBDA c : Quantity(c.resources[l], name)))
<1>1. PICK known : known = Reporting(clusters, "resources") OBVIOUS
<1>2. PICK value : value = [c \in known |-> Quantity(clusters[c].resources[l], name)] OBVIOUS
<1>3. value \in [known -> 0..MaxUnits]
  <2>1. \A c \in known : Quantity(clusters[c].resources[l], name) \in 0..MaxUnits
    BY <1>1, ContentsAssumption
  <2>2. QED BY <1>2, <2>1
<1>4. SumFunction(value) = Cardinality(UnitsOf(value, known, MaxUnits))
  BY <1>1, <1>3, SumOfReported
<1>5. Units(clusters, "resources", LAMBDA c : Quantity(c.resources[l], name)) =
        UnitsOf(value, known, MaxUnits)
  BY <1>1, <1>2 DEF Units, UnitsOf, Reporting
<1>6. calculateResourceList(clusters, known, l)[name] = SumFunction(value)
  BY <1>2 DEF calculateResourceList
<1>7. QED BY <1>1, <1>4, <1>5, <1>6

\* There are not more objects of a kind that a condition holds of than there are.
LEMMA PartOfAll ==
  ASSUME NEW S, NEW T, IsFiniteSet(T), S \subseteq T
  PROVE  IsFiniteSet(S) /\ Cardinality(S) <= Cardinality(T)
BY FS_Subset

\* Whatever clusters, deployments and quantities the listers hold: the totals of a
\* summary count what is reported, unit by unit, and no more is ready than there is
\* (aggregateNodeSummary, aggregateResourceSummary, aggregateClusterSummary).
THEOREM TotalsAreExact == Spec => []TotalsExact
<1>1. TypeOK => TotalsExact
  <2> SUFFICES ASSUME TypeOK PROVE TotalsExact
    OBVIOUS
  <2>1. PICK clusters \in Contents[ClusterGvr] : clusters = stores[ClusterGvr]
    BY DEF TypeOK, Resources
  <2>2. PICK deployments \in Contents[DeploymentGvr] : deployments = stores[DeploymentGvr]
    BY DEF TypeOK, Resources
  <2>3. IsFiniteSet(DOMAIN clusters) /\ IsFiniteSet(DOMAIN deployments)
    BY ContentsAssumption DEF Resources
  <2>4. PICK s : s = Summary(stores) OBVIOUS
  <2>5. /\ s.members = clusterSyncHandler(clusters)
        /\ s.workLoadSummary = workLoadsSyncHandler(deployments)
    BY <2>1, <2>2, <2>4 DEF Summary
  <2>6. s.workLoadSummary.readyNum <= s.workLoadSummary.totalNum
    <3>1. ReadyNum(deployments, "Available") <= Size(deployments)
      BY <2>3, PartOfAll DEF ReadyNum, Size
    <3>2. QED BY <2>5, <3>1 DEF workLoadsSyncHandler
  <2>7. s.members = NoSummary <=> clusters = <<>>
    BY <2>5, ContentsAssumption DEF clusterSyncHandler
  <2>8. ASSUME clusters # <<>>
        PROVE  /\ s.members.nodeSummary = aggregateNodeSummary(clusters)
               /\ s.members.resourceSummary = aggregateResourceSummary(clusters)
               /\ s.members.clusterSummary = aggregateClusterSummary(clusters)
    BY <2>5, <2>8 DEF clusterSyncHandler
  <2>9. aggregateResourceSummary(clusters).totals # NoSummary =>
          \A l \in Lists, name \in ResourceNames :
            aggregateResourceSummary(clusters).totals[l][name] =
              Cardinality(Units(clusters, "resources", LAMBDA c : Quantity(c.resources[l], name)))
    <3> SUFFICES ASSUME aggregateResourceSummary(clusters).totals # NoSummary,
                        NEW l \in Lists, NEW name \in ResourceNames
                 PROVE  aggregateResourceSummary(clusters).totals[l][name] =
                          Cardinality(Units(clusters, "resources",
                                            LAMBDA c : Quantity(c.resources[l], name)))
      OBVIOUS
    <3>1. aggregateResourceSummary(clusters).totals[l] =
            calculateResourceList(clusters, Reporting(clusters, "resources"), l)
      BY DEF aggregateResourceSummary
    <3>2. QED BY <3>1, QuantitiesCounted
  <2>10. /\ aggregateClusterSummary(clusters).readyNum <= aggregateClusterSummary(clusters).totalNum
         /\ aggregateClusterSummary(clusters).totalNum <= Size(clusters)
    <3>1. PICK known : known = Reporting(clusters, "conditions") OBVIOUS
    <3>2. PICK ready :
            ready = {o \in DOMAIN clusters : IsTrue(clusters[o].conditions, "Ready")}
      OBVIOUS
    <3>3. known \subseteq DOMAIN clusters BY <3>1 DEF Reporting
    <3>4. ready \subseteq known
      <4>1. \A o \in ready : clusters[o].conditions # <<>> BY <3>2 DEF IsTrue
      <4>2. QED BY <3>1, <3>2, <4>1 DEF Reporting
    <3>5. /\ IsFiniteSet(known) /\ Cardinality(known) <= Cardinality(DOMAIN clusters)
          /\ Cardinality(ready) <= Cardinality(known)
      <4>1. IsFiniteSet(known) /\ Cardinality(known) <= Cardinality(DOMAIN clusters)
        BY <2>3, <3>3, PartOfAll
      <4>2. QED BY <3>4, <4>1, PartOfAll
    <3>6. QED BY <3>1, <3>2, <3>5 DEF aggregateClusterSummary, ReadyNum, Size
  <2>11. QED
    BY <2>1, <2>4, <2>6, <2>7, <2>8, <2>9, <2>10, NodesCounted DEF TotalsExact
<1>2. QED BY <1>1, ManagerTypeCorrect, PTL
=============================================================================
