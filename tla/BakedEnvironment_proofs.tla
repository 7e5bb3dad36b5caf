------------------------ MODULE BakedEnvironment_proofs ----------------------
(***************************************************************************)
(* The baked source, for every set of chunks, and the threads of the       *)
(* streaming source's pool, for every set of tasks and of workers; both    *)
(* alone and beside each other, as EnvironmentSources has them.            *)
(***************************************************************************)
EXTENDS EnvironmentSources, TLAPS

BakedInv ==
  /\ TypeOK
  /\ LoadedOrFailed
  /\ SceneFollowsVisibility
  /\ torn => loaded = {}

\* update keeps the invariant: what it loads was neither loaded nor failed, what
\* it unloads leaves the scene.
LEMMA UpdateInv ==
  ASSUME BakedInv,
         NEW z \in [Chunk -> Zone], NEW readable \in SUBSET Chunk, NEW ready \in BOOLEAN,
         Update(z, readable, ready)
  PROVE  BakedInv'
<1> USE DEF BakedInv, TypeOK, LoadedOrFailed, SceneFollowsVisibility
<1>1. TypeOK'
  BY DEF Update, Wanted, Evict
<1>2. LoadedOrFailed'
  BY DEF Update, Wanted, Evict
<1>3. SceneFollowsVisibility'
  BY DEF Update, Wanted, Evict
<1>4. (torn => loaded = {})'
  BY DEF Update
<1>5. QED BY <1>1, <1>2, <1>3, <1>4

LEMMA BakedStep ==
  ASSUME BakedInv, [Next]_bakedVars
  PROVE  BakedInv'
<1>1. CASE Frame
  BY <1>1, UpdateInv DEF Frame
<1>2. ASSUME NEW v \in BOOLEAN, SetVisible(v)
      PROVE  BakedInv'
  BY <1>2 DEF SetVisible, Toggle, BakedInv, TypeOK, LoadedOrFailed, SceneFollowsVisibility
<1>3. CASE Teardown
  BY <1>3 DEF Teardown, BakedInv, TypeOK, LoadedOrFailed, SceneFollowsVisibility
<1>4. CASE Done \/ UNCHANGED bakedVars
  BY <1>4 DEF Done, bakedVars, BakedInv, TypeOK, LoadedOrFailed, SceneFollowsVisibility
<1>5. QED BY <1>1, <1>2, <1>3, <1>4 DEF Next

\* The source's invariant holds in every reachable state.
THEOREM BakedInvariant == Spec => []BakedInv
<1>1. Init => BakedInv
  BY DEF Init, BakedInv, TypeOK, LoadedOrFailed, SceneFollowsVisibility
<1>2. QED BY <1>1, BakedStep, PTL DEF Spec

\* No chunk is both shown and written off.
THEOREM BakedLoadedOrFailed == Spec => []LoadedOrFailed
BY BakedInvariant, PTL DEF BakedInv

\* No chunk comes or goes between the two radii, and none that failed is read again before
\* the ego has left: failed_ is consulted by the load loop and cleared only beyond the
\* unload radius, as is loaded_.
THEOREM BakedHysteresis == Spec => Hysteresis
<1>1. ASSUME BakedInv, [Next]_bakedVars
      PROVE  [Steady /\ WrittenOff]_bakedVars
  <2> USE DEF Steady, WrittenOff
  <2>1. CASE Frame
    <3>1. PICK z \in [Chunk -> Zone], readable \in SUBSET Chunk, ready \in BOOLEAN :
             Update(z, readable, ready)
      BY <2>1 DEF Frame
    <3>2. Steady
      BY <1>1, <3>1 DEF Update, Wanted, Evict, BakedInv, TypeOK
    <3>3. WrittenOff
      BY <1>1, <3>1 DEF Update, Wanted, Evict, BakedInv, TypeOK, LoadedOrFailed
    <3>4. QED BY <3>2, <3>3
  <2>2. ASSUME NEW v \in BOOLEAN, SetVisible(v)
        PROVE  Steady /\ WrittenOff
    BY <1>1, <2>2 DEF SetVisible, BakedInv, LoadedOrFailed
  <2>3. CASE Teardown
    BY <2>3 DEF Teardown
  <2>4. CASE Done \/ UNCHANGED bakedVars
    BY <2>4 DEF Done
  <2>5. QED BY <1>1, <2>1, <2>2, <2>3, <2>4 DEF Next
<1>2. QED BY <1>1, BakedInvariant, PTL DEF Spec, Hysteresis

\* The baked source implements EnvironmentSource.
THEOREM BakedImplements == Spec => Implements
<1>1. Init => Abstract!Init
  BY DEF Init, Abstract!Init
<1>2. ASSUME BakedInv, BakedInv', [Next]_bakedVars
      PROVE  [Abstract!Next]_(Abstract!vars)
  <2> USE DEF BakedInv, TypeOK, SceneFollowsVisibility, Abstract!Shown
  <2>1. CASE Frame
    BY <1>2, <2>1 DEF Frame, Update, Abstract!Next, Abstract!Update
  <2>2. ASSUME NEW v \in BOOLEAN, SetVisible(v)
        PROVE  Abstract!Next
    BY <1>2, <2>2 DEF SetVisible, Abstract!Next, Abstract!SetVisible
  <2>3. CASE Teardown
    BY <1>2, <2>3 DEF Teardown, Abstract!Next, Abstract!Teardown
  <2>4. CASE Done \/ UNCHANGED bakedVars
    BY <2>4 DEF Done, bakedVars, Abstract!vars
  <2>5. QED BY <1>2, <2>1, <2>2, <2>3, <2>4 DEF Next
<1>3. QED BY <1>1, <1>2, BakedInvariant, PTL DEF Spec, Implements, Abstract!Spec

-----------------------------------------------------------------------------
(* The threads of the pool, for every set of tasks and of workers.             *)

\* A worker inside the monitor holds the mutex; one that found nothing keeps it until it
\* waits, so that neither a task nor the end of the pool arrives in between.
MonitorIsExclusive ==
  /\ \A w \in Worker : at[w] \in {"locked", "idle"} => mutex = w
  /\ \A w \in Worker : at[w] = "idle" => queue = <<>> /\ ~stop

\* The destructor's steps, and what each leaves of the workers.
StopIsSeen ==
  /\ stop <=> owner # "alive"
  /\ \A w \in Worker : at[w] = "gone" => stop
  /\ owner \in {"join", "gone"} => \A w \in Worker : at[w] # "waiting"
  /\ owner = "gone" => \A w \in Worker : at[w] = "gone"
  /\ (\A w \in Worker : at[w] = "gone") => queue = <<>>

InQueue == {queue[i] : i \in DOMAIN queue}
OnWorkers == {task[w] : w \in {v \in Worker : at[v] = "running"}}

\* A task that was started is in the queue, on a worker or done, and in one place only.
EveryTaskHasItsPlace ==
  /\ started = InQueue \union OnWorkers \union done
  /\ InQueue \cap OnWorkers = {} /\ InQueue \cap done = {} /\ OnWorkers \cap done = {}
  /\ \A i, j \in DOMAIN queue : queue[i] = queue[j] => i = j
  /\ \A v, w \in Worker :
       at[v] = "running" /\ at[w] = "running" /\ task[v] = task[w] => v = w

PoolInv ==
  /\ Pool!PoolTypeOK /\ MonitorIsExclusive /\ StopIsSeen /\ Pool!SomebodyComes
  /\ EveryTaskHasItsPlace

\* A step that leaves the tasks alone, and the workers that run, leaves every task its place.
LEMMA PlacesStay ==
  ASSUME EveryTaskHasItsPlace, UNCHANGED <<queue, task, started, done>>,
         \A w \in Worker : at'[w] = "running" <=> at[w] = "running"
  PROVE  EveryTaskHasItsPlace'
BY DEF EveryTaskHasItsPlace, InQueue, OnWorkers

\* The steps that only lock, wait, wake and signal.
LEMMA MonitorStep ==
  ASSUME PoolInv,
         \/ Pool!Notify \/ Pool!Stop \/ Pool!NotifyAll \/ Pool!Join
         \/ \E w \in Worker : \/ Pool!Lock(w) \/ Pool!FindNothing(w) \/ Pool!Wait(w)
                              \/ Pool!WakeUp(w) \/ Pool!Leave(w)
  PROVE  PoolInv'
<1>. USE SourcesConstants DEF PoolInv, Pool!PoolTypeOK, MonitorIsExclusive, StopIsSeen, Pool!SomebodyComes,
         Pool!Waiting
<1>1. CASE Pool!Notify
  <2>. USE <1>1 DEF Pool!Notify
  <2>1. Pool!PoolTypeOK'
    OBVIOUS
  <2>2. MonitorIsExclusive'
    OBVIOUS
  <2>3. StopIsSeen'
    OBVIOUS
  <2>4. Pool!SomebodyComes'
    OBVIOUS
  <2>5. EveryTaskHasItsPlace'
    BY PlacesStay
  <2>. QED  BY <2>1, <2>2, <2>3, <2>4, <2>5
<1>2. ASSUME NEW w \in Worker, Pool!Lock(w) PROVE PoolInv'
  <2>. USE <1>2 DEF Pool!Lock
  <2>1. Pool!PoolTypeOK'
    OBVIOUS
  <2>2. MonitorIsExclusive'
    OBVIOUS
  <2>3. StopIsSeen'
    OBVIOUS
  <2>4. Pool!SomebodyComes'
    OBVIOUS
  <2>5. EveryTaskHasItsPlace'
    BY PlacesStay
  <2>. QED  BY <2>1, <2>2, <2>3, <2>4, <2>5
<1>3. ASSUME NEW w \in Worker, Pool!FindNothing(w) PROVE PoolInv'
  <2>. USE <1>3 DEF Pool!FindNothing
  <2>1. Pool!PoolTypeOK'
    OBVIOUS
  <2>2. MonitorIsExclusive'
    OBVIOUS
  <2>3. StopIsSeen'
    OBVIOUS
  <2>4. Pool!SomebodyComes'
    OBVIOUS
  <2>5. EveryTaskHasItsPlace'
    BY PlacesStay
  <2>. QED  BY <2>1, <2>2, <2>3, <2>4, <2>5
<1>4. ASSUME NEW w \in Worker, Pool!Wait(w) PROVE PoolInv'
  <2>. USE <1>4 DEF Pool!Wait
  <2>1. Pool!PoolTypeOK'
    OBVIOUS
  <2>2. MonitorIsExclusive'
    OBVIOUS
  <2>3. StopIsSeen'
    OBVIOUS
  <2>4. Pool!SomebodyComes'
    OBVIOUS
  <2>5. EveryTaskHasItsPlace'
    BY PlacesStay
  <2>. QED  BY <2>1, <2>2, <2>3, <2>4, <2>5
<1>5. ASSUME NEW w \in Worker, Pool!WakeUp(w) PROVE PoolInv'
  <2>. USE <1>5 DEF Pool!WakeUp
  <2>1. Pool!PoolTypeOK'
    OBVIOUS
  <2>2. MonitorIsExclusive'
    OBVIOUS
  <2>3. StopIsSeen'
    OBVIOUS
  <2>4. Pool!SomebodyComes'
    OBVIOUS
  <2>5. EveryTaskHasItsPlace'
    BY PlacesStay
  <2>. QED  BY <2>1, <2>2, <2>3, <2>4, <2>5
<1>6. ASSUME NEW w \in Worker, Pool!Leave(w) PROVE PoolInv'
  <2>. USE <1>6 DEF Pool!Leave
  <2>1. Pool!PoolTypeOK'
    OBVIOUS
  <2>2. MonitorIsExclusive'
    OBVIOUS
  <2>3. StopIsSeen'
    OBVIOUS
  <2>4. Pool!SomebodyComes'
    OBVIOUS
  <2>5. EveryTaskHasItsPlace'
    BY PlacesStay
  <2>. QED  BY <2>1, <2>2, <2>3, <2>4, <2>5
<1>7. CASE Pool!Stop
  <2>. USE <1>7 DEF Pool!Stop
  <2>1. Pool!PoolTypeOK'
    OBVIOUS
  <2>2. MonitorIsExclusive'
    OBVIOUS
  <2>3. StopIsSeen'
    OBVIOUS
  <2>4. Pool!SomebodyComes'
    OBVIOUS
  <2>5. EveryTaskHasItsPlace'
    BY PlacesStay
  <2>. QED  BY <2>1, <2>2, <2>3, <2>4, <2>5
<1>8. CASE Pool!NotifyAll
  <2>. USE <1>8 DEF Pool!NotifyAll
  <2>1. Pool!PoolTypeOK'
    OBVIOUS
  <2>2. MonitorIsExclusive'
    OBVIOUS
  <2>3. StopIsSeen'
    OBVIOUS
  <2>4. Pool!SomebodyComes'
    OBVIOUS
  <2>5. EveryTaskHasItsPlace'
    BY PlacesStay
  <2>. QED  BY <2>1, <2>2, <2>3, <2>4, <2>5
<1>9. CASE Pool!Join
  <2>. USE <1>9 DEF Pool!Join
  <2>1. Pool!PoolTypeOK'
    OBVIOUS
  <2>2. MonitorIsExclusive'
    OBVIOUS
  <2>3. StopIsSeen'
    OBVIOUS
  <2>4. Pool!SomebodyComes'
    OBVIOUS
  <2>5. EveryTaskHasItsPlace'
    BY PlacesStay
  <2>. QED  BY <2>1, <2>2, <2>3, <2>4, <2>5
<1>. QED  BY <1>1, <1>2, <1>3, <1>4, <1>5, <1>6, <1>7, <1>8, <1>9

LEMMA StartStep ==
  ASSUME PoolInv, NEW t \in Task, Pool!StartTask(t)
  PROVE  PoolInv'
<1>. USE SourcesConstants DEF PoolInv, Pool!PoolTypeOK, Pool!StartTask
<1>1. Pool!PoolTypeOK'
  OBVIOUS
<1>2. MonitorIsExclusive'
  BY DEF MonitorIsExclusive
<1>3. StopIsSeen'
  BY DEF StopIsSeen
<1>4. Pool!SomebodyComes'
  BY DEF Pool!SomebodyComes
<1>5. EveryTaskHasItsPlace'
  <2>1. /\ DOMAIN queue' = 1..Len(queue) + 1 /\ DOMAIN queue = 1..Len(queue)
        /\ queue'[Len(queue) + 1] = t /\ \A i \in DOMAIN queue : queue'[i] = queue[i]
        /\ Len(queue) \in Nat
    OBVIOUS
  <2>2. InQueue' = InQueue \union {t} /\ OnWorkers' = OnWorkers
    BY <2>1 DEF InQueue, OnWorkers
  <2>3. t \notin InQueue \union OnWorkers \union done
    BY DEF EveryTaskHasItsPlace
  <2>4. \A i, j \in DOMAIN queue' : queue'[i] = queue'[j] => i = j
    BY <2>1, <2>3 DEF EveryTaskHasItsPlace, InQueue
  <2>. QED  BY <2>2, <2>3, <2>4 DEF EveryTaskHasItsPlace
<1>. QED  BY <1>1, <1>2, <1>3, <1>4, <1>5

LEMMA TakeStep ==
  ASSUME PoolInv, NEW w \in Worker, Pool!Take(w)
  PROVE  PoolInv'
<1>. USE SourcesConstants DEF PoolInv, Pool!PoolTypeOK, Pool!Take
<1>1. Pool!PoolTypeOK'
  OBVIOUS
<1>2. MonitorIsExclusive'
  BY DEF MonitorIsExclusive
<1>3. StopIsSeen'
  BY DEF StopIsSeen
<1>4. Pool!SomebodyComes'
  BY DEF Pool!SomebodyComes
<1>5. EveryTaskHasItsPlace'
  <2>. DEFINE t == Head(queue)
  <2>1. /\ Len(queue) \in Nat \ {0} /\ DOMAIN queue = 1..Len(queue) /\ t = queue[1]
        /\ DOMAIN queue' = 1..Len(queue) - 1
        /\ \A i \in 1..Len(queue) - 1 : queue'[i] = queue[i + 1]
    OBVIOUS
  <2>2. InQueue = InQueue' \union {t}
    <3>1. ASSUME NEW i \in DOMAIN queue PROVE queue[i] \in InQueue' \union {t}
      <4>1. CASE i = 1
        BY <4>1, <2>1
      <4>2. CASE i # 1
        <5>1. i - 1 \in 1..Len(queue) - 1 /\ (i - 1) + 1 = i
          BY <4>2, <2>1
        <5>. QED  BY <5>1, <2>1 DEF InQueue
      <4>. QED  BY <4>1, <4>2
    <3>2. ASSUME NEW i \in DOMAIN queue' PROVE queue'[i] \in InQueue
      BY <2>1 DEF InQueue
    <3>3. t \in InQueue
      BY <2>1 DEF InQueue
    <3>. QED  BY <3>1, <3>2, <3>3 DEF InQueue
  <2>3. t \notin InQueue'
    BY <2>1 DEF InQueue, EveryTaskHasItsPlace
  <2>4. at[w] # "running" /\ at'[w] = "running" /\ task'[w] = t
        /\ \A v \in Worker \ {w} : at'[v] = at[v] /\ task'[v] = task[v]
    OBVIOUS
  <2>. HIDE DEF t
  <2>5. OnWorkers' = OnWorkers \union {t}
    BY <2>4 DEF OnWorkers
  <2>6. \A i, j \in DOMAIN queue' : queue'[i] = queue'[j] => i = j
    BY <2>1 DEF EveryTaskHasItsPlace
  <2>7. \A u, v \in Worker :
          at'[u] = "running" /\ at'[v] = "running" /\ task'[u] = task'[v] => u = v
    <3>1. t \in InQueue /\ t \notin OnWorkers
      BY <2>2 DEF EveryTaskHasItsPlace
    <3>2. \A v \in Worker : at[v] = "running" => task[v] # t
      BY <3>1 DEF OnWorkers
    <3>. QED  BY <2>4, <3>2 DEF EveryTaskHasItsPlace
  <2>. QED  BY <2>2, <2>3, <2>5, <2>6, <2>7 DEF EveryTaskHasItsPlace
<1>. QED  BY <1>1, <1>2, <1>3, <1>4, <1>5

LEMMA RunStep ==
  ASSUME PoolInv, NEW w \in Worker, Pool!Run(w)
  PROVE  PoolInv'
<1>. USE SourcesConstants DEF PoolInv, Pool!PoolTypeOK, Pool!Run
<1>1. Pool!PoolTypeOK'
  BY DEF EveryTaskHasItsPlace, OnWorkers
<1>2. MonitorIsExclusive'
  BY DEF MonitorIsExclusive
<1>3. StopIsSeen'
  BY DEF StopIsSeen
<1>4. Pool!SomebodyComes'
  BY DEF Pool!SomebodyComes
<1>5. EveryTaskHasItsPlace'
  <2>1. at'[w] # "running" /\ at[w] = "running" /\ done' = done \union {task[w]}
        /\ \A v \in Worker \ {w} : at'[v] = at[v] /\ task'[v] = task[v]
    OBVIOUS
  <2>2. OnWorkers = OnWorkers' \union {task[w]} /\ task[w] \notin OnWorkers'
    BY <2>1 DEF OnWorkers, EveryTaskHasItsPlace
  <2>3. InQueue' = InQueue
    BY DEF InQueue
  <2>. QED  BY <2>1, <2>2, <2>3 DEF EveryTaskHasItsPlace
<1>. QED  BY <1>1, <1>2, <1>3, <1>4, <1>5

LEMMA PoolStutters == PoolInv /\ UNCHANGED poolVars => PoolInv'
<1>. SUFFICES ASSUME PoolInv, UNCHANGED poolVars PROVE PoolInv'
  OBVIOUS
<1>. USE DEF poolVars
<1>1. Pool!PoolTypeOK'
  BY DEF PoolInv, Pool!PoolTypeOK
<1>2. MonitorIsExclusive' /\ StopIsSeen' /\ Pool!SomebodyComes'
  BY DEF PoolInv, MonitorIsExclusive, StopIsSeen, Pool!SomebodyComes
<1>3. EveryTaskHasItsPlace'
  BY PlacesStay DEF PoolInv
<1>. QED  BY <1>1, <1>2, <1>3 DEF PoolInv

LEMMA PoolStep == PoolInv /\ [Pool!PoolNext]_poolVars => PoolInv'
<1>1. ASSUME PoolInv, Pool!PoolNext PROVE PoolInv'
  <2>1. CASE \E t \in Task : Pool!StartTask(t)
    BY <1>1, <2>1, StartStep
  <2>2. CASE \E w \in Worker : Pool!Take(w)
    BY <1>1, <2>2, TakeStep
  <2>3. CASE \E w \in Worker : Pool!Run(w)
    BY <1>1, <2>3, RunStep
  <2>4. CASE \/ Pool!Notify \/ Pool!Stop \/ Pool!NotifyAll \/ Pool!Join
             \/ \E w \in Worker : \/ Pool!Lock(w) \/ Pool!FindNothing(w) \/ Pool!Wait(w)
                                  \/ Pool!WakeUp(w) \/ Pool!Leave(w)
    BY <1>1, <2>4, MonitorStep
  <2>5. CASE Pool!Over
    BY <1>1, <2>5, PoolStutters DEF Pool!Over, Pool!poolVars, poolVars
  <2>. QED  BY <1>1, <2>1, <2>2, <2>3, <2>4, <2>5, Zenon DEF Pool!PoolNext, Pool!WorkerStep
<1>. QED  BY <1>1, PoolStutters

LEMMA InitPoolInv == Pool!PoolInit => PoolInv
<1>. SUFFICES ASSUME Pool!PoolInit PROVE PoolInv
  OBVIOUS
<1>. USE SourcesConstants DEF Pool!PoolInit
<1>1. Pool!PoolTypeOK
  <2>1. queue \in Seq(Task) /\ mutex \in Worker \union {Nobody}
    OBVIOUS
  <2>2. at \in [Worker -> {"loop", "locked", "idle", "waiting", "running", "gone"}]
    OBVIOUS
  <2>3. task \in [Worker -> Task \union {Nobody}]
    OBVIOUS
  <2>4. /\ stop \in BOOLEAN /\ owner \in {"alive", "notify", "join", "gone"} /\ signals \in Nat
        /\ started \subseteq Task /\ done \subseteq started
    OBVIOUS
  <2>. QED  BY <2>1, <2>2, <2>3, <2>4 DEF Pool!PoolTypeOK
<1>2. MonitorIsExclusive /\ StopIsSeen /\ Pool!SomebodyComes
  BY DEF MonitorIsExclusive, StopIsSeen, Pool!SomebodyComes
<1>3. InQueue = {} /\ OnWorkers = {} /\ DOMAIN queue = {}
  BY DEF InQueue, OnWorkers
<1>4. EveryTaskHasItsPlace
  BY <1>3 DEF EveryTaskHasItsPlace
<1>. QED  BY <1>1, <1>2, <1>4 DEF PoolInv

LEMMA PoolInvMeans == PoolInv => Pool!NobodyIsForgotten
<1>. SUFFICES ASSUME PoolInv PROVE Pool!NobodyIsForgotten
  OBVIOUS
<1>1. Pool!SomebodyComes /\ (owner = "join" => Pool!Waiting = {})
  BY DEF PoolInv, StopIsSeen, Pool!Waiting
<1>2. \A v, w \in Worker :
        at[v] = "running" /\ at[w] = "running" /\ v # w => task[v] # task[w]
  BY DEF PoolInv, EveryTaskHasItsPlace
<1>3. \A w \in Worker : at[w] = "running" => task[w] \in started \ done
  BY DEF PoolInv, EveryTaskHasItsPlace, OnWorkers
<1>4. ASSUME owner = "gone" PROVE started = done
  <2>1. \A w \in Worker : at[w] = "gone"
    BY <1>4 DEF PoolInv, StopIsSeen
  <2>2. queue = <<>> /\ InQueue = {}
    BY <2>1 DEF PoolInv, StopIsSeen, InQueue
  <2>3. OnWorkers = {}
    BY <2>1 DEF OnWorkers
  <2>. QED  BY <2>2, <2>3 DEF PoolInv, EveryTaskHasItsPlace
<1>. QED  BY <1>1, <1>2, <1>3, <1>4 DEF Pool!NobodyIsForgotten

-----------------------------------------------------------------------------
\* A behaviour of EnvironmentSources is one of each source.
LEMMA SourcesAreSources ==
  SourcesSpec => Spec /\ Stream!Spec /\ Pool!PoolSpec
<1>1. SourcesInit => Init /\ Stream!Init /\ Pool!PoolInit
  BY DEF SourcesInit
<1>2. ASSUME [SourcesNext]_sourcesVars
      PROVE  [Next]_bakedVars /\ [Stream!Next]_(Stream!vars) /\ [Pool!PoolNext]_(Pool!poolVars)
  BY <1>2 DEF SourcesNext, sourcesVars, streamVars, poolVars, Pool!poolVars, Stream!vars,
     Stream!mainVars, Stream!tileVars, Stream!assetVars, Stream!bakedVars
<1>. QED  BY <1>1, <1>2, PTL DEF SourcesSpec, Spec, Stream!Spec, Pool!PoolSpec

\* Of the threads under the sources, none is left asleep over a task or over the end of
\* the pool, and no task is lost or run twice (the safety under PoolDrains).
THEOREM PoolForgetsNobody == SourcesSpec => []Pool!NobodyIsForgotten
<1>1. PoolInv /\ [Pool!PoolNext]_(Pool!poolVars) => PoolInv'
  BY PoolStep DEF poolVars, Pool!poolVars
<1>. QED  BY <1>1, InitPoolInv, PoolInvMeans, SourcesAreSources, PTL DEF Pool!PoolSpec

\* The baked source keeps what it promises beside the other sources.
THEOREM SourcesBakedIsSafe == SourcesSpec => Hysteresis /\ Implements
BY SourcesAreSources, BakedHysteresis, BakedImplements, PTL
=============================================================================
