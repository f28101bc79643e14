------------------------------ MODULE MeshProofs ------------------------------
(***************************************************************************)
(* Theorems about Mesh: the composition implements its parts, so that what *)
(* is proved of the config applier alone holds in it, and what the cache   *)
(* and the table hold when the daemon is quiet.                            *)
(***************************************************************************)
EXTENDS Mesh, ConfigApplierProofs

-----------------------------------------------------------------------------
(***************************************************************************)
(* The parts                                                               *)
(***************************************************************************)
LEMMA MeshStepIsApplierStep == MeshNext => [Next]_vars
<1> SUFFICES ASSUME MeshNext PROVE [Next]_vars
  OBVIOUS
<1>1. CASE FlushCache \/ ForwardUpdate \/ PublishConfig
  BY <1>1 DEF FlushCache, ForwardUpdate, PublishConfig, Next, PartnerOfApplier
<1>2. CASE PublishModel \/ ApplyModel
  BY <1>2 DEF PublishModel, ApplyModel
<1>3. CASE ApplyConfig
  BY <1>3 DEF ApplyConfig, Next, Applying
<1>4. CASE \E w \in DOMAIN worker : ForwardData(w) \/ Work(w) \/ Watch(w) \/ Break(w)
  BY <1>4 DEF ForwardData, Work, Watch, Break, Next, WorkerStep
<1>5. CASE Reconfigure \/ Change
  BY <1>5 DEF Reconfigure, Change, Next, Environment
<1> QED
  BY <1>1, <1>2, <1>3, <1>4, <1>5 DEF MeshNext

LEMMA MeshStepOrStutter == [MeshNext]_meshVars => [Next]_vars
BY MeshStepIsApplierStep DEF meshVars

\* In the data path the config applier and its workers do what they do alone, with
\* the IPVS applier as their partner; every theorem about Spec holds there.
THEOREM MeshHasConfigApplier == MeshSpec => Spec
<1>1. MeshInit => Init
  BY DEF MeshInit
<1> QED
  BY <1>1, MeshStepOrStutter, PTL DEF MeshSpec, Spec

-----------------------------------------------------------------------------
(***************************************************************************)
(* What is sent to the IPVS applier                                        *)
(***************************************************************************)
Busy(w) == worker[w].pc \in {"query", "build", "send"}

\* The message of a blocked worker is an update of its service, also when the service
\* was replaced by one of the same name after the message was built.
WorkersSend ==
  \A w \in DOMAIN worker :
    worker[w].pc = "send" =>
      /\ worker[w].out \in Update
      /\ worker[w].out.service.name = worker[w].service.name

\* And that of the config applier is one of the service it is at.
ApplierSends ==
  caPc = "send" =>
    caOut \in Update /\ caOut.service.name = cfg.services[pos].name

\* No worker stops before what it has asked for is forwarded.
LEMMA WorkerStaysBusy ==
  ASSUME TypeOK, WorkersSend, NEW w \in DOMAIN worker, WorkerStep(w)
  PROVE  /\ WorkersSend'
         /\ DOMAIN worker' = DOMAIN worker
         /\ \A v \in DOMAIN worker :
              /\ worker'[v].service = worker[v].service
              /\ Busy(v) => Busy(v)'
<1>1. WorkerEffect(w)
  BY WorkerStepEffect DEF TypeOK
<1>2. worker[w] \in WorkerState
  BY DEF TypeOK, WorkerTypeOK
<1>3. CASE BuildUpdate(w)
  <2> DEFINE u == [service |-> worker[w].service, data |-> worker[w].data,
                   cfg |-> worker[w].cfg]
  <2>1. u \in Update /\ u.service = worker[w].service
    BY <1>2 DEF WorkerState, Update
  <2>2. worker' = [worker EXCEPT ![w].pc = "send", ![w].data = NoBackends, ![w].out = u]
    BY <1>3 DEF BuildUpdate
  <2> HIDE DEF u
  <2>3. worker'[w].pc = "send" /\ worker'[w].out = u
    BY <1>2, <2>2 DEF WorkerState
  <2>4. \A v \in DOMAIN worker : v # w => worker'[v] = worker[v]
    BY <2>2
  <2> QED
    BY <1>1, <2>1, <2>3, <2>4 DEF WorkersSend, Busy, WorkerEffect
<1>4. CASE WorkerRuns(w) /\ ~ BuildUpdate(w)
  <2>1. /\ worker'[w].pc # "send"
        /\ worker[w].pc \in {"query", "build", "send"} =>
             worker'[w].pc \in {"query", "build", "send"}
    BY <1>2, <1>4 DEF WorkerRuns, QueryData, StartLoop, Notified, TakeStop, Quit, WorkerState
  <2>2. \A v \in DOMAIN worker : v # w => worker'[v] = worker[v]
    BY <1>4 DEF WorkerRuns, QueryData, StartLoop, Notified, TakeStop, Quit
  <2> QED
    BY <1>1, <2>1, <2>2 DEF WorkersSend, Busy, WorkerEffect
<1>5. CASE LoopRuns(w) \/ StreamBroken(w)
  <2>1. worker' = worker
    BY <1>5 DEF LoopRuns, FileChanged, ListenersChanged, DockerEvent, StreamBroken
  <2> QED
    BY <2>1 DEF WorkersSend, Busy
<1> QED
  BY <1>3, <1>4, <1>5 DEF WorkerStep

\* What holds of the config applier alone, and of the messages
SendInv == TypeInv /\ ProgressInv /\ WorkersSend /\ ApplierSends

LEMMA SendInit == MeshInit => SendInv
<1> SUFFICES ASSUME MeshInit PROVE SendInv
  OBVIOUS
<1>1. Init
  BY DEF MeshInit
<1>2. ProgressInv /\ WorkersSend /\ ApplierSends
  BY <1>1 DEF Init, WorkerInit, ProgressInv, WorkersSend, ApplierSends
<1> QED
  BY <1>1, <1>2, InitType DEF SendInv

\* The message of the config applier is built from a worker of the service's name.
LEMMA QueriedName ==
  ASSUME TypeInv, QueryForUpdate
  PROVE  caOut' \in Update /\ caOut'.service.name = cfg.services[pos].name
<1> DEFINE name == cfg.services[pos].name
           w == First(WorkersNamed(name))
<1>1. w \in DOMAIN worker /\ w \in WorkersNamed(name)
  BY FoundWorker DEF QueryForUpdate, TypeInv, QueryHasWorker
<1>2. worker[w].service.name = name /\ worker[w] \in WorkerState
  BY <1>1 DEF WorkersNamed, TypeInv, TypeOK, WorkerTypeOK
<1>3. PICK d \in GetDownwardData(w) :
        caOut' = [service |-> worker[w].service, data |-> d, cfg |-> worker[w].cfg]
  BY DEF QueryForUpdate
<1>4. d \in Data
  BY <1>1, <1>3, DownwardDataIsData DEF TypeInv, TypeOK
<1> HIDE DEF w
<1> QED
  BY <1>2, <1>3, <1>4 DEF Update, WorkerState

\* UpdateWorker gives the worker another service of the same name.
LEMMA UpdateKeepsNames ==
  ASSUME TypeInv, UpdateWorker
  PROVE  \A v \in DOMAIN worker :
           /\ v \in DOMAIN worker'
           /\ worker'[v].pc = worker[v].pc
           /\ worker'[v].out = worker[v].out
           /\ worker'[v].service.name = worker[v].service.name
<1> DEFINE service == cfg.services[pos]
           w == First(WorkersNamed(service.name))
<1>1. w \in WorkersNamed(service.name) /\ w \in DOMAIN worker
  BY FoundWorker DEF UpdateWorker, TypeInv
<1>2. worker[w].service.name = service.name /\ worker[w] \in WorkerState
  BY <1>1 DEF WorkersNamed, TypeInv, TypeOK, WorkerTypeOK
<1>3. worker' = [worker EXCEPT ![w].service = service]
  BY DEF UpdateWorker
<1> HIDE DEF w, service
<1>4. /\ worker'[w].service = service
      /\ worker'[w].pc = worker[w].pc
      /\ worker'[w].out = worker[w].out
  BY <1>1, <1>2, <1>3 DEF WorkerState
<1>5. \A v \in DOMAIN worker : v # w => worker'[v] = worker[v]
  BY <1>3
<1>6. DOMAIN worker' = DOMAIN worker
  BY <1>3
<1> QED
  BY <1>2, <1>4, <1>5, <1>6

LEMMA SendStep ==
  ASSUME SendInv, [MeshNext]_meshVars
  PROVE  SendInv'
<1>1. TypeInv' /\ ProgressInv'
  BY MeshStepOrStutter, NextType, NextProgress DEF SendInv
<1>2. WorkersSend' /\ ApplierSends'
  <2> USE DEF SendInv
  <2>1. CASE QueryForUpdate
    BY <2>1, QueriedName DEF QueryForUpdate, workerVars, WorkersSend, ApplierSends
  <2>2. CASE CreateWorker
    <3>1. ApplierSends'
      BY <2>2 DEF CreateWorker, ApplierSends
    <3>0. PICK new : new = Len(worker) + 1
      OBVIOUS
    <3>2. /\ DOMAIN worker' = DOMAIN worker \cup {new}
          /\ \A v \in DOMAIN worker : worker'[v] = worker[v]
          /\ worker'[new].pc = "query"
      BY <2>2, <3>0, CreateWorkerType DEF NewWorker
    <3> QED
      BY <3>1, <3>2 DEF WorkersSend
  <2>3. CASE UpdateWorker
    <3>1. DOMAIN worker' = DOMAIN worker /\ ApplierSends'
      BY <2>3, UpdateWorkerType DEF UpdateWorker, ApplierSends
    <3> QED
      BY <2>3, <3>1, UpdateKeepsNames DEF WorkersSend
  <2>4. CASE \E w \in DOMAIN worker : WorkerStep(w) /\ UNCHANGED applierVars
    BY <2>4, WorkerStaysBusy DEF TypeInv, applierVars, ApplierSends
  <2>5. CASE \E w \in DOMAIN worker : WorkerSent(w) /\ UNCHANGED applierVars
    <3>1. PICK w \in DOMAIN worker : WorkerSent(w) /\ UNCHANGED applierVars
      BY <2>5
    <3>2. WorkerEffect(w) /\ worker[w] \in WorkerState
      BY <3>1, WorkerStepEffect DEF TypeInv, TypeOK, WorkerTypeOK
    <3>3. worker'[w].pc # "send" /\ \A v \in DOMAIN worker : v # w => worker'[v] = worker[v]
      BY <3>1, <3>2 DEF WorkerSent, WorkerState
    <3> QED
      BY <3>1, <3>2, <3>3 DEF WorkersSend, ApplierSends, applierVars, WorkerEffect
  <2>6. CASE UNCHANGED <<worker, caPc, cfg, pos, caOut>>
             \/ (UNCHANGED worker /\ caPc' # "send")
    BY <2>6 DEF WorkersSend, ApplierSends
  <2>7. CASE FlushCache \/ ForwardUpdate \/ PublishConfig \/ PublishModel \/ ApplyModel
             \/ Reconfigure \/ Change \/ UNCHANGED meshVars
    BY <2>6, <2>7 DEF FlushCache, FlushSent, ForwardUpdate, UpdateSent, PublishConfig,
       ConfigPublished, PublishModel, ApplyModel, Reconfigure, ReceiveConfig, Change,
       SourceChanges, meshVars, vars, workerVars, applierVars
  <2>8. CASE TakeDown \/ NothingToTakeDown \/ ApplyDone
    BY <2>6, <2>8 DEF TakeDown, SendStop, NothingToTakeDown, ApplyDone, workerVars
  <2> QED
    BY <2>1, <2>2, <2>3, <2>4, <2>5, <2>7, <2>8
       DEF MeshNext, ApplyConfig, ForwardData, Work, Watch, Break, WorkerStep
<1> QED
  BY <1>1, <1>2 DEF SendInv

LEMMA SendInvariant == MeshSpec => []SendInv
BY SendInit, SendStep, PTL DEF MeshSpec

\* The other part: every update that reaches the IPVS applier is one it can be sent.
LEMMA MeshStepIsIPVSStep ==
  ASSUME SendInv, [MeshNext]_meshVars
  PROVE  IA!IPVSNext \/ UNCHANGED ipvsVars
<1>1. CASE ForwardUpdate
  <2>1. caOut \in IA!Message
    BY <1>1 DEF ForwardUpdate, UpdateSent, SendInv, ApplierSends, Update, IA!Message
  <2> QED
    BY <1>1, <2>1 DEF ForwardUpdate, IA!IPVSNext
<1>2. ASSUME NEW w \in DOMAIN worker, ForwardData(w)
      PROVE  IA!IPVSNext
  <2>1. worker[w].out \in IA!Message
    BY <1>2 DEF ForwardData, WorkerSent, SendInv, WorkersSend, Update, IA!Message
  <2> QED
    BY <1>2, <2>1 DEF ForwardData, IA!IPVSNext
<1>3. CASE FlushCache \/ PublishModel \/ ApplyModel
  BY <1>3 DEF FlushCache, PublishModel, ApplyModel, IA!IPVSNext
<1>4. CASE PublishConfig \/ ApplyConfig \/ Reconfigure \/ Change \/ UNCHANGED meshVars
  BY <1>4 DEF PublishConfig, ApplyConfig, Reconfigure, Change, meshVars, ipvsVars
<1>5. ASSUME NEW w \in DOMAIN worker, Work(w) \/ Watch(w) \/ Break(w)
      PROVE  UNCHANGED ipvsVars
  BY <1>5 DEF Work, Watch, Break, ipvsVars
<1> QED
  BY <1>1, <1>2, <1>3, <1>4, <1>5 DEF MeshNext

\* In the data path the IPVS applier does what it does alone, with the config applier and
\* its workers as its partners.
THEOREM MeshHasIPVSApplier == MeshSpec => IA!IPVSSpec
<1>1. MeshInit => IA!IPVSInit
  BY DEF MeshInit
<1>2. SendInv /\ [MeshNext]_meshVars => [IA!IPVSNext]_IA!ipvsVars
  BY MeshStepIsIPVSStep DEF ipvsVars, IA!ipvsVars
<1> QED
  BY <1>1, <1>2, SendInvariant, PTL DEF MeshSpec, IA!IPVSSpec

-----------------------------------------------------------------------------
(***************************************************************************)
(* Every configured service reaches the cache                              *)
(***************************************************************************)
\* A name is in the cache, or a worker is on the way to put it there.
Pending(name) ==
  \/ name \in DOMAIN services
  \/ \E w \in DOMAIN worker : Busy(w) /\ worker[w].service.name = name

Covered(n) == \A i \in 1 .. n : Pending(cfg.services[i].name)

\* Neither part alone is inductive: between the flush and the update of a service
\* that was configured before, only the progress of the config applier says that the
\* cache will hold it again; a new one is the worker's to deliver.
CoverInv ==
  /\ caPc = "select" /\ cfg # NoConfig => Covered(Len(cfg.services))
  /\ caPc \in {"apply", "query", "send"} => Covered(pos - 1)

\* A step that takes nothing out of the cache and leaves nothing behind
Forwards ==
  /\ DOMAIN services \subseteq DOMAIN services'
  /\ \A v \in DOMAIN worker :
       /\ v \in DOMAIN worker'
       /\ worker'[v].service.name = worker[v].service.name
       /\ Busy(v) => Busy(v)' \/ worker[v].service.name \in DOMAIN services'

LEMMA PendingStays ==
  ASSUME Forwards, NEW name, Pending(name)
  PROVE  Pending(name)'
<1>1. CASE name \in DOMAIN services
  BY <1>1 DEF Forwards, Pending
<1>2. CASE \E w \in DOMAIN worker : Busy(w) /\ worker[w].service.name = name
  BY <1>2 DEF Forwards, Pending
<1> QED
  BY <1>1, <1>2 DEF Pending

LEMMA CoveredStays ==
  ASSUME Forwards, NEW n, Covered(n), cfg' = cfg
  PROVE  \A i \in 1 .. n : Pending(cfg.services[i].name)'
BY PendingStays DEF Covered, Pending, Busy

\* An update that is integrated is in the cache under the name of its service.
LEMMA IntegrateCaches ==
  ASSUME NEW u, IA!Integrate(u)
  PROVE  DOMAIN services' = DOMAIN services \cup {u.service.name}
BY DEF IA!Integrate, IA!Updated

\* A step that keeps the position and leaves nothing behind keeps the coverage.
LEMMA CoverKept ==
  ASSUME CoverInv, Forwards, UNCHANGED <<caPc, cfg, pos>>
  PROVE  CoverInv'
BY CoveredStays DEF CoverInv, Covered

LEMMA CoverStep ==
  ASSUME SendInv, CoverInv, [MeshNext]_meshVars
  PROVE  CoverInv'
<1> USE DEF SendInv
<1>0. pos \in Nat
  BY DEF TypeInv, TypeOK
<1>1. CASE FlushCache \/ PublishConfig \/ Reconfigure
  BY <1>1 DEF FlushCache, FlushSent, PublishConfig, ConfigPublished, Reconfigure,
              ReceiveConfig, CoverInv
<1>2. CASE ForwardUpdate
  <2>1. /\ caPc = "send" /\ caPc' = "apply" /\ pos' = pos + 1 /\ cfg' = cfg
        /\ worker' = worker
        /\ caOut.service.name = cfg.services[pos].name
    BY <1>2 DEF ForwardUpdate, UpdateSent, workerVars, ApplierSends
  <2>2. DOMAIN services' = DOMAIN services \cup {cfg.services[pos].name}
    BY <1>2, <2>1, IntegrateCaches DEF ForwardUpdate
  <2>3. Forwards
    BY <2>1, <2>2 DEF Forwards, Busy
  <2>4. \A i \in 1 .. pos - 1 : Pending(cfg.services[i].name)'
    BY <2>1, <2>3, CoveredStays DEF CoverInv
  <2>5. cfg.services[pos].name \in DOMAIN services'
    BY <2>2
  <2>6. Covered(pos - 1)'
    BY <1>0, <2>1, <2>4, <2>5 DEF Covered, Pending, Busy
  <2> QED
    BY <2>1, <2>6 DEF CoverInv
<1>3. CASE PublishModel \/ ApplyModel \/ Change \/ UNCHANGED meshVars
  <2>1. UNCHANGED <<worker, services, caPc, cfg, pos>>
    BY <1>3 DEF PublishModel, ApplyModel, IA!ModelPublished, IA!IPVSApplying, IA!WriteFile,
       IA!RunIpvsctl, IA!UnknownExecType, Change, SourceChanges, meshVars, vars,
       workerVars, applierVars, ipvsVars
  <2>2. Forwards
    BY <2>1 DEF Forwards, Busy
  <2> QED
    BY <2>1, <2>2, CoverKept
<1>4. CASE ApplyConfig
  <2>1. services' = services
    BY <1>4 DEF ApplyConfig, ipvsVars
  <2>2. CASE TakeDown \/ NothingToTakeDown
    <3>1. caPc = "walk" /\ caPc' = "apply" /\ pos' = pos
      BY <2>2 DEF TakeDown, NothingToTakeDown
    <3>2. pos' = 1
      BY <3>1 DEF ProgressInv
    <3> QED
      BY <3>1, <3>2 DEF CoverInv, Covered
  <2>3. CASE CreateWorker
    <3>0. PICK new : new = Len(worker) + 1
      OBVIOUS
    <3>1. /\ caPc' = "apply" /\ caPc = "apply" /\ pos' = pos + 1 /\ cfg' = cfg
      BY <2>3 DEF CreateWorker
    <3>2. /\ DOMAIN worker' = DOMAIN worker \cup {new}
          /\ \A v \in DOMAIN worker : worker'[v] = worker[v]
          /\ worker'[new].pc = "query"
          /\ worker'[new].service = cfg.services[pos]
      BY <2>3, <3>0, CreateWorkerType DEF NewWorker
    <3>3. Forwards
      BY <2>1, <3>2 DEF Forwards, Busy
    <3>4. \A i \in 1 .. pos - 1 : Pending(cfg.services[i].name)'
      BY <3>1, <3>3, CoveredStays DEF CoverInv
    <3>5. worker'[new].service.name = cfg.services[pos].name /\ Busy(new)'
      BY <3>2 DEF Busy
    <3>6. Covered(pos - 1)'
      BY <1>0, <3>1, <3>2, <3>4, <3>5 DEF Covered, Pending, Busy
    <3> QED
      BY <3>1, <3>6 DEF CoverInv
  <2>4. CASE UpdateWorker
    <3>1. caPc = "apply" /\ caPc' = "query" /\ UNCHANGED <<cfg, pos>>
      BY <2>4 DEF UpdateWorker
    <3>2. Forwards
      BY <2>1, <2>4, UpdateKeepsNames DEF Forwards, Busy
    <3>3. Covered(pos - 1)'
      BY <3>1, <3>2, CoveredStays DEF CoverInv, Covered
    <3> QED
      BY <3>1, <3>3 DEF CoverInv
  <2>5. CASE QueryForUpdate \/ ApplyDone
    <3>1. UNCHANGED <<worker, cfg>>
      BY <2>5 DEF QueryForUpdate, ApplyDone, workerVars
    <3>2. Forwards
      BY <2>1, <3>1 DEF Forwards, Busy
    <3>3. CASE QueryForUpdate
      <4>1. caPc = "query" /\ caPc' = "send" /\ pos' = pos
        BY <3>3 DEF QueryForUpdate
      <4>2. Covered(pos - 1)'
        BY <3>1, <3>2, <4>1, CoveredStays DEF CoverInv, Covered
      <4> QED
        BY <4>1, <4>2 DEF CoverInv
    <3>4. CASE ApplyDone
      <4>1. caPc = "apply" /\ caPc' = "select" /\ pos > Len(cfg.services)
            /\ pos <= Len(cfg.services) + 1
        BY <3>4 DEF ApplyDone, ProgressInv
      <4>2. Len(cfg.services) \in Nat
        BY <4>1, ApplierAssumption DEF TypeInv, TypeOK
      <4>3. pos - 1 = Len(cfg.services)
        BY <1>0, <4>1, <4>2
      <4>4. Covered(Len(cfg.services))'
        BY <3>1, <3>2, <4>1, <4>3, CoveredStays DEF CoverInv, Covered
      <4> QED
        BY <4>1, <4>4 DEF CoverInv
    <3> QED
      BY <2>5, <3>3, <3>4
  <2> QED
    BY <1>4, <2>2, <2>3, <2>4, <2>5 DEF ApplyConfig
<1>5. ASSUME NEW w \in DOMAIN worker, ForwardData(w)
      PROVE  CoverInv'
  <2>1. /\ worker[w].out.service.name = worker[w].service.name
        /\ UNCHANGED <<caPc, cfg, pos>>
        /\ WorkerEffect(w)
    BY <1>5, WorkerStepEffect
       DEF ForwardData, WorkerSent, WorkersSend, applierVars, TypeInv, TypeOK
  <2>2. DOMAIN services' = DOMAIN services \cup {worker[w].service.name}
    BY <1>5, <2>1, IntegrateCaches DEF ForwardData
  <2>3. \A v \in DOMAIN worker : v # w => worker'[v] = worker[v]
    BY <1>5 DEF ForwardData, WorkerSent
  <2>4. Forwards
    BY <2>1, <2>2, <2>3 DEF Forwards, Busy, WorkerEffect
  <2> QED
    BY <2>1, <2>4, CoverKept
<1>6. ASSUME NEW w \in DOMAIN worker, Work(w) \/ Watch(w) \/ Break(w)
      PROVE  CoverInv'
  <2>1. UNCHANGED <<caPc, cfg, pos, services>>
    BY <1>6 DEF Work, Watch, Break, applierVars, ipvsVars
  <2>2. Forwards
    BY <1>6, <2>1, WorkerStaysBusy DEF Work, Watch, Break, WorkerStep, TypeInv, Forwards
  <2> QED
    BY <2>1, <2>2, CoverKept
<1> QED
  BY <1>1, <1>2, <1>3, <1>4, <1>5, <1>6 DEF MeshNext

\* When the daemon is quiet, every configured service is in the cache, whatever the
\* flushes, stops and updates of the reloads before (ipvsapplier.go:205-206,
\* configapplier.go:103-107).
THEOREM CacheAlwaysCoversConfig == MeshSpec => []CacheCoversConfig
<1>1. MeshInit => CoverInv
  BY DEF MeshInit, Init, CoverInv
<1>2. SendInv /\ CoverInv /\ [MeshNext]_meshVars => CoverInv'
  BY CoverStep
<1>3. SendInv /\ CoverInv => CacheCoversConfig
  <2> SUFFICES ASSUME SendInv, CoverInv, Configured, NEW name \in Names
               PROVE  name \in DOMAIN services
    BY DEF CacheCoversConfig
  <2>1. cfg \in Config /\ cfg # NoConfig /\ caPc = "select"
    BY DEF Configured, Quiet, SendInv, TypeInv, TypeOK
  <2>2. cfg.services \in Seq(Service)
    BY <2>1, ApplierAssumption
  <2>3. PICK i \in 1 .. Len(cfg.services) : cfg.services[i].name = name
    BY <2>1, <2>2 DEF Names
  <2>4. Pending(name)
    BY <2>1, <2>3 DEF CoverInv, Covered
  <2>5. \A w \in DOMAIN worker : ~ Busy(w)
    BY DEF Configured, Quiet, Stuck, Busy
  <2> QED
    BY <2>4, <2>5 DEF Pending
<1> QED
  BY <1>1, <1>2, <1>3, SendInvariant, PTL DEF MeshSpec

-----------------------------------------------------------------------------
(***************************************************************************)
(* The table of the kernel                                                 *)
(***************************************************************************)
\* The execution types that run ipvsctl, and calls that do not fail
CallsSucceed ==
  /\ ~ CallsFail
  /\ \A c \in Config : c.globals.execType \in {"", "exec-only", "file-and-exec"}

\* A model holds the backends of the cached services, in some order, and only those.
Holds(model, cache) ==
  \E order \in IA!SetToSeqs(IA!NonEmpty(cache)) :
    /\ Len(order) = Len(model)
    /\ \A p \in DOMAIN order :
         IA!Addresses(model[p].destinations) = IA!Addresses(cache[order[p]].data)

\* Whatever the order in which the cache is ranged over, its model holds it.
LEMMA ModelHolds ==
  ASSUME NEW u, NEW cache, IsFiniteSet(DOMAIN cache),
         NEW order \in IA!SetToSeqs(IA!NonEmpty(cache))
  PROVE  Holds(IA!Model(u, cache, order), cache)
<1> DEFINE n == Cardinality(IA!NonEmpty(cache))
           model == IA!Model(u, cache, order)
<1>1. n \in Nat
  BY FS_Subset, FS_CardinalityType DEF IA!NonEmpty
<1>2. DOMAIN order = 1 .. n
  <2>1. IA!Cardinality(IA!NonEmpty(cache)) = n
    BY DEF IA!Cardinality, Cardinality
  <2>2. order \in [1 .. n -> IA!NonEmpty(cache)]
    BY <2>1 DEF IA!SetToSeqs
  <2> QED
    BY <2>2
<1>3. DOMAIN model = DOMAIN order
  BY DEF IA!Model
<1>4. Len(order) = Len(model)
  <2> HIDE DEF model, n
  <2> QED
    BY <1>1, <1>2, <1>3
<1>5. ASSUME NEW p \in DOMAIN order
      PROVE  IA!Addresses(model[p].destinations) = IA!Addresses(cache[order[p]].data)
  BY DEF IA!Model, IA!Addresses
<1> QED
  BY <1>4, <1>5 DEF Holds

\* While an update is applied the table may lag behind the model; what the step that
\* ends it installs is the model of the cache.
TableInv ==
  /\ IsFiniteSet(DOMAIN services)
  /\ apPc \in {"select", "apply", "exec", "publish"}
  /\ apPc # "select" => apCfg \in Config /\ services # <<>>
  /\ services # <<>> => Holds(target, services)
  /\ apPc = "exec" => file = target
  /\ apPc \in {"select", "publish"} /\ services # <<>> => kernel = target

LEMMA IntegrateTable ==
  ASSUME TableInv, NEW u \in Update, IA!Integrate(u)
  PROVE  TableInv'
<1> DEFINE name == u.service.name
<1>1. DOMAIN services' = DOMAIN services \cup {name}
  BY DEF IA!Integrate, IA!Updated
<1>2. IsFiniteSet(DOMAIN services')
  BY <1>1, FS_AddElement DEF TableInv
<1>3. services' # <<>>
  <2>1. DOMAIN services' # {} /\ DOMAIN <<>> = {}
    BY <1>1
  <2> QED
    BY <2>1
<1>4. Holds(target', services')
  BY <1>2, ModelHolds DEF IA!Integrate
<1>5. Holds(target, services)'
  BY <1>4 DEF Holds
<1>6. apPc' = "apply" /\ apCfg' \in Config
  BY DEF IA!Integrate, Update
<1> QED
  BY <1>2, <1>3, <1>5, <1>6 DEF TableInv

LEMMA TableStep ==
  ASSUME CallsSucceed, SendInv, TableInv, [MeshNext]_meshVars
  PROVE  TableInv'
<1>1. CASE ForwardUpdate
  <2>1. caOut \in Update
    BY <1>1 DEF ForwardUpdate, UpdateSent, SendInv, ApplierSends
  <2> QED
    BY <1>1, <2>1, IntegrateTable DEF ForwardUpdate
<1>2. ASSUME NEW w \in DOMAIN worker, ForwardData(w)
      PROVE  TableInv'
  <2>1. worker[w].out \in Update
    BY <1>2 DEF ForwardData, WorkerSent, SendInv, WorkersSend
  <2> QED
    BY <1>2, <2>1, IntegrateTable DEF ForwardData
<1>3. CASE FlushCache
  <2>1. services' = <<>> /\ DOMAIN services' = {} /\ apPc' = "select"
    BY <1>3 DEF FlushCache, IA!Flush
  <2> QED
    BY <2>1, FS_EmptySet DEF TableInv
<1>4. CASE ApplyModel
  <2>1. UNCHANGED <<services, target, apCfg>>
    BY <1>4 DEF ApplyModel, IA!IPVSApplying, IA!WriteFile, IA!RunIpvsctl, IA!UnknownExecType
  <2>2. Holds(target, services)' <=> Holds(target, services)
    BY <2>1 DEF Holds
  <2>3. apPc # "select" => IA!ExecType \in {"exec-only", "file-and-exec"}
    BY DEF CallsSucceed, TableInv, IA!ExecType, IA!OrDefault
  <2>4. ~ IA!UnknownExecType
    BY <2>3 DEF IA!UnknownExecType
  <2>5. CASE IA!WriteFile
    <3>1. apPc = "apply" /\ apPc' = "exec" /\ file' = target
      BY <2>3, <2>5 DEF IA!WriteFile, CallsSucceed
    <3> QED
      BY <2>1, <2>2, <3>1 DEF TableInv
  <2>6. CASE IA!RunIpvsctl
    <3>1. apPc' = "publish" /\ kernel' = target /\ apPc # "select"
      BY <2>6 DEF IA!RunIpvsctl, CallsSucceed, TableInv
    <3> QED
      BY <2>1, <2>2, <3>1 DEF TableInv
  <2> QED
    BY <1>4, <2>4, <2>5, <2>6 DEF ApplyModel, IA!IPVSApplying
<1>5. CASE UNCHANGED <<apCfg, services, target, file, kernel>>
           /\ (apPc' = apPc \/ (apPc = "publish" /\ apPc' = "select"))
  <2>1. Holds(target, services)' <=> Holds(target, services)
    BY <1>5 DEF Holds
  <2> QED
    BY <1>5, <2>1 DEF TableInv
<1>6. CASE PublishModel \/ PublishConfig \/ ApplyConfig \/ Reconfigure \/ Change
           \/ UNCHANGED meshVars
  BY <1>5, <1>6 DEF PublishModel, IA!ModelPublished, PublishConfig, ApplyConfig, Reconfigure,
                    Change, meshVars, ipvsVars
<1>7. ASSUME NEW w \in DOMAIN worker, Work(w) \/ Watch(w) \/ Break(w)
      PROVE  TableInv'
  BY <1>5, <1>7 DEF Work, Watch, Break, ipvsVars
<1> QED
  BY <1>1, <1>2, <1>3, <1>4, <1>6, <1>7 DEF MeshNext

\* When the daemon is quiet and a service is cached, the table of the kernel holds the
\* backends of all cached services, and only those, provided ipvsctl runs and does not
\* fail (ipvsapplier.go:84-136, 182-192).
THEOREM TableAlwaysMatchesCache ==
  ASSUME CallsSucceed
  PROVE  MeshSpec => []TableMatchesCache
<1>1. MeshInit => TableInv
  <2> SUFFICES ASSUME MeshInit PROVE TableInv
    OBVIOUS
  <2>1. services = <<>> /\ DOMAIN services = {} /\ apPc = "select"
    BY DEF MeshInit, IA!IPVSInit
  <2> QED
    BY <2>1, FS_EmptySet DEF TableInv
<1>2. SendInv /\ TableInv /\ [MeshNext]_meshVars => TableInv'
  BY TableStep
<1>3. TableInv => TableMatchesCache
  BY DEF TableInv, TableMatchesCache, Quiet, Holds
<1> QED
  BY <1>1, <1>2, <1>3, SendInvariant, PTL DEF MeshSpec

-----------------------------------------------------------------------------
(***************************************************************************)
(* Following the sources, without reloads                                  *)
(***************************************************************************)
\* One configuration, in which each service has its own name; queries that succeed; and
\* sources whose lists tell their states apart.
OneConfig ==
  /\ MaxConfigs = 1
  /\ ~ ReadsFail
  /\ \A s, t \in Service : s.name = t.name => s = t
  /\ \A c \in Config : \A i, j \in DOMAIN c.services : c.services[i] = c.services[j] => i = j
  /\ \A src \in Sources : \A v, w \in 0 .. MaxChanges :
       Content[src][v] # NoBackends /\ (Content[src][v] = Content[src][w] => v = w)

Known(src, data) == data = NoBackends \/ \E v \in 0 .. MaxChanges : data = Content[src][v]

LEMMA VersionOfContent ==
  ASSUME OneConfig, NEW src \in Sources, NEW v \in 0 .. MaxChanges
  PROVE  Known(src, Content[src][v]) /\ Version(src, Content[src][v]) = v
<1>1. DOMAIN Content[src] = 0 .. MaxChanges
  BY WorkerAssumption
<1>2. Content[src][v] # NoBackends
      /\ \A w \in 0 .. MaxChanges : Content[src][w] = Content[src][v] => w = v
  BY DEF OneConfig
<1> QED
  BY <1>1, <1>2 DEF Known, Version

LEMMA VersionOfKnown ==
  ASSUME OneConfig, NEW src \in Sources, NEW data, Known(src, data)
  PROVE  /\ Version(src, data) \in {Unseen} \cup (0 .. MaxChanges)
         /\ Version(src, data) # Unseen => data = Content[src][Version(src, data)]
<1>1. CASE data = NoBackends
  BY <1>1 DEF Version
<1>2. CASE \E v \in 0 .. MaxChanges : data = Content[src][v]
  BY <1>2, VersionOfContent
<1> QED
  BY <1>1, <1>2 DEF Known

LEMMA VersionOfNone ==
  ASSUME NEW src PROVE Known(src, NoBackends) /\ Version(src, NoBackends) = Unseen
BY DEF Known, Version

\* The newest state of the source that the plugin can have told the worker: that of the
\* source itself, or for sockets that which the loop has seen.
Limit(r, l, v) == IF Kind[r.service.src] = "socket" THEN l.seen ELSE v

Newer(r, l, v, held, data) ==
  LET src == r.service.src IN
  /\ Known(src, data)
  /\ Version(src, held) <= Version(src, data)
  /\ Version(src, data) <= Limit(r, l, v)

\* What the loop has seen and told is in the list, or a notification is outstanding.
\* (The subscription to the events of docker says nothing about the state before it.)
Fresh(r, l, data) ==
  Kind[r.service.src] # "docker" /\ l.pc # "notify" => l.seen <= Version(r.service.src, data)

\* Worker r with loop l, whose source has changed v times, when the cache holds these data
\* of its service: a list under way is not older than the cache's, and the last one under
\* way will have what the loop has told.
Follows(r, l, v, held) ==
  /\ l.src = r.service.src
  /\ l.seen <= v
  /\ l.pc = "none" => l.seen = Unseen
  /\ l.pc = "none" \/ l.own
  /\ l.pc = "dead" => Kind[l.src] = "docker"
  /\ r.pc = "start" => l.pc = "none"
  /\ r.pc \notin {"quit", "done"} /\ l.pc # "done"
  /\ Newer(r, l, v, held, held)
  /\ r.pc = "build" => Newer(r, l, v, held, r.data) /\ Fresh(r, l, r.data)
  /\ r.pc = "send" =>
       /\ r.out.service = r.service
       /\ Newer(r, l, v, held, r.out.data)
       /\ Fresh(r, l, r.out.data)
  /\ r.pc \in {"start", "select"} => Fresh(r, l, held)

LEMMA CreatedFollows ==
  ASSUME OneConfig, NEW c, NEW service \in Service, NEW v \in 0 .. MaxChanges
  PROVE  Follows(NewWorker(c, service), NewLoop(service), v, NoBackends)
<1> DEFINE r == NewWorker(c, service)
           l == NewLoop(service)
<1>1. /\ r.pc = "query" /\ r.service = service
      /\ l.pc = "none" /\ l.src = service.src /\ l.seen = Unseen
  BY DEF NewWorker, NewLoop
<1>2. Newer(r, l, v, NoBackends, NoBackends)
  BY <1>1, VersionOfNone DEF Newer, Limit, Unseen
<1>3. Follows(r, l, v, NoBackends)
  <2> HIDE DEF r, l
  <2> QED
    BY <1>1, <1>2 DEF Follows, Unseen
<1> QED
  BY <1>3

LEMMA QueriedFollows ==
  ASSUME OneConfig, NEW r \in WorkerState, NEW l \in LoopState, NEW v \in 0 .. MaxChanges,
         NEW held, Follows(r, l, v, held), r.pc = "query", NEW data,
         IF Kind[r.service.src] = "socket"
         THEN data = IF l.own /\ l.seen # Unseen THEN Content[r.service.src][l.seen]
                     ELSE NoBackends
         ELSE data = Content[r.service.src][v]
  PROVE  Follows([r EXCEPT !.pc = "build", !.data = data], l, v, held)
<1> DEFINE src == r.service.src
           q == [r EXCEPT !.pc = "build", !.data = data]
<1>1. src \in Sources
  BY WorkerAssumption DEF WorkerState
<1>2. l.seen \in {Unseen} \cup (0 .. MaxChanges)
  BY DEF LoopState
<1>3. Known(src, data) /\ Version(src, data) = Limit(r, l, v)
  <2>1. CASE Kind[src] = "socket" /\ l.seen # Unseen
    BY <1>1, <1>2, <2>1, VersionOfContent DEF Limit, Follows
  <2>2. CASE Kind[src] = "socket" /\ l.seen = Unseen
    BY <2>2, VersionOfNone DEF Limit
  <2>3. CASE Kind[src] # "socket"
    BY <1>1, <2>3, VersionOfContent DEF Limit
  <2> QED
    BY <2>1, <2>2, <2>3
<1>4. q.pc = "build" /\ q.data = data /\ q.service = r.service
  BY DEF WorkerState
<1>5. Limit(r, l, v) \in Int /\ l.seen <= Limit(r, l, v)
  BY <1>2 DEF Limit, Follows, Unseen
<1> HIDE DEF q
<1> QED
  BY <1>3, <1>4, <1>5 DEF Follows, Newer, Fresh, Limit

LEMMA BuiltFollows ==
  ASSUME NEW r \in WorkerState, NEW l, NEW v, NEW held, Follows(r, l, v, held), r.pc = "build",
         NEW u, u.service = r.service, u.data = r.data
  PROVE  Follows([r EXCEPT !.pc = "send", !.data = NoBackends, !.out = u], l, v, held)
<1> DEFINE q == [r EXCEPT !.pc = "send", !.data = NoBackends, !.out = u]
<1>1. q.pc = "send" /\ q.out = u /\ q.service = r.service
  BY DEF WorkerState
<1> HIDE DEF q
<1> QED
  BY <1>1 DEF Follows, Newer, Fresh, Limit

\* When the list arrives, the cache holds it.
LEMMA SentFollows ==
  ASSUME OneConfig, NEW r \in WorkerState, NEW l, NEW v, NEW held,
         Follows(r, l, v, held), r.pc = "send"
  PROVE  Follows([r EXCEPT !.pc = IF l.pc = "none" THEN "start" ELSE "select",
                           !.out = NoUpdate], l, v, r.out.data)
<1> DEFINE q == [r EXCEPT !.pc = IF l.pc = "none" THEN "start" ELSE "select",
                          !.out = NoUpdate]
           src == r.service.src
<1>1. q.pc = (IF l.pc = "none" THEN "start" ELSE "select") /\ q.service = r.service
  BY DEF WorkerState
<1>2. src \in Sources
  BY WorkerAssumption DEF WorkerState
<1>3. Version(src, r.out.data) \in Int
  BY <1>2, VersionOfKnown DEF Follows, Newer, Unseen
<1> HIDE DEF q
<1> QED
  BY <1>1, <1>3 DEF Follows, Newer, Fresh, Limit

LEMMA StartedFollows ==
  ASSUME OneConfig, NEW r \in WorkerState, NEW l \in LoopState, NEW v \in 0 .. MaxChanges,
         NEW held, Follows(r, l, v, held), r.pc = "start"
  PROVE  Follows([r EXCEPT !.pc = "select"],
                 [pc |-> "watch", src |-> r.service.src, own |-> TRUE, pings |-> 0,
                  seen |-> IF Kind[r.service.src] = "docker" THEN v ELSE Unseen], v, held)
<1> DEFINE q == [r EXCEPT !.pc = "select"]
           src == r.service.src
<1>1. q.pc = "select" /\ q.service = r.service
  BY DEF WorkerState
<1>2. src \in Sources
  BY WorkerAssumption DEF WorkerState
<1>3. Version(src, held) \in Int /\ Unseen <= Version(src, held)
  BY <1>2, VersionOfKnown DEF Follows, Newer, Unseen
<1> HIDE DEF q
<1> QED
  BY <1>1, <1>3 DEF Follows, Newer, Fresh, Limit, Unseen

\* The loop sees a newer state and notifies, or is told that its notification is taken.
LEMMA LoopFollows ==
  ASSUME OneConfig, NEW r \in WorkerState, NEW l \in LoopState, NEW m \in LoopState,
         NEW v \in 0 .. MaxChanges, NEW held, Follows(r, l, v, held),
         m.src = l.src, m.own = l.own, l.pc # "none",
         \/ l.pc = "watch" /\ m.pc = "notify" /\ m.seen = v
         \/ Kind[l.src] = "docker" /\ l.seen <= m.seen /\ m.seen <= v
              /\ m.pc \in {"watch", "notify", "dead"}
  PROVE  Follows(r, m, v, held)
<1>1. r.service.src \in Sources /\ l.src = r.service.src
  BY WorkerAssumption DEF WorkerState, Follows
<1>2. l.seen \in Int /\ m.seen \in Int /\ l.seen <= v
  BY DEF LoopState, Follows, Unseen
<1>3. Kind[r.service.src] = "socket" => l.seen <= m.seen
  BY <1>1, <1>2
<1>4. \A data : Newer(r, l, v, held, data) => Newer(r, m, v, held, data)
  BY <1>1, <1>2, <1>3, VersionOfKnown DEF Newer, Limit, Unseen
<1>5. \A data : Fresh(r, m, data)
  BY <1>1 DEF Fresh
<1> QED
  BY <1>1, <1>2, <1>4, <1>5 DEF Follows

LEMMA NotifiedFollows ==
  ASSUME NEW r \in WorkerState, NEW l \in LoopState, NEW m \in LoopState,
         NEW v, NEW held, Follows(r, l, v, held), r.pc = "select",
         m.src = l.src, m.own = l.own, m.seen = l.seen,
         m.pc = l.pc \/ (l.pc = "notify" /\ m.pc = "watch")
  PROVE  Follows([r EXCEPT !.pc = "query"], m, v, held)
<1> DEFINE q == [r EXCEPT !.pc = "query"]
<1>1. q.pc = "query" /\ q.service = r.service
  BY DEF WorkerState
<1> HIDE DEF q
<1> QED
  BY <1>1 DEF Follows, Newer, Limit

LEMMA ChangedFollows ==
  ASSUME OneConfig, NEW r \in WorkerState, NEW l \in LoopState, NEW v \in 0 .. MaxChanges,
         NEW held, Follows(r, l, v, held)
  PROVE  Follows(r, l, v + 1, held)
<1>1. r.service.src \in Sources
  BY WorkerAssumption DEF WorkerState
<1>2. \A data : Newer(r, l, v, held, data) => Newer(r, l, v + 1, held, data)
  BY <1>1, VersionOfKnown DEF Newer, Limit, Unseen
<1>3. l.seen <= v + 1
  BY DEF Follows, LoopState, Unseen
<1> QED
  BY <1>2, <1>3 DEF Follows

\* What the cache holds under a name
HeldData(name) == IF name \in DOMAIN services THEN services[name].data ELSE NoBackends

FollowsAt(w) ==
  Follows(worker[w], loop[w], ver[worker[w].service.src], HeldData(worker[w].service.name))

\* Without reloads and stops worker w serves the w-th service of the configuration from
\* its creation on, nothing is cached before the flush, and what is cached comes from a
\* worker.
Serves ==
  /\ caPc \in {"select", "publish", "flush", "walk", "apply"}
  /\ reloads = 0 => cfg = NoConfig
  /\ cfg = NoConfig \/ caPc \in {"publish", "flush", "walk"} => DOMAIN worker = {}
  /\ caPc = "apply" => DOMAIN worker = 1 .. pos - 1
  /\ scWorkers = 0
  /\ \A w \in DOMAIN worker :
       w \in DOMAIN cfg.services /\ worker[w].service = cfg.services[w]
  /\ \A name \in DOMAIN services :
       \E w \in DOMAIN worker :
         services[name].service = worker[w].service /\ worker[w].service.name = name

FollowInv == SendInv /\ Serves /\ \A w \in DOMAIN worker : FollowsAt(w)

LEMMA FollowTypes ==
  ASSUME FollowInv, NEW w \in DOMAIN worker
  PROVE  /\ worker[w] \in WorkerState
         /\ loop[w] \in LoopState
         /\ worker[w].service \in Service
         /\ worker[w].service.src \in Sources
         /\ ver[worker[w].service.src] \in 0 .. MaxChanges
         /\ DOMAIN loop = DOMAIN worker
<1>1. worker[w] \in WorkerState /\ loop[w] \in LoopState /\ DOMAIN loop = DOMAIN worker
  BY DEF FollowInv, SendInv, TypeInv, TypeOK, WorkerTypeOK
<1>2. worker[w].service \in Service /\ worker[w].service.src \in Sources
  BY <1>1, WorkerAssumption DEF WorkerState
<1> QED
  BY <1>1, <1>2 DEF FollowInv, SendInv, TypeInv, TypeOK, WorkerTypeOK

\* Putting in place what is there changes nothing.
LEMMA ChangeNothing ==
  ASSUME FollowInv, NEW w \in DOMAIN worker
  PROVE  /\ loop = [loop EXCEPT ![w] = loop[w]]
         /\ worker = [worker EXCEPT ![w] = worker[w]]
<1>1. worker \in [DOMAIN worker -> WorkerState] /\ loop \in [DOMAIN worker -> LoopState]
  BY DEF FollowInv, SendInv, TypeInv, TypeOK, WorkerTypeOK
<1> QED
  BY <1>1

\* A step at one worker leaves the others as they were.
LEMMA OthersFollow ==
  ASSUME FollowInv, NEW w \in DOMAIN worker, NEW r, NEW l,
         worker' = [worker EXCEPT ![w] = r],
         loop' = [loop EXCEPT ![w] = l],
         r.service = worker[w].service,
         UNCHANGED <<ver, services>>,
         Follows(r, l, ver[worker[w].service.src], HeldData(worker[w].service.name))
  PROVE  \A v \in DOMAIN worker' : FollowsAt(v)'
<1>1. /\ DOMAIN worker' = DOMAIN worker
      /\ worker'[w] = r /\ loop'[w] = l
      /\ \A v \in DOMAIN worker : v # w => worker'[v] = worker[v] /\ loop'[v] = loop[v]
  BY FollowTypes
<1>2. \A v \in DOMAIN worker : FollowsAt(v)
  BY DEF FollowInv
<1> QED
  BY <1>1, <1>2 DEF FollowsAt, HeldData

LEMMA WorkFollows ==
  ASSUME OneConfig, FollowInv, NEW w \in DOMAIN worker, WorkerRuns(w),
         UNCHANGED services
  PROVE  \A v \in DOMAIN worker' : FollowsAt(v)'
<1> DEFINE r == worker[w]
           l == loop[w]
           src == worker[w].service.src
           held == HeldData(worker[w].service.name)
<1>1. /\ r \in WorkerState /\ l \in LoopState /\ src \in Sources
      /\ ver[src] \in 0 .. MaxChanges /\ DOMAIN loop = DOMAIN worker
      /\ Follows(r, l, ver[src], held)
  BY FollowTypes DEF FollowInv, FollowsAt
<1>2. loop = [loop EXCEPT ![w] = l]
  BY <1>1, ChangeNothing
<1>3. CASE QueryData(w)
  <2>1. PICK d \in GetDownwardData(w) :
          worker' = [worker EXCEPT ![w].pc = "build", ![w].data = d]
    BY <1>3 DEF QueryData
  <2>2. IF Kind[src] = "socket"
        THEN d = IF l.own /\ l.seen # Unseen THEN Content[src][l.seen] ELSE NoBackends
        ELSE d = Content[src][ver[src]]
    BY <2>1 DEF GetDownwardData, LastListeners, OneConfig
  <2> DEFINE q == [r EXCEPT !.pc = "build", !.data = d]
  <2>3. Follows(q, l, ver[src], held)
    BY <1>1, <1>3, <2>2, QueriedFollows DEF QueryData
  <2>4. worker' = [worker EXCEPT ![w] = q] /\ loop' = [loop EXCEPT ![w] = l] /\ ver' = ver
    BY <1>2, <1>3, <2>1 DEF QueryData
  <2>5. q.service = r.service
    BY <1>1 DEF WorkerState
  <2> HIDE DEF q
  <2> QED
    BY <2>3, <2>4, <2>5, OthersFollow
<1>4. CASE BuildUpdate(w)
  <2> DEFINE u == [service |-> r.service, data |-> r.data, cfg |-> r.cfg]
             q == [r EXCEPT !.pc = "send", !.data = NoBackends, !.out = u]
  <2>1. Follows(q, l, ver[src], held)
    BY <1>1, <1>4, BuiltFollows DEF BuildUpdate
  <2>2. worker' = [worker EXCEPT ![w] = q] /\ loop' = [loop EXCEPT ![w] = l] /\ ver' = ver
    BY <1>2, <1>4 DEF BuildUpdate
  <2>3. q.service = r.service
    BY <1>1 DEF WorkerState
  <2> HIDE DEF q
  <2> QED
    BY <2>1, <2>2, <2>3, OthersFollow
<1>5. CASE StartLoop(w)
  <2> DEFINE q == [r EXCEPT !.pc = "select"]
             m == [pc |-> "watch", src |-> src, own |-> TRUE, pings |-> 0,
                   seen |-> IF Kind[src] = "docker" THEN ver[src] ELSE Unseen]
  <2>1. Follows(q, m, ver[src], held)
    BY <1>1, <1>5, StartedFollows DEF StartLoop
  <2>2. worker' = [worker EXCEPT ![w] = q] /\ loop' = [loop EXCEPT ![w] = m] /\ ver' = ver
    BY <1>5 DEF StartLoop
  <2>3. q.service = r.service
    BY <1>1 DEF WorkerState
  <2> HIDE DEF q, m
  <2> QED
    BY <2>1, <2>2, <2>3, OthersFollow
<1>6. CASE Notified(w)
  <2> DEFINE q == [r EXCEPT !.pc = "query"]
  <2>1. PICK m \in LoopState :
          /\ loop' = [loop EXCEPT ![w] = m]
          /\ m.src = l.src /\ m.own = l.own /\ m.seen = l.seen
          /\ m.pc = l.pc \/ (l.pc = "notify" /\ m.pc = "watch")
    <3>1. CASE l.pc = "notify" /\ loop' = [loop EXCEPT ![w].pc = "watch"]
      <4> DEFINE m == [l EXCEPT !.pc = "watch"]
      <4>1. m \in LoopState /\ loop' = [loop EXCEPT ![w] = m]
        BY <1>1, <3>1 DEF LoopState
      <4>2. m.src = l.src /\ m.own = l.own /\ m.seen = l.seen /\ m.pc = "watch"
        BY <1>1 DEF LoopState
      <4> HIDE DEF m
      <4> QED
        BY <3>1, <4>1, <4>2
    <3>2. CASE l.pings > 0 /\ loop' = [loop EXCEPT ![w].pings = @ - 1]
      <4> DEFINE m == [l EXCEPT !.pings = l.pings - 1]
      <4>1. m \in LoopState /\ loop' = [loop EXCEPT ![w] = m]
        BY <1>1, <3>2 DEF LoopState
      <4>2. m.src = l.src /\ m.own = l.own /\ m.seen = l.seen /\ m.pc = l.pc
        BY <1>1 DEF LoopState
      <4> HIDE DEF m
      <4> QED
        BY <4>1, <4>2
    <3> QED
      BY <1>6, <3>1, <3>2 DEF Notified
  <2>2. Follows(q, m, ver[src], held)
    BY <1>1, <1>6, <2>1, NotifiedFollows DEF Notified
  <2>3. worker' = [worker EXCEPT ![w] = q] /\ ver' = ver
    BY <1>6 DEF Notified
  <2>4. q.service = r.service
    BY <1>1 DEF WorkerState
  <2> HIDE DEF q
  <2> QED
    BY <2>1, <2>2, <2>3, <2>4, OthersFollow
<1>7. ~ TakeStop(w) /\ ~ Quit(w)
  BY <1>1 DEF TakeStop, Quit, FollowInv, Serves, Follows
<1> QED
  BY <1>3, <1>4, <1>5, <1>6, <1>7 DEF WorkerRuns

LEMMA WatchFollows ==
  ASSUME OneConfig, FollowInv, NEW w \in DOMAIN worker, LoopRuns(w) \/ StreamBroken(w),
         UNCHANGED services
  PROVE  \A v \in DOMAIN worker' : FollowsAt(v)'
<1> DEFINE r == worker[w]
           l == loop[w]
           src == worker[w].service.src
           held == HeldData(worker[w].service.name)
<1>1. /\ r \in WorkerState /\ l \in LoopState /\ src \in Sources
      /\ ver[src] \in 0 .. MaxChanges /\ DOMAIN loop = DOMAIN worker
      /\ Follows(r, l, ver[src], held) /\ l.src = src
  BY FollowTypes DEF FollowInv, FollowsAt, Follows
<1>2. worker' = [worker EXCEPT ![w] = r] /\ ver' = ver
  BY ChangeNothing DEF LoopRuns, FileChanged, ListenersChanged, DockerEvent, StreamBroken
<1>3. PICK m \in LoopState :
        /\ loop' = [loop EXCEPT ![w] = m]
        /\ m.src = l.src /\ m.own = l.own /\ l.pc = "watch"
        /\ \/ m.pc = "notify" /\ m.seen = ver[src]
           \/ Kind[src] = "docker" /\ l.seen <= m.seen /\ m.seen <= ver[src]
                /\ m.pc \in {"watch", "notify", "dead"}
  <2>1. CASE FileChanged(w) \/ ListenersChanged(w)
    <3> DEFINE m == [l EXCEPT !.pc = "notify", !.seen = ver[src]]
    <3>1. m \in LoopState /\ loop' = [loop EXCEPT ![w] = m] /\ l.pc = "watch"
      BY <1>1, <2>1 DEF LoopState, FileChanged, ListenersChanged
    <3>2. m.src = l.src /\ m.own = l.own /\ m.pc = "notify" /\ m.seen = ver[src]
      BY <1>1 DEF LoopState
    <3> HIDE DEF m
    <3> QED
      BY <3>1, <3>2
  <2>2. CASE DockerEvent(w)
    <3> DEFINE seen == l.seen + 1
               pings == l.pings + 1
               m == [l EXCEPT !.seen = seen, !.pings = pings]
    <3>1. l.pc = "watch" /\ Kind[src] = "docker" /\ l.seen < ver[src]
      BY <1>1, <2>2 DEF DockerEvent
    <3>2. /\ seen \in {Unseen} \cup (0 .. MaxChanges) /\ pings \in Nat
          /\ l.seen <= seen /\ seen <= ver[src]
      BY <1>1, <3>1, WorkerAssumption DEF LoopState, Unseen
    <3>3. loop' = [loop EXCEPT ![w] = m]
      BY <1>1, <2>2 DEF DockerEvent
    <3> HIDE DEF seen, pings
    <3>4. m \in LoopState /\ m.src = l.src /\ m.own = l.own /\ m.pc = l.pc /\ m.seen = seen
      BY <1>1, <3>2 DEF LoopState
    <3> HIDE DEF m
    <3> QED
      BY <3>1, <3>2, <3>3, <3>4
  <2>3. CASE StreamBroken(w)
    <3> DEFINE m == [l EXCEPT !.pc = "dead"]
    <3>1. m \in LoopState /\ loop' = [loop EXCEPT ![w] = m] /\ l.pc = "watch"
          /\ Kind[src] = "docker"
      BY <1>1, <2>3 DEF LoopState, StreamBroken
    <3>2. m.src = l.src /\ m.own = l.own /\ m.pc = "dead" /\ m.seen = l.seen
      BY <1>1 DEF LoopState
    <3>3. l.seen <= l.seen /\ l.seen <= ver[src]
      BY <1>1 DEF Follows, LoopState, Unseen
    <3> HIDE DEF m
    <3> QED
      BY <3>1, <3>2, <3>3
  <2> QED
    BY <2>1, <2>2, <2>3 DEF LoopRuns
<1>4. Follows(r, m, ver[src], held)
  BY <1>1, <1>3, LoopFollows
<1> QED
  BY <1>2, <1>3, <1>4, OthersFollow

\* Workers of different services have services of different names.
LEMMA NamesDiffer ==
  ASSUME OneConfig, FollowInv, NEW v \in DOMAIN worker, NEW w \in DOMAIN worker,
         worker[v].service.name = worker[w].service.name
  PROVE  v = w
<1>1. worker[v].service = worker[w].service
  BY FollowTypes DEF OneConfig
<1>2. v \in DOMAIN cfg.services /\ w \in DOMAIN cfg.services
      /\ cfg.services[v] = cfg.services[w]
  BY <1>1 DEF FollowInv, Serves
<1>3. cfg \in Config
  BY DEF FollowInv, Serves, SendInv, TypeInv, TypeOK
<1> QED
  BY <1>2, <1>3 DEF OneConfig

\* The update that a worker sends, and where it arrives
LEMMA ForwardFollows ==
  ASSUME OneConfig, FollowInv, NEW w \in DOMAIN worker, ForwardData(w)
  PROVE  /\ \A v \in DOMAIN worker' : FollowsAt(v)'
         /\ DOMAIN services' = DOMAIN services \cup {worker[w].service.name}
         /\ services'[worker[w].service.name].service = worker[w].service
         /\ services'[worker[w].service.name].data = worker[w].out.data
         /\ \A name \in DOMAIN services :
              name # worker[w].service.name => services'[name] = services[name]
         /\ DOMAIN worker' = DOMAIN worker
         /\ \A v \in DOMAIN worker : worker'[v].service = worker[v].service
<1> DEFINE r == worker[w]
           l == loop[w]
           src == worker[w].service.src
           name == worker[w].service.name
           u == worker[w].out
           q == [r EXCEPT !.pc = IF l.pc = "none" THEN "start" ELSE "select",
                          !.out = NoUpdate]
<1>1. /\ r \in WorkerState /\ r.pc = "send"
      /\ Follows(r, l, ver[src], HeldData(name))
  BY FollowTypes DEF FollowInv, FollowsAt, ForwardData, WorkerSent
<1>2. u.service = r.service
  BY <1>1 DEF Follows
<1>3. services' = IA!Updated(services, u)
  BY DEF ForwardData, IA!Integrate
<1>4. /\ DOMAIN services' = DOMAIN services \cup {name}
      /\ services'[name] = u
      /\ \A other \in DOMAIN services : other # name => services'[other] = services[other]
  BY <1>2, <1>3 DEF IA!Updated
<1>5. Follows(q, l, ver[src], u.data)
  BY <1>1, SentFollows
<1>6. /\ worker' = [worker EXCEPT ![w] = q]
      /\ UNCHANGED <<ver, loop>>
  BY DEF ForwardData, WorkerSent
<1>7. q.service = r.service
  BY <1>1 DEF WorkerState
<1> HIDE DEF q
<1>8. /\ DOMAIN worker' = DOMAIN worker /\ worker'[w] = q
      /\ \A v \in DOMAIN worker : v # w => worker'[v] = worker[v]
  BY <1>6
<1>9. FollowsAt(w)'
  BY <1>4, <1>5, <1>6, <1>7, <1>8 DEF FollowsAt, HeldData
<1>10. ASSUME NEW v \in DOMAIN worker, v # w
       PROVE  FollowsAt(v)'
  <2>1. worker[v].service.name # name
    BY <1>10, NamesDiffer
  <2>2. FollowsAt(v)
    BY DEF FollowInv
  <2> QED
    BY <1>4, <1>6, <1>8, <1>10, <2>1, <2>2 DEF FollowsAt, HeldData
<1> QED
  BY <1>2, <1>4, <1>7, <1>8, <1>9, <1>10

LEMMA ChangeFollows ==
  ASSUME OneConfig, FollowInv, NEW src \in Sources, SourceChanges(src), UNCHANGED services
  PROVE  \A v \in DOMAIN worker' : FollowsAt(v)'
<1> SUFFICES ASSUME NEW v \in DOMAIN worker PROVE FollowsAt(v)'
  BY DEF SourceChanges
<1> DEFINE s == worker[v].service.src
<1>1. UNCHANGED <<worker, loop, services>> /\ ver' = [ver EXCEPT ![src] = @ + 1]
  BY DEF SourceChanges
<1>2. ver \in [Sources -> 0 .. MaxChanges] /\ FollowsAt(v)
  BY DEF FollowInv, SendInv, TypeInv, TypeOK, WorkerTypeOK
<1>3. /\ worker[v] \in WorkerState /\ loop[v] \in LoopState
      /\ ver[s] \in 0 .. MaxChanges /\ s \in Sources
  BY FollowTypes
<1>4. CASE s = src
  <2>1. ver'[s] = ver[s] + 1
    BY <1>1, <1>2, <1>4
  <2>2. Follows(worker[v], loop[v], ver[s] + 1, HeldData(worker[v].service.name))
    BY <1>2, <1>3, ChangedFollows DEF FollowsAt
  <2> QED
    BY <1>1, <2>1, <2>2 DEF FollowsAt, HeldData
<1>5. CASE s # src
  <2>1. ver'[s] = ver[s]
    BY <1>1, <1>2, <1>3, <1>5
  <2> QED
    BY <1>1, <1>2, <2>1 DEF FollowsAt, HeldData
<1> QED
  BY <1>4, <1>5

LEMMA FollowInit == MeshInit => FollowInv
<1> SUFFICES ASSUME MeshInit PROVE FollowInv
  OBVIOUS
<1>1. worker = <<>> /\ services = <<>> /\ caPc = "select" /\ cfg = NoConfig /\ scWorkers = 0
  BY DEF MeshInit, Init, WorkerInit, IA!IPVSInit
<1>2. DOMAIN worker = {} /\ DOMAIN services = {}
  BY <1>1
<1> QED
  BY <1>1, <1>2, SendInit DEF FollowInv, Serves

\* A step between the workers and the cache keeps who serves what.
LEMMA ServesKept ==
  ASSUME Serves,
         UNCHANGED <<caPc, reloads, cfg, pos, scWorkers>>,
         DOMAIN worker' = DOMAIN worker,
         \A w \in DOMAIN worker : worker'[w].service = worker[w].service,
         \A name \in DOMAIN services' :
           \E w \in DOMAIN worker :
             services'[name].service = worker[w].service /\ worker[w].service.name = name
  PROVE  Serves'
BY DEF Serves

\* A step that touches no source, worker or loop leaves those at work as they were.
LEMMA AllKept ==
  ASSUME FollowInv, UNCHANGED <<ver, worker, loop, services>>
  PROVE  \A v \in DOMAIN worker' : FollowsAt(v)'
BY DEF FollowInv, FollowsAt, HeldData

\* The next service of the configuration has no worker yet.
LEMMA CreateFollows ==
  ASSUME OneConfig, FollowInv, CreateWorker, UNCHANGED services
  PROVE  Serves' /\ \A v \in DOMAIN worker' : FollowsAt(v)'
<1> DEFINE service == cfg.services[pos]
<1>1. /\ DOMAIN worker = 1 .. pos - 1 /\ cfg \in Config /\ pos \in Nat \ {0}
      /\ pos <= Len(cfg.services) /\ worker \in Seq(WorkerState)
      /\ Len(worker) \in Nat /\ loop \in Seq(LoopState) /\ Len(loop) = Len(worker)
  BY DEF FollowInv, Serves, SendInv, TypeInv, TypeOK, WorkerTypeOK, CreateWorker
<1>2. Len(worker) + 1 = pos
  <2>1. DOMAIN worker = 1 .. Len(worker)
    BY <1>1
  <2> QED
    BY <1>1, <2>1
<1>3. pos \in DOMAIN cfg.services /\ service \in Service
  BY <1>1, ApplierAssumption
<1>4. /\ worker' = Append(worker, NewWorker(cfg, service))
      /\ loop' = Append(loop, NewLoop(service))
      /\ pos' = pos + 1 /\ caPc' = "apply" /\ caPc = "apply"
      /\ UNCHANGED <<ver, scWorkers, cfg, reloads>>
  BY DEF CreateWorker
<1>5. /\ DOMAIN worker' = 1 .. pos
      /\ worker'[pos] = NewWorker(cfg, service) /\ loop'[pos] = NewLoop(service)
      /\ \A v \in DOMAIN worker : worker'[v] = worker[v] /\ loop'[v] = loop[v]
  BY <1>1, <1>2, <1>4
<1>6. worker'[pos].service = service
  BY <1>5 DEF NewWorker
<1>7. Serves'
  <2>1. pos' - 1 = pos
    BY <1>1, <1>4
  <2>2. DOMAIN worker' = DOMAIN worker \cup {pos}
    BY <1>1, <1>5
  <2>3. /\ reloads = 0 => cfg = NoConfig
        /\ cfg # NoConfig
        /\ \A w \in DOMAIN worker :
             w \in DOMAIN cfg.services /\ worker[w].service = cfg.services[w]
        /\ \A name \in DOMAIN services :
             \E w \in DOMAIN worker :
               services[name].service = worker[w].service /\ worker[w].service.name = name
        /\ scWorkers = 0
    BY <1>1, ApplierAssumption DEF FollowInv, Serves
  <2>4. \A w \in DOMAIN worker' :
          w \in DOMAIN cfg.services /\ worker'[w].service = cfg.services[w]
    BY <1>3, <1>5, <1>6, <2>2, <2>3
  <2>5. ASSUME NEW name \in DOMAIN services
        PROVE  \E w \in DOMAIN worker' :
                 services[name].service = worker'[w].service /\ worker'[w].service.name = name
    <3>1. PICK w \in DOMAIN worker :
            services[name].service = worker[w].service /\ worker[w].service.name = name
      BY <2>3
    <3> QED
      BY <1>5, <2>2, <3>1
  <2> QED
    BY <1>4, <1>5, <2>1, <2>3, <2>4, <2>5 DEF Serves
<1>8. service.name \notin DOMAIN services
  <2> SUFFICES ASSUME service.name \in DOMAIN services PROVE FALSE
    OBVIOUS
  <2>1. PICK w \in DOMAIN worker : worker[w].service.name = service.name
    BY DEF FollowInv, Serves
  <2>2. worker[w].service = cfg.services[w] /\ w \in DOMAIN cfg.services
    BY DEF FollowInv, Serves
  <2>3. cfg.services[w] = cfg.services[pos]
    BY <1>3, <2>1, <2>2, FollowTypes DEF OneConfig
  <2>4. w = pos
    BY <1>1, <1>3, <2>2, <2>3 DEF OneConfig
  <2> QED
    BY <1>1, <2>4
<1>9. ver[service.src] \in 0 .. MaxChanges
  BY <1>3, WorkerAssumption DEF FollowInv, SendInv, TypeInv, TypeOK, WorkerTypeOK
<1>10. Follows(NewWorker(cfg, service), NewLoop(service), ver[service.src], NoBackends)
  BY <1>3, <1>9, CreatedFollows
<1>0. PICK new : new = pos
  OBVIOUS
<1>11. FollowsAt(new)'
  BY <1>0, <1>4, <1>5, <1>6, <1>8, <1>10 DEF FollowsAt, HeldData
<1>12. ASSUME NEW v \in DOMAIN worker PROVE FollowsAt(v)'
  BY <1>4, <1>5, <1>12 DEF FollowInv, FollowsAt, HeldData
<1>13. DOMAIN worker' = DOMAIN worker \cup {new}
  BY <1>0, <1>1, <1>5
<1> QED
  BY <1>7, <1>11, <1>12, <1>13

\* Nothing else can happen without reloads: no service is updated or taken down.
LEMMA NoOtherStep ==
  ASSUME OneConfig, FollowInv
  PROVE  /\ ~ ForwardUpdate /\ ~ QueryForUpdate /\ ~ TakeDown /\ ~ UpdateWorker
         /\ Reconfigure => cfg = NoConfig
<1>1. ~ ForwardUpdate /\ ~ QueryForUpdate
  BY DEF FollowInv, Serves, ForwardUpdate, UpdateSent, QueryForUpdate
<1>2. ~ TakeDown
  <2> SUFFICES ASSUME caPc = "walk" PROVE NotInModel = {}
    BY DEF TakeDown
  <2>1. DOMAIN worker = {} /\ serviceWorkerList \subseteq DOMAIN worker
    BY DEF FollowInv, Serves, SendInv, TypeInv, TypeOK
  <2> QED
    BY <2>1 DEF NotInModel
<1>3. ~ UpdateWorker
  <2> SUFFICES ASSUME UpdateWorker PROVE FALSE
    OBVIOUS
  <2>1. /\ DOMAIN worker = 1 .. pos - 1 /\ cfg \in Config /\ pos \in Nat \ {0}
        /\ pos <= Len(cfg.services)
    BY DEF FollowInv, Serves, SendInv, TypeInv, TypeOK, UpdateWorker
  <2>2. pos \in DOMAIN cfg.services /\ cfg.services[pos] \in Service
    BY <2>1, ApplierAssumption
  <2>3. PICK w \in DOMAIN worker : worker[w].service.name = cfg.services[pos].name
    BY DEF UpdateWorker, WorkersNamed, FollowInv, SendInv, TypeInv, TypeOK
  <2>4. worker[w].service = cfg.services[w] /\ w \in DOMAIN cfg.services
    BY DEF FollowInv, Serves
  <2>5. cfg.services[w] = cfg.services[pos]
    BY <2>2, <2>3, <2>4, FollowTypes DEF OneConfig
  <2>6. w = pos
    BY <2>1, <2>2, <2>4, <2>5 DEF OneConfig
  <2> QED
    BY <2>1, <2>6
<1>4. Reconfigure => cfg = NoConfig
  BY DEF Reconfigure, ReceiveConfig, OneConfig, FollowInv, Serves, SendInv, TypeInv, TypeOK
<1> QED
  BY <1>1, <1>2, <1>3, <1>4

LEMMA FollowStep ==
  ASSUME OneConfig, FollowInv, [MeshNext]_meshVars
  PROVE  FollowInv'
<1>1. SendInv'
  BY SendStep DEF FollowInv
<1>2. Serves' /\ \A v \in DOMAIN worker' : FollowsAt(v)'
  <2>0. Serves /\ TypeOK /\ cfg \in Config \cup {NoConfig} /\ NoConfig \notin Config
        /\ ProgressInv
    BY ApplierAssumption DEF FollowInv, SendInv, TypeInv, TypeOK
  <2>1. CASE FlushCache
    <3>1. services' = <<>> /\ DOMAIN services' = {} /\ UNCHANGED <<ver, worker, loop>>
          /\ DOMAIN worker = {}
      BY <2>0, <2>1 DEF FlushCache, FlushSent, IA!Flush, workerVars, Serves
    <3>2. Serves'
      BY <2>0, <2>1, <3>1 DEF FlushCache, FlushSent, workerVars, Serves
    <3> QED
      BY <3>1, <3>2
  <2>2. CASE PublishConfig \/ Reconfigure
    <3>1. UNCHANGED <<ver, worker, loop, services, scWorkers>>
      BY <2>2 DEF PublishConfig, ConfigPublished, Reconfigure, ReceiveConfig, workerVars,
                  ipvsVars
    <3>2. DOMAIN worker = {} /\ reloads' # 0 /\ caPc' \in {"publish", "flush"}
      <4>1. CASE PublishConfig
        BY <2>0, <4>1 DEF PublishConfig, ConfigPublished, Serves, TypeOK
      <4>2. CASE Reconfigure
        BY <2>0, <4>2, NoOtherStep DEF Reconfigure, ReceiveConfig, Serves, TypeOK
      <4> QED
        BY <2>2, <4>1, <4>2
    <3>3. Serves'
      BY <2>0, <3>1, <3>2 DEF Serves
    <3> QED
      BY <3>1, <3>3, AllKept
  <2>3. CASE PublishModel \/ ApplyModel \/ UNCHANGED meshVars
    <3>1. UNCHANGED <<ver, worker, loop, scWorkers, services, caPc, reloads, cfg, pos>>
      BY <2>3 DEF PublishModel, ApplyModel, IA!ModelPublished, IA!IPVSApplying, IA!WriteFile,
         IA!RunIpvsctl, IA!UnknownExecType, meshVars, vars, workerVars, applierVars, ipvsVars
    <3> QED
      BY <2>0, <3>1, AllKept, ServesKept DEF Serves
  <2>4. CASE ApplyConfig
    <3>1. CASE NothingToTakeDown
      <4>1. /\ UNCHANGED <<ver, worker, loop, scWorkers, services, reloads, cfg, pos>>
            /\ caPc = "walk" /\ caPc' = "apply" /\ pos' = 1 /\ DOMAIN worker = {}
        BY <2>0, <2>4, <3>1 DEF ApplyConfig, NothingToTakeDown, workerVars, ipvsVars, Serves,
                                ProgressInv
      <4>2. DOMAIN worker' = 1 .. pos' - 1
        BY <4>1
      <4>3. Serves'
        BY <2>0, <4>1, <4>2 DEF Serves
      <4> QED
        BY <4>1, <4>3, AllKept
    <3>2. CASE CreateWorker
      BY <2>4, <3>2, CreateFollows DEF ApplyConfig, ipvsVars
    <3>3. CASE ApplyDone
      <4>1. /\ UNCHANGED <<ver, worker, loop, scWorkers, services, reloads, cfg>>
            /\ caPc = "apply" /\ caPc' = "select" /\ cfg # NoConfig
        BY <2>0, <2>4, <3>3 DEF ApplyConfig, ApplyDone, workerVars, ipvsVars, TypeOK
      <4>2. Serves'
        BY <2>0, <4>1 DEF Serves
      <4> QED
        BY <4>1, <4>2, AllKept
    <3> QED
      BY <2>4, <3>1, <3>2, <3>3, NoOtherStep DEF ApplyConfig
  <2>5. ASSUME NEW w \in DOMAIN worker, ForwardData(w)
        PROVE  Serves' /\ \A v \in DOMAIN worker' : FollowsAt(v)'
    <3>1. UNCHANGED <<caPc, reloads, cfg, pos, scWorkers>>
      BY <2>5 DEF ForwardData, WorkerSent, applierVars
    <3>2. ASSUME NEW name \in DOMAIN services'
          PROVE  \E v \in DOMAIN worker :
                   services'[name].service = worker[v].service /\ worker[v].service.name = name
      <4>1. CASE name = worker[w].service.name
        BY <2>5, <4>1, ForwardFollows
      <4>2. CASE name # worker[w].service.name
        <5>1. name \in DOMAIN services /\ services'[name] = services[name]
          BY <2>5, <3>2, <4>2, ForwardFollows
        <5> QED
          BY <2>0, <5>1 DEF Serves
      <4> QED
        BY <4>1, <4>2
    <3> QED
      BY <2>0, <2>5, <3>1, <3>2, ForwardFollows, ServesKept
  <2>6. ASSUME NEW w \in DOMAIN worker, Work(w) \/ Watch(w) \/ Break(w)
        PROVE  Serves' /\ \A v \in DOMAIN worker' : FollowsAt(v)'
    <3>1. UNCHANGED <<caPc, reloads, cfg, pos, services>>
      BY <2>6 DEF Work, Watch, Break, applierVars, ipvsVars
    <3>2. \A v \in DOMAIN worker' : FollowsAt(v)'
      BY <2>6, <3>1, WorkFollows, WatchFollows DEF Work, Watch, Break
    <3>3. WorkerEffect(w)
      BY <2>0, <2>6, WorkerStepEffect DEF Work, Watch, Break, WorkerStep, TypeOK
    <3>4. scWorkers' = scWorkers
      BY <2>0, <3>3 DEF WorkerEffect, StopTaken, Serves
    <3>5. DOMAIN worker' = DOMAIN worker
          /\ \A v \in DOMAIN worker : worker'[v].service = worker[v].service
      BY <3>3 DEF WorkerEffect
    <3>6. Serves'
      BY <2>0, <3>1, <3>4, <3>5, ServesKept DEF Serves
    <3> QED
      BY <3>2, <3>6
  <2>7. CASE Change
    <3>1. UNCHANGED <<worker, scWorkers, caPc, reloads, cfg, pos, services>>
      BY <2>7 DEF Change, SourceChanges, applierVars, ipvsVars
    <3> QED
      BY <2>0, <2>7, <3>1, ChangeFollows, ServesKept DEF Change, Serves
  <2> QED
    BY <2>1, <2>2, <2>3, <2>4, <2>5, <2>6, <2>7, NoOtherStep DEF MeshNext
<1> QED
  BY <1>1, <1>2 DEF FollowInv

LEMMA FollowInvariant ==
  ASSUME OneConfig
  PROVE  MeshSpec => []FollowInv
BY FollowInit, FollowStep, PTL DEF MeshSpec

\* A name has one service, and so one source.
LEMMA SourceOfName ==
  ASSUME OneConfig
  PROVE  /\ \A s \in Service : s.name \in ServiceNames /\ SourceOf(s.name) = s.src
         /\ \A name \in ServiceNames : SourceOf(name) \in Sources
<1>1. ASSUME NEW s \in Service
      PROVE  s.name \in ServiceNames /\ SourceOf(s.name) = s.src
  <2>1. (CHOOSE t \in Service : t.name = s.name) = s
    BY <1>1 DEF OneConfig
  <2> QED
    BY <1>1, <2>1 DEF ServiceNames, SourceOf
<1>2. ASSUME NEW name \in ServiceNames
      PROVE  SourceOf(name) \in Sources
  <2>1. PICK s \in Service : s.name = name
    BY DEF ServiceNames
  <2> QED
    BY <1>1, <2>1, WorkerAssumption
<1> QED
  BY <1>1, <1>2

\* What the abstract specification sees of the cache is what the invariant speaks of.
LEMMA HeldIs ==
  ASSUME OneConfig, FollowInv, NEW w \in DOMAIN worker
  PROVE  LET s == worker[w].service IN
         /\ Held(s.name) = Version(s.src, HeldData(s.name))
         /\ Held(s.name) \in {Unseen} \cup (0 .. MaxChanges)
<1> DEFINE s == worker[w].service
<1>1. Held(s.name) = Version(s.src, HeldData(s.name))
  <2>1. CASE s.name \notin DOMAIN services
    BY <2>1 DEF Held, HeldData, Version
  <2>2. CASE s.name \in DOMAIN services
    <3>1. PICK v \in DOMAIN worker :
            services[s.name].service = worker[v].service /\ worker[v].service.name = s.name
      BY <2>2 DEF FollowInv, Serves
    <3>2. v = w
      BY <3>1, NamesDiffer
    <3> QED
      BY <2>2, <3>1, <3>2 DEF Held, HeldData
  <2> QED
    BY <2>1, <2>2
<1>2. Known(s.src, HeldData(s.name)) /\ s.src \in Sources
  BY FollowTypes DEF FollowInv, FollowsAt, Follows, Newer
<1> QED
  BY <1>1, <1>2, VersionOfKnown

\* A worker's list moves the cache forward, to no later than the present.
LEMMA ForwardAdvances ==
  ASSUME OneConfig, FollowInv, NEW w \in DOMAIN worker, ForwardData(w),
         NEW name, name = worker[w].service.name,
         NEW v, v = Version(worker[w].service.src, worker[w].out.data)
  PROVE  /\ Held(name)' = v
         /\ Held(name) <= v /\ v <= ver[worker[w].service.src]
         /\ v \in {Unseen} \cup (0 .. MaxChanges)
         /\ \A other : other # name => Held(other)' = Held(other)
<1> DEFINE s == worker[w].service
<1>1. name = s.name
  OBVIOUS
<1>2. Held(name)' = v
  <2>1. /\ name \in DOMAIN services'
        /\ services'[name].service = s
        /\ services'[name].data = worker[w].out.data
    BY <1>1, ForwardFollows
  <2>2. Held(name)' = Version(services'[name].service.src, services'[name].data)
    BY <2>1 DEF Held
  <2> QED
    BY <2>1, <2>2
<1>3. ASSUME NEW other, other # name
      PROVE  Held(other)' = Held(other)
  <2>1. /\ other \in DOMAIN services' <=> other \in DOMAIN services
        /\ other \in DOMAIN services => services'[other] = services[other]
    BY <1>1, <1>3, ForwardFollows
  <2> QED
    BY <2>1 DEF Held
<1>4. Newer(worker[w], loop[w], ver[s.src], HeldData(s.name), worker[w].out.data)
      /\ loop[w].seen <= ver[s.src]
  BY DEF FollowInv, FollowsAt, Follows, ForwardData, WorkerSent
<1>5. Known(s.src, worker[w].out.data)
      /\ Version(s.src, HeldData(s.name)) <= v
      /\ v <= Limit(worker[w], loop[w], ver[s.src])
      /\ s.src \in Sources /\ ver[s.src] \in 0 .. MaxChanges /\ loop[w] \in LoopState
  BY <1>4, FollowTypes DEF Newer
<1>6. v \in {Unseen} \cup (0 .. MaxChanges)
  BY <1>5, VersionOfKnown
<1>7. Limit(worker[w], loop[w], ver[s.src]) <= ver[s.src]
      /\ Limit(worker[w], loop[w], ver[s.src]) \in Int
  BY <1>4, <1>5 DEF Limit, LoopState, Unseen
<1>8. v <= ver[s.src]
  BY <1>5, <1>6, <1>7 DEF Unseen
<1>9. Held(name) <= v
  BY <1>5, HeldIs
<1> QED
  BY <1>2, <1>3, <1>6, <1>8, <1>9

\* The state of the abstract specification
Present == [name \in ServiceNames |-> ver[SourceOf(name)]]
HeldOfAll == [name \in ServiceNames |-> Held(name)]

LEMMA FollowingInit ==
  ASSUME OneConfig, MeshInit
  PROVE  Following!Init
<1>1. cfg = NoConfig /\ ver = [src \in Sources |-> 0] /\ services = <<>>
      /\ DOMAIN services = {}
  BY DEF MeshInit, Init, WorkerInit, IA!IPVSInit
<1>2. Names = {}
  BY <1>1 DEF Names
<1>3. [name \in ServiceNames |-> ver[SourceOf(name)]] = [name \in ServiceNames |-> 0]
  BY <1>1, SourceOfName
<1>4. [name \in ServiceNames |-> Held(name)] = [name \in ServiceNames |-> Unseen]
  BY <1>1 DEF Held
<1> QED
  BY <1>2, <1>3, <1>4 DEF Following!Init

\* A step that leaves these alone is one in which Follower does nothing.
LEMMA NothingFollowed ==
  ASSUME UNCHANGED <<cfg, ver>>, \A name : Held(name)' = Held(name)
  PROVE  UNCHANGED <<Names, Present, HeldOfAll>>
BY DEF Names, Present, HeldOfAll

LEMMA HeldKept ==
  ASSUME UNCHANGED services
  PROVE  \A name : Held(name)' = Held(name)
BY DEF Held

LEMMA FollowingConfigures ==
  ASSUME OneConfig, FollowInv, Reconfigure
  PROVE  Following!Configure
<1>1. PICK c \in Config : cfg' = c /\ UNCHANGED <<ver, services>>
  BY DEF Reconfigure, ReceiveConfig, workerVars, ipvsVars
<1>2. cfg = NoConfig
  BY NoOtherStep
<1>3. Names = {}
  BY <1>2 DEF Names
<1>4. Names' \in SUBSET ServiceNames
  <2>1. Names' = {c.services[i].name : i \in DOMAIN c.services}
    BY <1>1, ApplierAssumption DEF Names
  <2>2. \A i \in DOMAIN c.services : c.services[i] \in Service
    BY ApplierAssumption
  <2> QED
    BY <2>1, <2>2 DEF ServiceNames
<1>5. UNCHANGED <<Present, HeldOfAll>>
  BY <1>1, HeldKept DEF Present, HeldOfAll
<1> QED
  BY <1>3, <1>4, <1>5 DEF Following!Configure, Present, HeldOfAll

LEMMA FollowingChanges ==
  ASSUME OneConfig, FollowInv, Change
  PROVE  Following!Change
<1>1. PICK src \in Sources : SourceChanges(src) /\ UNCHANGED <<cfg, services>>
  BY DEF Change, applierVars, ipvsVars
<1> DEFINE changed == {name \in ServiceNames : SourceOf(name) = src}
<1>2. ver' = [ver EXCEPT ![src] = @ + 1] /\ ver \in [Sources -> 0 .. MaxChanges]
  BY <1>1 DEF SourceChanges, FollowInv, SendInv, TypeInv, TypeOK, WorkerTypeOK
<1>3. ASSUME NEW name \in ServiceNames
      PROVE  ver'[SourceOf(name)]
               = Present[name] + (IF name \in changed THEN 1 ELSE 0)
  <2>1. SourceOf(name) \in Sources
    BY SourceOfName
  <2>2. Present[name] = ver[SourceOf(name)] /\ Present[name] \in Int
    BY <1>2, <2>1 DEF Present
  <2> QED
    BY <1>2, <2>1, <2>2
<1>4. Present' = [name \in ServiceNames |-> Present[name] + IF name \in changed THEN 1 ELSE 0]
  BY <1>3 DEF Present
<1>5. UNCHANGED <<Names, HeldOfAll>>
  BY <1>1, HeldKept DEF Names, HeldOfAll
<1>6. changed \in SUBSET ServiceNames
  OBVIOUS
<1> HIDE DEF changed
<1> QED
  BY <1>4, <1>5, <1>6 DEF Following!Change, Present, HeldOfAll

\* An update that reaches the cache is a step forward, or says what the cache holds.
LEMMA FollowingFollows ==
  ASSUME OneConfig, FollowInv, NEW w \in DOMAIN worker, ForwardData(w)
  PROVE  (\E name \in ServiceNames : Following!Follow(name))
           \/ UNCHANGED <<Names, Present, HeldOfAll>>
<1>1. PICK name, v : /\ name = worker[w].service.name
                     /\ v = Version(worker[w].service.src, worker[w].out.data)
  OBVIOUS
<1>2. /\ Held(name)' = v /\ Held(name) <= v /\ v <= ver[worker[w].service.src]
      /\ v \in {Unseen} \cup (0 .. MaxChanges)
      /\ \A other : other # name => Held(other)' = Held(other)
  BY <1>1, ForwardAdvances
<1>3. UNCHANGED <<cfg, ver>>
  BY DEF ForwardData, WorkerSent, applierVars
<1>4. name \in ServiceNames /\ SourceOf(name) = worker[w].service.src
  BY <1>1, FollowTypes, SourceOfName
<1>5. CASE Held(name) = v
  BY <1>2, <1>3, <1>5, NothingFollowed
<1>6. CASE Held(name) # v
  <2>1. Held(name) < v /\ v \in 0 .. ver[SourceOf(name)]
    <3>1. Held(name) \in {Unseen} \cup (0 .. MaxChanges)
      BY <1>1, HeldIs
    <3>2. ver[worker[w].service.src] \in 0 .. MaxChanges
      BY FollowTypes
    <3> QED
      BY <1>2, <1>4, <1>6, <3>1, <3>2 DEF Unseen
  <2>2. Present[name] = ver[SourceOf(name)] /\ HeldOfAll[name] = Held(name)
    BY <1>4 DEF Present, HeldOfAll
  <2>3. HeldOfAll' = [HeldOfAll EXCEPT ![name] = v]
    BY <1>2, <1>4 DEF HeldOfAll
  <2>4. UNCHANGED <<Names, Present>>
    BY <1>3 DEF Names, Present
  <2>5. name \in Names
    <3>1. w \in DOMAIN cfg.services /\ worker[w].service = cfg.services[w] /\ cfg # NoConfig
      BY DEF FollowInv, Serves
    <3> QED
      BY <1>1, <3>1 DEF Names
  <2>6. HeldOfAll[name] < v /\ v \in 0 .. Present[name]
    BY <2>1, <2>2
  <2>7. Following!Follow(name)
    BY <2>3, <2>4, <2>5, <2>6 DEF Following!Follow, Present, HeldOfAll
  <2> QED
    BY <1>4, <2>7
<1> QED
  BY <1>5, <1>6

LEMMA FollowingStep ==
  ASSUME OneConfig, FollowInv, [MeshNext]_meshVars
  PROVE  Following!Next \/ UNCHANGED <<Names, Present, HeldOfAll>>
<1>1. CASE FlushCache
  <2>1. DOMAIN worker = {}
    BY <1>1 DEF FlushCache, FlushSent, FollowInv, Serves
  <2>2. DOMAIN services = {} /\ DOMAIN services' = {}
    <3>1. services' = <<>>
      BY <1>1 DEF FlushCache, IA!Flush
    <3>2. Serves
      BY DEF FollowInv
    <3>3. DOMAIN services = {}
      BY <2>1, <3>2 DEF Serves
    <3> QED
      BY <3>1, <3>3
  <2>3. UNCHANGED <<cfg, ver>> /\ \A name : Held(name)' = Held(name)
    BY <1>1, <2>2 DEF FlushCache, FlushSent, workerVars, Held
  <2> QED
    BY <2>3, NothingFollowed
<1>2. CASE Reconfigure
  BY <1>2, FollowingConfigures DEF Following!Next
<1>3. CASE Change
  BY <1>3, FollowingChanges DEF Following!Next
<1>4. CASE \E w \in DOMAIN worker : ForwardData(w)
  BY <1>4, FollowingFollows DEF Following!Next
<1>5. CASE UNCHANGED <<cfg, ver, services>>
  BY <1>5, HeldKept, NothingFollowed
<1>6. CASE PublishConfig \/ PublishModel \/ ApplyModel \/ ApplyConfig \/ UNCHANGED meshVars
  <2>1. UNCHANGED <<cfg, ver, services>>
    BY <1>6, NoOtherStep DEF PublishConfig, ConfigPublished, PublishModel, ApplyModel,
       IA!ModelPublished, IA!IPVSApplying, IA!WriteFile, IA!RunIpvsctl, IA!UnknownExecType,
       ApplyConfig, NothingToTakeDown, CreateWorker, ApplyDone, meshVars, vars, workerVars,
       applierVars, ipvsVars
  <2> QED
    BY <1>5, <2>1
<1>7. CASE \E w \in DOMAIN worker : Work(w) \/ Watch(w) \/ Break(w)
  <2>0. PICK w \in DOMAIN worker : Work(w) \/ Watch(w) \/ Break(w)
    BY <1>7
  <2>1. UNCHANGED <<cfg, ver, services>>
    <3>1. UNCHANGED <<cfg, services>>
      BY <2>0 DEF Work, Watch, Break, applierVars, ipvsVars
    <3>2. CASE WorkerRuns(w)
      <4>1. CASE QueryData(w)
        BY <3>1, <4>1 DEF QueryData
      <4>4. CASE BuildUpdate(w)
        BY <3>1, <4>4 DEF BuildUpdate
      <4>2. CASE StartLoop(w)
        BY <3>1, <4>2 DEF StartLoop
      <4>3. CASE Notified(w) \/ TakeStop(w) \/ Quit(w)
        BY <3>1, <4>3 DEF Notified, TakeStop, Quit
      <4> QED
        BY <3>2, <4>1, <4>2, <4>3, <4>4 DEF WorkerRuns
    <3>3. CASE LoopRuns(w) \/ StreamBroken(w)
      BY <3>1, <3>3 DEF LoopRuns, FileChanged, ListenersChanged, DockerEvent, StreamBroken
    <3> QED
      BY <2>0, <3>2, <3>3 DEF Work, Watch, Break
  <2> QED
    BY <1>5, <2>1
<1> QED
  BY <1>1, <1>2, <1>3, <1>4, <1>6, <1>7, NoOtherStep DEF MeshNext

\* Without reloads, failed queries or names used twice, the cache never goes back to an
\* older list of a service and never holds one its source never gave, for any number of
\* services and kinds of plugins (serviceworker.go:69-115, ipvsapplier.go:203-232).
THEOREM SourcesFollowedSafely ==
  ASSUME OneConfig
  PROVE  MeshSpec => FollowsSourcesSafely
<1>1. MeshInit => Following!Init
  BY FollowingInit
<1>2. FollowInv /\ [MeshNext]_meshVars =>
        [Following!Next]_<<Names, [name \in ServiceNames |-> ver[SourceOf(name)]],
                           [name \in ServiceNames |-> Held(name)]>>
  BY FollowingStep DEF Present, HeldOfAll
<1>3. MeshSpec => []FollowInv
  BY FollowInvariant
<1> QED
  BY <1>1, <1>2, <1>3, PTL DEF MeshSpec, FollowsSourcesSafely, Following!SafeSpec

\* A name that is cached is that of the service its worker serves.
LEMMA NamedIsServed ==
  ASSUME OneConfig, FollowInv, NEW w \in DOMAIN worker
  PROVE  ServiceNamed(worker[w].service.name) = worker[w].service
<1> DEFINE s == worker[w].service
           Last(k) == cfg.services[k].name = s.name /\ LastOfItsName(k, Len(cfg.services))
<1>1. cfg \in Config /\ cfg.services \in Seq(Service) /\ w \in DOMAIN cfg.services
      /\ s = cfg.services[w]
  BY ApplierAssumption DEF FollowInv, Serves, SendInv, TypeInv, TypeOK
<1>2. \A k \in DOMAIN cfg.services : cfg.services[k].name = s.name => k = w
  BY <1>1, FollowTypes DEF OneConfig
<1>3. Last(w)
  BY <1>1, <1>2 DEF LastOfItsName
<1>4. (CHOOSE k \in DOMAIN cfg.services : Last(k)) = w
  BY <1>1, <1>2, <1>3
<1> QED
  BY <1>1, <1>4 DEF ServiceNamed

\* At rest the loop has seen the present, and the worker has forwarded it.
LEMMA RestIsRecent ==
  ASSUME OneConfig, FollowInv, Quiet, NEW w \in DOMAIN worker,
         Kind[worker[w].service.src] # "docker"
  PROVE  LET s == worker[w].service IN
         HeldData(s.name) = Content[s.src][ver[s.src]]
<1> DEFINE src == worker[w].service.src
           held == HeldData(worker[w].service.name)
           v == Version(src, held)
<1>1. Follows(worker[w], loop[w], ver[src], held)
  BY DEF FollowInv, FollowsAt
<1>2. /\ worker[w] \in WorkerState /\ loop[w] \in LoopState /\ src \in Sources
      /\ ver[src] \in 0 .. MaxChanges
  BY FollowTypes
<1>3. worker[w].pc = "select" /\ loop[w].pc = "watch" /\ loop[w].seen = ver[src]
  BY <1>1, <1>2 DEF Quiet, Stuck, NothingToWatch, Follows, LoopState
<1>4. Known(src, held) /\ v <= Limit(worker[w], loop[w], ver[src]) /\ ver[src] <= v
  BY <1>1, <1>3 DEF Follows, Newer, Fresh
<1>5. v \in {Unseen} \cup (0 .. MaxChanges) /\ (v # Unseen => held = Content[src][v])
  BY <1>2, <1>4, VersionOfKnown
<1>6. Limit(worker[w], loop[w], ver[src]) = ver[src]
  BY <1>3 DEF Limit
<1>7. v = ver[src]
  <2> HIDE DEF v
  <2> QED
    BY <1>2, <1>4, <1>5, <1>6 DEF Unseen
<1> QED
  BY <1>2, <1>5, <1>7 DEF Unseen

\* Without reloads, and for the plugins whose loops look at their source before they wait
\* for changes, a daemon at rest has in its cache the backends each source has now,
\* however changes, queries and notifications came in between.
THEOREM CacheAlwaysRecent ==
  ASSUME OneConfig, \A src \in Sources : Kind[src] # "docker"
  PROVE  MeshSpec => []CacheIsRecent
<1>1. FollowInv => CacheIsRecent
  <2> SUFFICES ASSUME FollowInv, Quiet, NEW name \in DOMAIN services
               PROVE  services[name].data
                        = Content[ServiceNamed(name).src][ver[ServiceNamed(name).src]]
    BY DEF CacheIsRecent, Configured
  <2>1. PICK w \in DOMAIN worker : worker[w].service.name = name
    BY DEF FollowInv, Serves
  <2>2. ServiceNamed(name) = worker[w].service
    BY <2>1, NamedIsServed
  <2>3. worker[w].service.src \in Sources
    BY FollowTypes
  <2>4. HeldData(name) = Content[worker[w].service.src][ver[worker[w].service.src]]
    BY <2>1, <2>3, RestIsRecent
  <2> QED
    BY <2>2, <2>4 DEF HeldData
<1> QED
  BY <1>1, FollowInvariant, PTL

=============================================================================
