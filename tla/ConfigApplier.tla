---------------------------- MODULE ConfigApplier ----------------------------
(***************************************************************************)
(* daemon/configapplier.go: the goroutine that applies configurations.  It *)
(* passes each one to the publisher worker, makes the IPVS applier flush   *)
(* its cache, stops the worker of a service that is gone and creates or    *)
(* updates the workers of the others.  serviceWorkerList is the global     *)
(* list of active workers; it only ever appends, so its order is the order *)
(* of the worker numbers and a set stands for it.                          *)
(*                                                                         *)
(* The partners on the other ends of its channels (config watcher,         *)
(* publisher worker, IPVS applier, Service.Stop) are the environment here. *)
(***************************************************************************)
EXTENDS ServiceWorker

CONSTANTS
  NoConfig,    \* before the first configuration
  MaxConfigs,  \* bound: configurations received
  MaxWorkers   \* bound: workers fairness speaks about

ASSUME ApplierAssumption ==
  /\ \A c \in Config : c.services \in Seq(Service)
  /\ NoConfig \notin Config
  /\ MaxConfigs \in Nat
  /\ MaxWorkers \in Nat

VARIABLES
  caPc,               \* where the goroutine is
  cfg,                \* the configuration it applies or has applied last
  pos,                \* loop index over cfg.services
  serviceWorkerList,  \* the active workers
  caOut,              \* the update it is blocked on, sent from Update
  reloads,            \* configurations received so far
  stopToken           \* a stop is in its StopChan (capacity 1)

applierVars == <<caPc, cfg, pos, serviceWorkerList, caOut, reloads, stopToken>>
vars == <<workerVars, applierVars>>

TypeOK ==
  /\ WorkerTypeOK
  /\ caPc \in {"select", "publish", "flush", "walk", "apply", "query", "send",
               "stopping", "stopped"}
  /\ cfg \in Config \cup {NoConfig}
  /\ caPc \in {"publish", "flush", "walk", "apply", "query", "send"} => cfg # NoConfig
  /\ caPc = "query" => pos \in 1 .. Len(cfg.services)
  /\ pos \in Nat \ {0}
  /\ serviceWorkerList \subseteq DOMAIN worker
  /\ caOut \in Update \cup {NoUpdate}
  /\ reloads \in 0 .. MaxConfigs
  /\ stopToken \in BOOLEAN

Init ==
  /\ WorkerInit
  /\ caPc = "select"
  /\ cfg = NoConfig
  /\ pos = 1
  /\ serviceWorkerList = {}
  /\ caOut = NoUpdate
  /\ reloads = 0
  /\ stopToken = FALSE

-----------------------------------------------------------------------------
\* m[name] exists
InModel(name) == \E i \in DOMAIN cfg.services : cfg.services[i].name = name

\* Mutant: only a worker that is idle is found.
WorkersNamed_Idle(name) ==
  {w \in serviceWorkerList : worker[w].service.name = name /\ worker[w].pc = "select"}

\* GetServiceWorkerByName: the active workers of that name
WorkersNamed(name) == {w \in serviceWorkerList : worker[w].service.name = name}

NotInModel == {w \in serviceWorkerList : ~ InModel(worker[w].service.name)}

First(S) == CHOOSE w \in S : \A v \in S : w <= v

-----------------------------------------------------------------------------
\* case cfg := <-s.updateChan
ReceiveConfig(c) ==
  /\ caPc = "select"
  /\ reloads < MaxConfigs
  /\ cfg' = c
  /\ reloads' = reloads + 1
  /\ caPc' = "publish"
  /\ UNCHANGED <<workerVars, pos, serviceWorkerList, caOut, stopToken>>

\* The publisher worker takes the configuration.
ConfigPublished ==
  /\ caPc = "publish"
  /\ caPc' = "flush"
  /\ UNCHANGED <<workerVars, cfg, pos, serviceWorkerList, caOut, reloads, stopToken>>

\* The IPVS applier takes the empty update that flushes its cache.
FlushSent ==
  /\ caPc = "flush"
  /\ caPc' = "walk"
  /\ UNCHANGED <<workerVars, cfg, pos, serviceWorkerList, caOut, reloads, stopToken>>

\* Mutant: the worker stays on the list.
SendStop_KeepsListed(w) ==
  /\ scWorkers = 0
  /\ scWorkers' = 1
  /\ UNCHANGED <<ver, worker, loop, wg, serviceWorkerList>>

\* Mutant: a stop that finds the channel full is dropped.
SendStop_Drops(w) ==
  /\ scWorkers' = 1
  /\ serviceWorkerList' = serviceWorkerList \ {w}
  /\ UNCHANGED <<ver, worker, loop, wg>>

\* Mutant: a channel without a capacity limit.
SendStop_Unbounded(w) ==
  /\ scWorkers' = scWorkers + 1
  /\ serviceWorkerList' = serviceWorkerList \ {w}
  /\ UNCHANGED <<ver, worker, loop, wg>>

\* Send a stop for worker w, blocking while the channel is full, and take w
\* off the list.  list.Remove clears e.next, so the walk ends after this one.
SendStop(w) ==
  /\ scWorkers = 0
  /\ scWorkers' = 1
  /\ serviceWorkerList' = serviceWorkerList \ {w}
  /\ UNCHANGED <<ver, worker, loop, wg>>

TakeDown ==
  /\ caPc = "walk"
  /\ NotInModel # {}
  /\ SendStop(First(NotInModel))
  /\ caPc' = "apply"
  /\ UNCHANGED <<cfg, pos, caOut, reloads, stopToken>>

NothingToTakeDown ==
  /\ caPc = "walk"
  /\ NotInModel = {}
  /\ caPc' = "apply"
  /\ UNCHANGED <<workerVars, cfg, pos, serviceWorkerList, caOut, reloads, stopToken>>

\* applyService: no worker has that name, create one.
CreateWorker ==
  /\ caPc = "apply"
  /\ pos <= Len(cfg.services)
  /\ WorkersNamed(cfg.services[pos].name) = {}
  /\ worker' = Append(worker, NewWorker(cfg, cfg.services[pos]))
  /\ loop' = Append(loop, NewLoop(cfg.services[pos]))
  /\ serviceWorkerList' = serviceWorkerList \cup {Len(worker) + 1}
  /\ wg' = wg + 1
  /\ pos' = pos + 1
  /\ UNCHANGED <<ver, scWorkers, caPc, cfg, caOut, reloads, stopToken>>

\* Mutant: the worker is asked again, but keeps its old service.
UpdateWorker_KeepsService ==
  /\ caPc = "apply"
  /\ pos <= Len(cfg.services)
  /\ WorkersNamed(cfg.services[pos].name) # {}
  /\ caPc' = "query"
  /\ UNCHANGED <<workerVars, cfg, pos, serviceWorkerList, caOut, reloads, stopToken>>

\* Mutant: a service that has not changed is not asked again.
UpdateWorker_IfChanged ==
  /\ caPc = "apply"
  /\ pos <= Len(cfg.services)
  /\ LET same == WorkersNamed(cfg.services[pos].name) IN
       /\ same # {}
       /\ IF worker[First(same)].service = cfg.services[pos]
          THEN pos' = pos + 1 /\ UNCHANGED <<worker, loop, caPc>>
          ELSE /\ worker' = [worker EXCEPT ![First(same)].service = cfg.services[pos]]
               /\ loop' = [loop EXCEPT ![First(same)].own = FALSE]
               /\ caPc' = "query"
               /\ UNCHANGED pos
  /\ UNCHANGED <<ver, scWorkers, wg, cfg, serviceWorkerList, caOut, reloads, stopToken>>

\* applyService: sw.Update swaps the service pointer (and with it the plugin,
\* which the running loop does not follow; sw.cfg stays) ...
UpdateWorker ==
  /\ caPc = "apply"
  /\ pos <= Len(cfg.services)
  /\ LET same == WorkersNamed(cfg.services[pos].name) IN
       /\ same # {}
       /\ worker' = [worker EXCEPT ![First(same)].service = cfg.services[pos]]
       /\ loop' = [loop EXCEPT ![First(same)].own = FALSE]
  /\ caPc' = "query"
  /\ UNCHANGED <<ver, scWorkers, wg, cfg, pos, serviceWorkerList, caOut, reloads,
                 stopToken>>

\* ... and queries the new plugin, on the goroutine of the config applier ...
QueryForUpdate ==
  /\ caPc = "query"
  /\ LET w == First(WorkersNamed(cfg.services[pos].name)) IN
       \E d \in GetDownwardData(w) :
         caOut' = [service |-> worker[w].service, data |-> d, cfg |-> worker[w].cfg]
  /\ caPc' = "send"
  /\ UNCHANGED <<workerVars, cfg, pos, serviceWorkerList, reloads, stopToken>>

\* ... and forwards what it got: the IPVS applier takes it.
UpdateSent ==
  /\ caPc = "send"
  /\ caOut' = NoUpdate
  /\ pos' = pos + 1
  /\ caPc' = "apply"
  /\ UNCHANGED <<workerVars, cfg, serviceWorkerList, reloads, stopToken>>

ApplyDone ==
  /\ caPc = "apply"
  /\ pos > Len(cfg.services)
  /\ pos' = 1
  /\ caPc' = "select"
  /\ UNCHANGED <<workerVars, cfg, serviceWorkerList, caOut, reloads, stopToken>>

\* Service.Stop: *r.StopChan <- &s.wg, a channel of capacity 1.
SendStopToApplier ==
  /\ ~ stopToken
  /\ stopToken' = TRUE
  /\ UNCHANGED <<workerVars, caPc, cfg, pos, serviceWorkerList, caOut, reloads>>

\* case wg := <-*s.StopChan
BeginStop ==
  /\ caPc = "select"
  /\ stopToken
  /\ stopToken' = FALSE
  /\ caPc' = "stopping"
  /\ UNCHANGED <<workerVars, cfg, pos, serviceWorkerList, caOut, reloads>>

\* Stop the first active worker; again l.Remove ends the walk.
StopWorkers ==
  /\ caPc = "stopping"
  /\ \/ serviceWorkerList = {} /\ UNCHANGED <<workerVars, serviceWorkerList>>
     \/ serviceWorkerList # {} /\ SendStop(First(serviceWorkerList))
  /\ caPc' = "stopped"
  /\ UNCHANGED <<cfg, pos, caOut, reloads, stopToken>>

-----------------------------------------------------------------------------
\* The goroutine of the config applier
Applying ==
  \/ TakeDown \/ NothingToTakeDown \/ CreateWorker \/ UpdateWorker
  \/ QueryForUpdate \/ ApplyDone \/ BeginStop \/ StopWorkers

\* The partners take what the goroutines are blocked on.
PartnerOfApplier == ConfigPublished \/ FlushSent \/ UpdateSent

Environment ==
  \/ \E c \in Config : ReceiveConfig(c)
  \/ SendStopToApplier
  \/ \E src \in Sources : SourceChanges(src) /\ UNCHANGED applierVars

Next ==
  \/ Applying
  \/ PartnerOfApplier
  \/ \E w \in DOMAIN worker : (WorkerStep(w) \/ WorkerSent(w)) /\ UNCHANGED applierVars
  \/ Environment

\* Every goroutine runs, and the partners keep receiving; the configurations,
\* the changes, the stop and the failures need not happen.
Fairness ==
  /\ WF_vars(Applying)
  /\ WF_vars(PartnerOfApplier)
  /\ \A w \in 1 .. MaxWorkers :
       /\ WF_vars(w \in DOMAIN worker /\ WorkerRuns(w) /\ UNCHANGED applierVars)
       /\ WF_vars(w \in DOMAIN worker /\ LoopRuns(w) /\ UNCHANGED applierVars)
       /\ WF_vars(w \in DOMAIN worker /\ WorkerSent(w) /\ UNCHANGED applierVars)

Spec == Init /\ [][Next]_vars
FairSpec == Spec /\ Fairness

-----------------------------------------------------------------------------
(***************************************************************************)
(* Properties                                                              *)
(***************************************************************************)
\* The WaitGroup that Stop hands to the workers counts the workers that have not
\* called wg.Done() (configapplier.go:119, serviceworker.go:119), across any
\* interleaving of reloads, stops and workers.
WgCountsWorkers == wg = Cardinality(LiveWorkers)

\* Workers and list disagree by the stop in flight and nothing else: every stop
\* that was sent takes down one worker, though not always the one it was meant
\* for (configapplier.go:97-98, serviceworker.go:117).
StopsConserved ==
  Cardinality(LiveWorkers) = Cardinality(serviceWorkerList) + scWorkers

\* applyService never gives one name two active workers (configapplier.go:115).
OneWorkerPerService ==
  \A v, w \in serviceWorkerList :
    worker[v].service.name = worker[w].service.name => v = w

\* Once a configuration is applied, every service in it has an active worker that
\* holds this service and no earlier one; of two services with the same name the
\* last one counts (configapplier.go:103-107, 115-123).
LastOfItsName(i, n) ==
  \A j \in 1 .. n : cfg.services[j].name = cfg.services[i].name => j <= i

AppliedUpTo(n) ==
  \A i \in 1 .. n :
    LastOfItsName(i, n) =>
      \E w \in serviceWorkerList : worker[w].service = cfg.services[i]

AppliedConfig == caPc = "select" /\ cfg # NoConfig => AppliedUpTo(Len(cfg.services))

\* The applier starts and gives up workers one at a time, never gives up a
\* worker while an earlier one still has to stop, and a worker given up stops.
Pool == INSTANCE WorkerPool WITH
  running <- Cardinality(LiveWorkers), wanted <- Cardinality(serviceWorkerList)
PoolRefined == Pool!Spec
PoolRefinedSafely == Pool!SafeSpec

\* The applier never hangs on the full stop channel: it always comes back for the
\* next configuration or the stop (configapplier.go:44-45, 67, 97).
ApplierReturns == caPc \notin {"select", "stopped"} ~> caPc \in {"select", "stopped"}

\* A worker that was stopped gets rid of its loop, or the two were caught in one of the
\* two ways that keep the worker for ever: its loop was just notifying it (a file or
\* socket loop that saw a change), or had returned before (docker, when the event stream
\* broke) (serviceworker.go:120-121, proxy-from-file.go:239, socket-front-proxy.go:141,
\* docker-front-proxy.go:193-196).
QuitCompletes ==
  \A w \in 1 .. MaxWorkers :
    (w \in DOMAIN worker /\ worker[w].pc = "quit")
      ~> (w \in DOMAIN worker
          /\ \/ worker[w].pc = "done" /\ loop[w].pc = "done"
             \/ Stuck(w))

\* model.go:110-112, the loop "terminates when it receives something on quitChan": the
\* worker that was stopped gets rid of it, always.
QuitTerminates ==
  \A w \in 1 .. MaxWorkers :
    (w \in DOMAIN worker /\ worker[w].pc = "quit")
      ~> (w \in DOMAIN worker /\ worker[w].pc = "done" /\ loop[w].pc = "done")

\* What the comments say of the walks over the active workers.
\* configapplier.go:96, a worker is taken down when its service is not part of
\* the model any more.
OnlyRemovedStopped ==
  [][\A w \in DOMAIN worker :
       worker[w].pc = "select" /\ worker'[w].pc = "quit" => w \notin serviceWorkerList]_vars

\* configapplier.go:90, the walk checks all active workers: afterwards none of
\* them serves a service outside of the model.
ListMatchesModel == caPc \in {"apply", "query", "send"} => NotInModel = {}

\* serviceworker.go:126, Update "applies configuration updates": afterwards the
\* loop of an active, idle worker watches what its service asks for.
LoopWatchesService ==
  caPc = "select" =>
    \A w \in serviceWorkerList :
      worker[w].pc = "select" => loop[w].src = worker[w].service.src

\* configapplier.go:63, "stop all active service workers".
StopsAll == caPc = "stopped" => serviceWorkerList = {}

=============================================================================
