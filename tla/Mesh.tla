--------------------------------- MODULE Mesh ---------------------------------
(***************************************************************************)
(* The data path of the daemon: the config applier, its service workers    *)
(* with their notification loops, and the IPVS applier, joined by the      *)
(* unbuffered channel ipvsUpdateCh (cmd/daemon.go:122-152).  A send and    *)
(* the receive that takes it are one step.  The publisher worker is always *)
(* ready to receive, as it is without --once; the daemon is not stopped.   *)
(***************************************************************************)
EXTENDS ConfigApplier

CONSTANTS Torn, CallsFail

VARIABLES apPc, apCfg, services, target, file, kernel, err

IA == INSTANCE IPVSApplier
ipvsVars == <<apPc, apCfg, services, target, file, kernel, err>>
meshVars == <<vars, ipvsVars>>

MeshInit == Init /\ IA!IPVSInit

-----------------------------------------------------------------------------
\* ipvsUpdateCh: the flush and the update of the config applier, and the
\* updates of the workers
FlushCache == FlushSent /\ IA!Flush
ForwardUpdate == UpdateSent /\ IA!Integrate(caOut)
ForwardData(w) ==
  /\ WorkerSent(w)
  /\ IA!Integrate(worker[w].out)
  /\ UNCHANGED applierVars

\* publisherConfigUpdateCh and publisherUpdateCh
PublishConfig == ConfigPublished /\ UNCHANGED ipvsVars
PublishModel == IA!ModelPublished /\ UNCHANGED vars

ApplyConfig ==
  /\ \/ TakeDown \/ NothingToTakeDown \/ CreateWorker \/ UpdateWorker
     \/ QueryForUpdate \/ ApplyDone
  /\ UNCHANGED ipvsVars

ApplyModel == IA!IPVSApplying /\ UNCHANGED vars

Work(w) == WorkerRuns(w) /\ UNCHANGED <<applierVars, ipvsVars>>
Watch(w) == LoopRuns(w) /\ UNCHANGED <<applierVars, ipvsVars>>
Break(w) == StreamBroken(w) /\ UNCHANGED <<applierVars, ipvsVars>>

Reconfigure == \E c \in Config : ReceiveConfig(c) /\ UNCHANGED ipvsVars
Change == \E src \in Sources : SourceChanges(src) /\ UNCHANGED <<applierVars, ipvsVars>>

MeshNext ==
  \/ FlushCache \/ ForwardUpdate \/ PublishConfig \/ PublishModel
  \/ ApplyConfig \/ ApplyModel
  \/ \E w \in DOMAIN worker : ForwardData(w) \/ Work(w) \/ Watch(w) \/ Break(w)
  \/ Reconfigure \/ Change

\* Every goroutine runs.  The IPVS applier's receive picks among the waiting
\* senders in the order they came, so each of them is served.
MeshFairness ==
  /\ WF_meshVars(FlushCache \/ PublishConfig)
  /\ WF_meshVars(PublishModel)
  /\ WF_meshVars(ApplyConfig)
  /\ WF_meshVars(ApplyModel)
  /\ SF_meshVars(ForwardUpdate)
  /\ \A w \in 1 .. MaxWorkers :
       /\ SF_meshVars(w \in DOMAIN worker /\ ForwardData(w))
       /\ WF_meshVars(w \in DOMAIN worker /\ Work(w))
       /\ WF_meshVars(w \in DOMAIN worker /\ Watch(w))

MeshSpec == MeshInit /\ [][MeshNext]_meshVars
MeshFairSpec == MeshSpec /\ MeshFairness

-----------------------------------------------------------------------------
(***************************************************************************)
(* Properties                                                              *)
(***************************************************************************)
\* Nothing is under way: no goroutine has work, no change is unnoticed by a loop that
\* could notice it, no notification is outstanding.  Of the workers only one that was
\* stopped may be blocked, on a loop that is blocked on it or gone.
NothingToWatch(w) ==
  /\ loop[w].pc # "none"
  /\ loop[w].pc = "watch" => loop[w].seen = ver[loop[w].src]
  /\ worker[w].pc = "select" => loop[w].pc # "notify" /\ loop[w].pings = 0

Quiet ==
  /\ caPc = "select" /\ apPc = "select"
  /\ scWorkers = 0
  /\ \A w \in DOMAIN worker :
       /\ worker[w].pc \in {"select", "done"} \/ Stuck(w)
       /\ NothingToWatch(w)

Configured == cfg # NoConfig /\ Quiet

\* The service of that name in the configuration: the last one counts
ServiceNamed(name) ==
  LET i == CHOOSE k \in DOMAIN cfg.services :
             cfg.services[k].name = name /\ LastOfItsName(k, Len(cfg.services))
  IN  cfg.services[i]
Names ==
  IF cfg = NoConfig THEN {} ELSE {cfg.services[i].name : i \in DOMAIN cfg.services}

\* When the daemon is quiet, every configured service is in the cache, whatever
\* the flushes, stops and updates of the reloads before
\* (ipvsapplier.go:205-206, configapplier.go:103-107).
CacheCoversConfig == Configured => Names \subseteq DOMAIN services

\* ... and no other service is (configapplier.go:80-83).
OnlyConfiguredCached == Configured => DOMAIN services \subseteq Names

\* ... and each cached service has the backends its source has now
\* (ipvsapplier.go:28-31).
CacheIsRecent ==
  Configured =>
    \A name \in Names \cap DOMAIN services :
      LET src == ServiceNamed(name).src IN
      services[name].data = Content[src][ver[src]]

\* ... and the configuration that is applied with is the last one received
\* (ipvsapplier.go:66-67).
GlobalsAreCurrent == Configured /\ services # <<>> => apCfg = cfg

\* When the daemon is quiet and a service is cached, the table of the kernel
\* holds the backends of all cached services, and only those
\* (ipvsapplier.go:84-136, 182-192).
TableMatchesCache ==
  Quiet /\ services # <<>> =>
    /\ kernel = target
    /\ \E order \in IA!SetToSeqs(IA!NonEmpty(services)) :
         /\ Len(order) = Len(kernel)
         /\ \A p \in DOMAIN order :
              IA!Addresses(kernel[p].destinations) = IA!Addresses(services[order[p]].data)

\* A configuration without services leaves no service in the table
\* (ipvsapplier.go:204-208).
EmptyConfigClearsTable == Configured /\ cfg.services = <<>> => kernel = <<>>

\* What a list of backends of a source says of it: the state that it was read in; the
\* lists that a source gives in its states must differ from each other.
Version(src, data) ==
  IF data = NoBackends THEN Unseen
  ELSE CHOOSE v \in DOMAIN Content[src] : Content[src][v] = data

\* What the cache holds of a service
Held(name) ==
  IF name \notin DOMAIN services THEN Unseen
  ELSE Version(services[name].service.src, services[name].data)

ServiceNames == {s.name : s \in Service}
SourceOf(name) == (CHOOSE s \in Service : s.name = name).src

Following == INSTANCE Follower WITH
  Names <- ServiceNames,
  configured <- Names,
  present <- [name \in ServiceNames |-> ver[SourceOf(name)]],
  held <- [name \in ServiceNames |-> Held(name)]

\* Without reloads the goroutines between a source and the cache do what Follower
\* promises: whenever the source changes while a query, an update or a notification
\* is under way, the cache never goes back to an older list, and in the end holds
\* that of the present (serviceworker.go:69-115, ipvsapplier.go:203-232).
FollowsSources == Following!Spec
FollowsSourcesSafely == Following!SafeSpec

\* When reloads and changes come to an end, so does all work: the appliers and every
\* worker that was not stopped are back in their selects, and the stop channel is empty.
\* Only workers that were stopped may stay blocked (Stuck), and they hold up no one else.
Settles == <>[]Quiet

=============================================================================
