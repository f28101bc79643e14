----------------------------- MODULE DaemonProofs -----------------------------
(***************************************************************************)
(* Theorems about Daemon and PublishWorker: the daemon as a whole          *)
(* implements each of its goroutines, no Stop ends its wait too early, and *)
(* the publishers are those of the last configuration.                     *)
(***************************************************************************)
EXTENDS Daemon, MeshProofs

-----------------------------------------------------------------------------
(***************************************************************************)
(* The publish worker                                                      *)
(***************************************************************************)
\* Among the publishers of one name there is a last one.
LEMMA LastExists ==
  ASSUME NEW c, c.publishers \in Seq(Publisher), NEW name \in PW!PublisherNames(c)
  PROVE  LET last == PW!LastOf(name, c) IN
         /\ last \in DOMAIN c.publishers
         /\ c.publishers[last].name = name
         /\ \A j \in last + 1 .. Len(c.publishers) : c.publishers[j].name # name
<1> DEFINE n == Len(c.publishers)
           after == {k \in 0 .. n : k < n /\ c.publishers[n - k].name = name}
<1>1. n \in Nat /\ DOMAIN c.publishers = 1 .. n
  OBVIOUS
<1>2. after # {}
  <2>1. PICK i \in 1 .. n : c.publishers[i].name = name
    BY <1>1 DEF PW!PublisherNames
  <2>2. n - i \in 0 .. n /\ n - i < n /\ n - (n - i) = i
    BY <1>1, <2>1
  <2>3. n - i \in after
    BY <2>1, <2>2
  <2> QED
    BY <2>3
<1>3. PICK k \in after : \A m \in after : ~ (<<m, k>> \in OpToRel(<, Nat))
  <2>1. after \subseteq Nat
    BY <1>1
  <2> QED
    BY <1>2, <2>1, NatLessThanWellFounded, WFMin, Zenon
<1>4. k \in 0 .. n /\ k < n /\ n - k \in 1 .. n /\ c.publishers[n - k].name = name
  <2>1. k \in 0 .. n /\ k < n /\ c.publishers[n - k].name = name
    OBVIOUS
  <2> QED
    BY <1>1, <2>1
<1>5. ASSUME NEW j \in (n - k) + 1 .. n
      PROVE  c.publishers[j].name # name
  <2>1. SUFFICES ASSUME c.publishers[j].name = name PROVE FALSE
    OBVIOUS
  <2>2. n - j \in 0 .. n /\ n - j < k /\ n - j < n /\ n - (n - j) = j /\ k \in Nat
    BY <1>1, <1>4, <1>5
  <2>3. n - j \in after
    BY <2>1, <2>2
  <2>4. <<n - j, k>> \in Nat \X Nat /\ <<n - j, k>>[1] < <<n - j, k>>[2]
    BY <1>1, <2>2
  <2>5. <<n - j, k>> \in OpToRel(<, Nat)
    BY <2>4, Zenon DEF OpToRel
  <2> QED
    BY <1>3, <2>3, <2>5, Zenon
<1>6. \E i \in DOMAIN c.publishers :
        /\ c.publishers[i].name = name
        /\ \A j \in i + 1 .. Len(c.publishers) : c.publishers[j].name # name
  BY <1>1, <1>4, <1>5
<1> QED
  BY <1>6, Zenon DEF PW!LastOf

\* A configuration replaces what is there by its own publishers.
LEMMA TakeConfigMatches ==
  ASSUME NEW c \in Config, PW!TakeConfig(c)
  PROVE  PW!SpecsMatchConfig'
<1>0. c.publishers \in Seq(Publisher) /\ NoConfig \notin Config
  BY DaemonAssumption DEF PW!PublisherAssumption
<1>1. pwCfg' = c /\ pwCfg' # NoConfig
  BY <1>0 DEF PW!TakeConfig
<1>2. DOMAIN publisherSpecs' = PW!PublisherNames(c)
  BY DEF PW!TakeConfig, PW!Restrict
<1>3. ASSUME NEW name \in PW!PublisherNames(c)
      PROVE  publisherSpecs'[name] = c.publishers[PW!LastOf(name, c)]
  BY <1>3 DEF PW!TakeConfig, PW!Restrict, PW!Stored
<1>4. ASSUME NEW i \in DOMAIN c.publishers,
             publisherSpecs'[c.publishers[i].name] # c.publishers[i]
      PROVE  \E j \in i + 1 .. Len(c.publishers) :
               c.publishers[j].name = c.publishers[i].name
  <2> DEFINE name == c.publishers[i].name
             last == PW!LastOf(name, c)
  <2>1. name \in PW!PublisherNames(c)
    BY <1>4 DEF PW!PublisherNames
  <2>2. /\ last \in DOMAIN c.publishers /\ c.publishers[last].name = name
        /\ \A j \in last + 1 .. Len(c.publishers) : c.publishers[j].name # name
    BY <1>0, <2>1, LastExists
  <2>3. last # i
    BY <1>3, <1>4, <2>1
  <2>4. last \in i + 1 .. Len(c.publishers)
    <3>1. last \in 1 .. Len(c.publishers) /\ i \in 1 .. Len(c.publishers)
          /\ Len(c.publishers) \in Nat
      BY <1>0, <2>2
    <3>2. i \notin last + 1 .. Len(c.publishers)
      BY <2>2
    <3> HIDE DEF last
    <3> QED
      BY <2>3, <3>1, <3>2
  <2> QED
    BY <2>2, <2>4
<1> QED
  BY <1>1, <1>2, <1>4 DEF PW!SpecsMatchConfig, PW!PublisherNames

\* The publish worker always holds the publishers of the configuration it was sent
\* last (publishworker.go:204-248).
THEOREM AlwaysMatches == PW!PublishSpec => []PW!SpecsMatchConfig
<1>1. PW!PublishInit => PW!SpecsMatchConfig
  BY DEF PW!PublishInit, PW!SpecsMatchConfig
<1>2. PW!SpecsMatchConfig /\ [PW!PublishNext]_PW!publishVars => PW!SpecsMatchConfig'
  <2>1. SUFFICES ASSUME PW!SpecsMatchConfig, [PW!PublishNext]_PW!publishVars
                 PROVE  PW!SpecsMatchConfig'
    OBVIOUS
  <2>2. ASSUME NEW c \in Config, PW!TakeConfig(c)
        PROVE  PW!SpecsMatchConfig'
    BY <2>2, TakeConfigMatches
  <2>3. CASE UNCHANGED <<pwCfg, publisherSpecs>>
    BY <2>1, <2>3 DEF PW!SpecsMatchConfig, PW!PublisherNames
  <2> QED
    BY <2>1, <2>2, <2>3
       DEF PW!PublishNext, PW!TakeModel, PW!OnceTaken, PW!StopPublishWorker, PW!publishVars
<1> QED
  BY <1>1, <1>2, PTL DEF PW!PublishSpec

-----------------------------------------------------------------------------
(***************************************************************************)
(* The parts                                                               *)
(***************************************************************************)
USE DEF CW!watcherVars, CW!fileVars, CW!libraryVars, CW!goroutineVars

\* What the config watcher reads and sends are configurations.
WatcherSends ==
  /\ doc # NoFile => doc \in Document \cup AtStart
  /\ cwPc = "send" => cwOut \in Config

LEMMA WatcherSendsStep ==
  ASSUME WatcherSends, [DaemonNext]_daemonVars
  PROVE  WatcherSends'
<1>1. CASE WatchConfig
  <2>1. CASE CW!GoodConfig
    <3>1. doc.cfg \in Config
      BY <2>1, DaemonAssumption DEF CW!GoodConfig, CW!Good, WatcherSends
    <3> QED
      BY <2>1, <3>1 DEF CW!GoodConfig, WatcherSends
  <2>2. CASE CW!TakeEvent \/ CW!BadConfig \/ CW!BadPublisher \/ CW!Poll
    BY <2>2 DEF CW!TakeEvent, CW!BadConfig, CW!BadPublisher, CW!Poll, CW!AfterEvent,
                WatcherSends
  <2> QED
    BY <1>1, <2>1, <2>2 DEF WatchConfig, CW!WatcherRuns
<1>2. CASE EditConfig \/ DeliverConfig \/ WatcherStops
  BY <1>2 DEF EditConfig, CW!Edit, DeliverConfig, CW!ConfigTaken, CW!AfterEvent,
              WatcherStops, CW!StopConfigWatcher, WatcherSends
<1>3. CASE UNCHANGED watcherVars
  BY <1>3 DEF watcherVars, WatcherSends
<1> QED
  BY <1>1, <1>2, <1>3
     DEF DaemonNext, DeliverPublishers, DeliverModel, FlushAndUpdate, ApplyStep, WorkersWork,
         ChangeSource, CallStop, OnceStop, CallRuns, WalkList, SendStops, WaitOver, AddOne,
         PostStop,
         ApplierBegins, ApplierStops, IPVSApplierStops, PublisherStops, MainRuns, LeaveStart,
         Exit, daemonVars

\* The data path takes a step of Mesh, or one of the steps that stop it.
StopStep ==
  \/ (SendStopToApplier \/ BeginStop \/ StopWorkers) /\ UNCHANGED ipvsVars
  \/ IA!StopIPVSApplier /\ UNCHANGED vars

LEMMA DaemonStepIsMeshStep ==
  ASSUME WatcherSends, [DaemonNext]_daemonVars
  PROVE  [MeshNext]_meshVars \/ StopStep
<1>1. CASE DeliverConfig
  <2>1. cwOut \in Config
    BY <1>1 DEF DeliverConfig, CW!ConfigTaken, WatcherSends
  <2> QED
    BY <1>1, <2>1 DEF DeliverConfig, Reconfigure, MeshNext
<1>2. CASE DeliverPublishers \/ DeliverModel \/ FlushAndUpdate \/ ApplyStep \/ WorkersWork
           \/ ChangeSource
  BY <1>2 DEF DeliverPublishers, DeliverModel, FlushAndUpdate, ApplyStep, WorkersWork,
              ChangeSource, MeshNext
<1>3. CASE \E h \in Calls : SendStops(h)
  BY <1>3 DEF SendStops, StopStep, meshVars
<1>4. CASE ApplierBegins \/ ApplierStops
  <2>1. UNCHANGED ipvsVars
    BY <1>4 DEF ApplierBegins, ApplierStops
  <2> QED
    BY <1>4, <2>1 DEF ApplierBegins, ApplierStops, StopStep
<1>5. CASE IPVSApplierStops
  BY <1>5 DEF IPVSApplierStops, StopStep
<1>6. CASE UNCHANGED meshVars
  BY <1>6
<1> QED
  BY <1>1, <1>2, <1>3, <1>4, <1>5, <1>6
     DEF DaemonNext, WatchConfig, EditConfig, CallStop, OnceStop, CallRuns, WalkList,
         WaitOver, AddOne, PostStop, WatcherStops, PublisherStops, MainRuns, LeaveStart,
         Exit, daemonVars

LEMMA DaemonStepIsApplierStep ==
  ASSUME WatcherSends, [DaemonNext]_daemonVars
  PROVE  [Next]_vars
BY DaemonStepIsMeshStep, MeshStepOrStutter DEF StopStep, Next, Environment, Applying

\* The messages of Mesh are sent as they are when the daemon is stopped.
LEMMA DaemonSendStep ==
  ASSUME WatcherSends, SendInv, [DaemonNext]_daemonVars
  PROVE  SendInv'
<1>1. CASE [MeshNext]_meshVars
  BY <1>1, SendStep
<1>2. CASE StopStep
  <2>1. TypeInv' /\ ProgressInv'
    BY DaemonStepIsApplierStep, NextType, NextProgress DEF SendInv
  <2>2. UNCHANGED <<worker, cfg, pos, caOut>> /\ (caPc' = "send" => caPc = "send")
    BY <1>2 DEF StopStep, SendStopToApplier, BeginStop, StopWorkers, SendStop, workerVars,
                vars, applierVars
  <2> QED
    BY <2>1, <2>2 DEF SendInv, WorkersSend, ApplierSends
<1> QED
  BY <1>1, <1>2, DaemonStepIsMeshStep

DaemonInv == WatcherSends /\ SendInv

LEMMA DaemonInvariant == DaemonSpec => []DaemonInv
<1>1. DaemonInit => DaemonInv
  BY SendInit DEF DaemonInit, CW!WatcherInit, DaemonInv, WatcherSends
<1>2. DaemonInv /\ [DaemonNext]_daemonVars => DaemonInv'
  BY WatcherSendsStep, DaemonSendStep DEF DaemonInv
<1> QED
  BY <1>1, <1>2, PTL DEF DaemonSpec

\* In the daemon, with a watcher that sends configurations, Stops at any time and other
\* goroutines that stop before it, the config applier does what it does alone; what is
\* proved of Spec holds there.
THEOREM DaemonHasConfigApplier == DaemonSpec => Spec
<1>1. DaemonInit => Init
  BY DEF DaemonInit, MeshInit
<1>2. DaemonInv /\ [DaemonNext]_daemonVars => [Next]_vars
  BY DaemonStepIsApplierStep DEF DaemonInv
<1> QED
  BY <1>1, <1>2, DaemonInvariant, PTL DEF DaemonSpec, Spec

\* So in the daemon as well no stop is lost, the WaitGroup of the workers is exact, no
\* name has two workers and an applied configuration has its workers.
COROLLARY DaemonKeepsItsWorkers ==
  DaemonSpec =>
    [](WgCountsWorkers /\ StopsConserved /\ OneWorkerPerService /\ AppliedConfig)
BY DaemonHasConfigApplier, WaitGroupExact, NoStopLost, OneWorkerEach, ConfigIsApplied, PTL

\* So does the IPVS applier, which may be stopped between any two updates.
THEOREM DaemonHasIPVSApplier == DaemonSpec => IA!IPVSSpec
<1>1. DaemonInit => IA!IPVSInit
  BY DEF DaemonInit, MeshInit
<1>2. DaemonInv /\ [DaemonNext]_daemonVars => [IA!IPVSNext]_IA!ipvsVars
  <2> SUFFICES ASSUME DaemonInv, [DaemonNext]_daemonVars
               PROVE  IA!IPVSNext \/ UNCHANGED ipvsVars
    BY DEF ipvsVars, IA!ipvsVars
  <2> QED
    BY DaemonStepIsMeshStep, MeshStepIsIPVSStep DEF DaemonInv, StopStep, IA!IPVSNext
<1> QED
  BY <1>1, <1>2, DaemonInvariant, PTL DEF DaemonSpec, IA!IPVSSpec

\* Only a new configuration changes the configuration.
LEMMA ConfigKept ==
  ASSUME [DaemonNext]_daemonVars, ~ DeliverConfig
  PROVE  UNCHANGED cfg
<1>1. CASE FlushAndUpdate \/ DeliverPublishers \/ DeliverModel \/ ChangeSource
  BY <1>1 DEF FlushAndUpdate, FlushCache, FlushSent, ForwardUpdate, UpdateSent,
     DeliverPublishers, PublishConfig, ConfigPublished, DeliverModel, PublishModel,
     ChangeSource, Change, vars, applierVars
<1>2. CASE ApplyStep
  BY <1>2 DEF ApplyStep, ApplyConfig, ApplyModel, TakeDown, NothingToTakeDown, CreateWorker,
     UpdateWorker, QueryForUpdate, ApplyDone, vars, applierVars
<1>3. CASE WorkersWork
  BY <1>3 DEF WorkersWork, ForwardData, Work, Watch, Break, applierVars
<1>4. CASE ApplierBegins \/ ApplierStops \/ \E h \in Calls : SendStops(h)
  BY <1>4 DEF ApplierBegins, BeginStop, ApplierStops, StopWorkers, SendStops,
     SendStopToApplier, vars, applierVars
<1>5. CASE UNCHANGED vars
  BY <1>5 DEF vars, applierVars
<1> QED
  BY <1>1, <1>2, <1>3, <1>4, <1>5
     DEF DaemonNext, WatchConfig, EditConfig, CallStop, OnceStop, CallRuns, WalkList,
         WaitOver, AddOne, PostStop, IPVSApplierStops, WatcherStops, PublisherStops,
         MainRuns, LeaveStart,
         Exit, daemonVars, meshVars

\* And the config watcher, whose receiver is the config applier.
THEOREM DaemonHasConfigWatcher == DaemonSpec => CW!WatcherSpec
<1>1. DaemonInit => CW!WatcherStart
  BY DEF DaemonInit, MeshInit, Init, CW!WatcherStart
<1>2. [DaemonNext]_daemonVars => [CW!WatcherNext]_<<CW!watcherVars, cfg>>
  <2> SUFFICES ASSUME [DaemonNext]_daemonVars
               PROVE  CW!WatcherNext \/ UNCHANGED <<watcherVars, cfg>>
    BY DEF watcherVars
  <2>1. CASE DeliverConfig
    BY <2>1 DEF DeliverConfig, CW!WatcherNext
  <2>2. CASE WatchConfig
    BY <2>2, ConfigKept DEF WatchConfig, CW!WatcherNext, meshVars, vars, applierVars
  <2>3. CASE EditConfig \/ WatcherStops
    BY <2>3 DEF EditConfig, WatcherStops, CW!WatcherNext, meshVars, vars, applierVars
  <2>4. CASE UNCHANGED watcherVars /\ ~ DeliverConfig
    BY <2>4, ConfigKept
  <2> QED
    BY <2>1, <2>2, <2>3, <2>4
       DEF DaemonNext, DeliverPublishers, DeliverModel, FlushAndUpdate, ApplyStep,
           WorkersWork, ChangeSource, CallStop, OnceStop, CallRuns, WalkList, SendStops,
           WaitOver, AddOne, PostStop, ApplierBegins, ApplierStops, IPVSApplierStops,
           PublisherStops,
           MainRuns, LeaveStart, Exit, daemonVars
<1> QED
  BY <1>1, <1>2, PTL DEF DaemonSpec, CW!WatcherSpec

\* And the publish worker.
THEOREM DaemonHasPublishWorker == DaemonSpec => PW!PublishSpec
<1>1. DaemonInit => PW!PublishInit
  BY DEF DaemonInit
<1>2. DaemonInv /\ [DaemonNext]_daemonVars => [PW!PublishNext]_PW!publishVars
  <2> SUFFICES ASSUME DaemonInv, [DaemonNext]_daemonVars
               PROVE  PW!PublishNext \/ UNCHANGED publishVars
    BY DEF publishVars, PW!publishVars
  <2>1. CASE DeliverPublishers
    <3>1. cfg \in Config
      BY <2>1 DEF DeliverPublishers, PublishConfig, ConfigPublished, DaemonInv, SendInv,
                  TypeInv, TypeOK
    <3> QED
      BY <2>1, <3>1 DEF DeliverPublishers, PW!PublishNext
  <2>2. CASE DeliverModel \/ OnceStop \/ PublisherStops
    BY <2>2 DEF DeliverModel, OnceStop, PublisherStops, PW!PublishNext
  <2> QED
    BY <2>1, <2>2
       DEF DaemonNext, DeliverConfig, FlushAndUpdate, ApplyStep, WorkersWork, WatchConfig,
           EditConfig, ChangeSource, CallStop, CallRuns, WalkList, SendStops, WaitOver,
           AddOne, PostStop,
           ApplierBegins, ApplierStops, IPVSApplierStops, WatcherStops, MainRuns,
           LeaveStart, Exit, daemonVars
<1> QED
  BY <1>1, <1>2, DaemonInvariant, PTL DEF DaemonSpec, PW!PublishSpec

\* The publishers of the daemon are those of the configuration its publish worker was sent
\* last, whatever stops and reloads come in between (publishworker.go:204-248).
THEOREM PublishersAlwaysMatch == DaemonSpec => []PublishersMatch
BY DaemonHasPublishWorker, AlwaysMatches, PTL DEF PublishersMatch

-----------------------------------------------------------------------------
(***************************************************************************)
(* The WaitGroup of the daemon                                             *)
(***************************************************************************)
\* The goroutines that have not called wg.Done(); a watcher that returned with --once
\* is one of them.
NotDone ==
  {r \in Goroutines :
     CASE r = "configApplier" -> caPc # "stopped"
       [] r = "configWatcher" -> cwPc # "stopped"
       [] r = "publishWorker" -> pwPc # "stopped"
       [] r = "ipvsApplier"   -> apPc # "stopped"}

\* The times a Stop called wg.Add(1)
EndedStops == UNION {{h} \X (1 .. call[h].added) : h \in Calls}

LEMMA FiniteNotDone ==
  /\ IsFiniteSet(NotDone) /\ Cardinality(NotDone) \in Nat
  /\ Cardinality(Goroutines) = 4
<1>1. IsFiniteSet(Goroutines) /\ Cardinality(Goroutines) = 4
  <2> DEFINE one == {"configApplier"}
             two == one \cup {"configWatcher"}
             three == two \cup {"publishWorker"}
  <2>1. Goroutines = three \cup {"ipvsApplier"}
    BY DEF Goroutines
  <2>2. IsFiniteSet(one) /\ Cardinality(one) = 1 /\ "configWatcher" \notin one
    BY FS_Singleton
  <2>3. IsFiniteSet(two) /\ Cardinality(two) = 2 /\ "publishWorker" \notin two
    BY <2>2, FS_AddElement
  <2> HIDE DEF two
  <2>4. IsFiniteSet(three) /\ Cardinality(three) = 3
    BY <2>3, FS_AddElement
  <2>5. "ipvsApplier" \notin three
    BY DEF two
  <2> HIDE DEF three
  <2> QED
    BY <2>1, <2>4, <2>5, FS_AddElement
<1>2. NotDone \in SUBSET Goroutines
  BY DEF NotDone
<1>3. IsFiniteSet(NotDone)
  BY <1>1, <1>2, FS_Subset
<1> QED
  BY <1>1, <1>3, FS_CardinalityType

\* Whether the goroutines have stopped
SameStopped ==
  /\ caPc' = "stopped" <=> caPc = "stopped"
  /\ apPc' = "stopped" <=> apPc = "stopped"
  /\ cwPc' = "stopped" <=> cwPc = "stopped"
  /\ pwPc' = "stopped" <=> pwPc = "stopped"

LEMMA NotDoneKept == ASSUME SameStopped PROVE NotDone' = NotDone
BY DEF SameStopped, Goroutines, NotDone

LEMMA MeshKeepsStopped ==
  ASSUME [MeshNext]_meshVars
  PROVE  /\ caPc' = "stopped" <=> caPc = "stopped"
         /\ apPc' = "stopped" <=> apPc = "stopped"
<1>1. CASE FlushCache \/ PublishConfig \/ PublishModel \/ Reconfigure \/ Change
  BY <1>1 DEF FlushCache, FlushSent, IA!Flush, PublishConfig, ConfigPublished, PublishModel,
     IA!ModelPublished, Reconfigure, ReceiveConfig, Change, vars, applierVars, ipvsVars
<1>2. CASE ForwardUpdate \/ \E w \in DOMAIN worker : ForwardData(w)
  BY <1>2 DEF ForwardUpdate, UpdateSent, IA!Integrate, ForwardData, applierVars
<1>3. CASE ApplyConfig
  BY <1>3 DEF ApplyConfig, TakeDown, NothingToTakeDown, CreateWorker, UpdateWorker,
     QueryForUpdate, ApplyDone, ipvsVars
<1>4. CASE ApplyModel
  BY <1>4 DEF ApplyModel, IA!IPVSApplying, IA!WriteFile, IA!RunIpvsctl,
     IA!UnknownExecType, vars, applierVars
<1>5. CASE \E w \in DOMAIN worker : Work(w) \/ Watch(w) \/ Break(w)
  BY <1>5 DEF Work, Watch, Break, applierVars, ipvsVars
<1>6. CASE UNCHANGED meshVars
  BY <1>6 DEF meshVars, vars, applierVars, ipvsVars
<1> QED
  BY <1>1, <1>2, <1>3, <1>4, <1>5, <1>6 DEF MeshNext

StopsGoroutine == ApplierStops \/ IPVSApplierStops \/ WatcherStops \/ PublisherStops

LEMMA OthersKeepNotDone ==
  ASSUME WatcherSends, [DaemonNext]_daemonVars, ~ StopsGoroutine
  PROVE  NotDone' = NotDone
<1> SUFFICES SameStopped
  BY NotDoneKept
<1>1. /\ caPc' = "stopped" <=> caPc = "stopped"
      /\ apPc' = "stopped" <=> apPc = "stopped"
  <2>1. CASE [MeshNext]_meshVars
    BY <2>1, MeshKeepsStopped
  <2>2. CASE \E h \in Calls : SendStops(h)
    BY <2>2 DEF SendStops, SendStopToApplier, vars, applierVars, ipvsVars
  <2>3. CASE ApplierBegins
    BY <2>3 DEF ApplierBegins, BeginStop, ipvsVars
  <2>4. CASE DeliverConfig
    BY <2>4, DaemonStepIsMeshStep, MeshKeepsStopped DEF DeliverConfig, ReceiveConfig, ipvsVars
  <2> QED
    BY <2>1, <2>2, <2>3, <2>4
       DEF DaemonNext, DeliverPublishers, DeliverModel, FlushAndUpdate, ApplyStep,
           WorkersWork, ChangeSource, WatchConfig, EditConfig, CallStop, OnceStop, CallRuns,
           WalkList, WaitOver, AddOne, PostStop, MainRuns, LeaveStart, Exit, StopsGoroutine,
           daemonVars,
           MeshNext
<1>2. /\ cwPc' = "stopped" <=> cwPc = "stopped"
      /\ pwPc' = "stopped" <=> pwPc = "stopped"
  <2>1. CASE WatchConfig
    BY <2>1 DEF WatchConfig, CW!WatcherRuns, CW!TakeEvent, CW!BadConfig, CW!BadPublisher,
       CW!GoodConfig, CW!Poll, CW!AfterEvent, publishVars
  <2>2. CASE DeliverConfig \/ EditConfig
    BY <2>2 DEF DeliverConfig, CW!ConfigTaken, CW!AfterEvent, EditConfig, CW!Edit, publishVars
  <2>3. CASE DeliverPublishers \/ DeliverModel \/ OnceStop
    BY <2>3 DEF DeliverPublishers, PW!TakeConfig, DeliverModel, PW!TakeModel, OnceStop,
       PW!OnceTaken, watcherVars
  <2>4. CASE UNCHANGED <<watcherVars, publishVars>>
    BY <2>4 DEF watcherVars, publishVars
  <2> QED
    BY <2>1, <2>2, <2>3, <2>4
       DEF DaemonNext, FlushAndUpdate, ApplyStep, WorkersWork, ChangeSource, CallStop,
           CallRuns, WalkList, SendStops, WaitOver, AddOne, PostStop, ApplierBegins,
           MainRuns, LeaveStart, Exit,
           StopsGoroutine, daemonVars
<1> QED
  BY <1>1, <1>2 DEF SameStopped

\* A goroutine stops once, and takes itself off the counter.
LEMMA OneStops ==
  ASSUME StopsGoroutine
  PROVE  /\ Cardinality(NotDone)' = Cardinality(NotDone) - 1
         /\ daemonWg' = daemonWg - 1
         /\ UNCHANGED call
<1>1. daemonWg' = daemonWg - 1 /\ UNCHANGED call
  BY DEF StopsGoroutine, ApplierStops, IPVSApplierStops, WatcherStops, PublisherStops,
         TakeStopOf, Done
<1>2. \E r \in NotDone : NotDone' = NotDone \ {r}
  <2>1. CASE ApplierStops
    <3>1. /\ caPc = "stopping" /\ caPc' = "stopped"
          /\ UNCHANGED <<apPc, cwPc, pwPc>>
      BY <2>1 DEF ApplierStops, StopWorkers, ipvsVars, watcherVars, publishVars
    <3>2. "configApplier" \in NotDone /\ NotDone' = NotDone \ {"configApplier"}
      BY <3>1 DEF Goroutines, NotDone
    <3> QED
      BY <3>2
  <2>2. CASE IPVSApplierStops
    <3>1. /\ apPc = "select" /\ apPc' = "stopped"
          /\ UNCHANGED <<caPc, cwPc, pwPc>>
      BY <2>2 DEF IPVSApplierStops, IA!StopIPVSApplier, vars, applierVars, watcherVars,
                  publishVars
    <3>2. "ipvsApplier" \in NotDone /\ NotDone' = NotDone \ {"ipvsApplier"}
      BY <3>1 DEF Goroutines, NotDone
    <3> QED
      BY <3>2
  <2>3. CASE WatcherStops
    <3>1. /\ cwPc = "select" /\ cwPc' = "stopped"
          /\ UNCHANGED <<caPc, apPc, pwPc>>
      BY <2>3 DEF WatcherStops, CW!StopConfigWatcher, meshVars, vars, applierVars, ipvsVars,
                  publishVars
    <3>2. "configWatcher" \in NotDone /\ NotDone' = NotDone \ {"configWatcher"}
      BY <3>1 DEF Goroutines, NotDone
    <3> QED
      BY <3>2
  <2>4. CASE PublisherStops
    <3>1. /\ pwPc = "select" /\ pwPc' = "stopped"
          /\ UNCHANGED <<caPc, apPc, cwPc>>
      BY <2>4 DEF PublisherStops, PW!StopPublishWorker, meshVars, vars, applierVars, ipvsVars,
                  watcherVars
    <3>2. "publishWorker" \in NotDone /\ NotDone' = NotDone \ {"publishWorker"}
      BY <3>1 DEF Goroutines, NotDone
    <3> QED
      BY <3>2
  <2> QED
    BY <2>1, <2>2, <2>3, <2>4 DEF StopsGoroutine
<1>3. PICK r \in NotDone : NotDone' = NotDone \ {r}
  BY <1>2
<1>4. Cardinality(NotDone \ {r}) = Cardinality(NotDone) - 1
  BY FiniteNotDone, FS_RemoveElement
<1> QED
  BY <1>1, <1>3, <1>4

\* Each call counts how often it has added itself.
CallsOK ==
  /\ DOMAIN call = Calls
  /\ \A h \in Calls :
       DOMAIN call[h] = {"pc", "i", "read", "added"} /\ call[h].added \in Nat

\* The counter is the number of goroutines that have not called Done and of the Stops
\* that have added themselves.
WgCounts == daemonWg = Cardinality(NotDone) + Cardinality(EndedStops)

WgInv ==
  /\ CallsOK
  /\ IsFiniteSet(EndedStops)
  /\ WgCounts

\* Another Stop is over.
LEMMA OneMoreEnded ==
  ASSUME WgInv, NEW h \in Calls,
         call' = [call EXCEPT ![h].pc = "post", ![h].added = @ + 1]
  PROVE  /\ CallsOK' /\ IsFiniteSet(EndedStops)'
         /\ Cardinality(EndedStops)' = Cardinality(EndedStops) + 1
<1> DEFINE n == call[h].added + 1
<1>1. n \in Nat /\ call[h].added \in Nat
  BY DEF WgInv, CallsOK
<1>2. 1 .. n = (1 .. call[h].added) \cup {n} /\ n \notin 1 .. call[h].added
  BY <1>1
<1>3. call' = [call EXCEPT ![h] = [call[h] EXCEPT !.pc = "post", !.added = n]]
  OBVIOUS
<1> HIDE DEF n
<1>5. CallsOK' /\ call'[h].added = n /\ \A g \in Calls : g # h => call'[g] = call[g]
  BY <1>1, <1>3 DEF WgInv, CallsOK
<1>6. PICK new : new = <<h, n>>
  OBVIOUS
<1>7. EndedStops' = EndedStops \cup {new}
  <2>1. ASSUME NEW x \in EndedStops'
        PROVE  x \in EndedStops \cup {new}
    <3>1. PICK g \in Calls : x \in {g} \X (1 .. call'[g].added)
      BY DEF EndedStops
    <3>2. CASE g = h
      <4>1. x \in {h} \X ((1 .. call[h].added) \cup {n})
        BY <1>2, <1>5, <3>1, <3>2
      <4> QED
        BY <1>6, <4>1 DEF EndedStops
    <3>3. CASE g # h
      BY <1>5, <3>1, <3>3 DEF EndedStops
    <3> QED
      BY <3>2, <3>3
  <2>2. ASSUME NEW x \in EndedStops
        PROVE  x \in EndedStops'
    <3>1. PICK g \in Calls : x \in {g} \X (1 .. call[g].added)
      BY DEF EndedStops
    <3>2. x \in {g} \X (1 .. call'[g].added)
      <4>1. CASE g = h
        BY <1>2, <1>5, <3>1, <4>1
      <4>2. CASE g # h
        BY <1>5, <3>1, <4>2
      <4> QED
        BY <4>1, <4>2
    <3> QED
      BY <3>2 DEF EndedStops
  <2>3. new \in EndedStops'
    <3>1. new \in {h} \X (1 .. call'[h].added)
      BY <1>2, <1>5, <1>6
    <3> QED
      BY <3>1 DEF EndedStops
  <2> QED
    BY <2>1, <2>2, <2>3
<1>8. new \notin EndedStops
  <2> SUFFICES ASSUME NEW g \in Calls, new \in {g} \X (1 .. call[g].added)
               PROVE  FALSE
    BY DEF EndedStops
  <2>1. g = h /\ n \in 1 .. call[h].added
    BY <1>6
  <2> QED
    BY <1>2, <2>1
<1>9. IsFiniteSet(EndedStops)
  BY DEF WgInv
<1>10. /\ IsFiniteSet(EndedStops \cup {new})
       /\ Cardinality(EndedStops \cup {new}) = Cardinality(EndedStops) + 1
  BY <1>8, <1>9, FS_AddElement
<1> QED
  BY <1>5, <1>7, <1>10

LEMMA EndedKept ==
  ASSUME DOMAIN call' = DOMAIN call,
         \A h \in Calls : call'[h].added = call[h].added
  PROVE  EndedStops' = EndedStops
BY DEF EndedStops

\* The other steps of a Stop do not add it.
CallMoves(h) ==
  StartCall(h) \/ WalkList(h) \/ SendStops(h) \/ WaitOver(h) \/ PostStop(h)

LEMMA EndedKeptByCall ==
  ASSUME CallsOK, NEW h \in Calls, CallMoves(h)
  PROVE  CallsOK' /\ EndedStops' = EndedStops
<1>1. /\ DOMAIN call = Calls
      /\ DOMAIN call[h] = {"pc", "i", "read", "added"}
  BY DEF CallsOK
<1>2. \E c : /\ call' = [call EXCEPT ![h] = c]
             /\ DOMAIN c = DOMAIN call[h] /\ c.added = call[h].added
  <2>1. CASE StartCall(h)
    <3> DEFINE d == [call[h] EXCEPT !.i = 1]
               e == Turn(d)
    <3>1. DOMAIN d = DOMAIN call[h] /\ d.added = call[h].added
      BY <1>1
    <3>2. e = [d EXCEPT !.pc = "readRight"] \/ e = [d EXCEPT !.pc = "range", !.i = 1]
      BY DEF Turn
    <3>3. call' = [call EXCEPT ![h] = e]
      BY <2>1 DEF StartCall
    <3> HIDE DEF d, e
    <3>4. DOMAIN e = DOMAIN d /\ e.added = d.added
      BY <1>1, <3>1, <3>2
    <3> QED
      BY <3>1, <3>3, <3>4
  <2>2. CASE WriteRight(h)
    <3> DEFINE d == [call[h] EXCEPT !.i = @ + 1, !.read = <<>>]
               e == Turn(d)
    <3>1. DOMAIN d = DOMAIN call[h] /\ d.added = call[h].added
      BY <1>1
    <3>2. e = [d EXCEPT !.pc = "readRight"] \/ e = [d EXCEPT !.pc = "range", !.i = 1]
      BY DEF Turn
    <3>3. call' = [call EXCEPT ![h] = e]
      BY <2>2 DEF WriteRight
    <3> HIDE DEF d, e
    <3>4. DOMAIN e = DOMAIN d /\ e.added = d.added
      BY <1>1, <3>1, <3>2
    <3> QED
      BY <3>1, <3>3, <3>4
  <2>3. CASE ReadRight(h) \/ ReadLeft(h) \/ ReadStoppable(h)
    <3>1. PICK r, p : call' = [call EXCEPT ![h].read = r, ![h].pc = p]
      BY <2>3 DEF ReadRight, ReadLeft, ReadStoppable, ReadEntry
    <3>2. call' = [call EXCEPT ![h] = [call[h] EXCEPT !.read = r, !.pc = p]]
      BY <1>1, <3>1
    <3>3. /\ DOMAIN [call[h] EXCEPT !.read = r, !.pc = p] = DOMAIN call[h]
          /\ [call[h] EXCEPT !.read = r, !.pc = p].added = call[h].added
      BY <1>1
    <3> QED
      BY <3>2, <3>3
  <2>4. CASE WriteLeft(h) \/ WaitOver(h) \/ PostStop(h)
    <3>1. PICK p : call' = [call EXCEPT ![h].pc = p]
      BY <2>4 DEF WriteLeft, WaitOver, PostStop
    <3>2. call' = [call EXCEPT ![h] = [call[h] EXCEPT !.pc = p]]
      BY <3>1
    <3>3. /\ DOMAIN [call[h] EXCEPT !.pc = p] = DOMAIN call[h]
          /\ [call[h] EXCEPT !.pc = p].added = call[h].added
      BY <1>1
    <3> QED
      BY <3>2, <3>3
  <2>5. CASE SendStops(h)
    <3> DEFINE a == Advanced(call[h])
               j == call[h].i + 1
    <3>1. \/ a = [call[h] EXCEPT !.pc = "range", !.i = j, !.read = <<>>]
          \/ a = [call[h] EXCEPT !.pc = "wait", !.read = <<>>]
      BY DEF Advanced
    <3>2. call' = [call EXCEPT ![h] = a]
      BY <2>5 DEF SendStops
    <3> HIDE DEF a, j
    <3>3. DOMAIN a = DOMAIN call[h] /\ a.added = call[h].added
      BY <1>1, <3>1
    <3> QED
      BY <3>2, <3>3
  <2> QED
    BY <2>1, <2>2, <2>3, <2>4, <2>5 DEF CallMoves, WalkList
<1>3. PICK c : /\ call' = [call EXCEPT ![h] = c]
               /\ DOMAIN c = DOMAIN call[h] /\ c.added = call[h].added
  BY <1>2
<1>4. /\ DOMAIN call' = DOMAIN call
      /\ \A g \in Calls : DOMAIN call'[g] = DOMAIN call[g] /\ call'[g].added = call[g].added
  BY <1>1, <1>3
<1> QED
  BY <1>4, EndedKept DEF CallsOK

LEMMA WgInit == DaemonInit => WgInv
<1> SUFFICES ASSUME DaemonInit PROVE WgInv
  OBVIOUS
<1>1. CallsOK /\ \A h \in Calls : call[h].added = 0
  BY DEF DaemonInit, CallsOK
<1>2. EndedStops = {}
  <2>1. \A h \in Calls : {h} \X (1 .. call[h].added) = {}
    <3>1. 1 .. 0 = {}
      OBVIOUS
    <3> QED
      BY <1>1, <3>1
  <2> QED
    BY <2>1 DEF EndedStops
<1>3. NotDone = Goroutines
  <2>1. /\ caPc # "stopped" /\ cwPc # "stopped" /\ pwPc # "stopped" /\ apPc # "stopped"
    BY DEF DaemonInit, MeshInit, Init, IA!IPVSInit, CW!WatcherInit, PW!PublishInit
  <2> QED
    BY <2>1 DEF Goroutines, NotDone
<1>4. Cardinality(Goroutines) = 4
  <2> DEFINE A == {"configApplier"}
             B == A \cup {"configWatcher"}
             C == B \cup {"publishWorker"}
  <2>1. IsFiniteSet(A) /\ Cardinality(A) = 1
    BY FS_Singleton
  <2>2. IsFiniteSet(B) /\ Cardinality(B) = 2
    BY <2>1, FS_AddElement
  <2>3. IsFiniteSet(C) /\ Cardinality(C) = 3
    BY <2>2, FS_AddElement
  <2>4. Goroutines = C \cup {"ipvsApplier"} /\ "ipvsApplier" \notin C
    BY DEF Goroutines
  <2> HIDE DEF C
  <2> QED
    BY <2>3, <2>4, FS_AddElement
<1>5. IsFiniteSet({}) /\ Cardinality({}) = 0
  BY FS_EmptySet
<1> QED
  BY <1>1, <1>2, <1>3, <1>4, <1>5 DEF WgInv, WgCounts, DaemonInit

LEMMA WgStep ==
  ASSUME WgInv, WatcherSends, [DaemonNext]_daemonVars
  PROVE  WgInv'
<1>1. CASE StopsGoroutine
  <2>1. UNCHANGED call /\ EndedStops' = EndedStops
    BY <1>1, OneStops, EndedKept
  <2>2. daemonWg' = Cardinality(NotDone)' + Cardinality(EndedStops)
    <3>1. /\ Cardinality(NotDone) \in Nat /\ Cardinality(EndedStops) \in Nat
          /\ daemonWg = Cardinality(NotDone) + Cardinality(EndedStops)
      BY FiniteNotDone, FS_CardinalityType DEF WgInv, WgCounts
    <3> QED
      BY <1>1, <3>1, OneStops
  <2> QED
    BY <2>1, <2>2 DEF WgInv, CallsOK, WgCounts
<1>2. ASSUME NEW h \in Calls, AddOne(h)
      PROVE  WgInv'
  <2>1. NotDone' = NotDone
    <3>1. ~ StopsGoroutine
      <4>1. call[h].pc = "add" /\ call'[h].pc = "post"
        BY <1>2 DEF AddOne, WgInv, CallsOK
      <4> QED
        BY <4>1, OneStops
    <3> QED
      BY <3>1, OthersKeepNotDone
  <2>2. /\ CallsOK' /\ IsFiniteSet(EndedStops)'
        /\ Cardinality(EndedStops)' = Cardinality(EndedStops) + 1
    BY <1>2, OneMoreEnded DEF AddOne
  <2>3. daemonWg' = daemonWg + 1
    BY <1>2 DEF AddOne
  <2>4. /\ Cardinality(NotDone) \in Nat /\ Cardinality(EndedStops) \in Nat
        /\ daemonWg = Cardinality(NotDone) + Cardinality(EndedStops)
    BY FiniteNotDone, FS_CardinalityType DEF WgInv, WgCounts
  <2> QED
    BY <2>1, <2>2, <2>3, <2>4 DEF WgInv, WgCounts
<1>3. CASE ~ StopsGoroutine /\ ~ \E h \in Calls : AddOne(h)
  <2>1. NotDone' = NotDone
    BY <1>3, OthersKeepNotDone
  <2>2. UNCHANGED daemonWg /\ (UNCHANGED call \/ \E h \in Calls : CallMoves(h))
    <3>1. ASSUME NEW h \in Callers, CallStop(h)
          PROVE  UNCHANGED daemonWg /\ \E g \in Calls : CallMoves(g)
      BY <3>1 DEF CallStop, StartCall, CallMoves, Calls
    <3>2. CASE OnceStop
      BY <3>2 DEF OnceStop, StartCall, CallMoves, Calls
    <3>3. ASSUME NEW h \in Calls, WalkList(h) \/ SendStops(h) \/ WaitOver(h) \/ PostStop(h)
          PROVE  UNCHANGED daemonWg /\ CallMoves(h)
      BY <3>3 DEF WalkList, SendStops, WaitOver, PostStop, CallMoves
    <3> QED
      BY <1>3, <3>1, <3>2, <3>3
         DEF DaemonNext, DeliverConfig, DeliverPublishers, DeliverModel, FlushAndUpdate,
             ApplyStep, WorkersWork, ChangeSource, WatchConfig, EditConfig, CallRuns,
             ApplierBegins, MainRuns, LeaveStart, Exit, StopsGoroutine, daemonVars, stopVars
  <2>3. CallsOK' /\ EndedStops' = EndedStops
    BY <2>2, EndedKept, EndedKeptByCall DEF WgInv, CallsOK
  <2> QED
    BY <2>1, <2>2, <2>3 DEF WgInv, WgCounts
<1> QED
  BY <1>1, <1>2, <1>3

\* No Stop goes on because the counter is zero while a goroutine still runs, and the
\* counter does not become negative: each wg.Done() and each wg.Add(1) of daemon.go:59-86
\* is accounted for, whatever the number of callers and whatever the list of stoppables
\* has become.
THEOREM WaitAlwaysEndsAfterAll == DaemonSpec => []WaitEndsAfterAll
<1> USE DEF DaemonSpec
<1>1. WgInv /\ DaemonInv /\ [DaemonNext]_daemonVars => WgInv'
  BY WgStep DEF DaemonInv
<1>2. WgInv => WaitEndsAfterAll
  <2> SUFFICES ASSUME WgInv PROVE WaitEndsAfterAll
    OBVIOUS
  <2>1. /\ IsFiniteSet(NotDone)
        /\ Cardinality(NotDone) \in Nat /\ Cardinality(EndedStops) \in Nat
        /\ daemonWg = Cardinality(NotDone) + Cardinality(EndedStops)
    BY FiniteNotDone, FS_CardinalityType DEF WgInv, WgCounts
  <2>2. daemonWg >= 0 /\ (daemonWg = 0 => Cardinality(NotDone) = 0)
    BY <2>1
  <2>3. Cardinality(NotDone) = 0 => NotDone = {}
    BY <2>1, FS_EmptySet
  <2>4. Running \subseteq NotDone
    BY DEF Running, NotDone, Goroutines
  <2> QED
    BY <2>2, <2>3, <2>4 DEF WaitEndsAfterAll, AllStopped
<1> QED
  BY <1>1, <1>2, WgInit, DaemonInvariant, PTL

=============================================================================
