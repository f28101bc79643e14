-------------------------------- MODULE Daemon --------------------------------
(***************************************************************************)
(* The whole daemon: the config watcher and the publish worker join the    *)
(* goroutines of Mesh, and daemon/daemon.go stops them.  Service.Stop runs *)
(* once for every call of the client and, with --once, on the goroutine    *)
(* that receives from onceCh (cmd/daemon.go:154-162); the main goroutine   *)
(* leaves Service.Start when a Stop is over or a signal arrives.           *)
(***************************************************************************)
EXTENDS Mesh

CONSTANTS
  Publisher, Document, NoFile, AtStart, MaxTime, Ticks, Once,
  Callers,   \* clients that call Stop, once each
  Signals,   \* whether SIGTERM or SIGINT may arrive
  TimesOut   \* whether DefaultTimeout may elapse while Stop waits

VARIABLES
  doc, mtime, polled, event, trigger, cwPc, found, lastModTime, cwOut,
  pwPc, pwCfg, publisherSpecs,
  registered,   \* registeredStoppables
  stopChan,     \* the full stop channels (that of the config applier: stopToken)
  daemonWg,     \* the counter of Service.wg
  call,         \* the calls of Stop: where each is, its index into the list, what it has
                \* read there, and how often it has called s.wg.Add(1)
  mainToken,    \* the stop channel of the Service itself is full
  mainPc        \* "serving", "stopping" (GracefulStop) or "exited"

CW == INSTANCE ConfigWatcher WITH delivered <- cfg
PW == INSTANCE PublishWorker

ASSUME DaemonAssumption ==
  /\ "once" \notin Callers
  /\ {Signals, TimesOut} \subseteq BOOLEAN
  /\ \A d \in Document \cup AtStart : d # NoFile => d.cfg \in Config
  /\ PW!PublisherAssumption

watcherVars == <<doc, mtime, polled, event, trigger, cwPc, found, lastModTime, cwOut>>
publishVars == <<pwPc, pwCfg, publisherSpecs>>
stopVars == <<registered, stopChan, daemonWg, call, mainToken, mainPc>>
daemonVars == <<meshVars, watcherVars, publishVars, stopVars>>

Goroutines == {"configApplier", "configWatcher", "publishWorker", "ipvsApplier"}
Calls == Callers \cup {"once"}

DaemonInit ==
  /\ MeshInit
  /\ CW!WatcherInit
  /\ PW!PublishInit
  /\ registered = <<"configApplier", "configWatcher", "publishWorker", "ipvsApplier">>
  /\ stopChan = {}
  /\ daemonWg = 4
  /\ call = [h \in Calls |-> [pc |-> "idle", i |-> 1, read |-> <<>>, added |-> 0]]
  /\ mainToken = FALSE
  /\ mainPc = "serving"

-----------------------------------------------------------------------------
(***************************************************************************)
(* The goroutines at work                                                  *)
(***************************************************************************)
\* configUpdateCh
DeliverConfig ==
  /\ CW!ConfigTaken
  /\ ReceiveConfig(cwOut)
  /\ UNCHANGED <<ipvsVars, publishVars, stopVars>>

\* publisherConfigUpdateCh and publisherUpdateCh
DeliverPublishers ==
  PublishConfig /\ PW!TakeConfig(cfg) /\ UNCHANGED <<watcherVars, stopVars>>
DeliverModel == PublishModel /\ PW!TakeModel /\ UNCHANGED <<watcherVars, stopVars>>

FlushAndUpdate ==
  (FlushCache \/ ForwardUpdate) /\ UNCHANGED <<watcherVars, publishVars, stopVars>>
ApplyStep ==
  (ApplyConfig \/ ApplyModel) /\ UNCHANGED <<watcherVars, publishVars, stopVars>>

WorkersWork ==
  /\ \E w \in DOMAIN worker : ForwardData(w) \/ Work(w) \/ Watch(w) \/ Break(w)
  /\ UNCHANGED <<watcherVars, publishVars, stopVars>>

WatchConfig ==
  (CW!WatcherRuns \/ CW!Poll) /\ UNCHANGED <<meshVars, publishVars, stopVars>>

\* The environment
EditConfig ==
  \E d \in Document : CW!Edit(d) /\ UNCHANGED <<meshVars, publishVars, stopVars>>
ChangeSource == Change /\ UNCHANGED <<watcherVars, publishVars, stopVars>>

-----------------------------------------------------------------------------
(***************************************************************************)
(* Service.Stop                                                            *)
(***************************************************************************)
\* Every call reverses the list again, in place and without a lock: it swaps the two
\* ends and goes inwards.  The swap reads both entries before it writes one; another
\* call may come between any two of these steps.
Mirror(i) == Len(registered) + 1 - i

\* The next pair, or on to the range
Turn(c) ==
  IF c.i < Mirror(c.i) THEN [c EXCEPT !.pc = "readRight"]
                       ELSE [c EXCEPT !.pc = "range", !.i = 1]

StartCall(h) ==
  /\ call' = [call EXCEPT ![h] = Turn([call[h] EXCEPT !.i = 1])]
  /\ UNCHANGED <<registered, stopChan, daemonWg, mainToken, mainPc>>

CallStop(h) ==
  /\ mainPc = "serving"
  /\ call[h].pc = "idle"
  /\ StartCall(h)
  /\ UNCHANGED <<meshVars, watcherVars, publishVars>>

\* case <-onceCh
OnceStop ==
  /\ PW!OnceTaken
  /\ call["once"].pc \in {"idle", "done"}
  /\ StartCall("once")
  /\ UNCHANGED <<meshVars, watcherVars>>

ReadEntry(h, i, next) ==
  /\ call' = [call EXCEPT ![h].read = Append(@, registered[i]), ![h].pc = next]
  /\ UNCHANGED registered

ReadRight(h) == call[h].pc = "readRight" /\ ReadEntry(h, Mirror(call[h].i), "readLeft")
ReadLeft(h)  == call[h].pc = "readLeft" /\ ReadEntry(h, call[h].i, "writeLeft")

WriteLeft(h) ==
  /\ call[h].pc = "writeLeft"
  /\ registered' = [registered EXCEPT ![call[h].i] = call[h].read[1]]
  /\ call' = [call EXCEPT ![h].pc = "writeRight"]

WriteRight(h) ==
  /\ call[h].pc = "writeRight"
  /\ registered' = [registered EXCEPT ![Mirror(call[h].i)] = call[h].read[2]]
  /\ call' = [call EXCEPT ![h] = Turn([call[h] EXCEPT !.i = @ + 1, !.read = <<>>])]

\* for _, r := range: the list is read anew for every r.
ReadStoppable(h) == call[h].pc = "range" /\ ReadEntry(h, call[h].i, "send")

WalkList(h) ==
  /\ ReadRight(h) \/ ReadLeft(h) \/ WriteLeft(h) \/ WriteRight(h) \/ ReadStoppable(h)
  /\ UNCHANGED <<meshVars, watcherVars, publishVars, stopChan, daemonWg, mainToken, mainPc>>

\* Mutant: the range ends one early.
Advanced_OneEarly(c) ==
  IF c.i < Len(registered) - 1
  THEN [c EXCEPT !.pc = "range", !.i = @ + 1, !.read = <<>>]
  ELSE [c EXCEPT !.pc = "wait", !.read = <<>>]

Advanced(c) ==
  IF c.i < Len(registered)
  THEN [c EXCEPT !.pc = "range", !.i = @ + 1, !.read = <<>>]
  ELSE [c EXCEPT !.pc = "wait", !.read = <<>>]

\* *r.StopChan <- &s.wg, which blocks while the channel of this r is full.
SendStops(h) ==
  LET r == call[h].read[1] IN
  /\ call[h].pc = "send"
  /\ \/ r = "configApplier" /\ SendStopToApplier /\ UNCHANGED stopChan
     \/ /\ r # "configApplier"
        /\ r \notin stopChan
        /\ stopChan' = stopChan \cup {r}
        /\ UNCHANGED vars
  /\ call' = [call EXCEPT ![h] = Advanced(@)]
  /\ UNCHANGED <<ipvsVars, watcherVars, publishVars, registered, daemonWg, mainToken, mainPc>>

\* The counter has come down to zero, or the time is up.
WaitOver(h) ==
  /\ call[h].pc = "wait"
  /\ daemonWg = 0 \/ TimesOut
  /\ call' = [call EXCEPT ![h].pc = "add"]
  /\ UNCHANGED <<meshVars, watcherVars, publishVars, registered, stopChan, daemonWg, mainToken,
                 mainPc>>

\* s.wg.Add(1)
AddOne(h) ==
  /\ call[h].pc = "add"
  /\ daemonWg' = daemonWg + 1
  /\ call' = [call EXCEPT ![h].pc = "post", ![h].added = @ + 1]
  /\ UNCHANGED <<meshVars, watcherVars, publishVars, registered, stopChan, mainToken, mainPc>>

\* *s.StopChan <- &s.wg
PostStop(h) ==
  /\ call[h].pc = "post"
  /\ ~ mainToken
  /\ mainToken' = TRUE
  /\ call' = [call EXCEPT ![h].pc = "done"]
  /\ UNCHANGED <<meshVars, watcherVars, publishVars, registered, stopChan, daemonWg, mainPc>>

CallRuns(h) == WalkList(h) \/ SendStops(h) \/ WaitOver(h) \/ AddOne(h) \/ PostStop(h)

-----------------------------------------------------------------------------
(***************************************************************************)
(* The goroutines stop                                                     *)
(***************************************************************************)
ApplierBegins ==
  BeginStop /\ UNCHANGED <<ipvsVars, watcherVars, publishVars, stopVars>>

Done == daemonWg' = daemonWg - 1

\* Mutant: wg.Done() is called on the way into and out of the walk.
ApplierStops_DoneTwice ==
  /\ StopWorkers
  /\ daemonWg' = daemonWg - 2
  /\ UNCHANGED <<ipvsVars, watcherVars, publishVars, registered, stopChan, call, mainToken, mainPc>>

ApplierStops ==
  /\ StopWorkers
  /\ Done
  /\ UNCHANGED <<ipvsVars, watcherVars, publishVars, registered, stopChan, call, mainToken, mainPc>>

TakeStopOf(r) ==
  /\ r \in stopChan
  /\ stopChan' = stopChan \ {r}
  /\ Done
  /\ UNCHANGED <<registered, call, mainToken, mainPc>>

IPVSApplierStops ==
  TakeStopOf("ipvsApplier") /\ IA!StopIPVSApplier /\ UNCHANGED <<vars, watcherVars, publishVars>>
WatcherStops ==
  TakeStopOf("configWatcher") /\ CW!StopConfigWatcher /\ UNCHANGED <<meshVars, publishVars>>
PublisherStops ==
  TakeStopOf("publishWorker") /\ PW!StopPublishWorker /\ UNCHANGED <<meshVars, watcherVars>>

-----------------------------------------------------------------------------
(***************************************************************************)
(* The main goroutine                                                      *)
(***************************************************************************)
\* The select at the end of Service.Start
LeaveStart ==
  /\ mainPc = "serving"
  /\ \/ mainToken /\ mainToken' = FALSE
     \/ Signals /\ UNCHANGED mainToken
  /\ mainPc' = "stopping"
  /\ UNCHANGED <<meshVars, watcherVars, publishVars, registered, stopChan, daemonWg, call>>

\* GracefulStop waits for the calls of the clients.
Exit ==
  /\ mainPc = "stopping"
  /\ \A h \in Callers : call[h].pc \in {"idle", "done"}
  /\ mainPc' = "exited"
  /\ UNCHANGED <<meshVars, watcherVars, publishVars, registered, stopChan, daemonWg, call, mainToken>>

MainRuns == LeaveStart \/ Exit

\* A panic ends the process as well.
Alive == mainPc # "exited" /\ cwPc # "panic"

DaemonNext ==
  /\ Alive
  /\ \/ DeliverConfig \/ DeliverPublishers \/ DeliverModel
     \/ FlushAndUpdate \/ ApplyStep \/ WorkersWork \/ WatchConfig
     \/ EditConfig \/ ChangeSource
     \/ \E h \in Callers : CallStop(h)
     \/ OnceStop
     \/ \E h \in Calls : CallRuns(h)
     \/ ApplierBegins \/ ApplierStops
     \/ IPVSApplierStops \/ WatcherStops \/ PublisherStops
     \/ MainRuns

\* Every goroutine runs, the environment need not.
DaemonFairness ==
  /\ WF_daemonVars(Alive /\ DeliverConfig)
  /\ WF_daemonVars(Alive /\ DeliverPublishers)
  /\ WF_daemonVars(Alive /\ DeliverModel)
  /\ WF_daemonVars(Alive /\ FlushAndUpdate)
  /\ WF_daemonVars(Alive /\ ApplyStep)
  /\ WF_daemonVars(Alive /\ WorkersWork)
  /\ WF_daemonVars(Alive /\ WatchConfig)
  /\ WF_daemonVars(Alive /\ OnceStop)
  /\ \A h \in Calls : WF_daemonVars(Alive /\ CallRuns(h))
  /\ WF_daemonVars(Alive /\ (ApplierBegins \/ ApplierStops))
  /\ WF_daemonVars(Alive /\ IPVSApplierStops)
  /\ WF_daemonVars(Alive /\ WatcherStops)
  /\ WF_daemonVars(Alive /\ PublisherStops)
  /\ WF_daemonVars(Alive /\ ((mainToken /\ LeaveStart) \/ Exit))

DaemonSpec == DaemonInit /\ [][DaemonNext]_daemonVars
DaemonFairSpec == DaemonSpec /\ DaemonFairness

-----------------------------------------------------------------------------
(***************************************************************************)
(* Properties                                                              *)
(***************************************************************************)
\* The goroutines that have not returned.  With --once the watcher returns without a
\* wg.Done().
Running ==
  {r \in Goroutines :
     CASE r = "configApplier" -> caPc # "stopped"
       [] r = "configWatcher" -> cwPc \notin {"stopped", "returned"}
       [] r = "publishWorker" -> pwPc # "stopped"
       [] r = "ipvsApplier"   -> apPc # "stopped"}
AllStopped == Running = {}

\* A Stop that goes on because the counter is zero, and not because its time is up, goes
\* on when no goroutine runs any more, and no wg.Done() brings the counter below zero,
\* which would be a panic: however many Stops overlap or follow each other, and whatever
\* entries their reversals double or lose (daemon.go:53-75, 86).
WaitEndsAfterAll == daemonWg >= 0 /\ (daemonWg = 0 => AllStopped)

\* The publishers are those of the configuration that the worker was sent last.
PublishersMatch == PW!SpecsMatchConfig

\* A daemon with nothing to do, whose sources and file do not change any more
QuietDaemon ==
  /\ Quiet
  /\ mtime = MaxTime /\ \A src \in Sources : ver[src] = MaxChanges
  /\ cwPc = "select" /\ ~ trigger /\ ~ event /\ polled = mtime
  /\ pwPc = "select"

\* Stop has been called and has not done anything yet.
Called(h) == call[h].pc = "readRight" /\ call[h].i = 1

\* When Stop finds the daemon with nothing to do, all goroutines stop and then the
\* daemon ends, without the help of the timeout (daemon.go:47-76, 145-153).
QuietStopsClean ==
  \A h \in Callers :
    (Called(h) /\ QuietDaemon)
      ~> (AllStopped /\ mainPc = "exited")

\* A Stop ends the daemon (cmd/daemon.go:206, daemon.go:75-76, 145-153).
StopExits == \A h \in Callers : Called(h) ~> mainPc = "exited"

\* Every Stop stops all of them, at any time (daemon.go:47).
StopStopsAll == \A h \in Callers : Called(h) ~> AllStopped

\* With --once the daemon ends by itself (cmd/daemon.go:34).
OnceExits == Once => <>(mainPc = "exited")

\* ... after a cycle that integrated all services (cmd/daemon.go:34).
OnceAppliesAll == Once /\ apPc = "stopped" => cfg # NoConfig /\ Names \subseteq DOMAIN services

=============================================================================
