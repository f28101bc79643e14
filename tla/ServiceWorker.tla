---------------------------- MODULE ServiceWorker ----------------------------
(***************************************************************************)
(* daemon/serviceworker.go: the goroutine that serves one service of the   *)
(* configuration, together with the notification loop its plugin runs      *)
(* beside it (plugins/*/RunNotificationLoop).                              *)
(*                                                                         *)
(* A worker queries its plugin, forwards what it got to the IPVS applier   *)
(* over an unbuffered channel, then waits for a notification or for a stop *)
(* token.  All workers share ONE stop channel of capacity 1 (the field     *)
(* scWorkers of the config applier), so a token reaches any of them.       *)
(*                                                                         *)
(* Workers are numbered in the order of their creation; worker[w] is the   *)
(* goroutine, loop[w] the notification loop it started.                    *)
(***************************************************************************)
EXTENDS Integers, Sequences, FiniteSets

CONSTANTS
  Service,      \* service objects: records with (at least) a name and a src
  Config,       \* configurations: records with globals and a sequence services
  Sources,      \* what plugins look at: a data file, the containers, the sockets
  Kind,         \* the plugin type of a source: "file", "docker" or "socket"
  Data,         \* lists of backend servers
  Content,      \* Content[src][v]: the backends of src after v changes, as the worker
                \* forwards them: sorted by address (module Plugins sorts them)
  NoBackends,   \* the empty list
  NoUpdate,     \* no message
  MaxChanges,   \* bound: changes of each source
  ReadsFail,    \* whether a plugin query may fail
  StreamsBreak  \* whether the event stream of docker may break

ASSUME WorkerAssumption ==
  /\ \A s \in Service : s.src \in Sources
  /\ Kind \in [Sources -> {"file", "docker", "socket"}]
  /\ MaxChanges \in Nat
  /\ Content \in [Sources -> [0 .. MaxChanges -> Data]]
  /\ NoBackends \in Data
  /\ {ReadsFail, StreamsBreak} \subseteq BOOLEAN

VARIABLES
  ver,        \* ver[src]: how often the source has changed so far
  worker,     \* sequence of service workers, in order of creation
  loop,       \* sequence of their notification loops
  scWorkers,  \* stop tokens in the shared stop channel
  wg          \* the WaitGroup counter of the config applier

workerVars == <<ver, worker, loop, scWorkers, wg>>

-----------------------------------------------------------------------------
Unseen == -1

\* IPVSApplierUpdateStruct; its serviceName is the name of its service.
Update == [service : Service, data : Data, cfg : Config]

WorkerState ==
  [pc      : {"query", "build", "send", "start", "select", "quit", "done"},
   service : Service,               \* the service pointer
   cfg     : Config,                \* the configuration it was created with
   data    : Data,                  \* read from the plugin, not yet forwarded
   out     : Update \cup {NoUpdate}]  \* blocked on the channel to the applier

LoopState ==
  [pc    : {"none", "watch", "notify", "dead", "done"},
   src   : Sources,                 \* what the plugin it was started on watches
   seen  : {Unseen} \cup (0 .. MaxChanges),
   own   : BOOLEAN,                 \* that plugin still is the service's plugin
   pings : Nat]                     \* goroutines blocked on notChan (docker)

WorkerTypeOK ==
  /\ ver \in [Sources -> 0 .. MaxChanges]
  /\ worker \in Seq(WorkerState)
  /\ loop \in Seq(LoopState)
  /\ Len(loop) = Len(worker)
  /\ scWorkers \in 0 .. 1
  /\ wg \in Int

WorkerInit ==
  /\ ver = [src \in Sources |-> 0]
  /\ worker = <<>>
  /\ loop = <<>>
  /\ scWorkers = 0
  /\ wg = 0

NewWorker(cfg, service) ==
  [pc |-> "query", service |-> service, cfg |-> cfg,
   data |-> NoBackends, out |-> NoUpdate]

NewLoop(service) ==
  [pc |-> "none", src |-> service.src, seen |-> Unseen, own |-> FALSE, pings |-> 0]

\* The socket plugin answers from lastListeners, which only its own loop fills in.
LastListeners(w) ==
  IF loop[w].own /\ loop[w].seen # Unseen
  THEN Content[worker[w].service.src][loop[w].seen]
  ELSE NoBackends

\* What GetDownwardData returns for the service worker w points to.  The file and
\* docker plugins look at their source, and answer nothing when that fails.
GetDownwardData(w) ==
  LET src == worker[w].service.src IN
  IF Kind[src] = "socket"
  THEN {LastListeners(w)}
  ELSE {Content[src][ver[src]]} \cup {d \in {NoBackends} : ReadsFail}

Live(w) == worker[w].pc \notin {"quit", "done"}
LiveWorkers == {w \in DOMAIN worker : Live(w)}

-----------------------------------------------------------------------------
(***************************************************************************)
(* The worker goroutine                                                    *)
(***************************************************************************)
\* p.GetDownwardData and sort.Sort(byAddress(data)), which gives Content its order
QueryData(w) ==
  /\ worker[w].pc = "query"
  /\ \E d \in GetDownwardData(w) :
       worker' = [worker EXCEPT ![w].pc = "build", ![w].data = d]
  /\ UNCHANGED <<ver, loop, scWorkers, wg>>

\* The message takes the service pointer again: it may have changed since.
BuildUpdate(w) ==
  /\ worker[w].pc = "build"
  /\ worker' = [worker EXCEPT
       ![w].pc = "send",
       ![w].data = NoBackends,
       ![w].out = [service |-> worker[w].service, data |-> worker[w].data,
                   cfg |-> worker[w].cfg]]
  /\ UNCHANGED <<ver, loop, scWorkers, wg>>

\* The IPVS applier receives the message.
WorkerSent(w) ==
  /\ worker[w].pc = "send"
  /\ worker' = [worker EXCEPT
       ![w].pc = IF loop[w].pc = "none" THEN "start" ELSE "select",
       ![w].out = NoUpdate]
  /\ UNCHANGED <<ver, loop, scWorkers, wg>>

\* go p.RunNotificationLoop on the plugin of the moment.  The file plugin has
\* lastModTime zero, the socket plugin no listeners; docker subscribes to the
\* events from now on.
StartLoop(w) ==
  LET src == worker[w].service.src IN
  /\ worker[w].pc = "start"
  /\ worker' = [worker EXCEPT ![w].pc = "select"]
  /\ loop' = [loop EXCEPT ![w] =
       [pc |-> "watch", src |-> src, own |-> TRUE, pings |-> 0,
        seen |-> IF Kind[src] = "docker" THEN ver[src] ELSE Unseen]]
  /\ UNCHANGED <<ver, scWorkers, wg>>

\* Mutant: the token is taken, but nobody calls wg.Done().
TakeStop_NoDone(w) ==
  /\ worker[w].pc = "select"
  /\ scWorkers > 0
  /\ scWorkers' = scWorkers - 1
  /\ worker' = [worker EXCEPT ![w].pc = "quit"]
  /\ UNCHANGED <<ver, loop, wg>>

\* Mutant: it waits for a stop on a channel of its own, on which nobody sends.
TakeStop_OwnChannel(w) ==
  /\ worker[w].pc = "select"
  /\ FALSE
  /\ UNCHANGED workerVars

\* Mutant: the loop returns only once no ping is outstanding.
Quit_AfterPings(w) ==
  /\ worker[w].pc = "quit"
  /\ loop[w].pc = "watch"
  /\ loop[w].pings = 0
  /\ worker' = [worker EXCEPT ![w].pc = "done"]
  /\ loop' = [loop EXCEPT ![w].pc = "done"]
  /\ UNCHANGED <<ver, scWorkers, wg>>

\* case <-updateCh, sent by the loop itself or by a goroutine it spawned.
Notified(w) ==
  /\ worker[w].pc = "select"
  /\ \/ /\ loop[w].pc = "notify"
        /\ loop' = [loop EXCEPT ![w].pc = "watch"]
     \/ /\ loop[w].pings > 0
        /\ loop' = [loop EXCEPT ![w].pings = @ - 1]
  /\ worker' = [worker EXCEPT ![w].pc = "query"]
  /\ UNCHANGED <<ver, scWorkers, wg>>

\* case wg := <-*s.StopChan: the token, wg.Done(), then quitCh <- struct{}{}.
TakeStop(w) ==
  /\ worker[w].pc = "select"
  /\ scWorkers > 0
  /\ scWorkers' = scWorkers - 1
  /\ wg' = wg - 1
  /\ worker' = [worker EXCEPT ![w].pc = "quit"]
  /\ UNCHANGED <<ver, loop>>

\* The loop takes the quit signal only in its select.
Quit(w) ==
  /\ worker[w].pc = "quit"
  /\ loop[w].pc = "watch"
  /\ worker' = [worker EXCEPT ![w].pc = "done"]
  /\ loop' = [loop EXCEPT ![w].pc = "done"]
  /\ UNCHANGED <<ver, scWorkers, wg>>

-----------------------------------------------------------------------------
(***************************************************************************)
(* The notification loop                                                   *)
(***************************************************************************)
\* Mutant: a notification that finds the worker busy is dropped.
FileChanged_Drops(w) ==
  /\ loop[w].pc = "watch"
  /\ Kind[loop[w].src] = "file"
  /\ loop[w].seen < ver[loop[w].src]
  /\ loop' = [loop EXCEPT
       ![w].pc = IF worker[w].pc = "select" THEN "notify" ELSE "watch",
       ![w].seen = ver[loop[w].src]]
  /\ UNCHANGED <<ver, worker, scWorkers, wg>>

\* File: the modification time has advanced; blocks in notChan <- struct{}{}.
FileChanged(w) ==
  /\ loop[w].pc = "watch"
  /\ Kind[loop[w].src] = "file"
  /\ loop[w].seen < ver[loop[w].src]
  /\ loop' = [loop EXCEPT ![w].pc = "notify", ![w].seen = ver[loop[w].src]]
  /\ UNCHANGED <<ver, worker, scWorkers, wg>>

\* Mutant: lastListeners is not brought up to date.
ListenersChanged_Forgets(w) ==
  /\ loop[w].pc = "watch"
  /\ Kind[loop[w].src] = "socket"
  /\ loop[w].seen # ver[loop[w].src]
  /\ loop' = [loop EXCEPT ![w].pc = "notify"]
  /\ UNCHANGED <<ver, worker, scWorkers, wg>>

\* Socket: the list of all listeners differs from lastListeners.
ListenersChanged(w) ==
  /\ loop[w].pc = "watch"
  /\ Kind[loop[w].src] = "socket"
  /\ loop[w].seen # ver[loop[w].src]
  /\ loop' = [loop EXCEPT ![w].pc = "notify", ![w].seen = ver[loop[w].src]]
  /\ UNCHANGED <<ver, worker, scWorkers, wg>>

\* Docker: each event spawns a goroutine that pings after 50 ms.
DockerEvent(w) ==
  /\ loop[w].pc = "watch"
  /\ Kind[loop[w].src] = "docker"
  /\ loop[w].seen < ver[loop[w].src]
  /\ loop' = [loop EXCEPT ![w].seen = @ + 1, ![w].pings = @ + 1]
  /\ UNCHANGED <<ver, worker, scWorkers, wg>>

\* case err := <-errs: the loop returns, without telling its worker.
StreamBroken(w) ==
  /\ StreamsBreak
  /\ loop[w].pc = "watch"
  /\ Kind[loop[w].src] = "docker"
  /\ loop' = [loop EXCEPT ![w].pc = "dead"]
  /\ UNCHANGED <<ver, worker, scWorkers, wg>>

\* A stopped worker and its loop that wait for each other, for ever: the worker sends on
\* quitCh, while the loop is notifying it, or has returned.
Stuck(w) == worker[w].pc = "quit" /\ loop[w].pc \in {"notify", "dead"}

\* The environment: somebody edits the file, starts a container, opens a port.
SourceChanges(src) ==
  /\ ver[src] < MaxChanges
  /\ ver' = [ver EXCEPT ![src] = @ + 1]
  /\ UNCHANGED <<worker, loop, scWorkers, wg>>

\* The steps of the worker goroutine that need no IPVS applier, those of the
\* loop's goroutine, and both.
WorkerRuns(w) ==
  \/ QueryData(w) \/ BuildUpdate(w) \/ StartLoop(w)
  \/ Notified(w) \/ TakeStop(w) \/ Quit(w)

LoopRuns(w) == FileChanged(w) \/ ListenersChanged(w) \/ DockerEvent(w)

WorkerStep(w) == WorkerRuns(w) \/ LoopRuns(w) \/ StreamBroken(w)

=============================================================================
