# ipvsmesh in TLA+

A verification development for [ipvsmesh](../src/README.md), the daemon that keeps the IPVS table of a
host in step with docker containers, local listeners and data files. It models the goroutines of the
daemon, the channels between them, the data the plugins read and the socket file that keeps two daemons
apart, checks them with TLC on small instances, and proves with TLAPS, for every instance, the safety
invariants of all components, and that the composed models implement their parts.

Line numbers below are those of `src/`.

## 1. Inventory

### Components

| Component | Source | State it keeps | Operations |
|---|---|---|---|
| Config watcher | `daemon/configwatcher.go` | `lastModTime` | take an event of the file watcher, `os.Stat`, `readConfig`, send, stop |
| Config applier | `daemon/configapplier.go` | the configuration, the WaitGroup of its workers, the stop channel `scWorkers` | `Worker`, `applyServices`, `applyService`, stop |
| Service workers | `daemon/serviceworker.go` | service pointer, configuration pointer, global list of active workers | `Worker`, `queryAndProcessDownwardData`, `Update`, lookup by name |
| Notification loops | `plugins/*/`: `RunNotificationLoop`, `GetDownwardData` | last modification time, last listeners, event subscription | notice a change, notify, quit |
| IPVS applier | `daemon/ipvsapplier.go` | the configuration, the cache `services`; file and kernel table outside | `integrateUpdate`, `applyUpdate`, flush, stop |
| Publish worker | `daemon/publishworker.go` | the configuration, `publisherSpecs` | take a configuration, take a model, `--once`, stop |
| Daemon service | `daemon/daemon.go`, `cmd/daemon.go` | `registeredStoppables`, a WaitGroup, its own stop channel; the socket file | `Register`, `Stop`, `Start`; `DaemonStart`, `DaemonStop` |
| Plugin selection | `plugins/plugins.go` | none | type name to plugin spec |
| Data of the plugins | `plugins/*/`: `GetDownwardData`, `socket-front-proxy/procnet.go` | none of their own | parse data files and `/proc/net`, filter, default and dynamic weights |
| Command line, configuration, RPC, logging | `ipvsmesh.go`, `cmd/genkey.go`, `config/`, `localinterface/`, `logging/` | none that outlives a call | |

### How they interact

```
 file --event--> config watcher --configUpdateCh--> config applier --publisherConfigUpdateCh--> publish worker
                                                     |   |  scWorkers (1 slot, shared)               ^   |
                                                     |   +----------------> service workers          |   | onceCh
                                       ipvsUpdateCh  |    Update(): swaps     |  ^ notChan           |   v
                                                     v    the service         |  | quitCh            |  Service.Stop
                                               IPVS applier <--ipvsUpdateCh---+  v                   |
                                                     |                        notification loops     |
                                                     +------ publisherUpdateCh ----------------------+
```

All channels but the stop channels are unbuffered: a sender is blocked until its receiver is at its
`select`. Every stop channel holds one token; the workers of the config applier share one. `Update`
runs on the goroutine of the config applier and writes the service pointer that the worker's own
goroutine reads, without a lock.

### What is hard, and what makes each part correct

* **Config applier and workers.** One shared stop channel, a list changed while it is walked, a
  WaitGroup, reloads while workers are in any state. Correct: WaitGroup, list and stops in flight
  stay consistent; no name gets two workers; an applied configuration has a worker for each of its
  services; the applier never hangs.
* **Workers and loops.** Each may be blocked on the other (`quitCh` against `notChan`), changes happen
  between a query and the next, two goroutines read one source. Correct: a change is not lost, a
  stopped worker gets rid of its loop, unless the two have blocked each other.
* **Data of the plugins.** Text and JSON files with lines that may be bad, weights for which -1, 0 and
  a number mean three things, labels, byte orders, bounds of ranges, prefixes of networks; a sort that
  need not keep the order of equal addresses; files that go away and come back under a library that
  watches them. Correct: a worker ends up with exactly what the source says, each backend once, sorted.
* **IPVS applier.** One cache for updates from all workers, rebuilt for every update in the order of a
  Go map, with a variable that carries over; two external calls that can fail, and fail half-way.
  Correct: each service in the model as its own update asks, installed or an error; ipvsctl never gets
  an older model or half a file.
* **Data path as a whole.** Flush, stale updates in flight, reloads. Correct: when nothing is under
  way, cache = configuration and sources, table = cache; work comes to an end.
* **Config watcher.** The file changes between event, stat, read and the blocked send. Correct: the
  last good content arrives.
* **Daemon service.** Stop sends to goroutines that send to each other, with a timeout, several times
  at once, by `--once`, by signals; each Stop reverses the list of goroutines in place. Correct: a Stop
  whose wait is over has waited for all goroutines; a stop stops everything; the daemon exits.
* **Socket file.** It is the only thing that keeps daemons apart: looked up, made and removed by
  different goroutines of several processes, any of which may be killed. Correct: a daemon that listens
  can be reached, no file is left behind, the losers of a race go away.

The hazards, each at its line, are in `PROJECT.json`.

## 2. Plan

1. `ServiceWorker`, `ConfigApplier`, abstract `WorkerPool`, proofs of the invariants *(done)*
2. `IPVSApplier`, then `Mesh` = config applier + workers + loops + IPVS applier *(done)*
3. `ConfigWatcher`, `PublishWorker`, then `Daemon` = everything + `Service.Stop` *(done)*
4. The plugins' data as operators, `ProxyFromFile`, `DockerFrontProxy`, `SocketFrontProxy`, then
   `Plugins` = data + notification loop + worker *(done)*
5. `SocketFile`: several daemons starting, stopping and dying around one socket file; removal of the
   configuration and data files *(done)*
6. An abstract specification of the data path, `Follower`, implemented by `Mesh` without reloads
   *(done)*. With reloads the code does not implement it (section 7).
7. *Proofs:* the invariants of `ConfigApplier`, `ConfigWatcher`, `PublishWorker`, `SocketFile`,
   `IPVSApplier`, `Mesh` and `Daemon`; that `Mesh` and `Daemon` implement their parts; the safety part of
   `Follower`; of `Plugins` that a worker at rest has what its plugin gives, and that this is what the
   source says *(done)*. *To come:* the remaining action properties, and proofs for the larger
   configurations of section 7 with the deviating steps taken out.

## 3. Modules

| Module | Models | Composed of |
|---|---|---|
| `WorkerPool` | abstract: workers start and are given up one at a time, and stop | |
| `Follower` | abstract: what is held of a source never goes back and gets to the present | |
| `ServiceWorker` | `serviceworker.go` and the loops: actions per step of the goroutine | |
| `ConfigApplier` | `configapplier.go`; its partners are its environment | EXTENDS `ServiceWorker`; implements `WorkerPool` |
| `ConfigApplierProofs` | theorems and proofs | EXTENDS `ConfigApplier` |
| `IPVSApplier`, `IPVSApplierProofs` | `ipvsapplier.go`; any updates at any time | |
| `Mesh` | the data path | EXTENDS `ConfigApplier`, INSTANCE `IPVSApplier`; implements `Follower` |
| `MeshProofs` | theorems and proofs | EXTENDS `Mesh`, `ConfigApplierProofs` |
| `ConfigWatcher`, `ConfigWatcherProofs` | `configwatcher.go`, the file, the watcher library | |
| `PublishWorker` | `publishworker.go`; its theorem is in `DaemonProofs` | |
| `Filtering` | what a loop over a list keeps: `Filter`, the loop of every `GetDownwardData` | |
| `ProxyFromFile`, `DockerFrontProxy`, `SocketFrontProxy` | operators: from a file, a list of containers, `/proc/net` to a list of backends | EXTEND `Filtering` |
| `Plugins`, `PluginsProofs` | one service: source, notification loop, watcher library, worker | EXTENDS the three above |
| `SocketFile`, `SocketFileProofs` | `DaemonStart`, `DaemonStop` and `Service.Start` of several daemons, around the socket file | |
| `Daemon` | all goroutines, `Service.Stop`, `Service.Start`, `--once` | EXTENDS `Mesh`, INSTANCE `ConfigWatcher`, `PublishWorker` |
| `DaemonProofs` | theorems and proofs about `Daemon` and `PublishWorker` | EXTENDS `Daemon`, `MeshProofs` |
| `MC*` | small instances for TLC | EXTENDS the module of that name; `SocketFile` needs none |

Two modules look at the notification loops. In `ServiceWorker` a source is only counted, so that it can
be composed with the config applier, reloads and stops. `Plugins` has one service and no reloads, and in
exchange the data, the events of the watcher library and the removal of a file.

### Conventions

* A `...Pc` variable or a field `pc` is where a goroutine is. At a value such as `"send"` it is *about
  to* send or blocked in it, so the order of blocked senders is free, as in Go.
* A send on an unbuffered channel and its receive are one step. In `ConfigApplier` alone the receiver
  is the environment (`ConfigPublished`, `FlushSent`, `UpdateSent`, `WorkerSent`); in `Mesh` and
  `Daemon` these steps are joined with those of the receiver.
* What happens between two channel operations or reads of shared state is one step. Where two
  goroutines share memory the steps are split at the reads: `QueryData` reads the plugin through the
  service pointer, `BuildUpdate` reads the pointer again.
* Sources are modelled by how often they changed (`ver`), which is both the content and the
  modification time; `Content[src][v]` gives the backends. The plugins' queries return that content
  (or nothing, where `ReadsFail`), except for the socket plugin, which returns what its own loop
  saw last (`own`: the loop runs on the very plugin the service points to). `Content` has the lists
  as the worker has sorted them (`serviceworker.go:84-85`); the sort itself is in `Plugins`.
* `serviceWorkerList` only ever appends, workers are numbered in order of creation, so a set stands
  for the list. `list.Remove` clears the element's links, after which `e.Next()` is nil: a walk that
  removes an element ends there. That is why `TakeDown` and `StopWorkers` stop one worker.
* In `IPVSApplier`, file and kernel hold the model last written. `Model` is built for each order of the
  map. `Carried` is the weight variable, assigned once before the loops and by every backend with a
  weight. A failing `WriteFile` may leave the old file or `Torn`; a failing ipvsctl may leave the table
  as it was or `Torn`: some of its changes made, others not.
* In `Daemon`, `call` holds one record for each RPC call of Stop and one for the goroutine that
  serves `onceCh`. `registered` is reversed in place by each of them, entry by entry: a swap reads both
  entries and then writes both, in four steps without a lock, so reversals that run into each other may
  double or lose an entry. The range that follows reads each entry once, and is then blocked on the
  channel of the one it has read (Go evaluates the slice once, but its elements are shared). `Running`
  are the goroutines that have not returned; the watcher of `--once` returns without a `wg.Done()`, so
  the counter may be above their number. A panic ends the process.
* In `Plugins`, text is the sequence of what the code splits it into: lines, fields at spaces, parts at
  colons; `ParseInt` is a function on the parts that are numbers. What a file *says* (`TextDescribes`) is
  stated the other way round: a backend is written down (`Written`) and compared with the line. Sockets
  are printed by `Printed` as the kernel does and read back by the code's `dip4`, `dip6` and `dw`.
* In `Plugins`, the worker sorts what it is given by the strings of the addresses, as `byAddress` does:
  `Less` is that order, and of backends with equal addresses either may come first (`sort.Sort` is not
  stable). So the properties speak of each backend once, sorted, and not of the order of the source.
* A network has a prefix of any length (`InNetwork`): `net.ParseCIDR` and `Contains`, byte by byte under
  the mask. IPv4 networks and addresses that are written as IPv6 are left out.
* In `Plugins`, `version` is the modification time of the file. The library's goroutines that are blocked
  on `w.Event` are the set `events`: the trigger at the start, and the poll.
* In `SocketFile`, a process has its `main` goroutine and that of the `server`; `Ends` and `Dies` take both
  away. `Dies` leaves the file, since only closing a listener (or `os.Remove`) removes it. Closing removes
  what is at the path, whoever made it.
* Definitions named `<Action>_<Change>` are the action with a plausible bug, used to see that a
  property can fail; no specification uses them.

### Assumptions about what is outside

* `ipvsctl apply -f` loads the file just written (the code passes no file name, `ipvsapplier.go:179`).
* The watcher library polls, finds every modification time that differs from the last one, does not
  watch a file that was not there (`configwatcher.go:49` and `proxy-from-file.go:215` log the error and go
  on), and stops watching one that a poll finds gone.
* Every edit of the configuration file changes its modification time; in a passing run it advances it.
* Docker reports each change of the containers to those that are subscribed, in order.
* The kernel prints addresses in `/proc/net` word by word, low byte first (a little-endian host).
* A Unix listener of Go removes its path when it is closed; `Serve` on a gRPC server that was stopped
  before closes the listener and returns an error.
* What a failing `ipvsctl` or `WriteFile` leaves behind is not assumed: nothing done, or a part of it.
  A part is one value, `Torn`.
* A left-over socket file is removed by hand when no daemon runs, as the message at `cmd/daemon.go:44`
  asks. In the run `socket` nobody starts a daemon while another one stops (`Overlap`), and no signal
  comes between the start and `net.Listen` (`EarlySignal`). The code guarantees neither;
  `socket_overlap` and `socket_early` show what happens otherwise.
* `s.grpcServer` is written by one goroutine and read by another without a lock (`daemon.go:131,154`);
  the model takes the read to see either value, and the write as one step.
* Services have a name (an update without one is taken for the flush, `ipvsapplier.go:205`).
* The publishers do nothing yet; the code that would call them is commented out.

## 4. Runs

Passing runs. `CHECK_DEADLOCK FALSE` is set in all of them but `socket` because the models stop where
the daemon waits for events: the bounded environment has no more configurations, changes or edits to
offer, or the daemon has exited. That nobody waits forever is checked as liveness instead. In `socket` a
daemon can always be started again, and deadlock is checked.

| Run | Checks | Instance, and why it is enough |
|---|---|---|
| `ca_live` | `TypeOK`, `WgCountsWorkers`, `StopsConserved`, `OneWorkerPerService`, `AppliedConfig`, `PoolRefined`, `ApplierReturns`, `QuitCompletes` | two reloads out of two configurations, which give up a worker, start one again, name one twice and change its source, then a stop: both stops compete for the one slot; a file and a docker loop, a change of each source, event streams that break: so a stop finds a loop watching, notifying, pinging or gone. The invariants are also proved, for any number of reloads |
| `ipvs` | `IPVSTypeOK`, `LoneServiceAsAsked`, `DestinationsExact`, `InstalledOrError`, `TableFromUpdate` | two services, one with attributes of its own and one that leaves all to the defaults (weight 1000, wrr, nat); lists with no backend, without weights, with weights that include zero, and mixed ones; unbounded sequences of updates and flushes; the file-and-exec type and an unknown one, both calls may fail, half-way too. exec-only is what the Mesh and Daemon instances use |
| `mesh_follows` | `CacheIsRecent`, `FollowsSources`, `Settles` | a file and a socket service, each source changes once at any time, which makes three states of what is held (none, before, after); a list of its own for each state, so that an older one can be told |
| `mesh_reload` | `CacheCoversConfig`, `TableMatchesCache`, `Settles` | three reloads that shrink and grow a file and a docker service; streams break at any time, so that a stopped worker may stay blocked for ever (`Stuck`) beside those that go on |
| `cw` | `WatcherTypeOK`, `CaughtUp`, `FollowsFile` | four modification times; two good files, files bad in each way the code tells apart, and no file, at the start or later |
| `plugins` | `PluginsTypeOK`, `FreshAtRest`, `FileAsDescribed`, `ContainersAsDescribed`, `SocketsAsDescribed`, `FollowsSource` | two changes of the source, at any moment; every kind of line, map, container and socket the code tells apart, in front of a good one, which it must not disturb, before or after it when sorted, or with the same address; no file; both ends of a range, a prefix that ends within a byte (22) and an empty one; weights that match twice, once and not at all |
| `socket` | `SocketTypeOK`, `Reachable`, `NothingLeft`, `LosersGoAway` | three daemons, so that one can win, one lose and a third come later; kills and bad TLS keys at any time; signals and stops from `net.Listen` on; no bound on starts and stops. No start during a stop and no signal before `net.Listen`: with either the code breaks these properties (section 7) |
| `daemon_overlap` | `WaitEndsAfterAll` | `--once`, a client and signals all stop the daemon, `--once` again after each model; their reversals of the list interleave read by read; timeouts at any time, one change of a docker source whose queries may fail |
| `daemon_stop` | `PublishersMatch`, `QuietStopsClean` | good and bad edits with two publishers of one name, then one Stop, and no timeout |

Bounds: `MaxConfigs` (configurations received), `MaxChanges` (changes of each source), `MaxVersion`
(states of the source in `Plugins`), `MaxTime` (modification times), and `MaxWorkers`, which restricts nothing: it is the number of workers the
fairness and liveness formulas quantify over and must be at least the number an instance creates.

`mesh_reload` also passes with `ReadsFail = TRUE` and two reloads: a failing query makes the cached list
empty, and the table follows.

`expect: violation` runs show a disagreement between the code and its own comments; see section 7.

## 5. Fairness

Weak fairness for each goroutine: the Go scheduler runs a goroutine that can run. In `ConfigApplier`
alone the partners keep receiving, which `Mesh` shows to be so. In `Mesh` the receive of the IPVS
applier is shared by the config applier and all workers, and goes to the waiting senders in the order
they came; a sender may find it disabled while another one is served, so each gets strong
fairness. The environment (edits, changes, configurations, clients, signals, timeouts, breaking
streams, failing calls) has none: it need not do anything. The library's `Poll` is weakly fair, since
it polls on a timer, in `Plugins` as in `ConfigWatcher`; there the loop and the worker are weakly fair,
each as one goroutine. In `SocketFile` the main goroutine and that of the server are, once a daemon has been
started; starting, stopping, killing and cleaning up are not. A `select` with several ready cases picks any of them; fairness is for the
goroutine and not for its cases, so no property relies on the choice.

## 6. Proofs

Checked by TLAPS from the named assumptions on the constants and the library's theorems on finite
sets, sequences and well-foundedness. Nothing bounds services, configurations, workers, edits or daemons.

`ConfigApplierProofs`, from `WorkerAssumption` and `ApplierAssumption`:

| Theorem | States | Argument |
|---|---|---|
| `TypeCorrect` | `TypeOK` | `TypeInv` = `TypeOK` and `QueryHasWorker`: between `UpdateWorker` and `QueryForUpdate` the name still has a worker; without it the index into the workers is not known to exist |
| `WaitGroupExact` | `WgCountsWorkers` | `CountInv`: the set of live workers grows by the new worker or shrinks by the one that takes the token, and so does the counter; cardinalities from `FiniteSetTheorems` |
| `NoStopLost` | `StopsConserved` | the same induction: a stop leaves the list and enters the channel in one step, leaves the channel and a worker in another |
| `OneWorkerEach` | `OneWorkerPerService` | a worker is created only if none has the name, `Update` keeps the name |
| `ConfigIsApplied` | `AppliedConfig` | `ProgressInv`: while the applier is at index `pos`, the services before `pos` have their workers; of two with one name the later one overwrites |
| `PoolImplemented` | `Spec` implies the safety part of `WorkerPool` | each action maps to `Start`, `GiveUp`, `Stop` or a stutter; that at most one worker given up still runs needs `StopsConserved` and the capacity of the channel |

`WorkerEffect` collects what every step of a worker or loop leaves unchanged, so that the
induction steps treat them as one case.

The other theorems about single components:

| Theorem, module | States | Assumptions | Argument |
|---|---|---|---|
| `IPVSTypeCorrect`, `IPVSApplierProofs` | `IPVSTypeOK` | `UpdateAssumption` | the cache holds under each name an update of that service |
| `AlwaysInstalledOrError`, `IPVSApplierProofs` | `InstalledOrError` | `UpdateAssumption` | `ExecReadsTarget`: whenever ipvsctl is about to run, the file holds the model of this update, since a failed write leads away from there |
| `TableAlwaysFromUpdate`, `IPVSApplierProofs` | `TableFromUpdate` | `UpdateAssumption` | the same invariant: ipvsctl runs only on the file of this update, so what changes the table is this model, whole, or an ipvsctl that fails and is reported. What a failing one does is left open |
| `DestinationsAlwaysExact`, `IPVSApplierProofs` | `DestinationsExact` | `UpdateAssumption` | `BuiltInv`: a cache that is not empty is that of the last update, and the model was built from it for some order of the map. An order lists each service with backends once, so the entries of the model are the services, one each |
| `LoneServiceAlwaysAsAsked`, `IPVSApplierProofs` | `LoneServiceAsAsked` | `UpdateAssumption` | the same invariant; `FirstVisitedAsAsked`: where the service ranged over first takes over a weight, it is that of an earlier backend of its own list (`FirstListWeight`), since the variable is set anew for each update. Lists may be mixed, as `proxy-from-file` makes them |
| `WatcherTypeCorrect`, `ConfigWatcherProofs` | `WatcherTypeOK` | `WatcherAssumption`, `Ticks` | part of `WatcherInv` |
| `NoEditLost`, `ConfigWatcherProofs` | `CaughtUp` | the same | `WatcherInv`: nobody is ahead of the file (`InOrder`); a version found by the library and not done is on its way (`OnItsWay`); what is sent under the modification time of the file is what the file holds (`SentAsIs`). Without the last, a file read after its time was taken could be newer than the time says |
| `SocketTypeCorrect`, `SocketFileProofs` | `SocketTypeOK` | `SocketAssumption` | by itself: also with overlapping starts and early signals |
| `AlwaysNothingLeft`, `SocketFileProofs` | `NothingLeft` | `SocketAssumption`, no signal before `net.Listen` | `LeavesNoFile`: who has not listened or has cleaned up has no file (`NoFileYet`), who stops has begun to listen (`StopsAfterListen`). Starts during a stop are included: a path that is taken over is the other's. With an early signal the statement is false (`socket_early`) |
| `AlwaysReachable`, `SocketFileProofs` | `Reachable` | `SocketAssumption`, `Calm` (no start during a stop, no signal before `net.Listen`) | `SocketInv`: beside `NoFileYet`, a daemon that stops is alone (`StopsAlone`), a server is stopped by its main goroutine only. Without `Calm` the statement is false (`socket_overlap`) |
| `AlwaysMatches`, `DaemonProofs` | `SpecsMatchConfig`, which `daemon_stop` checks as `PublishersMatch` | `PublisherAssumption` | among the publishers of one name there is a last one (`LastExists`, by well-foundedness), and that one stays |
| `PluginsTypeCorrect`, `PluginsProofs` | `PluginsTypeOK` | `PluginsAssumption` | `TypeInv`: nobody is ahead of the source, and there are no more pings than events that were told |
| `AlwaysFreshAtRest`, `PluginsProofs` | `FreshAtRest` | `PluginsAssumption` | `FreshInv`, one part for each loop. File: a version the library has found is there, a loop that stored the present modification time has told the worker, who has asked since, and if no event is left the last one was of that kind. Docker: a version that was told and has no ping left was asked for. Sockets: the listeners change only on the way into a notification |
| `ContainersAlwaysAsDescribed`, `PluginsProofs` | `ContainersAsDescribed` | `PluginsAssumption`, `ListsAssumption` | `FreshInv` and `ContainersGiven`: `FilterLists` gives the running containers, each once, `Sorts` that sorting moves them and does nothing else (`Rearranges`), `Weights` that the last entry that matches exists |
| `SocketsAlwaysAsDescribed`, `PluginsProofs` | `SocketsAsDescribed` | the same, `SocketsAssumption`, `TcpOverIPv4` | `FreshInv` and `SocketsGiven`: three filters in a row (the file of the protocol, the lines that listen, the range and network) and the sort compose to one rearrangement; `AddressParsed`, `PortParsed`: the bytes come back from the digits of the kernel; `NetworkBits`, from `PrefixBits` and `MaskedBits`: comparing masked bytes is comparing the first bits, for a prefix of any length |
| `FileAlwaysAsDescribed`, `PluginsProofs` | `FileAsDescribed` | the first two, `PlainFiles` | `FreshInv`, `JSONGiven` and `TextGiven`: what splitHostPortWeight reads in a line is what has been written there (`RoundTrip`), so the lines that are kept are those that say something, and `Sorts` |

The compositions, `MeshProofs` and `DaemonProofs`, from the same assumptions and
`DaemonAssumption`:

| Theorem | States | Further assumptions | Argument |
|---|---|---|---|
| `MeshHasConfigApplier` | `MeshSpec => Spec` | | each step of `Mesh` is one of `ConfigApplier` or a stutter, so the theorems above hold in `Mesh` |
| `MeshHasIPVSApplier` | `MeshSpec => IPVSSpec` | | `SendInv`: what workers and applier are about to send is an update of a known service with a known configuration |
| `CacheAlwaysCoversConfig` | `CacheCoversConfig` | | `CoverInv`: while the applier is at index `pos`, and when it is done, each service before it is cached or an active worker is about to query or send for it. Neither part alone is inductive: between the flush and the update of a service that was there before, only the progress of the applier says that it will be cached again; a new one is its worker's to deliver |
| `TableAlwaysMatchesCache` | `TableMatchesCache` | `CallsSucceed` | `TableInv`: the model last built holds the cache (`Holds`), the file holds it when ipvsctl is about to run, and the table when the applier is done. Without `CallsSucceed` the statement is false: a failed call leaves the table as it was or half changed, and `InstalledOrError` and `TableFromUpdate` are what remains |
| `SourcesFollowedSafely` | the safety part of `Follower` | `OneConfig` | `FollowInv`: what the worker carries, what its loop has noticed and what is cached are in order (`Follows`), worker *w* serves service *w* (`Serves`). So what arrives is never older than what is held |
| `CacheAlwaysRecent` | `CacheIsRecent` | `OneConfig`, no docker sources | the same invariant, of which `Fresh`: what the loop has seen and told is in the list, or a notification is outstanding |
| `DaemonHasConfigApplier`, `DaemonHasIPVSApplier`, `DaemonHasConfigWatcher`, `DaemonHasPublishWorker` | `DaemonSpec` implies the specification of each goroutine | | `WatcherSends`: the watcher sends configurations of the documents only. A Stop is a step each of them knows |
| `DaemonKeepsItsWorkers` | `AppliedConfig` and the other invariants of `ConfigApplier`, for the daemon | | from `DaemonHasConfigApplier` |
| `PublishersAlwaysMatch` | `PublishersMatch` | | from `DaemonHasPublishWorker` and `AlwaysMatches` |
| `WaitAlwaysEndsAfterAll` | `WaitEndsAfterAll` | | `WgInv`: the counter is the number of goroutines that have not called Done and of the Stops that have added themselves (`WgCounts`). A goroutine leaves the first set in the step in which the counter goes down (`OneStops`), no other step touches it (`OthersKeepNotDone`), each `wg.Add(1)` adds one to the second (`OneMoreEnded`). Who has not returned has not called Done, so a counter of zero leaves nobody running, and a cardinality is not negative. Who finds which stop in which order, and what the reversals do to the list, does not matter |

`OneConfig` (one configuration, services with names of their own, queries that succeed, lists that tell
the states of a source apart) is the setting in which the code does follow its sources: with a reload
(`mesh_stale`) or a failing query it does not, and without distinct lists an older one could not be told.
Docker is left out of `CacheAlwaysRecent` because of the event lost before the subscription
(`plugins_missed`).

`TcpOverIPv4` (services for tcp, `/proc/net/tcp`, a network in CIDR form of IPv4) and `PlainFiles` (text or
JSON, each number written in one way, `Said` has every backend that a line names, no 0 and no blank
host) are the settings in which the plugins read what is there. Outside of them they do not:
`plugins_sockets` shows it for udp and IPv6, `plugins_zero` for a weight of 0. Both hold in the instance
of the run `plugins`.

`Filter` is a recursive function. That its recursion has a solution is `FilterUnfolds`, and that it lists
exactly the elements asked for, once and in their order (`Orders`), is `FilterLists`; both are inductions
over the length, by `UpTo`, which takes a set of numbers in the place of a predicate. `Less` is any order
of addresses: nothing is assumed of it.

Only model-checked: liveness (`ApplierReturns`, `QuitCompletes`, `Settles`, `FollowsFile`, `FollowsSource`,
`LosersGoAway`, `QuietStopsClean` and the fair parts of `WorkerPool` and `Follower`), which needs
fairness and ENABLED. The other runs of section 7 check properties that the code does not have.

## 7. Known deviations

What the code says of itself and does not do, found while modelling. The first three are runs of the
project; each of the others is a configuration in this directory for which TLC prints a behaviour
(`tlc -config <cfg> <module>`).

| Configuration, module | Property | What happens | The code's own words |
|---|---|---|---|
| `ca_list`, MCConfigApplier | `ListMatchesModel` | `configapplier.go:98`: the walk ends with the first worker it removes, so of two dropped services one keeps running | `:90` "walk active service worker, check if they're still part of the model." |
| `ipvs_attribution`, MCIPVSApplier | `EachAsItsUpdateAsks` | `ipvsapplier.go:110`: an update of one service gives its address, name, scheduler and forward to all cached ones | `:17` "The message affects a single service from the model and contains data updates." |
| `cw_publisher`, MCConfigWatcher | `NoPanic` | `configwatcher.go:140`: a publisher of an unknown type is not skipped, its nil spec is used (`examples/ex.yaml:25` has one) | `:148` "There are configuration errors, will not apply this." |
| `ca_stops`, MCConfigApplier, with `-continue` | `StopsAll` | `configapplier.go:68`: only the first active worker gets a stop | `:63` "stop all active service workers" |
| the same | `OnlyRemovedStopped` | `configapplier.go:118`: the stop for a removed service is taken by the worker of another | `:96` "Taking down because not part of model any more" |
| the same | `LoopWatchesService` | `serviceworker.go:130`: after a service moved, its old source is watched | `:126` "Update applies configuration updates to a ServiceWorker" |
| `ca_quit_file`, MCConfigApplier | `QuitTerminates` | `serviceworker.go:120` against `proxy-from-file.go:239` and `socket-front-proxy.go:141`: a stopped worker and its loop that is notifying it block each other. With `KindF = "docker"` and `StreamsBreak = TRUE`, `docker-front-proxy.go:193-196`: the loop has returned when the event stream broke, and the worker that is stopped later sends to nobody, for ever | `model.go:110-112` "It terminates when it receives something on quitChan." |
| `ipvs_weight`, MCIPVSApplier | `UnsetWeightIsTheServices` | `ipvsapplier.go:120`: a backend without a weight gets that of another backend, of another service or of its own list | `model.go:17` "ipvsctl-style initial weight, default: 1000" |
| `plugins_missed`, MCPlugins | `FollowsAll` | `proxy-from-file.go:235`: a data file that is removed causes no notification, and is not watched when it is back. With `Service <- MCOneDocker`, `docker-front-proxy.go:187`: an event between the first query and the subscription is lost | `README.md:8-9` "automatically balance traffic" |
| `plugins_zero`, MCPlugins | `FileAsDescribed` | `proxy-from-file.go:142`: a weight of 0 in the file becomes the default weight | `:125` "expect (IP\|Host)[:PORT] [WEIGHT]" |
| `plugins_sockets`, MCPlugins | `SocketsAsDescribed` | `socket-front-proxy.go:69`: the file for udp is overwritten by that for tcp; `procnet.go:55`: the words of an IPv6 address are read in the wrong order | `:81-82` "queries /proc/net/{tcp,udp} for listening sockets" |
| the same, with `-continue` | `NoWeightIsNone` | `socket-front-proxy.go:103`: a backend without a weight gets 0, which takes it out of service, and not the weight of the service | `model.go:137` "Dynamic weight if assigned" |
| `mesh_stale`, MCMesh | `CacheIsRecent` | `serviceworker.go:131`: worker and config applier both query; the older reading may arrive last | `ipvsapplier.go:28-29` "maintaining the recent ipvs configuration model" |
| `mesh_shrink`, MCMesh, with `-continue` | `OnlyConfiguredCached` | `serviceworker.go:88`: an update in flight puts a removed service back into the cache | `configapplier.go:80` "force ipvsapplier to clear caches" |
| the same | `EmptyConfigClearsTable` | `ipvsapplier.go:205`: a configuration without services leaves the old table | `README.md:13` "with automatic reconfiguration" |
| `mesh_globals`, MCMesh | `GlobalsAreCurrent` | `serviceworker.go:92`: workers send the configuration of their creation | `ipvsapplier.go:66` "this is the current model/config we're operating on" |
| `mesh_socket`, MCMesh | `CacheIsRecent` | `socket-front-proxy.go:86`: after a reload the loop fills the listeners of the old plugin, the new one has none | `:81-82` "returns all entries matching the MatchSocket entry" |
| `cw_missing`, MCConfigWatcher | `FollowsAnyFile` | `configwatcher.go:49`: a file that is created after the start, or was away for a poll, is not noticed | `:14-16` "watching changes on a given config file" |
| `cw_oldfile`, MCConfigWatcher | `FollowsFile` | `configwatcher.go:77`: a file with an older modification time is ignored | `:15-16` "If the file changes, it is read" |
| `daemon_running`, MCDaemon | `StopStopsAll` | `daemon.go:57`: the IPVS applier stops first, and the config applier blocks on sending to it | `:47` "Stop stops all running services" |
| `daemon_twice`, MCDaemon | `StopExits` | `daemon.go:59`: a second Stop blocks on a full stop channel and GracefulStop waits for it. Where the reversals of two Stops run into each other (`:53-55`), an entry may be doubled and another one lost, which then gets no stop | `cmd/daemon.go:206` "DaemonStop stops the daemon" |
| `daemon_once`, MCDaemon, with `-continue` | `OnceExits` | `publishworker.go:199`: without services there is no model and no end. With `MCOneFile` for the files and `TimesOut = FALSE` there is no end with services either: `configwatcher.go:83-86` has returned without a `wg.Done()`, so only the timeout of `daemon.go:63-73` ends the wait | `cmd/daemon.go:34` "Run loop only once, exit after first cycle" |
| the same | `OnceAppliesAll` | `publishworker.go:200`: the first of two services ends the daemon | the same |
| `socket_twice`, SocketFile | `OneRuns` | `cmd/daemon.go:42`: two daemons that start at the same time both run their workers until one loses `net.Listen` | `:44` "Maybe another instance is already running?" |
| `socket_overlap`, SocketFile | `Reachable` | `daemon.go:162`: a daemon that stops removes the socket file of one that has just started | `:158` "remove socket file if its still there." |
| `socket_early`, SocketFile | `NothingLeft` | `daemon.go:154`: a signal before `net.Listen` finds no server and no file; the file is made afterwards and stays | the same |

The properties of the passing runs are what holds beside these: where a stronger property fails, the
run checks the part that the code does ensure (`LoneServiceAsAsked` and `DestinationsExact` for
`EachAsItsUpdateAsks`, `CacheIsRecent` and `FollowsSources` without reloads, `FollowsSource` and `FollowsFile` while the library
watches the file, `SocketsAsDescribed` for tcp over IPv4, the socket file without a start during a stop
and without a signal before `net.Listen`, `QuitCompletes` for `QuitTerminates`, which names the two ways
in which it fails, `Settles` with workers that stay blocked in one of these ways, `WaitEndsAfterAll` and
`QuietStopsClean` for `StopStopsAll`).

## 8. Not modelled

* In the parsers, what lies below a field: how YAML and JSON are read, the digits of a number, the text of
  an address; weights in JSON are whole numbers. `dn` is taken on hexadecimal digits in upper case. A line
  of `/proc/net` always has its columns and its colon; a JSON list holds only maps.
* Failing queries and breaking event streams in `Plugins`: they are in `ServiceWorker`.
* The file publisher and the look-ups by label in the publish worker: the first does nothing, the
  second are called by nothing.
* Key generation, flags, environment, log files: no state that the components above share.
* The generated RPC code. Its contract used here: a client's call runs on a goroutine of its own, and
  GracefulStop refuses new calls and waits for running ones.
* Misuse of `sync.WaitGroup` by `Add` while a `Wait` returns (`daemon.go:67,74`), which panics: below the
  grain of the model, where `Wait` returns in one step.
