----------------------------- MODULE IPVSApplier -----------------------------
(***************************************************************************)
(* daemon/ipvsapplier.go: the goroutine that caches the last update of     *)
(* every service, builds the model for ipvsctl from the cache, applies it  *)
(* through a file, through ipvsctl or both, and tells the publisher worker.*)
(*                                                                         *)
(* The file and the IPVS table of the kernel are what WriteFile and        *)
(* ipvsctl leave behind; both calls can fail.                              *)
(***************************************************************************)
EXTENDS Integers, Sequences, FiniteSets, SequencesExt

CONSTANTS
  Service,    \* service objects: name, address, sched, forward, weight
  Config,     \* configurations with globals.execType
  Data,       \* lists of backends: address, weight (negative: none given)
  NoConfig,   \* before the first update
  Torn,       \* a file or a table that a failing call has left incomplete
  CallsFail   \* whether WriteFile and ipvsctl may fail

ASSUME UpdateAssumption ==
  /\ \A s \in Service : s.weight \in Nat /\ s.name # ""
  /\ \A data \in Data :
       data \in Seq(ToSet(data)) /\ \A i \in DOMAIN data : data[i].weight \in Int
  /\ NoConfig \notin Config
  /\ CallsFail \in BOOLEAN

VARIABLES
  apPc,      \* where the goroutine is
  apCfg,     \* s.cfg: the configuration of the last update
  services,  \* the cache: name -> last update
  target,    \* the model it has built, a sequence of ipvsctl services
  file,      \* the model in the file
  kernel,    \* the model ipvsctl has installed
  err        \* applyUpdate has returned an error

ipvsVars == <<apPc, apCfg, services, target, file, kernel, err>>

Message == [service : Service, data : Data, cfg : Config]

IPVSTypeOK ==
  /\ apPc \in {"select", "apply", "exec", "publish", "stopped"}
  /\ apCfg \in Config \cup {NoConfig}
  /\ apPc \notin {"select", "stopped"} => apCfg # NoConfig
  /\ \A name \in DOMAIN services :
       services[name] \in Message /\ services[name].service.name = name
  /\ err \in BOOLEAN

IPVSInit ==
  /\ apPc = "select"
  /\ apCfg = NoConfig
  /\ services = <<>>
  /\ target = <<>>
  /\ file = <<>>
  /\ kernel = <<>>
  /\ err = FALSE

-----------------------------------------------------------------------------
(***************************************************************************)
(* integrateUpdate                                                         *)
(***************************************************************************)
OrDefault(x, unset, default) == IF x = unset THEN default ELSE x

Weight(s)  == OrDefault(s.weight, 0, 1000)
Sched(s)   == OrDefault(s.sched, "", "wrr")
Forward(s) == OrDefault(s.forward, "", "nat")

NonEmpty(cache) == {name \in DOMAIN cache : cache[name].data # <<>>}

\* Mutant: a weight of zero counts as none.
Carried_SkipsZero(w, lists, p, i) ==
  LET given(q) == {j \in DOMAIN lists[q] : (q < p \/ j <= i) /\ lists[q][j].weight > 0}
      giving   == {q \in 1 .. p : given(q) # {}}
  IN  IF giving = {} THEN w ELSE lists[Max(giving)][Max(given(Max(giving)))].weight

\* The variable w at backend i of list p: assigned once before the loops, then by
\* every backend that has a weight, so it carries over to those that have none.
Carried(w, lists, p, i) ==
  LET given(q) == {j \in DOMAIN lists[q] : (q < p \/ j <= i) /\ lists[q][j].weight >= 0}
      giving   == {q \in 1 .. p : given(q) # {}}
  IN  IF giving = {} THEN w ELSE lists[Max(giving)][Max(given(Max(giving)))].weight

\* The model built for update u when the range over the cache visits the names
\* in this order.  Every service gets the attributes of u's service.
Model(u, cache, order) ==
  LET lists == [p \in DOMAIN order |-> cache[order[p]].data]
  IN  [p \in DOMAIN order |->
        [address |-> u.service.address,
         name    |-> u.service.name,
         sched   |-> Sched(u.service),
         destinations |->
           [i \in DOMAIN lists[p] |->
             [address |-> lists[p][i].address,
              forward |-> Forward(u.service),
              weight  |-> Carried(Weight(u.service), lists, p, i)]]]]

-----------------------------------------------------------------------------
(***************************************************************************)
(* The goroutine                                                           *)
(***************************************************************************)
\* An update without a service name: a configuration is about to be applied.
Flush ==
  /\ apPc = "select"
  /\ services' = <<>>
  /\ UNCHANGED <<apPc, apCfg, target, file, kernel, err>>

\* s.services[update.serviceName] = update
Updated(cache, u) ==
  [name \in DOMAIN cache \cup {u.service.name} |->
    IF name = u.service.name THEN u ELSE cache[name]]

\* Mutant: the model is built before the update enters the cache.
Integrate_CachesLate(u) ==
  /\ apPc = "select"
  /\ services' = Updated(services, u)
  /\ apCfg' = u.cfg
  /\ \E order \in SetToSeqs(NonEmpty(services)) : target' = Model(u, services, order)
  /\ apPc' = "apply"
  /\ UNCHANGED <<file, kernel, err>>

\* Mutant: the configuration of the update is not taken over.
Integrate_KeepsCfg(u) ==
  /\ apPc = "select"
  /\ services' = Updated(services, u)
  /\ \E order \in SetToSeqs(NonEmpty(services')) : target' = Model(u, services', order)
  /\ apPc' = "apply"
  /\ UNCHANGED <<apCfg, file, kernel, err>>

\* Any other update; a Go map is ranged over in any order.
Integrate(u) ==
  /\ apPc = "select"
  /\ services' = Updated(services, u)
  /\ apCfg' = u.cfg
  /\ \E order \in SetToSeqs(NonEmpty(services')) : target' = Model(u, services', order)
  /\ apPc' = "apply"
  /\ UNCHANGED <<file, kernel, err>>

ExecType == OrDefault(apCfg.globals.execType, "", "exec-only")

\* Mutant: ipvsctl runs even when the file could not be written.
WriteFile_IgnoresError ==
  /\ apPc = "apply"
  /\ ExecType \in {"file-only", "file-and-exec"}
  /\ apPc' = IF ExecType = "file-and-exec" THEN "exec" ELSE "publish"
  /\ \/ file' = target /\ err' = FALSE
     \/ CallsFail /\ file' \in {file, Torn} /\ err' = TRUE
  /\ UNCHANGED <<apCfg, services, target, kernel>>

\* ioutil.WriteFile, the last or the first half of the job.  A failing call may
\* have truncated the file.
WriteFile ==
  /\ apPc = "apply"
  /\ ExecType \in {"file-only", "file-and-exec"}
  /\ \/ /\ file' = target
        /\ err' = FALSE
        /\ apPc' = IF ExecType = "file-and-exec" THEN "exec" ELSE "publish"
     \/ /\ CallsFail
        /\ file' \in {file, Torn}
        /\ err' = TRUE
        /\ apPc' = "publish"
  /\ UNCHANGED <<apCfg, services, target, kernel>>

\* ipvsctl apply, from the file or from its standard input.  If it fails, the table
\* is as it was or only partly changed.
RunIpvsctl ==
  /\ \/ apPc = "exec"
     \/ apPc = "apply" /\ ExecType = "exec-only"
  /\ \/ /\ kernel' = IF apPc = "exec" THEN file ELSE target
        /\ err' = FALSE
     \/ /\ CallsFail
        /\ kernel' \in {kernel, Torn}
        /\ err' = TRUE
  /\ apPc' = "publish"
  /\ UNCHANGED <<apCfg, services, target, file>>

\* Mutant: an unknown execution type is not reported.
UnknownExecType_Silent ==
  /\ apPc = "apply"
  /\ ExecType \notin {"file-only", "file-and-exec", "exec-only"}
  /\ err' = FALSE
  /\ apPc' = "publish"
  /\ UNCHANGED <<apCfg, services, target, file, kernel>>

\* "unknown executionType given"
UnknownExecType ==
  /\ apPc = "apply"
  /\ ExecType \notin {"file-only", "file-and-exec", "exec-only"}
  /\ err' = TRUE
  /\ apPc' = "publish"
  /\ UNCHANGED <<apCfg, services, target, file, kernel>>

\* The publisher worker takes the model, whether it was applied or not.
ModelPublished ==
  /\ apPc = "publish"
  /\ apPc' = "select"
  /\ UNCHANGED <<apCfg, services, target, file, kernel, err>>

\* case wg := <-*s.StopChan
StopIPVSApplier ==
  /\ apPc = "select"
  /\ apPc' = "stopped"
  /\ UNCHANGED <<apCfg, services, target, file, kernel, err>>

IPVSApplying == WriteFile \/ RunIpvsctl \/ UnknownExecType

IPVSNext ==
  \/ Flush
  \/ \E u \in Message : Integrate(u)
  \/ IPVSApplying
  \/ ModelPublished
  \/ StopIPVSApplier

IPVSSpec == IPVSInit /\ [][IPVSNext]_ipvsVars

-----------------------------------------------------------------------------
(***************************************************************************)
(* Properties                                                              *)
(***************************************************************************)
\* What one cached update asks for by itself, with the defaults that model/model.go:14-21
\* documents
Documented(x, unset, default) == IF x = unset THEN default ELSE x

OwnEntry(u) ==
  [address |-> u.service.address,
   name    |-> u.service.name,
   sched   |-> Documented(u.service.sched, "", "wrr"),
   destinations |->
     [i \in DOMAIN u.data |->
       [address |-> u.data[i].address,
        forward |-> Documented(u.service.forward, "", "nat"),
        weight  |-> IF u.data[i].weight >= 0
                    THEN u.data[i].weight
                    ELSE Documented(u.service.weight, 0, 1000)]]]

Processed == apPc \notin {"select", "stopped"}

\* Every cached service that has backends appears in the model exactly as its
\* own update asks for, and nothing else does (ipvsapplier.go:62-137).
EachAsItsUpdateAsks ==
  Processed =>
    /\ Len(target) = Cardinality(NonEmpty(services))
    /\ ToSet(target) = {OwnEntry(services[name]) : name \in NonEmpty(services)}

\* A backend without a weight has that of an earlier one of its own list, if the variable
\* w of integrateUpdate carried it over.
TakesOver(data, i, weight) ==
  data[i].weight < 0 /\ \E j \in 1 .. i - 1 : data[j].weight >= 0 /\ data[j].weight = weight

\* As long as no other service is cached, the model is the one entry its update asks
\* for: attributes, defaults, addresses, weights of zero and mixed lists, whatever was
\* cached, flushed or applied before.  A weight never comes from anywhere else than
\* the service and its own list.
LoneServiceAsAsked ==
  Processed /\ Cardinality(DOMAIN services) = 1 =>
    /\ Len(target) = Cardinality(NonEmpty(services))
    /\ \A name \in NonEmpty(services) :
         LET u == services[name]
             own == OwnEntry(u).destinations
             dest == target[1].destinations
         IN  /\ target[1] = [OwnEntry(u) EXCEPT !.destinations = dest]
             /\ DOMAIN dest = DOMAIN own
             /\ \A i \in DOMAIN own :
                  \/ dest[i] = own[i]
                  \/ /\ TakesOver(u.data, i, dest[i].weight)
                     /\ dest[i] = [own[i] EXCEPT !.weight = dest[i].weight]

\* Whatever the order of the map, no backend of any cached service is lost,
\* duplicated or moved to another list, and a backend that came with a weight
\* keeps it (ipvsapplier.go:103-133).
Addresses(list) == [i \in DOMAIN list |-> list[i].address]

DestinationsExact ==
  Processed =>
    \E order \in SetToSeqs(NonEmpty(services)) :
      /\ Len(order) = Len(target)
      /\ \A p \in DOMAIN order :
           LET data == services[order[p]].data
               dest == target[p].destinations
           IN  /\ Addresses(dest) = Addresses(data)
               /\ \A i \in DOMAIN data :
                    data[i].weight >= 0 => dest[i].weight = data[i].weight

\* A backend that came without a weight gets the weight of its own service
\* (ipvsapplier.go:70-73, 119-127; model.go:17).
UnsetWeightIsTheServices ==
  Processed =>
    \E order \in SetToSeqs(NonEmpty(services)) :
      /\ Len(order) = Len(target)
      /\ \A p \in DOMAIN order :
           LET u == services[order[p]]
               dest == target[p].destinations
           IN  /\ Addresses(dest) = Addresses(u.data)
               /\ \A i \in DOMAIN u.data :
                    u.data[i].weight < 0 => dest[i].weight = OwnEntry(u).destinations[i].weight

\* Unless an error was logged, what the execution type of the configuration
\* names is up to date when the publishers are told (ipvsapplier.go:168-195, 224).
InstalledOrError ==
  apPc = "publish" /\ ~ err =>
    /\ ExecType \in {"file-only", "file-and-exec"} => file = target
    /\ ExecType \in {"file-and-exec", "exec-only"} => kernel = target
    /\ ExecType \in {"file-only", "file-and-exec", "exec-only"}

\* ipvsctl is never given an older model or a half-written file: what changes the
\* table of the kernel is the model of the update at hand, or a failing ipvsctl that
\* is reported (ipvsapplier.go:175-180).
TableStep == kernel' # kernel => kernel' = target \/ (kernel' = Torn /\ err')

TableFromUpdate == [][TableStep]_ipvsVars

=============================================================================
