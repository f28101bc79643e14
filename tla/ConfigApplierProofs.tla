------------------------- MODULE ConfigApplierProofs -------------------------
(***************************************************************************)
(* Theorems about ConfigApplier.                                           *)
(***************************************************************************)
EXTENDS ConfigApplier, FiniteSetTheorems, SequenceTheorems, WellFoundedInduction, TLAPS

-----------------------------------------------------------------------------
(***************************************************************************)
(* Operators                                                               *)
(***************************************************************************)
\* First picks an element: a set of numbers that is not empty has a least one.
LEMMA FirstIsElement ==
  ASSUME NEW S \in SUBSET Nat, S # {}
  PROVE  First(S) \in S
<1>1. PICK x \in S : \A y \in S : ~ (<<y, x>> \in OpToRel(<, Nat))
  BY NatLessThanWellFounded, WFMin
<1>2. \A y \in S : x <= y
  <2>1. SUFFICES ASSUME NEW y \in S, y < x PROVE FALSE
    OBVIOUS
  <2>2. <<y, x>> \in Nat \X Nat /\ <<y, x>>[1] < <<y, x>>[2]
    BY <2>1
  <2>3. <<y, x>> \in OpToRel(<, Nat)
    BY <2>2, Zenon DEF OpToRel
  <2> QED
    BY <1>1, <2>3, Zenon
<1> QED
  BY <1>2 DEF First

\* What a plugin returns are backends.
LEMMA DownwardDataIsData ==
  ASSUME WorkerTypeOK, NEW w \in DOMAIN worker
  PROVE  GetDownwardData(w) \subseteq Data
<1> DEFINE src == worker[w].service.src
<1>1. worker[w] \in WorkerState /\ loop[w] \in LoopState
  BY DEF WorkerTypeOK
<1>2. src \in Sources
  BY <1>1, WorkerAssumption DEF WorkerState
<1>3. \A v \in 0 .. MaxChanges : Content[src][v] \in Data
  BY <1>2, WorkerAssumption
<1>4. ver[src] \in 0 .. MaxChanges
  BY <1>2 DEF WorkerTypeOK
<1>5. loop[w].seen # Unseen => loop[w].seen \in 0 .. MaxChanges
  BY <1>1 DEF LoopState
<1> QED
  BY <1>3, <1>4, <1>5, WorkerAssumption DEF GetDownwardData, LastListeners

-----------------------------------------------------------------------------
(***************************************************************************)
(* What one step of one worker or loop can change                          *)
(***************************************************************************)
\* Replacing one worker state leaves the others alone.
LEMMA ChangeWorker ==
  ASSUME WorkerTypeOK, NEW w \in DOMAIN worker, NEW r \in WorkerState,
         worker' = [worker EXCEPT ![w] = r]
  PROVE  /\ worker' \in Seq(WorkerState)
         /\ Len(worker') = Len(worker)
         /\ DOMAIN worker' = DOMAIN worker
         /\ worker'[w] = r
         /\ \A v \in DOMAIN worker : v # w => worker'[v] = worker[v]
<1>1. worker \in Seq(WorkerState) /\ w \in 1 .. Len(worker)
  BY DEF WorkerTypeOK
<1>2. worker' \in Seq(WorkerState) /\ Len(worker') = Len(worker)
  BY <1>1, ExceptSeq
<1>3. DOMAIN worker' = DOMAIN worker
  BY <1>1
<1> QED
  BY <1>1, <1>2, <1>3

LEMMA ChangeLoop ==
  ASSUME WorkerTypeOK, NEW w \in DOMAIN worker, NEW r \in LoopState,
         loop' = [loop EXCEPT ![w] = r]
  PROVE  loop' \in Seq(LoopState) /\ Len(loop') = Len(loop)
<1>1. loop \in Seq(LoopState) /\ w \in 1 .. Len(loop)
  BY DEF WorkerTypeOK
<1> QED
  BY <1>1, ExceptSeq

\* A worker that keeps its service and stays live (or stays dead) does not change
\* the set of live workers.
LEMMA ChangeKeepsLive ==
  ASSUME WorkerTypeOK, NEW w \in DOMAIN worker, NEW r \in WorkerState,
         worker' = [worker EXCEPT ![w] = r],
         r.service = worker[w].service,
         r.pc \in {"quit", "done"} <=> worker[w].pc \in {"quit", "done"}
  PROVE  /\ worker' \in Seq(WorkerState)
         /\ Len(worker') = Len(worker)
         /\ DOMAIN worker' = DOMAIN worker
         /\ \A v \in DOMAIN worker : worker'[v].service = worker[v].service
         /\ LiveWorkers' = LiveWorkers
<1>1. /\ worker' \in Seq(WorkerState)
      /\ Len(worker') = Len(worker)
      /\ DOMAIN worker' = DOMAIN worker
      /\ worker'[w] = r
      /\ \A v \in DOMAIN worker : v # w => worker'[v] = worker[v]
  BY ChangeWorker
<1>2. \A v \in DOMAIN worker : worker'[v].service = worker[v].service
  BY <1>1
<1>3. \A v \in DOMAIN worker : Live(v)' <=> Live(v)
  BY <1>1 DEF Live
<1>4. LiveWorkers' = LiveWorkers
  BY <1>1, <1>3 DEF LiveWorkers
<1> QED
  BY <1>1, <1>2, <1>4

\* A step of a worker, of its loop or of the channel to the IPVS applier keeps all
\* services; it leaves the counters alone, or it is the step that takes the stop.
StopTaken(w) ==
  /\ w \in LiveWorkers
  /\ LiveWorkers' = LiveWorkers \ {w}
  /\ scWorkers = 1
  /\ scWorkers' = 0
  /\ wg' = wg - 1

WorkerEffect(w) ==
  /\ WorkerTypeOK'
  /\ DOMAIN worker' = DOMAIN worker
  /\ \A v \in DOMAIN worker : worker'[v].service = worker[v].service
  /\ \/ LiveWorkers' = LiveWorkers /\ UNCHANGED <<scWorkers, wg>>
     \/ StopTaken(w)

LEMMA QueryDataEffect ==
  ASSUME WorkerTypeOK, NEW w \in DOMAIN worker, QueryData(w)
  PROVE  WorkerEffect(w)
<1>1. PICK d \in GetDownwardData(w) :
        worker' = [worker EXCEPT ![w].pc = "build", ![w].data = d]
  BY DEF QueryData
<1>2. d \in Data
  BY DownwardDataIsData
<1>3. worker[w] \in WorkerState
  BY DEF WorkerTypeOK
<1> DEFINE r == [worker[w] EXCEPT !.pc = "build", !.data = d]
<1>4. r \in WorkerState /\ r.pc = "build" /\ r.service = worker[w].service
  BY <1>2, <1>3 DEF WorkerState
<1>5. worker' = [worker EXCEPT ![w] = r]
  BY <1>1
<1>6. r.pc \in {"quit", "done"} <=> worker[w].pc \in {"quit", "done"}
  BY <1>4 DEF QueryData
<1> HIDE DEF r
<1> QED
  BY <1>4, <1>5, <1>6, ChangeKeepsLive DEF QueryData, WorkerEffect, WorkerTypeOK

LEMMA BuildUpdateEffect ==
  ASSUME WorkerTypeOK, NEW w \in DOMAIN worker, BuildUpdate(w)
  PROVE  WorkerEffect(w)
<1> DEFINE u == [service |-> worker[w].service, data |-> worker[w].data,
                 cfg |-> worker[w].cfg]
           r == [worker[w] EXCEPT !.pc = "send", !.data = NoBackends, !.out = u]
<1>1. worker[w] \in WorkerState
  BY DEF WorkerTypeOK
<1>2. u \in Update
  BY <1>1 DEF WorkerState, Update
<1>3. r \in WorkerState /\ r.pc = "send" /\ r.service = worker[w].service
  BY <1>1, <1>2, WorkerAssumption DEF WorkerState
<1>4. worker' = [worker EXCEPT ![w] = r]
  BY DEF BuildUpdate
<1>5. r.pc \in {"quit", "done"} <=> worker[w].pc \in {"quit", "done"}
  BY <1>3 DEF BuildUpdate
<1> HIDE DEF r
<1> QED
  BY <1>3, <1>4, <1>5, ChangeKeepsLive DEF BuildUpdate, WorkerEffect, WorkerTypeOK

LEMMA WorkerSentEffect ==
  ASSUME WorkerTypeOK, NEW w \in DOMAIN worker, WorkerSent(w)
  PROVE  WorkerEffect(w)
<1> DEFINE next == IF loop[w].pc = "none" THEN "start" ELSE "select"
           r == [worker[w] EXCEPT !.pc = next, !.out = NoUpdate]
<1>1. worker[w] \in WorkerState
  BY DEF WorkerTypeOK
<1>2. r \in WorkerState /\ r.pc \in {"start", "select"} /\ r.service = worker[w].service
  BY <1>1 DEF WorkerState
<1>3. worker' = [worker EXCEPT ![w] = r]
  BY DEF WorkerSent
<1>4. r.pc \in {"quit", "done"} <=> worker[w].pc \in {"quit", "done"}
  BY <1>2 DEF WorkerSent
<1> HIDE DEF r
<1> QED
  BY <1>2, <1>3, <1>4, ChangeKeepsLive DEF WorkerSent, WorkerEffect, WorkerTypeOK

LEMMA StartLoopEffect ==
  ASSUME WorkerTypeOK, NEW w \in DOMAIN worker, StartLoop(w)
  PROVE  WorkerEffect(w)
<1> DEFINE src == worker[w].service.src
           r == [worker[w] EXCEPT !.pc = "select"]
           seen == IF Kind[src] = "docker" THEN ver[src] ELSE Unseen
           l == [pc |-> "watch", src |-> src, own |-> TRUE, pings |-> 0, seen |-> seen]
<1>1. worker[w] \in WorkerState
  BY DEF WorkerTypeOK
<1>2. r \in WorkerState /\ r.pc = "select" /\ r.service = worker[w].service
  BY <1>1 DEF WorkerState
<1>3. worker' = [worker EXCEPT ![w] = r]
  BY DEF StartLoop
<1>4. r.pc \in {"quit", "done"} <=> worker[w].pc \in {"quit", "done"}
  BY <1>2 DEF StartLoop
<1>5. src \in Sources
  BY <1>1, WorkerAssumption DEF WorkerState
<1>6. seen \in {Unseen} \cup (0 .. MaxChanges)
  BY <1>5 DEF WorkerTypeOK
<1>7. l \in LoopState
  BY <1>5, <1>6 DEF LoopState
<1>8. loop' = [loop EXCEPT ![w] = l]
  BY DEF StartLoop
<1> HIDE DEF r, l
<1>9. loop' \in Seq(LoopState) /\ Len(loop') = Len(loop)
  BY <1>7, <1>8, ChangeLoop
<1> QED
  BY <1>2, <1>3, <1>4, <1>9, ChangeKeepsLive DEF StartLoop, WorkerEffect, WorkerTypeOK

LEMMA NotifiedEffect ==
  ASSUME WorkerTypeOK, NEW w \in DOMAIN worker, Notified(w)
  PROVE  WorkerEffect(w)
<1> DEFINE r == [worker[w] EXCEPT !.pc = "query"]
<1>1. worker[w] \in WorkerState /\ loop[w] \in LoopState
  BY DEF WorkerTypeOK
<1>2. r \in WorkerState /\ r.pc = "query" /\ r.service = worker[w].service
  BY <1>1 DEF WorkerState
<1>3. worker' = [worker EXCEPT ![w] = r]
  BY DEF Notified
<1>4. r.pc \in {"quit", "done"} <=> worker[w].pc \in {"quit", "done"}
  BY <1>2 DEF Notified
<1>5. loop' \in Seq(LoopState) /\ Len(loop') = Len(loop)
  <2>1. CASE loop' = [loop EXCEPT ![w].pc = "watch"]
    <3> DEFINE l == [loop[w] EXCEPT !.pc = "watch"]
    <3>1. l \in LoopState
      BY <1>1 DEF LoopState
    <3>2. loop' = [loop EXCEPT ![w] = l]
      BY <2>1
    <3> HIDE DEF l
    <3> QED
      BY <3>1, <3>2, ChangeLoop
  <2>2. CASE loop[w].pings > 0 /\ loop' = [loop EXCEPT ![w].pings = @ - 1]
    <3> DEFINE l == [loop[w] EXCEPT !.pings = loop[w].pings - 1]
    <3>1. l \in LoopState
      BY <1>1, <2>2 DEF LoopState
    <3>2. loop' = [loop EXCEPT ![w] = l]
      BY <2>2
    <3> HIDE DEF l
    <3> QED
      BY <3>1, <3>2, ChangeLoop
  <2> QED
    BY <2>1, <2>2 DEF Notified
<1> HIDE DEF r
<1> QED
  BY <1>2, <1>3, <1>4, <1>5, ChangeKeepsLive DEF Notified, WorkerEffect, WorkerTypeOK

LEMMA TakeStopEffect ==
  ASSUME WorkerTypeOK, NEW w \in DOMAIN worker, TakeStop(w)
  PROVE  WorkerEffect(w)
<1> DEFINE r == [worker[w] EXCEPT !.pc = "quit"]
<1>1. worker[w] \in WorkerState
  BY DEF WorkerTypeOK
<1>2. r \in WorkerState /\ r.pc = "quit" /\ r.service = worker[w].service
  BY <1>1 DEF WorkerState
<1>3. worker' = [worker EXCEPT ![w] = r]
  BY DEF TakeStop
<1> HIDE DEF r
<1>4. /\ worker' \in Seq(WorkerState)
      /\ Len(worker') = Len(worker)
      /\ DOMAIN worker' = DOMAIN worker
      /\ worker'[w] = r
      /\ \A v \in DOMAIN worker : v # w => worker'[v] = worker[v]
  BY <1>2, <1>3, ChangeWorker
<1>5. scWorkers = 1 /\ scWorkers' = 0 /\ wg' = wg - 1
  BY DEF TakeStop, WorkerTypeOK
<1>6. Live(w) /\ ~ Live(w)' /\ \A v \in DOMAIN worker : v # w => (Live(v)' <=> Live(v))
  BY <1>2, <1>4 DEF TakeStop, Live
<1>7. w \in LiveWorkers /\ LiveWorkers' = LiveWorkers \ {w}
  BY <1>4, <1>6 DEF LiveWorkers
<1>8. \A v \in DOMAIN worker : worker'[v].service = worker[v].service
  BY <1>2, <1>4
<1>9. WorkerTypeOK'
  BY <1>4, <1>5 DEF TakeStop, WorkerTypeOK
<1> QED
  BY <1>4, <1>5, <1>7, <1>8, <1>9 DEF WorkerEffect, StopTaken

LEMMA QuitEffect ==
  ASSUME WorkerTypeOK, NEW w \in DOMAIN worker, Quit(w)
  PROVE  WorkerEffect(w)
<1> DEFINE r == [worker[w] EXCEPT !.pc = "done"]
           l == [loop[w] EXCEPT !.pc = "done"]
<1>1. worker[w] \in WorkerState /\ loop[w] \in LoopState
  BY DEF WorkerTypeOK
<1>2. r \in WorkerState /\ r.pc = "done" /\ r.service = worker[w].service
  BY <1>1 DEF WorkerState
<1>3. l \in LoopState
  BY <1>1 DEF LoopState
<1>4. worker' = [worker EXCEPT ![w] = r] /\ loop' = [loop EXCEPT ![w] = l]
  BY DEF Quit
<1>5. r.pc \in {"quit", "done"} <=> worker[w].pc \in {"quit", "done"}
  BY <1>2 DEF Quit
<1> HIDE DEF r, l
<1>6. loop' \in Seq(LoopState) /\ Len(loop') = Len(loop)
  BY <1>3, <1>4, ChangeLoop
<1> QED
  BY <1>2, <1>4, <1>5, <1>6, ChangeKeepsLive DEF Quit, WorkerEffect, WorkerTypeOK

\* The steps of a loop leave the workers alone.
LEMMA LoopEffect ==
  ASSUME WorkerTypeOK, NEW w \in DOMAIN worker, LoopRuns(w) \/ StreamBroken(w)
  PROVE  WorkerEffect(w)
<1>1. loop[w] \in LoopState
  BY DEF WorkerTypeOK
<1>2. UNCHANGED <<ver, worker, scWorkers, wg>>
  BY DEF LoopRuns, FileChanged, ListenersChanged, DockerEvent, StreamBroken
<1>3. ver[loop[w].src] \in 0 .. MaxChanges
  BY <1>1 DEF LoopState, WorkerTypeOK
<1>4. PICK l \in LoopState : loop' = [loop EXCEPT ![w] = l]
  <2>1. CASE FileChanged(w) \/ ListenersChanged(w)
    <3> DEFINE l == [loop[w] EXCEPT !.pc = "notify", !.seen = ver[loop[w].src]]
    <3>1. l \in LoopState
      BY <1>1, <1>3 DEF LoopState
    <3>2. loop' = [loop EXCEPT ![w] = l]
      BY <2>1 DEF FileChanged, ListenersChanged
    <3> QED
      BY <3>1, <3>2
  <2>2. CASE DockerEvent(w)
    <3> DEFINE seen == loop[w].seen + 1
               pings == loop[w].pings + 1
               l == [loop[w] EXCEPT !.seen = seen, !.pings = pings]
    <3>1. seen \in 0 .. MaxChanges /\ pings \in Nat
      BY <1>1, <1>3, <2>2, WorkerAssumption DEF DockerEvent, LoopState, Unseen
    <3>3. loop' = [loop EXCEPT ![w] = l]
      BY <2>2 DEF DockerEvent
    <3> HIDE DEF seen, pings
    <3>2. l \in LoopState
      BY <1>1, <3>1 DEF LoopState
    <3> QED
      BY <3>2, <3>3
  <2>3. CASE StreamBroken(w)
    <3> DEFINE l == [loop[w] EXCEPT !.pc = "dead"]
    <3>1. l \in LoopState
      BY <1>1 DEF LoopState
    <3>2. loop' = [loop EXCEPT ![w] = l]
      BY <2>3 DEF StreamBroken
    <3> QED
      BY <3>1, <3>2
  <2> QED
    BY <2>1, <2>2, <2>3 DEF LoopRuns
<1>5. loop' \in Seq(LoopState) /\ Len(loop') = Len(loop)
  BY <1>4, ChangeLoop
<1>6. WorkerTypeOK'
  BY <1>2, <1>5 DEF WorkerTypeOK
<1>7. LiveWorkers' = LiveWorkers
  BY <1>2 DEF LiveWorkers, Live
<1> QED
  BY <1>2, <1>6, <1>7 DEF WorkerEffect

LEMMA WorkerStepEffect ==
  ASSUME WorkerTypeOK, NEW w \in DOMAIN worker, WorkerStep(w) \/ WorkerSent(w)
  PROVE  WorkerEffect(w)
BY QueryDataEffect, BuildUpdateEffect, WorkerSentEffect, StartLoopEffect, NotifiedEffect,
   TakeStopEffect, QuitEffect, LoopEffect DEF WorkerStep, WorkerRuns

-----------------------------------------------------------------------------
(***************************************************************************)
(* Type correctness                                                        *)
(***************************************************************************)
\* While the config applier queries for an update, the worker it has updated is
\* still on the list: nobody else takes workers off it.
QueryHasWorker == caPc = "query" => WorkersNamed(cfg.services[pos].name) # {}

TypeInv == TypeOK /\ QueryHasWorker

LEMMA ServiceAtPos ==
  ASSUME TypeOK, caPc \in {"apply", "query"}, pos <= Len(cfg.services)
  PROVE  cfg \in Config /\ pos \in DOMAIN cfg.services /\ cfg.services[pos] \in Service
<1>1. cfg \in Config
  BY DEF TypeOK
<1>2. cfg.services \in Seq(Service) /\ pos \in Nat \ {0}
  BY <1>1, ApplierAssumption DEF TypeOK
<1>3. pos \in 1 .. Len(cfg.services)
  BY <1>2
<1> QED
  BY <1>1, <1>2, <1>3

\* The worker applyService finds is one of the list.
LEMMA FoundWorker ==
  ASSUME TypeOK, NEW name, WorkersNamed(name) # {}
  PROVE  /\ First(WorkersNamed(name)) \in WorkersNamed(name)
         /\ First(WorkersNamed(name)) \in serviceWorkerList
         /\ First(WorkersNamed(name)) \in DOMAIN worker
<1>1. WorkersNamed(name) \subseteq serviceWorkerList
  BY DEF WorkersNamed
<1>2. serviceWorkerList \subseteq DOMAIN worker /\ DOMAIN worker \subseteq Nat
  BY DEF TypeOK, WorkerTypeOK
<1>3. First(WorkersNamed(name)) \in WorkersNamed(name)
  BY <1>1, <1>2, FirstIsElement
<1> QED
  BY <1>1, <1>2, <1>3

LEMMA InitType == Init => TypeInv
<1> SUFFICES ASSUME Init PROVE TypeInv
  OBVIOUS
<1>1. <<>> \in Seq(WorkerState) /\ <<>> \in Seq(LoopState)
  OBVIOUS
<1>2. ver \in [Sources -> 0 .. MaxChanges]
  BY WorkerAssumption DEF Init, WorkerInit
<1>3. WorkerTypeOK
  BY <1>1, <1>2 DEF Init, WorkerInit, WorkerTypeOK
<1>4. 0 \in 0 .. MaxConfigs
  BY ApplierAssumption
<1>5. reloads \in 0 .. MaxConfigs /\ serviceWorkerList \subseteq DOMAIN worker
  BY <1>4 DEF Init
<1>6. /\ caPc = "select" /\ cfg = NoConfig /\ pos = 1 /\ caOut = NoUpdate
      /\ stopToken \in BOOLEAN
  BY DEF Init
<1>7. TypeOK
  BY <1>3, <1>5, <1>6 DEF TypeOK
<1>8. QueryHasWorker
  BY DEF Init, QueryHasWorker
<1> QED
  BY <1>7, <1>8 DEF TypeInv

\* A step of a worker, its loop or its channel
LEMMA WorkerStepType ==
  ASSUME TypeInv, NEW w \in DOMAIN worker, WorkerStep(w) \/ WorkerSent(w),
         UNCHANGED applierVars
  PROVE  TypeInv'
<1>1. WorkerEffect(w)
  BY WorkerStepEffect DEF TypeInv, TypeOK
<1>2. UNCHANGED <<caPc, cfg, pos, serviceWorkerList, caOut, reloads, stopToken>>
  BY DEF applierVars
<1>3. TypeOK'
  BY <1>1, <1>2 DEF WorkerEffect, TypeInv, TypeOK
<1>4. \A name : WorkersNamed(name)' = WorkersNamed(name)
  BY <1>1, <1>2 DEF WorkerEffect, WorkersNamed, TypeInv, TypeOK
<1>5. QueryHasWorker'
  BY <1>2, <1>4 DEF TypeInv, QueryHasWorker
<1> QED
  BY <1>3, <1>5 DEF TypeInv

LEMMA CreateWorkerType ==
  ASSUME TypeInv, CreateWorker
  PROVE  /\ TypeInv'
         /\ DOMAIN worker' = DOMAIN worker \cup {Len(worker) + 1}
         /\ \A v \in DOMAIN worker : worker'[v] = worker[v]
         /\ worker'[Len(worker) + 1] = NewWorker(cfg, cfg.services[pos])
<1> DEFINE service == cfg.services[pos]
<1>1. cfg \in Config /\ service \in Service
  BY ServiceAtPos DEF CreateWorker, TypeInv
<1>2. NewWorker(cfg, service) \in WorkerState
  BY <1>1, WorkerAssumption DEF NewWorker, WorkerState
<1>3. NewLoop(service) \in LoopState
  BY <1>1, WorkerAssumption DEF NewLoop, LoopState, Unseen
<1>4. /\ worker \in Seq(WorkerState) /\ loop \in Seq(LoopState)
      /\ Len(loop) = Len(worker)
  BY DEF TypeInv, TypeOK, WorkerTypeOK
<1>5. /\ worker' = Append(worker, NewWorker(cfg, service))
      /\ loop' = Append(loop, NewLoop(service))
  BY DEF CreateWorker
<1>6. /\ worker' \in Seq(WorkerState)
      /\ Len(worker') = Len(worker) + 1
      /\ \A i \in 1 .. Len(worker) : worker'[i] = worker[i]
      /\ worker'[Len(worker) + 1] = NewWorker(cfg, service)
  BY <1>2, <1>4, <1>5, AppendProperties
<1>7. loop' \in Seq(LoopState) /\ Len(loop') = Len(loop) + 1
  BY <1>3, <1>4, <1>5, AppendProperties
<1>8. WorkerTypeOK'
  BY <1>4, <1>6, <1>7 DEF CreateWorker, TypeInv, TypeOK, WorkerTypeOK
<1>9. DOMAIN worker' = DOMAIN worker \cup {Len(worker) + 1}
  BY <1>4, <1>6
<1>10. TypeOK'
  BY <1>8, <1>9 DEF CreateWorker, TypeInv, TypeOK
<1>11. QueryHasWorker'
  BY DEF CreateWorker, QueryHasWorker
<1> QED
  BY <1>4, <1>6, <1>9, <1>10, <1>11 DEF TypeInv

LEMMA UpdateWorkerType ==
  ASSUME TypeInv, UpdateWorker
  PROVE  TypeInv' /\ DOMAIN worker' = DOMAIN worker /\ LiveWorkers' = LiveWorkers
<1> DEFINE service == cfg.services[pos]
           w == First(WorkersNamed(service.name))
           r == [worker[w] EXCEPT !.service = service]
           l == [loop[w] EXCEPT !.own = FALSE]
<1>1. pos \in DOMAIN cfg.services /\ service \in Service /\ cfg.services \in Seq(Service)
  BY ServiceAtPos, ApplierAssumption DEF UpdateWorker, TypeInv
<1>2. w \in serviceWorkerList /\ w \in DOMAIN worker
  BY FoundWorker DEF UpdateWorker, TypeInv
<1>3. worker[w] \in WorkerState /\ loop[w] \in LoopState
  BY <1>2 DEF TypeInv, TypeOK, WorkerTypeOK
<1>4. r \in WorkerState /\ r.service = service /\ r.pc = worker[w].pc
  BY <1>1, <1>3 DEF WorkerState
<1>5. l \in LoopState
  BY <1>3 DEF LoopState
<1>6. worker' = [worker EXCEPT ![w] = r] /\ loop' = [loop EXCEPT ![w] = l]
  BY DEF UpdateWorker
<1> HIDE DEF w, r, l
<1>7. /\ worker' \in Seq(WorkerState)
      /\ Len(worker') = Len(worker)
      /\ DOMAIN worker' = DOMAIN worker
      /\ worker'[w] = r
      /\ \A v \in DOMAIN worker : v # w => worker'[v] = worker[v]
  BY <1>2, <1>4, <1>6, ChangeWorker DEF TypeInv, TypeOK
<1>8. loop' \in Seq(LoopState) /\ Len(loop') = Len(loop)
  BY <1>2, <1>5, <1>6, ChangeLoop DEF TypeInv, TypeOK
<1>9. WorkerTypeOK'
  BY <1>7, <1>8 DEF UpdateWorker, TypeInv, TypeOK, WorkerTypeOK
<1>10. UNCHANGED <<cfg, pos, serviceWorkerList, caOut, reloads, stopToken>> /\ caPc' = "query"
       /\ caPc = "apply"
  BY DEF UpdateWorker
<1>11. pos \in 1 .. Len(cfg.services)
  BY <1>1
<1>12. TypeOK'
  BY <1>7, <1>9, <1>10, <1>11 DEF TypeInv, TypeOK
<1>13. w \in WorkersNamed(service.name)'
  BY <1>2, <1>4, <1>7, <1>10 DEF WorkersNamed
<1>14. QueryHasWorker'
  BY <1>10, <1>13 DEF QueryHasWorker
<1>15. \A v \in DOMAIN worker : Live(v)' <=> Live(v)
  BY <1>4, <1>7 DEF Live
<1> QED
  BY <1>7, <1>12, <1>14, <1>15 DEF TypeInv, LiveWorkers

LEMMA QueryForUpdateType ==
  ASSUME TypeInv, QueryForUpdate
  PROVE  TypeInv'
<1> DEFINE w == First(WorkersNamed(cfg.services[pos].name))
<1>1. w \in DOMAIN worker
  BY FoundWorker DEF QueryForUpdate, TypeInv, QueryHasWorker
<1>2. PICK d \in GetDownwardData(w) :
        caOut' = [service |-> worker[w].service, data |-> d, cfg |-> worker[w].cfg]
  BY DEF QueryForUpdate
<1>3. d \in Data
  BY <1>1, <1>2, DownwardDataIsData DEF TypeInv, TypeOK
<1>4. worker[w] \in WorkerState
  BY <1>1 DEF TypeInv, TypeOK, WorkerTypeOK
<1>5. caOut' \in Update
  BY <1>2, <1>3, <1>4 DEF Update, WorkerState
<1>6. WorkerTypeOK'
  BY DEF QueryForUpdate, workerVars, TypeInv, TypeOK, WorkerTypeOK
<1>7. TypeOK'
  BY <1>5, <1>6 DEF QueryForUpdate, workerVars, TypeInv, TypeOK
<1>8. QueryHasWorker'
  BY DEF QueryForUpdate, QueryHasWorker
<1> QED
  BY <1>7, <1>8 DEF TypeInv

\* The remaining steps of the config applier touch neither workers nor loops.
LEMMA ApplierStepType ==
  ASSUME TypeInv,
         \/ \E c \in Config : ReceiveConfig(c)
         \/ ConfigPublished \/ FlushSent \/ UpdateSent
         \/ TakeDown \/ NothingToTakeDown \/ ApplyDone
         \/ SendStopToApplier \/ BeginStop \/ StopWorkers
  PROVE  /\ TypeInv'
         /\ UNCHANGED <<worker, wg>>
<1> USE DEF TypeInv
<1>1. CASE \E c \in Config : ReceiveConfig(c)
  <2>1. PICK c \in Config : ReceiveConfig(c)
    BY <1>1
  <2>2. reloads' \in 0 .. MaxConfigs
    BY <2>1, ApplierAssumption DEF ReceiveConfig, TypeOK
  <2>3. TypeOK'
    BY <2>1, <2>2, ApplierAssumption DEF ReceiveConfig, workerVars, TypeOK, WorkerTypeOK
  <2> QED
    BY <2>1, <2>3 DEF ReceiveConfig, workerVars, QueryHasWorker
<1>2. CASE ConfigPublished \/ FlushSent \/ NothingToTakeDown
  BY <1>2 DEF ConfigPublished, FlushSent, NothingToTakeDown, workerVars,
              TypeOK, WorkerTypeOK, QueryHasWorker
<1>3. CASE UpdateSent \/ ApplyDone
  BY <1>3 DEF UpdateSent, ApplyDone, workerVars, TypeOK, WorkerTypeOK, QueryHasWorker
<1>4. CASE SendStopToApplier \/ BeginStop
  <2>1. TypeOK'
    BY <1>4 DEF SendStopToApplier, BeginStop, workerVars, TypeOK, WorkerTypeOK
  <2>2. QueryHasWorker'
    BY <1>4 DEF SendStopToApplier, BeginStop, workerVars, QueryHasWorker, WorkersNamed
  <2> QED
    BY <1>4, <2>1, <2>2 DEF SendStopToApplier, BeginStop, workerVars
<1>5. CASE TakeDown \/ StopWorkers
  BY <1>5 DEF TakeDown, StopWorkers, SendStop, workerVars, TypeOK, WorkerTypeOK,
              QueryHasWorker
<1> QED
  BY <1>1, <1>2, <1>3, <1>4, <1>5

LEMMA SourceChangesType ==
  ASSUME TypeInv, NEW src \in Sources, SourceChanges(src), UNCHANGED applierVars
  PROVE  TypeInv' /\ UNCHANGED <<worker, scWorkers, wg, serviceWorkerList>>
<1>1. ver' \in [Sources -> 0 .. MaxChanges]
  BY WorkerAssumption DEF SourceChanges, TypeInv, TypeOK, WorkerTypeOK
<1>2. TypeOK'
  BY <1>1 DEF SourceChanges, applierVars, TypeInv, TypeOK, WorkerTypeOK
<1> QED
  BY <1>2 DEF SourceChanges, applierVars, TypeInv, QueryHasWorker, WorkersNamed

LEMMA NextType == TypeInv /\ [Next]_vars => TypeInv'
<1> SUFFICES ASSUME TypeInv, [Next]_vars PROVE TypeInv'
  OBVIOUS
<1>1. CASE Applying
  BY <1>1, CreateWorkerType, UpdateWorkerType, QueryForUpdateType, ApplierStepType
     DEF Applying
<1>2. CASE PartnerOfApplier
  BY <1>2, ApplierStepType DEF PartnerOfApplier
<1>3. CASE \E w \in DOMAIN worker :
             (WorkerStep(w) \/ WorkerSent(w)) /\ UNCHANGED applierVars
  BY <1>3, WorkerStepType
<1>4. CASE Environment
  BY <1>4, ApplierStepType, SourceChangesType DEF Environment
<1>5. CASE UNCHANGED vars
  BY <1>5 DEF vars, workerVars, applierVars, TypeInv, TypeOK, WorkerTypeOK,
              QueryHasWorker, WorkersNamed
<1> QED
  BY <1>1, <1>2, <1>3, <1>4, <1>5 DEF Next

\* Every variable keeps its type, for any configurations, services and sources.
THEOREM TypeCorrect == Spec => []TypeOK
<1>1. Spec => []TypeInv
  BY InitType, NextType, PTL DEF Spec
<1>2. TypeInv => TypeOK
  BY DEF TypeInv
<1> QED
  BY <1>1, <1>2, PTL

-----------------------------------------------------------------------------
(***************************************************************************)
(* Counting workers and stops                                              *)
(***************************************************************************)
LEMMA FiniteWorkers ==
  ASSUME TypeInv
  PROVE  /\ IsFiniteSet(LiveWorkers)
         /\ IsFiniteSet(serviceWorkerList)
         /\ Cardinality(LiveWorkers) \in Nat
         /\ Cardinality(serviceWorkerList) \in Nat
<1>1. Len(worker) \in Nat /\ DOMAIN worker = 1 .. Len(worker)
  BY DEF TypeInv, TypeOK, WorkerTypeOK
<1>2. IsFiniteSet(DOMAIN worker)
  BY <1>1, FS_Interval
<1>3. LiveWorkers \subseteq DOMAIN worker /\ serviceWorkerList \subseteq DOMAIN worker
  BY DEF LiveWorkers, TypeInv, TypeOK
<1>4. IsFiniteSet(LiveWorkers) /\ IsFiniteSet(serviceWorkerList)
  BY <1>2, <1>3, FS_Subset
<1> QED
  BY <1>4, FS_CardinalityType

\* How a step may change the number of live workers, the length of the list, the
\* stops in the channel and the WaitGroup.
Counts == <<Cardinality(LiveWorkers), Cardinality(serviceWorkerList), scWorkers, wg>>

Started ==
  /\ Cardinality(LiveWorkers)' = Cardinality(LiveWorkers) + 1
  /\ Cardinality(serviceWorkerList)' = Cardinality(serviceWorkerList) + 1
  /\ wg' = wg + 1
  /\ UNCHANGED scWorkers

GivenUp ==
  /\ Cardinality(serviceWorkerList) > 0
  /\ Cardinality(serviceWorkerList)' = Cardinality(serviceWorkerList) - 1
  /\ scWorkers = 0
  /\ scWorkers' = 1
  /\ UNCHANGED <<Cardinality(LiveWorkers), wg>>

Stopped ==
  /\ Cardinality(LiveWorkers)' = Cardinality(LiveWorkers) - 1
  /\ scWorkers = 1
  /\ scWorkers' = 0
  /\ wg' = wg - 1
  /\ UNCHANGED Cardinality(serviceWorkerList)

LEMMA CreateWorkerCounts ==
  ASSUME TypeInv, CreateWorker
  PROVE  Started
<1>0. PICK new : new = Len(worker) + 1
  OBVIOUS
<1>1. DOMAIN worker = 1 .. Len(worker) /\ Len(worker) \in Nat
  BY DEF TypeInv, TypeOK, WorkerTypeOK
<1>2. new \notin LiveWorkers /\ new \notin serviceWorkerList
  BY <1>0, <1>1 DEF LiveWorkers, TypeInv, TypeOK
<1>3. /\ DOMAIN worker' = DOMAIN worker \cup {new}
      /\ \A v \in DOMAIN worker : worker'[v] = worker[v]
      /\ worker'[new].pc = "query"
  BY <1>0, CreateWorkerType DEF NewWorker
<1>4. Live(new)' /\ \A v \in DOMAIN worker : Live(v)' <=> Live(v)
  BY <1>3 DEF Live
<1>5. LiveWorkers' = LiveWorkers \cup {new}
  BY <1>3, <1>4 DEF LiveWorkers
<1>6. serviceWorkerList' = serviceWorkerList \cup {new}
  BY <1>0 DEF CreateWorker
<1>7. Cardinality(LiveWorkers \cup {new}) = Cardinality(LiveWorkers) + 1
  BY <1>2, FiniteWorkers, FS_AddElement
<1>8. Cardinality(serviceWorkerList \cup {new}) = Cardinality(serviceWorkerList) + 1
  BY <1>2, FiniteWorkers, FS_AddElement
<1> QED
  BY <1>5, <1>6, <1>7, <1>8 DEF CreateWorker, Started

LEMMA SendStopCounts ==
  ASSUME TypeInv, NEW w \in serviceWorkerList, SendStop(w)
  PROVE  GivenUp
<1>1. serviceWorkerList' = serviceWorkerList \ {w}
  BY DEF SendStop
<1>2. Cardinality(serviceWorkerList \ {w}) = Cardinality(serviceWorkerList) - 1
  BY FiniteWorkers, FS_RemoveElement
<1>3. Cardinality(serviceWorkerList) # 0
  BY FiniteWorkers, FS_EmptySet
<1>4. LiveWorkers' = LiveWorkers
  BY DEF SendStop, LiveWorkers, Live
<1> QED
  BY <1>1, <1>2, <1>3, <1>4, FiniteWorkers DEF SendStop, GivenUp

LEMMA WorkerStepCounts ==
  ASSUME TypeInv, NEW w \in DOMAIN worker, WorkerStep(w) \/ WorkerSent(w),
         UNCHANGED applierVars
  PROVE  Stopped \/ UNCHANGED Counts
<1>1. WorkerEffect(w)
  BY WorkerStepEffect DEF TypeInv, TypeOK
<1>2. UNCHANGED serviceWorkerList
  BY DEF applierVars
<1>3. CASE StopTaken(w)
  <2>1. Cardinality(LiveWorkers \ {w}) = Cardinality(LiveWorkers) - 1
    BY <1>3, FiniteWorkers, FS_RemoveElement DEF StopTaken
  <2> QED
    BY <1>2, <1>3, <2>1 DEF StopTaken, Stopped
<1>4. CASE LiveWorkers' = LiveWorkers /\ UNCHANGED <<scWorkers, wg>>
  BY <1>2, <1>4 DEF Counts
<1> QED
  BY <1>1, <1>3, <1>4 DEF WorkerEffect

\* First(S) is an element of the list when S is a part of it.
LEMMA FirstOfList ==
  ASSUME TypeInv, NEW S \in SUBSET serviceWorkerList, S # {}
  PROVE  First(S) \in serviceWorkerList
<1>1. S \subseteq Nat
  BY DEF TypeInv, TypeOK, WorkerTypeOK
<1> QED
  BY <1>1, FirstIsElement

LEMMA NextCounts ==
  ASSUME TypeInv, [Next]_vars
  PROVE  Started \/ GivenUp \/ Stopped \/ UNCHANGED Counts
<1>1. CASE CreateWorker
  BY <1>1, CreateWorkerCounts
<1>2. CASE TakeDown
  <2>1. NotInModel \in SUBSET serviceWorkerList /\ NotInModel # {}
    BY <1>2 DEF TakeDown, NotInModel
  <2>2. First(NotInModel) \in serviceWorkerList
    BY <2>1, FirstOfList
  <2> QED
    BY <1>2, <2>2, SendStopCounts DEF TakeDown
<1>3. CASE StopWorkers
  <2>1. CASE serviceWorkerList = {}
    BY <1>3, <2>1 DEF StopWorkers, SendStop, workerVars, Counts, LiveWorkers, Live
  <2>2. CASE serviceWorkerList # {}
    BY <1>3, <2>2, FirstOfList, SendStopCounts DEF StopWorkers
  <2> QED
    BY <2>1, <2>2
<1>4. CASE UpdateWorker
  BY <1>4, UpdateWorkerType DEF UpdateWorker, Counts
<1>5. CASE NothingToTakeDown \/ QueryForUpdate \/ ApplyDone \/ BeginStop
  BY <1>5 DEF NothingToTakeDown, QueryForUpdate, ApplyDone, BeginStop, workerVars,
              Counts, LiveWorkers, Live
<1>6. CASE PartnerOfApplier
  BY <1>6 DEF PartnerOfApplier, ConfigPublished, FlushSent, UpdateSent, workerVars,
              Counts, LiveWorkers, Live
<1>7. CASE \E w \in DOMAIN worker :
             (WorkerStep(w) \/ WorkerSent(w)) /\ UNCHANGED applierVars
  BY <1>7, WorkerStepCounts
<1>8. CASE Environment
  BY <1>8 DEF Environment, ReceiveConfig, SendStopToApplier, SourceChanges, workerVars,
              applierVars, Counts, LiveWorkers, Live
<1>9. CASE UNCHANGED vars
  BY <1>9 DEF vars, workerVars, applierVars, Counts, LiveWorkers, Live
<1> QED
  BY <1>1, <1>2, <1>3, <1>4, <1>5, <1>6, <1>7, <1>8, <1>9 DEF Next, Applying

\* The inductive invariant: neither count is inductive without the types, and the
\* types say that serviceWorkerList and LiveWorkers are finite.
CountInv == TypeInv /\ WgCountsWorkers /\ StopsConserved

LEMMA InitCounts == Init => CountInv
<1> SUFFICES ASSUME Init PROVE CountInv
  OBVIOUS
<1>1. LiveWorkers = {} /\ serviceWorkerList = {} /\ scWorkers = 0 /\ wg = 0
  BY DEF Init, WorkerInit, LiveWorkers
<1> QED
  BY <1>1, InitType, FS_EmptySet DEF CountInv, WgCountsWorkers, StopsConserved

LEMMA NextPreservesCounts == CountInv /\ [Next]_vars => CountInv'
<1> SUFFICES ASSUME CountInv, [Next]_vars PROVE CountInv'
  OBVIOUS
<1>1. TypeInv /\ TypeInv'
  BY NextType DEF CountInv
<1>2. scWorkers \in Int /\ wg \in Int
  BY <1>1 DEF TypeInv, TypeOK, WorkerTypeOK
<1>3. Started \/ GivenUp \/ Stopped \/ UNCHANGED Counts
  BY <1>1, NextCounts
<1>4. Cardinality(LiveWorkers) \in Nat /\ Cardinality(serviceWorkerList) \in Nat
  BY <1>1, FiniteWorkers
<1> QED
  BY <1>1, <1>2, <1>3, <1>4
     DEF CountInv, WgCountsWorkers, StopsConserved, Started, GivenUp, Stopped, Counts

LEMMA CountsInvariant == Spec => []CountInv
BY InitCounts, NextPreservesCounts, PTL DEF Spec

\* The WaitGroup is exact: it reaches zero when the last worker has taken a stop
\* and not before, however reloads, stops and workers interleave.
THEOREM WaitGroupExact == Spec => []WgCountsWorkers
<1>1. CountInv => WgCountsWorkers
  BY DEF CountInv
<1> QED
  BY <1>1, CountsInvariant, PTL

\* As many workers are live as are listed or have a stop under way.
THEOREM NoStopLost == Spec => []StopsConserved
<1>1. CountInv => StopsConserved
  BY DEF CountInv
<1> QED
  BY <1>1, CountsInvariant, PTL

-----------------------------------------------------------------------------
(***************************************************************************)
(* The abstract pool                                                       *)
(***************************************************************************)
\* The config applier implements the safety part of WorkerPool.
THEOREM PoolImplemented == Spec => PoolRefinedSafely
<1>1. Init => Pool!Init
  BY FS_EmptySet DEF Init, WorkerInit, Pool!Init, LiveWorkers
<1>2. CountInv /\ [Next]_vars => [Pool!Next]_Pool!pool
  <2> SUFFICES ASSUME CountInv, [Next]_vars PROVE [Pool!Next]_Pool!pool
    OBVIOUS
  <2>1. Started \/ GivenUp \/ Stopped \/ UNCHANGED Counts
    BY NextCounts DEF CountInv
  <2>2. /\ Cardinality(LiveWorkers) = Cardinality(serviceWorkerList) + scWorkers
        /\ Cardinality(serviceWorkerList) \in Nat
    BY FiniteWorkers DEF CountInv, StopsConserved
  <2>3. CASE Started
    BY <2>3 DEF Started, Pool!Next, Pool!Start
  <2>4. CASE GivenUp
    BY <2>2, <2>4 DEF GivenUp, Pool!Next, Pool!GiveUp
  <2>5. CASE Stopped
    BY <2>2, <2>5 DEF Stopped, Pool!Next, Pool!Stop
  <2>6. CASE UNCHANGED Counts
    BY <2>6 DEF Counts, Pool!pool
  <2> QED
    BY <2>1, <2>3, <2>4, <2>5, <2>6
<1> QED
  BY <1>1, <1>2, CountsInvariant, PTL DEF Spec, PoolRefinedSafely, Pool!SafeSpec

-----------------------------------------------------------------------------
(***************************************************************************)
(* One active worker per service                                           *)
(***************************************************************************)
\* Steps that keep the names of the listed workers and add none to the list
LEMMA SameNames ==
  ASSUME OneWorkerPerService,
         serviceWorkerList' \subseteq serviceWorkerList,
         \A v \in serviceWorkerList : worker'[v].service.name = worker[v].service.name
  PROVE  OneWorkerPerService'
BY DEF OneWorkerPerService

LEMMA NextOneWorker ==
  ASSUME TypeInv, OneWorkerPerService, [Next]_vars
  PROVE  OneWorkerPerService'
<1>1. CASE CreateWorker
  <2>0. PICK new : new = Len(worker) + 1
    OBVIOUS
  <2>1. /\ serviceWorkerList' = serviceWorkerList \cup {new}
        /\ WorkersNamed(cfg.services[pos].name) = {}
    BY <1>1, <2>0 DEF CreateWorker
  <2>2. /\ \A v \in serviceWorkerList : worker'[v] = worker[v]
        /\ worker'[new].service = cfg.services[pos]
    BY <1>1, <2>0, CreateWorkerType DEF TypeInv, TypeOK, NewWorker
  <2>3. \A v \in serviceWorkerList : worker[v].service.name # cfg.services[pos].name
    BY <2>1 DEF WorkersNamed
  <2> QED
    BY <2>1, <2>2, <2>3 DEF OneWorkerPerService
<1>2. CASE UpdateWorker
  <2> DEFINE service == cfg.services[pos]
             w == First(WorkersNamed(service.name))
  <2>1. w \in WorkersNamed(service.name) /\ w \in DOMAIN worker
    BY <1>2, FoundWorker DEF UpdateWorker, TypeInv
  <2>2. worker[w].service.name = service.name
    BY <2>1 DEF WorkersNamed
  <2>3. worker' = [worker EXCEPT ![w].service = service] /\ UNCHANGED serviceWorkerList
    BY <1>2 DEF UpdateWorker
  <2>4. worker[w] \in WorkerState
    BY <2>1 DEF TypeInv, TypeOK, WorkerTypeOK
  <2> HIDE DEF w, service
  <2>5. worker'[w].service = service
    BY <2>1, <2>3, <2>4 DEF WorkerState
  <2>6. \A v \in DOMAIN worker : v # w => worker'[v] = worker[v]
    BY <2>3
  <2>7. serviceWorkerList \subseteq DOMAIN worker
    BY DEF TypeInv, TypeOK
  <2>8. \A v \in serviceWorkerList : worker'[v].service.name = worker[v].service.name
    BY <2>2, <2>5, <2>6, <2>7
  <2> QED
    BY <2>3, <2>8, SameNames
<1>3. CASE \E w \in DOMAIN worker :
             (WorkerStep(w) \/ WorkerSent(w)) /\ UNCHANGED applierVars
  <2>1. PICK w \in DOMAIN worker :
              (WorkerStep(w) \/ WorkerSent(w)) /\ UNCHANGED applierVars
    BY <1>3
  <2>2. WorkerEffect(w) /\ UNCHANGED serviceWorkerList
    BY <2>1, WorkerStepEffect DEF TypeInv, TypeOK, applierVars
  <2>3. \A v \in serviceWorkerList : worker'[v].service.name = worker[v].service.name
    BY <2>2 DEF WorkerEffect, TypeInv, TypeOK
  <2> QED
    BY <2>2, <2>3, SameNames
<1>4. CASE UNCHANGED worker /\ serviceWorkerList' \subseteq serviceWorkerList
  BY <1>4, SameNames
<1>5. CASE TakeDown \/ NothingToTakeDown \/ QueryForUpdate \/ ApplyDone \/ BeginStop
           \/ StopWorkers \/ PartnerOfApplier \/ Environment \/ UNCHANGED vars
  BY <1>4, <1>5 DEF TakeDown, NothingToTakeDown, QueryForUpdate, ApplyDone, BeginStop,
                    StopWorkers, SendStop, PartnerOfApplier, ConfigPublished, FlushSent,
                    UpdateSent, Environment, ReceiveConfig, SendStopToApplier,
                    SourceChanges, vars, workerVars, applierVars
<1> QED
  BY <1>1, <1>2, <1>3, <1>5 DEF Next, Applying

\* No service name ever has two active workers, even when a configuration names a
\* service twice or a stop is still under way for an earlier worker of that name.
THEOREM OneWorkerEach == Spec => []OneWorkerPerService
<1>1. Init => OneWorkerPerService
  BY DEF Init, OneWorkerPerService
<1>2. TypeInv /\ OneWorkerPerService /\ [Next]_vars => OneWorkerPerService'
  BY NextOneWorker
<1>3. Spec => []TypeInv
  BY InitType, NextType, PTL DEF Spec
<1> QED
  BY <1>1, <1>2, <1>3, PTL DEF Spec

-----------------------------------------------------------------------------
(***************************************************************************)
(* What an applied configuration leaves behind                             *)
(***************************************************************************)
\* How far the range over cfg.Services has come
ProgressInv ==
  /\ caPc \in {"publish", "flush", "walk"} => pos = 1
  /\ caPc = "select" => pos = 1
  /\ caPc = "select" /\ cfg # NoConfig => AppliedUpTo(Len(cfg.services))
  /\ caPc = "apply" => pos <= Len(cfg.services) + 1 /\ AppliedUpTo(pos - 1)
  /\ caPc \in {"query", "send"} => pos <= Len(cfg.services) /\ AppliedUpTo(pos)

\* Steps that lose no listed worker and no service keep what is applied.
LEMMA AppliedStays ==
  ASSUME NEW n, AppliedUpTo(n),
         cfg' = cfg,
         \A v \in serviceWorkerList :
           v \in serviceWorkerList' /\ worker'[v].service = worker[v].service
  PROVE  \A i \in 1 .. n :
           LastOfItsName(i, n) =>
             \E w \in serviceWorkerList' : worker'[w].service = cfg'.services[i]
BY DEF AppliedUpTo

\* One more service is applied when some listed worker now holds it and the
\* workers of other names have kept theirs.
LEMMA AppliedGrows ==
  ASSUME TypeInv, caPc = "apply", pos <= Len(cfg.services), AppliedUpTo(pos - 1),
         cfg' = cfg,
         NEW w, w \in serviceWorkerList', worker'[w].service = cfg.services[pos],
         \A v \in serviceWorkerList :
           worker[v].service.name # cfg.services[pos].name =>
             v \in serviceWorkerList' /\ worker'[v].service = worker[v].service
  PROVE  \A i \in 1 .. pos :
           LastOfItsName(i, pos) =>
             \E u \in serviceWorkerList' : worker'[u].service = cfg'.services[i]
<1> SUFFICES ASSUME NEW i \in 1 .. pos, LastOfItsName(i, pos)
             PROVE  \E u \in serviceWorkerList' : worker'[u].service = cfg.services[i]
  OBVIOUS
<1>1. pos \in Nat \ {0}
  BY DEF TypeInv, TypeOK
<1>2. CASE i = pos
  BY <1>2
<1>3. CASE i # pos
  <2>1. i \in 1 .. pos - 1 /\ pos \in 1 .. pos
    BY <1>1, <1>3
  <2>2. cfg.services[pos].name # cfg.services[i].name
    BY <1>1, <2>1 DEF LastOfItsName
  <2>3. LastOfItsName(i, pos - 1)
    BY <1>1 DEF LastOfItsName
  <2>4. PICK v \in serviceWorkerList : worker[v].service = cfg.services[i]
    BY <2>1, <2>3 DEF AppliedUpTo
  <2> QED
    BY <2>2, <2>4
<1> QED
  BY <1>2, <1>3

LEMMA NextProgress ==
  ASSUME TypeInv, ProgressInv, [Next]_vars
  PROVE  ProgressInv'
<1>1. CASE \E c \in Config : ReceiveConfig(c)
  BY <1>1 DEF ReceiveConfig, ProgressInv
<1>2. CASE ConfigPublished \/ FlushSent
  BY <1>2 DEF ConfigPublished, FlushSent, ProgressInv
<1>3. CASE TakeDown \/ NothingToTakeDown
  <2>1. caPc = "walk" /\ caPc' = "apply" /\ pos' = pos /\ cfg' = cfg
    BY <1>3 DEF TakeDown, NothingToTakeDown
  <2>2. pos' = 1 /\ cfg \in Config
    BY <2>1 DEF ProgressInv, TypeInv, TypeOK
  <2>3. Len(cfg'.services) \in Nat
    BY <2>1, <2>2, ApplierAssumption
  <2>4. AppliedUpTo(pos - 1)'
    BY <2>2 DEF AppliedUpTo
  <2> QED
    BY <2>1, <2>2, <2>3, <2>4 DEF ProgressInv
<1>4. CASE CreateWorker
  <2>0. PICK new : new = Len(worker) + 1
    OBVIOUS
  <2>1. caPc = "apply" /\ caPc' = "apply" /\ pos <= Len(cfg.services) /\ pos' = pos + 1
        /\ cfg' = cfg /\ serviceWorkerList' = serviceWorkerList \cup {new}
    BY <1>4, <2>0 DEF CreateWorker
  <2>2. /\ \A v \in serviceWorkerList : worker'[v] = worker[v]
        /\ worker'[new].service = cfg.services[pos]
    BY <1>4, <2>0, CreateWorkerType DEF TypeInv, TypeOK, NewWorker
  <2>3. \A i \in 1 .. pos :
          LastOfItsName(i, pos) =>
            \E u \in serviceWorkerList' : worker'[u].service = cfg'.services[i]
    BY <2>1, <2>2, AppliedGrows DEF ProgressInv
  <2>4. pos \in Nat /\ pos' - 1 = pos
    BY <2>1 DEF TypeInv, TypeOK
  <2>5. AppliedUpTo(pos - 1)'
    BY <2>1, <2>3, <2>4 DEF AppliedUpTo, LastOfItsName
  <2>6. Len(cfg.services) \in Nat
    BY <2>1, ApplierAssumption DEF TypeInv, TypeOK
  <2> QED
    BY <2>1, <2>4, <2>5, <2>6 DEF ProgressInv
<1>5. CASE UpdateWorker
  <2> DEFINE service == cfg.services[pos]
             w == First(WorkersNamed(service.name))
  <2>1. caPc = "apply" /\ caPc' = "query" /\ pos <= Len(cfg.services) /\ pos' = pos
        /\ cfg' = cfg /\ UNCHANGED serviceWorkerList
    BY <1>5 DEF UpdateWorker
  <2>2. /\ w \in WorkersNamed(service.name)
        /\ w \in serviceWorkerList
        /\ w \in DOMAIN worker
    BY <1>5, FoundWorker DEF UpdateWorker, TypeInv
  <2>3. worker[w].service.name = service.name /\ worker[w] \in WorkerState
    BY <2>2 DEF WorkersNamed, TypeInv, TypeOK, WorkerTypeOK
  <2>4. worker' = [worker EXCEPT ![w].service = service]
    BY <1>5 DEF UpdateWorker
  <2> HIDE DEF w
  <2>5. worker'[w].service = service /\ \A v \in DOMAIN worker : v # w => worker'[v] = worker[v]
    BY <2>2, <2>3, <2>4 DEF WorkerState
  <2>6. \A v \in serviceWorkerList :
          worker[v].service.name # service.name => worker'[v].service = worker[v].service
    BY <2>3, <2>5 DEF TypeInv, TypeOK
  <2>7. \A i \in 1 .. pos :
          LastOfItsName(i, pos) =>
            \E u \in serviceWorkerList' : worker'[u].service = cfg'.services[i]
    BY <2>1, <2>2, <2>5, <2>6, AppliedGrows DEF ProgressInv
  <2>8. AppliedUpTo(pos)'
    BY <2>1, <2>7 DEF AppliedUpTo, LastOfItsName
  <2> QED
    BY <2>1, <2>8 DEF ProgressInv
<1>6. CASE UNCHANGED <<worker, cfg, serviceWorkerList>> /\ TypeInv'
           /\ (QueryForUpdate \/ UpdateSent \/ ApplyDone \/ SendStopToApplier \/ BeginStop)
  <2>1. \A n : AppliedUpTo(n)' <=> AppliedUpTo(n)
    BY <1>6 DEF AppliedUpTo, LastOfItsName
  <2>2. pos \in Nat
    BY DEF TypeInv, TypeOK
  <2>3. CASE QueryForUpdate
    BY <1>6, <2>1, <2>3 DEF QueryForUpdate, ProgressInv
  <2>4. CASE UpdateSent
    <3>1. caPc' = "apply" /\ pos' = pos + 1 /\ pos' - 1 = pos /\ pos <= Len(cfg.services)
      BY <2>2, <2>4 DEF UpdateSent, ProgressInv
    <3>2. AppliedUpTo(pos) /\ cfg \in Config
      BY <2>4 DEF UpdateSent, ProgressInv, TypeInv, TypeOK
    <3>3. Len(cfg.services) \in Nat
      BY <3>2, ApplierAssumption
    <3> QED
      BY <1>6, <2>1, <2>2, <3>1, <3>2, <3>3 DEF ProgressInv
  <2>5. CASE ApplyDone
    <3>1. caPc' = "select" /\ pos' = 1 /\ pos > Len(cfg.services) /\ cfg \in Config
          /\ AppliedUpTo(pos - 1) /\ pos <= Len(cfg.services) + 1
      BY <2>5 DEF ApplyDone, ProgressInv, TypeInv, TypeOK
    <3>2. Len(cfg.services) \in Nat
      BY <3>1, ApplierAssumption
    <3>3. pos - 1 = Len(cfg.services)
      BY <2>2, <3>1, <3>2
    <3> QED
      BY <1>6, <2>1, <3>1, <3>3 DEF ProgressInv
  <2>6. CASE SendStopToApplier
    BY <1>6, <2>1, <2>6 DEF SendStopToApplier, ProgressInv
  <2>7. CASE BeginStop
    BY <2>7 DEF BeginStop, ProgressInv
  <2> QED
    BY <1>6, <2>3, <2>4, <2>5, <2>6, <2>7
<1>7. CASE StopWorkers
  BY <1>7 DEF StopWorkers, ProgressInv
<1>8. CASE UNCHANGED <<caPc, cfg, pos, serviceWorkerList>>
           /\ \A v \in serviceWorkerList : worker'[v].service = worker[v].service
  <2>1. \A n : AppliedUpTo(n)' <=> AppliedUpTo(n)
    BY <1>8 DEF AppliedUpTo, LastOfItsName
  <2> QED
    BY <1>8, <2>1 DEF ProgressInv
<1>9. CASE \E w \in DOMAIN worker :
             (WorkerStep(w) \/ WorkerSent(w)) /\ UNCHANGED applierVars
  <2>1. PICK w \in DOMAIN worker :
              (WorkerStep(w) \/ WorkerSent(w)) /\ UNCHANGED applierVars
    BY <1>9
  <2>2. WorkerEffect(w) /\ UNCHANGED <<caPc, cfg, pos, serviceWorkerList>>
    BY <2>1, WorkerStepEffect DEF TypeInv, TypeOK, applierVars
  <2>3. \A v \in serviceWorkerList : worker'[v].service = worker[v].service
    BY <2>2 DEF WorkerEffect, TypeInv, TypeOK
  <2> QED
    BY <1>8, <2>2, <2>3
<1>10. CASE (\E src \in Sources : SourceChanges(src) /\ UNCHANGED applierVars)
            \/ UNCHANGED vars
  BY <1>8, <1>10 DEF SourceChanges, vars, workerVars, applierVars
<1>11. CASE QueryForUpdate \/ UpdateSent \/ ApplyDone \/ SendStopToApplier \/ BeginStop
  BY <1>6, <1>11, NextType
     DEF QueryForUpdate, UpdateSent, ApplyDone, SendStopToApplier, BeginStop, workerVars
<1> QED
  BY <1>1, <1>2, <1>3, <1>4, <1>5, <1>7, <1>9, <1>10, <1>11
     DEF Next, Applying, PartnerOfApplier, Environment

\* Whenever the config applier waits for the next configuration, each service of the
\* last one has an active worker that holds it, whatever the number of reloads.
THEOREM ConfigIsApplied == Spec => []AppliedConfig
<1>1. Init => ProgressInv
  BY DEF Init, ProgressInv
<1>2. TypeInv /\ ProgressInv /\ [Next]_vars => ProgressInv'
  BY NextProgress
<1>3. Spec => []TypeInv
  BY InitType, NextType, PTL DEF Spec
<1>4. ProgressInv => AppliedConfig
  BY DEF ProgressInv, AppliedConfig
<1> QED
  BY <1>1, <1>2, <1>3, <1>4, PTL DEF Spec

=============================================================================
