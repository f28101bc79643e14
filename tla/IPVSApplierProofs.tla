-------------------------- MODULE IPVSApplierProofs --------------------------
(***************************************************************************)
(* Theorems about IPVSApplier, for any services, configurations, lists of  *)
(* backends, orders of the map and failures of the calls.                  *)
(***************************************************************************)
EXTENDS IPVSApplier, FiniteSetTheorems, WellFoundedInduction, TLAPS

USE DEF OrDefault, Documented, ExecType

\* The cache holds, under each name, an update of that service.
Cached == \A name \in DOMAIN services :
            services[name] \in Message /\ services[name].service.name = name

\* The variables have their types, whatever is cached, flushed, applied and fails
\* (ipvsapplier.go:62-232).
THEOREM IPVSTypeCorrect == IPVSSpec => []IPVSTypeOK
<1>1. IPVSInit => IPVSTypeOK
  <2>1. SUFFICES ASSUME IPVSInit PROVE IPVSTypeOK
    OBVIOUS
  <2>2. apPc = "select" /\ apCfg = NoConfig /\ DOMAIN services = {}
    BY <2>1 DEF IPVSInit
  <2>3. err \in BOOLEAN
    BY <2>1, Zenon DEF IPVSInit
  <2>4. QED
    BY <2>2, <2>3 DEF IPVSTypeOK
<1>2. IPVSTypeOK /\ [IPVSNext]_ipvsVars => IPVSTypeOK'
  <2>1. SUFFICES ASSUME IPVSTypeOK, [IPVSNext]_ipvsVars
                 PROVE  IPVSTypeOK'
    OBVIOUS
  <2>2. ASSUME NEW u \in Message, Integrate(u)
        PROVE  IPVSTypeOK'
    <3>1. u.cfg \in Config /\ NoConfig \notin Config
      BY UpdateAssumption DEF Message
    <3>2. Cached'
      BY <2>1, <2>2 DEF Integrate, IPVSTypeOK, Updated, Cached
    <3>3. apPc' = "apply" /\ apCfg' = u.cfg /\ err' = err
      BY <2>2 DEF Integrate
    <3>4. err \in BOOLEAN
      BY <2>1 DEF IPVSTypeOK
    <3>5. err' \in BOOLEAN
      BY <3>3, <3>4, Zenon
    <3>6. QED
      BY <3>1, <3>2, <3>3, <3>5 DEF IPVSTypeOK, Cached
  <2>3. CASE Flush
    BY <2>1, <2>3 DEF Flush, IPVSTypeOK
  <2>4. CASE IPVSApplying
    <3>1. err' \in BOOLEAN
      BY <2>4 DEF IPVSApplying, WriteFile, RunIpvsctl, UnknownExecType
    <3>2. QED
      BY <2>1, <2>4, <3>1
         DEF IPVSApplying, WriteFile, RunIpvsctl, UnknownExecType, IPVSTypeOK
  <2>5. CASE ModelPublished \/ StopIPVSApplier \/ UNCHANGED ipvsVars
    <3>1. err' = err /\ err \in BOOLEAN
      BY <2>1, <2>5 DEF ModelPublished, StopIPVSApplier, ipvsVars, IPVSTypeOK
    <3>2. err' \in BOOLEAN
      BY <3>1, Zenon
    <3>3. QED
      BY <2>1, <2>5, <3>2 DEF ModelPublished, StopIPVSApplier, ipvsVars, IPVSTypeOK
  <2>6. QED
    BY <2>1, <2>2, <2>3, <2>4, <2>5 DEF IPVSNext
<1>3. QED  BY <1>1, <1>2, PTL DEF IPVSSpec

\* ipvsctl runs on the file only after it was written for this update.
ExecReadsTarget ==
  apPc = "exec" => file = target /\ ExecType = "file-and-exec"

\* What was cached and built leaves that alone, because nothing is under way.
LEMMA InstallStep ==
  ExecReadsTarget /\ InstalledOrError /\ [IPVSNext]_ipvsVars
    => ExecReadsTarget' /\ InstalledOrError'
<1>1. SUFFICES ASSUME ExecReadsTarget, InstalledOrError, [IPVSNext]_ipvsVars
               PROVE  ExecReadsTarget' /\ InstalledOrError'
  OBVIOUS
<1>2. CASE Flush \/ ModelPublished \/ StopIPVSApplier
  BY <1>2 DEF Flush, ModelPublished, StopIPVSApplier, ExecReadsTarget, InstalledOrError
<1>3. ASSUME NEW u \in Message, Integrate(u)
      PROVE  ExecReadsTarget' /\ InstalledOrError'
  <2>1. apPc' = "apply"
    BY <1>3 DEF Integrate
  <2>2. QED  BY <2>1 DEF ExecReadsTarget, InstalledOrError
<1>4. CASE WriteFile
  BY <1>4 DEF WriteFile, ExecReadsTarget, InstalledOrError
<1>5. CASE RunIpvsctl
  BY <1>1, <1>5 DEF RunIpvsctl, ExecReadsTarget, InstalledOrError
<1>6. CASE UnknownExecType
  BY <1>6 DEF UnknownExecType, ExecReadsTarget, InstalledOrError
<1>7. CASE UNCHANGED ipvsVars
  BY <1>1, <1>7 DEF ipvsVars, ExecReadsTarget, InstalledOrError
<1>8. QED
  BY <1>1, <1>2, <1>3, <1>4, <1>5, <1>6, <1>7 DEF IPVSNext, IPVSApplying

LEMMA InstallInit == IPVSInit => ExecReadsTarget /\ InstalledOrError
  BY DEF IPVSInit, ExecReadsTarget, InstalledOrError

\* Unless an error was logged, what the execution type names is up to date when the
\* publishers are told (ipvsapplier.go:168-195, 224).
THEOREM AlwaysInstalledOrError == IPVSSpec => []InstalledOrError
<1>1. QED  BY InstallInit, InstallStep, PTL DEF IPVSSpec

\* Whatever fails, the table of the kernel is only changed to the model of the update at
\* hand, or by a failing ipvsctl: never to an older or half-written file
\* (ipvsapplier.go:175-180).
THEOREM TableAlwaysFromUpdate == IPVSSpec => TableFromUpdate
<1>1. ExecReadsTarget /\ [IPVSNext]_ipvsVars => [TableStep]_ipvsVars
  <2>1. SUFFICES ASSUME ExecReadsTarget, IPVSNext PROVE TableStep
    OBVIOUS
  <2>2. CASE RunIpvsctl
    BY <2>1, <2>2 DEF RunIpvsctl, ExecReadsTarget, TableStep
  <2>3. CASE UNCHANGED kernel
    BY <2>3 DEF TableStep
  <2>4. QED
    BY <2>1, <2>2, <2>3
       DEF IPVSNext, Flush, Integrate, IPVSApplying, WriteFile, UnknownExecType, ModelPublished,
           StopIPVSApplier
<1>2. IPVSSpec => []ExecReadsTarget
  BY InstallInit, InstallStep, PTL DEF IPVSSpec
<1>3. QED  BY <1>1, <1>2, PTL DEF IPVSSpec, TableFromUpdate

-----------------------------------------------------------------------------
(***************************************************************************)
(* The model and the cache                                                 *)
(***************************************************************************)
\* The number that no other of the set exceeds is its maximum.
LEMMA MaxIs ==
  ASSUME NEW S \in SUBSET Int, NEW x \in S, \A y \in S : x >= y
  PROVE  Max(S) = x
<1>1. \A y \in S : Max(S) >= y
  BY DEF Max
<1>2. Max(S) \in S
  BY DEF Max
<1>3. Max(S) >= x /\ x >= Max(S) /\ Max(S) \in Int /\ x \in Int
  BY <1>1, <1>2
<1> HIDE DEF Max
<1>4. QED  BY <1>3

\* The cache under integration
CacheOK(cache) ==
  /\ IsFiniteSet(DOMAIN cache)
  /\ \A name \in DOMAIN cache :
       cache[name] \in Message /\ cache[name].service.name = name

\* Every order in which a map can be ranged over visits each name with backends once.
LEMMA OrderVisitsEach ==
  ASSUME NEW cache, CacheOK(cache), NEW order \in SetToSeqs(NonEmpty(cache))
  PROVE  /\ Cardinality(NonEmpty(cache)) \in Nat
         /\ DOMAIN order = 1 .. Cardinality(NonEmpty(cache))
         /\ Len(order) = Cardinality(NonEmpty(cache))
         /\ \A p \in DOMAIN order :
              order[p] \in NonEmpty(cache) /\ cache[order[p]].data \in Data
<1>1. NonEmpty(cache) \subseteq DOMAIN cache
  BY DEF NonEmpty
<1>2. Cardinality(NonEmpty(cache)) \in Nat
  BY <1>1, FS_Subset, FS_CardinalityType DEF CacheOK
<1>3. order \in [1 .. Cardinality(NonEmpty(cache)) -> NonEmpty(cache)]
  BY DEF SetToSeqs
<1>4. QED  BY <1>1, <1>2, <1>3 DEF CacheOK, Message

\* The entry of the model for the service visited at position p
Visited(u, cache, order, p) ==
  LET data  == cache[order[p]].data
      lists == [q \in DOMAIN order |-> cache[order[q]].data]
  IN  [address |-> u.service.address,
       name    |-> u.service.name,
       sched   |-> Sched(u.service),
       destinations |->
         [i \in DOMAIN data |->
           [address |-> data[i].address,
            forward |-> Forward(u.service),
            weight  |-> Carried(Weight(u.service), lists, p, i)]]]

\* The model has one entry for each position of the order, and no other.
LEMMA ModelShape ==
  ASSUME NEW u, NEW cache, CacheOK(cache), NEW order \in SetToSeqs(NonEmpty(cache))
  PROVE  /\ Len(Model(u, cache, order)) = Len(order)
         /\ DOMAIN Model(u, cache, order) = DOMAIN order
         /\ \A p \in DOMAIN order : Model(u, cache, order)[p] = Visited(u, cache, order, p)
<1>1. /\ Cardinality(NonEmpty(cache)) \in Nat
      /\ DOMAIN order = 1 .. Cardinality(NonEmpty(cache))
      /\ Len(order) = Cardinality(NonEmpty(cache))
  BY OrderVisitsEach
<1>2. DOMAIN Model(u, cache, order) = DOMAIN order
  BY DEF Model
<1>3. Len(Model(u, cache, order)) = Len(order)
  BY <1>1, <1>2
<1>4. ASSUME NEW p \in DOMAIN order
      PROVE  Model(u, cache, order)[p] = Visited(u, cache, order, p)
  BY DEF Model, Visited
<1>5. QED  BY <1>2, <1>3, <1>4

\* A backend that came with a weight keeps it, whatever w was.
LEMMA OwnWeightKept ==
  ASSUME NEW w, NEW lists, NEW p \in Nat \ {0}, DOMAIN lists[p] \subseteq Int,
         NEW i \in DOMAIN lists[p], lists[p][i].weight >= 0
  PROVE  Carried(w, lists, p, i) = lists[p][i].weight
<1> DEFINE given(q) == {j \in DOMAIN lists[q] : (q < p \/ j <= i) /\ lists[q][j].weight >= 0}
           giving == {q \in 1 .. p : given(q) # {}}
<1>1. given(p) \in SUBSET Int /\ i \in given(p) /\ \A j \in given(p) : i >= j
  OBVIOUS
<1>2. Max(given(p)) = i
  <2> HIDE DEF given
  <2>1. QED  BY <1>1, MaxIs
<1>3. giving \in SUBSET Int /\ p \in giving /\ \A q \in giving : p >= q
  BY <1>1
<1>4. Max(giving) = p
  <2> HIDE DEF giving
  <2>1. QED  BY <1>3, MaxIs
<1>5. Carried(w, lists, p, i) =
        IF giving = {} THEN w ELSE lists[Max(giving)][Max(given(Max(giving)))].weight
  BY DEF Carried
<1> HIDE DEF given, giving
<1>6. QED  BY <1>2, <1>3, <1>4, <1>5

\* A set of numbers up to n has a greatest one.
LEMMA HasMax ==
  ASSUME NEW n \in Nat, NEW S, S \subseteq 1 .. n, S # {}
  PROVE  Max(S) \in S
<1> DEFINE Below == {n - x : x \in S}
<1>1. PICK b \in Below : \A c \in Below : ~ (<<c, b>> \in OpToRel(<, Nat))
  <2>1. Below # {}
    OBVIOUS
  <2>2. \A x \in S : n - x \in Nat
    OBVIOUS
  <2>3. Below \subseteq Nat
    BY <2>2
  <2> HIDE DEF Below
  <2> QED
    BY <2>1, <2>3, NatLessThanWellFounded, WFMin, Zenon
<1>2. PICK x \in S : b = n - x
  OBVIOUS
<1>3. ASSUME NEW y \in S PROVE x >= y
  <2>1. n - y \in Below /\ n - y \in Nat /\ b \in Nat
    OBVIOUS
  <2>2. n - y < b => <<n - y, b>> \in OpToRel(<, Nat)
    <3> SUFFICES ASSUME n - y < b PROVE <<n - y, b>> \in OpToRel(<, Nat)
      OBVIOUS
    <3>1. <<n - y, b>> \in Nat \X Nat /\ <<n - y, b>>[1] < <<n - y, b>>[2]
      BY <2>1
    <3> QED
      BY <3>1, Zenon DEF OpToRel
  <2>3. ~ (n - y < b)
    <3> HIDE DEF Below
    <3> QED
      BY <1>1, <2>1, <2>2
  <2> QED
    BY <1>2, <2>3
<1> QED
  BY <1>3 DEF Max

\* In the first list a backend without a weight has the one that w was set to before the
\* loops, or that of a backend before it.
LEMMA FirstListWeight ==
  ASSUME NEW w, NEW lists, NEW n \in Nat, DOMAIN lists[1] = 1 .. n,
         \A j \in 1 .. n : lists[1][j].weight \in Int,
         NEW i \in 1 .. n, lists[1][i].weight < 0,
         Carried(w, lists, 1, i) # w
  PROVE  TakesOver(lists[1], i, Carried(w, lists, 1, i))
<1> DEFINE given(q) == {j \in DOMAIN lists[q] : (q < 1 \/ j <= i) /\ lists[q][j].weight >= 0}
           giving == {q \in 1 .. 1 : given(q) # {}}
<1>1. Carried(w, lists, 1, i) =
        IF giving = {} THEN w ELSE lists[Max(giving)][Max(given(Max(giving)))].weight
  BY DEF Carried
<1>2. given(1) \subseteq 1 .. n /\ \A j \in given(1) : j <= i /\ lists[1][j].weight >= 0
  OBVIOUS
<1>3. giving = {} \/ (giving = {1} /\ given(1) # {})
  <2>1. giving \subseteq {1} /\ (1 \in giving => given(1) # {})
    OBVIOUS
  <2> HIDE DEF giving
  <2>2. QED  BY <2>1
<1> HIDE DEF given, giving
<1>4. giving = {1} /\ given(1) # {}
  BY <1>1, <1>3
<1>5. Max(giving) = 1
  <2>1. giving \in SUBSET Int /\ 1 \in giving /\ \A y \in giving : 1 >= y
    BY <1>4
  <2>2. QED  BY <2>1, MaxIs
<1>6. Max(given(1)) \in given(1)
  BY <1>2, <1>4, HasMax
<1>7. Carried(w, lists, 1, i) = lists[1][Max(given(1))].weight
  BY <1>1, <1>4, <1>5
<1>8. /\ Max(given(1)) \in 1 .. i - 1
      /\ lists[1][Max(given(1))].weight >= 0
  <2>1. Max(given(1)) # i
    BY <1>2, <1>6
  <2>2. QED  BY <1>2, <1>6, <2>1
<1>9. QED  BY <1>7, <1>8 DEF TakesOver

\* An update is in the cache under the name of its service, and the model was built
\* from it, for some order.
Built ==
  \E u \in Message, order \in SetToSeqs(NonEmpty(services)) :
    /\ u.service.name \in DOMAIN services
    /\ services[u.service.name] = u
    /\ target = Model(u, services, order)

\* The inductive invariant: an empty cache is a flushed one, any other was filled by
\* the update that built the model.
BuiltInv ==
  /\ CacheOK(services)
  /\ Processed => services # <<>>
  /\ services # <<>> => Built

LEMMA BuiltInit == IPVSInit => BuiltInv
<1>1. SUFFICES ASSUME IPVSInit PROVE BuiltInv
  OBVIOUS
<1>2. services = <<>> /\ DOMAIN services = {} /\ apPc = "select"
  BY <1>1 DEF IPVSInit
<1>3. QED  BY <1>2, FS_EmptySet DEF BuiltInv, CacheOK, Processed

LEMMA IntegrateBuilds ==
  ASSUME CacheOK(services), NEW u \in Message, Integrate(u)
  PROVE  CacheOK(services') /\ services' # <<>> /\ Built'
<1> DEFINE name == u.service.name
<1>1. /\ DOMAIN services' = DOMAIN services \cup {name}
      /\ services'[name] = u
      /\ \A other \in DOMAIN services : other # name => services'[other] = services[other]
  BY DEF Integrate, Updated
<1>2. IsFiniteSet(DOMAIN services')
  BY <1>1, FS_AddElement DEF CacheOK
<1>3. CacheOK(services')
  BY <1>1, <1>2 DEF CacheOK
<1>4. services' # <<>>
  <2>1. DOMAIN services' # {} /\ DOMAIN <<>> = {}
    BY <1>1
  <2>2. QED  BY <2>1
<1>5. PICK order \in SetToSeqs(NonEmpty(services')) : target' = Model(u, services', order)
  BY DEF Integrate
<1>6. Built'
  BY <1>1, <1>5 DEF Built
<1>7. QED  BY <1>3, <1>4, <1>6

LEMMA BuiltStep == BuiltInv /\ [IPVSNext]_ipvsVars => BuiltInv'
<1>1. SUFFICES ASSUME BuiltInv, [IPVSNext]_ipvsVars PROVE BuiltInv'
  OBVIOUS
<1>2. CASE Flush
  <2>1. services' = <<>> /\ DOMAIN services' = {} /\ apPc' = "select"
    BY <1>2 DEF Flush
  <2>2. QED  BY <2>1, FS_EmptySet DEF BuiltInv, CacheOK, Processed
<1>3. CASE \E u \in Message : Integrate(u)
  BY <1>1, <1>3, IntegrateBuilds DEF BuiltInv
<1>4. CASE UNCHANGED <<services, target>> /\ (Processed' => Processed)
  BY <1>1, <1>4 DEF BuiltInv, Built
<1>5. CASE IPVSApplying \/ ModelPublished \/ StopIPVSApplier \/ UNCHANGED ipvsVars
  BY <1>4, <1>5 DEF IPVSApplying, WriteFile, RunIpvsctl, UnknownExecType, ModelPublished,
                    StopIPVSApplier, ipvsVars, Processed
<1>6. QED  BY <1>1, <1>2, <1>3, <1>5 DEF IPVSNext

\* The destinations of a model are the backends of the cached services.
DestinationsAreTheBackends ==
  \E order \in SetToSeqs(NonEmpty(services)) :
    /\ Len(order) = Len(target)
    /\ \A p \in DOMAIN order :
         LET data == services[order[p]].data
             dest == target[p].destinations
         IN  /\ Addresses(dest) = Addresses(data)
             /\ \A i \in DOMAIN data :
                  data[i].weight >= 0 => dest[i].weight = data[i].weight

LEMMA BuiltIsExact ==
  ASSUME CacheOK(services), Built
  PROVE  DestinationsAreTheBackends
<1>1. PICK u \in Message, order \in SetToSeqs(NonEmpty(services)) :
        target = Model(u, services, order)
  BY DEF Built
<1>2. Len(order) = Len(target)
  BY <1>1, ModelShape
<1>3. ASSUME NEW p \in DOMAIN order
      PROVE  LET data == services[order[p]].data
                 dest == target[p].destinations
             IN  /\ Addresses(dest) = Addresses(data)
                 /\ \A i \in DOMAIN data :
                      data[i].weight >= 0 => dest[i].weight = data[i].weight
  <2> DEFINE lists == [q \in DOMAIN order |-> services[order[q]].data]
             data == services[order[p]].data
             dest == [i \in DOMAIN data |->
                       [address |-> data[i].address,
                        forward |-> Forward(u.service),
                        weight  |-> Carried(Weight(u.service), lists, p, i)]]
  <2>1. target[p].destinations = dest
    <3>1. target[p] = Visited(u, services, order, p)
      BY <1>1, ModelShape
    <3>2. Visited(u, services, order, p).destinations = dest
      BY DEF Visited
    <3> HIDE DEF dest
    <3>3. QED  BY <3>1, <3>2
  <2>2. data \in Data /\ p \in Nat \ {0}
    BY OrderVisitsEach
  <2>3. DOMAIN data \subseteq Int
    <3> HIDE DEF data
    <3>1. data \in Seq(ToSet(data))
      BY <2>2, UpdateAssumption
    <3>2. QED  BY <3>1
  <2>4. lists[p] = data
    OBVIOUS
  <2>5. ASSUME NEW i \in DOMAIN data, data[i].weight >= 0
        PROVE  dest[i].weight = data[i].weight
    <3>1. Carried(Weight(u.service), lists, p, i) = lists[p][i].weight
      <4> HIDE DEF lists, data
      <4>1. QED  BY <2>2, <2>3, <2>4, <2>5, OwnWeightKept
    <3>2. QED  BY <2>4, <3>1
  <2>6. Addresses(dest) = Addresses(data)
    BY DEF Addresses
  <2> HIDE DEF dest
  <2>7. QED  BY <2>1, <2>5, <2>6
<1>4. QED  BY <1>2, <1>3 DEF DestinationsAreTheBackends

\* Whatever is cached, flushed and applied before, and in whatever order the map is
\* ranged over, no backend of any cached service is lost, duplicated or moved, and
\* each that came with a weight keeps it (ipvsapplier.go:103-133).
THEOREM DestinationsAlwaysExact == IPVSSpec => []DestinationsExact
<1>1. BuiltInv => DestinationsExact
  <2>1. SUFFICES ASSUME BuiltInv, Processed PROVE DestinationsAreTheBackends
    BY DEF DestinationsExact, DestinationsAreTheBackends
  <2>2. QED  BY <2>1, BuiltIsExact DEF BuiltInv
<1>2. QED  BY <1>1, BuiltInit, BuiltStep, PTL DEF IPVSSpec

\* What LoneServiceAsAsked says of an update and its entry
AsAsked(u, entry) ==
  LET own == OwnEntry(u).destinations
      dest == entry.destinations
  IN  /\ entry = [OwnEntry(u) EXCEPT !.destinations = dest]
      /\ DOMAIN dest = DOMAIN own
      /\ \A i \in DOMAIN own :
           \/ dest[i] = own[i]
           \/ /\ TakesOver(u.data, i, dest[i].weight)
              /\ dest[i] = [own[i] EXCEPT !.weight = dest[i].weight]

\* A service that is ranged over first gets the entry its own update asks for, if the
\* model was built for that update.
LEMMA FirstVisitedAsAsked ==
  ASSUME CacheOK(services), NEW u \in Message, NEW order \in SetToSeqs(NonEmpty(services)),
         1 \in DOMAIN order, services[order[1]] = u
  PROVE  AsAsked(u, Visited(u, services, order, 1))
<1> DEFINE lists == [q \in DOMAIN order |-> services[order[q]].data]
           w == Weight(u.service)
           dest == [i \in DOMAIN u.data |->
                     [address |-> u.data[i].address,
                      forward |-> Forward(u.service),
                      weight  |-> Carried(w, lists, 1, i)]]
           own == OwnEntry(u).destinations
<1>1. lists[1] = u.data /\ u.data \in Data
  BY DEF Message
<1>2. PICK n \in Nat : DOMAIN u.data = 1 .. n
  <2>1. u.data \in Seq(ToSet(u.data))
    BY <1>1, UpdateAssumption
  <2>2. QED  BY <2>1
<1>3. \A i \in 1 .. n : u.data[i].weight \in Int
  BY <1>1, <1>2, UpdateAssumption
<1>4. Visited(u, services, order, 1) =
        [address |-> u.service.address, name |-> u.service.name, sched |-> Sched(u.service),
         destinations |-> dest]
  BY DEF Visited
<1>5. own = [i \in DOMAIN u.data |->
              [address |-> u.data[i].address,
               forward |-> Forward(u.service),
               weight  |-> IF u.data[i].weight >= 0 THEN u.data[i].weight ELSE w]]
  BY DEF OwnEntry, Forward, Weight
<1>6. ASSUME NEW i \in 1 .. n
      PROVE  \/ dest[i] = own[i]
             \/ /\ TakesOver(u.data, i, dest[i].weight)
                /\ dest[i] = [own[i] EXCEPT !.weight = dest[i].weight]
  <2> DEFINE c == Carried(w, lists, 1, i)
  <2>1. /\ dest[i] = [address |-> u.data[i].address, forward |-> Forward(u.service),
                      weight |-> c]
        /\ own[i] = [address |-> u.data[i].address, forward |-> Forward(u.service),
                     weight |-> IF u.data[i].weight >= 0 THEN u.data[i].weight ELSE w]
    BY <1>2, <1>5
  <2>2. CASE u.data[i].weight >= 0
    <3>1. c = u.data[i].weight
      <4> HIDE DEF lists, w
      <4>1. QED  BY <1>1, <1>2, <2>2, OwnWeightKept
    <3> HIDE DEF c, dest, own
    <3>2. QED  BY <2>1, <2>2, <3>1
  <2>3. CASE u.data[i].weight < 0 /\ c = w
    <3>1. ~ (u.data[i].weight >= 0)
      BY <1>3, <2>3
    <3> HIDE DEF c, dest, own
    <3>2. QED  BY <2>1, <2>3, <3>1
  <2>4. CASE u.data[i].weight < 0 /\ c # w
    <3>1. TakesOver(u.data, i, c)
      <4> HIDE DEF lists, w
      <4>1. QED  BY <1>1, <1>2, <1>3, <2>4, FirstListWeight
    <3> HIDE DEF c, dest, own
    <3>2. dest[i].weight = c /\ dest[i] = [own[i] EXCEPT !.weight = c]
      BY <2>1
    <3>3. QED  BY <3>1, <3>2
  <2>5. QED  BY <1>3, <2>2, <2>3, <2>4
<1>7. DOMAIN dest = DOMAIN own /\ DOMAIN own = 1 .. n
  BY <1>2, <1>5
<1>8. Visited(u, services, order, 1) = [OwnEntry(u) EXCEPT !.destinations = dest]
  <2>1. OwnEntry(u) = [address |-> u.service.address, name |-> u.service.name,
                       sched |-> Sched(u.service), destinations |-> own]
    BY DEF OwnEntry, Sched
  <2> HIDE DEF dest, own
  <2>2. QED  BY <1>4, <2>1
<1>9. Visited(u, services, order, 1).destinations = dest
  <2> HIDE DEF dest
  <2>1. QED  BY <1>4
<1> HIDE DEF dest, own
<1>10. QED
  <2>1. OwnEntry(u).destinations = own
    BY DEF own
  <2>2. QED  BY <1>6, <1>7, <1>8, <1>9, <2>1 DEF AsAsked

LEMMA BuiltIsLone ==
  ASSUME CacheOK(services), Built, Cardinality(DOMAIN services) = 1
  PROVE  /\ Len(target) = Cardinality(NonEmpty(services))
         /\ \A name \in NonEmpty(services) : AsAsked(services[name], target[1])
<1>1. PICK u \in Message, order \in SetToSeqs(NonEmpty(services)) :
        /\ u.service.name \in DOMAIN services
        /\ services[u.service.name] = u
        /\ target = Model(u, services, order)
  BY DEF Built
<1> DEFINE n == Cardinality(NonEmpty(services))
<1>2. n \in Nat /\ DOMAIN order = 1 .. n /\ Len(order) = n
  BY OrderVisitsEach
<1>3. Len(target) = n
  BY <1>1, <1>2, ModelShape
<1>4. DOMAIN services = {u.service.name}
  BY <1>1, FS_Singleton DEF CacheOK
<1>5. ASSUME NEW name \in NonEmpty(services)
      PROVE  AsAsked(services[name], target[1])
  <2>1. name = u.service.name /\ NonEmpty(services) = {name}
    BY <1>4, <1>5 DEF NonEmpty
  <2>2. n = 1
    BY <2>1, FS_Singleton
  <2>3. 1 \in DOMAIN order /\ order[1] = name
    <3>1. 1 \in DOMAIN order
      BY <1>2, <2>2
    <3>2. order[1] \in NonEmpty(services)
      BY <3>1, OrderVisitsEach
    <3>3. QED  BY <2>1, <3>1, <3>2
  <2>4. services[order[1]] = u /\ services[name] = u
    BY <1>1, <2>1, <2>3
  <2>5. target[1] = Visited(u, services, order, 1)
    BY <1>1, <2>3, ModelShape
  <2>6. QED  BY <2>3, <2>4, <2>5, FirstVisitedAsAsked
<1>6. QED  BY <1>3, <1>5

\* As long as no other service is cached, attributes, defaults, addresses and weights
\* come out as its update asks for, whatever was cached before; only a backend without
\* a weight may have one of its own list (ipvsapplier.go:62-137).
THEOREM LoneServiceAlwaysAsAsked == IPVSSpec => []LoneServiceAsAsked
<1>1. BuiltInv => LoneServiceAsAsked
  BY BuiltIsLone DEF BuiltInv, LoneServiceAsAsked, AsAsked
<1>2. QED  BY <1>1, BuiltInit, BuiltStep, PTL DEF IPVSSpec

=============================================================================
