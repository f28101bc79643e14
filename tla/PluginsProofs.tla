---------------------------- MODULE PluginsProofs ----------------------------
(***************************************************************************)
(* Theorems about Plugins: for any service, any contents of its source and *)
(* any number of changes at any moment, a worker with nothing to do has    *)
(* what it would get and sort now, and that is what the source says.       *)
(***************************************************************************)
EXTENDS Plugins, TLAPS, NaturalsInduction, WellFoundedInduction, SequenceTheorems,
        FunctionTheorems

\* Nobody is ahead of the source, and each ping answers an event that was told.
InOrder ==
  /\ version \in 1 .. MaxVersion
  /\ {watched, told, found, last} \subseteq 0 .. version
  /\ pings \in 0 .. told
  /\ told = 0 <=> loopPc = "none"

\* The channels that a plugin does not have stay empty.
OwnChannels ==
  /\ events # {} => IsFile
  /\ pings # 0 => IsDocker
  /\ loopPc = "notify" => ~ IsDocker

TypeInv == PluginsTypeOK /\ InOrder /\ OwnChannels

-----------------------------------------------------------------------------
(***************************************************************************)
(* Type correctness                                                        *)
(***************************************************************************)
LEMMA OneType ==
  ASSUME PluginsTypeOK
  PROVE  /\ IsFile \/ IsDocker \/ IsSocket
         /\ ~ (IsFile /\ IsDocker) /\ ~ (IsFile /\ IsSocket) /\ ~ (IsDocker /\ IsSocket)
BY PluginsAssumption DEF PluginsTypeOK, IsFile, IsDocker, IsSocket

LEMMA TypeInit == PluginsInit => TypeInv
BY PluginsAssumption
   DEF PluginsInit, TypeInv, PluginsTypeOK, InOrder, OwnChannels, IsFile, IsDocker

\* What stays within the service
LEMMA TypesKept ==
  ASSUME UNCHANGED service
  PROVE  IsFile' = IsFile /\ IsDocker' = IsDocker /\ IsSocket' = IsSocket
BY DEF IsFile, IsDocker, IsSocket

LEMMA TypeStep == TypeInv /\ [PluginsNext]_pluginVars => TypeInv'
<1> SUFFICES ASSUME TypeInv, [PluginsNext]_pluginVars PROVE TypeInv'
  OBVIOUS
<1> USE PluginsAssumption DEF TypeInv, PluginsTypeOK, InOrder, OwnChannels
<1>1. UNCHANGED service /\ IsFile' = IsFile /\ IsDocker' = IsDocker /\ IsSocket' = IsSocket
  BY TypesKept
     DEF PluginsNext, LoopRuns, WorkerRuns, Change, Query, StartLoop, Notified, Poll,
         FileEvent, ContainerEvent, Tick, pluginVars, sourceVars
<1>2. ~ (IsFile /\ IsDocker) /\ ~ (IsFile /\ IsSocket) /\ ~ (IsDocker /\ IsSocket)
  BY OneType
<1> HIDE DEF TypeInv, PluginsTypeOK, InOrder, OwnChannels
<1>3. CASE Change
  BY <1>1, <1>3 DEF Change, loopVars, workerVars, TypeInv, PluginsTypeOK, InOrder, OwnChannels
<1>4. CASE Query
  BY <1>1, <1>4 DEF Query, sourceVars, loopVars, TypeInv, PluginsTypeOK, InOrder, OwnChannels
<1>5. CASE StartLoop
  BY <1>1, <1>2, <1>5
     DEF StartLoop, sourceVars, TypeInv, PluginsTypeOK, InOrder, OwnChannels
<1>6. CASE Notified
  BY <1>1, <1>2, <1>6
     DEF Notified, sourceVars, TypeInv, PluginsTypeOK, InOrder, OwnChannels
<1>7. CASE Poll
  <2>1. IsFile /\ ~ IsDocker
    BY <1>2, <1>7 DEF Poll, TypeInv, PluginsTypeOK
  <2>2. /\ watched' \in {0, version} /\ events' \in {events, events \cup {"poll"}}
        /\ UNCHANGED <<service, source, version, told, found, last, pings, loopPc, workerPc>>
    BY <1>7 DEF Poll, sourceVars, workerVars
  <2>3. PluginsTypeOK'
    BY <1>1, <2>1, <2>2 DEF TypeInv, PluginsTypeOK
  <2>4. InOrder' /\ OwnChannels'
    BY <1>1, <2>1, <2>2 DEF TypeInv, InOrder, OwnChannels
  <2> QED
    BY <2>3, <2>4 DEF TypeInv
<1>8. CASE FileEvent
  BY <1>1, <1>2, <1>8
     DEF FileEvent, sourceVars, workerVars, TypeInv, PluginsTypeOK, InOrder, OwnChannels
<1>9. CASE ContainerEvent
  BY <1>1, <1>2, <1>9
     DEF ContainerEvent, sourceVars, workerVars, TypeInv, PluginsTypeOK, InOrder, OwnChannels
<1>10. CASE Tick
  BY <1>1, <1>2, <1>10
     DEF Tick, sourceVars, workerVars, TypeInv, PluginsTypeOK, InOrder, OwnChannels
<1>11. CASE UNCHANGED pluginVars
  BY <1>1, <1>11
     DEF pluginVars, sourceVars, loopVars, workerVars, TypeInv, PluginsTypeOK, InOrder,
         OwnChannels
<1> QED
  BY <1>3, <1>4, <1>5, <1>6, <1>7, <1>8, <1>9, <1>10, <1>11
     DEF PluginsNext, LoopRuns, WorkerRuns

\* The worker, its loop and the library have the values that the code gives them, with
\* modification times that are not ahead of the file (proxy-from-file.go:207-253).
THEOREM PluginsTypeCorrect == PluginsSpec => []PluginsTypeOK
<1>1. TypeInv => PluginsTypeOK
  BY DEF TypeInv
<1> QED
  BY <1>1, TypeInit, TypeStep, PTL DEF PluginsSpec

-----------------------------------------------------------------------------
(***************************************************************************)
(* A worker at rest is up to date                                          *)
(***************************************************************************)
Fresh == data \in SortedData

\* A file that the library has found at its present version is there; a loop that has
\* stored the present modification time has told the worker, who has asked since; and
\* if no event is left, the last one was of that kind.
FileInv ==
  /\ watched = version => source # NoFile
  /\ workerPc # "query" /\ last = version => Fresh
  /\ workerPc = "select" /\ loopPc = "select" /\ events = {} /\ watched = version => Fresh

\* An event that was told is answered by a ping, and a ping by a query.
DockerInv ==
  workerPc # "query" /\ last < version /\ told = version /\ pings = 0 => Fresh

\* The listeners are replaced only on the way into a notification.
SocketInv == workerPc # "query" /\ loopPc # "notify" => Fresh

FreshInv ==
  /\ TypeInv
  /\ IsFile => FileInv
  /\ IsDocker => DockerInv
  /\ IsSocket => SocketInv

LEMMA FreshInit == PluginsInit => FreshInv
BY TypeInit
   DEF PluginsInit, FreshInv, FileInv, DockerInv, SocketInv

\* The plugin gives the same as long as nothing changes that it looks at.
LEMMA DataKept ==
  ASSUME TypeInv, UNCHANGED <<service, listeners>>, IsSocket \/ UNCHANGED source
  PROVE  SortedData' = SortedData
<1>1. UNCHANGED source => GetDownwardData' = GetDownwardData
  BY DEF GetDownwardData, IsFile, IsDocker, IsSocket
<1>2. IsSocket => GetDownwardData' = GetDownwardData
  BY DEF GetDownwardData, IsFile, IsDocker, IsSocket
<1>3. GetDownwardData' = GetDownwardData
  BY <1>1, <1>2
<1> QED
  BY <1>3 DEF SortedData

LEMMA FreshStep == FreshInv /\ [PluginsNext]_pluginVars => FreshInv'
<1> SUFFICES ASSUME FreshInv, [PluginsNext]_pluginVars PROVE FreshInv'
  OBVIOUS
<1>1. TypeInv /\ TypeInv'
  BY TypeStep DEF FreshInv
<1>2. UNCHANGED service /\ IsFile' = IsFile /\ IsDocker' = IsDocker /\ IsSocket' = IsSocket
  BY TypesKept
     DEF PluginsNext, LoopRuns, WorkerRuns, Change, Query, StartLoop, Notified, Poll,
         FileEvent, ContainerEvent, Tick, pluginVars, sourceVars
<1>3. /\ version \in Nat /\ {watched, told, found, last} \subseteq 0 .. version
      /\ version # 0 /\ pings \in Nat
      /\ told = 0 <=> loopPc = "none"
      /\ loopPc = "none" <=> workerPc = "start" \/ (workerPc = "query" /\ told = 0)
  BY <1>1 DEF TypeInv, InOrder, PluginsTypeOK
<1>4. CASE Change
  BY <1>1, <1>2, <1>3, <1>4, DataKept
     DEF Change, FreshInv, FileInv, DockerInv, SocketInv, Fresh, loopVars, workerVars
<1>5. CASE Query
  <2>1. SortedData' = SortedData
    BY <1>1, <1>5, DataKept DEF Query, sourceVars, loopVars
  <2> QED
    BY <1>1, <1>2, <1>5, <2>1
       DEF Query, FreshInv, FileInv, DockerInv, SocketInv, Fresh, sourceVars, loopVars
<1>6. CASE StartLoop
  <2>1. SortedData' = SortedData
    BY <1>1, <1>6, DataKept DEF StartLoop, sourceVars
  <2>2. CASE IsFile
    BY <1>1, <1>2, <1>3, <1>6, <2>2, OneType
       DEF StartLoop, FreshInv, FileInv, sourceVars, TypeInv
  <2>3. CASE IsDocker
    BY <1>1, <1>2, <1>3, <1>6, <2>3, OneType
       DEF StartLoop, FreshInv, DockerInv, sourceVars, TypeInv
  <2>4. CASE IsSocket
    BY <1>1, <1>2, <1>3, <1>6, <2>1, <2>4, OneType
       DEF StartLoop, FreshInv, SocketInv, Fresh, sourceVars, TypeInv
  <2> QED
    BY <1>1, <2>2, <2>3, <2>4, OneType DEF TypeInv
<1>7. CASE Notified
  BY <1>1, <1>2, <1>3, <1>7
     DEF Notified, FreshInv, FileInv, DockerInv, SocketInv, sourceVars
<1>8. CASE Poll
  <2>1. SortedData' = SortedData /\ IsFile
    BY <1>1, <1>8, DataKept DEF Poll, sourceVars, TypeInv, PluginsTypeOK
  <2> QED
    BY <1>1, <1>2, <1>3, <1>8, <2>1, OneType
       DEF Poll, FreshInv, FileInv, Fresh, sourceVars, workerVars, TypeInv
<1>9. CASE FileEvent
  <2>1. SortedData' = SortedData /\ IsFile
    BY <1>1, <1>9, DataKept DEF FileEvent, sourceVars, TypeInv, OwnChannels
  <2> QED
    BY <1>1, <1>2, <1>3, <1>9, <2>1, OneType
       DEF FileEvent, FreshInv, FileInv, Fresh, sourceVars, workerVars, TypeInv
<1>10. CASE ContainerEvent
  BY <1>1, <1>2, <1>3, <1>10, OneType
     DEF ContainerEvent, FreshInv, DockerInv, sourceVars, workerVars, TypeInv
<1>11. CASE Tick
  BY <1>1, <1>2, <1>11, OneType
     DEF Tick, FreshInv, SocketInv, sourceVars, workerVars, TypeInv
<1>12. CASE UNCHANGED pluginVars
  <2>1. SortedData' = SortedData
    BY <1>1, <1>12, DataKept DEF pluginVars, sourceVars, loopVars
  <2> QED
    BY <1>1, <1>2, <1>12, <2>1
       DEF pluginVars, sourceVars, loopVars, workerVars, FreshInv, FileInv, DockerInv,
           SocketInv, Fresh
<1> QED
  BY <1>4, <1>5, <1>6, <1>7, <1>8, <1>9, <1>10, <1>11, <1>12
     DEF PluginsNext, LoopRuns, WorkerRuns

\* At rest the worker has what its plugin gives it at this moment, sorted, whatever the source
\* holds and wherever between query, event, os.Stat, subscription and notification it
\* has changed, for each of the three loops (serviceworker.go:112-115).
THEOREM AlwaysFreshAtRest == PluginsSpec => []FreshAtRest
<1>1. FreshInv => FreshAtRest
  <2> SUFFICES ASSUME FreshInv, AtRest PROVE Fresh
    BY DEF FreshAtRest, Fresh
  <2>1. IsFile \/ IsDocker \/ IsSocket
    BY OneType DEF FreshInv, TypeInv
  <2> QED
    BY <2>1 DEF FreshInv, FileInv, DockerInv, SocketInv, AtRest, Heard
<1> QED
  BY <1>1, FreshInit, FreshStep, PTL DEF PluginsSpec

-----------------------------------------------------------------------------
(***************************************************************************)
(* What a filter keeps                                                     *)
(***************************************************************************)
\* Induction up to L, for a set of numbers.
LEMMA UpTo ==
  ASSUME NEW L \in Nat, NEW G, 0 \in G,
         \A n \in 0 .. L : n < L /\ n \in G => n + 1 \in G
  PROVE  L \in G
<1> DEFINE Bad == {n \in 0 .. L : n \notin G}
<1> SUFFICES ASSUME L \notin G PROVE FALSE
  OBVIOUS
<1>1. L \in Bad /\ Bad \subseteq Nat
  OBVIOUS
<1>2. PICK n \in Bad : \A m \in Bad : ~ (<<m, n>> \in OpToRel(<, Nat))
  <2>1. Bad # {} /\ Bad \subseteq Nat
    BY <1>1
  <2> HIDE DEF Bad
  <2> QED
    BY <2>1, NatLessThanWellFounded, WFMin, Zenon
<1>3. n \in 1 .. L /\ n - 1 \in 0 .. L /\ n - 1 < L /\ n - 1 + 1 = n
  <2>1. n \in 0 .. L /\ n \notin G
    BY <1>2
  <2> QED
    BY <2>1
<1>4. n - 1 \in Bad
  BY <1>2, <1>3
<1>5. <<n - 1, n>> \in OpToRel(<, Nat)
  <2>1. <<n - 1, n>> \in Nat \X Nat /\ <<n - 1, n>>[1] < <<n - 1, n>>[2]
    BY <1>3
  <2> QED
    BY <2>1, Zenon DEF OpToRel
<1> QED
  BY <1>2, <1>4, <1>5, Zenon

\* The recursion of Filter has a solution.
LEMMA FilterUnfolds ==
  ASSUME NEW s, Len(s) \in Nat, NEW K
  PROVE  \E kept :
           /\ kept[0] = <<>>
           /\ \A n \in 1 .. Len(s) :
                kept[n] = IF n \in K THEN Append(kept[n - 1], s[n]) ELSE kept[n - 1]
           /\ Filter(s, K) = kept[Len(s)]
<1> DEFINE L == Len(s)
           Next(r, n) == IF n \in K THEN Append(r, s[n]) ELSE r
           Solves(f, m) == f = [n \in 0 .. m |-> IF n = 0 THEN <<>> ELSE Next(f[n - 1], n)]
           G == {m \in 0 .. L : \E f : Solves(f, m)}
<1>1. 0 \in G
  <2> DEFINE f == [n \in 0 .. 0 |-> <<>>]
  <2>1. \A n \in 0 .. 0 : f[n] = IF n = 0 THEN <<>> ELSE Next(f[n - 1], n)
    OBVIOUS
  <2>2. f = [n \in 0 .. 0 |-> f[n]]
    OBVIOUS
  <2>3. Solves(f, 0)
    <3> HIDE DEF Next, f
    <3> QED
      BY <2>1, <2>2
  <2>4. 0 \in 0 .. L
    OBVIOUS
  <2> HIDE DEF Solves, f
  <2> QED
    BY <2>3, <2>4
<1>2. ASSUME NEW m \in 0 .. L, m < L, m \in G
      PROVE  m + 1 \in G
  <2>1. PICK f : Solves(f, m)
    BY <1>2
  <2> DEFINE g == [n \in 0 .. m + 1 |-> IF n = m + 1 THEN Next(f[m], m + 1) ELSE f[n]]
  <2>2. ASSUME NEW n \in 0 .. m + 1
        PROVE  g[n] = IF n = 0 THEN <<>> ELSE Next(g[n - 1], n)
    <3>1. CASE n = m + 1
      <4>1. n - 1 = m /\ m \in 0 .. m + 1 /\ m # m + 1 /\ n # 0
        BY <1>2, <3>1
      <4>2. g[n] = Next(f[m], m + 1) /\ g[m] = f[m]
        BY <3>1, <4>1
      <4> QED
        BY <3>1, <4>1, <4>2
    <3>2. CASE n # m + 1
      <4>1. n \in 0 .. m /\ (n # 0 => n - 1 \in 0 .. m + 1 /\ n - 1 # m + 1)
        BY <1>2, <3>2
      <4>2. f[n] = IF n = 0 THEN <<>> ELSE Next(f[n - 1], n)
        BY <2>1, <4>1
      <4>3. g[n] = f[n] /\ (n # 0 => g[n - 1] = f[n - 1])
        BY <3>2, <4>1
      <4> QED
        BY <4>2, <4>3
    <3> QED
      BY <3>1, <3>2
  <2>3. Solves(g, m + 1)
    <3> HIDE DEF Next
    <3>1. g = [n \in 0 .. m + 1 |-> g[n]]
      OBVIOUS
    <3> HIDE DEF g
    <3> QED
      BY <2>2, <3>1
  <2>4. m + 1 \in 0 .. L
    BY <1>2
  <2> HIDE DEF g, Solves
  <2> QED
    BY <2>3, <2>4
<1>3. L \in G
  <2>1. L \in Nat
    OBVIOUS
  <2> HIDE DEF G, L
  <2> QED
    BY <1>1, <1>2, <2>1, UpTo
<1>4. PICK f : Solves(f, L)
  BY <1>3
<1> DEFINE The == CHOOSE h : Solves(h, L)
<1>5. Filter(s, K) = The[L]
  BY DEF Filter
<1>6. Solves(The, L)
  BY <1>4
<1>7. The[0] = <<>>
  <2>1. 0 \in 0 .. L
    OBVIOUS
  <2> HIDE DEF Next, The
  <2> QED
    BY <1>6, <2>1
<1>8. ASSUME NEW n \in 1 .. L
      PROVE  The[n] = Next(The[n - 1], n)
  <2>1. n \in 0 .. L /\ n # 0
    OBVIOUS
  <2> HIDE DEF Next, The
  <2> QED
    BY <1>6, <2>1
<1> HIDE DEF The, Solves
<1> QED
  BY <1>5, <1>7, <1>8

\* The ways to go through K once and in order, in n steps; there is at most one.
Orders(n, K) ==
  {at \in [1 .. n -> K] :
     /\ \A i, j \in 1 .. n : i < j => at[i] < at[j]
     /\ \A k \in K : \E i \in 1 .. n : at[i] = k}

\* A filter lists what it is asked for, once and in order, and nothing else.
LEMMA FilterLists ==
  ASSUME NEW S, NEW s \in Seq(S), NEW K, K \subseteq DOMAIN s
  PROVE  /\ Filter(s, K) \in Seq(S)
         /\ \E at \in Orders(Len(Filter(s, K)), K) :
              \A i \in DOMAIN Filter(s, K) : Filter(s, K)[i] = s[at[i]]
<1> DEFINE L == Len(s)
           Lists(r, n) ==
             /\ r \in Seq(S)
             /\ \E at \in Orders(Len(r), K \cap 1 .. n) : \A i \in 1 .. Len(r) : r[i] = s[at[i]]
<1>1. L \in Nat /\ DOMAIN s = 1 .. L
  OBVIOUS
<1>2. PICK kept :
        /\ kept[0] = <<>>
        /\ \A n \in 1 .. Len(s) :
             kept[n] = IF n \in K THEN Append(kept[n - 1], s[n]) ELSE kept[n - 1]
        /\ Filter(s, K) = kept[Len(s)]
  <2>1. Len(s) \in Nat
    OBVIOUS
  <2> QED
    BY <2>1, FilterUnfolds, Zenon
<1>3. Lists(kept[0], 0)
  <2>1. kept[0] = <<>> /\ Len(<<>>) = 0 /\ <<>> \in Seq(S)
    BY <1>1, <1>2
  <2>2. 1 .. 0 = {} /\ K \cap 1 .. 0 = {}
    OBVIOUS
  <2>3. <<>> \in Orders(0, {})
    BY <2>2 DEF Orders
  <2> QED
    BY <2>1, <2>2, <2>3
<1>4. ASSUME NEW n \in 0 .. L, n < L, Lists(kept[n], n)
      PROVE  Lists(kept[n + 1], n + 1)
  <2>1. n + 1 \in 1 .. Len(s) /\ n + 1 - 1 = n
    BY <1>1, <1>4
  <2>2. kept[n + 1] = IF n + 1 \in K THEN Append(kept[n], s[n + 1]) ELSE kept[n]
    BY <1>2, <2>1
  <2> DEFINE r == kept[n]
  <2>3. PICK at \in Orders(Len(r), K \cap 1 .. n) : \A i \in 1 .. Len(r) : r[i] = s[at[i]]
    BY <1>4
  <2>4. r \in Seq(S) /\ Len(r) \in Nat
    BY <1>4
  <2>5. CASE n + 1 \notin K
    <3>1. K \cap 1 .. (n + 1) = K \cap 1 .. n
      BY <1>1, <2>1, <2>5
    <3> QED
      BY <1>4, <2>2, <2>5, <3>1
  <2>6. CASE n + 1 \in K
    <3> DEFINE m == Len(r) + 1
               new == [i \in 1 .. m |-> IF i = m THEN n + 1 ELSE at[i]]
               J == K \cap 1 .. n
    <3>1. K \cap 1 .. (n + 1) = J \cup {n + 1} /\ n + 1 \notin J /\ J \subseteq 1 .. n
      BY <1>1, <2>1, <2>6
    <3>2. /\ at \in [1 .. Len(r) -> J]
          /\ \A i, j \in 1 .. Len(r) : i < j => at[i] < at[j]
          /\ \A k \in J : \E i \in 1 .. Len(r) : at[i] = k
      BY <2>3 DEF Orders
    <3>3. new \in Orders(m, J \cup {n + 1})
      <4>1. new \in [1 .. m -> J \cup {n + 1}]
        BY <2>4, <3>2
      <4>2. ASSUME NEW i \in 1 .. m, NEW j \in 1 .. m, i < j
            PROVE  new[i] < new[j]
        <5>1. i \in 1 .. Len(r) /\ i # m
          <6>1. i \in Nat /\ 1 <= i /\ j <= m /\ j \in Nat /\ Len(r) \in Nat
            BY <2>4
          <6> HIDE DEF new, J, r
          <6> QED
            BY <4>2, <6>1
        <5>4. new[i] = at[i] /\ at[i] \in J
          <6> HIDE DEF J, r
          <6> QED
            BY <3>2, <5>1
        <5>2. CASE j = m
          BY <3>1, <5>2, <5>4
        <5>3. CASE j # m
          BY <2>4, <3>2, <4>2, <5>1, <5>3, <5>4
        <5> QED
          BY <5>2, <5>3
      <4>3. ASSUME NEW k \in J \cup {n + 1}
            PROVE  \E i \in 1 .. m : new[i] = k
        <5>1. CASE k = n + 1
          <6>1. m \in 1 .. m /\ new[m] = n + 1
            BY <2>4
          <6> QED
            BY <5>1, <6>1
        <5>2. CASE k \in J
          <6>1. PICK i \in 1 .. Len(r) : at[i] = k
            BY <3>2, <5>2
          <6>2. i \in 1 .. m /\ i # m
            BY <2>4
          <6> QED
            BY <6>1, <6>2
        <5> QED
          BY <5>1, <5>2
      <4> HIDE DEF new, J, m
      <4> QED
        BY <4>1, <4>2, <4>3 DEF Orders
    <3>4. Append(r, s[n + 1]) \in Seq(S) /\ Len(Append(r, s[n + 1])) = m
      BY <1>1, <2>1, <2>4
    <3>5. ASSUME NEW i \in 1 .. m
          PROVE  Append(r, s[n + 1])[i] = s[new[i]]
      <4>1. CASE i = m
        BY <2>4, <4>1
      <4>2. CASE i # m
        <5>1. i \in 1 .. Len(r)
          BY <2>4, <4>2
        <5>2. new[i] = at[i] /\ r[i] = s[at[i]]
          BY <2>3, <4>2, <5>1
        <5>3. Append(r, s[n + 1])[i] = r[i]
          BY <2>4, <5>1
        <5> QED
          BY <5>2, <5>3
      <4> QED
        BY <4>1, <4>2
    <3>6. kept[n + 1] = Append(r, s[n + 1])
      BY <2>2, <2>6
    <3> HIDE DEF new, J, m, r
    <3> QED
      BY <3>1, <3>3, <3>4, <3>5, <3>6
  <2> QED
    BY <2>5, <2>6
<1> DEFINE G == {n \in 0 .. L : Lists(kept[n], n)}
<1>5. L \in G
  <2>1. 0 \in G
    BY <1>1, <1>3
  <2>2. ASSUME NEW n \in 0 .. L, n < L, n \in G PROVE n + 1 \in G
    <3>1. n + 1 \in 0 .. L
      BY <1>1, <2>2
    <3> HIDE DEF Lists
    <3> QED
      BY <1>4, <2>2, <3>1
  <2> HIDE DEF G, L
  <2> QED
    BY <1>1, <2>1, <2>2, UpTo
<1>6. Lists(Filter(s, K), L)
  <2>1. Lists(kept[L], L)
    <3> HIDE DEF Lists
    <3> QED
      BY <1>5
  <2> HIDE DEF Lists
  <2> QED
    BY <1>2, <2>1
<1>7. K \cap 1 .. L = K
  BY <1>1
<1>8. DOMAIN Filter(s, K) = 1 .. Len(Filter(s, K))
  BY <1>6
<1> HIDE DEF L
<1> QED
  BY <1>6, <1>7, <1>8

\* A set of numbers up to n has a greatest one.
LEMMA HasMax ==
  ASSUME NEW n \in Nat, NEW S, S \subseteq 1 .. n, S # {}
  PROVE  Max(S) \in S
<1> DEFINE Below == {n - x : x \in S}
<1>1. PICK b \in Below : \A c \in Below : ~ (<<c, b>> \in OpToRel(<, Nat))
  <2>1. Below # {}
    OBVIOUS
  <2>2. \A x \in S : n - x \in Nat
    OBVIOUS
  <2>3. Below \subseteq Nat
    BY <2>2
  <2> HIDE DEF Below
  <2> QED
    BY <2>1, <2>3, NatLessThanWellFounded, WFMin, Zenon
<1>2. PICK x \in S : b = n - x
  OBVIOUS
<1>3. ASSUME NEW y \in S PROVE x >= y
  <2>1. n - y \in Below /\ n - y \in Nat /\ b \in Nat
    OBVIOUS
  <2>2. n - y < b => <<n - y, b>> \in OpToRel(<, Nat)
    <3> SUFFICES ASSUME n - y < b PROVE <<n - y, b>> \in OpToRel(<, Nat)
      OBVIOUS
    <3>1. <<n - y, b>> \in Nat \X Nat /\ <<n - y, b>>[1] < <<n - y, b>>[2]
      BY <2>1
    <3> QED
      BY <3>1, Zenon DEF OpToRel
  <2>3. ~ (n - y < b)
    <3> HIDE DEF Below
    <3> QED
      BY <1>1, <2>1, <2>2
  <2> QED
    BY <1>2, <2>3
<1> QED
  BY <1>3 DEF Max

\* The weight of a container is that of an entry that matches, if there is one.
LEMMA Weights ==
  ASSUME NEW weights, weights \in Seq(ToSet(weights)), NEW c
  PROVE  LET hits == {k \in DOMAIN weights : Matches(weights[k].matchLabels, c)} IN
         IF weights = <<>> THEN DynamicWeight(weights, c) = -1
         ELSE IF hits = {} THEN DynamicWeight(weights, c) = 0
         ELSE \E k \in hits : DynamicWeight(weights, c) = weights[k].weight
<1> DEFINE hits == {k \in DOMAIN weights : Matches(weights[k].matchLabels, c)}
<1>1. CASE weights = <<>>
  BY <1>1 DEF DynamicWeight
<1>2. CASE weights # <<>> /\ hits = {}
  BY <1>2 DEF DynamicWeight
<1>3. CASE weights # <<>> /\ hits # {}
  <2>1. Max(hits) \in hits
    <3>1. Len(weights) \in Nat /\ hits \subseteq 1 .. Len(weights)
      OBVIOUS
    <3> HIDE DEF hits
    <3> QED
      BY <1>3, <3>1, HasMax
  <2>2. DynamicWeight(weights, c) = weights[Max(hits)].weight
    <3>1. DynamicWeight(weights, c) =
            CASE weights = <<>> -> -1
              [] weights # <<>> /\ hits = {} -> 0
              [] OTHER -> weights[Max(hits)].weight
      BY DEF DynamicWeight
    <3> HIDE DEF hits
    <3> QED
      BY <1>3, <3>1
  <2> QED
    BY <1>3, <2>1, <2>2
<1> QED
  BY <1>1, <1>2, <1>3

-----------------------------------------------------------------------------
(***************************************************************************)
(* What the sort keeps                                                     *)
(***************************************************************************)
LEMMA Sorted ==
  ASSUME NEW given, NEW list \in SortsOf(given)
  PROVE  ByAddress(list)
BY DEF SortsOf

LEMMA SortsNothing ==
  ASSUME NEW list \in SortsOf(<<>>)
  PROVE  list = <<>>
<1>1. PICK to : list = [i \in DOMAIN <<>> |-> <<>>[to[i]]]
  BY DEF SortsOf
<1>2. DOMAIN <<>> = {}
  OBVIOUS
<1> QED
  BY <1>1, <1>2

\* Where the elements of a list come from, if those of the given one come from at.
Rearranges(list, given, n, K, at) ==
  /\ DOMAIN list = 1 .. n
  /\ \E from \in Bijection(1 .. n, K) :
       \A i \in 1 .. n : \E j \in 1 .. n : list[i] = given[j] /\ from[i] = at[j]

\* A sorted list has the elements of the one before, each once.
LEMMA Sorts ==
  ASSUME NEW given, NEW list \in SortsOf(given),
         NEW n \in Nat, DOMAIN given = 1 .. n,
         NEW K, K \subseteq Int, NEW at \in Orders(n, K)
  PROVE  Rearranges(list, given, n, K, at)
<1>1. PICK to \in Bijection(1 .. n, 1 .. n) : list = [i \in 1 .. n |-> given[to[i]]]
  BY DEF SortsOf
<1>2. DOMAIN list = 1 .. n
  BY <1>1
<1>3. at \in Bijection(1 .. n, K)
  <2>1. at \in [1 .. n -> K] /\ \A k \in K : \E i \in 1 .. n : at[i] = k
    BY DEF Orders
  <2>2. ASSUME NEW i \in 1 .. n, NEW j \in 1 .. n, at[i] = at[j]
        PROVE  i = j
    <3>1. ~ (i < j) /\ ~ (j < i)
      <4>1. at[i] \in Int /\ at[j] \in Int
        BY <2>1
      <4> QED
        BY <2>2, <4>1 DEF Orders
    <3> QED
      BY <3>1
  <2> QED
    BY <2>1, <2>2, Fun_IsBij
<1>4. [i \in 1 .. n |-> at[to[i]]] \in Bijection(1 .. n, K)
  BY <1>1, <1>3, Fun_BijTransitive
<1>5. ASSUME NEW i \in 1 .. n
      PROVE  to[i] \in 1 .. n /\ list[i] = given[to[i]]
  BY <1>1 DEF Bijection, Injection
<1>6. PICK from \in Bijection(1 .. n, K) : \A i \in 1 .. n : from[i] = at[to[i]]
  BY <1>4
<1> QED
  BY <1>2, <1>5, <1>6 DEF Rearranges

-----------------------------------------------------------------------------
(***************************************************************************)
(* The containers                                                          *)
(***************************************************************************)
\* What the plugin gives is what docker lists.
LEMMA ContainersGiven ==
  ASSUME PluginsTypeOK, IsDocker,
         NEW given \in GetDownwardData, NEW list \in SortsOf(given)
  PROVE  ContainersDescribe(list)
<1> DEFINE running == {k \in DOMAIN source : source[k].state = "running"}
           kept == Filter(source, running)
           weights == service.spec.dynamicWeights
           asked(c) == {weights[k].weight :
                          k \in {k \in DOMAIN weights : Matches(weights[k].matchLabels, c)}}
           Describes(b, c) ==
             /\ b.host \in c.networks \/ c.networks = {}
             /\ b.port \in ToSet(c.ports) \/ c.ports = <<>>
             /\ IF weights = <<>> THEN b.weight < 0
                ELSE IF asked(c) = {} THEN b.weight = 0
                ELSE b.weight \in asked(c)
<1>1. /\ source \in Seq(ToSet(source))
      /\ \A k \in DOMAIN source : source[k].ports \in Seq(ToSet(source[k].ports))
      /\ weights \in Seq(ToSet(weights))
  BY ListsAssumption DEF PluginsTypeOK, IsDocker
<1>2. /\ kept \in Seq(ToSet(source))
      /\ \E at \in Orders(Len(kept), running) : \A i \in DOMAIN kept : kept[i] = source[at[i]]
  <2>1. running \subseteq DOMAIN source
    OBVIOUS
  <2> HIDE DEF running
  <2> QED
    BY <1>1, <2>1, FilterLists
<1>3. PICK at \in Orders(Len(kept), running) : \A i \in DOMAIN kept : kept[i] = source[at[i]]
  BY <1>2
<1>4. given \in ContainerData(source, service.spec)
  BY OneType DEF GetDownwardData
<1>5. PICK host \in [DOMAIN kept -> UNION {Hosts(kept[i]) : i \in DOMAIN kept}] :
        /\ \A i \in DOMAIN kept : host[i] \in Hosts(kept[i])
        /\ given = [i \in DOMAIN kept |->
                     [host |-> host[i], port |-> Port(kept[i]),
                      weight |-> DynamicWeight(weights, kept[i])]]
  BY <1>4 DEF ContainerData
<1>6. DOMAIN given = DOMAIN kept /\ Len(given) = Len(kept)
  BY <1>2, <1>5
<1>7. ASSUME NEW i \in DOMAIN given
      PROVE  Describes(given[i], source[at[i]])
  <2> DEFINE c == source[at[i]]
  <2>1. /\ kept[i] = c /\ at[i] \in DOMAIN source
        /\ given[i] = [host |-> host[i], port |-> Port(c), weight |-> DynamicWeight(weights, c)]
        /\ host[i] \in Hosts(c)
    <3>1. i \in DOMAIN kept /\ DOMAIN kept = 1 .. Len(kept)
      BY <1>2, <1>6
    <3>2. kept[i] = c
      BY <1>3, <3>1
    <3>3. at[i] \in running
      BY <1>3, <3>1 DEF Orders
    <3>4. given[i] = [host |-> host[i], port |-> Port(kept[i]),
                     weight |-> DynamicWeight(weights, kept[i])]
      BY <1>5, <3>1
    <3> HIDE DEF kept, c
    <3> QED
      BY <1>5, <3>1, <3>2, <3>3, <3>4
  <2>2. given[i].host \in c.networks \/ c.networks = {}
    <3>1. given[i].host \in Hosts(c)
      <4> HIDE DEF c
      <4> QED
        BY <2>1
    <3> HIDE DEF c
    <3> QED
      BY <3>1 DEF Hosts
  <2>3. given[i].port \in ToSet(c.ports) \/ c.ports = <<>>
    <3>1. c.ports \in Seq(ToSet(c.ports))
      BY <1>1, <2>1
    <3>2. c.ports # <<>> => Len(c.ports) \in DOMAIN c.ports
      BY <3>1
    <3> QED
      BY <2>1, <3>2 DEF Port, ToSet
  <2>4. IF weights = <<>> THEN given[i].weight < 0
        ELSE IF asked(c) = {} THEN given[i].weight = 0
        ELSE given[i].weight \in asked(c)
    <3>1. given[i].weight = DynamicWeight(weights, c)
      BY <2>1
    <3> DEFINE hits == {k \in DOMAIN weights : Matches(weights[k].matchLabels, c)}
    <3>2. IF weights = <<>> THEN DynamicWeight(weights, c) = -1
          ELSE IF hits = {} THEN DynamicWeight(weights, c) = 0
          ELSE \E k \in hits : DynamicWeight(weights, c) = weights[k].weight
      BY <1>1, Weights, Zenon
    <3>3. asked(c) = {weights[k].weight : k \in hits}
      OBVIOUS
    <3>4. asked(c) = {} <=> hits = {}
      BY <3>3
    <3>5. \A k \in hits : weights[k].weight \in asked(c)
      BY <3>3
    <3> HIDE DEF weights, c, hits, asked
    <3> QED
      BY <3>1, <3>2, <3>4, <3>5
  <2> QED
    BY <2>2, <2>3, <2>4
<1> DEFINE n == Len(kept)
<1>8. n \in Nat /\ DOMAIN given = 1 .. n /\ running \subseteq Int
  BY <1>1, <1>2, <1>6
<1>9. Rearranges(list, given, n, running, at)
  <2> HIDE DEF running, n
  <2>1. at \in Orders(n, running)
    BY <1>3 DEF n
  <2>2. list \in SortsOf(given)
    OBVIOUS
  <2> QED
    BY <1>8, <2>1, <2>2, Sorts
<1>10. \E from \in Bijection(DOMAIN list, running) :
         \A i \in DOMAIN list : Describes(list[i], source[from[i]])
  <2>1. PICK from \in Bijection(1 .. n, running) :
          \A i \in 1 .. n : \E j \in 1 .. n : list[i] = given[j] /\ from[i] = at[j]
    BY <1>9 DEF Rearranges
  <2>2. ASSUME NEW i \in 1 .. n
        PROVE  Describes(list[i], source[from[i]])
    <3>1. PICK j \in 1 .. n : list[i] = given[j] /\ from[i] = at[j]
      BY <2>1
    <3>2. Describes(given[j], source[at[j]])
      BY <1>7, <1>8
    <3> HIDE DEF Describes
    <3> QED
      BY <3>1, <3>2
  <2>3. DOMAIN list = 1 .. n
    BY <1>9 DEF Rearranges
  <2> HIDE DEF n, running, Describes
  <2> QED
    BY <2>1, <2>2, <2>3
<1> QED
  BY <1>10 DEF ContainersDescribe

\* At rest the worker has each container that runs, once and sorted by address, with one
\* of its addresses, one of its ports, and the weight of an entry that matches its labels;
\* it has no other (docker-front-proxy.go:90-156, serviceworker.go:63-93).
THEOREM ContainersAlwaysAsDescribed == PluginsSpec => []ContainersAsDescribed
<1>1. FreshInv => ContainersAsDescribed
  <2> SUFFICES ASSUME FreshInv, AtRest, IsDocker
               PROVE  ContainersDescribe(data) /\ ByAddress(data)
    BY DEF ContainersAsDescribed
  <2>1. PluginsTypeOK /\ data \in SortedData
    BY DEF FreshInv, TypeInv, DockerInv, AtRest, Heard, Fresh
  <2>2. PICK given \in GetDownwardData : \E list \in SortsOf(given) : list = data
    BY <2>1 DEF SortedData
  <2>3. PICK list \in SortsOf(given) : list = data
    BY <2>2
  <2>4. ContainersDescribe(list) /\ ByAddress(list)
    BY <2>1, <2>3, ContainersGiven, Sorted
  <2> QED
    BY <2>3, <2>4
<1> QED
  BY <1>1, FreshInit, FreshStep, PTL DEF PluginsSpec

-----------------------------------------------------------------------------
(***************************************************************************)
(* The sockets                                                             *)
(***************************************************************************)
\* Two digits of a text
LEMMA TwoDigits ==
  ASSUME NEW x, NEW i \in Int, NEW j \in Int, j = i + 1, x[i] \in Nat, x[j] \in Nat
  PROVE  db(SubSeq(x, i, j)) = 16 * x[i] + x[j]
<1>1. \A k \in i .. j : x[k] \in Nat
  <2>1. \A k \in i .. j : k = i \/ k = j
    OBVIOUS
  <2> QED
    BY <2>1
<1>2. \A k \in 1 .. j - i + 1 : SubSeq(x, i, j)[k] = x[i + k - 1]
  BY <1>1, SubSeqProperties
<1>3. 1 \in 1 .. j - i + 1 /\ 2 \in 1 .. j - i + 1 /\ i + 1 - 1 = i /\ i + 2 - 1 = j
  OBVIOUS
<1>4. SubSeq(x, i, j)[1] = x[i] /\ SubSeq(x, i, j)[2] = x[j]
  BY <1>2, <1>3
<1> QED
  BY <1>4 DEF db

LEMMA HexParsed ==
  ASSUME NEW b \in Nat
  PROVE  /\ Hex(b)[1] \in Nat /\ Hex(b)[2] \in Nat /\ 16 * Hex(b)[1] + Hex(b)[2] = b
         /\ Hex(b) \in Seq(Nat) /\ Len(Hex(b)) = 2
<1>1. b \div 16 \in Nat /\ b % 16 \in Nat /\ 16 * (b \div 16) + (b % 16) = b
  BY SMT
<1>2. Hex(b) = <<b \div 16, b % 16>>
  BY DEF Hex
<1> QED
  BY <1>1, <1>2, SMT

LEMMA WordParsed ==
  ASSUME NEW h \in Nat, NEW l \in Nat
  PROVE  dw(Hex(h) \o Hex(l)) = 256 * h + l
<1> DEFINE p == Hex(h) \o Hex(l)
<1>1. /\ Hex(h) \in Seq(Nat) /\ Len(Hex(h)) = 2 /\ Hex(l) \in Seq(Nat) /\ Len(Hex(l)) = 2
      /\ Hex(h)[1] \in Nat /\ Hex(h)[2] \in Nat /\ 16 * Hex(h)[1] + Hex(h)[2] = h
      /\ Hex(l)[1] \in Nat /\ Hex(l)[2] \in Nat /\ 16 * Hex(l)[1] + Hex(l)[2] = l
  BY HexParsed, SMT
<1>2. \A i \in 1 .. Len(Hex(h)) + Len(Hex(l)) :
         p[i] = IF i <= Len(Hex(h)) THEN Hex(h)[i] ELSE Hex(l)[i - Len(Hex(h))]
  BY <1>1, ConcatProperties, Zenon
<1>3. p[1] = Hex(h)[1] /\ p[2] = Hex(h)[2] /\ p[3] = Hex(l)[1] /\ p[4] = Hex(l)[2]
  <2> HIDE DEF p
  <2> QED
    BY <1>1, <1>2, SMT
<1> HIDE DEF p
<1>4. db(SubSeq(p, 1, 2)) = 16 * p[1] + p[2]
  BY <1>1, <1>3, TwoDigits, SMT
<1>5. db(SubSeq(p, 3, 4)) = 16 * p[3] + p[4]
  BY <1>1, <1>3, TwoDigits, SMT
<1>6. dw(p) = 256 * h + l
  BY <1>1, <1>3, <1>4, <1>5, SMT DEF dw
<1> QED
  BY <1>6 DEF p

LEMMA PortParsed ==
  ASSUME NEW s, s.port \in Nat
  PROVE  dw(Printed(s).port) = s.port
<1>1. /\ s.port \div 256 \in Nat /\ s.port % 256 \in Nat
      /\ 256 * (s.port \div 256) + (s.port % 256) = s.port
  BY SMT
<1>2. Printed(s).port = Hex(s.port \div 256) \o Hex(s.port % 256)
  BY SMT DEF Printed
<1> QED
  BY <1>1, <1>2, WordParsed, SMT

LEMMA AddressParsed ==
  ASSUME NEW s, s.ip \in Seq(0 .. 255), Len(s.ip) = 4
  PROVE  Len(Printed(s).ip) = 8 /\ dip4(Printed(s).ip) = s.ip
<1> DEFINE ip == s.ip
           byte(i) == 4 * ((i - 1) \div 4) + 4 - ((i - 1) % 4)
           x == [i \in 1 .. 8 |-> Hex(ip[byte((i + 1) \div 2)])[2 - (i % 2)]]
<1>1. Printed(s).ip = x
  <2>1. Printed(s).ip = [i \in 1 .. 2 * Len(s.ip) |-> Hex(s.ip[byte((i + 1) \div 2)])[2 - (i % 2)]]
    BY SMT DEF Printed
  <2>2. 2 * Len(s.ip) = 8
    BY SMT
  <2> QED
    BY <2>1, <2>2, Zenon
<1>2. ip \in Seq(0 .. 255) /\ Len(ip) = 4
  OBVIOUS
<1>3. byte(1) = 4 /\ byte(2) = 3 /\ byte(3) = 2 /\ byte(4) = 1
  BY SMT
<1> HIDE DEF ip, byte
<1>4. /\ x[1] = Hex(ip[4])[1] /\ x[2] = Hex(ip[4])[2]
      /\ x[3] = Hex(ip[3])[1] /\ x[4] = Hex(ip[3])[2]
      /\ x[5] = Hex(ip[2])[1] /\ x[6] = Hex(ip[2])[2]
      /\ x[7] = Hex(ip[1])[1] /\ x[8] = Hex(ip[1])[2]
  <2>1. \A i \in 1 .. 8 : x[i] = Hex(ip[byte((i + 1) \div 2)])[2 - (i % 2)]
    BY SMT
  <2>2. /\ (1 + 1) \div 2 = 1 /\ (2 + 1) \div 2 = 1 /\ (3 + 1) \div 2 = 2 /\ (4 + 1) \div 2 = 2
        /\ (5 + 1) \div 2 = 3 /\ (6 + 1) \div 2 = 3 /\ (7 + 1) \div 2 = 4 /\ (8 + 1) \div 2 = 4
        /\ 2 - (1 % 2) = 1 /\ 2 - (2 % 2) = 2 /\ 2 - (3 % 2) = 1 /\ 2 - (4 % 2) = 2
        /\ 2 - (5 % 2) = 1 /\ 2 - (6 % 2) = 2 /\ 2 - (7 % 2) = 1 /\ 2 - (8 % 2) = 2
    BY SMT
  <2> HIDE DEF x
  <2> QED
    BY <1>3, <2>1, <2>2, SMT
<1>5. Len(x) = 8
  BY SMT
<1>6. ASSUME NEW i \in 1 .. 4
      PROVE  db(SubSeq(x, 9 - 2 * i, 10 - 2 * i)) = ip[i]
  <2>1. x[9 - 2 * i] = Hex(ip[i])[1] /\ x[10 - 2 * i] = Hex(ip[i])[2]
    <3> HIDE DEF x
    <3>1. i \in {1, 2, 3, 4}
      BY SMT
    <3> QED
      BY <1>4, <3>1, SMT
  <2>2. ip[i] \in Nat
    <3>1. i \in 1 .. Len(ip)
      BY <1>2, SMT
    <3>2. 0 .. 255 \subseteq Nat
      BY SMT
    <3> QED
      BY <1>2, <3>1, <3>2, ElementOfSeq, Zenon
  <2>3. /\ x[9 - 2 * i] \in Nat /\ x[10 - 2 * i] \in Nat
        /\ 16 * x[9 - 2 * i] + x[10 - 2 * i] = ip[i]
    <3>1. /\ Hex(ip[i])[1] \in Nat /\ Hex(ip[i])[2] \in Nat
          /\ 16 * Hex(ip[i])[1] + Hex(ip[i])[2] = ip[i]
      BY <2>2, HexParsed, Zenon
    <3> HIDE DEF x
    <3> QED
      BY <2>1, <3>1, SMT
  <2>4. 9 - 2 * i \in Int /\ 10 - 2 * i \in Int /\ 10 - 2 * i = 9 - 2 * i + 1
    BY SMT
  <2> HIDE DEF x
  <2>5. db(SubSeq(x, 9 - 2 * i, 10 - 2 * i)) = 16 * x[9 - 2 * i] + x[10 - 2 * i]
    BY <2>3, <2>4, TwoDigits, SMT
  <2> QED
    BY <2>3, <2>5, SMT
<1>7. dip4(x) = [i \in 1 .. 4 |-> ip[i]]
  <2> HIDE DEF x
  <2> QED
    BY <1>6, SMT DEF dip4
<1>8. ip = [i \in 1 .. 4 |-> ip[i]]
  BY <1>2, SMT
<1> HIDE DEF x
<1>9. Len(Printed(s).ip) = 8 /\ dip4(Printed(s).ip) = ip
  BY <1>1, <1>5, <1>7, <1>8, SMT
<1> QED
  BY <1>9 DEF ip

\* Services for TCP in the network namespace of the daemon, with a network in CIDR
\* form of IPv4.  For the others the runs show a disagreement: "udp" is looked up
\* among the sockets of TCP, and the words of an IPv6 address come out in the wrong
\* order (socket-front-proxy.go:66-69, procnet.go:54-59).
TcpOverIPv4 ==
  \A s \in Service : s.type = "socketFrontProxy" =>
    /\ s.spec.protocol = "tcp" /\ "procnet" \notin DOMAIN s.settings
    /\ s.spec.from \in Int /\ s.spec.to \in Int
    /\ s.spec.address # NoCIDR
    /\ s.spec.address.ip \in Seq(0 .. 255) /\ Len(s.spec.address.ip) = 4
    /\ s.spec.address.bits \in 0 .. 32

\* Two bytes are equal under a mask if they have the same bits there.
LEMMA MaskedBits ==
  ASSUME NEW x \in 0 .. 255, NEW y \in 0 .. 255, NEW n \in 0 .. 8
  PROVE  Masked(x, n) = Masked(y, n)
           <=> \A j \in 1 .. n : (x \div Block[j + 1]) % 2 = (y \div Block[j + 1]) % 2
<1> DEFINE Same(b) == (x \div b) % 2 = (y \div b) % 2
           Equal(b) == x - (x % b) = y - (y % b)
           Good(m) == Equal(Block[m + 1]) <=> \A j \in 1 .. m : Same(Block[j + 1])
           G == {m \in 0 .. n : Good(m)}
<1>1. x \in Int /\ y \in Int /\ 0 <= x /\ x < 256 /\ 0 <= y /\ y < 256
  OBVIOUS
<1>2. Equal(256)
  BY <1>1
\* Another bit
<1>3. /\ Equal(128) <=> Equal(256) /\ Same(128)
      /\ Equal(64) <=> Equal(128) /\ Same(64)
      /\ Equal(32) <=> Equal(64) /\ Same(32)
      /\ Equal(16) <=> Equal(32) /\ Same(16)
      /\ Equal(8) <=> Equal(16) /\ Same(8)
      /\ Equal(4) <=> Equal(8) /\ Same(4)
      /\ Equal(2) <=> Equal(4) /\ Same(2)
      /\ Equal(1) <=> Equal(2) /\ Same(1)
  <2>1. Equal(128) <=> Equal(256) /\ Same(128)
    BY <1>1
  <2>2. Equal(64) <=> Equal(128) /\ Same(64)
    BY <1>1
  <2>3. Equal(32) <=> Equal(64) /\ Same(32)
    BY <1>1
  <2>4. Equal(16) <=> Equal(32) /\ Same(16)
    BY <1>1
  <2>5. Equal(8) <=> Equal(16) /\ Same(8)
    BY <1>1
  <2>6. Equal(4) <=> Equal(8) /\ Same(4)
    BY <1>1
  <2>7. Equal(2) <=> Equal(4) /\ Same(2)
    BY <1>1
  <2>8. Equal(1) <=> Equal(2) /\ Same(1)
    BY <1>1
  <2> QED
    BY <2>1, <2>2, <2>3, <2>4, <2>5, <2>6, <2>7, <2>8, Zenon
<1> HIDE DEF Same, Equal
<1>4. /\ Block[1] = 256 /\ Block[2] = 128 /\ Block[3] = 64 /\ Block[4] = 32 /\ Block[5] = 16
      /\ Block[6] = 8 /\ Block[7] = 4 /\ Block[8] = 2 /\ Block[9] = 1
  BY DEF Block
<1>5. ASSUME NEW m \in 0 .. 7
      PROVE  Equal(Block[m + 2]) <=> Equal(Block[m + 1]) /\ Same(Block[m + 2])
  <2>1. \/ m + 1 = 1 /\ m + 2 = 2
        \/ m + 1 = 2 /\ m + 2 = 3
        \/ m + 1 = 3 /\ m + 2 = 4
        \/ m + 1 = 4 /\ m + 2 = 5
        \/ m + 1 = 5 /\ m + 2 = 6
        \/ m + 1 = 6 /\ m + 2 = 7
        \/ m + 1 = 7 /\ m + 2 = 8
        \/ m + 1 = 8 /\ m + 2 = 9
    OBVIOUS
  <2> QED
    BY <1>3, <1>4, <2>1
<1>6. 0 \in G
  <2>1. 1 .. 0 = {} /\ 0 + 1 = 1 /\ 0 \in 0 .. n
    OBVIOUS
  <2>2. Good(0)
    BY <1>2, <1>4, <2>1
  <2> HIDE DEF Good
  <2> QED
    BY <2>1, <2>2
<1>7. ASSUME NEW m \in 0 .. n, m < n, m \in G
      PROVE  m + 1 \in G
  <2>1. m \in 0 .. 7 /\ m + 1 \in 0 .. n /\ m + 1 + 1 = m + 2
    BY <1>7
  <2>2. 1 .. m + 1 = 1 .. m \cup {m + 1}
    BY <2>1
  <2>3. (\A j \in 1 .. m + 1 : Same(Block[j + 1]))
          <=> (\A j \in 1 .. m : Same(Block[j + 1])) /\ Same(Block[m + 2])
    BY <2>1, <2>2
  <2>4. Good(m)
    BY <1>7
  <2>5. Good(m + 1)
    BY <1>5, <2>1, <2>3, <2>4
  <2> HIDE DEF Good
  <2> QED
    BY <2>1, <2>5
<1>8. Good(n)
  <2>1. n \in Nat
    OBVIOUS
  <2> HIDE DEF G, Good
  <2>2. n \in G
    BY <1>6, <1>7, <2>1, UpTo
  <2> QED
    BY <2>2 DEF G
<1> QED
  BY <1>8 DEF Masked, Equal, Same

\* A prefix is common if all its bits are.
LEMMA PrefixBits ==
  ASSUME NEW net \in Seq(0 .. 255), Len(net) = 4, NEW ip \in Seq(0 .. 255), Len(ip) = 4,
         NEW bits \in 0 .. 32
  PROVE  (\A i \in 1 .. 4 : Masked(net[i], MaskBits(bits, i)) = Masked(ip[i], MaskBits(bits, i)))
           <=> \A k \in 1 .. bits : Bit(ip, k) = Bit(net, k)
<1> DEFINE Agree(i, n) == Masked(net[i], n) = Masked(ip[i], n)
           len(i) == MaskBits(bits, i)
           Same(i, b) == (ip[i] \div Block[b]) % 2 = (net[i] \div Block[b]) % 2
<1>1. DOMAIN ip = 1 .. 4 /\ \A i \in 1 .. 4 : ip[i] \in 0 .. 255 /\ net[i] \in 0 .. 255
  <2>1. DOMAIN ip = 1 .. 4 /\ DOMAIN net = 1 .. 4
    OBVIOUS
  <2> QED
    BY <2>1, ElementOfSeq
<1>2. bits \in Int /\ 0 <= bits /\ bits <= 32
  OBVIOUS
<1>3. \A i \in 1 .. 4 : len(i) \in 0 .. 8
  BY <1>2 DEF MaskBits
<1>4. ASSUME NEW i \in 1 .. 4
      PROVE  Agree(i, len(i)) <=> \A j \in 1 .. len(i) : Same(i, j + 1)
  <2> DEFINE n == len(i)
             x == ip[i]
             y == net[i]
  <2>1. n \in 0 .. 8 /\ x \in 0 .. 255 /\ y \in 0 .. 255
    BY <1>1, <1>3
  <2> HIDE DEF n, x, y
  <2>2. Masked(y, n) = Masked(x, n)
          <=> \A j \in 1 .. n : (y \div Block[j + 1]) % 2 = (x \div Block[j + 1]) % 2
    BY <2>1, MaskedBits
  <2> QED
    BY <2>2 DEF n, x, y
\* The k-th bit is the j-th of the i-th byte.
<1>5. ASSUME NEW k \in 1 .. bits
      PROVE  \E i \in 1 .. 4 : \E j \in 1 .. len(i) :
               i = ((k - 1) \div 8) + 1 /\ j + 1 = ((k - 1) % 8) + 2
  <2> DEFINE i == ((k - 1) \div 8) + 1
             j == ((k - 1) % 8) + 1
  <2>1. k \in Int /\ 1 <= k /\ k <= bits /\ bits \in Int /\ bits <= 32
    BY <1>2
  <2>2. i \in 1 .. 4 /\ j \in 1 .. 8 /\ k = 8 * (i - 1) + j /\ j + 1 = ((k - 1) % 8) + 2
    BY <2>1
  <2> HIDE DEF j
  <2>3. j \in 1 .. len(i)
    <3> HIDE DEF i
    <3> QED
      BY <2>1, <2>2 DEF MaskBits
  <2> HIDE DEF len
  <2> QED
    BY <2>2, <2>3
<1>6. ASSUME NEW i \in 1 .. 4, NEW j \in 1 .. len(i)
      PROVE  \E k \in 1 .. bits :
               i = ((k - 1) \div 8) + 1 /\ j + 1 = ((k - 1) % 8) + 2
  <2> DEFINE k == 8 * (i - 1) + j
  <2>1. len(i) \in 0 .. 8 /\ j \in 1 .. 8
    BY <1>3
  <2>2. k \in 1 .. bits
    BY <1>2, <2>1 DEF MaskBits
  <2>3. i = ((k - 1) \div 8) + 1 /\ j + 1 = ((k - 1) % 8) + 2
    <3>1. i \in Int /\ j \in Int /\ k \in Int /\ k - 1 = 8 * (i - 1) + (j - 1)
          /\ 0 <= j - 1 /\ j - 1 < 8
      BY <2>1
    <3>2. (k - 1) \div 8 = i - 1 /\ (k - 1) % 8 = j - 1
      <4> HIDE DEF k
      <4> QED
        BY <3>1
    <3> HIDE DEF k
    <3> QED
      BY <3>1, <3>2
  <2> HIDE DEF k
  <2> QED
    BY <2>2, <2>3
<1>7. ASSUME NEW k \in Int
      PROVE  Bit(ip, k) = Bit(net, k)
               <=> Same(((k - 1) \div 8) + 1, ((k - 1) % 8) + 2)
  BY DEF Bit
<1> HIDE DEF Agree, len, Same
<1>8. (\A i \in 1 .. 4 : Agree(i, len(i)))
        <=> \A i \in 1 .. 4 : \A j \in 1 .. len(i) : Same(i, j + 1)
  BY <1>4
<1>9. ASSUME \A i \in 1 .. 4 : \A j \in 1 .. len(i) : Same(i, j + 1), NEW k \in 1 .. bits
      PROVE  Bit(ip, k) = Bit(net, k)
  <2>1. PICK i \in 1 .. 4 : \E j \in 1 .. len(i) :
          i = ((k - 1) \div 8) + 1 /\ j + 1 = ((k - 1) % 8) + 2
    BY <1>5
  <2>2. PICK j \in 1 .. len(i) :
          i = ((k - 1) \div 8) + 1 /\ j + 1 = ((k - 1) % 8) + 2
    BY <2>1
  <2>3. Same(i, j + 1) /\ k \in Int
    BY <1>9
  <2> QED
    BY <1>7, <2>2, <2>3
<1>10. ASSUME \A k \in 1 .. bits : Bit(ip, k) = Bit(net, k),
              NEW i \in 1 .. 4, NEW j \in 1 .. len(i)
       PROVE  Same(i, j + 1)
  <2>1. PICK k \in 1 .. bits : i = ((k - 1) \div 8) + 1 /\ j + 1 = ((k - 1) % 8) + 2
    BY <1>6
  <2>2. Bit(ip, k) = Bit(net, k) /\ k \in Int
    BY <1>10
  <2> QED
    BY <1>7, <2>1, <2>2
<1> QED
  BY <1>8, <1>9, <1>10, Zenon DEF Agree, len

\* An address is in the network if it has the bits of the prefix.
LEMMA NetworkBits ==
  ASSUME NEW cidr, NEW ip \in Seq(0 .. 255), Len(ip) = 4,
         cidr.ip \in Seq(0 .. 255), Len(cidr.ip) = 4, cidr.bits \in 0 .. 32
  PROVE  InNetwork(cidr, ip) <=> \A k \in 1 .. cidr.bits : Bit(ip, k) = Bit(cidr.ip, k)
<1> DEFINE net == cidr.ip
           bits == cidr.bits
           Agree == \A i \in 1 .. 4 :
                      Masked(net[i], MaskBits(bits, i)) = Masked(ip[i], MaskBits(bits, i))
<1>1. DOMAIN ip = 1 .. 4
  OBVIOUS
<1>2. InNetwork(cidr, ip) <=> Agree
  BY <1>1 DEF InNetwork
<1>3. net \in Seq(0 .. 255) /\ Len(net) = 4 /\ bits \in 0 .. 32
  OBVIOUS
<1>4. Agree <=> \A k \in 1 .. bits : Bit(ip, k) = Bit(net, k)
  <2> HIDE DEF net, bits
  <2> QED
    BY <1>3, PrefixBits
<1> HIDE DEF Agree
<1> QED
  BY <1>2, <1>4

LEMMA OwnSet ==
  ASSUME NEW S, NEW s \in Seq(S)
  PROVE  s \in Seq(ToSet(s))
BY DEF ToSet

\* What the plugin gives is what the kernel lists.
LEMMA SocketsGiven ==
  ASSUME PluginsTypeOK, IsSocket, TcpOverIPv4,
         listeners = ParseProcNetTcpUdp(ProcNet),
         NEW given \in GetDownwardData, NEW list \in SortsOf(given)
  PROVE  SocketsDescribe(list)
<1> DEFINE spec == service.spec
           addr == spec.address
           ofTcp == {k \in DOMAIN source : source[k].file = "/proc/net/tcp"}
           there == Filter(source, ofTcp)
           line(k) == Printed(source[k])
           lines == ProcNet
           Listens(l) == l # Title /\ l.state = "0A" /\ Len(l.ip) \in {8, 32}
           inLines == {j \in DOMAIN lines : Listens(lines[j])}
           listening == Filter(lines, inLines)
           Matching(l) ==
             /\ spec.from <= l.port /\ l.port <= spec.to
             /\ addr # NoCIDR /\ InNetwork(addr, l.ip)
           inRange == {j \in DOMAIN listeners : Matching(listeners[j])}
           kept == Filter(listeners, inRange)
           Wanted(s) ==
             /\ s.file = "/proc/net/tcp" /\ s.state = "0A"
             /\ s.port \in spec.from .. spec.to
             /\ \A b \in 1 .. addr.bits : Bit(s.ip, b) = Bit(addr.ip, b)
           wanted == {k \in DOMAIN source : Wanted(source[k])}
<1>1. /\ spec.protocol = "tcp" /\ "procnet" \notin DOMAIN service.settings
      /\ spec.from \in Int /\ spec.to \in Int /\ addr # NoCIDR
      /\ addr.ip \in Seq(0 .. 255) /\ Len(addr.ip) = 4 /\ addr.bits \in 0 .. 32
  BY DEF PluginsTypeOK, IsSocket, TcpOverIPv4
<1>2. /\ source \in Seq(ToSet(source)) /\ DOMAIN source = 1 .. Len(source) /\ Len(source) \in Nat
      /\ \A k \in DOMAIN source :
           /\ source[k].ip \in Seq(0 .. 255) /\ source[k].port \in Nat /\ line(k) # Title
      /\ \A k \in ofTcp : Len(source[k].ip) = 4
  <2>1. source \in Contents["socketFrontProxy"]
    BY DEF PluginsTypeOK, IsSocket
  <2> QED
    BY <2>1, SocketsAssumption, LenProperties
\* The sockets of the file, and its lines
<1>3. /\ there \in Seq(ToSet(source))
      /\ \E at \in Orders(Len(there), ofTcp) : \A i \in DOMAIN there : there[i] = source[at[i]]
  <2>1. ofTcp \subseteq DOMAIN source
    OBVIOUS
  <2> HIDE DEF ofTcp
  <2> QED
    BY <1>2, <2>1, FilterLists
<1>4. PICK at1 \in Orders(Len(there), ofTcp) : \A i \in DOMAIN there : there[i] = source[at1[i]]
  BY <1>3
<1> DEFINE n == Len(there)
<1>5. n \in Nat /\ DOMAIN there = 1 .. n
  BY <1>3, LenProperties
<1>6. lines = <<Title>> \o [i \in 1 .. n |-> Printed(there[i])]
  <2> DEFINE X == {k \in DOMAIN source :
                     source[k].file = ProcNetFile(service.spec, service.settings)}
  <2>1. ProcNetFile(service.spec, service.settings) = "/proc/net/tcp"
    BY <1>1 DEF ProcNetFile
  <2>2. X = ofTcp
    BY <2>1
  <2>3. ProcNet = <<Title>> \o [i \in DOMAIN Filter(source, X) |-> Printed(Filter(source, X)[i])]
    BY DEF ProcNet
  <2> HIDE DEF X, ofTcp, n
  <2> QED
    BY <1>5, <2>2, <2>3, Zenon
<1>7. /\ Len(lines) = n + 1 /\ DOMAIN lines = 1 .. n + 1 /\ lines \in Seq(ToSet(lines))
      /\ lines[1] = Title
      /\ \A i \in 1 .. n : lines[i + 1] = line(at1[i])
  <2> DEFINE printed == [i \in 1 .. n |-> Printed(there[i])]
             S == {Title} \cup {printed[i] : i \in 1 .. n}
  <2>1. printed \in Seq(S) /\ Len(printed) = n /\ <<Title>> \in Seq(S) /\ Len(<<Title>>) = 1
    <3>1. \A i \in 1 .. n : printed[i] \in S
      OBVIOUS
    <3>2. printed = [i \in 1 .. n |-> printed[i]]
      OBVIOUS
    <3> HIDE DEF n, printed, S
    <3> QED
      BY <1>5, <3>1, <3>2 DEF S
  <2>2. lines = <<Title>> \o printed
    BY <1>6, Zenon
  <2>3. \A i \in 1 .. n : printed[i] = line(at1[i])
    <3> HIDE DEF n, there
    <3> QED
      BY <1>4, <1>5
  <2> HIDE DEF n, printed, S, line, lines
  <2>4. /\ lines \in Seq(S) /\ Len(lines) = Len(<<Title>>) + Len(printed)
        /\ \A i \in 1 .. Len(<<Title>>) + Len(printed) :
             lines[i] = IF i <= Len(<<Title>>) THEN <<Title>>[i] ELSE printed[i - Len(<<Title>>)]
    BY <2>1, <2>2, ConcatProperties, Zenon
  <2>5. Len(lines) = n + 1 /\ DOMAIN lines = 1 .. n + 1
    BY <1>5, <2>1, <2>4
  <2>6. \A i \in 1 .. n + 1 : lines[i] = IF i <= 1 THEN Title ELSE printed[i - 1]
    BY <1>5, <2>1, <2>4
  <2>7. lines[1] = Title /\ \A i \in 1 .. n : lines[i + 1] = printed[i]
    BY <1>5, <2>6
  <2> QED
    BY <2>3, <2>4, <2>5, <2>7, OwnSet
<1>8. ASSUME NEW k \in ofTcp
      PROVE  /\ Len(line(k).ip) = 8 /\ dip4(line(k).ip) = source[k].ip
             /\ dw(line(k).port) = source[k].port
             /\ Listens(line(k)) <=> source[k].state = "0A"
  <2>1. k \in DOMAIN source
    OBVIOUS
  <2>2. Len(line(k).ip) = 8 /\ dip4(line(k).ip) = source[k].ip
    BY <1>2, <2>1, AddressParsed, Zenon
  <2>3. dw(line(k).port) = source[k].port
    BY <1>2, <2>1, PortParsed, Zenon
  <2>4. line(k).state = source[k].state
    BY SMT DEF Printed
  <2> HIDE DEF line
  <2> QED
    BY <1>2, <2>1, <2>2, <2>3, <2>4
\* The lines that the parser takes
<1>9. /\ listening \in Seq(ToSet(lines))
      /\ \E at \in Orders(Len(listening), inLines) :
           \A i \in DOMAIN listening : listening[i] = lines[at[i]]
  <2>1. inLines \subseteq DOMAIN lines
    OBVIOUS
  <2>2. lines \in Seq(ToSet(lines))
    BY <1>7
  <2> HIDE DEF inLines, lines
  <2> QED
    BY <2>1, <2>2, FilterLists
<1>10. PICK at2 \in Orders(Len(listening), inLines) :
         \A i \in DOMAIN listening : listening[i] = lines[at2[i]]
  BY <1>9
<1> DEFINE m == Len(listening)
           via(i) == at1[at2[i] - 1]
<1>11. m \in Nat /\ DOMAIN listening = 1 .. m
  BY <1>9, LenProperties
<1>12. /\ at1 \in [1 .. n -> ofTcp]
       /\ \A i, j \in 1 .. n : i < j => at1[i] < at1[j]
       /\ \A k \in ofTcp : \E i \in 1 .. n : at1[i] = k
       /\ at2 \in [1 .. m -> inLines]
       /\ \A i, j \in 1 .. m : i < j => at2[i] < at2[j]
       /\ \A k \in inLines : \E i \in 1 .. m : at2[i] = k
  BY <1>4, <1>10 DEF Orders
<1>13. ASSUME NEW j \in inLines
       PROVE  /\ j - 1 \in 1 .. n /\ j \in Nat /\ lines[j] = line(at1[j - 1])
              /\ Listens(line(at1[j - 1]))
  <2>1. j \in 1 .. n + 1 /\ lines[j] # Title /\ Listens(lines[j])
    BY <1>7
  <2>2. j # 1
    BY <1>7, <2>1
  <2>3. j - 1 \in 1 .. n /\ j \in Nat /\ j - 1 + 1 = j
    <3> HIDE DEF n
    <3> QED
      BY <1>5, <2>1, <2>2
  <2> HIDE DEF lines, line, Listens
  <2> QED
    BY <1>7, <2>1, <2>3
<1> HIDE DEF lines, n, there, line, listening, inLines
<1>14. ASSUME NEW i \in 1 .. m
       PROVE  /\ at2[i] - 1 \in 1 .. n /\ at2[i] \in Nat /\ via(i) \in ofTcp
              /\ listening[i] = line(via(i)) /\ source[via(i)].state = "0A"
  <2>1. at2[i] \in inLines
    BY <1>12
  <2>2. at2[i] - 1 \in 1 .. n /\ at2[i] \in Nat /\ lines[at2[i]] = line(via(i)) /\ Listens(line(via(i)))
    BY <1>13, <2>1
  <2>3. via(i) \in ofTcp
    BY <1>12, <2>2
  <2> HIDE DEF Listens, via, ofTcp
  <2> QED
    BY <1>8, <1>10, <1>11, <2>2, <2>3
<1>15. ASSUME NEW i \in 1 .. m, NEW j \in 1 .. m, i < j
       PROVE  via(i) < via(j)
  <2>1. at2[i] - 1 < at2[j] - 1
    BY <1>12, <1>14, <1>15
  <2> QED
    BY <1>12, <1>14, <2>1
<1>16. ASSUME NEW k \in ofTcp, source[k].state = "0A"
       PROVE  \E i \in 1 .. m : via(i) = k
  <2>1. PICK j \in 1 .. n : at1[j] = k
    BY <1>12
  <2>2. lines[j + 1] = line(k) /\ j + 1 \in DOMAIN lines /\ j + 1 - 1 = j
    BY <1>5, <1>7, <2>1
  <2>3. j + 1 \in inLines
    <3>1. Listens(line(k))
      BY <1>8, <1>16
    <3> QED
      BY <2>2, <3>1 DEF inLines
  <2>4. PICK i \in 1 .. m : at2[i] = j + 1
    BY <1>12, <2>3
  <2> QED
    BY <2>1, <2>2, <2>4
\* The listeners, and the backends
<1>17. listeners = [i \in 1 .. m |-> [ip |-> source[via(i)].ip, port |-> source[via(i)].port]]
  <2>1. listeners =
          [i \in DOMAIN listening |->
            [ip |-> IF Len(listening[i].ip) = 8 THEN dip4(listening[i].ip)
                    ELSE dip6(listening[i].ip),
             port |-> dw(listening[i].port)]]
    BY DEF ParseProcNetTcpUdp, listening, inLines, lines
  <2>2. ASSUME NEW i \in 1 .. m
        PROVE  /\ Len(listening[i].ip) = 8 /\ dip4(listening[i].ip) = source[via(i)].ip
               /\ dw(listening[i].port) = source[via(i)].port
    BY <1>8, <1>14
  <2> HIDE DEF m, via
  <2> QED
    BY <1>11, <2>1, <2>2
<1> HIDE DEF m
<1>18. /\ DOMAIN listeners = 1 .. m /\ Len(listeners) = m
       /\ listeners \in Seq(ToSet(listeners))
       /\ \A i \in 1 .. m : /\ listeners[i].ip = source[via(i)].ip
                            /\ listeners[i].port = source[via(i)].port
  <2> HIDE DEF via
  <2> QED
    BY <1>11, <1>17 DEF ToSet
<1>19. /\ kept \in Seq(ToSet(listeners))
       /\ \E at \in Orders(Len(kept), inRange) : \A i \in DOMAIN kept : kept[i] = listeners[at[i]]
  <2>1. inRange \subseteq DOMAIN listeners
    OBVIOUS
  <2> HIDE DEF inRange
  <2> QED
    BY <1>18, <2>1, FilterLists
<1>20. PICK at3 \in Orders(Len(kept), inRange) :
         \A i \in DOMAIN kept : kept[i] = listeners[at3[i]]
  BY <1>19
<1>21. given = [i \in DOMAIN kept |-> [host |-> kept[i].ip, port |-> kept[i].port, weight |-> 0]]
  BY OneType DEF GetDownwardData, ListenerData
<1> DEFINE w == Len(kept)
<1>22. w \in Nat /\ DOMAIN kept = 1 .. w /\ DOMAIN given = 1 .. w /\ Len(given) = w
  <2> HIDE DEF kept
  <2>1. w \in Nat /\ DOMAIN kept = 1 .. w
    BY <1>19, LenProperties
  <2> QED
    BY <1>21, <2>1
<1>23. /\ at3 \in [1 .. w -> inRange] /\ inRange \subseteq 1 .. m
       /\ \A i, j \in 1 .. w : i < j => at3[i] < at3[j]
       /\ \A k \in inRange : \E i \in 1 .. w : at3[i] = k
  BY <1>18, <1>20 DEF Orders
<1>24. ASSUME NEW j \in 1 .. m
       PROVE  j \in inRange <=> via(j) \in wanted
  <2> DEFINE k == via(j)
             s == source[k]
  <2>1. k \in ofTcp /\ s.state = "0A" /\ listeners[j].ip = s.ip /\ listeners[j].port = s.port
    BY <1>14, <1>18
  <2>2. k \in DOMAIN source /\ s.file = "/proc/net/tcp" /\ s.ip \in Seq(0 .. 255) /\ s.port \in Nat
        /\ Len(s.ip) = 4
    BY <1>2, <2>1
  <2>4. InNetwork(addr, s.ip)
          <=> \A b \in 1 .. addr.bits : Bit(s.ip, b) = Bit(addr.ip, b)
    <3> HIDE DEF s, addr
    <3> QED
      BY <1>1, <2>2, NetworkBits
  <2>5. j \in inRange <=> Matching(listeners[j])
    BY <1>18
  <2>6. Matching(listeners[j]) <=> Wanted(s)
    <3>1. spec.from <= s.port /\ s.port <= spec.to <=> s.port \in spec.from .. spec.to
      <4> HIDE DEF s, spec
      <4> QED
        BY <1>1, <2>2
    <3> HIDE DEF s, addr, spec
    <3> QED
      BY <1>1, <2>1, <2>2, <2>4, <3>1, Zenon
  <2>7. k \in wanted <=> k \in DOMAIN source /\ Wanted(s)
    <3> HIDE DEF Wanted
    <3> QED
      OBVIOUS
  <2> HIDE DEF Matching, Wanted, inRange, wanted
  <2> QED
    BY <2>2, <2>5, <2>6, <2>7
<1>25. ASSUME NEW k \in wanted
       PROVE  k \in ofTcp /\ source[k].state = "0A"
  OBVIOUS
<1> HIDE DEF inRange, wanted, kept, w, via
<1> DEFINE at4 == [i \in 1 .. w |-> via(at3[i])]
<1>26. at4 \in Orders(w, wanted)
  <2>1. at4 \in [1 .. w -> wanted]
    BY <1>23, <1>24
  <2>2. ASSUME NEW i \in 1 .. w, NEW j \in 1 .. w, i < j
        PROVE  at4[i] < at4[j]
    BY <1>15, <1>23, <2>2
  <2>3. ASSUME NEW k \in wanted
        PROVE  \E i \in 1 .. w : at4[i] = k
    <3>1. PICK j \in 1 .. m : via(j) = k
      BY <1>16, <1>25
    <3>2. PICK i \in 1 .. w : at3[i] = j
      BY <1>23, <1>24, <3>1
    <3> QED
      BY <3>1, <3>2
  <2> HIDE DEF at4
  <2> QED
    BY <2>1, <2>2, <2>3 DEF Orders
<1>27. \A i \in 1 .. w : given[i].host = source[at4[i]].ip /\ given[i].port = source[at4[i]].port
  <2> SUFFICES ASSUME NEW i \in 1 .. w
               PROVE  given[i].host = source[at4[i]].ip /\ given[i].port = source[at4[i]].port
    OBVIOUS
  <2>1. at3[i] \in 1 .. m /\ kept[i] = listeners[at3[i]]
    BY <1>20, <1>22, <1>23
  <2>2. given[i].host = kept[i].ip /\ given[i].port = kept[i].port
    BY <1>21, <1>22
  <2> QED
    BY <1>18, <2>1, <2>2
<1> HIDE DEF at4
<1>28. Rearranges(list, given, w, wanted, at4) /\ DOMAIN list = 1 .. w
  <2>1. wanted \subseteq Int
    BY <1>2 DEF wanted
  <2>2. list \in SortsOf(given)
    OBVIOUS
  <2>3. Rearranges(list, given, w, wanted, at4)
    BY <1>22, <1>26, <2>1, <2>2, Sorts
  <2> QED
    BY <2>3, Zenon DEF Rearranges
<1>29. PICK from \in Bijection(1 .. w, wanted) :
         \A i \in 1 .. w : \E j \in 1 .. w : list[i] = given[j] /\ from[i] = at4[j]
  BY <1>28 DEF Rearranges
<1>30. \A i \in 1 .. w :
         list[i].host = source[from[i]].ip /\ list[i].port = source[from[i]].port
  BY <1>27, <1>29
<1>31. SocketsDescribe(list) <=>
         \E at \in Bijection(DOMAIN list, wanted) :
           \A i \in DOMAIN list :
             list[i].host = source[at[i]].ip /\ list[i].port = source[at[i]].port
  <2> DEFINE path == IF "procnet" \in DOMAIN service.settings THEN service.settings.procnet
                     ELSE [tcp |-> "/proc/net/tcp", udp |-> "/proc/net/udp"][spec.protocol]
             state == IF spec.protocol = "udp" THEN "07" ELSE "0A"
             Asked(s) ==
               /\ s.file = path /\ s.state = state
               /\ s.port \in spec.from .. spec.to
               /\ \A b \in 1 .. addr.bits : Bit(s.ip, b) = Bit(addr.ip, b)
             asked == {k \in DOMAIN source : Asked(source[k])}
  <2>1. path = "/proc/net/tcp" /\ state = "0A"
    BY <1>1
  <2>2. asked = wanted
    <3> HIDE DEF path, state
    <3> QED
      BY <2>1 DEF wanted
  <2>3. SocketsDescribe(list) <=>
          \E at \in Bijection(DOMAIN list, asked) :
            \A i \in DOMAIN list :
              list[i].host = source[at[i]].ip /\ list[i].port = source[at[i]].port
    BY Zenon DEF SocketsDescribe
  <2> HIDE DEF asked
  <2> QED
    BY <2>2, <2>3
<1> QED
  BY <1>28, <1>29, <1>30, <1>31

\* At rest the worker has each socket that listens in the range and the network, once
\* and sorted by address, with its address and its port, and no other: through the digits
\* that the kernel prints, the parser, its filters and the sort, for every list of
\* sockets and every network of IPv4 (socket-front-proxy.go:83-111, procnet.go:27-98,
\* serviceworker.go:63-93).
THEOREM SocketsAlwaysAsDescribed ==
  ASSUME TcpOverIPv4
  PROVE  PluginsSpec => []SocketsAsDescribed
<1>1. FreshInv => SocketsAsDescribed
  <2> SUFFICES ASSUME FreshInv, AtRest, IsSocket
               PROVE  SocketsDescribe(data) /\ ByAddress(data)
    BY DEF SocketsAsDescribed
  <2>1. data \in SortedData
    BY DEF FreshInv, SocketInv, AtRest, Fresh
  <2>2. PluginsTypeOK /\ listeners = ParseProcNetTcpUdp(ProcNet)
    BY DEF FreshInv, TypeInv, AtRest
  <2>3. PICK given \in GetDownwardData : \E list \in SortsOf(given) : list = data
    BY <2>1 DEF SortedData
  <2>4. PICK list \in SortsOf(given) : list = data
    BY <2>3
  <2>5. SocketsDescribe(list) /\ ByAddress(list)
    BY <2>2, <2>4, SocketsGiven, Sorted
  <2> QED
    BY <2>4, <2>5
<1> QED
  BY <1>1, FreshInit, FreshStep, PTL DEF PluginsSpec

-----------------------------------------------------------------------------
(***************************************************************************)
(* The data files                                                          *)
(***************************************************************************)
\* Each map that has an ip and a weight, once, and nothing of the others or of anything that is not a list.
LEMMA JSONGiven ==
  ASSUME PluginsTypeOK, IsFile, service.spec.type = "json",
         NEW given, given = FileData(source, service.spec), NEW sorted \in SortsOf(given)
  PROVE  FileDescribes(sorted)
<1>1. given = FileData(source, service.spec)
  OBVIOUS
<1>2. service.spec.type = "json"
  OBVIOUS
<1>3. CASE source = NoFile
  BY <1>1, <1>3, SortsNothing DEF FileData, FileDescribes
<1>4. CASE source # NoFile
  <2>1. given = getDownwardDataJSON(source.json)
    BY <1>1, <1>2, <1>4 DEF FileData
  <2>2. FileDescribes(sorted)
          <=> IF source.json.kind = "list" THEN JSONDescribes(sorted) ELSE sorted = <<>>
    BY <1>2, <1>4 DEF FileDescribes
  <2>3. CASE source.json.kind # "list"
    BY <2>1, <2>2, <2>3, SortsNothing DEF getDownwardDataJSON
  <2>4. CASE source.json.kind = "list"
    <3> DEFINE list == source.json.list
               usable == {k \in DOMAIN list : list[k].ip # NoValue /\ list[k].weight # NoValue}
               kept == Filter(list, usable)
               w == Len(kept)
    <3>1. list \in Seq(ToSet(list))
      BY <1>4, <2>4, ListsAssumption DEF PluginsTypeOK, IsFile
    <3>2. /\ kept \in Seq(ToSet(list))
          /\ \E at \in Orders(w, usable) : \A i \in DOMAIN kept : kept[i] = list[at[i]]
      <4>1. usable \subseteq DOMAIN list
        OBVIOUS
      <4> HIDE DEF usable, list
      <4> QED
        BY <3>1, <4>1, FilterLists
    <3>3. PICK at \in Orders(w, usable) : \A i \in DOMAIN kept : kept[i] = list[at[i]]
      BY <3>2
    <3>4. given = [i \in DOMAIN kept |->
                   [host |-> kept[i].ip.host, port |-> kept[i].ip.port, weight |-> kept[i].weight]]
      BY <2>1, <2>4 DEF getDownwardDataJSON
    <3>5. usable = {k \in DOMAIN list : NoValue \notin {list[k].ip, list[k].weight}}
      OBVIOUS
    <3> HIDE DEF kept, usable, list
    <3>6. w \in Nat /\ DOMAIN given = 1 .. w /\ usable \subseteq Int
      BY <3>1, <3>2, <3>4, LenProperties DEF usable
    <3>7. \A i \in 1 .. w :
            given[i] = [host |-> list[at[i]].ip.host, port |-> list[at[i]].ip.port,
                        weight |-> list[at[i]].weight]
      BY <3>3, <3>4, <3>6
    <3>8. Rearranges(sorted, given, w, usable, at) /\ DOMAIN sorted = 1 .. w
      <4>1. sorted \in SortsOf(given)
        OBVIOUS
      <4>2. Rearranges(sorted, given, w, usable, at)
        BY <3>3, <3>6, <4>1, Sorts
      <4> QED
        BY <4>2, Zenon DEF Rearranges
    <3>9. PICK from \in Bijection(1 .. w, usable) :
            \A i \in 1 .. w : \E j \in 1 .. w : sorted[i] = given[j] /\ from[i] = at[j]
      BY <3>8 DEF Rearranges
    <3>10. \A i \in 1 .. w :
             sorted[i] = [host |-> list[from[i]].ip.host, port |-> list[from[i]].ip.port,
                          weight |-> list[from[i]].weight]
      BY <3>7, <3>9
    <3>11. JSONDescribes(sorted)
            <=> \E to \in Bijection(DOMAIN sorted, usable) : \A i \in DOMAIN sorted :
                  sorted[i] = [host |-> list[to[i]].ip.host, port |-> list[to[i]].ip.port,
                               weight |-> list[to[i]].weight]
      BY <3>5, Zenon DEF JSONDescribes, list
    <3>12. JSONDescribes(sorted)
      <4>1. from \in Bijection(DOMAIN sorted, usable)
        BY <3>8
      <4>2. \A i \in DOMAIN sorted :
              sorted[i] = [host |-> list[from[i]].ip.host, port |-> list[from[i]].ip.port,
                           weight |-> list[from[i]].weight]
        BY <3>8, <3>10
      <4> QED
        BY <3>11, <4>1, <4>2, Zenon
    <3> QED
      BY <2>2, <2>4, <3>12
  <2> QED
    BY <2>3, <2>4
<1> QED
  BY <1>3, <1>4

Numbers == {ParseInt[t] : t \in DOMAIN ParseInt}

NoZero(line) ==
  \A field \in ToSet(line) : \A part \in ToSet(field) \cap DOMAIN ParseInt : ParseInt[part] # 0

\* The backend of a line, with -1 for no weight
Read(a) == [a EXCEPT !.weight = IF @ = 0 THEN -1 ELSE @]

\* Files in text or JSON, where a number is written in one way, Said has the backends
\* that the lines name, and no line has a 0 or a blank host.  The runs show that a
\* weight of 0 is lost (proxy-from-file.go:142-144).
PlainFiles ==
  /\ \A s \in Service : s.type = "proxyFromFile" => s.spec.type \in {"text", "json"}
  /\ Numbers \subseteq Nat
  /\ \A t, u \in DOMAIN ParseInt : ParseInt[t] = ParseInt[u] => t = u
  /\ \A b \in Said : /\ b.host \notin Blanks
                    /\ b \in [host : {b.host}, port : {0} \cup Numbers, weight : {-1} \cup Numbers]
  /\ \A file \in Contents["proxyFromFile"] \ {NoFile} : \A line \in ToSet(file.lines) :
       /\ NoZero(line)
       /\ \A a \in splitHostPortWeight(line) : Blank(line) \/ Read(a) \in Said

\* What splitHostPortWeight finds in a line
Names(line, a) ==
  /\ a = [host |-> line[1][1], port |-> a.port, weight |-> a.weight]
  /\ \/ Len(line[1]) = 1 /\ a.port = 0
     \/ Len(line[1]) = 2 /\ line[1][2] \in DOMAIN ParseInt /\ a.port = ParseInt[line[1][2]]
  /\ \/ Len(line) = 1 /\ a.weight = 0
     \/ /\ Len(line) = 2 /\ Len(line[2]) = 1 /\ line[2][1] \in DOMAIN ParseInt
        /\ a.weight = ParseInt[line[2][1]]

\* A line that is not malformed has one backend.
LEMMA Splits ==
  ASSUME NEW line, NEW a
  PROVE  a \in splitHostPortWeight(line) <=> Names(line, a)
<1> DEFINE Addr(h, p) ==
             /\ h = line[1][1]
             /\ \/ Len(line[1]) = 1 /\ p = 0
                \/ Len(line[1]) = 2 /\ line[1][2] \in DOMAIN ParseInt /\ p = ParseInt[line[1][2]]
           weighted(w) == {[host |-> x.host, port |-> x.port, weight |-> w] : x \in splitHostPort(line[1])}
<1>1. \A x \in splitHostPort(line[1]) : Addr(x.host, x.port)
  BY DEF splitHostPort
<1>2. ASSUME NEW h, NEW p, Addr(h, p)
      PROVE  \E x \in splitHostPort(line[1]) : x.host = h /\ x.port = p
  <2> DEFINE x == [host |-> h, port |-> p]
  <2>1. CASE Len(line[1]) = 1
    <3>1. splitHostPort(line[1]) = {x}
      BY <1>2, <2>1 DEF splitHostPort
    <3> QED
      BY <3>1
  <2>2. CASE Len(line[1]) = 2
    <3>1. splitHostPort(line[1]) = {x}
      BY <1>2, <2>2 DEF splitHostPort
    <3> QED
      BY <3>1
  <2> QED
    BY <1>2, <2>1, <2>2
<1> HIDE DEF Addr
<1>3. \A w : a \in weighted(w) <=>
               a = [host |-> a.host, port |-> a.port, weight |-> w] /\ Addr(a.host, a.port)
  BY <1>1, <1>2
<1>4. splitHostPortWeight(line) =
        CASE Len(line) = 1 -> weighted(0)
          [] Len(line) = 2 /\ Len(line[2]) = 1 /\ line[2][1] \in DOMAIN ParseInt ->
               weighted(ParseInt[line[2][1]])
          [] OTHER -> {}
  BY DEF splitHostPortWeight
<1> HIDE DEF weighted
<1>5. a \in splitHostPortWeight(line) <=>
        \/ Len(line) = 1 /\ a \in weighted(0)
        \/ /\ Len(line) = 2 /\ Len(line[2]) = 1 /\ line[2][1] \in DOMAIN ParseInt
           /\ a \in weighted(ParseInt[line[2][1]])
  BY <1>4
<1> QED
  BY <1>3, <1>5 DEF Names, Addr

Shaped(line) ==
  line \in Seq(ToSet(line)) /\ \A field \in ToSet(line) : field \in Seq(ToSet(field))

LEMMA Tuples ==
  ASSUME NEW s, s \in Seq(ToSet(s))
  PROVE  /\ Len(s) = 1 => s = <<s[1]>>
         /\ Len(s) = 2 => s = <<s[1], s[2]>>
OBVIOUS

Numeral(n) == CHOOSE t \in DOMAIN ParseInt : ParseInt[t] = n

LEMMA Numerals ==
  ASSUME PlainFiles
  PROVE  /\ \A n \in Numbers : Numeral(n) \in DOMAIN ParseInt /\ ParseInt[Numeral(n)] = n
         /\ \A t \in DOMAIN ParseInt : Numeral(ParseInt[t]) = t
<1>1. \A n \in Numbers : Numeral(n) \in DOMAIN ParseInt /\ ParseInt[Numeral(n)] = n
  BY DEF Numbers, Numeral
<1> QED
  BY <1>1 DEF PlainFiles, Numbers

LEMMA WrittenOut ==
  ASSUME NEW b
  PROVE  LET addr == IF b.port = 0 THEN <<b.host>> ELSE <<b.host, Numeral(b.port)>> IN
         Written(b) = IF b.weight < 0 THEN <<addr>> ELSE << addr, <<Numeral(b.weight)>> >>
<1> DEFINE addr == IF b.port = 0 THEN <<b.host>> ELSE <<b.host, Numeral(b.port)>>
           w == <<Numeral(b.weight)>>
           S == {addr, w}
<1>1. Written(b) = <<addr>> \o IF b.weight < 0 THEN <<>> ELSE <<w>>
  BY Zenon DEF Written, Numeral
<1> HIDE DEF addr, w
<1>2. <<addr>> \in Seq(S) /\ <<w>> \in Seq(S) /\ Len(<<addr>>) = 1 /\ Len(<<w>>) = 1
  OBVIOUS
<1>4. <<addr>> \o <<>> = <<addr>>
  BY <1>2, ConcatEmptySeq, Zenon
<1>5. <<addr>> \o <<w>> = <<addr, w>>
  <2> DEFINE x == <<addr>> \o <<w>>
  <2>1. /\ x \in Seq(S) /\ Len(x) = Len(<<addr>>) + Len(<<w>>)
        /\ \A i \in 1 .. Len(<<addr>>) + Len(<<w>>) :
             x[i] = IF i <= Len(<<addr>>) THEN <<addr>>[i] ELSE <<w>>[i - Len(<<addr>>)]
    BY <1>2, ConcatProperties, Zenon
  <2> HIDE DEF x, S
  <2>2. x \in Seq(S) /\ Len(x) = 2 /\ x[1] = addr /\ x[2] = w
    BY <1>2, <2>1
  <2>3. x = <<addr, w>>
    BY <2>2
  <2> QED
    BY <2>3 DEF x
<1>3. Written(b) = IF b.weight < 0 THEN <<addr>> ELSE <<addr, w>>
  BY <1>1, <1>4, <1>5
<1> QED
  BY <1>3 DEF addr, w

\* What is written can be read, and what is read has been written.
LEMMA RoundTrip ==
  ASSUME PlainFiles, NEW line, Shaped(line), NoZero(line), NEW b \in Said
  PROVE  Written(b) = line <=> ~ Blank(line) /\ \E a : Names(line, a) /\ Read(a) = b
<1> DEFINE addr == IF b.port = 0 THEN <<b.host>> ELSE <<b.host, Numeral(b.port)>>
           w == Numeral(b.weight)
<1>1. Written(b) = IF b.weight < 0 THEN <<addr>> ELSE << addr, <<w>> >>
  BY WrittenOut
<1>2. /\ b.host \notin Blanks /\ b.port \in {0} \cup Numbers /\ b.weight \in {-1} \cup Numbers
      /\ b = [host |-> b.host, port |-> b.port, weight |-> b.weight]
      /\ Numbers \subseteq Nat
  BY DEF PlainFiles
<1>3. /\ b.port # 0 => Numeral(b.port) \in DOMAIN ParseInt /\ ParseInt[Numeral(b.port)] = b.port
      /\ ~ (b.weight < 0) => w \in DOMAIN ParseInt /\ ParseInt[w] = b.weight
  BY <1>2, Numerals
<1>4. ASSUME Written(b) = line
      PROVE  ~ Blank(line) /\ \E a : Names(line, a) /\ Read(a) = b
  <2> DEFINE a == [host |-> b.host, port |-> b.port,
                   weight |-> IF b.weight < 0 THEN 0 ELSE b.weight]
  <2>1. line[1] = addr /\ 1 \in DOMAIN line /\ addr[1] = b.host
        /\ Len(line) = IF b.weight < 0 THEN 1 ELSE 2
    BY <1>1, <1>4
  <2>2. ~ Blank(line)
    BY <1>2, <2>1 DEF Blank
  <2>3. ~ (b.weight < 0) => line[2] = <<w>> /\ Len(line[2]) = 1 /\ line[2][1] = w
    BY <1>1, <1>4
  <2>4. \/ Len(line[1]) = 1 /\ b.port = 0
        \/ Len(line[1]) = 2 /\ line[1][2] = Numeral(b.port) /\ b.port # 0
    BY <2>1
  <2>5. Names(line, a)
    <3> HIDE DEF addr, w
    <3> QED
      BY <1>3, <2>1, <2>3, <2>4 DEF Names
  <2>6. b.weight # 0
    <3> SUFFICES ASSUME ~ (b.weight < 0) PROVE b.weight # 0
      BY <1>2
    <3>1. line[2] \in ToSet(line) /\ w \in ToSet(line[2])
      BY <1>1, <1>4 DEF ToSet
    <3> HIDE DEF w
    <3> QED
      BY <1>3, <3>1 DEF NoZero
  <2>7. Read(a) = b
    BY <1>2, <2>6 DEF Read
  <2> QED
    BY <2>2, <2>5, <2>7
<1>5. ASSUME ~ Blank(line), NEW a, Names(line, a), Read(a) = b
      PROVE  Written(b) = line
  <2>1. /\ a = [host |-> line[1][1], port |-> a.port, weight |-> a.weight]
        /\ b.host = line[1][1] /\ b.port = a.port
        /\ b.weight = IF a.weight = 0 THEN -1 ELSE a.weight
    BY <1>5 DEF Names, Read
  <2>2. 1 \in DOMAIN line /\ line[1] \in ToSet(line) /\ line[1] \in Seq(ToSet(line[1]))
    BY <1>5 DEF Names, Shaped, ToSet
  <2>3. line[1] = addr
    <3>1. CASE Len(line[1]) = 1 /\ a.port = 0
      BY <2>1, <2>2, <3>1, Tuples
    <3>2. CASE Len(line[1]) = 2 /\ line[1][2] \in DOMAIN ParseInt /\ a.port = ParseInt[line[1][2]]
      <4>1. line[1] = <<line[1][1], line[1][2]>> /\ line[1][2] \in ToSet(line[1])
        BY <2>2, <3>2, Tuples DEF ToSet
      <4>2. ParseInt[line[1][2]] # 0
        BY <2>2, <3>2, <4>1 DEF NoZero
      <4>3. Numeral(a.port) = line[1][2]
        BY <3>2, Numerals
      <4> QED
        BY <2>1, <3>2, <4>1, <4>2, <4>3
    <3> QED
      BY <1>5, <3>1, <3>2 DEF Names
  <2>4. CASE Len(line) = 1 /\ a.weight = 0
    <3>1. line = <<line[1]>>
      BY <2>4, Tuples DEF Shaped
    <3> HIDE DEF addr
    <3> QED
      BY <1>1, <2>1, <2>3, <2>4, <3>1
  <2>5. CASE /\ Len(line) = 2 /\ Len(line[2]) = 1 /\ line[2][1] \in DOMAIN ParseInt
             /\ a.weight = ParseInt[line[2][1]]
    <3>1. line = <<line[1], line[2]>> /\ line[2] \in ToSet(line)
      BY <2>5, Tuples DEF Shaped, ToSet
    <3>2. line[2] = <<line[2][1]>> /\ line[2][1] \in ToSet(line[2])
      <4>1. line[2] \in Seq(ToSet(line[2]))
        BY <3>1 DEF Shaped
      <4>2. line[2] = <<line[2][1]>>
        BY <2>5, <4>1, Tuples
      <4>3. 1 \in DOMAIN line[2]
        BY <2>5, <4>1
      <4> QED
        BY <4>2, <4>3 DEF ToSet
    <3>3. ParseInt[line[2][1]] # 0 /\ ParseInt[line[2][1]] \in Nat
      BY <2>5, <3>1, <3>2 DEF NoZero, PlainFiles, Numbers
    <3>4. Numeral(a.weight) = line[2][1]
      BY <2>5, Numerals
    <3>5. b.weight = a.weight /\ ~ (b.weight < 0)
      BY <2>1, <2>5, <3>3
    <3> HIDE DEF addr
    <3> QED
      BY <1>1, <2>3, <3>1, <3>2, <3>4, <3>5
  <2> QED
    BY <1>5, <2>4, <2>5 DEF Names
<1> QED
  BY <1>4, <1>5

\* Each line that names a backend, once, and nothing of the others.
LEMMA TextGiven ==
  ASSUME PluginsTypeOK, IsFile, PlainFiles, source # NoFile, service.spec.type = "text",
         NEW given, given = FileData(source, service.spec), NEW sorted \in SortsOf(given)
  PROVE  TextDescribes(sorted)
<1> DEFINE lines == source.lines
           default == service.spec.defaultWeight
           parsed(line) == IF Blank(line) THEN {} ELSE splitHostPortWeight(line)
           Defaulted(a) == [a EXCEPT !.weight = IF @ = 0 THEN default ELSE @]
           backends(line) == {Defaulted(a) : a \in parsed(line)}
           entries(line) == {b \in Said : Written(b) = line}
           weight(b) == IF b.weight < 0 THEN default ELSE b.weight
           good == {k \in DOMAIN lines : backends(lines[k]) # {}}
           kept == Filter(lines, good)
           w == Len(kept)
<1>1. /\ lines \in Seq(ToSet(lines))
      /\ \A line \in ToSet(lines) :
           /\ Shaped(line) /\ NoZero(line)
           /\ \A a \in splitHostPortWeight(line) : Blank(line) \/ Read(a) \in Said
  <2>1. source \in Contents["proxyFromFile"] \ {NoFile}
    BY DEF PluginsTypeOK, IsFile
  <2> QED
    BY <2>1, ListsAssumption DEF PlainFiles, Shaped
<1>2. ASSUME NEW line \in ToSet(lines)
      PROVE  /\ backends(line) = {} <=> entries(line) = {}
             /\ \A x \in backends(line) :
                  \E b \in entries(line) : x = [b EXCEPT !.weight = weight(b)]
  <2>1. \A b \in entries(line) : \E a \in parsed(line) : Read(a) = b
    BY <1>1, <1>2, RoundTrip, Splits
  <2>2. ASSUME NEW a \in parsed(line)
        PROVE  /\ Read(a) \in entries(line)
               /\ Defaulted(a) = [Read(a) EXCEPT !.weight = weight(Read(a))]
    <3>1. ~ Blank(line) /\ a \in splitHostPortWeight(line) /\ Names(line, a)
      BY <2>2, Splits
    <3>2. Read(a) \in Said
      BY <1>1, <1>2, <3>1
    <3>3. Written(Read(a)) = line
      BY <1>1, <1>2, <3>1, <3>2, RoundTrip
    <3>4. a = [host |-> line[1][1], port |-> a.port, weight |-> a.weight] /\ a.weight \in Nat
      BY <3>1 DEF Names, PlainFiles, Numbers
    <3>5. Defaulted(a) = [Read(a) EXCEPT !.weight = weight(Read(a))]
      <4> DEFINE u == IF a.weight = 0 THEN default ELSE a.weight
      <4>1. Read(a) = [host |-> line[1][1], port |-> a.port,
                       weight |-> IF a.weight = 0 THEN -1 ELSE a.weight]
        BY <3>4 DEF Read
      <4>2. weight(Read(a)) = u
        BY <3>4, <4>1
      <4>3. [Read(a) EXCEPT !.weight = u] = [host |-> line[1][1], port |-> a.port, weight |-> u]
        <5> HIDE DEF u
        <5> QED
          BY <4>1
      <4>4. Defaulted(a) = [host |-> line[1][1], port |-> a.port, weight |-> u]
        BY <3>4
      <4> HIDE DEF weight, u, Defaulted
      <4> QED
        BY <4>2, <4>3, <4>4
    <3> QED
      BY <3>2, <3>3, <3>5
  <2> HIDE DEF parsed, entries, weight, Defaulted
  <2>3. ASSUME NEW x \in backends(line)
        PROVE  \E b \in entries(line) : x = [b EXCEPT !.weight = weight(b)]
    <3>1. PICK a \in parsed(line) : x = Defaulted(a)
      OBVIOUS
    <3> QED
      BY <2>2, <3>1
  <2>4. entries(line) # {} => backends(line) # {}
    BY <2>1
  <2> HIDE DEF backends
  <2> QED
    BY <2>3, <2>4
<1>3. /\ kept \in Seq(ToSet(lines))
      /\ \E at \in Orders(w, good) : \A i \in DOMAIN kept : kept[i] = lines[at[i]]
  <2>1. good \subseteq DOMAIN lines
    OBVIOUS
  <2> HIDE DEF good, lines
  <2> QED
    BY <1>1, <2>1, FilterLists
<1>4. PICK at \in Orders(w, good) : \A i \in DOMAIN kept : kept[i] = lines[at[i]]
  BY <1>3
<1>5. given = [i \in DOMAIN kept |-> CHOOSE x \in backends(kept[i]) : TRUE]
  BY Zenon DEF FileData, getDownwardDataText
<1> HIDE DEF kept, w, backends, entries, weight
<1>6. DOMAIN kept = 1 .. w /\ DOMAIN given = DOMAIN kept /\ Len(given) = w
  BY <1>3, <1>5, LenProperties DEF w
<1>7. good = {k \in DOMAIN lines : entries(lines[k]) # {}}
  BY <1>2 DEF ToSet
<1>8. ASSUME NEW i \in DOMAIN given
      PROVE  \E b \in entries(lines[at[i]]) : given[i] = [b EXCEPT !.weight = weight(b)]
  <2>1. at[i] \in good /\ kept[i] = lines[at[i]]
    BY <1>4, <1>6 DEF Orders
  <2>2. given[i] \in backends(kept[i]) /\ kept[i] \in ToSet(lines)
    BY <1>5, <1>6, <2>1 DEF ToSet
  <2> QED
    BY <1>2, <2>1, <2>2
<1>9. w \in Nat /\ good \subseteq Int
  BY <1>1, <1>3, LenProperties DEF w
<1>10. Rearranges(sorted, given, w, good, at) /\ DOMAIN sorted = 1 .. w
  <2> HIDE DEF good
  <2>1. sorted \in SortsOf(given)
    OBVIOUS
  <2>2. Rearranges(sorted, given, w, good, at)
    BY <1>4, <1>6, <1>9, <2>1, Sorts
  <2> QED
    BY <2>2, Zenon DEF Rearranges
<1>11. PICK from \in Bijection(1 .. w, good) :
         \A i \in 1 .. w : \E j \in 1 .. w : sorted[i] = given[j] /\ from[i] = at[j]
  BY <1>10 DEF Rearranges
<1>12. \A i \in 1 .. w :
         \E b \in entries(lines[from[i]]) : sorted[i] = [b EXCEPT !.weight = weight(b)]
  <2> SUFFICES ASSUME NEW i \in 1 .. w
               PROVE  \E b \in entries(lines[from[i]]) :
                        sorted[i] = [b EXCEPT !.weight = weight(b)]
    OBVIOUS
  <2>1. PICK j \in 1 .. w : sorted[i] = given[j] /\ from[i] = at[j]
    BY <1>11
  <2>2. PICK b \in entries(lines[at[j]]) : given[j] = [b EXCEPT !.weight = weight(b)]
    BY <1>6, <1>8
  <2> QED
    BY <2>1, <2>2
<1>13. \E from2 \in Bijection(DOMAIN sorted, {k \in DOMAIN lines : entries(lines[k]) # {}}) :
         \A i \in DOMAIN sorted :
           \E b \in entries(lines[from2[i]]) : sorted[i] = [b EXCEPT !.weight = weight(b)]
  <2> HIDE DEF good, lines
  <2>1. from \in Bijection(DOMAIN sorted, {k \in DOMAIN lines : entries(lines[k]) # {}})
    BY <1>7, <1>10
  <2> QED
    BY <1>10, <1>12, <2>1
<1> QED
  BY <1>13 DEF TextDescribes, entries, weight

\* At rest the worker has each line or map that names a backend, once and sorted by
\* address, with the weight that it names or the default one; blank, malformed and other
\* lines leave no trace and do not hide their neighbours (proxy-from-file.go:65-199,
\* serviceworker.go:63-93).
THEOREM FileAlwaysAsDescribed ==
  ASSUME PlainFiles
  PROVE  PluginsSpec => []FileAsDescribed
<1>1. FreshInv => FileAsDescribed
  <2> SUFFICES ASSUME FreshInv, AtRest, IsFile
               PROVE  FileDescribes(data) /\ ByAddress(data)
    BY DEF FileAsDescribed
  <2>1. PluginsTypeOK /\ data \in SortedData
    BY DEF FreshInv, TypeInv, FileInv, AtRest, Fresh
  <2>2. service.spec.type \in {"text", "json"}
    BY <2>1 DEF PlainFiles, PluginsTypeOK, IsFile
  <2>3. PICK given \in GetDownwardData : \E list \in SortsOf(given) : list = data
    BY <2>1 DEF SortedData
  <2>4. PICK list \in SortsOf(given) : list = data
    BY <2>3
  <2>5. given = FileData(source, service.spec)
    BY <2>1, OneType DEF GetDownwardData
  <2>6. CASE source = NoFile
    <3>1. given = <<>>
      BY <2>5, <2>6 DEF FileData
    <3>2. list = <<>>
      BY <2>4, <3>1, SortsNothing
    <3> QED
      BY <2>4, <2>6, <3>2, Sorted DEF FileDescribes
  <2>7. CASE source # NoFile /\ service.spec.type = "text"
    <3>1. TextDescribes(list) /\ ByAddress(list)
      BY <2>1, <2>4, <2>5, <2>7, TextGiven, Sorted
    <3> QED
      BY <2>4, <2>7, <3>1 DEF FileDescribes
  <2>8. CASE service.spec.type = "json"
    <3>1. FileDescribes(list) /\ ByAddress(list)
      BY <2>1, <2>4, <2>5, <2>8, JSONGiven, Sorted
    <3> QED
      BY <2>4, <3>1
  <2> QED
    BY <2>2, <2>6, <2>7, <2>8
<1> QED
  BY <1>1, FreshInit, FreshStep, PTL DEF PluginsSpec

=============================================================================
