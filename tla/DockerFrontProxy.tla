--------------------------- MODULE DockerFrontProxy ---------------------------
(***************************************************************************)
(* plugins/docker-front-proxy: how a list of containers becomes a list of  *)
(* backends.  The list holds what docker has found for matchLabels; a      *)
(* container has a state, labels, a sequence of ports and a set of         *)
(* networks, for each of which its address counts.                         *)
(***************************************************************************)
EXTENDS Filtering, FiniteSetsExt

\* Every matchLabel has its value; no matchLabels match every container.
Matches(matchLabels, container) ==
  \A k \in DOMAIN matchLabels :
    k \in DOMAIN container.labels /\ container.labels[k] = matchLabels[k]

\* Mutant: the search starts with "no weight" instead of 0.
DynamicWeight_Unset(dynamicWeights, container) ==
  LET hits == {i \in DOMAIN dynamicWeights : Matches(dynamicWeights[i].matchLabels, container)}
  IN  IF hits = {} THEN -1 ELSE dynamicWeights[Max(hits)].weight

\* The last entry that matches; 0 if none does, -1 (no weight) without entries.
DynamicWeight(dynamicWeights, container) ==
  LET hits == {i \in DOMAIN dynamicWeights : Matches(dynamicWeights[i].matchLabels, container)}
  IN  CASE dynamicWeights = <<>> -> -1
        [] dynamicWeights # <<>> /\ hits = {} -> 0
        [] OTHER -> dynamicWeights[Max(hits)].weight

\* The address that the range over the map of networks comes to last
Hosts(container) == IF container.networks = {} THEN {""} ELSE container.networks

Port(container) ==
  IF container.ports = <<>> THEN 0 ELSE container.ports[Len(container.ports)]

\* GetDownwardData: the lists it may return
ContainerData(containers, spec) ==
  LET running == Filter(containers, {i \in DOMAIN containers : containers[i].state = "running"})
      hosts == UNION {Hosts(running[i]) : i \in DOMAIN running}
      backend(c, h) ==
        [host |-> h, port |-> Port(c), weight |-> DynamicWeight(spec.dynamicWeights, c)]
  IN  {[i \in DOMAIN running |-> backend(running[i], host[i])] :
         host \in {f \in [DOMAIN running -> hosts] :
                     \A i \in DOMAIN running : f[i] \in Hosts(running[i])}}

=============================================================================
