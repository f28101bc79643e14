---------------------------- MODULE MCIPVSApplier ----------------------------
(***************************************************************************)
(* Small instances of IPVSApplier: two services, the lists of backends the *)
(* plugins return, and every execution type.                               *)
(***************************************************************************)
EXTENDS IPVSApplier

S(name, address, sched, forward, weight) ==
  [name |-> name, address |-> address, sched |-> sched, forward |-> forward, weight |-> weight]

\* "a" in two versions, one of them all defaults, and "b"
A  == S("a", "vip1", "", "", 0)
A2 == S("a", "vip2", "sh", "tunnel", 7)
B  == S("b", "vip3", "sh", "direct", 5)

MCService == {A, A2, B}
MCTwoServices == {A, B}

Backend(address, weight) == [address |-> address, weight |-> weight]

\* Docker without dynamic weights gives none, with dynamic weights gives all (zero for
\* a container none of them matches), and so does a data file without negative weights.
MCUniformData ==
  { <<>>,
    <<Backend("b1", -1)>>,
    <<Backend("b1", -1), Backend("b2", -1)>>,
    <<Backend("b1", 3), Backend("b2", 0)>> }

\* A data file with a negative weight, or a negative defaultWeight, mixes them.
MCMixedData ==
  { <<>>,
    <<Backend("b1", 3), Backend("b2", 0)>>,
    <<Backend("b1", -1), Backend("b2", 4), Backend("b3", -1)>> }

Conf(execType) == [globals |-> [execType |-> execType]]
MCConfig == { Conf(t) : t \in {"", "file-only", "file-and-exec", "direct"} }
MCFileConfig == { Conf("file-and-exec"), Conf("direct") }

=============================================================================
