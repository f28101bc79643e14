-------------------------------- MODULE MCMesh --------------------------------
(***************************************************************************)
(* Small instances of Mesh, with two services and their sources.  Content  *)
(* of a source alternates between one backend and two.                     *)
(***************************************************************************)
EXTENDS Mesh

CONSTANTS KindF, KindG   \* the plugins of the two sources

MCSources == {"f", "g"}
MCKind == [src \in MCSources |-> IF src = "f" THEN KindF ELSE KindG]

Backend(address) == [address |-> address, weight |-> 1]
One == <<Backend("b1")>>
Two == <<Backend("b1"), Backend("b2")>>
MCNoBackends == <<>>
MCData == {<<>>, One, Two}
MCContent ==
  [src \in MCSources |-> [v \in 0 .. MaxChanges |-> IF v % 2 = 0 THEN One ELSE Two]]

\* A list of its own for each state of a source
Nth(n) == <<Backend(n)>>
MCListData == {<<>>} \cup {Nth(v) : v \in 0 .. MaxChanges}
MCListContent == [src \in MCSources |-> [v \in 0 .. MaxChanges |-> Nth(v)]]

S(name, src) ==
  [name |-> name, src |-> src, address |-> "vip", sched |-> "", forward |-> "", weight |-> 0]
A  == S("a", "f")
B  == S("b", "g")
MCService == {A, B}

Conf(ss) == [globals |-> [execType |-> "exec-only"], services |-> ss]

MCTwoServices == {Conf(<<A, B>>)}
MCReloads == {Conf(ss) : ss \in {<<>>, <<A>>, <<A, B>>}}
MCShrinking == {Conf(ss) : ss \in {<<A>>, <<A, B>>}}
MCSameService == {Conf(<<A>>)}

\* The same service under two execution types
MCGlobals ==
  {[globals |-> [execType |-> t], services |-> <<A>>] : t \in {"", "file-only"}}

=============================================================================
