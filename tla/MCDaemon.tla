------------------------------- MODULE MCDaemon -------------------------------
(***************************************************************************)
(* Small instances of Daemon: configuration files with no, one or two      *)
(* services, each with one backend.                                        *)
(***************************************************************************)
EXTENDS Daemon

CONSTANT KindF   \* the plugin of the source

MCSources == {"f"}
MCKind == [src \in MCSources |-> KindF]
One == << [address |-> "b1", weight |-> 1] >>
MCNoBackends == <<>>
MCData == {<<>>, One}
MCContent == [src \in MCSources |-> [v \in 0 .. MaxChanges |-> One]]

S(name) ==
  [name |-> name, src |-> "f", address |-> "vip", sched |-> "", forward |-> "", weight |-> 0]
MCService == {S("a"), S("b")}

P(name, spec) == [name |-> name, spec |-> spec]
MCPublisher == {P(name, spec) : name \in {"p", "q"}, spec \in {1, 2}}

Conf(ss, ps) ==
  [globals |-> [execType |-> "exec-only"], services |-> ss, publishers |-> ps]
Empty == Conf(<<>>, <<>>)
OneService == Conf(<<S("a")>>, <<P("p", 1), P("q", 1), P("p", 2)>>)
OtherPublisher == Conf(<<S("a")>>, <<P("p", 1)>>)
TwoServices == Conf(<<S("a"), S("b")>>, <<>>)
MCConfig == {Empty, OneService, OtherPublisher, TwoServices}

File(c) == [yaml |-> TRUE, services |-> TRUE, publishers |-> TRUE, cfg |-> c]
BadFile == [yaml |-> FALSE, services |-> TRUE, publishers |-> TRUE, cfg |-> Empty]

MCOneFile == {File(OneService)}
MCOnceFiles == {File(TwoServices), File(Empty)}
MCDocument == {File(OneService), File(OtherPublisher), BadFile}

=============================================================================
