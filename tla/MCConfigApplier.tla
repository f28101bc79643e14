--------------------------- MODULE MCConfigApplier ---------------------------
(***************************************************************************)
(* Small instances of ConfigApplier: three service names, of which "b" has *)
(* two versions with different plugins, and configurations that add, drop  *)
(* and change services.                                                    *)
(***************************************************************************)
EXTENDS ConfigApplier

CONSTANTS KindF, KindS   \* the plugins of the two sources

MCSources == {"f", "s"}
MCKind == [src \in MCSources |-> IF src = "f" THEN KindF ELSE KindS]

\* No property of the config applier looks at the lists: one that never changes will do.
MCData == {"none", "some"}
MCContent == [src \in MCSources |-> [v \in 0 .. MaxChanges |-> "some"]]

A  == [name |-> "a", src |-> "f"]
B  == [name |-> "b", src |-> "f"]
B2 == [name |-> "b", src |-> "s"]
C  == [name |-> "c", src |-> "s"]
MCService == {A, B, B2, C}

Conf(ss) == [globals |-> 1, services |-> ss]

\* Three services, of which the next configuration drops two
MCWideConfig == { Conf(ss) : ss \in { <<A>>, <<A, B, C>> } }

\* The least that gives up a worker, starts one again and changes its service;
\* <<B, B2>> does so within one configuration.
MCTinyConfig == { Conf(ss) : ss \in { <<A, B2>>, <<B, B2>> } }

=============================================================================
