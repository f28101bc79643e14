---------------------------- MODULE PublishWorker ----------------------------
(***************************************************************************)
(* daemon/publishworker.go: the goroutine that keeps the publishers of the *)
(* configuration and hears of every model the IPVS applier has built.      *)
(* Nothing is published yet (the code is commented out); with --once the   *)
(* first model makes it ask for the end of the daemon.                     *)
(***************************************************************************)
EXTENDS Integers, Sequences, Functions

CONSTANTS
  Publisher,  \* publishers: records with (at least) a name
  Config,     \* configurations with a sequence publishers
  NoConfig,   \* before the first configuration
  Once        \* --once

PublisherAssumption ==
  /\ \A c \in Config : c.publishers \in Seq(Publisher)
  /\ NoConfig \notin Config
  /\ Once \in BOOLEAN

VARIABLES
  pwPc,            \* where the goroutine is
  pwCfg,           \* s.cfg
  publisherSpecs   \* name -> publisher

publishVars == <<pwPc, pwCfg, publisherSpecs>>

PublishInit ==
  /\ pwPc = "select"
  /\ pwCfg = NoConfig
  /\ publisherSpecs = <<>>

-----------------------------------------------------------------------------
PublisherNames(c) == {c.publishers[i].name : i \in DOMAIN c.publishers}

\* Mutant: a name that is known already keeps its publisher.
Stored_OnlyNew(specs, c) ==
  [name \in DOMAIN specs \cup PublisherNames(c) |->
    IF name \in DOMAIN specs
    THEN specs[name]
    ELSE c.publishers[CHOOSE i \in DOMAIN c.publishers : c.publishers[i].name = name]]

\* The first loop: new or not, a publisher is stored under its name, so that the
\* last one of a name stays.
LastOf(name, c) ==
  CHOOSE i \in DOMAIN c.publishers :
    /\ c.publishers[i].name = name
    /\ \A j \in i + 1 .. Len(c.publishers) : c.publishers[j].name # name

Stored(specs, c) ==
  [name \in DOMAIN specs \cup PublisherNames(c) |->
    IF name \in PublisherNames(c) THEN c.publishers[LastOf(name, c)] ELSE specs[name]]

\* case cfg := <-s.configUpdateCh.  The second loop deletes what is not configured.
TakeConfig(c) ==
  /\ pwPc = "select"
  /\ pwCfg' = c
  /\ publisherSpecs' = Restrict(Stored(publisherSpecs, c), PublisherNames(c))
  /\ UNCHANGED pwPc

\* case upd := <-s.updateCh
TakeModel ==
  /\ pwPc = "select"
  /\ pwPc' = IF Once THEN "once" ELSE "select"
  /\ UNCHANGED <<pwCfg, publisherSpecs>>

\* Somebody receives from onceCh.
OnceTaken ==
  /\ pwPc = "once"
  /\ pwPc' = "select"
  /\ UNCHANGED <<pwCfg, publisherSpecs>>

\* case wg := <-*s.StopChan
StopPublishWorker ==
  /\ pwPc = "select"
  /\ pwPc' = "stopped"
  /\ UNCHANGED <<pwCfg, publisherSpecs>>

PublishNext ==
  \/ \E c \in Config : TakeConfig(c)
  \/ TakeModel
  \/ OnceTaken
  \/ StopPublishWorker

PublishSpec == PublishInit /\ [][PublishNext]_publishVars

-----------------------------------------------------------------------------
(***************************************************************************)
(* Properties                                                              *)
(***************************************************************************)
\* However the configurations follow each other, the worker holds exactly the
\* publishers of the last one, with the values they have there; among publishers
\* with the same name the last one counts (publishworker.go:209-246).
SpecsMatchConfig ==
  IF pwCfg = NoConfig
  THEN publisherSpecs = <<>>
  ELSE /\ DOMAIN publisherSpecs = PublisherNames(pwCfg)
       /\ \A i \in DOMAIN pwCfg.publishers :
            LET p == pwCfg.publishers[i] IN
            publisherSpecs[p.name] # p =>
              \E j \in i + 1 .. Len(pwCfg.publishers) : pwCfg.publishers[j].name = p.name

=============================================================================
