---------------------------- MODULE ConfigWatcher ----------------------------
(***************************************************************************)
(* daemon/configwatcher.go: the goroutine that reads the configuration     *)
(* file when the file watcher library reports an event and its             *)
(* modification time has advanced, and passes good configurations on.      *)
(*                                                                         *)
(* The library polls the file and sends an event when it finds another     *)
(* modification time; it watches the file only if it was there at the      *)
(* start, and until it finds it gone.                                      *)
(***************************************************************************)
EXTENDS Integers

CONSTANTS
  Config,    \* configurations
  NoConfig,  \* before the first configuration
  Document,  \* contents of the file: what is right about it, and the Config it
             \* holds; NoFile among them: it may be removed
  NoFile,    \* content of a file that is not there
  AtStart,   \* contents the file may have when the daemon starts
  MaxTime,   \* bound: modification times
  Ticks,     \* whether every edit has a later modification time
  Once       \* --once

ASSUME WatcherAssumption ==
  /\ Document \ {NoFile} \subseteq
       [yaml : BOOLEAN, services : BOOLEAN, publishers : BOOLEAN, cfg : Config]
  /\ NoFile \notin [yaml : BOOLEAN, services : BOOLEAN, publishers : BOOLEAN, cfg : Config]
  /\ NoConfig \notin Config
  /\ AtStart \subseteq Document \cup {NoFile}
  /\ MaxTime \in Nat \ {0}
  /\ {Ticks, Once} \subseteq BOOLEAN

VARIABLES
  doc,          \* the content of the file
  mtime,        \* its modification time
  polled,       \* the modification time the library has found; 0: it does not watch
  event,        \* the library is blocked on w.Event
  trigger,      \* so is the goroutine that triggers the first event
  cwPc,         \* where the goroutine of the config watcher is
  found,        \* mt, from os.Stat
  lastModTime,  \* 0: never
  cwOut,        \* the configuration it is blocked on
  delivered     \* the configuration its receiver got last

fileVars == <<doc, mtime>>
libraryVars == <<polled, event, trigger>>
goroutineVars == <<cwPc, found, lastModTime, cwOut>>
watcherVars == <<fileVars, libraryVars, goroutineVars>>

WatcherTypeOK ==
  /\ doc \in Document \cup {NoFile}
  /\ {mtime, polled, found, lastModTime} \subseteq 0 .. MaxTime
  /\ event \in BOOLEAN /\ trigger \in BOOLEAN
  /\ cwPc \in {"select", "read", "send", "returned", "stopped", "panic"}
  /\ lastModTime <= found
  /\ cwOut \in Config \cup {NoConfig}
  /\ cwPc = "send" <=> cwOut # NoConfig
  /\ delivered \in Config \cup {NoConfig}

WatcherInit ==
  /\ doc \in AtStart
  /\ mtime = IF doc = NoFile THEN 0 ELSE 1
  /\ polled = mtime
  /\ event = FALSE
  /\ trigger = TRUE
  /\ cwPc = "select"
  /\ found = 0
  /\ lastModTime = 0
  /\ cwOut = NoConfig

-----------------------------------------------------------------------------
\* Somebody writes the file, moves another one there, which may be older, or
\* removes it.
Edit(d) ==
  /\ IF d = NoFile
     THEN doc # NoFile /\ UNCHANGED mtime
     ELSE mtime' \in 1 .. MaxTime \ {mtime} /\ (Ticks => mtime' > mtime)
  /\ doc' = d
  /\ UNCHANGED <<libraryVars, goroutineVars>>

\* The library finds another modification time, or no file: ErrWatchedFileDeleted,
\* which the goroutine only logs.
Poll ==
  /\ polled # 0
  /\ ~ event
  /\ IF doc = NoFile
     THEN polled' = 0 /\ UNCHANGED event
     ELSE polled # mtime /\ polled' = mtime /\ event' = TRUE
  /\ UNCHANGED <<fileVars, trigger, goroutineVars>>

-----------------------------------------------------------------------------
\* The event is done: with --once the goroutine returns, and does not call
\* wg.Done().
AfterEvent == IF Once THEN "returned" ELSE "select"

\* One of the blocked senders is served.
EventReceived ==
  \/ event /\ event' = FALSE /\ UNCHANGED trigger
  \/ trigger /\ trigger' = FALSE /\ UNCHANGED event

\* Mutant: modification times are compared at a coarser grain.
Modified_Coarse == doc # NoFile /\ mtime > lastModTime + 1

\* os.Stat succeeds and mt.After(s.lastModTime)
Modified == doc # NoFile /\ mtime > lastModTime

\* case event := <-w.Event
TakeEvent ==
  /\ cwPc = "select"
  /\ EventReceived
  /\ IF Modified
     THEN found' = mtime /\ cwPc' = "read"
     ELSE cwPc' = AfterEvent /\ UNCHANGED found
  /\ UNCHANGED <<fileVars, polled, lastModTime, cwOut>>

Good(d) == d # NoFile /\ d.yaml /\ d.services /\ d.publishers

\* readConfig without a result: the file that os.Stat has found is gone, no YAML, or
\* a service that no plugin can parse (ok is false).
BadConfig ==
  /\ cwPc = "read"
  /\ \/ doc = NoFile
     \/ doc # NoFile /\ ~ doc.yaml
     \/ doc # NoFile /\ doc.yaml /\ doc.publishers /\ ~ doc.services
  /\ lastModTime' = found
  /\ cwPc' = AfterEvent
  /\ UNCHANGED <<fileVars, libraryVars, found, cwOut>>

\* The loop over the publishers does not skip one that no plugin can parse, and
\* calls Name() on its nil spec.
BadPublisher ==
  /\ cwPc = "read"
  /\ doc # NoFile /\ doc.yaml /\ ~ doc.publishers
  /\ cwPc' = "panic"
  /\ UNCHANGED <<fileVars, libraryVars, found, lastModTime, cwOut>>

GoodConfig ==
  /\ cwPc = "read"
  /\ Good(doc)
  /\ cwOut' = doc.cfg
  /\ cwPc' = "send"
  /\ UNCHANGED <<fileVars, libraryVars, found, lastModTime>>

\* Mutant: the modification time is looked up after the configuration is sent.
ConfigTaken_StatsLater ==
  /\ cwPc = "send"
  /\ delivered' = cwOut
  /\ cwOut' = NoConfig
  /\ lastModTime' = mtime
  /\ cwPc' = AfterEvent
  /\ UNCHANGED <<fileVars, libraryVars, found>>

\* The config applier receives; only now lastModTime moves.
ConfigTaken ==
  /\ cwPc = "send"
  /\ delivered' = cwOut
  /\ cwOut' = NoConfig
  /\ lastModTime' = found
  /\ cwPc' = AfterEvent
  /\ UNCHANGED <<fileVars, libraryVars, found>>

\* case wg := <-*s.StopChan
StopConfigWatcher ==
  /\ cwPc = "select"
  /\ cwPc' = "stopped"
  /\ UNCHANGED <<fileVars, libraryVars, found, lastModTime, cwOut>>

WatcherRuns == (TakeEvent \/ BadConfig \/ BadPublisher \/ GoodConfig) /\ UNCHANGED delivered

WatcherNext ==
  \/ \E d \in Document : Edit(d) /\ UNCHANGED delivered
  \/ Poll /\ UNCHANGED delivered
  \/ WatcherRuns
  \/ ConfigTaken
  \/ StopConfigWatcher /\ UNCHANGED delivered

\* The library polls, the goroutine runs and its receiver receives.
WatcherFairness ==
  /\ WF_<<watcherVars, delivered>>(Poll /\ UNCHANGED delivered)
  /\ WF_<<watcherVars, delivered>>(WatcherRuns)
  /\ WF_<<watcherVars, delivered>>(ConfigTaken)

WatcherStart == WatcherInit /\ delivered = NoConfig

WatcherSpec == WatcherStart /\ [][WatcherNext]_<<watcherVars, delivered>>
WatcherFairSpec == WatcherSpec /\ WatcherFairness

-----------------------------------------------------------------------------
(***************************************************************************)
(* Properties                                                              *)
(***************************************************************************)
\* Whenever the watcher has nothing left to do, the receiver has the content of
\* the file, if that is a good configuration: an edit at any point of the way from
\* the event over os.Stat, reading and the blocked send is not lost
\* (configwatcher.go:68-76).
CaughtUp ==
  cwPc = "select" /\ ~ trigger /\ ~ event /\ polled = mtime /\ Good(doc)
    => delivered = doc.cfg

\* When the edits come to an end with a good configuration, and the library has not
\* seen the file missing, the receiver gets it and keeps it (configwatcher.go:14-16).
EditsEnd == <>[][FALSE]_fileVars
InForce == Good(doc) /\ cwPc \notin {"stopped", "panic"}

FollowsFile == EditsEnd => <>[](InForce /\ polled # 0 => delivered = doc.cfg)

\* Also when it was missing for a while, at the start or later.
FollowsAnyFile == EditsEnd => <>[](InForce => delivered = doc.cfg)

\* A configuration with errors is not applied, and that is all that happens
\* (configwatcher.go:147-150).
NoPanic == cwPc # "panic"

=============================================================================
