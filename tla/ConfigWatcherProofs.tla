------------------------- MODULE ConfigWatcherProofs -------------------------
(***************************************************************************)
(* Theorems about ConfigWatcher, for any files, any number of edits and    *)
(* any way the file goes and comes back.                                   *)
(***************************************************************************)
EXTENDS ConfigWatcher, TLAPS

\* Nobody is ahead of the file.
InOrder ==
  /\ lastModTime <= found /\ found <= mtime
  /\ polled <= mtime
  /\ cwPc \in {"read", "send"} => lastModTime < found

\* A version that the library has found and that is not done is on its way.
OnItsWay ==
  doc # NoFile /\ lastModTime < mtime /\ polled = mtime =>
    \/ event \/ trigger
    \/ cwPc \in {"read", "send"} /\ found = mtime
    \/ cwPc \in {"returned", "stopped", "panic"}

\* What is sent or has been sent under the modification time of the file is what
\* the file holds: it cannot have been read before that.
SentAsIs ==
  Good(doc) =>
    /\ cwPc = "send" /\ found = mtime => cwOut = doc.cfg
    /\ lastModTime = mtime => delivered = doc.cfg

\* The inductive invariant; SentAsIs and OnItsWay need advancing modification times.
WatcherInv == WatcherTypeOK /\ InOrder /\ OnItsWay /\ SentAsIs

allVars == <<watcherVars, delivered>>

USE DEF fileVars, libraryVars, goroutineVars, Good

\* Before the first event (configwatcher.go:42-67)
LEMMA InitInv == WatcherStart => WatcherInv
<1>1. SUFFICES ASSUME WatcherStart PROVE WatcherInv
  OBVIOUS
<1>2. doc \in Document \cup {NoFile}
  BY <1>1, WatcherAssumption DEF WatcherStart, WatcherInit
<1>3. WatcherTypeOK
  <2>1. event \in BOOLEAN /\ trigger \in BOOLEAN
    BY <1>1 DEF WatcherStart, WatcherInit
  <2>2. {mtime, polled, found, lastModTime} \subseteq 0 .. MaxTime /\ lastModTime <= found
    BY <1>1, WatcherAssumption DEF WatcherStart, WatcherInit
  <2>3. /\ cwPc = "select" /\ cwOut = NoConfig /\ delivered = NoConfig
    BY <1>1 DEF WatcherStart, WatcherInit
  <2>4. QED
    BY <1>2, <2>1, <2>2, <2>3 DEF WatcherTypeOK
<1>4. InOrder /\ OnItsWay
  BY <1>1, WatcherAssumption DEF WatcherStart, WatcherInit, InOrder, OnItsWay
<1>5. SentAsIs
  BY <1>1, WatcherAssumption DEF WatcherStart, WatcherInit, SentAsIs
<1>6. QED  BY <1>3, <1>4, <1>5 DEF WatcherInv

\* The file is edited or removed, with a later modification time.
LEMMA EditInv ==
  ASSUME WatcherInv, Ticks, NEW d \in Document, Edit(d), UNCHANGED delivered
  PROVE  WatcherInv'
<1>1. mtime \in Nat /\ {polled, found, lastModTime} \subseteq Nat
  BY WatcherAssumption DEF WatcherInv, WatcherTypeOK
<1>2. CASE d = NoFile
  BY <1>1, <1>2 DEF Edit, WatcherInv, WatcherTypeOK, InOrder, OnItsWay, SentAsIs
<1>3. CASE d # NoFile
  <2>1. mtime' \in 1 .. MaxTime /\ mtime < mtime' /\ doc' = d
        /\ UNCHANGED <<libraryVars, goroutineVars, delivered>>
    BY <1>1, <1>3, WatcherAssumption DEF Edit
  <2>2. WatcherTypeOK'
    BY <2>1, WatcherAssumption DEF WatcherInv, WatcherTypeOK
  <2>3. InOrder' /\ polled' # mtime' /\ found' # mtime' /\ lastModTime' # mtime'
    BY <1>1, <2>1, WatcherAssumption DEF WatcherInv, InOrder
  <2>4. QED  BY <2>2, <2>3 DEF WatcherInv, OnItsWay, SentAsIs
<1>4. QED  BY <1>2, <1>3

\* The library (configwatcher.go:62-67)
LEMMA PollInv ==
  ASSUME WatcherInv, Poll, UNCHANGED delivered
  PROVE  WatcherInv'
<1>1. {mtime, polled, found, lastModTime} \subseteq Int
  BY WatcherAssumption DEF WatcherInv, WatcherTypeOK
<1>2. WatcherTypeOK'
  <2>1. event' \in BOOLEAN /\ trigger' \in BOOLEAN
    BY DEF Poll, WatcherInv, WatcherTypeOK
  <2>2. polled' \in 0 .. MaxTime
    BY WatcherAssumption DEF Poll, WatcherInv, WatcherTypeOK
  <2>3. QED
    BY <2>1, <2>2 DEF Poll, WatcherInv, WatcherTypeOK
<1>3. InOrder'
  BY <1>1 DEF Poll, WatcherInv, WatcherTypeOK, InOrder
<1>4. OnItsWay' /\ SentAsIs'
  BY <1>1 DEF Poll, WatcherInv, OnItsWay, SentAsIs
<1>5. QED  BY <1>2, <1>3, <1>4 DEF WatcherInv

\* The event and os.Stat (configwatcher.go:72-77)
LEMMA TakeEventInv ==
  ASSUME WatcherInv, TakeEvent, UNCHANGED delivered
  PROVE  WatcherInv'
<1>1. {mtime, polled, found, lastModTime} \subseteq Int
  BY WatcherAssumption DEF WatcherInv, WatcherTypeOK
<1>2. WatcherTypeOK'
  <2>1. event' \in BOOLEAN /\ trigger' \in BOOLEAN
    BY DEF TakeEvent, EventReceived, WatcherInv, WatcherTypeOK
  <2>2. {found', lastModTime'} \subseteq 0 .. MaxTime /\ lastModTime' <= found'
    BY <1>1 DEF TakeEvent, Modified, WatcherInv, WatcherTypeOK, InOrder
  <2>3. QED
    BY <2>1, <2>2 DEF TakeEvent, AfterEvent, WatcherInv, WatcherTypeOK
<1>3. InOrder'
  BY <1>1 DEF TakeEvent, Modified, AfterEvent, WatcherInv, InOrder
<1>4. OnItsWay'
  BY <1>1 DEF TakeEvent, EventReceived, Modified, AfterEvent, WatcherInv, OnItsWay
<1>5. SentAsIs'
  BY <1>1 DEF TakeEvent, AfterEvent, WatcherInv, SentAsIs
<1>6. QED  BY <1>2, <1>3, <1>4, <1>5 DEF WatcherInv

\* readConfig (configwatcher.go:101-161)
LEMMA ReadInv ==
  ASSUME WatcherInv, BadConfig \/ BadPublisher \/ GoodConfig, UNCHANGED delivered
  PROVE  WatcherInv'
<1>1. CASE BadConfig
  BY <1>1, WatcherAssumption
     DEF BadConfig, AfterEvent, WatcherInv, WatcherTypeOK, InOrder, OnItsWay, SentAsIs
<1>2. CASE BadPublisher
  BY <1>2, WatcherAssumption
     DEF BadPublisher, WatcherInv, WatcherTypeOK, InOrder, OnItsWay, SentAsIs
<1>3. CASE GoodConfig
  <2>1. doc.cfg \in Config /\ doc.cfg # NoConfig
    BY <1>3, WatcherAssumption DEF GoodConfig, WatcherInv, WatcherTypeOK
  <2>2. QED
    BY <1>3, <2>1, WatcherAssumption
       DEF GoodConfig, WatcherInv, WatcherTypeOK, InOrder, OnItsWay, SentAsIs
<1>4. QED  BY <1>1, <1>2, <1>3

\* The receiver, and lastModTime (configwatcher.go:79, 161)
LEMMA TakenInv ==
  ASSUME WatcherInv, ConfigTaken
  PROVE  WatcherInv'
  BY WatcherAssumption
     DEF ConfigTaken, AfterEvent, WatcherInv, WatcherTypeOK, InOrder, OnItsWay, SentAsIs

LEMMA StopInv ==
  ASSUME WatcherInv, StopConfigWatcher, UNCHANGED delivered
  PROVE  WatcherInv'
  BY WatcherAssumption
     DEF StopConfigWatcher, WatcherInv, WatcherTypeOK, InOrder, OnItsWay, SentAsIs

\* Every step keeps the invariant.
LEMMA StepInv == Ticks /\ WatcherInv /\ [WatcherNext]_allVars => WatcherInv'
<1>1. SUFFICES ASSUME Ticks, WatcherInv, [WatcherNext]_allVars
               PROVE  WatcherInv'
  OBVIOUS
<1>2. ASSUME NEW d \in Document, Edit(d), UNCHANGED delivered
      PROVE  WatcherInv'
  BY <1>1, <1>2, EditInv
<1>3. CASE WatcherRuns
  BY <1>1, <1>3, TakeEventInv, ReadInv DEF WatcherRuns
<1>4. CASE UNCHANGED allVars
  BY <1>1, <1>4
     DEF allVars, watcherVars, WatcherInv, WatcherTypeOK, InOrder, OnItsWay, SentAsIs
<1>5. QED  BY <1>1, <1>2, <1>3, <1>4, PollInv, TakenInv, StopInv DEF WatcherNext

LEMMA AlwaysInv == ASSUME Ticks PROVE WatcherSpec => []WatcherInv
<1>1. Ticks
  OBVIOUS
<1>2. WatcherInv /\ [WatcherNext]_<<watcherVars, delivered>> => WatcherInv'
  BY <1>1, StepInv DEF allVars
<1>3. QED  BY <1>2, InitInv, PTL DEF WatcherSpec

\* The variables have their types; modification times never run backwards in the
\* goroutine (configwatcher.go:76-79).
THEOREM WatcherTypeCorrect == ASSUME Ticks PROVE WatcherSpec => []WatcherTypeOK
<1>1. WatcherInv => WatcherTypeOK
  BY DEF WatcherInv
<1>2. QED  BY <1>1, AlwaysInv, PTL

\* No edit is lost between the event, os.Stat, the read and the blocked send
\* (configwatcher.go:68-81).
THEOREM NoEditLost == ASSUME Ticks PROVE WatcherSpec => []CaughtUp
<1>1. ASSUME WatcherInv PROVE CaughtUp
  <2>1. {mtime, found, lastModTime} \subseteq Int
    BY <1>1, WatcherAssumption DEF WatcherInv, WatcherTypeOK
  <2>2. QED
    BY <1>1, <2>1 DEF WatcherInv, InOrder, OnItsWay, SentAsIs, CaughtUp
<1>2. QED  BY <1>1, AlwaysInv, PTL

=============================================================================
