--------------------------- MODULE SocketFileProofs ---------------------------
(***************************************************************************)
(* What SocketFile promises, for any number of daemons.  That nothing is   *)
(* left needs that no signal arrives before net.Listen; that a daemon can  *)
(* be reached needs also that none starts while another one stops.         *)
(***************************************************************************)
EXTENDS SocketFile, TLAPS

Calm == ~ Overlap /\ ~ EarlySignal

\* A daemon that has not listened yet, or has cleaned up, has no file.
NoFileYet ==
  \A p \in Proc :
    main[p] \in {"off", "exit"} \cup ComingUp \/ server[p] = "listen" => file # p

\* A daemon that stops is alone: when it left its select it was the one that
\* listened, and the others that had found no file had lost by then.
StopsAlone ==
  \A p \in Proc : main[p] \in Stopping =>
    server[p] # "listen" /\ \A q \in Proc \ {p} : main[q] \in Gone

ClosedByMain == \A p \in Proc : server[p] \in {"stopped", "closed"} => main[p] \in Stopping

\* The inductive invariant
SocketInv == SocketTypeOK /\ Reachable /\ NoFileYet /\ StopsAlone /\ ClosedByMain

USE DEF Gone, ComingUp, Stopping, Listening

\* Before the first daemon is started, nothing is there.
LEMMA InitInv == SocketInit => SocketInv
  BY SocketAssumption
     DEF SocketInit, SocketInv, SocketTypeOK, Reachable, NoFileYet, StopsAlone, ClosedByMain

\* DaemonStart (cmd/daemon.go:41-165)
LEMMA StartInv ==
  ASSUME Calm, SocketInv, NEW p \in Proc, Start(p) \/ ComesUp(p)
  PROVE  SocketInv'
<1>1. CASE Start(p)
  BY <1>1 DEF Start, Calm, SocketInv, SocketTypeOK, Reachable, NoFileYet, StopsAlone, ClosedByMain
<1>2. CASE Refuse(p)
  BY <1>2 DEF Refuse, Ends, SocketInv, SocketTypeOK, Reachable, NoFileYet, StopsAlone, ClosedByMain
<1>3. CASE Respawn(p)
  BY <1>3 DEF Respawn, SocketInv, SocketTypeOK, Reachable, NoFileYet, StopsAlone, ClosedByMain
<1>4. CASE RunWorkers(p)
  BY <1>4, SocketAssumption
     DEF RunWorkers, SocketInv, SocketTypeOK, Reachable, NoFileYet, StopsAlone, ClosedByMain
<1>5. QED  BY <1>1, <1>2, <1>3, <1>4 DEF ComesUp

\* The goroutine of the server (daemon.go:98-146)
LEMMA ServerInv ==
  ASSUME SocketInv, NEW p \in Proc, ServerRuns(p)
  PROVE  SocketInv'
<1>1. CASE Listen(p)
  BY <1>1, SocketAssumption
     DEF Listen, Ends, SocketInv, SocketTypeOK, Reachable, NoFileYet, StopsAlone, ClosedByMain
<1>2. CASE NewServer(p)
  BY <1>2 DEF NewServer, SocketInv, SocketTypeOK, Reachable, NoFileYet, StopsAlone, ClosedByMain
<1>3. CASE BadTLS(p)
  BY <1>3 DEF BadTLS, Dies, Ends, SocketInv, SocketTypeOK, Reachable, NoFileYet, StopsAlone,
              ClosedByMain
<1>4. CASE Serve(p)
  BY <1>4, SocketAssumption
     DEF Serve, Ends, SocketInv, SocketTypeOK, Reachable, NoFileYet, StopsAlone, ClosedByMain
<1>5. QED  BY <1>1, <1>2, <1>3, <1>4 DEF ServerRuns

\* The daemon that leaves its select is the only one that is left.
LEMMA LeaveAlone ==
  ASSUME Calm, SocketInv, NEW p \in Proc, Leave(p), server[p] # "listen"
  PROVE  \A q \in Proc \ {p} : main[q] \in Gone
<1>1. Listening(p) /\ file = p
  BY DEF Leave, SocketInv, SocketTypeOK, Reachable, ClosedByMain
<1>2. SUFFICES ASSUME NEW q \in Proc \ {p}
               PROVE  main[q] \in Gone
  OBVIOUS
<1>3. main[q] \notin ComingUp /\ server[q] # "listen"
  BY DEF Leave, Calm
<1>4. main[q] \notin Stopping
  BY DEF Leave, SocketInv, StopsAlone
<1>5. main[q] # "run"
  BY <1>1, <1>3 DEF SocketInv, SocketTypeOK, Reachable, ClosedByMain
<1>6. QED  BY <1>3, <1>4, <1>5 DEF SocketInv, SocketTypeOK

LEMMA LeaveInv ==
  ASSUME Calm, SocketInv, NEW p \in Proc, Leave(p), server[p] # "listen"
  PROVE  SocketInv'
<1>1. \A q \in Proc \ {p} : main[q] \in Gone
  BY LeaveAlone
<1>2. \A q \in Proc : main'[q] = IF q = p THEN "closing" ELSE main[q]
  BY DEF Leave, SocketInv, SocketTypeOK
<1>3. SocketTypeOK'
  BY DEF Leave, SocketInv, SocketTypeOK
<1>4. StopsAlone'
  BY <1>1, <1>2 DEF Leave, StopsAlone
<1>5. Reachable' /\ NoFileYet' /\ ClosedByMain'
  BY <1>2 DEF Leave, SocketInv, Reachable, NoFileYet, ClosedByMain
<1>6. QED  BY <1>3, <1>4, <1>5 DEF SocketInv

\* The end of Service.Start (daemon.go:154-168)
LEMMA EndInv ==
  ASSUME SocketInv, NEW p \in Proc, Close(p) \/ Stat(p) \/ Remove(p) \/ Exit(p)
  PROVE  SocketInv'
<1>1. CASE Close(p)
  BY <1>1, SocketAssumption
     DEF Close, SocketInv, SocketTypeOK, Reachable, NoFileYet, StopsAlone, ClosedByMain
<1>2. CASE Stat(p)
  BY <1>2, SocketAssumption
     DEF Stat, SocketInv, SocketTypeOK, Reachable, NoFileYet, StopsAlone, ClosedByMain
<1>3. CASE Remove(p)
  BY <1>3, SocketAssumption
     DEF Remove, SocketInv, SocketTypeOK, Reachable, NoFileYet, StopsAlone, ClosedByMain
<1>4. CASE Exit(p)
  BY <1>4 DEF Exit, Ends, SocketInv, SocketTypeOK, Reachable, NoFileYet, StopsAlone, ClosedByMain
<1>5. QED  BY <1>1, <1>2, <1>3, <1>4

\* A daemon is killed, or the operator cleans up.
LEMMA EnvironmentInv ==
  ASSUME SocketInv, (\E p \in Proc : Kill(p)) \/ RemoveLeft
  PROVE  SocketInv'
<1>1. CASE \E p \in Proc : Kill(p)
  BY <1>1 DEF Kill, Dies, Ends, SocketInv, SocketTypeOK, Reachable, NoFileYet, StopsAlone,
              ClosedByMain
<1>2. CASE RemoveLeft
  BY <1>2, SocketAssumption
     DEF RemoveLeft, SocketInv, SocketTypeOK, Reachable, NoFileYet, StopsAlone, ClosedByMain
<1>3. QED  BY <1>1, <1>2

\* Every step keeps the invariant.
LEMMA StepInv == Calm /\ SocketInv /\ [SocketNext]_socketVars => SocketInv'
<1>1. SUFFICES ASSUME Calm, SocketInv, [SocketNext]_socketVars
               PROVE  SocketInv'
  OBVIOUS
<1>2. ASSUME NEW p \in Proc, Start(p) \/ MainRuns(p)
      PROVE  SocketInv'
  BY <1>1, <1>2, StartInv, EndInv DEF MainRuns
<1>3. ASSUME NEW p \in Proc, ServerRuns(p)
      PROVE  SocketInv'
  BY <1>1, <1>3, ServerInv
<1>4. ASSUME NEW p \in Proc, Signal(p)
      PROVE  SocketInv'
  BY <1>1, <1>4, LeaveInv DEF Signal, Calm
<1>5. CASE StopCall
  BY <1>1, <1>5, LeaveInv DEF StopCall
<1>6. CASE (\E p \in Proc : Kill(p)) \/ RemoveLeft
  BY <1>1, <1>6, EnvironmentInv
<1>7. CASE UNCHANGED socketVars
  BY <1>1, <1>7
     DEF socketVars, SocketInv, SocketTypeOK, Reachable, NoFileYet, StopsAlone, ClosedByMain
<1>8. QED  BY <1>1, <1>2, <1>3, <1>4, <1>5, <1>6, <1>7 DEF SocketNext

LEMMA AlwaysInv == ASSUME Calm PROVE SocketSpec => []SocketInv
<1>1. Calm
  OBVIOUS
<1>2. SocketInv /\ [SocketNext]_socketVars => SocketInv'
  BY <1>1, StepInv
<1>3. QED  BY <1>2, InitInv, PTL DEF SocketSpec

\* Whatever number of daemons is started, one that listens can be reached at the
\* path (daemon.go:105-109, cmd/daemon.go:172-175).
THEOREM AlwaysReachable == ASSUME Calm PROVE SocketSpec => []Reachable
<1>1. SocketInv => Reachable
  BY DEF SocketInv
<1>2. QED  BY <1>1, AlwaysInv, PTL

-----------------------------------------------------------------------------
\* The variables have their types, and a daemon has a server goroutine from its
\* start to its end, whenever it is told to stop (cmd/daemon.go:165, daemon.go:98).
THEOREM SocketTypeCorrect == SocketSpec => []SocketTypeOK
<1>1. SocketInit => SocketTypeOK
  BY DEF SocketInit, SocketTypeOK
<1>2. SocketTypeOK /\ [SocketNext]_socketVars => SocketTypeOK'
  <2>1. SUFFICES ASSUME SocketTypeOK, [SocketNext]_socketVars
                 PROVE  SocketTypeOK'
    OBVIOUS
  <2>2. ASSUME NEW p \in Proc, Start(p) \/ ComesUp(p)
        PROVE  SocketTypeOK'
    BY <2>1, <2>2 DEF Start, ComesUp, Refuse, Respawn, RunWorkers, Ends, SocketTypeOK
  <2>3. ASSUME NEW p \in Proc, ServerRuns(p)
        PROVE  SocketTypeOK'
    <3>1. CASE Listen(p)
      BY <2>1, <3>1 DEF Listen, Ends, SocketTypeOK
    <3>2. CASE NewServer(p) \/ BadTLS(p)
      BY <2>1, <3>2 DEF NewServer, BadTLS, Dies, Ends, SocketTypeOK
    <3>3. CASE Serve(p)
      BY <2>1, <3>3 DEF Serve, Ends, SocketTypeOK
    <3>4. QED  BY <2>3, <3>1, <3>2, <3>3 DEF ServerRuns
  <2>4. ASSUME NEW p \in Proc, Leave(p)
        PROVE  SocketTypeOK'
    BY <2>1, <2>4 DEF Leave, SocketTypeOK
  <2>5. ASSUME NEW p \in Proc, Close(p) \/ Stat(p) \/ Remove(p) \/ Exit(p)
        PROVE  SocketTypeOK'
    <3>1. CASE Close(p)
      BY <2>1, <3>1 DEF Close, SocketTypeOK
    <3>2. CASE Stat(p) \/ Remove(p)
      BY <2>1, <3>2 DEF Stat, Remove, SocketTypeOK
    <3>3. CASE Exit(p)
      BY <2>1, <3>3 DEF Exit, Ends, SocketTypeOK
    <3>4. QED  BY <2>5, <3>1, <3>2, <3>3
  <2>6. ASSUME NEW p \in Proc, Kill(p)
        PROVE  SocketTypeOK'
    BY <2>1, <2>6 DEF Kill, Dies, Ends, SocketTypeOK
  <2>7. CASE RemoveLeft
    BY <2>1, <2>7 DEF RemoveLeft, SocketTypeOK
  <2>8. CASE UNCHANGED socketVars
    BY <2>1, <2>8 DEF socketVars, SocketTypeOK
  <2>9. QED
    BY <2>1, <2>2, <2>3, <2>4, <2>5, <2>6, <2>7, <2>8 DEF SocketNext, MainRuns, Signal, StopCall
<1>3. QED  BY <1>1, <1>2, PTL DEF SocketSpec

-----------------------------------------------------------------------------
\* A daemon that stops has at least begun to listen.
StopsAfterListen == \A p \in Proc : main[p] \in Stopping => server[p] # "listen"

\* What no daemon leaves a file behind rests on, daemons that start while another
\* one stops, and take the path of one that listens, included
LeavesNoFile == SocketTypeOK /\ NoFileYet /\ StopsAfterListen

LEMMA LeavesNoFileStep ==
  ~ EarlySignal /\ LeavesNoFile /\ SocketTypeOK' /\ [SocketNext]_socketVars => LeavesNoFile'
<1>1. SUFFICES ASSUME ~ EarlySignal, LeavesNoFile, SocketTypeOK', [SocketNext]_socketVars
               PROVE  NoFileYet' /\ StopsAfterListen'
  BY DEF LeavesNoFile
<1>2. ASSUME NEW p \in Proc, Start(p) \/ ComesUp(p)
      PROVE  NoFileYet' /\ StopsAfterListen'
  BY <1>1, <1>2, SocketAssumption
     DEF Start, ComesUp, Refuse, Respawn, RunWorkers, Ends, LeavesNoFile, SocketTypeOK, NoFileYet,
         StopsAfterListen
<1>3. ASSUME NEW p \in Proc, ServerRuns(p)
      PROVE  NoFileYet' /\ StopsAfterListen'
  <2>1. CASE Listen(p)
    BY <1>1, <2>1, SocketAssumption
       DEF Listen, Ends, LeavesNoFile, SocketTypeOK, NoFileYet, StopsAfterListen
  <2>2. CASE NewServer(p) \/ BadTLS(p)
    BY <1>1, <2>2 DEF NewServer, BadTLS, Dies, Ends, LeavesNoFile, SocketTypeOK, NoFileYet,
                      StopsAfterListen
  <2>3. CASE Serve(p)
    BY <1>1, <2>3, SocketAssumption
       DEF Serve, Ends, LeavesNoFile, SocketTypeOK, NoFileYet, StopsAfterListen
  <2>4. QED  BY <1>3, <2>1, <2>2, <2>3 DEF ServerRuns
<1>4. ASSUME NEW p \in Proc, Signal(p) \/ (server[p] = "serving" /\ Leave(p))
      PROVE  NoFileYet' /\ StopsAfterListen'
  BY <1>1, <1>4 DEF Signal, Leave, LeavesNoFile, SocketTypeOK, NoFileYet, StopsAfterListen
<1>5. ASSUME NEW p \in Proc, Close(p) \/ Stat(p) \/ Remove(p) \/ Exit(p)
      PROVE  NoFileYet' /\ StopsAfterListen'
  <2>1. CASE Close(p)
    BY <1>1, <2>1, SocketAssumption
       DEF Close, LeavesNoFile, SocketTypeOK, NoFileYet, StopsAfterListen
  <2>2. CASE Stat(p) \/ Remove(p)
    BY <1>1, <2>2, SocketAssumption
       DEF Stat, Remove, LeavesNoFile, SocketTypeOK, NoFileYet, StopsAfterListen
  <2>3. CASE Exit(p)
    BY <1>1, <2>3 DEF Exit, Ends, LeavesNoFile, SocketTypeOK, NoFileYet, StopsAfterListen
  <2>4. QED  BY <1>5, <2>1, <2>2, <2>3
<1>6. ASSUME NEW p \in Proc, Kill(p)
      PROVE  NoFileYet' /\ StopsAfterListen'
  BY <1>1, <1>6 DEF Kill, Dies, Ends, LeavesNoFile, SocketTypeOK, NoFileYet, StopsAfterListen
<1>7. CASE RemoveLeft
  BY <1>1, <1>7, SocketAssumption
     DEF RemoveLeft, LeavesNoFile, SocketTypeOK, NoFileYet, StopsAfterListen
<1>8. CASE UNCHANGED socketVars
  BY <1>1, <1>8 DEF socketVars, LeavesNoFile, SocketTypeOK, NoFileYet, StopsAfterListen
<1>9. QED
  BY <1>1, <1>2, <1>3, <1>4, <1>5, <1>6, <1>7, <1>8 DEF SocketNext, MainRuns, StopCall

\* Of any number of daemons, none that ends leaves its file, even if others start
\* while it stops: only a signal before net.Listen is ruled out (daemon.go:153-166).
THEOREM AlwaysNothingLeft == ASSUME ~ EarlySignal PROVE SocketSpec => []NothingLeft
<1>1. SocketInit => LeavesNoFile
  BY SocketAssumption DEF SocketInit, LeavesNoFile, SocketTypeOK, NoFileYet, StopsAfterListen
<1>2. LeavesNoFile /\ SocketTypeOK' /\ [SocketNext]_socketVars => LeavesNoFile'
  BY LeavesNoFileStep
<1>3. LeavesNoFile => NothingLeft
  BY DEF LeavesNoFile, NoFileYet, NothingLeft
<1>4. QED  BY <1>1, <1>2, <1>3, SocketTypeCorrect, PTL DEF SocketSpec

=============================================================================
