------------------------------ MODULE SocketFile ------------------------------
(***************************************************************************)
(* Several daemons and the socket file they share (cmd/daemon.go,          *)
(* daemon/daemon.go).  The file is the only thing that keeps two of them   *)
(* apart: a daemon refuses to start if it is there, makes it when it       *)
(* listens, and takes it away when it ends.  In each daemon the main       *)
(* goroutine and the one of the gRPC server run side by side.              *)
(***************************************************************************)
EXTENDS Integers, FiniteSets

CONSTANTS
  Proc,        \* daemons that may run at the same time
  NoSocket,    \* no file at DaemonSocketPath
  Overlap,     \* whether one may start while another one stops
  EarlySignal  \* whether a signal may arrive before net.Listen

ASSUME SocketAssumption == NoSocket \notin Proc /\ {Overlap, EarlySignal} \subseteq BOOLEAN

VARIABLES
  file,    \* the daemon whose listener has made the file, or NoSocket
  main,    \* the main goroutine
  server   \* the goroutine of the gRPC server

socketVars == <<file, main, server>>

\* "left": dead, its file is still there
Gone == {"off", "left"}
ComingUp == {"check", "child"}
Stopping == {"closing", "stat", "remove", "exit"}

SocketInit ==
  /\ file = NoSocket
  /\ main = [p \in Proc |-> "off"]
  /\ server = [p \in Proc |-> "none"]

\* The process ends, with all its goroutines.
Ends(p, how) ==
  /\ main' = [main EXCEPT ![p] = how]
  /\ server' = [server EXCEPT ![p] = "none"]

\* It is killed, or gives up, without closing its listener.
Dies(p) == Ends(p, IF file = p THEN "left" ELSE "off") /\ UNCHANGED file

-----------------------------------------------------------------------------
(***************************************************************************)
(* DaemonStart                                                             *)
(***************************************************************************)
\* In the background, or in the foreground
Start(p) ==
  /\ main[p] = "off"
  /\ Overlap \/ \A q \in Proc : main[q] \notin Stopping
  /\ \E pc \in ComingUp : main' = [main EXCEPT ![p] = pc]
  /\ UNCHANGED <<file, server>>

\* "Socket file already exists."
Refuse(p) ==
  /\ main[p] \in ComingUp
  /\ file # NoSocket
  /\ Ends(p, "off")
  /\ UNCHANGED file

\* For the background it starts itself again, in the foreground; that one looks for
\* the file again.
Respawn(p) ==
  /\ main[p] = "check"
  /\ file = NoSocket
  /\ main' = [main EXCEPT ![p] = "child"]
  /\ UNCHANGED <<file, server>>

\* The workers start, then the goroutine of the server; main waits in its select.
RunWorkers(p) ==
  /\ main[p] = "child"
  /\ file = NoSocket
  /\ main' = [main EXCEPT ![p] = "run"]
  /\ server' = [server EXCEPT ![p] = "listen"]
  /\ UNCHANGED file

ComesUp(p) == Refuse(p) \/ Respawn(p) \/ RunWorkers(p)

-----------------------------------------------------------------------------
(***************************************************************************)
(* The goroutine of the server                                             *)
(***************************************************************************)
\* Mutant: a file that is in the way is replaced.
Listen_Replaces(p) ==
  /\ server[p] = "listen"
  /\ file' = p
  /\ server' = [server EXCEPT ![p] = "bound"]
  /\ UNCHANGED main

\* Mutant: the error is only logged.
Listen_Logs(p) ==
  /\ server[p] = "listen"
  /\ file' = IF file # NoSocket THEN file ELSE p
  /\ server' = [server EXCEPT ![p] = IF file # NoSocket THEN "none" ELSE "bound"]
  /\ UNCHANGED main

\* net.Listen; os.Exit(3) if the file is there
Listen(p) ==
  /\ server[p] = "listen"
  /\ IF file # NoSocket
     THEN Ends(p, "off") /\ UNCHANGED file
     ELSE /\ file' = p
          /\ server' = [server EXCEPT ![p] = "bound"]
          /\ UNCHANGED main

\* s.grpcServer = grpc.NewServer()
NewServer(p) ==
  /\ server[p] = "bound"
  /\ server' = [server EXCEPT ![p] = "created"]
  /\ UNCHANGED <<file, main>>

\* Key or certificate cannot be loaded.
BadTLS(p) == server[p] = "bound" /\ Dies(p)

\* s.grpcServer.Serve; of a server that was stopped before it closes the listener,
\* which removes what is at the path, and os.Exit(4) follows.
Serve(p) ==
  \/ /\ server[p] = "created"
     /\ server' = [server EXCEPT ![p] = "serving"]
     /\ UNCHANGED <<file, main>>
  \/ server[p] = "stopped" /\ file' = NoSocket /\ Ends(p, "off")

ServerRuns(p) == Listen(p) \/ NewServer(p) \/ BadTLS(p) \/ Serve(p)

-----------------------------------------------------------------------------
(***************************************************************************)
(* The end of Service.Start                                                *)
(***************************************************************************)
Leave(p) ==
  /\ main[p] = "run"
  /\ Overlap \/ \A q \in Proc \ {p} : main[q] \notin ComingUp /\ server[q] # "listen"
  /\ main' = [main EXCEPT ![p] = "closing"]
  /\ UNCHANGED <<file, server>>

\* DaemonStop: the client reaches who listens at the path.
StopCall == \E p \in Proc : file = p /\ server[p] = "serving" /\ Leave(p)

Signal(p) == (EarlySignal \/ server[p] # "listen") /\ Leave(p)

\* GracefulStop, if there is a server; one that serves closes its listener, which
\* removes what is at the path.
Close(p) ==
  /\ main[p] = "closing"
  /\ main' = [main EXCEPT ![p] = "stat"]
  /\ file' = IF server[p] = "serving" THEN NoSocket ELSE file
  /\ server' = [server EXCEPT ![p] =
                  CASE @ = "serving" -> "closed" [] @ = "created" -> "stopped" [] OTHER -> @]

\* Mutant: GracefulStop is taken to have removed the file.
Stat_Trusts(p) ==
  /\ main[p] = "stat"
  /\ main' = [main EXCEPT ![p] = "exit"]
  /\ UNCHANGED <<file, server>>

Stat(p) ==
  /\ main[p] = "stat"
  /\ main' = [main EXCEPT ![p] = IF file # NoSocket THEN "remove" ELSE "exit"]
  /\ UNCHANGED <<file, server>>

Remove(p) ==
  /\ main[p] = "remove"
  /\ main' = [main EXCEPT ![p] = "exit"]
  /\ file' = NoSocket
  /\ UNCHANGED server

Exit(p) == main[p] = "exit" /\ Ends(p, "off") /\ UNCHANGED file

MainRuns(p) == ComesUp(p) \/ Close(p) \/ Stat(p) \/ Remove(p) \/ Exit(p)

-----------------------------------------------------------------------------
(***************************************************************************)
(* The environment                                                         *)
(***************************************************************************)
\* SIGKILL, or a crash of the process
Kill(p) == main[p] \notin Gone /\ Dies(p)

\* When no daemon runs, the operator removes the file that one has left.
RemoveLeft ==
  /\ \A p \in Proc : main[p] \in Gone
  /\ \E p \in Proc : main[p] = "left"
  /\ file' = NoSocket
  /\ main' = [p \in Proc |-> "off"]
  /\ UNCHANGED server

SocketNext ==
  \/ \E p \in Proc : Start(p) \/ MainRuns(p) \/ ServerRuns(p) \/ Signal(p) \/ Kill(p)
  \/ StopCall
  \/ RemoveLeft

\* The goroutines of a daemon run.
SocketSpec ==
  /\ SocketInit /\ [][SocketNext]_socketVars
  /\ \A p \in Proc : WF_socketVars(MainRuns(p)) /\ WF_socketVars(ServerRuns(p))

-----------------------------------------------------------------------------
(***************************************************************************)
(* Properties                                                              *)
(***************************************************************************)
SocketTypeOK ==
  /\ file \in Proc \cup {NoSocket}
  /\ main \in [Proc -> Gone \cup ComingUp \cup {"run"} \cup Stopping]
  /\ server \in [Proc -> {"none", "listen", "bound", "created", "serving", "stopped", "closed"}]
  /\ \A p \in Proc : server[p] = "none" <=> main[p] \in Gone \cup ComingUp

Listening(p) == server[p] \in {"bound", "created", "serving"}

\* However many daemons are started at the same time, die or are stopped, one that
\* listens and is not about to stop can be reached at the path: no other one has
\* taken its place or its file (cmd/daemon.go:42-44, 172-175, daemon.go:105-109).
Reachable == \A p \in Proc : main[p] = "run" /\ Listening(p) => file = p

\* A daemon that is told to stop when it has begun to listen leaves no file, whether
\* it serves by then or not; only one that was killed or cannot load its key does
\* (daemon.go:153-166: "remove socket file if its still there.").  One that is told
\* before its goroutine has called net.Listen may leave one (EarlySignal).
NothingLeft == \A p \in Proc : main[p] = "off" => file # p

\* Of the daemons that have found no file, because they started at the same time,
\* all but the one that listens go away (daemon.go:105-109).
LosersGoAway ==
  \A p \in Proc, q \in Proc :
    p # q => (server[p] = "serving" /\ main[q] = "run" ~> main[p] # "run" \/ main[q] # "run")

\* Only one of them runs workers at any time ("Maybe another instance is already
\* running?", cmd/daemon.go:44).
OneRuns == Cardinality({p \in Proc : main[p] = "run"}) <= 1

=============================================================================
