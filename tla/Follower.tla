------------------------------- MODULE Follower -------------------------------
(***************************************************************************)
(* What the data path promises of the services of one configuration: the   *)
(* IPVS applier holds for each of them what its source was at some time,   *)
(* never goes back to an older state of it, and gets to the present one.   *)
(***************************************************************************)
EXTENDS Integers

CONSTANTS Names, Unseen

VARIABLES
  configured,  \* names of the services of the configuration
  present,     \* present[name]: how often the source of name has changed
  held         \* held[name]: how often it had when it was read, or Unseen

Init ==
  /\ configured = {}
  /\ present = [name \in Names |-> 0]
  /\ held = [name \in Names |-> Unseen]

Configure ==
  /\ configured = {}
  /\ configured' \in SUBSET Names
  /\ UNCHANGED <<present, held>>

\* Services may have a source in common.
Change ==
  /\ \E changed \in SUBSET Names :
       present' = [name \in Names |-> present[name] + IF name \in changed THEN 1 ELSE 0]
  /\ UNCHANGED <<configured, held>>

Follow(name) ==
  /\ name \in configured
  /\ \E v \in 0 .. present[name] : held[name] < v /\ held' = [held EXCEPT ![name] = v]
  /\ UNCHANGED <<configured, present>>

Next == Configure \/ Change \/ \E name \in Names : Follow(name)

SafeSpec == Init /\ [][Next]_<<configured, present, held>>
Spec ==
  /\ SafeSpec
  /\ \A name \in Names : WF_<<configured, present, held>>(Follow(name))

=============================================================================
