---------------------------- MODULE SessionStates ----------------------------
(***************************************************************************)
(* The public states of a session (src/internal/session/lifecycle.go) and  *)
(* the state an accepted lifecycle intent moves a session to.              *)
(***************************************************************************)
Starting == "STARTING"
Initializing == "INITIALIZING"
Ready == "READY"
Draining == "DRAINING"
Stopping == "STOPPING"
Stopped == "STOPPED"
Crashed == "CRASHED"
Poisoned == "POISONED"
State == {Starting, Initializing, Ready, Draining, Stopping, Stopped, Crashed, Poisoned}

\* Whether a child may exist and whether there is work decide how a session goes
\* down; terminal states stay what they are.
lifecycleIntentState(st, childRisk, work) ==
    CASE st \in {Starting, Initializing} -> IF childRisk THEN Stopping ELSE Stopped
      [] st = Ready -> IF work THEN Draining ELSE Stopping
      [] OTHER -> st

=============================================================================
