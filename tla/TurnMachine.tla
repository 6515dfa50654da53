------------------------------ MODULE TurnMachine ------------------------------
(***************************************************************************)
(* The phases of a turn and the named actions between them                 *)
(* (core/machines/model/turn-machine.ts, TURN_TRANSITION_TABLE), and what  *)
(* StateMachine.apply makes of an action (state-machine.ts): it moves the  *)
(* phase along an edge of the table, or reports "illegal" and leaves the   *)
(* phase alone.  confirmBackendHealthy and markBackendUnhealthy have no    *)
(* caller, so no turn is ever "backend-unhealthy".                         *)
(***************************************************************************)

Phase == {"idle", "admitting", "workspace-ready", "running", "stopping",
          "snapshotting", "validating", "finalizing", "committed",
          "terminalizing", "terminal"}

\* What each action makes of the phases it is legal in.
Edges ==
  [beginAdmission            |-> [p \in {"idle"} |-> "admitting"],
   finishAdmission           |-> [p \in {"admitting"} |-> "workspace-ready"],
   beginAttempt              |-> [p \in {"workspace-ready"} |-> "running"],
   beginStopping             |-> [p \in {"running"} |-> "stopping"],
   beginSnapshot             |-> [p \in {"stopping"} |-> "snapshotting"],
   retryAfterSessionFallback |-> [p \in {"stopping"} |-> "workspace-ready"],
   candidateCaptured         |-> [p \in {"snapshotting"} |-> "validating"],
   retryAfterGate            |-> [p \in {"validating"} |-> "workspace-ready"],
   beginFinalization         |-> [p \in {"validating"} |-> "finalizing"],
   markCommitted             |-> [p \in {"finalizing"} |-> "committed"],
   beginTerminalization      |-> [p \in {"admitting", "stopping", "validating", "finalizing"}
                                    |-> "terminalizing"],
   finishTerminalization     |-> [p \in {"terminalizing"} |-> "terminal"],
   settle                    |-> [p \in {"committed", "terminal"} |-> "idle"],
   requestCancel             |-> [p \in Phase \ {"idle", "committed", "terminal"} |->
                                    IF p \in {"running", "stopping"} THEN "stopping"
                                    ELSE "terminalizing"]]

Legal(action, phase) == phase \in DOMAIN Edges[action]

After(action, phase) == IF Legal(action, phase) THEN Edges[action][phase] ELSE phase
===============================================================================
