----------------------------- MODULE TurnLifecycle -----------------------------
(***************************************************************************)
(* The life of a turn: core/kernel/model/handlers/turn.ts and core/turns,  *)
(* on top of the turn machine, the agent run engine and the store.         *)
(*                                                                         *)
(* A turn is one asynchronous operation on one event loop.  An action ends *)
(* an `await` with some result of the port that was called and runs the    *)
(* synchronous code up to the next `await`; pc says at which one a turn    *)
(* waits.  In between, the user's turn.cancel, the agent, and the end of   *)
(* the previous turn's operation run.                                      *)
(***************************************************************************)
EXTENDS TurnMachine, Naturals

CONSTANTS Turn,        \* turn ids, in the order the turns are started
          NoTurn,      \* no turn
          MaxAttempts  \* MAX_TURN_ATTEMPTS, 4 in the code

ASSUME TurnAssumption ==
  /\ Turn \subseteq Nat
  /\ NoTurn \notin Turn
  /\ MaxAttempts \in Nat \ {0}

VARIABLES
  \* the kernel
  phase,        \* the turn machine
  activeTurn,   \* activeTurnId
  handle,       \* activeTurnAttempt, by the turn whose attempt it cancels
  intentBit,    \* commitIntentRecorded
  \* each turn's operation
  pc,           \* the await it is at
  attempt,      \* runTurn's own attempt number
  leases,       \* the fence's count of leases handed out
  lease,        \* the live lease, by its number; 0 when retired
  fallbackUsed, \* sessionFallbackUsed
  root,         \* runTurn's candidateRoot is not null
  verdict,      \* how the turn ends, once that is decided
  \* the agent backend
  run,          \* the engine's latch: "live", a claimed outcome, "cancelling"
  alive,        \* turns whose agent's process tree has not drained
  latched,      \* the backend is unhealthy after an unconfirmed exit
  \* the disk
  userRecord,   \* turns whose user record is in the chat
  record,       \* terminal record in the chat: "none", "agent", "system"
  \* what the user sees and did
  event,        \* the terminal event
  shown,        \* the attempt of the latest turn.progress
  cancelledIn   \* history: the phase in which a turn.cancel was accepted, or
                \* "missed" if it was accepted and could not stop the run

kernel   == <<phase, activeTurn, handle, intentBit>>
progress == <<attempt, leases, lease, fallbackUsed, root>>
agent    == <<run, alive, latched>>
disk     == <<userRecord, record>>
seen     == <<event, shown, cancelledIn>>
vars     == <<phase, activeTurn, handle, intentBit, pc, attempt, leases, lease,
              fallbackUsed, root, verdict, run, alive, latched, userRecord,
              record, event, shown, cancelledIn>>

Await == {"new", "read", "admit", "stage", "retireWorkspace", "loop", "run",
          "fallback", "snapshot", "manifest", "gate", "finalize", "acknowledge",
          "terminalize", "retire", "return", "publish", "done"}
Natural == {"completed", "error", "resumeRejected"}
Verdict == {"none", "rejected", "failed", "cancelled", "completed"}

TypeOK ==
  /\ phase \in Phase
  /\ activeTurn \in Turn \cup {NoTurn}
  /\ handle \in Turn \cup {NoTurn}
  /\ intentBit \in BOOLEAN
  /\ pc \in [Turn -> Await]
  /\ attempt \in [Turn -> 1 .. MaxAttempts]
  /\ leases \in [Turn -> 0 .. MaxAttempts]
  /\ lease \in [Turn -> 0 .. MaxAttempts]
  /\ fallbackUsed \subseteq Turn
  /\ root \subseteq Turn
  /\ verdict \in [Turn -> Verdict]
  /\ run \in [Turn -> Natural \cup {"none", "live", "degraded", "cancelling"}]
  /\ alive \subseteq Turn
  /\ latched \in BOOLEAN
  /\ userRecord \subseteq Turn
  /\ record \in [Turn -> {"none", "agent", "system"}]
  /\ event \in [Turn -> {"none", "completed", "failed", "cancelled"}]
  /\ shown \in [Turn -> 0 .. MaxAttempts]
  /\ cancelledIn \in [Turn -> Phase \cup {"none", "missed"}]

Init ==
  /\ phase = "idle"
  /\ activeTurn = NoTurn
  /\ handle = NoTurn
  /\ intentBit = FALSE
  /\ pc = [t \in Turn |-> "new"]
  /\ attempt = [t \in Turn |-> 1]
  /\ leases = [t \in Turn |-> 0]
  /\ lease = [t \in Turn |-> 0]
  /\ fallbackUsed = {}
  /\ root = {}
  /\ verdict = [t \in Turn |-> "none"]
  /\ run = [t \in Turn |-> "none"]
  /\ alive = {}
  /\ latched = FALSE
  /\ userRecord = {}
  /\ record = [t \in Turn |-> "none"]
  /\ event = [t \in Turn |-> "none"]
  /\ shown = [t \in Turn |-> 0]
  /\ cancelledIn = [t \in Turn |-> "none"]

-------------------------------------------------------------------------------
(* Moves shared by several handlers.                                       *)

GoTo(t, await) == pc' = [pc EXCEPT ![t] = await]

\* A service call of the store: done, refused, or done but reported as failed.
StoreResult == {"ok", "refused", "unacknowledged"}

\* terminalizeTurn, called with the machine in phase p: an illegal
\* finishTerminalization ends the turn then and there, unrecorded and unsettled.
Terminalize(t, p, v) ==
  /\ phase' = After("finishTerminalization", p)
  /\ IF Legal("finishTerminalization", p)
     THEN GoTo(t, "terminalize") /\ verdict' = [verdict EXCEPT ![t] = v]
     ELSE GoTo(t, "return") /\ verdict' = [verdict EXCEPT ![t] = "failed"]

\* The bridges of runTurn and of a rejected admission into terminalizing.
TerminalizeAfter(t, action, v) == Terminalize(t, After(action, phase), v)

\* Mutant of Reject: no bridge out of admitting.
RejectUnbridged(t) == Terminalize(t, phase, "rejected")

Reject(t) == TerminalizeAfter(t, "beginTerminalization", "rejected")

-------------------------------------------------------------------------------
(* turn.start and the admission (beginTurn, runTurnStart, runAdmission).   *)

Start(t) ==
  /\ pc[t] = "new"
  /\ \A u \in Turn : u < t => pc[u] # "new"
  /\ Legal("beginAdmission", phase)
  /\ phase' = After("beginAdmission", phase)
  /\ activeTurn' = t
  /\ GoTo(t, "read")
  /\ UNCHANGED <<handle, intentBit, progress, verdict, agent, disk, seen>>

\* The reads before runTurn; the first that fails aborts the turn at once.
Read(t) ==
  /\ pc[t] = "read"
  /\ \/ /\ GoTo(t, "admit")
        /\ UNCHANGED <<phase, activeTurn, event>>
     \/ /\ phase' = After("settle", After("finishTerminalization",
                                          After("beginTerminalization", phase)))
        /\ activeTurn' = NoTurn
        /\ event' = [event EXCEPT ![t] = "failed"]
        /\ GoTo(t, "done")
  /\ UNCHANGED <<handle, intentBit, progress, verdict, agent, disk, shown, cancelledIn>>

Admit(t, result) ==
  /\ pc[t] = "admit"
  /\ userRecord' = IF result = "refused" THEN userRecord ELSE userRecord \cup {t}
  /\ \/ result = "ok" /\ GoTo(t, "stage") /\ UNCHANGED <<phase, verdict>>
     \/ result # "ok" /\ Reject(t)
  /\ UNCHANGED <<activeTurn, handle, intentBit, progress, agent, record, seen>>

\* The chat's append base, the turn workspace, the read set and the fence.
StageWorkspace(t) ==
  /\ pc[t] = "stage"
  /\ \/ /\ phase' = After("finishAdmission", phase)
        /\ GoTo(t, IF Legal("finishAdmission", phase) THEN "loop" ELSE "retireWorkspace")
        /\ UNCHANGED verdict
     \/ Reject(t)
  /\ UNCHANGED <<activeTurn, handle, intentBit, progress, agent, disk, seen>>

RetireWorkspace(t) ==
  /\ pc[t] = "retireWorkspace"
  /\ Reject(t)
  /\ UNCHANGED <<activeTurn, handle, intentBit, progress, agent, disk, seen>>

-------------------------------------------------------------------------------
(* One attempt: the head of runTurn's loop, startTurnAttempt, the agent's  *)
(* run, and what runTurn does with its outcome.                            *)

\* The fence counts a session fallback too, runTurn's own attempt does not.
LeaseLeft(t) == leases[t] < MaxAttempts

\* beginAttempt with the machine in phase p.  A backend that is latched, or
\* that cannot own the process tree, degrades the run.
BeginAttempt(t, p) ==
  \/ /\ Legal("beginAttempt", p)
     /\ LeaseLeft(t)
     /\ phase' = After("beginAttempt", p)
     /\ leases' = [leases EXCEPT ![t] = @ + 1]
     /\ lease' = [lease EXCEPT ![t] = leases[t] + 1]
     /\ handle' = t
     /\ GoTo(t, "run")
     /\ \/ ~latched /\ run' = [run EXCEPT ![t] = "live"] /\ alive' = alive \cup {t}
        \/ run' = [run EXCEPT ![t] = "degraded"] /\ UNCHANGED alive
     /\ UNCHANGED verdict
  \/ /\ Legal("beginAttempt", p)
     /\ ~LeaseLeft(t)
     /\ Terminalize(t, After("beginTerminalization",
                             After("requestCancel", After("beginAttempt", p))), "failed")
     /\ UNCHANGED <<leases, lease, handle, run, alive>>
  \/ \* the deadline has expired, the diagnostics did not fold, or beginAttempt is illegal
     /\ Terminalize(t, After("requestCancel", p), "failed")
     /\ UNCHANGED <<leases, lease, handle, run, alive>>

Loop(t) ==
  /\ pc[t] = "loop"
  /\ BeginAttempt(t, phase)
  /\ UNCHANGED <<activeTurn, intentBit, attempt, fallbackUsed, root, latched, disk, seen>>

\* The driver claims a natural outcome, unless a cancel came first.
Claim(t, outcome) ==
  /\ run[t] = "live"
  /\ run' = [run EXCEPT ![t] = outcome]
  /\ UNCHANGED <<kernel, pc, progress, verdict, alive, latched, disk, seen>>

ProcessesExit(t) ==
  /\ t \in alive
  /\ alive' = alive \ {t}
  /\ UNCHANGED <<kernel, pc, progress, verdict, run, latched, disk, seen>>

\* Mutant of ExitConfirmed: an outcome is final once it is claimed.
ExitAssumed(t) == TRUE

\* confirmExit, if need be after escalateAndConfirm.
ExitConfirmed(t) == t \notin alive

\* Mutant of Retire: the last lease stays live.
RetireNothing(t) == UNCHANGED lease

Retire(t) == lease' = [lease EXCEPT ![t] = 0]

\* The outcome reaches attempt.ts and runTurn.  beginStopping is skipped after a
\* cancel, which has left "running" already, so it would change nothing.
Outcome(t, outcome) ==
  LET stopped == After("beginStopping", phase) IN
  /\ Retire(t)
  /\ handle' = NoTurn
  /\ run' = [run EXCEPT ![t] = "none"]
  /\ \/ /\ outcome = "completed"
        /\ phase' = After("beginSnapshot", stopped)
        /\ GoTo(t, "snapshot")
        /\ UNCHANGED <<verdict, fallbackUsed>>
     \/ /\ outcome = "resumeRejected"
        /\ t \notin fallbackUsed
        /\ fallbackUsed' = fallbackUsed \cup {t}
        /\ phase' = stopped
        /\ GoTo(t, "fallback")
        /\ UNCHANGED verdict
     \/ \* a failure, an unconfirmed exit, or the deadline has expired
        /\ outcome # "cancelling"
        /\ outcome = "resumeRejected" => t \in fallbackUsed
        /\ Terminalize(t, After("beginTerminalization", stopped), "failed")
        /\ UNCHANGED fallbackUsed
     \/ /\ outcome = "cancelling"
        /\ Terminalize(t, After("beginTerminalization", stopped), "cancelled")
        /\ UNCHANGED fallbackUsed

Settle(t) ==
  /\ \/ run[t] = "degraded" /\ Outcome(t, "error") /\ UNCHANGED latched
     \/ /\ run[t] \in Natural \cup {"cancelling"}
        /\ \/ ExitConfirmed(t) /\ Outcome(t, run[t]) /\ UNCHANGED latched
           \/ Outcome(t, "unconfirmed") /\ latched' = TRUE
  /\ UNCHANGED <<activeTurn, intentBit, attempt, leases, root, alive, disk, seen>>

\* fallbackToFreshSession, once per turn, without spending a gate retry.
Fallback(t) ==
  /\ pc[t] = "fallback"
  /\ \/ BeginAttempt(t, After("retryAfterSessionFallback", phase))
     \/ /\ TerminalizeAfter(t, "beginTerminalization", "failed")
        /\ UNCHANGED <<leases, lease, handle, run, alive>>
  /\ UNCHANGED <<activeTurn, intentBit, attempt, fallbackUsed, root, latched, disk, seen>>

\* An event of the attempt with this lease leaves the run's event queue.
Deliver(t, attemptOfEvent) ==
  /\ attemptOfEvent \in 1 .. leases[t]
  /\ lease[t] = attemptOfEvent
  /\ shown' = [shown EXCEPT ![t] = attemptOfEvent]
  /\ UNCHANGED <<kernel, pc, progress, verdict, agent, disk, event, cancelledIn>>

-------------------------------------------------------------------------------
(* From the stopped agent to the commit.                                   *)

\* freezeTurnCandidate copies the workspace, then reads the manifest.
Snapshot(t) ==
  /\ pc[t] = "snapshot"
  /\ \/ /\ Legal("candidateCaptured", phase)
        /\ phase' = After("candidateCaptured", phase)
        /\ GoTo(t, "manifest")
        /\ UNCHANGED verdict
     \/ TerminalizeAfter(t, "requestCancel", "failed")
  /\ UNCHANGED <<activeTurn, handle, intentBit, progress, agent, disk, seen>>

ReadManifest(t) ==
  /\ pc[t] = "manifest"
  /\ \/ /\ root' = root \cup {t}
        /\ GoTo(t, "gate")
        /\ UNCHANGED <<phase, verdict>>
     \/ TerminalizeAfter(t, "requestCancel", "failed") /\ UNCHANGED root
  /\ UNCHANGED <<activeTurn, handle, intentBit, attempt, leases, lease, fallbackUsed,
                 agent, disk, seen>>

GateRejects(t) ==
  /\ pc[t] = "gate"
  /\ \/ /\ attempt[t] < MaxAttempts
        /\ phase' = After("retryAfterGate", phase)
        /\ attempt' = [attempt EXCEPT ![t] = @ + 1]
        /\ GoTo(t, "loop")
        /\ UNCHANGED verdict
     \/ /\ attempt[t] = MaxAttempts
        /\ TerminalizeAfter(t, "beginTerminalization", "failed")
        /\ UNCHANGED attempt
  /\ UNCHANGED <<activeTurn, handle, intentBit, leases, lease, fallbackUsed, root,
                 agent, disk, seen>>

\* Mutant of GatePasses: an illegal beginFinalization does not stop it.
GatePassesAnyway(t) ==
  /\ pc[t] = "gate"
  /\ phase' = After("beginFinalization", phase)
  /\ GoTo(t, "finalize")
  /\ UNCHANGED <<activeTurn, handle, intentBit, progress, verdict, agent, disk, seen>>

\* finalizeTurn up to the store's transaction; the deadline may have expired.
GatePasses(t) ==
  /\ pc[t] = "gate"
  /\ \/ /\ Legal("beginFinalization", phase)
        /\ phase' = After("beginFinalization", phase)
        /\ GoTo(t, "finalize")
        /\ UNCHANGED verdict
     \/ /\ Legal("beginFinalization", phase)
        /\ Terminalize(t, After("beginTerminalization",
                                After("beginFinalization", phase)), "failed")
     \/ /\ ~Legal("beginFinalization", phase)
        /\ Terminalize(t, phase, "cancelled")
  /\ UNCHANGED <<activeTurn, handle, intentBit, progress, agent, disk, seen>>

\* Pages and agent record become durable in one transaction, some time before
\* its promise resolves.
Finalize(t, result) ==
  /\ pc[t] = "finalize"
  /\ record' = IF result = "refused" THEN record ELSE [record EXCEPT ![t] = "agent"]
  /\ \/ result = "ok" /\ GoTo(t, "acknowledge") /\ UNCHANGED <<phase, verdict>>
     \/ result # "ok" /\ TerminalizeAfter(t, "beginTerminalization", "failed")
  /\ UNCHANGED <<activeTurn, handle, intentBit, progress, agent, userRecord, seen>>

\* A cancel during the transaction makes markCommitted illegal: the commit
\* stands, the turn is terminalized as failed.
Acknowledge(t) ==
  /\ pc[t] = "acknowledge"
  /\ \/ /\ Legal("markCommitted", phase)
        /\ phase' = After("settle", After("markCommitted", phase))
        /\ activeTurn' = NoTurn
        /\ verdict' = [verdict EXCEPT ![t] = "completed"]
        /\ GoTo(t, "retire")
        /\ UNCHANGED intentBit
     \/ /\ ~Legal("markCommitted", phase)
        /\ intentBit' = TRUE
        /\ TerminalizeAfter(t, "beginTerminalization", "failed")
        /\ UNCHANGED activeTurn
  /\ UNCHANGED <<handle, progress, agent, disk, seen>>

-------------------------------------------------------------------------------
(* The end of a turn.  The kernel is free again once the machine settles;  *)
(* the rest of the operation overlaps with the next turn.                  *)

\* Mutant of Recordable: a turn that has its terminal record gets another one.
RecordableAgain(t) == t \in userRecord

\* The store refuses a turn without user record (TurnRecordNotFound) and a
\* second terminal record (TurnAlreadyTerminal).
Recordable(t) == t \in userRecord /\ record[t] = "none"

\* Mutant of Released: activeTurnId is cleared by the operation's tail only.
ReleasedLate == UNCHANGED activeTurn

\* onSettled.
Released == activeTurn' = NoTurn

RecordTerminal(t, result) ==
  /\ pc[t] = "terminalize"
  /\ record' = IF Recordable(t) /\ result # "refused"
               THEN [record EXCEPT ![t] = "system"] ELSE record
  /\ phase' = After("settle", phase)
  /\ Released
  /\ GoTo(t, IF t \in root /\ verdict[t] # "rejected" THEN "retire" ELSE "return")
  /\ UNCHANGED <<handle, intentBit, progress, verdict, agent, userRecord, seen>>

\* retireCandidate, whose failure is only logged.  Only now does runTurn learn
\* of the commit, and reports that the intent was recorded.
RetireCandidate(t) ==
  /\ pc[t] = "retire"
  /\ intentBit' = (intentBit \/ verdict[t] = "completed")
  /\ GoTo(t, "return")
  /\ UNCHANGED <<phase, activeTurn, handle, progress, verdict, agent, disk, seen>>

\* runTurnStart after runTurn; a rejected admission skips the two resets.
Return(t) ==
  /\ pc[t] = "return"
  /\ IF verdict[t] = "rejected"
     THEN UNCHANGED <<handle, intentBit>>
     ELSE handle' = NoTurn /\ intentBit' = FALSE
  /\ IF verdict[t] = "completed"
     THEN GoTo(t, "publish") /\ UNCHANGED event
     ELSE /\ GoTo(t, "done")
          /\ event' = [event EXCEPT ![t] =
                         IF verdict[t] = "cancelled" THEN "cancelled" ELSE "failed"]
  /\ UNCHANGED <<phase, activeTurn, progress, verdict, agent, disk, shown, cancelledIn>>

\* After the session checkpoint and the page descriptors.
Publish(t) ==
  /\ pc[t] = "publish"
  /\ event' = [event EXCEPT ![t] = "completed"]
  /\ GoTo(t, "done")
  /\ UNCHANGED <<kernel, progress, verdict, agent, disk, shown, cancelledIn>>

-------------------------------------------------------------------------------
(* turn.cancel: the two guards and handleTurnCancel.                       *)

TooLate == phase = "finalizing" /\ intentBit

\* The engine's latch decides against an outcome that was claimed before.
StopRun(t) == run' = IF run[t] = "live" THEN [run EXCEPT ![t] = "cancelling"] ELSE run

\* An accepted cancel misses the run when an outcome that lets the turn go on has
\* been claimed already, or when the kernel holds no handle of the live run.
Misses(t) ==
  /\ phase = "running"
  /\ run[t] \in {"completed", "resumeRejected"} \/ (run[t] = "live" /\ handle = NoTurn)

\* In stopping and terminalizing it is accepted and does nothing.
Cancel(t) ==
  /\ activeTurn = t
  /\ phase \notin {"idle", "committed", "terminal", "stopping", "terminalizing"}
  /\ ~TooLate
  /\ phase' = After("requestCancel", phase)
  /\ cancelledIn' = [cancelledIn EXCEPT ![t] = IF Misses(t) THEN "missed" ELSE phase]
  /\ IF handle # NoTurn THEN StopRun(t) ELSE UNCHANGED run
  /\ UNCHANGED <<activeTurn, handle, intentBit, pc, progress, verdict, alive, latched,
                 disk, event, shown>>

-------------------------------------------------------------------------------
\* What the turn's operation does by itself, once the port it awaits answers.
Operation(t) ==
  \/ Read(t) \/ StageWorkspace(t) \/ RetireWorkspace(t) \/ Loop(t) \/ Settle(t)
  \/ Fallback(t) \/ Snapshot(t) \/ ReadManifest(t) \/ GateRejects(t) \/ GatePasses(t)
  \/ Acknowledge(t) \/ RetireCandidate(t) \/ Return(t) \/ Publish(t)
  \/ \E result \in StoreResult : Admit(t, result) \/ Finalize(t, result)
                                   \/ RecordTerminal(t, result)

Next == \E t \in Turn :
  \/ Start(t) \/ Operation(t) \/ Cancel(t) \/ ProcessesExit(t)
  \/ \E outcome \in Natural : Claim(t, outcome)
  \/ \E n \in 1 .. MaxAttempts : Deliver(t, n)

\* Every port answers.  The agent need not finish, nor the user cancel.
Fairness == \A t \in Turn : WF_vars(Operation(t))

Safe == Init /\ [][Next]_vars
Spec == Safe /\ Fairness

-------------------------------------------------------------------------------
(* Properties.                                                             *)

\* activeTurnId and the turn machine agree (fix-bundle 1.5): whenever turn.start
\* is legal there is no active turn, and whenever a turn is underway it can be
\* named by a cancel.
SlotFollowsPhase == activeTurn = NoTurn <=> phase = "idle"

\* No agent process works on a turn that has moved on (turn-durability 6.5): a
\* candidate is only frozen, and another turn only started, once the process
\* tree is gone, unless an unconfirmed exit has locked the backend.
AgentIsGone == \A t \in alive : pc[t] = "run" \/ latched

\* A cancel accepted before finalization keeps the turn from committing, whatever
\* the admission, the agent, the freeze or the gate answer afterwards.  Excluded is
\* the cancel that is accepted in running and misses the run: the code goes on with
\* the claimed outcome (a completed run is frozen and may commit, a rejected resume
\* is followed by a fresh session), and so does a run nobody has a handle of.
CancelPreventsCommit == \A t \in Turn :
  cancelledIn[t] \in {"admitting", "workspace-ready", "running", "snapshotting", "validating"}
    => record[t] # "agent"

\* Events of a retired attempt never reach the user (turn-durability 6.4): a
\* turn.progress comes from the attempt that runs.
ProgressIsCurrent == [][\A t \in Turn :
  shown'[t] # shown[t] => pc[t] = "run" /\ shown'[t] = leases[t]]_vars

\* A started turn always ends with its terminal event and leaves the kernel free
\* for the next one (fix-bundle 1.1), unless its agent runs forever: no rejection,
\* retry, fallback, failed write or cancel strands it.
EveryTurnEnds == \A t \in Turn :
  pc[t] # "new" ~> (event[t] # "none" /\ activeTurn # t) \/ run[t] = "live"

\* One turn at a time, one terminal record, one terminal event after the end.
Stage == [t \in Turn |-> IF pc[t] = "new" THEN "new"
                         ELSE IF activeTurn = t THEN "active" ELSE "over"]
Contract == INSTANCE TurnContract WITH stage <- Stage
ImplementsTurnContract == Contract!Spec
===============================================================================
