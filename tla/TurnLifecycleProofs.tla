-------------------------- MODULE TurnLifecycleProofs --------------------------
(***************************************************************************)
(* The life of a turn for any number of turns and attempts: the kernel's   *)
(* slot follows the turn machine, no agent outlives its attempt, a cancel  *)
(* before finalization that does not miss the run prevents the commit, and *)
(* every step is a step of TurnContract or none.                           *)
(***************************************************************************)
EXTENDS TurnLifecycle, TLAPS

-------------------------------------------------------------------------------
(* The table of the turn machine, edge by edge.                            *)

LEMMA Admission ==
  ASSUME NEW p
  PROVE  /\ Legal("beginAdmission", p) <=> p = "idle"
         /\ After("beginAdmission", p) = IF p = "idle" THEN "admitting" ELSE p
         /\ Legal("finishAdmission", p) <=> p = "admitting"
         /\ After("finishAdmission", p) = IF p = "admitting" THEN "workspace-ready" ELSE p
BY DEF Legal, After, Edges

LEMMA Attempts ==
  ASSUME NEW p
  PROVE  /\ Legal("beginAttempt", p) <=> p = "workspace-ready"
         /\ After("beginAttempt", p) = IF p = "workspace-ready" THEN "running" ELSE p
         /\ After("beginStopping", p) = IF p = "running" THEN "stopping" ELSE p
         /\ After("beginSnapshot", p) = IF p = "stopping" THEN "snapshotting" ELSE p
         /\ After("retryAfterSessionFallback", p) = IF p = "stopping" THEN "workspace-ready" ELSE p
BY DEF Legal, After, Edges

LEMMA Candidates ==
  ASSUME NEW p
  PROVE  /\ Legal("candidateCaptured", p) <=> p = "snapshotting"
         /\ After("candidateCaptured", p) = IF p = "snapshotting" THEN "validating" ELSE p
         /\ After("retryAfterGate", p) = IF p = "validating" THEN "workspace-ready" ELSE p
         /\ Legal("beginFinalization", p) <=> p = "validating"
         /\ After("beginFinalization", p) = IF p = "validating" THEN "finalizing" ELSE p
         /\ Legal("markCommitted", p) <=> p = "finalizing"
         /\ After("markCommitted", p) = IF p = "finalizing" THEN "committed" ELSE p
BY DEF Legal, After, Edges

LEMMA Endings ==
  ASSUME NEW p
  PROVE  /\ After("beginTerminalization", p) =
              IF p \in {"admitting", "stopping", "validating", "finalizing"}
              THEN "terminalizing" ELSE p
         /\ Legal("finishTerminalization", p) <=> p = "terminalizing"
         /\ After("finishTerminalization", p) = IF p = "terminalizing" THEN "terminal" ELSE p
         /\ After("settle", p) = IF p \in {"committed", "terminal"} THEN "idle" ELSE p
BY DEF Legal, After, Edges

LEMMA Cancelling ==
  ASSUME NEW p \in Phase \ {"idle", "committed", "terminal"}
  PROVE  After("requestCancel", p) =
           IF p \in {"running", "stopping"} THEN "stopping" ELSE "terminalizing"
BY DEF Legal, After, Edges

-------------------------------------------------------------------------------
(* The invariants.                                                         *)

Holding == {"read", "admit", "stage", "retireWorkspace", "loop", "run", "fallback",
            "snapshot", "manifest", "gate", "finalize", "acknowledge", "terminalize"}

\* The phases of the machine at each await of the turn that holds the kernel; a
\* cancel may have moved it on.
PhasesAt(await) ==
  CASE await \in {"read", "admit", "stage"} -> {"admitting", "terminalizing"}
    [] await = "retireWorkspace" -> {"terminalizing"}
    [] await = "loop" -> {"workspace-ready", "terminalizing"}
    [] await = "run" -> {"running", "stopping"}
    [] await = "fallback" -> {"stopping"}
    [] await = "snapshot" -> {"snapshotting", "terminalizing"}
    [] await \in {"manifest", "gate"} -> {"validating", "terminalizing"}
    [] await \in {"finalize", "acknowledge"} -> {"finalizing", "terminalizing"}
    [] OTHER -> {"terminal"}

\* The kernel's slot belongs to the turn whose operation holds it.
SlotInv ==
  /\ \A t \in Turn : pc[t] \in Holding => activeTurn = t
  /\ activeTurn # NoTurn => pc[activeTurn] \in Holding /\ phase \in PhasesAt(pc[activeTurn])
  /\ activeTurn = NoTurn => phase = "idle"

\* An attempt, its lease and its run are there while the turn awaits the run.
RunOf(t) ==
  /\ run[t] # "none" <=> pc[t] = "run"
  /\ lease[t] # 0 => pc[t] = "run" /\ lease[t] = leases[t]
  /\ t \in alive => latched \/ (pc[t] = "run" /\ run[t] # "degraded")

\* Awaits before the commit can have happened, and the cancels that rule it out.
Uncommitted == {"new"} \cup (Holding \ {"acknowledge", "terminalize"})
Preventing == {"admitting", "workspace-ready", "snapshotting", "validating"}

\* What is in the chat, and what a cancel before finalization keeps out of it.
RecordOf(t) ==
  /\ pc[t] \in Uncommitted => record[t] = "none"
  /\ pc[t] = "acknowledge" \/ verdict[t] = "completed" => record[t] = "agent"
  /\ verdict[t] = "completed" => pc[t] \notin Holding \cup {"new"}
  /\ pc[t] = "publish" => verdict[t] = "completed"
  /\ event[t] # "none" => pc[t] = "done"
  /\ cancelledIn[t] # "none" => pc[t] # "new"
  /\ cancelledIn[t] \in Preventing =>
       /\ record[t] # "agent"
       /\ pc[t] \notin {"finalize", "acknowledge"}
       /\ pc[t] \in Holding => phase \in {"terminalizing", "terminal"}

RunInv == \A t \in Turn : RunOf(t)
RecordInv == \A t \in Turn : RecordOf(t)

TurnInv == TypeOK /\ SlotInv /\ RunInv /\ RecordInv

LEMMA TurnInit == Init => TurnInv
<1> SUFFICES ASSUME Init PROVE TurnInv
  OBVIOUS
<1>1. TypeOK
  <2>1. 1 \in 1 .. MaxAttempts /\ 0 \in 0 .. MaxAttempts
    BY TurnAssumption
  <2>2. QED
    BY <2>1 DEF Init, TypeOK, Phase, Await, Verdict
<1>2. QED
  BY <1>1 DEF Init, TurnInv, SlotInv, RunInv, RunOf, RecordInv, RecordOf, Holding,
     Uncommitted, Preventing

LEMMA PhasesTyped == ASSUME NEW a \in Holding PROVE PhasesAt(a) \subseteq Phase \ {"idle"}
BY DEF Holding, PhasesAt, Phase

LEMMA HoldingTyped == Holding \subseteq Await /\ Uncommitted \subseteq Await
BY DEF Holding, Await, Uncommitted

\* The turn whose operation holds the kernel is the active one, alone.
LEMMA Holder ==
  ASSUME TurnInv, NEW t \in Turn, pc[t] \in Holding
  PROVE  /\ activeTurn = t /\ phase \in PhasesAt(pc[t])
         /\ \A u \in Turn : u # t => pc[u] \notin Holding
BY TurnAssumption DEF TurnInv, SlotInv

LEMMA SlotMoves ==
  ASSUME TurnInv, NEW t \in Turn, pc[t] \in Holding, NEW a \in Holding, GoTo(t, a),
         phase' \in PhasesAt(a), UNCHANGED activeTurn
  PROVE  SlotInv'
BY TurnAssumption, Holder DEF TurnInv, SlotInv, GoTo, TypeOK

LEMMA SlotFreed ==
  ASSUME TurnInv, NEW t \in Turn, pc[t] \in Holding, NEW a, a \notin Holding, GoTo(t, a),
         phase' = "idle", activeTurn' = NoTurn
  PROVE  SlotInv'
BY TurnAssumption, Holder DEF TurnInv, SlotInv, GoTo, TypeOK

LEMMA SlotKept ==
  ASSUME TurnInv, NEW t \in Turn, pc[t] \notin Holding, NEW a, a \notin Holding, GoTo(t, a),
         UNCHANGED <<phase, activeTurn>>
  PROVE  SlotInv'
<1>1. \A u \in Turn : pc'[u] \in Holding <=> pc[u] \in Holding
  BY DEF GoTo, TurnInv, TypeOK
<1>2. \A u \in Turn : pc[u] \in Holding => pc'[u] = pc[u]
  BY DEF GoTo, TurnInv, TypeOK
<1>3. activeTurn \in Turn \cup {NoTurn}
  BY DEF TurnInv, TypeOK
<1>4. QED
  BY <1>1, <1>2, <1>3, TurnAssumption DEF TurnInv, SlotInv

\* A step of t that leaves the agents alone.
LEMMA RunKept ==
  ASSUME TurnInv, NEW t \in Turn, pc[t] # "run", NEW a, a # "run", GoTo(t, a),
         UNCHANGED <<leases, lease, agent>>
  PROVE  RunInv'
BY DEF TurnInv, TypeOK, RunInv, RunOf, GoTo, agent

\* A step of t leaves the records of the other turns alone.
LEMMA RecordMoves ==
  ASSUME TurnInv, NEW t \in Turn, NEW a, GoTo(t, a),
         pc[t] \in Holding \/ phase' = phase,
         \A u \in Turn : u # t =>
           /\ record'[u] = record[u] /\ verdict'[u] = verdict[u]
           /\ event'[u] = event[u] /\ cancelledIn'[u] = cancelledIn[u],
         RecordOf(t)'
  PROVE  RecordInv'
<1> SUFFICES ASSUME NEW u \in Turn, u # t PROVE RecordOf(u)'
  BY DEF RecordInv
<1>1. pc'[u] = pc[u]
  BY DEF GoTo, TurnInv, TypeOK
<1>2. RecordOf(u)
  BY DEF TurnInv, RecordInv
<1>3. pc[u] \notin Holding \/ phase' = phase
  BY Holder
<1>4. QED
  BY <1>1, <1>2, <1>3 DEF RecordOf

\* Every failure of runTurn reaches finishTerminalization where it is legal.
LEMMA Terminalizes ==
  ASSUME NEW t, NEW p, NEW v, Terminalize(t, p, v), p = "terminalizing"
  PROVE  phase' = "terminal" /\ GoTo(t, "terminalize") /\ verdict' = [verdict EXCEPT ![t] = v]
BY Endings DEF Terminalize

Unrecorded == {"rejected", "failed", "cancelled"}

\* The step of t that ends its work: the terminal record comes next.
LEMMA Ends ==
  ASSUME TurnInv, NEW t \in Turn, pc[t] \in Holding \ {"terminalize"},
         GoTo(t, "terminalize"), phase' = "terminal",
         NEW v \in Unrecorded, verdict' = [verdict EXCEPT ![t] = v],
         UNCHANGED <<activeTurn, event, cancelledIn>>,
         \A u \in Turn : u # t => record'[u] = record[u],
         record'[t] = "agent" => cancelledIn[t] \notin Preventing
  PROVE  /\ SlotInv' /\ RecordInv'
         /\ phase' \in Phase /\ pc' \in [Turn -> Await] /\ verdict' \in [Turn -> Verdict]
<1>1. SlotInv'
  BY SlotMoves DEF PhasesAt, Holding
<1>2. /\ pc'[t] = "terminalize" /\ verdict'[t] = v
      /\ \A u \in Turn : u # t => verdict'[u] = verdict[u]
  BY DEF GoTo, TurnInv, TypeOK
<1>3. RecordOf(t)'
  BY <1>2 DEF TurnInv, RecordInv, RecordOf, Holding, Uncommitted, Unrecorded
<1>4. RecordInv'
  BY <1>2, <1>3, RecordMoves
<1>5. QED
  BY <1>1, <1>4 DEF TurnInv, TypeOK, GoTo, Phase, Await, Verdict, Unrecorded

LEMMA EndsEarly ==
  ASSUME TurnInv, NEW t \in Turn, pc[t] \in Holding \cap Uncommitted,
         GoTo(t, "terminalize"), phase' = "terminal",
         NEW v \in Unrecorded, verdict' = [verdict EXCEPT ![t] = v],
         UNCHANGED <<activeTurn, record, event, cancelledIn>>
  PROVE  /\ SlotInv' /\ RecordInv'
         /\ phase' \in Phase /\ pc' \in [Turn -> Await] /\ verdict' \in [Turn -> Verdict]
<1>1. pc[t] \in Holding \ {"terminalize"} /\ record[t] = "none"
  BY DEF Holding, Uncommitted, TurnInv, RecordInv, RecordOf
<1>2. QED
  BY <1>1, Ends

\* A step of t to another await of its work, before anything is recorded.
LEMMA Advances ==
  ASSUME TurnInv, NEW t \in Turn, pc[t] \in Holding \cap Uncommitted,
         NEW a \in (Holding \cap Uncommitted) \ {"finalize"}, GoTo(t, a),
         phase' \in PhasesAt(a), phase = "terminalizing" => phase' = "terminalizing",
         UNCHANGED <<activeTurn, verdict, record, event, cancelledIn>>
  PROVE  SlotInv' /\ RecordInv' /\ phase' \in Phase /\ pc' \in [Turn -> Await]
<1>1. SlotInv'
  BY SlotMoves
<1>2. pc'[t] = a
  BY DEF GoTo, TurnInv, TypeOK
<1>3. phase \in {"terminalizing", "terminal"} => phase = "terminalizing"
  BY Holder DEF PhasesAt, Uncommitted, Holding
<1>4. RecordOf(t)'
  BY <1>2, <1>3 DEF TurnInv, RecordInv, RecordOf, Holding, Uncommitted
<1>5. RecordInv'
  BY <1>4, RecordMoves
<1>6. QED
  BY <1>1, <1>5, PhasesTyped, HoldingTyped DEF TurnInv, TypeOK, GoTo

LEMMA StartStep == ASSUME TurnInv, NEW t \in Turn, Start(t) PROVE TurnInv'
<1>1. phase = "idle" /\ phase' = "admitting" /\ activeTurn' = t /\ pc[t] = "new"
  BY Admission DEF Start
<1>2. activeTurn = NoTurn /\ \A u \in Turn : pc[u] \notin Holding
  <2>1. activeTurn = NoTurn
    BY <1>1, PhasesTyped DEF TurnInv, SlotInv
  <2>2. QED
    BY <2>1, TurnAssumption DEF TurnInv, SlotInv
<1>3. GoTo(t, "read") /\ pc'[t] = "read" /\ \A u \in Turn : u # t => pc'[u] = pc[u]
  BY DEF Start, GoTo, TurnInv, TypeOK
<1>4. TypeOK'
  BY <1>1 DEF Start, TurnInv, TypeOK, GoTo, Phase, Await, progress, agent, disk, seen
<1>5. SlotInv'
  BY <1>1, <1>2, <1>3, TurnAssumption DEF SlotInv, PhasesAt, Holding
<1>6. RunInv'
  BY <1>1, <1>3, RunKept DEF Start, progress
<1>7. RecordInv'
  <2>1. RecordOf(t)'
    BY <1>1, <1>3
       DEF Start, disk, seen, TurnInv, TypeOK, RecordInv, RecordOf, Holding, Uncommitted, Preventing
  <2>2. ASSUME NEW u \in Turn, u # t PROVE RecordOf(u)'
    BY <1>2, <1>3, <2>2 DEF Start, disk, seen, TurnInv, RecordInv, RecordOf
  <2>3. QED
    BY <2>1, <2>2 DEF RecordInv
<1>8. QED
  BY <1>4, <1>5, <1>6, <1>7 DEF TurnInv

LEMMA ReadStep == ASSUME TurnInv, NEW t \in Turn, Read(t) PROVE TurnInv'
<1>1. /\ pc[t] = "read" /\ activeTurn = t /\ phase \in {"admitting", "terminalizing"}
      /\ "read" \in Holding \cap Uncommitted
  BY Holder DEF Read, Holding, PhasesAt, Uncommitted
<1>2. UNCHANGED <<handle, intentBit, progress, verdict, agent, disk, shown, cancelledIn>>
  BY DEF Read
<1>3. CASE GoTo(t, "admit") /\ UNCHANGED <<phase, activeTurn, event>>
  <2>1. SlotInv' /\ RecordInv' /\ phase' \in Phase /\ pc' \in [Turn -> Await]
    BY <1>1, <1>2, <1>3, Advances DEF disk, PhasesAt, Holding, Uncommitted
  <2>2. RunInv'
    BY <1>1, <1>2, <1>3, RunKept DEF progress
  <2>3. TypeOK'
    BY <1>2, <1>3, <2>1 DEF TurnInv, TypeOK, progress, agent, disk
  <2>4. QED
    BY <2>1, <2>2, <2>3 DEF TurnInv
<1>4. CASE /\ phase' = After("settle", After("finishTerminalization",
                                             After("beginTerminalization", phase)))
           /\ activeTurn' = NoTurn
           /\ event' = [event EXCEPT ![t] = "failed"]
           /\ GoTo(t, "done")
  <2>1. phase' = "idle" /\ pc'[t] = "done" /\ "done" \notin Holding \cup Uncommitted
    BY <1>1, <1>4, Endings DEF GoTo, Holding, Uncommitted, TurnInv, TypeOK
  <2>2. SlotInv'
    BY <1>1, <1>4, <2>1, SlotFreed
  <2>3. RunInv'
    BY <1>1, <1>2, <1>4, RunKept DEF progress
  <2>4. TypeOK'
    BY <1>2, <1>4, <2>1 DEF TurnInv, TypeOK, progress, agent, disk, GoTo, Await, Phase
  <2>5. RecordOf(t)'
    BY <1>1, <1>2, <2>1 DEF disk, TurnInv, RecordInv, RecordOf, Holding
  <2>6. RecordInv'
    BY <1>1, <1>2, <1>4, <2>5, RecordMoves DEF disk, TurnInv, TypeOK
  <2>7. QED
    BY <2>2, <2>3, <2>4, <2>6 DEF TurnInv
<1>5. QED
  BY <1>3, <1>4 DEF Read

LEMMA AdmitStep ==
  ASSUME TurnInv, NEW t \in Turn, NEW result \in StoreResult, Admit(t, result)
  PROVE  TurnInv'
<1>1. /\ pc[t] = "admit" /\ activeTurn = t /\ phase \in {"admitting", "terminalizing"}
      /\ "admit" \in Holding \cap Uncommitted
  BY Holder DEF Admit, Holding, PhasesAt, Uncommitted
<1>2. UNCHANGED <<activeTurn, handle, intentBit, progress, agent, record, seen>>
  BY DEF Admit
<1>3. userRecord' \subseteq Turn
  BY DEF Admit, TurnInv, TypeOK
<1>4. CASE GoTo(t, "stage") /\ UNCHANGED <<phase, verdict>>
  <2>1. SlotInv' /\ RecordInv' /\ phase' \in Phase /\ pc' \in [Turn -> Await]
    BY <1>1, <1>2, <1>4, Advances DEF seen, PhasesAt, Holding, Uncommitted
  <2>2. RunInv'
    BY <1>1, <1>2, <1>4, RunKept DEF progress
  <2>3. TypeOK'
    BY <1>2, <1>3, <1>4, <2>1 DEF TurnInv, TypeOK, progress, agent, seen
  <2>4. QED
    BY <2>1, <2>2, <2>3 DEF TurnInv
<1>5. CASE Reject(t)
  <2>1. /\ phase' = "terminal" /\ GoTo(t, "terminalize")
        /\ verdict' = [verdict EXCEPT ![t] = "rejected"]
    BY <1>1, <1>5, Endings, Terminalizes DEF Reject, TerminalizeAfter
  <2>2. /\ SlotInv' /\ RecordInv'
        /\ phase' \in Phase /\ pc' \in [Turn -> Await] /\ verdict' \in [Turn -> Verdict]
    BY <1>1, <1>2, <2>1, EndsEarly DEF seen, Unrecorded
  <2>3. RunInv'
    BY <1>1, <1>2, <2>1, RunKept DEF progress
  <2>4. TypeOK'
    BY <1>2, <1>3, <2>2 DEF TurnInv, TypeOK, progress, agent, seen
  <2>5. QED
    BY <2>2, <2>3, <2>4 DEF TurnInv
<1>6. QED
  BY <1>4, <1>5 DEF Admit

LEMMA StageStep == ASSUME TurnInv, NEW t \in Turn, StageWorkspace(t) PROVE TurnInv'
<1>1. /\ pc[t] = "stage" /\ activeTurn = t /\ phase \in {"admitting", "terminalizing"}
      /\ "stage" \in Holding \cap Uncommitted
  BY Holder DEF StageWorkspace, Holding, PhasesAt, Uncommitted
<1>2. UNCHANGED <<activeTurn, handle, intentBit, progress, agent, disk, seen>>
  BY DEF StageWorkspace
<1>3. CASE /\ phase' = After("finishAdmission", phase)
           /\ GoTo(t, IF Legal("finishAdmission", phase) THEN "loop" ELSE "retireWorkspace")
           /\ UNCHANGED verdict
  <2>1. PICK a \in {"loop", "retireWorkspace"} :
          /\ GoTo(t, a) /\ phase' \in PhasesAt(a)
          /\ phase = "terminalizing" => phase' = "terminalizing"
    BY <1>1, <1>3, Admission DEF PhasesAt
  <2>2. a \in (Holding \cap Uncommitted) \ {"finalize"} /\ a # "run"
    BY DEF Holding, Uncommitted
  <2>3. SlotInv' /\ RecordInv' /\ phase' \in Phase /\ pc' \in [Turn -> Await]
    BY <1>1, <1>2, <1>3, <2>1, <2>2, Advances DEF seen, disk
  <2>4. RunInv'
    BY <1>1, <1>2, <2>1, <2>2, RunKept DEF progress
  <2>5. TypeOK'
    BY <1>2, <1>3, <2>3 DEF TurnInv, TypeOK, progress, agent, seen, disk
  <2>6. QED
    BY <2>3, <2>4, <2>5 DEF TurnInv
<1>4. CASE Reject(t)
  <2>1. /\ phase' = "terminal" /\ GoTo(t, "terminalize")
        /\ verdict' = [verdict EXCEPT ![t] = "rejected"]
    BY <1>1, <1>4, Endings, Terminalizes DEF Reject, TerminalizeAfter
  <2>2. /\ SlotInv' /\ RecordInv'
        /\ phase' \in Phase /\ pc' \in [Turn -> Await] /\ verdict' \in [Turn -> Verdict]
    BY <1>1, <1>2, <2>1, EndsEarly DEF seen, disk, Unrecorded
  <2>3. RunInv'
    BY <1>1, <1>2, <2>1, RunKept DEF progress
  <2>4. TypeOK'
    BY <1>2, <2>2 DEF TurnInv, TypeOK, progress, agent, seen, disk
  <2>5. QED
    BY <2>2, <2>3, <2>4 DEF TurnInv
<1>5. QED
  BY <1>3, <1>4 DEF StageWorkspace

LEMMA RetireWorkspaceStep == ASSUME TurnInv, NEW t \in Turn, RetireWorkspace(t) PROVE TurnInv'
<1>1. /\ pc[t] = "retireWorkspace" /\ activeTurn = t /\ phase = "terminalizing"
      /\ "retireWorkspace" \in Holding \cap Uncommitted
  BY Holder DEF RetireWorkspace, Holding, PhasesAt, Uncommitted
<1>2. /\ Reject(t)
      /\ UNCHANGED <<activeTurn, handle, intentBit, progress, agent, disk, seen>>
  BY DEF RetireWorkspace
<1>3. /\ phase' = "terminal" /\ GoTo(t, "terminalize")
      /\ verdict' = [verdict EXCEPT ![t] = "rejected"]
  BY <1>1, <1>2, Endings, Terminalizes DEF Reject, TerminalizeAfter
<1>4. /\ SlotInv' /\ RecordInv'
      /\ phase' \in Phase /\ pc' \in [Turn -> Await] /\ verdict' \in [Turn -> Verdict]
  BY <1>1, <1>2, <1>3, EndsEarly DEF seen, disk, Unrecorded
<1>5. RunInv'
  BY <1>1, <1>2, <1>3, RunKept DEF progress
<1>6. TypeOK'
  BY <1>2, <1>4 DEF TurnInv, TypeOK, progress, agent, seen, disk
<1>7. QED
  BY <1>4, <1>5, <1>6 DEF TurnInv

\* The head of the loop, entered with the machine in phase p.
LEMMA BeginAttemptStep ==
  ASSUME TurnInv, NEW t \in Turn, pc[t] \in {"loop", "fallback"},
         NEW p \in {"workspace-ready", "terminalizing"},
         phase = "terminalizing" => p = "terminalizing", BeginAttempt(t, p),
         UNCHANGED <<activeTurn, intentBit, attempt, fallbackUsed, root, latched, disk, seen>>
  PROVE  TurnInv'
<1>1. pc[t] \in Holding \cap Uncommitted /\ pc[t] # "run" /\ pc[t] # "terminalize"
  BY DEF Holding, Uncommitted
<1>2. CASE /\ Legal("beginAttempt", p) /\ LeaseLeft(t)
           /\ phase' = After("beginAttempt", p)
           /\ leases' = [leases EXCEPT ![t] = @ + 1]
           /\ lease' = [lease EXCEPT ![t] = leases[t] + 1]
           /\ handle' = t
           /\ GoTo(t, "run")
           /\ \/ ~latched /\ run' = [run EXCEPT ![t] = "live"] /\ alive' = alive \cup {t}
              \/ run' = [run EXCEPT ![t] = "degraded"] /\ UNCHANGED alive
           /\ UNCHANGED verdict
  <2>1. p = "workspace-ready" /\ phase' = "running" /\ phase # "terminalizing"
    BY <1>2, Attempts
  <2>2. SlotInv' /\ RecordInv' /\ phase' \in Phase /\ pc' \in [Turn -> Await]
    BY <1>1, <1>2, <2>1, Advances DEF seen, disk, Holding, Uncommitted, PhasesAt
  <2>3. /\ leases[t] \in Nat /\ leases[t] + 1 \in 0 .. MaxAttempts /\ leases[t] + 1 # 0
    BY <1>2, TurnAssumption DEF LeaseLeft, TurnInv, TypeOK
  <2>4. RunInv'
    BY <1>1, <1>2, <2>3 DEF TurnInv, TypeOK, RunInv, RunOf, GoTo
  <2>5. TypeOK'
    BY <1>2, <2>2, <2>3 DEF TurnInv, TypeOK, seen, disk
  <2>6. QED
    BY <2>2, <2>4, <2>5 DEF TurnInv
<1>3. ASSUME NEW q, q = "terminalizing", Terminalize(t, q, "failed"),
             UNCHANGED <<leases, lease, handle, run, alive>>
      PROVE  TurnInv'
  <2>1. /\ phase' = "terminal" /\ GoTo(t, "terminalize")
        /\ verdict' = [verdict EXCEPT ![t] = "failed"]
    BY <1>3, Terminalizes
  <2>2. /\ SlotInv' /\ RecordInv'
        /\ phase' \in Phase /\ pc' \in [Turn -> Await] /\ verdict' \in [Turn -> Verdict]
    BY <1>1, <2>1, EndsEarly DEF seen, disk, Unrecorded
  <2>3. RunInv'
    BY <1>1, <1>3, <2>1, RunKept DEF agent
  <2>4. TypeOK'
    BY <1>3, <2>2 DEF TurnInv, TypeOK, seen, disk
  <2>5. QED
    BY <2>2, <2>3, <2>4 DEF TurnInv
<1>4. CASE /\ Legal("beginAttempt", p)
           /\ Terminalize(t, After("beginTerminalization",
                                   After("requestCancel", After("beginAttempt", p))), "failed")
           /\ UNCHANGED <<leases, lease, handle, run, alive>>
  <2>1. After("beginAttempt", p) = "running"
    BY <1>4, Attempts
  <2>2. After("requestCancel", "running") = "stopping"
    BY Cancelling DEF Phase
  <2>3. After("beginTerminalization", "stopping") = "terminalizing"
    BY Endings
  <2>4. QED
    BY <1>3, <1>4, <2>1, <2>2, <2>3
<1>5. CASE /\ Terminalize(t, After("requestCancel", p), "failed")
           /\ UNCHANGED <<leases, lease, handle, run, alive>>
  <2>1. After("requestCancel", p) = "terminalizing"
    BY Cancelling DEF Phase
  <2>2. QED
    BY <1>3, <1>5, <2>1
<1>6. QED
  BY <1>2, <1>4, <1>5 DEF BeginAttempt

LEMMA LoopStep == ASSUME TurnInv, NEW t \in Turn, Loop(t) PROVE TurnInv'
<1>1. pc[t] = "loop" /\ phase \in {"workspace-ready", "terminalizing"}
  BY Holder DEF Loop, Holding, PhasesAt
<1>2. QED
  BY <1>1, BeginAttemptStep DEF Loop

LEMMA FallbackStep == ASSUME TurnInv, NEW t \in Turn, Fallback(t) PROVE TurnInv'
<1>1. pc[t] = "fallback" /\ phase = "stopping" /\ "fallback" \in Holding \cap Uncommitted
  BY Holder DEF Fallback, Holding, PhasesAt, Uncommitted
<1>2. UNCHANGED <<activeTurn, intentBit, attempt, fallbackUsed, root, latched, disk, seen>>
  BY DEF Fallback
<1>3. CASE BeginAttempt(t, After("retryAfterSessionFallback", phase))
  <2>1. After("retryAfterSessionFallback", phase) = "workspace-ready"
    BY <1>1, Attempts
  <2>2. QED
    BY <1>1, <1>2, <1>3, <2>1, BeginAttemptStep
<1>4. CASE /\ TerminalizeAfter(t, "beginTerminalization", "failed")
           /\ UNCHANGED <<leases, lease, handle, run, alive>>
  <2>1. /\ phase' = "terminal" /\ GoTo(t, "terminalize")
        /\ verdict' = [verdict EXCEPT ![t] = "failed"]
    BY <1>1, <1>4, Endings, Terminalizes DEF TerminalizeAfter
  <2>2. /\ SlotInv' /\ RecordInv'
        /\ phase' \in Phase /\ pc' \in [Turn -> Await] /\ verdict' \in [Turn -> Verdict]
    BY <1>1, <1>2, <2>1, EndsEarly DEF seen, disk, Unrecorded
  <2>3. RunInv'
    BY <1>1, <1>2, <1>4, <2>1, RunKept DEF agent
  <2>4. TypeOK'
    BY <1>2, <1>4, <2>2 DEF TurnInv, TypeOK, seen, disk
  <2>5. QED
    BY <2>2, <2>3, <2>4 DEF TurnInv
<1>5. QED
  BY <1>3, <1>4 DEF Fallback

\* A step that leaves the kernel, the awaits and the records alone.
LEMMA KernelKept ==
  ASSUME TurnInv, UNCHANGED <<phase, activeTurn, pc, verdict, record, event, cancelledIn>>
  PROVE  SlotInv' /\ RecordInv'
BY DEF TurnInv, SlotInv, RecordInv, RecordOf

LEMMA ClaimStep ==
  ASSUME TurnInv, NEW t \in Turn, NEW outcome \in Natural, Claim(t, outcome)
  PROVE  TurnInv'
<1>1. SlotInv' /\ RecordInv'
  BY KernelKept DEF Claim, kernel, disk, seen
<1>2. TypeOK'
  BY DEF Claim, kernel, progress, disk, seen, TurnInv, TypeOK
<1>3. RunInv'
  BY DEF Claim, progress, TurnInv, TypeOK, RunInv, RunOf, Natural
<1>4. QED
  BY <1>1, <1>2, <1>3 DEF TurnInv

LEMMA ExitStep == ASSUME TurnInv, NEW t \in Turn, ProcessesExit(t) PROVE TurnInv'
<1>1. SlotInv' /\ RecordInv'
  BY KernelKept DEF ProcessesExit, kernel, disk, seen
<1>2. TypeOK' /\ RunInv'
  BY DEF ProcessesExit, kernel, progress, disk, seen, TurnInv, TypeOK, RunInv, RunOf
<1>3. QED
  BY <1>1, <1>2 DEF TurnInv

LEMMA DeliverStep ==
  ASSUME TurnInv, NEW t \in Turn, NEW n \in 1 .. MaxAttempts, Deliver(t, n)
  PROVE  TurnInv'
<1>1. SlotInv' /\ RecordInv'
  BY KernelKept DEF Deliver, kernel, disk
<1>2. n \in 0 .. MaxAttempts
  BY TurnAssumption
<1>3. TypeOK' /\ RunInv'
  BY <1>2 DEF Deliver, kernel, progress, agent, disk, TurnInv, TypeOK, RunInv, RunOf
<1>4. QED
  BY <1>1, <1>3 DEF TurnInv

\* The outcome of a run whose processes are gone, unless the backend is latched.
LEMMA OutcomeStep ==
  ASSUME TurnInv, NEW t \in Turn, pc[t] = "run", NEW outcome, Outcome(t, outcome),
         UNCHANGED <<activeTurn, intentBit, attempt, leases, root, alive, disk, seen>>,
         latched' \in BOOLEAN, latched => latched', t \in alive => latched'
  PROVE  TurnInv'
<1>1. /\ activeTurn = t /\ phase \in {"running", "stopping"}
      /\ "run" \in Holding \cap Uncommitted
  BY Holder DEF Holding, PhasesAt, Uncommitted
<1>2. /\ lease' = [lease EXCEPT ![t] = 0] /\ run' = [run EXCEPT ![t] = "none"]
      /\ handle' = NoTurn
  BY DEF Outcome, Retire
<1>3. After("beginStopping", phase) = "stopping"
  BY <1>1, Attempts
<1>4. ASSUME NEW a, a # "run", GoTo(t, a) PROVE RunInv'
  BY <1>2, <1>4 DEF TurnInv, TypeOK, RunInv, RunOf, GoTo
<1>5. ASSUME phase' \in Phase, pc' \in [Turn -> Await], verdict' \in [Turn -> Verdict],
             fallbackUsed' \subseteq Turn
      PROVE  TypeOK'
  <2>1. 0 \in 0 .. MaxAttempts
    BY TurnAssumption
  <2>2. /\ lease' \in [Turn -> 0 .. MaxAttempts]
        /\ run' \in [Turn -> Natural \cup {"none", "live", "degraded", "cancelling"}]
    BY <1>2, <2>1 DEF TurnInv, TypeOK
  <2>3. QED
    BY <1>2, <1>5, <2>2 DEF TurnInv, TypeOK, disk, seen
<1>6. CASE /\ phase' = After("beginSnapshot", After("beginStopping", phase))
           /\ GoTo(t, "snapshot") /\ UNCHANGED <<verdict, fallbackUsed>>
  <2>1. phase' = "snapshotting"
    BY <1>3, <1>6, Attempts
  <2>2. SlotInv' /\ RecordInv' /\ phase' \in Phase /\ pc' \in [Turn -> Await]
    BY <1>1, <1>6, <2>1, Advances DEF seen, disk, Holding, Uncommitted, PhasesAt
  <2>3. QED
    BY <1>4, <1>5, <1>6, <2>2 DEF TurnInv, TypeOK
<1>7. CASE /\ fallbackUsed' = fallbackUsed \cup {t}
           /\ phase' = After("beginStopping", phase)
           /\ GoTo(t, "fallback") /\ UNCHANGED verdict
  <2>1. SlotInv' /\ RecordInv' /\ phase' \in Phase /\ pc' \in [Turn -> Await]
    BY <1>1, <1>3, <1>7, Advances DEF seen, disk, Holding, Uncommitted, PhasesAt
  <2>2. QED
    BY <1>4, <1>5, <1>7, <2>1 DEF TurnInv, TypeOK
<1>8. ASSUME NEW v \in {"failed", "cancelled"}, UNCHANGED fallbackUsed,
             Terminalize(t, After("beginTerminalization", After("beginStopping", phase)), v)
      PROVE  TurnInv'
  <2>1. /\ phase' = "terminal" /\ GoTo(t, "terminalize")
        /\ verdict' = [verdict EXCEPT ![t] = v]
    BY <1>3, <1>8, Endings, Terminalizes
  <2>2. /\ SlotInv' /\ RecordInv'
        /\ phase' \in Phase /\ pc' \in [Turn -> Await] /\ verdict' \in [Turn -> Verdict]
    BY <1>1, <2>1, EndsEarly DEF seen, disk, Unrecorded
  <2>3. QED
    BY <1>4, <1>5, <1>8, <2>1, <2>2 DEF TurnInv, TypeOK
<1>9. QED
  BY <1>6, <1>7, <1>8 DEF Outcome

LEMMA SettleStep == ASSUME TurnInv, NEW t \in Turn, Settle(t) PROVE TurnInv'
<1>1. pc[t] = "run" /\ latched \in BOOLEAN /\ (run[t] = "degraded" /\ t \in alive => latched)
  BY DEF Settle, TurnInv, TypeOK, RunInv, RunOf, Natural
<1>2. UNCHANGED <<activeTurn, intentBit, attempt, leases, root, alive, disk, seen>>
  BY DEF Settle
<1>3. QED
  BY <1>1, <1>2, OutcomeStep DEF Settle, ExitConfirmed

LEMMA SnapshotStep == ASSUME TurnInv, NEW t \in Turn, Snapshot(t) PROVE TurnInv'
<1>1. /\ pc[t] = "snapshot" /\ activeTurn = t /\ phase \in {"snapshotting", "terminalizing"}
      /\ "snapshot" \in Holding \cap Uncommitted
  BY Holder DEF Snapshot, Holding, PhasesAt, Uncommitted
<1>2. UNCHANGED <<activeTurn, handle, intentBit, progress, agent, disk, seen>>
  BY DEF Snapshot
<1>3. CASE /\ Legal("candidateCaptured", phase)
           /\ phase' = After("candidateCaptured", phase)
           /\ GoTo(t, "manifest")
           /\ UNCHANGED verdict
  <2>1. phase' = "validating" /\ phase # "terminalizing"
    BY <1>3, Candidates
  <2>2. SlotInv' /\ RecordInv' /\ phase' \in Phase /\ pc' \in [Turn -> Await]
    BY <1>1, <1>2, <1>3, <2>1, Advances DEF seen, disk, Holding, Uncommitted, PhasesAt
  <2>3. RunInv'
    BY <1>1, <1>2, <1>3, RunKept DEF progress
  <2>4. TypeOK'
    BY <1>2, <1>3, <2>2 DEF TurnInv, TypeOK, progress, agent, seen, disk
  <2>5. QED
    BY <2>2, <2>3, <2>4 DEF TurnInv
<1>4. CASE TerminalizeAfter(t, "requestCancel", "failed")
  <2>1. After("requestCancel", phase) = "terminalizing"
    BY <1>1, Cancelling DEF Phase
  <2>2. /\ phase' = "terminal" /\ GoTo(t, "terminalize")
        /\ verdict' = [verdict EXCEPT ![t] = "failed"]
    BY <1>4, <2>1, Terminalizes DEF TerminalizeAfter
  <2>3. /\ SlotInv' /\ RecordInv'
        /\ phase' \in Phase /\ pc' \in [Turn -> Await] /\ verdict' \in [Turn -> Verdict]
    BY <1>1, <1>2, <2>2, EndsEarly DEF seen, disk, Unrecorded
  <2>4. RunInv'
    BY <1>1, <1>2, <2>2, RunKept DEF progress
  <2>5. TypeOK'
    BY <1>2, <2>3 DEF TurnInv, TypeOK, progress, agent, seen, disk
  <2>6. QED
    BY <2>3, <2>4, <2>5 DEF TurnInv
<1>5. QED
  BY <1>3, <1>4 DEF Snapshot

LEMMA ManifestStep == ASSUME TurnInv, NEW t \in Turn, ReadManifest(t) PROVE TurnInv'
<1>1. /\ pc[t] = "manifest" /\ activeTurn = t /\ phase \in {"validating", "terminalizing"}
      /\ "manifest" \in Holding \cap Uncommitted
  BY Holder DEF ReadManifest, Holding, PhasesAt, Uncommitted
<1>2. UNCHANGED <<activeTurn, handle, intentBit, attempt, leases, lease, fallbackUsed,
                  agent, disk, seen>>
  BY DEF ReadManifest
<1>3. CASE root' = root \cup {t} /\ GoTo(t, "gate") /\ UNCHANGED <<phase, verdict>>
  <2>1. SlotInv' /\ RecordInv' /\ phase' \in Phase /\ pc' \in [Turn -> Await]
    BY <1>1, <1>2, <1>3, Advances DEF seen, disk, Holding, Uncommitted, PhasesAt
  <2>2. RunInv'
    BY <1>1, <1>2, <1>3, RunKept
  <2>3. TypeOK'
    BY <1>2, <1>3, <2>1 DEF TurnInv, TypeOK, agent, seen, disk
  <2>4. QED
    BY <2>1, <2>2, <2>3 DEF TurnInv
<1>4. CASE TerminalizeAfter(t, "requestCancel", "failed") /\ UNCHANGED root
  <2>1. After("requestCancel", phase) = "terminalizing"
    BY <1>1, Cancelling DEF Phase
  <2>2. /\ phase' = "terminal" /\ GoTo(t, "terminalize")
        /\ verdict' = [verdict EXCEPT ![t] = "failed"]
    BY <1>4, <2>1, Terminalizes DEF TerminalizeAfter
  <2>3. /\ SlotInv' /\ RecordInv'
        /\ phase' \in Phase /\ pc' \in [Turn -> Await] /\ verdict' \in [Turn -> Verdict]
    BY <1>1, <1>2, <2>2, EndsEarly DEF seen, disk, Unrecorded
  <2>4. RunInv'
    BY <1>1, <1>2, <2>2, RunKept
  <2>5. TypeOK'
    BY <1>2, <1>4, <2>3 DEF TurnInv, TypeOK, agent, seen, disk
  <2>6. QED
    BY <2>3, <2>4, <2>5 DEF TurnInv
<1>5. QED
  BY <1>3, <1>4 DEF ReadManifest

LEMMA GateRejectsStep == ASSUME TurnInv, NEW t \in Turn, GateRejects(t) PROVE TurnInv'
<1>1. /\ pc[t] = "gate" /\ activeTurn = t /\ phase \in {"validating", "terminalizing"}
      /\ "gate" \in Holding \cap Uncommitted
  BY Holder DEF GateRejects, Holding, PhasesAt, Uncommitted
<1>2. UNCHANGED <<activeTurn, handle, intentBit, leases, lease, fallbackUsed, root,
                  agent, disk, seen>>
  BY DEF GateRejects
<1>3. CASE /\ attempt[t] < MaxAttempts
           /\ phase' = After("retryAfterGate", phase)
           /\ attempt' = [attempt EXCEPT ![t] = @ + 1]
           /\ GoTo(t, "loop")
           /\ UNCHANGED verdict
  <2>1. phase' = IF phase = "validating" THEN "workspace-ready" ELSE phase
    BY <1>3, Candidates
  <2>2. SlotInv' /\ RecordInv' /\ phase' \in Phase /\ pc' \in [Turn -> Await]
    BY <1>1, <1>2, <1>3, <2>1, Advances DEF seen, disk, Holding, Uncommitted, PhasesAt
  <2>3. RunInv'
    BY <1>1, <1>2, <1>3, RunKept
  <2>4. attempt' \in [Turn -> 1 .. MaxAttempts]
    BY <1>3, TurnAssumption DEF TurnInv, TypeOK
  <2>5. TypeOK'
    BY <1>2, <1>3, <2>2, <2>4 DEF TurnInv, TypeOK, agent, seen, disk
  <2>6. QED
    BY <2>2, <2>3, <2>5 DEF TurnInv
<1>4. CASE TerminalizeAfter(t, "beginTerminalization", "failed") /\ UNCHANGED attempt
  <2>1. /\ phase' = "terminal" /\ GoTo(t, "terminalize")
        /\ verdict' = [verdict EXCEPT ![t] = "failed"]
    BY <1>1, <1>4, Endings, Terminalizes DEF TerminalizeAfter
  <2>2. /\ SlotInv' /\ RecordInv'
        /\ phase' \in Phase /\ pc' \in [Turn -> Await] /\ verdict' \in [Turn -> Verdict]
    BY <1>1, <1>2, <2>1, EndsEarly DEF seen, disk, Unrecorded
  <2>3. RunInv'
    BY <1>1, <1>2, <2>1, RunKept
  <2>4. TypeOK'
    BY <1>2, <1>4, <2>2 DEF TurnInv, TypeOK, agent, seen, disk
  <2>5. QED
    BY <2>2, <2>3, <2>4 DEF TurnInv
<1>5. QED
  BY <1>3, <1>4 DEF GateRejects

LEMMA GatePassesStep == ASSUME TurnInv, NEW t \in Turn, GatePasses(t) PROVE TurnInv'
<1>1. /\ pc[t] = "gate" /\ activeTurn = t /\ phase \in {"validating", "terminalizing"}
      /\ "gate" \in Holding \cap Uncommitted
  BY Holder DEF GatePasses, Holding, PhasesAt, Uncommitted
<1>2. UNCHANGED <<activeTurn, handle, intentBit, progress, agent, disk, seen>>
  BY DEF GatePasses
<1>3. CASE /\ Legal("beginFinalization", phase)
           /\ phase' = After("beginFinalization", phase)
           /\ GoTo(t, "finalize")
           /\ UNCHANGED verdict
  <2>1. phase = "validating" /\ phase' = "finalizing"
    BY <1>3, Candidates
  <2>2. SlotInv'
    BY <1>1, <1>2, <1>3, <2>1, SlotMoves DEF Holding, PhasesAt
  <2>3. pc'[t] = "finalize" /\ cancelledIn[t] \notin Preventing
    BY <1>1, <1>3, <2>1 DEF GoTo, TurnInv, TypeOK, RecordInv, RecordOf
  <2>4. RecordOf(t)'
    BY <1>1, <1>2, <1>3, <2>3 DEF seen, disk, TurnInv, RecordInv, RecordOf, Holding, Uncommitted
  <2>5. RecordInv'
    BY <1>1, <1>2, <1>3, <2>4, RecordMoves DEF seen, disk
  <2>6. RunInv'
    BY <1>1, <1>2, <1>3, RunKept DEF progress
  <2>7. TypeOK'
    BY <1>2, <1>3, <2>1 DEF TurnInv, TypeOK, progress, agent, seen, disk, GoTo, Phase, Await
  <2>8. QED
    BY <2>2, <2>5, <2>6, <2>7 DEF TurnInv
<1>4. ASSUME NEW p, p = "terminalizing", NEW v \in {"failed", "cancelled"}, Terminalize(t, p, v)
      PROVE  TurnInv'
  <2>1. /\ phase' = "terminal" /\ GoTo(t, "terminalize")
        /\ verdict' = [verdict EXCEPT ![t] = v]
    BY <1>4, Terminalizes
  <2>2. /\ SlotInv' /\ RecordInv'
        /\ phase' \in Phase /\ pc' \in [Turn -> Await] /\ verdict' \in [Turn -> Verdict]
    BY <1>1, <1>2, <2>1, EndsEarly DEF seen, disk, Unrecorded
  <2>3. RunInv'
    BY <1>1, <1>2, <2>1, RunKept DEF progress
  <2>4. TypeOK'
    BY <1>2, <2>2 DEF TurnInv, TypeOK, progress, agent, seen, disk
  <2>5. QED
    BY <2>2, <2>3, <2>4 DEF TurnInv
<1>5. Legal("beginFinalization", phase) =>
        After("beginTerminalization", After("beginFinalization", phase)) = "terminalizing"
  BY Candidates, Endings
<1>6. ~Legal("beginFinalization", phase) => phase = "terminalizing"
  BY <1>1, Candidates
<1>7. QED
  BY <1>3, <1>4, <1>5, <1>6 DEF GatePasses

LEMMA FinalizeStep ==
  ASSUME TurnInv, NEW t \in Turn, NEW result \in StoreResult, Finalize(t, result)
  PROVE  TurnInv'
<1>1. /\ pc[t] = "finalize" /\ activeTurn = t /\ phase \in {"finalizing", "terminalizing"}
      /\ "finalize" \in Holding \cap Uncommitted
      /\ cancelledIn[t] \notin Preventing /\ verdict[t] # "completed" /\ event[t] = "none"
  BY Holder DEF Finalize, Holding, PhasesAt, Uncommitted, TurnInv, RecordInv, RecordOf
<1>2. UNCHANGED <<activeTurn, handle, intentBit, progress, agent, userRecord, seen>>
  BY DEF Finalize
<1>3. record' \in [Turn -> {"none", "agent", "system"}] /\ \A u \in Turn : u # t => record'[u] = record[u]
  BY DEF Finalize, TurnInv, TypeOK
<1>4. CASE result = "ok" /\ GoTo(t, "acknowledge") /\ UNCHANGED <<phase, verdict>>
  <2>1. SlotInv'
    BY <1>1, <1>2, <1>4, SlotMoves DEF Holding, PhasesAt
  <2>2. pc'[t] = "acknowledge" /\ record'[t] = "agent"
    BY <1>4 DEF Finalize, GoTo, TurnInv, TypeOK
  <2>3. RecordOf(t)'
    BY <1>1, <1>2, <1>4, <2>2 DEF seen, RecordOf, Uncommitted
  <2>4. RecordInv'
    BY <1>1, <1>2, <1>3, <1>4, <2>3, RecordMoves DEF seen
  <2>5. RunInv'
    BY <1>1, <1>2, <1>4, RunKept DEF progress
  <2>6. TypeOK'
    BY <1>2, <1>3, <1>4 DEF TurnInv, TypeOK, progress, agent, seen, GoTo, Await
  <2>7. QED
    BY <2>1, <2>4, <2>5, <2>6 DEF TurnInv
<1>5. CASE TerminalizeAfter(t, "beginTerminalization", "failed")
  <2>1. /\ phase' = "terminal" /\ GoTo(t, "terminalize")
        /\ verdict' = [verdict EXCEPT ![t] = "failed"]
    BY <1>1, <1>5, Endings, Terminalizes DEF TerminalizeAfter
  <2>2. /\ SlotInv' /\ RecordInv'
        /\ phase' \in Phase /\ pc' \in [Turn -> Await] /\ verdict' \in [Turn -> Verdict]
    BY <1>1, <1>2, <1>3, <2>1, Ends DEF seen, Unrecorded
  <2>3. RunInv'
    BY <1>1, <1>2, <2>1, RunKept DEF progress
  <2>4. TypeOK'
    BY <1>2, <1>3, <2>2 DEF TurnInv, TypeOK, progress, agent, seen
  <2>5. QED
    BY <2>2, <2>3, <2>4 DEF TurnInv
<1>6. QED
  BY <1>4, <1>5 DEF Finalize

LEMMA AcknowledgeStep == ASSUME TurnInv, NEW t \in Turn, Acknowledge(t) PROVE TurnInv'
<1>1. /\ pc[t] = "acknowledge" /\ activeTurn = t /\ phase \in {"finalizing", "terminalizing"}
      /\ "acknowledge" \in Holding \ {"terminalize"} /\ record[t] = "agent"
      /\ cancelledIn[t] \notin Preventing /\ event[t] = "none"
  BY Holder DEF Acknowledge, Holding, PhasesAt, TurnInv, RecordInv, RecordOf
<1>2. UNCHANGED <<handle, progress, agent, disk, seen>>
  BY DEF Acknowledge
<1>3. CASE /\ Legal("markCommitted", phase)
           /\ phase' = After("settle", After("markCommitted", phase))
           /\ activeTurn' = NoTurn
           /\ verdict' = [verdict EXCEPT ![t] = "completed"]
           /\ GoTo(t, "retire")
           /\ UNCHANGED intentBit
  <2>1. phase' = "idle" /\ pc'[t] = "retire" /\ verdict'[t] = "completed"
    BY <1>3, Candidates, Endings DEF GoTo, TurnInv, TypeOK
  <2>2. "retire" \notin Holding \cup Uncommitted
    BY DEF Holding, Uncommitted
  <2>3. SlotInv'
    BY <1>1, <1>3, <2>1, <2>2, SlotFreed
  <2>4. RecordOf(t)'
    BY <1>1, <1>2, <2>1, <2>2 DEF disk, seen, RecordOf
  <2>5. RecordInv'
    BY <1>1, <1>2, <1>3, <2>4, RecordMoves DEF disk, seen, TurnInv, TypeOK
  <2>6. RunInv'
    BY <1>1, <1>2, <1>3, RunKept DEF progress
  <2>7. TypeOK'
    BY <1>2, <1>3, <2>1 DEF TurnInv, TypeOK, progress, agent, disk, seen, GoTo, Await, Phase, Verdict
  <2>8. QED
    BY <2>3, <2>5, <2>6, <2>7 DEF TurnInv
<1>4. CASE /\ intentBit' = TRUE
           /\ TerminalizeAfter(t, "beginTerminalization", "failed")
           /\ UNCHANGED activeTurn
  <2>1. /\ phase' = "terminal" /\ GoTo(t, "terminalize")
        /\ verdict' = [verdict EXCEPT ![t] = "failed"]
    BY <1>1, <1>4, Endings, Terminalizes DEF TerminalizeAfter
  <2>2. /\ SlotInv' /\ RecordInv'
        /\ phase' \in Phase /\ pc' \in [Turn -> Await] /\ verdict' \in [Turn -> Verdict]
    BY <1>1, <1>2, <1>4, <2>1, Ends DEF seen, disk, Unrecorded
  <2>3. RunInv'
    BY <1>1, <1>2, <2>1, RunKept DEF progress
  <2>4. TypeOK'
    BY <1>2, <1>4, <2>2 DEF TurnInv, TypeOK, progress, agent, disk, seen
  <2>5. QED
    BY <2>2, <2>3, <2>4 DEF TurnInv
<1>5. QED
  BY <1>3, <1>4 DEF Acknowledge

LEMMA RecordTerminalStep ==
  ASSUME TurnInv, NEW t \in Turn, NEW result \in StoreResult, RecordTerminal(t, result)
  PROVE  TurnInv'
<1>1. /\ pc[t] = "terminalize" /\ activeTurn = t /\ phase = "terminal" /\ phase' = "idle"
      /\ "terminalize" \in Holding
      /\ verdict[t] # "completed" /\ event[t] = "none"
  BY Holder, Endings DEF RecordTerminal, Holding, PhasesAt, TurnInv, RecordInv, RecordOf
<1>2. activeTurn' = NoTurn /\ UNCHANGED <<handle, intentBit, progress, verdict, agent, userRecord, seen>>
  BY DEF RecordTerminal, Released
<1>3. /\ record' \in [Turn -> {"none", "agent", "system"}]
      /\ \A u \in Turn : u # t => record'[u] = record[u]
      /\ record'[t] \in {record[t], "system"}
  BY DEF RecordTerminal, TurnInv, TypeOK
<1>4. PICK a \in {"retire", "return"} : GoTo(t, a)
  BY DEF RecordTerminal
<1>5. a \notin Holding \cup Uncommitted /\ pc'[t] = a
  BY <1>4 DEF Holding, Uncommitted, GoTo, TurnInv, TypeOK
<1>6. SlotInv'
  BY <1>1, <1>2, <1>4, <1>5, SlotFreed
<1>7. RecordOf(t)'
  BY <1>1, <1>2, <1>3, <1>5 DEF seen, TurnInv, RecordInv, RecordOf
<1>8. RecordInv'
  BY <1>1, <1>2, <1>3, <1>4, <1>7, RecordMoves DEF seen
<1>9. RunInv'
  BY <1>1, <1>2, <1>4, RunKept DEF progress
<1>10. TypeOK'
  BY <1>1, <1>2, <1>3, <1>4 DEF TurnInv, TypeOK, progress, agent, seen, GoTo, Await, Phase
<1>11. QED
  BY <1>6, <1>8, <1>9, <1>10 DEF TurnInv

\* The tail of the operation, after the kernel is free again.
LEMMA TailStep ==
  ASSUME TurnInv, NEW t \in Turn, RetireCandidate(t) \/ Return(t) \/ Publish(t)
  PROVE  TurnInv'
<1>1. pc[t] \in {"retire", "return", "publish"} /\ pc[t] \notin Holding \cup {"run"}
  BY DEF RetireCandidate, Return, Publish, Holding
<1>2. UNCHANGED <<phase, activeTurn, progress, verdict, agent, disk, shown, cancelledIn>>
  BY DEF RetireCandidate, Return, Publish, kernel, seen
<1>3. /\ handle' \in Turn \cup {NoTurn} /\ intentBit' \in BOOLEAN
      /\ event' \in [Turn -> {"none", "completed", "failed", "cancelled"}]
      /\ \A u \in Turn : u # t => event'[u] = event[u]
  BY DEF RetireCandidate, Return, Publish, kernel, seen, TurnInv, TypeOK
<1>4. PICK a \in {"return", "publish", "done"} :
        /\ GoTo(t, a)
        /\ a # "done" => event'[t] = event[t]
        /\ a = "publish" => verdict[t] = "completed"
  BY DEF RetireCandidate, Return, Publish, kernel, seen
<1>5. a \notin Holding \cup Uncommitted /\ a # "run" /\ pc'[t] = a
  BY <1>4 DEF Holding, Uncommitted, GoTo, TurnInv, TypeOK
<1>6. SlotInv'
  BY <1>1, <1>2, <1>4, <1>5, SlotKept
<1>7. RecordOf(t)'
  BY <1>1, <1>2, <1>4, <1>5 DEF disk, TurnInv, RecordInv, RecordOf
<1>8. RecordInv'
  BY <1>2, <1>3, <1>4, <1>7, RecordMoves DEF disk
<1>9. RunInv'
  BY <1>1, <1>2, <1>4, <1>5, RunKept DEF progress
<1>10. TypeOK'
  BY <1>2, <1>3, <1>4 DEF TurnInv, TypeOK, progress, agent, disk, GoTo, Await
<1>11. QED
  BY <1>6, <1>8, <1>9, <1>10 DEF TurnInv

LEMMA CancelStep == ASSUME TurnInv, NEW t \in Turn, Cancel(t) PROVE TurnInv'
<1>1. /\ activeTurn = t /\ pc[t] \in Holding /\ phase \in PhasesAt(pc[t])
      /\ phase \in Phase \ {"idle", "committed", "terminal", "stopping", "terminalizing"}
      /\ cancelledIn' = [cancelledIn EXCEPT ![t] = IF Misses(t) THEN "missed" ELSE phase]
      /\ UNCHANGED <<activeTurn, handle, intentBit, pc, progress, verdict, alive, latched,
                     disk, event, shown>>
  BY TurnAssumption DEF Cancel, TurnInv, SlotInv, TypeOK
<1>2. phase' = IF phase = "running" THEN "stopping" ELSE "terminalizing"
  BY <1>1, Cancelling DEF Cancel
<1>3. phase' \in PhasesAt(pc[t])
  BY <1>1, <1>2 DEF PhasesAt, Holding
<1>4. SlotInv'
  BY <1>1, <1>3, TurnAssumption, Holder DEF TurnInv, SlotInv
<1>5. \A u \in Turn : /\ run'[u] \in {run[u], "cancelling"}
                      /\ run'[u] # run[u] => run[u] = "live"
  BY DEF Cancel, StopRun, TurnInv, TypeOK
<1>6. RunInv'
  BY <1>1, <1>5 DEF progress, TurnInv, RunInv, RunOf
<1>7. TypeOK'
  <2>1. run' \in [Turn -> Natural \cup {"none", "live", "degraded", "cancelling"}]
    BY DEF Cancel, StopRun, TurnInv, TypeOK
  <2>2. phase' \in Phase /\ cancelledIn' \in [Turn -> Phase \cup {"none", "missed"}]
    BY <1>1, <1>2 DEF TurnInv, TypeOK, Phase
  <2>3. QED
    BY <1>1, <2>1, <2>2 DEF TurnInv, TypeOK, progress, disk
<1>8. RecordOf(t)'
  <2>1. cancelledIn'[t] \in {phase, "missed"} /\ pc'[t] = pc[t] /\ record'[t] = record[t]
        /\ verdict'[t] = verdict[t] /\ event'[t] = event[t]
    BY <1>1 DEF disk, TurnInv, TypeOK
  <2>2. cancelledIn'[t] \in Preventing => /\ phase' = "terminalizing" /\ pc[t] \in Uncommitted
                                          /\ pc[t] \notin {"finalize", "acknowledge"}
    BY <1>1, <1>2, <2>1 DEF Preventing, PhasesAt, Holding, Uncommitted
  <2>3. pc[t] # "new"
    BY <1>1 DEF Holding
  <2>4. QED
    BY <2>1, <2>2, <2>3 DEF TurnInv, RecordInv, RecordOf
<1>9. ASSUME NEW u \in Turn, u # t PROVE RecordOf(u)'
  <2>1. pc[u] \notin Holding
    BY <1>1, <1>9, Holder
  <2>2. /\ pc'[u] = pc[u] /\ record'[u] = record[u] /\ verdict'[u] = verdict[u]
        /\ event'[u] = event[u] /\ cancelledIn'[u] = cancelledIn[u]
    BY <1>1, <1>9 DEF disk, TurnInv, TypeOK
  <2>3. QED
    BY <2>1, <2>2 DEF TurnInv, RecordInv, RecordOf
<1>10. RecordInv'
  BY <1>8, <1>9 DEF RecordInv
<1>11. QED
  BY <1>4, <1>6, <1>7, <1>10 DEF TurnInv

LEMMA TurnStep == TurnInv /\ [Next]_vars => TurnInv'
<1> SUFFICES ASSUME TurnInv, [Next]_vars PROVE TurnInv'
  OBVIOUS
<1>1. CASE UNCHANGED vars
  BY <1>1 DEF vars, TurnInv, TypeOK, SlotInv, RunInv, RunOf, RecordInv, RecordOf
<1>2. ASSUME NEW t \in Turn, Operation(t) PROVE TurnInv'
  BY <1>2, ReadStep, StageStep, RetireWorkspaceStep, LoopStep, SettleStep, FallbackStep,
     SnapshotStep, ManifestStep, GateRejectsStep, GatePassesStep, AcknowledgeStep, TailStep,
     AdmitStep, FinalizeStep, RecordTerminalStep DEF Operation
<1>3. QED
  BY <1>1, <1>2, StartStep, CancelStep, ExitStep, ClaimStep, DeliverStep DEF Next

LEMMA TurnAlways == Safe => []TurnInv
<1>1. QED
  BY TurnInit, TurnStep, PTL DEF Safe

-------------------------------------------------------------------------------
(* A cancel that stops the run.                                            *)

\* Outcomes that end the turn uncommitted.
Stopped == {"cancelling", "error", "degraded"}

\* Nothing but the end of the turn follows the run such a cancel was accepted in.
StopOf(t) == cancelledIn[t] = "running" =>
  /\ record[t] # "agent"
  /\ pc[t] \in {"run", "terminalize", "retire", "return", "done"}
  /\ pc[t] = "run" => run[t] \in Stopped

StopInv == \A t \in Turn : StopOf(t)

\* The operation of the cancelled turn itself.
LEMMA StopOperation ==
  ASSUME TurnInv, NEW t \in Turn, StopOf(t), Operation(t)
  PROVE  StopOf(t)'
<1> SUFFICES ASSUME cancelledIn[t] = "running" PROVE StopOf(t)'
  BY DEF Operation, Read, StageWorkspace, RetireWorkspace, Loop, Settle, Fallback, Snapshot,
     ReadManifest, GateRejects, GatePasses, Acknowledge, RetireCandidate, Return, Publish,
     Admit, Finalize, RecordTerminal, seen, StopOf
<1>1. /\ record[t] # "agent"
      /\ pc[t] \in {"run", "terminalize", "retire", "return", "done"}
      /\ pc[t] = "run" => run[t] \in Stopped
  BY DEF StopOf
<1>2. pc \in [Turn -> Await] /\ (pc[t] # "run" => run[t] = "none") /\ verdict[t] # "completed"
  BY <1>1 DEF TurnInv, TypeOK, RunInv, RunOf, RecordInv, RecordOf
<1>3. CASE Settle(t)
  <2>1. PICK outcome \in Stopped \cup {"unconfirmed"} : Outcome(t, outcome)
    BY <1>1, <1>2, <1>3 DEF Settle, Natural, Stopped
  <2>2. GoTo(t, "terminalize") \/ GoTo(t, "return")
    BY <2>1 DEF Outcome, Terminalize, Stopped
  <2>3. QED
    BY <1>1, <1>2, <1>3, <2>2 DEF StopOf, GoTo, Settle, disk
<1>4. ASSUME NEW result \in StoreResult, RecordTerminal(t, result)
      PROVE  StopOf(t)'
  BY <1>1, <1>2, <1>4 DEF RecordTerminal, GoTo, StopOf, TurnInv, TypeOK
<1>5. CASE RetireCandidate(t)
  BY <1>1, <1>2, <1>5 DEF RetireCandidate, GoTo, StopOf, disk
<1>6. CASE Return(t)
  BY <1>1, <1>2, <1>6 DEF Return, GoTo, StopOf, disk
<1>7. QED
  BY <1>1, <1>2, <1>3, <1>4, <1>5, <1>6
     DEF Operation, Read, StageWorkspace, RetireWorkspace, Loop, Fallback, Snapshot,
         ReadManifest, GateRejects, GatePasses, Acknowledge, Publish, Admit, Finalize

LEMMA StopCancel ==
  ASSUME TurnInv, NEW t \in Turn, Cancel(t)
  PROVE  StopOf(t)'
<1> SUFFICES ASSUME cancelledIn'[t] = "running" PROVE StopOf(t)'
  BY DEF StopOf
<1>1. phase = "running" /\ ~Misses(t) /\ activeTurn = t
  BY DEF Cancel, TurnInv, TypeOK
<1>2. pc[t] = "run"
  BY <1>1, TurnAssumption DEF TurnInv, SlotInv, PhasesAt
<1>3. record[t] = "none" /\ run[t] # "none"
  BY <1>2 DEF TurnInv, RunInv, RunOf, RecordInv, RecordOf, Uncommitted, Holding
<1>4. run'[t] \in Stopped
  BY <1>1, <1>3 DEF Cancel, StopRun, Misses, Stopped, TurnInv, TypeOK, Natural
<1>5. QED
  BY <1>2, <1>3, <1>4 DEF Cancel, StopOf, disk

\* A step of one turn leaves the cancel, the run and the record of another alone.
LEMMA StopOthers ==
  ASSUME TurnInv, NEW t \in Turn, NEW u \in Turn \ {t}, StopOf(u),
         \/ Start(t) \/ Operation(t) \/ Cancel(t) \/ ProcessesExit(t)
         \/ \E outcome \in Natural : Claim(t, outcome)
         \/ \E n \in 1 .. MaxAttempts : Deliver(t, n)
  PROVE  StopOf(u)'
<1>1. cancelledIn'[u] = cancelledIn[u] /\ record'[u] = record[u]
  BY DEF Start, Operation, Cancel, ProcessesExit, Claim, Deliver, Read, StageWorkspace,
     RetireWorkspace, Loop, Settle, Fallback, Snapshot, ReadManifest, GateRejects, GatePasses,
     Acknowledge, RetireCandidate, Return, Publish, Admit, Finalize, RecordTerminal, seen,
     disk, TurnInv, TypeOK
<1>2. run'[u] = run[u]
  BY DEF Start, Operation, Cancel, StopRun, ProcessesExit, Claim, Deliver, Read,
     StageWorkspace, RetireWorkspace, Loop, BeginAttempt, Settle, Outcome, Fallback, Snapshot,
     ReadManifest, GateRejects, GatePasses, Acknowledge, RetireCandidate, Return, Publish,
     Admit, Finalize, RecordTerminal, agent, TurnInv, TypeOK
<1>3. pc'[u] = pc[u]
  BY DEF Start, Operation, Cancel, ProcessesExit, Claim, Deliver, Read, StageWorkspace,
     RetireWorkspace, Loop, BeginAttempt, Settle, Outcome, Fallback, Snapshot, ReadManifest,
     GateRejects, GatePasses, Acknowledge, RetireCandidate, Return, Publish, Admit, Finalize,
     RecordTerminal, Reject, TerminalizeAfter, Terminalize, GoTo, TurnInv, TypeOK
<1>4. QED
  BY <1>1, <1>2, <1>3 DEF StopOf

LEMMA StopStep == TurnInv /\ StopInv /\ [Next]_vars => StopInv'
<1> SUFFICES ASSUME TurnInv, StopInv, [Next]_vars, NEW u \in Turn PROVE StopOf(u)'
  BY DEF StopInv
<1>1. StopOf(u)
  BY DEF StopInv
<1>2. CASE UNCHANGED vars
  BY <1>1, <1>2 DEF vars, StopOf
<1>3. CASE Start(u)
  BY <1>1, <1>3 DEF Start, StopOf, seen
<1>4. CASE ProcessesExit(u) \/ \E n \in 1 .. MaxAttempts : Deliver(u, n)
  BY <1>1, <1>4 DEF ProcessesExit, Deliver, StopOf, disk, seen, agent
<1>5. ASSUME NEW outcome \in Natural, Claim(u, outcome)
      PROVE  StopOf(u)'
  <2>1. pc[u] = "run" /\ cancelledIn[u] # "running"
    BY <1>1, <1>5 DEF Claim, StopOf, Stopped, TurnInv, RunInv, RunOf
  <2>2. QED
    BY <1>5, <2>1 DEF Claim, StopOf, seen
<1>6. QED
  BY <1>1, <1>2, <1>3, <1>4, <1>5, StopOperation, StopCancel, StopOthers DEF Next

LEMMA StopAlways == Safe => []StopInv
<1>1. Init => StopInv
  BY DEF Init, StopInv, StopOf
<1>2. QED
  BY <1>1, StopStep, TurnAlways, PTL DEF Safe

-------------------------------------------------------------------------------
(* The theorems.                                                           *)

\* Every reachable state is well typed: the kernel's slot and handle name turns, and
\* no turn begins more attempts or leases than MAX_TURN_ATTEMPTS (fence.ts:26).
THEOREM TurnTypes == Safe => []TypeOK
BY TurnAlways, PTL DEF TurnInv

\* The kernel's slot and the turn machine agree: a cancel can name whatever turn is
\* underway, and a turn can start exactly when there is none (fix-bundle 1.5), on
\* every path of runTurn, its failures and rejections included.
THEOREM SlotAgrees == Safe => []SlotFollowsPhase
<1>1. TurnInv => SlotFollowsPhase
  BY PhasesTyped DEF TurnInv, SlotInv, SlotFollowsPhase
<1>2. QED
  BY <1>1, TurnAlways, PTL

\* A turn moves on from its run only when its agent's process tree is gone, or the
\* backend is latched (turn-durability 6.5), through every retry and fallback.
THEOREM AgentsAreGone == Safe => []AgentIsGone
<1>1. TurnInv => AgentIsGone
  BY DEF TurnInv, RunInv, RunOf, AgentIsGone, TypeOK
<1>2. QED
  BY <1>1, TurnAlways, PTL

\* A cancel accepted before finalization keeps the turn from committing, for any
\* number of attempts, unless it was accepted in running and missed the run: an
\* outcome that lets the turn go on was claimed before, or nobody held its handle.
THEOREM CancelWins == Safe => []CancelPreventsCommit
<1>1. TurnInv /\ StopInv => CancelPreventsCommit
  BY DEF TurnInv, RecordInv, RecordOf, Preventing, StopInv, StopOf, CancelPreventsCommit
<1>2. QED
  BY <1>1, TurnAlways, StopAlways, PTL

\* What the user is shown comes from the attempt that runs (turn-durability 6.4):
\* a retired lease is never the live one again.
THEOREM ShownIsCurrent == Safe => ProgressIsCurrent
<1> DEFINE Current == \A t \in Turn :
       shown'[t] # shown[t] => pc[t] = "run" /\ shown'[t] = leases[t]
<1>1. TurnInv /\ [Next]_vars => [Current]_vars
  <2> SUFFICES ASSUME TurnInv, Next PROVE Current
    OBVIOUS
  <2>1. CASE UNCHANGED shown
    BY <2>1
  <2>2. ASSUME NEW t \in Turn, NEW n \in 1 .. MaxAttempts, Deliver(t, n) PROVE Current
    <3>1. lease[t] = n /\ n # 0 /\ shown' = [shown EXCEPT ![t] = n]
      BY <2>2 DEF Deliver
    <3>2. pc[t] = "run" /\ n = leases[t]
      BY <3>1 DEF TurnInv, RunInv, RunOf
    <3>3. QED
      BY <3>1, <3>2 DEF TurnInv, TypeOK
  <2>3. ASSUME NEW t \in Turn, Operation(t) PROVE UNCHANGED shown
    BY <2>3 DEF Operation, Read, StageWorkspace, RetireWorkspace, Loop, Settle, Fallback,
       Snapshot, ReadManifest, GateRejects, GatePasses, Acknowledge, RetireCandidate, Return,
       Publish, Admit, Finalize, RecordTerminal, seen
  <2>4. ASSUME NEW t \in Turn, Start(t) \/ Cancel(t) \/ ProcessesExit(t) PROVE UNCHANGED shown
    BY <2>4 DEF Start, Cancel, ProcessesExit, seen
  <2>5. ASSUME NEW t \in Turn, NEW outcome \in Natural, Claim(t, outcome)
        PROVE  UNCHANGED shown
    BY <2>5 DEF Claim, seen
  <2> HIDE DEF Current
  <2>6. QED
    BY <2>1, <2>2, <2>3, <2>4, <2>5 DEF Next
<1>2. QED
  BY <1>1, TurnAlways, PTL DEF Safe, ProgressIsCurrent

-------------------------------------------------------------------------------
(* The contract: every step of a turn is a step of TurnContract or none.   *)

\* A step that neither starts, ends, records nor reports anything.
LEMMA ContractStutter ==
  ASSUME TurnInv, NEW t \in Turn, NEW a \in Await \ {"new"}, pc[t] # "new", GoTo(t, a),
         UNCHANGED <<activeTurn, record, event>>
  PROVE  UNCHANGED <<Stage, record, event>>
BY DEF Stage, GoTo, TurnInv, TypeOK

\* What the step of t makes of the stages.
LEMMA StageMoves ==
  ASSUME TurnInv, NEW t \in Turn, activeTurn = t, activeTurn' = NoTurn, pc[t] # "new",
         NEW a \in Await \ {"new"}, GoTo(t, a)
  PROVE  Stage[t] = "active" /\ Stage' = [Stage EXCEPT ![t] = "over"]
BY TurnAssumption DEF Stage, GoTo, TurnInv, TypeOK

LEMMA StageOver ==
  ASSUME TurnInv, NEW t \in Turn, pc[t] \notin Holding \cup {"new"}
  PROVE  Stage[t] = "over"
BY TurnAssumption DEF Stage, TurnInv, SlotInv

LEMMA StageActive ==
  ASSUME TurnInv, NEW t \in Turn, pc[t] \in Holding
  PROVE  Stage[t] = "active" /\ activeTurn = t /\ pc[t] # "new"
BY Holder DEF Stage, Holding

LEMMA ContractInit == Init => Contract!Init
BY TurnAssumption DEF Init, Contract!Init, Stage

LEMMA ContractStart ==
  ASSUME TurnInv, NEW t \in Turn, Start(t) PROVE Contract!Start(t)
<1>1. phase = "idle" /\ activeTurn' = t /\ pc[t] = "new" /\ pc' = [pc EXCEPT ![t] = "read"]
  BY Admission DEF Start, GoTo
<1>2. activeTurn = NoTurn
  BY <1>1, PhasesTyped DEF TurnInv, SlotInv
<1>3. \A u \in Turn : Stage[u] # "active"
  BY <1>2, TurnAssumption DEF Stage
<1>4. Stage[t] = "new" /\ Stage' = [Stage EXCEPT ![t] = "active"]
  BY <1>1, <1>2, TurnAssumption DEF Stage, TurnInv, TypeOK
<1>5. QED
  BY <1>3, <1>4 DEF Contract!Start, Start, disk, seen

LEMMA ContractRead ==
  ASSUME TurnInv, NEW t \in Turn, Read(t)
  PROVE  Contract!Refuse(t) \/ UNCHANGED <<Stage, record, event>>
<1>1. pc[t] = "read" /\ pc[t] \in Holding /\ record[t] = "none"
  BY DEF Read, Holding, Uncommitted, TurnInv, RecordInv, RecordOf
<1>2. CASE GoTo(t, "admit") /\ UNCHANGED <<phase, activeTurn, event>>
  BY <1>1, <1>2, ContractStutter DEF Read, disk, Await
<1>3. CASE /\ activeTurn' = NoTurn /\ event' = [event EXCEPT ![t] = "failed"]
           /\ GoTo(t, "done")
  <2>1. Stage[t] = "active" /\ Stage' = [Stage EXCEPT ![t] = "over"]
    BY <1>1, <1>3, StageActive, StageMoves DEF Await
  <2>2. QED
    BY <1>1, <1>3, <2>1 DEF Contract!Refuse, Read, disk
<1>4. QED
  BY <1>2, <1>3 DEF Read

LEMMA ContractFinalize ==
  ASSUME TurnInv, NEW t \in Turn, NEW result \in StoreResult, Finalize(t, result)
  PROVE  Contract!Commit(t) \/ UNCHANGED <<Stage, record, event>>
<1>1. pc[t] = "finalize" /\ pc[t] \in Holding /\ record[t] = "none"
  BY DEF Finalize, Holding, Uncommitted, TurnInv, RecordInv, RecordOf
<1>2. PICK a \in Await \ {"new"} : GoTo(t, a)
  BY DEF Finalize, TerminalizeAfter, Terminalize, Await
<1>3. UNCHANGED Stage /\ Stage[t] = "active"
  BY <1>1, <1>2, StageActive DEF Stage, GoTo, TurnInv, TypeOK, Finalize
<1>4. QED
  BY <1>1, <1>3 DEF Finalize, Contract!Commit, seen

LEMMA ContractClose ==
  ASSUME TurnInv, NEW t \in Turn,
         Acknowledge(t) \/ \E result \in StoreResult : RecordTerminal(t, result)
  PROVE  Contract!Close(t) \/ UNCHANGED <<Stage, record, event>>
<1>1. pc[t] \in Holding
  BY DEF Acknowledge, RecordTerminal, Holding
<1>2. PICK a \in Await \ {"new"} : GoTo(t, a)
  BY DEF Acknowledge, RecordTerminal, TerminalizeAfter, Terminalize, Await
<1>3. CASE activeTurn' = NoTurn
  <2>1. Stage[t] = "active" /\ Stage' = [Stage EXCEPT ![t] = "over"]
    BY <1>1, <1>2, <1>3, StageActive, StageMoves
  <2>2. UNCHANGED record \/ (record[t] = "none" /\ record' = [record EXCEPT ![t] = "system"])
    <3>1. Acknowledge(t) => UNCHANGED record
      BY DEF Acknowledge, disk
    <3>2. ASSUME NEW result \in StoreResult, RecordTerminal(t, result)
          PROVE  UNCHANGED record \/ (record[t] = "none" /\ record' = [record EXCEPT ![t] = "system"])
      BY <3>2 DEF RecordTerminal, Recordable
    <3>3. QED
      BY <3>1, <3>2
  <2>3. QED
    BY <2>1, <2>2 DEF Contract!Close, Acknowledge, RecordTerminal, seen
<1>4. CASE UNCHANGED <<activeTurn, record>>
  BY <1>1, <1>2, <1>4, ContractStutter, StageActive DEF Acknowledge, RecordTerminal, seen
<1>5. QED
  BY <1>3, <1>4 DEF Acknowledge, RecordTerminal, Released, disk

LEMMA ContractReport ==
  ASSUME TurnInv, NEW t \in Turn, Return(t) \/ Publish(t)
  PROVE  \/ \E e \in {"completed", "failed", "cancelled"} : Contract!Report(t, e)
         \/ UNCHANGED <<Stage, record, event>>
<1>1. pc[t] \in {"return", "publish"} /\ pc[t] \notin Holding \cup {"new"} /\ pc[t] # "done"
  BY DEF Return, Publish, Holding
<1>2. PICK a \in {"publish", "done"} : GoTo(t, a)
  BY DEF Return, Publish
<1>3. UNCHANGED <<Stage, record>> /\ Stage[t] = "over" /\ event[t] = "none"
  BY <1>1, <1>2, StageOver
     DEF Stage, GoTo, TurnInv, TypeOK, RecordInv, RecordOf, Return, Publish, disk, kernel
<1>4. Publish(t) => record[t] = "agent" /\ event' = [event EXCEPT ![t] = "completed"]
  BY DEF Publish, TurnInv, RecordInv, RecordOf
<1>5. Return(t) => \/ UNCHANGED event
                   \/ \E e \in {"failed", "cancelled"} : event' = [event EXCEPT ![t] = e]
  BY DEF Return
<1>6. QED
  BY <1>3, <1>4, <1>5 DEF Contract!Report

LEMMA ContractStep == TurnInv /\ [Next]_vars => [Contract!Next]_<<Stage, record, event>>
<1> SUFFICES ASSUME TurnInv, [Next]_vars
             PROVE  Contract!Next \/ UNCHANGED <<Stage, record, event>>
  BY DEF Contract!vars
<1>1. CASE UNCHANGED vars
  BY <1>1 DEF vars, Stage
<1>2. ASSUME NEW t \in Turn, Start(t) PROVE Contract!Next
  BY <1>2, ContractStart DEF Contract!Next
<1>3. ASSUME NEW t \in Turn,
             Cancel(t) \/ ProcessesExit(t) \/ (\E outcome \in Natural : Claim(t, outcome))
               \/ (\E n \in 1 .. MaxAttempts : Deliver(t, n))
      PROVE  UNCHANGED <<Stage, record, event>>
  BY <1>3 DEF Cancel, ProcessesExit, Claim, Deliver, Stage, kernel, disk, seen
<1>4. ASSUME NEW t \in Turn, Operation(t)
      PROVE  Contract!Next \/ UNCHANGED <<Stage, record, event>>
  <2>1. ASSUME Read(t) PROVE Contract!Next \/ UNCHANGED <<Stage, record, event>>
    BY <2>1, ContractRead DEF Contract!Next
  <2>2. ASSUME NEW result \in StoreResult, Finalize(t, result)
        PROVE  Contract!Next \/ UNCHANGED <<Stage, record, event>>
    BY <2>2, ContractFinalize DEF Contract!Next
  <2>3. ASSUME Acknowledge(t) \/ \E result \in StoreResult : RecordTerminal(t, result)
        PROVE  Contract!Next \/ UNCHANGED <<Stage, record, event>>
    BY <2>3, ContractClose DEF Contract!Next
  <2>4. ASSUME Return(t) \/ Publish(t)
        PROVE  Contract!Next \/ UNCHANGED <<Stage, record, event>>
    BY <2>4, ContractReport DEF Contract!Next
  <2>5. ASSUME StageWorkspace(t) \/ RetireWorkspace(t) \/ Snapshot(t) \/ ReadManifest(t)
                 \/ GateRejects(t) \/ GatePasses(t)
                 \/ (\E result \in StoreResult : Admit(t, result))
        PROVE  UNCHANGED <<Stage, record, event>>
    <3>1. /\ pc[t] # "new" /\ UNCHANGED <<activeTurn, record, event>>
          /\ \E a \in Await \ {"new"} : GoTo(t, a)
      BY <2>5 DEF StageWorkspace, RetireWorkspace, Snapshot, ReadManifest, GateRejects,
         GatePasses, Admit, Reject, TerminalizeAfter, Terminalize, Await, disk, seen
    <3>2. QED
      BY <3>1, ContractStutter
  <2>6. ASSUME Loop(t) \/ Fallback(t) \/ Settle(t)
        PROVE  UNCHANGED <<Stage, record, event>>
    <3>1. pc[t] # "new"
      BY <2>6 DEF Loop, Fallback, Settle, Natural, TurnInv, RunInv, RunOf
    <3>2. UNCHANGED <<activeTurn, record, event>>
      BY <2>6 DEF Loop, Fallback, Settle, disk, seen
    <3>3. \E a \in Await \ {"new"} : GoTo(t, a)
      BY <2>6 DEF Loop, Fallback, Settle, BeginAttempt, Outcome, TerminalizeAfter, Terminalize,
         Await
    <3>4. QED
      BY <3>1, <3>2, <3>3, ContractStutter
  <2>7. ASSUME RetireCandidate(t) PROVE UNCHANGED <<Stage, record, event>>
    BY <2>7, ContractStutter DEF RetireCandidate, Await, disk, seen
  <2>8. QED
    BY <1>4, <2>1, <2>2, <2>3, <2>4, <2>5, <2>6, <2>7 DEF Operation
<1>5. QED
  BY <1>1, <1>2, <1>3, <1>4 DEF Next

\* The kernel keeps its promise about turns: one at a time, at most one terminal
\* record, written while the turn is active, one terminal event after its end, and
\* "completed" only for what was committed (kernel-command-contract 7.2).
THEOREM TurnsKeepTheContract == Safe => ImplementsTurnContract
<1>1. QED
  BY ContractInit, ContractStep, TurnAlways, PTL
     DEF Safe, ImplementsTurnContract, Contract!Spec, Contract!vars
===============================================================================
