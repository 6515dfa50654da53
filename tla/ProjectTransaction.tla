-------------------------- MODULE ProjectTransaction --------------------------
(***************************************************************************)
(* The transaction engine of store/transaction (engine.ts, recovery.ts),   *)
(* as store/model/factory.ts drives it: callers queue on the project-write *)
(* mutex, bind their plan to the current contents, install the journal     *)
(* records payloads -> plan.json -> intent.json one durable write at a     *)
(* time, apply the operations in index order with one applied marker each, *)
(* and install committed.json.  The process may die between any two of     *)
(* these writes; the next launch scans the journal in id order and         *)
(* discards, rolls forward, or stops.                                      *)
(*                                                                         *)
(* One action is one durable effect.  The code between two effects is      *)
(* synchronous, so nothing but a crash or an edit from outside termcraft   *)
(* can come between; the mutex is what keeps other callers away across     *)
(* the awaits.                                                             *)
(***************************************************************************)
EXTENDS TransactionPlan

CONSTANTS NoTxn,        \* no permit is active
          ReadScope,    \* the targets a caller's send-time read set covers;
                        \* empty for a caller without a precondition
          MaxLaunches,  \* bound on the number of launches of one project
          MaxFaults,    \* bound on failing writes
          MaxEdits      \* bound on edits from outside

ASSUME EngineAssumption ==
  /\ NoTxn \notin Txn
  /\ ReadScope \in [Txn -> SUBSET Target]
  /\ MaxLaunches \in Nat
  /\ MaxFaults \in Nat
  /\ MaxEdits \in Nat

VARIABLES
  \* the disk
  content,     \* content of every managed file
  payload,     \* payloads/{id} files present, by operation index
  planned,     \* transactions whose plan.json is present
  old,         \* the old images a transaction's plan records
  intent,      \* transactions whose intent.json is present
  applied,     \* applied/{index}.json markers present
  committed,   \* transactions whose committed.json is present
  conflict,    \* transactions whose conflict.json is present
  \* the process
  up,          \* "down", "recovering", "open", or "blocked" by recovery
  toScan,      \* transaction directories the startup scan has not reached
  active,      \* the mutex: activePermitId
  waiters,     \* the mutex: its FIFO queue
  pc,          \* where each caller or recovery step is
  readSet,     \* the contents a caller captured at send time
  told,        \* what the caller was told, "orphaned" once its process died
               \* without having told it that it committed
  \* bounds
  launches, faults, edits

disk    == <<content, payload, planned, old, intent, applied, committed, conflict>>
mutex   == <<active, waiters>>
process == <<up, toScan, active, waiters, pc, readSet, told>>
bounds  == <<launches, faults, edits>>
vars    == <<content, payload, planned, old, intent, applied, committed, conflict,
             up, toScan, active, waiters, pc, readSet, told, launches, faults, edits>>

Mutex == INSTANCE WriteMutex
           WITH Permit <- Txn, NoPermit <- NoTxn, activePermit <- active

Stage == {"idle", "captured", "queued", "payload", "check", "intent",
          "apply", "mark", "discard", "done"}
Answer == {"none", "committed", "refused", "pending", "conflict", "orphaned"}

\* Stages of a caller that runTransaction is executing.
InEngine == {"payload", "check", "intent", "apply", "mark"}

DiskTypeOK ==
  /\ content \in [Target -> Image]
  /\ payload \in [Txn -> SUBSET Nat]
  /\ \A t \in Txn : payload[t] \subseteq PayloadOps(t)
  /\ planned \subseteq Txn
  /\ old \in [Txn -> [Target -> Image]]
  /\ intent \subseteq Txn
  /\ applied \in [Txn -> SUBSET Nat]
  /\ \A t \in Txn : applied[t] \subseteq Indices(t)
  /\ committed \subseteq Txn
  /\ conflict \subseteq Txn

ProcessTypeOK ==
  /\ up \in {"down", "recovering", "open", "blocked"}
  /\ toScan \subseteq Txn
  /\ active \in Txn \cup {NoTxn}
  /\ waiters \in Seq(Txn)
  /\ pc \in [Txn -> Stage]
  /\ readSet \in [Txn -> [Target -> Image]]
  /\ told \in [Txn -> Answer]

BoundsTypeOK ==
  /\ launches \in 0 .. MaxLaunches
  /\ faults \in 0 .. MaxFaults
  /\ edits \in 0 .. MaxEdits

TypeOK == DiskTypeOK /\ ProcessTypeOK /\ BoundsTypeOK

Init ==
  /\ content \in [Target -> EditImages \cup {Absent}]
  /\ payload = [t \in Txn |-> {}]
  /\ planned = {}
  /\ old = [t \in Txn |-> [x \in Target |-> Absent]]
  /\ intent = {}
  /\ applied = [t \in Txn |-> {}]
  /\ committed = {}
  /\ conflict = {}
  /\ up = "down"
  /\ toScan = {}
  /\ Mutex!Init
  /\ pc = [t \in Txn |-> "idle"]
  /\ readSet = [t \in Txn |-> [x \in Target |-> Absent]]
  /\ told = [t \in Txn |-> "none"]
  /\ launches = 0
  /\ faults = 0
  /\ edits = 0

-------------------------------------------------------------------------------
(* Physical writes.  Every write either succeeds or reports an error; an   *)
(* error may come before or after the effect reached the disk              *)
(* (durableFileWrite: create/write/verify/rename fail before it, the       *)
(* directory flush and the confirming read after it).                      *)

Outcomes == {"ok", "failedBefore", "failedAfter"}

Written(o) == o # "failedBefore"

Charge(o) ==
  \/ /\ o = "ok"
     /\ UNCHANGED faults
  \/ /\ o # "ok"
     /\ faults < MaxFaults
     /\ faults' = faults + 1

\* The caller's permit is active; recovery holds the permit of a mutex of its own.
Permitted(t) == up = "recovering" \/ Mutex!IsActive(t)

\* Mutant of Finish: the scan goes on after a transaction it could not resolve.
FinishScansOn(t, answer) ==
  /\ pc' = [pc EXCEPT ![t] = "done"]
  /\ told' = [told EXCEPT ![t] = IF up = "open" THEN answer ELSE @]
  /\ \/ up = "open" /\ Mutex!Release(t) /\ UNCHANGED <<up, toScan>>
     \/ up = "recovering" /\ toScan' = toScan \ {t} /\ UNCHANGED <<up, active, waiters>>

\* An open project releases the permit; a startup scan reports and stops unless
\* the transaction committed.
Finish(t, answer) ==
  /\ pc' = [pc EXCEPT ![t] = "done"]
  /\ told' = [told EXCEPT ![t] = IF up = "open" THEN answer ELSE @]
  /\ \/ /\ up = "open"
        /\ Mutex!Release(t)
        /\ UNCHANGED <<up, toScan>>
     \/ /\ up = "recovering"
        /\ answer = "committed"
        /\ toScan' = toScan \ {t}
        /\ UNCHANGED <<up, active, waiters>>
     \/ /\ up = "recovering"
        /\ answer # "committed"
        /\ up' = "blocked"
        /\ UNCHANGED <<toScan, active, waiters>>

GoTo(t, stage) ==
  /\ pc' = [pc EXCEPT ![t] = stage]
  /\ UNCHANGED <<up, toScan, active, waiters, told>>

\* Continue on success, otherwise give the caller this answer.
Continue(t, o, stage, answer) ==
  \/ o = "ok" /\ GoTo(t, stage)
  \/ o # "ok" /\ Finish(t, answer)

-------------------------------------------------------------------------------
(* The callers of an open project: factory.ts withPermit around a wrapper  *)
(* of wrappers.ts, which ends in engine.ts runTransaction.                 *)

\* Send time: a turn records the contents its finalization will depend on.
Capture(t) ==
  /\ up = "open"
  /\ pc[t] = "idle"
  /\ ReadScope[t] # {}
  /\ readSet' = [readSet EXCEPT ![t] = content]
  /\ GoTo(t, "captured")
  /\ UNCHANGED <<disk, bounds>>

Request(t) ==
  /\ up = "open"
  /\ pc[t] = IF ReadScope[t] = {} THEN "idle" ELSE "captured"
  /\ Mutex!Acquire(t)
  /\ pc' = [pc EXCEPT ![t] = "queued"]
  /\ UNCHANGED <<disk, bounds, up, toScan, readSet, told>>

\* A log with an incomplete last line is locked against appends.
LogLocked(t) == \E i \in Indices(t) :
  OpMode(t, i) = "append" /\ HasTornTail(content[OpTarget(t, i)])

\* Mutant of BindPlan: the plan is bound before the permit is granted.
BindPlanUnguarded(t) ==
  /\ pc[t] = "queued"
  /\ ~LogLocked(t)
  /\ old' = [old EXCEPT ![t] = content]
  /\ GoTo(t, "payload")
  /\ UNCHANGED <<content, payload, planned, intent, applied, committed, conflict,
                 readSet, bounds>>

\* The wrapper observes every target and builds its operations on top of it.
BindPlan(t) ==
  /\ pc[t] = "queued"
  /\ Mutex!IsActive(t)
  /\ \/ /\ LogLocked(t)
        /\ Finish(t, "refused")
        /\ UNCHANGED old
     \/ /\ ~LogLocked(t)
        /\ old' = [old EXCEPT ![t] = content]
        /\ GoTo(t, "payload")
  /\ UNCHANGED <<content, payload, planned, intent, applied, committed, conflict,
                 readSet, bounds>>

InstallPayload(t, i, o) ==
  /\ pc[t] = "payload"
  /\ Permitted(t)
  /\ i \in PayloadOps(t) \ payload[t]
  /\ \A j \in PayloadOps(t) \ payload[t] : i <= j
  /\ Charge(o)
  /\ payload' = [payload EXCEPT ![t] = IF Written(o) THEN @ \cup {i} ELSE @]
  /\ Continue(t, o, "payload", "refused")
  /\ UNCHANGED <<content, planned, old, intent, applied, committed, conflict,
                 readSet, launches, edits>>

InstallPlan(t, o) ==
  /\ pc[t] = "payload"
  /\ Permitted(t)
  /\ PayloadOps(t) \subseteq payload[t]
  /\ Charge(o)
  /\ planned' = IF Written(o) THEN planned \cup {t} ELSE planned
  /\ Continue(t, o, "check", "refused")
  /\ UNCHANGED <<content, payload, old, intent, applied, committed, conflict,
                 readSet, launches, edits>>

\* Mutant of ReadSetHolds: the send-time read set is not checked.
ReadSetIgnored(t) == TRUE

\* buildFinalizeCasPrecondition: the send-time read set still holds.
ReadSetHolds(t) == \A x \in ReadScope[t] : content[x] = readSet[t][x]

CheckPrecondition(t) ==
  /\ pc[t] = "check"
  /\ Permitted(t)
  /\ \/ ReadSetHolds(t) /\ GoTo(t, "intent")
     \/ ~ReadSetHolds(t) /\ Finish(t, "refused")
  /\ UNCHANGED <<disk, readSet, bounds>>

\* Mutant of InstallIntent: its write's error is ignored.
InstallIntentUnchecked(t, o) ==
  /\ pc[t] = "intent"
  /\ Permitted(t)
  /\ Charge(o)
  /\ intent' = IF Written(o) THEN intent \cup {t} ELSE intent
  /\ GoTo(t, "apply")
  /\ UNCHANGED <<content, payload, planned, old, applied, committed, conflict,
                 readSet, launches, edits>>

\* The point of no rollback.  A failing write is reported like any error
\* before intent, whether or not intent.json reached the disk.
InstallIntent(t, o) ==
  /\ pc[t] = "intent"
  /\ Permitted(t)
  /\ Charge(o)
  /\ intent' = IF Written(o) THEN intent \cup {t} ELSE intent
  /\ Continue(t, o, "apply", "refused")
  /\ UNCHANGED <<content, payload, planned, old, applied, committed, conflict,
                 readSet, launches, edits>>

-------------------------------------------------------------------------------
(* engine.ts rollForwardTransaction, shared by a caller and by recovery.   *)

New(t, i)      == NewImage(t, i, old[t][OpTarget(t, i)])
Observed(t, i) == content[OpTarget(t, i)]

\* The first operation without an applied marker.
IsNext(t, i) ==
  /\ i \in Indices(t) \ applied[t]
  /\ \A j \in Indices(t) \ applied[t] : i <= j

\* Mutants of IsOld: a torn append is a mismatch; anything may be overwritten.
IsOldExactly(t, i)  == Observed(t, i) = old[t][OpTarget(t, i)]
IsOldWhatever(t, i) == TRUE

\* The planned old image, or an interrupted append of this very transaction.
IsOld(t, i) ==
  \/ Observed(t, i) = old[t][OpTarget(t, i)]
  \/ /\ OpMode(t, i) = "append"
     /\ Observed(t, i) = TornImage(t, old[t][OpTarget(t, i)])

\* The new image is there already: an earlier, unacknowledged installation.
AlreadyApplied(t, i) ==
  /\ pc[t] = "apply"
  /\ Permitted(t)
  /\ IsNext(t, i)
  /\ Observed(t, i) = New(t, i)
  /\ GoTo(t, "mark")
  /\ UNCHANGED <<disk, readSet, bounds>>

\* Mutant of Apply: an append does not look for its own records first.
ApplyBlindly(t, i, o) ==
  /\ pc[t] = "apply"
  /\ Permitted(t)
  /\ IsNext(t, i)
  /\ Charge(o)
  /\ content' = IF Written(o)
                THEN [content EXCEPT ![OpTarget(t, i)] = NewImage(t, i, Observed(t, i))]
                ELSE content
  /\ Continue(t, o, "mark", "pending")
  /\ UNCHANGED <<payload, planned, old, intent, applied, committed, conflict,
                 readSet, launches, edits>>

Apply(t, i, o) ==
  /\ pc[t] = "apply"
  /\ Permitted(t)
  /\ IsNext(t, i)
  /\ Observed(t, i) # New(t, i)
  /\ IsOld(t, i)
  /\ Charge(o)
  /\ content' = IF Written(o)
                THEN [content EXCEPT ![OpTarget(t, i)] = New(t, i)]
                ELSE content
  /\ Continue(t, o, "mark", "pending")
  /\ UNCHANGED <<payload, planned, old, intent, applied, committed, conflict,
                 readSet, launches, edits>>

\* Neither image: never overwrite.  The conflict marker itself may fail.
Mismatch(t, i) ==
  /\ pc[t] = "apply"
  /\ Permitted(t)
  /\ IsNext(t, i)
  /\ Observed(t, i) # New(t, i)
  /\ ~IsOld(t, i)
  /\ \/ conflict' = conflict \cup {t} /\ UNCHANGED faults
     \/ UNCHANGED conflict /\ Charge("failedBefore")
  /\ Finish(t, "conflict")
  /\ UNCHANGED <<content, payload, planned, old, intent, applied, committed,
                 readSet, launches, edits>>

Mark(t, i, o) ==
  /\ pc[t] = "mark"
  /\ IsNext(t, i)
  /\ Charge(o)
  /\ applied' = [applied EXCEPT ![t] = IF Written(o) THEN @ \cup {i} ELSE @]
  /\ Continue(t, o, "apply", "pending")
  /\ UNCHANGED <<content, payload, planned, old, intent, committed, conflict,
                 readSet, launches, edits>>

AllApplied(t) == Indices(t) \subseteq applied[t]
Realized(t)   == \A i \in Indices(t) : Observed(t, i) = New(t, i)

\* Mutant of Commit: acknowledged although the marker's write failed.
CommitAcknowledged(t, o) ==
  /\ pc[t] = "apply"
  /\ Permitted(t)
  /\ AllApplied(t)
  /\ Realized(t)
  /\ Charge(o)
  /\ committed' = IF Written(o) THEN committed \cup {t} ELSE committed
  /\ Finish(t, "committed")
  /\ UNCHANGED <<content, payload, planned, old, intent, applied, conflict,
                 readSet, launches, edits>>

\* verifyRealizedOperations, then committed.json.
Commit(t, o) ==
  /\ pc[t] = "apply"
  /\ Permitted(t)
  /\ AllApplied(t)
  /\ Realized(t)
  /\ Charge(o)
  /\ committed' = IF Written(o) THEN committed \cup {t} ELSE committed
  /\ Finish(t, IF o = "ok" THEN "committed" ELSE "pending")
  /\ UNCHANGED <<content, payload, planned, old, intent, applied, conflict,
                 readSet, launches, edits>>

\* A target changed after its marker: an error, without a conflict marker.
VerifyFails(t) ==
  /\ pc[t] = "apply"
  /\ AllApplied(t)
  /\ ~Realized(t)
  /\ Finish(t, "conflict")
  /\ UNCHANGED <<disk, readSet, bounds>>

-------------------------------------------------------------------------------
(* Process death and launch.                                               *)

\* Everything in memory is gone.  A caller in flight never learns its outcome, and
\* one that was told of a failure takes that answer with it: what its transaction
\* left in the journal is the next launch's to decide.
Die ==
  /\ up' = "down"
  /\ toScan' = {}
  /\ active' = NoTxn
  /\ waiters' = << >>
  /\ pc' = [t \in Txn |-> IF pc[t] = "idle" THEN "idle" ELSE "done"]
  /\ told' = [t \in Txn |-> IF pc[t] = "idle" \/ told[t] = "committed"
                            THEN told[t] ELSE "orphaned"]
  /\ UNCHANGED readSet

CanRelaunch == launches < MaxLaunches

Crash ==
  /\ up # "down"
  /\ CanRelaunch
  /\ Die
  /\ UNCHANGED <<disk, bounds>>

\* An append to an existing log is truncate-and-write in place, so it can stop
\* half way: the process dies, or the write reports an error.
TearAppend(t, i) ==
  /\ pc[t] = "apply"
  /\ Permitted(t)
  /\ IsNext(t, i)
  /\ OpMode(t, i) = "append"
  /\ Observed(t, i) # Absent
  /\ Observed(t, i) # New(t, i)
  /\ IsOld(t, i)
  /\ content' = [content EXCEPT ![OpTarget(t, i)] = TornImage(t, old[t][OpTarget(t, i)])]
  /\ \/ CanRelaunch /\ Die /\ UNCHANGED faults
     \/ Charge("failedAfter") /\ Finish(t, "pending") /\ UNCHANGED readSet
  /\ UNCHANGED <<payload, planned, old, intent, applied, committed, conflict,
                 launches, edits>>

\* A transaction directory holds something.
Journaled(t) == payload[t] # {} \/ t \in planned

\* openProject: take the lease, list the transaction directories.
Launch ==
  /\ up \in {"down", "blocked"}
  /\ CanRelaunch
  /\ launches' = launches + 1
  /\ up' = "recovering"
  /\ toScan' = {t \in Txn : Journaled(t)}
  /\ UNCHANGED <<disk, mutex, pc, readSet, told, faults, edits>>

OpenProject ==
  /\ up = "recovering"
  /\ toScan = {}
  /\ up' = "open"
  /\ UNCHANGED <<disk, mutex, pc, readSet, told, toScan, bounds>>

-------------------------------------------------------------------------------
(* recovery.ts recoverTransactions: one directory after the other in id    *)
(* order, stopping at the first that cannot be resolved.                   *)

\* The scan has reached t and is not yet acting on it.
Reached(t) ==
  /\ up = "recovering"
  /\ t \in toScan
  /\ \A u \in toScan : t <= u
  /\ pc[t] \notin {"apply", "mark", "discard"}

PayloadsComplete(t) == PayloadOps(t) \subseteq payload[t]

\* Mutant of IsCorrupt: a transaction interrupted before its plan.
IsCorruptUnplanned(t) == t \notin planned

\* Mutant of IsDiscarded: an intent none of whose operations is applied yet.
IsDiscardedUnapplied(t) == t \notin committed \cup conflict /\ applied[t] = {}

\* classifyTransaction, in its order of precedence.
IsComplete(t)   == t \in planned /\ t \in committed
IsConflict(t)   == t \notin committed /\ t \in conflict
IsUndecided(t)  == t \notin committed \cup conflict
IsCorrupt(t)    == \/ t \in committed /\ t \notin planned
                   \/ IsUndecided(t) /\ t \in intent /\ t \notin planned
                   \/ IsUndecided(t) /\ t \in planned /\ ~PayloadsComplete(t)
IsIntended(t)   == IsUndecided(t) /\ ~IsCorrupt(t) /\ t \in intent
IsDiscarded(t)  == IsUndecided(t) /\ ~IsCorrupt(t) /\ t \notin intent

Recognize(t) ==
  /\ Reached(t)
  /\ IsComplete(t)
  /\ toScan' = toScan \ {t}
  /\ UNCHANGED <<disk, up, mutex, pc, readSet, told, bounds>>

StopAt(t) ==
  /\ Reached(t)
  /\ IsConflict(t) \/ IsCorrupt(t)
  /\ up' = "blocked"
  /\ UNCHANGED <<disk, toScan, mutex, pc, readSet, told, bounds>>

RollForward(t) ==
  /\ Reached(t)
  /\ IsIntended(t)
  /\ GoTo(t, "apply")
  /\ UNCHANGED <<disk, readSet, bounds>>

Discard(t) ==
  /\ Reached(t)
  /\ IsDiscarded(t)
  /\ GoTo(t, "discard")
  /\ UNCHANGED <<disk, readSet, bounds>>

\* rmSync(recursive) unlinks one entry after the other, in no promised order,
\* and may stop with an error.
RemoveEntry(t) ==
  /\ pc[t] = "discard"
  /\ \/ /\ \E i \in payload[t] : payload' = [payload EXCEPT ![t] = @ \ {i}]
        /\ UNCHANGED planned
     \/ /\ t \in planned
        /\ planned' = planned \ {t}
        /\ UNCHANGED payload
  /\ UNCHANGED <<content, old, intent, applied, committed, conflict, process, bounds>>

FinishDiscard(t) ==
  /\ pc[t] = "discard"
  /\ \/ /\ ~Journaled(t)
        /\ toScan' = toScan \ {t}
        /\ UNCHANGED <<up, faults>>
     \/ /\ Charge("failedBefore")
        /\ up' = "blocked"
        /\ UNCHANGED toScan
  /\ pc' = [pc EXCEPT ![t] = "done"]
  /\ UNCHANGED <<disk, mutex, readSet, told, launches, edits>>

-------------------------------------------------------------------------------
\* Somebody edits a managed file while termcraft runs, or while it does not.
Edit ==
  /\ edits < MaxEdits
  /\ \E x \in Target, image \in EditImages :
       content' = [content EXCEPT ![x] = image]
  /\ edits' = edits + 1
  /\ UNCHANGED <<payload, planned, old, intent, applied, committed, conflict,
                 process, launches, faults>>

CallerStep(t) ==
  \/ Capture(t) \/ Request(t) \/ BindPlan(t) \/ CheckPrecondition(t)
  \/ \E o \in Outcomes :
       \/ \E i \in PayloadOps(t) : InstallPayload(t, i, o)
       \/ InstallPlan(t, o)
       \/ InstallIntent(t, o)

RollStep(t) ==
  \/ \E i \in Indices(t) : AlreadyApplied(t, i) \/ Mismatch(t, i) \/ TearAppend(t, i)
  \/ \E o \in Outcomes :
       \/ \E i \in Indices(t) : Apply(t, i, o) \/ Mark(t, i, o)
       \/ Commit(t, o)
  \/ VerifyFails(t)

ScanStep(t) ==
  \/ Recognize(t) \/ StopAt(t) \/ RollForward(t) \/ Discard(t)
  \/ RemoveEntry(t) \/ FinishDiscard(t)

ProcessStep == OpenProject \/ \E t \in Txn : CallerStep(t) \/ RollStep(t) \/ ScanStep(t)

Next == ProcessStep \/ Launch \/ Crash \/ Edit

\* The process runs its code to the end, and a closed project is reopened.
Fairness == WF_vars(ProcessStep) /\ WF_vars(up = "down" /\ Launch)

Spec == Init /\ [][Next]_vars /\ Fairness

-------------------------------------------------------------------------------
(* Properties.                                                             *)

\* Write-ahead rule: nothing a transaction writes reaches a managed file before
\* its intent.json is on disk (engine.ts: "the point of no rollback - no target
\* has changed yet"), whatever crashed or failed in between.
WriteAhead == \A x \in Target : \A n \in DOMAIN content[x] :
  content[x][n].by \in intent \cup {Outside}

\* An intended transaction can always be rolled forward: its plan and every
\* payload are still on disk, so no discard ever removes them.
IntentReplayable == \A t \in intent : t \in planned /\ PayloadsComplete(t)

\* Exactly-once append (turn-durability 4.4): over crashes, failed writes and
\* repeated recovery, no transaction shows up twice in a file, and a torn line
\* is never buried under later records.
AppendOnce == \A x \in Target : \A m, n \in DOMAIN content[x] :
  /\ content[x][m].by = content[x][n].by /\ content[x][m].by # Outside => m = n
  /\ m < n => content[x][m].whole

\* The FIFO mutex and recovery's turn before it keep two transactions from
\* being between their plan and their answer at the same time.
OneAtATime == \A t, u \in Txn :
  pc[t] \in InEngine \cup {"discard"} /\ pc[u] \in InEngine \cup {"discard"} => t = u

\* An open project has no undecided transaction of an earlier process: whatever an
\* earlier process left behind with its intent on disk is committed, whether its
\* caller was never answered or was told "pending", "conflict" or "refused".  Only
\* callers of the running process may know of an intent that is not committed.
OpenMeansDecided == up = "open" => \A t \in intent \ committed : told[t] # "orphaned"

\* A caller that was told "committed" is committed, and every one of its
\* operations carries its marker, so later recoveries leave it alone.
AnswerIsDurable == \A t \in Txn :
  told[t] = "committed" => t \in committed /\ AllApplied(t) /\ t \in planned

\* Send-time compare-and-swap (turn-durability 7.5): what a guarded caller
\* commits replaces exactly what it read when it was sent, as long as nobody edits
\* the project.  One edit that restores a file between the binding of the plan and
\* the check defeats it, when recovery then completes a pending transaction first.
CommitsOverWhatItRead == edits = 0 =>
  \A t \in committed : \A x \in ReadScope[t] \cap Targets(t) :
    old[t][x] = readSet[t][x]

\* A managed file is only ever overwritten by a transaction whose plan recorded
\* the very content it replaces ("never overwrite", turn-durability 4.6): an
\* outside edit between plan and application survives.
EditsSurvive == [][\A x \in Target :
  content'[x] # content[x] /\ edits' = edits =>
    \E t \in intent : /\ x \in Targets(t)
                      /\ content[x] \in {old[t][x], TornImage(t, old[t][x])}]_vars

\* A journal a startup scan refuses: plan.json without all its payloads.
Damaged == \E t \in Txn : t \in planned /\ ~PayloadsComplete(t) /\ t \notin committed

\* Recovery stops only for an outside edit, a failed write, or a journal that
\* an interrupted discard left behind.
BlockedForCause == up = "blocked" => faults > 0 \/ edits > 0 \/ Damaged

\* The project as its committed transactions left it: an intended transaction
\* that has not committed is taken back out.
Unfinished(x) == {t \in intent \ committed : x \in Targets(t) /\
                    content[x] \in {New(t, OpOn(t, x)), TornImage(t, old[t][x])}}
CommittedView == [x \in Target |-> IF Unfinished(x) = {} THEN content[x]
                                   ELSE old[CHOOSE t \in Unfinished(x) : TRUE][x]]

\* All or nothing, exactly once, in one serial order (crash-harness.ts:22-23: a
\* crash at any boundary leaves the old or the new state): without outside edits
\* and failing writes, the engine implements the atomic store across crashes.
Atomic == INSTANCE AtomicStore WITH store <- CommittedView, done <- committed
ImplementsAtomicStore == Atomic!Spec

\* Once intent.json is durable the transaction commits, however often the
\* process dies, unless an interrupted discard keeps recovery from reaching it.
IntentCommits == \A t \in Txn : t \in intent ~> t \in committed \/ Damaged

\* Nobody queues on the write mutex forever.
EveryCallerLeaves == \A t \in Txn : pc[t] = "queued" ~> pc[t] = "done"
===============================================================================
