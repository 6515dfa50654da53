---------------------- MODULE TransactionAtomicityProofs ----------------------
(***************************************************************************)
(* What the order of the engine's durable writes is for: outside edits are *)
(* never overwritten, recovery only stops for a cause, and without outside *)
(* edits and failing writes the engine is the atomic store of AtomicStore, *)
(* however often the process dies.                                         *)
(***************************************************************************)
EXTENDS ProjectTransactionProofs

-------------------------------------------------------------------------------
(* A managed file changes under an applied operation, a torn append, or an *)
(* outside edit, and the first two look at what they replace.              *)

LEMMA TargetOfOperation ==
  ASSUME NEW t \in Txn, NEW i \in Indices(t)
  PROVE  OpTarget(t, i) \in Target /\ OpTarget(t, i) \in Targets(t)
BY OpsTyped DEF Targets

\* The engine never overwrites what its plan has not recorded: whenever a step
\* other than an outside edit changes a managed file, an intended transaction
\* recorded the replaced content as its old image, or left its own torn append
\* on top of it.
THEOREM EditsAreKept == Spec => EditsSurvive
<1> DEFINE Kept == \A x \in Target :
             content'[x] # content[x] /\ edits' = edits =>
               \E t \in intent : /\ x \in Targets(t)
                                 /\ content[x] \in {old[t][x], TornImage(t, old[t][x])}
<1>1. TypeOK /\ JournalInv /\ [Next]_vars => Kept
  <2> SUFFICES ASSUME TypeOK, JournalInv, [Next]_vars,
                      NEW x \in Target, content'[x] # content[x], edits' = edits
               PROVE  \E t \in intent : /\ x \in Targets(t)
                                        /\ content[x] \in {old[t][x], TornImage(t, old[t][x])}
    OBVIOUS
  <2> USE DEF TypeOK, DiskTypeOK, BoundsTypeOK
  <2>1. ASSUME NEW t \in Txn, NEW i \in Indices(t), NEW image,
               pc[t] = "apply", IsOld(t, i),
               content' = [content EXCEPT ![OpTarget(t, i)] = image]
        PROVE  \E u \in intent : /\ x \in Targets(u)
                                 /\ content[x] \in {old[u][x], TornImage(u, old[u][x])}
    <3>1. t \in intent
      BY <2>1 DEF JournalInv
    <3>2. x = OpTarget(t, i)
      BY <2>1
    <3>3. content[x] \in {old[t][x], TornImage(t, old[t][x])}
      BY <2>1, <3>2 DEF IsOld, Observed
    <3>4. QED
      BY <3>1, <3>2, <3>3, TargetOfOperation
  <2>2. ASSUME NEW t \in Txn, RollStep(t)
        PROVE  \E i \in Indices(t) : \E image :
                 /\ pc[t] = "apply"
                 /\ IsOld(t, i)
                 /\ content' = [content EXCEPT ![OpTarget(t, i)] = image]
    BY <2>2 DEF RollStep, AlreadyApplied, Mismatch, TearAppend, Apply, Mark, Commit,
                VerifyFails, disk
  <2>3. ASSUME NEW t \in Txn, CallerStep(t) PROVE content' = content
    BY <2>3 DEF CallerStep, Capture, Request, BindPlan, CheckPrecondition, InstallPayload,
                InstallPlan, InstallIntent, disk
  <2>4. ASSUME NEW t \in Txn, ScanStep(t) PROVE content' = content
    BY <2>4 DEF ScanStep, Recognize, StopAt, RollForward, Discard, RemoveEntry,
                FinishDiscard, disk
  <2>5. CASE OpenProject \/ Launch \/ Crash \/ UNCHANGED vars
    BY <2>5 DEF OpenProject, Launch, Crash, vars, disk
  <2>6. CASE Edit
    BY <2>6 DEF Edit
  <2>7. QED
    BY <2>1, <2>2, <2>3, <2>4, <2>5, <2>6 DEF Next, ProcessStep
<1>2. Spec => [](TypeOK /\ JournalInv)
  BY TypeCorrect, ScanAlways, PTL
<1> HIDE DEF Kept
<1>3. Spec => [][Kept]_vars
  BY <1>1, <1>2, PTL DEF Spec
<1>4. QED
  BY <1>3, PTL DEF Kept, EditsSurvive

-------------------------------------------------------------------------------
(* The calm project: no write has failed and nobody has edited a file.     *)
(* Then at most one transaction is intended and not committed, every file  *)
(* it writes is in one of the three states recovery understands, and the   *)
(* plan of a caller on its way to its intent is still true of the files.   *)

Calm == faults = 0 /\ edits = 0

Undone == intent \ committed

\* The old image, the new one, or an interrupted append of the transaction.
Understood(t, i) == Observed(t, i) = New(t, i) \/ IsOld(t, i)

RollInv == \A t \in Undone : \A i \in Indices(t) :
  /\ Understood(t, i)
  /\ i \in applied[t] => Observed(t, i) = New(t, i)
  /\ pc[t] = "mark" /\ IsNext(t, i) => Observed(t, i) = New(t, i)

CalmPart ==
  /\ conflict = {}
  /\ \A t, u \in Undone : t = u
  /\ up = "open" => \A t \in Undone : pc[t] \in {"apply", "mark"}
  /\ \A t \in Txn : pc[t] \in {"payload", "check", "intent"} => old[t] = content
  /\ RollInv
  /\ up = "blocked" => Damaged

CalmInv ==
  /\ \A t \in Txn : pc[t] \in {"apply", "mark"} => t \notin committed
  /\ \A t \in Txn \ intent : applied[t] = {}
  /\ Calm => CalmPart

\* As long as nobody edits, what a transaction intends to replace is what its
\* caller read at send time.
ReadInv == edits = 0 =>
  \A t \in Txn :
    /\ pc[t] \in {"payload", "check", "intent"} => old[t] = content
    /\ t \in intent \/ pc[t] = "intent" =>
         \A x \in ReadScope[t] : old[t][x] = readSet[t][x]

\* What the earlier proofs provide at every step.
Base == TypeOK /\ JournalInv /\ OwnerInv /\ ScanInv

LEMMA BaseAlways == Spec => []Base
<1>1. Spec => []OwnerInv
  BY TypeCorrect, OwnerInit, OwnerStep, PTL DEF Spec
<1>2. QED
  BY <1>1, TypeCorrect, ScanAlways, PTL DEF Base

LEMMA OwnerUnique ==
  ASSUME OwnerInv, NEW t \in Txn, NEW u \in Txn, pc[t] \in Working, pc[u] \in Working
  PROVE  t = u
BY PlanAssumption DEF OwnerInv, Owns

\* An operation has its target for itself, and there is one next operation.
LEMMA OneOperation ==
  ASSUME NEW t \in Txn, NEW i \in Indices(t), NEW j \in Indices(t)
  PROVE  /\ OpTarget(t, i) = OpTarget(t, j) => i = j
         /\ IsNext(t, i) /\ IsNext(t, j) => i = j
<1>1. OpTarget(t, i) = OpTarget(t, j) => i = j
  BY PlanAssumption DEF OpTarget, Indices
<1>2. i \in Nat /\ j \in Nat
  BY OpsTyped
<1>3. IsNext(t, i) /\ IsNext(t, j) => i = j
  BY <1>2 DEF IsNext
<1>4. QED
  BY <1>1, <1>3

LEMMA CalmInit == Init => CalmInv /\ ReadInv
BY DEF Init, CalmInv, CalmPart, RollInv, Undone, ReadInv

\* Nobody but the transaction at work is intended and not committed.
LEMMA UndoneAtWork ==
  ASSUME Base, CalmInv, Calm, NEW t \in Txn, up = "open",
         pc[t] \in Working \/ active = t, NEW u \in Undone
  PROVE  u = t /\ pc[t] \in {"apply", "mark"}
<1>1. u \in Txn /\ pc[u] \in {"apply", "mark"}
  BY DEF Base, TypeOK, DiskTypeOK, Undone, CalmInv, CalmPart
<1>2. CASE pc[t] \in Working
  BY <1>1, <1>2, OwnerUnique DEF Base, Working, InEngine
<1>3. CASE active = t
  BY <1>1, <1>3 DEF Base, OwnerInv, Owns, Working, InEngine
<1>4. QED
  BY <1>1, <1>2, <1>3

\* A step that leaves the files, the plans and the markers alone.
LEMMA RollFrame ==
  ASSUME RollInv, UNCHANGED <<content, old, applied>>, Undone' \subseteq Undone,
         \A t \in Undone' : pc'[t] = "mark" => pc[t] = "mark"
  PROVE  RollInv'
BY DEF RollInv, Understood, IsOld, Observed, New, IsNext

LEMMA CalmCharge ==
  ASSUME BoundsTypeOK, NEW o \in Outcomes, Charge(o), faults' = 0
  PROVE  o = "ok" /\ faults = 0
BY EngineAssumption DEF BoundsTypeOK, Charge

LEMMA CalmCaller ==
  ASSUME Base, CalmInv, NEW t \in Txn, CallerStep(t)
  PROVE  CalmInv'
<1> USE DEF Base, TypeOK, DiskTypeOK, ProcessTypeOK
<1>0. /\ UNCHANGED <<content, applied, committed, conflict, edits>>
      /\ \A u \in Txn \ {t} : pc'[u] = pc[u]
      /\ intent \subseteq intent'
      /\ pc[t] \in {"idle", "captured", "queued", "payload", "check", "intent"}
  BY DEF CallerStep, Capture, Request, BindPlan, CheckPrecondition, InstallPayload,
         InstallPlan, InstallIntent, Continue, GoTo, Finish, disk, bounds
<1>a. up = "open" /\ up' = "open"
  <2>1. t # NoTxn
    BY EngineAssumption
  <2>2. active = t => up = "open"
    BY <2>1 DEF OwnerInv
  <2>3. pc[t] \in {"payload", "check", "intent"} => up = "open"
    BY DEF OwnerInv, Owns, Working, InEngine
  <2>4. QED
    BY <2>2, <2>3
       DEF CallerStep, Capture, Request, BindPlan, CheckPrecondition, InstallPayload,
           InstallPlan, InstallIntent, Continue, GoTo, Finish, Mutex!IsActive, disk
<1>1. t \notin intent
  BY <1>0 DEF JournalInv, BeforeIntent
<1>2. \A u \in Txn : pc'[u] \in {"apply", "mark"} => u \notin committed'
  BY <1>0, <1>1 DEF CalmInv, JournalInv
<1>3. \A u \in Txn \ intent' : applied'[u] = {}
  BY <1>0 DEF CalmInv
<1>4. ASSUME Calm' PROVE CalmPart'
  <2>0. BoundsTypeOK
    BY DEF TypeOK
  <2>1. Calm
    BY <1>0, <1>4, <2>0, CalmCharge
       DEF Calm, CallerStep, Capture, Request, BindPlan, CheckPrecondition,
           InstallPayload, InstallPlan, InstallIntent, bounds
  <2>2. CalmPart
    BY <2>1 DEF CalmInv
  \* A step of a caller whose intent is not written.
  <2>3. ASSUME UNCHANGED <<old, intent>>,
               pc'[t] \in {"payload", "check", "intent"} =>
                 pc[t] \in {"payload", "check", "intent"},
               pc'[t] # "mark"
        PROVE  CalmPart'
    <3>1. RollInv'
      BY <1>0, <1>1, <2>2, <2>3, RollFrame DEF CalmPart, Undone
    <3>2. QED
      BY <1>0, <1>a, <1>1, <2>2, <2>3, <3>1 DEF CalmPart, Undone
  <2>4. CASE Capture(t) \/ Request(t) \/ CheckPrecondition(t)
    BY <2>3, <2>4 DEF Capture, Request, CheckPrecondition, GoTo, Finish, disk
  <2>5. CASE BindPlan(t)
    <3>1. CASE Finish(t, "refused") /\ UNCHANGED old
      BY <2>3, <2>5, <3>1 DEF BindPlan, Finish
    <3>2. CASE old' = [old EXCEPT ![t] = content] /\ GoTo(t, "payload")
      <4>1. Undone = {} /\ Undone' = {}
        BY <1>a, <1>0, <2>1, <2>5, UndoneAtWork DEF BindPlan, Mutex!IsActive, Undone
      <4>2. \A u \in Txn \ {t} : pc[u] \notin {"payload", "check", "intent"}
        BY <1>a, <2>5 DEF BindPlan, Mutex!IsActive, OwnerInv, Owns, Working, InEngine
      <4>3. QED
        BY <1>0, <1>a, <2>2, <3>2, <4>1, <4>2 DEF CalmPart, RollInv
    <3>3. QED
      BY <2>5, <3>1, <3>2 DEF BindPlan
  <2>6. ASSUME NEW o \in Outcomes, NEW i \in PayloadOps(t), InstallPayload(t, i, o)
        PROVE  CalmPart'
    BY <2>3, <2>6 DEF InstallPayload, Continue, GoTo, Finish
  <2>7. ASSUME NEW o \in Outcomes, InstallPlan(t, o)
        PROVE  CalmPart'
    BY <2>3, <2>7 DEF InstallPlan, Continue, GoTo, Finish
  <2>8. ASSUME NEW o \in Outcomes, InstallIntent(t, o)
        PROVE  CalmPart'
    <3>1. o = "ok"
      BY <1>4, <2>0, <2>8, CalmCharge DEF InstallIntent, Calm
    <3>2. GoTo(t, "apply") /\ intent' = intent \cup {t} /\ pc[t] = "intent" /\ old' = old
      BY <2>8, <3>1 DEF InstallIntent, Continue, Written
    <3>3. Undone = {}
      BY <1>a, <2>1, <3>2, UndoneAtWork DEF Working, InEngine
    <3>4. Undone' \subseteq {t}
      BY <1>0, <3>2, <3>3 DEF Undone
    <3>5. pc'[t] = "apply"
      BY <3>2 DEF GoTo
    <3>6. ASSUME NEW i \in Indices(t) PROVE (Understood(t, i))' /\ i \notin applied'[t]
      <4>1. content'[OpTarget(t, i)] = old'[t][OpTarget(t, i)]
        BY <1>0, <2>2, <3>2 DEF CalmPart
      <4>2. applied'[t] = {}
        BY <1>0, <1>1 DEF CalmInv
      <4>3. QED
        BY <4>1, <4>2 DEF Understood, IsOld, Observed
    <3>7. RollInv'
      BY <3>4, <3>5, <3>6 DEF RollInv
    <3>8. QED
      BY <1>0, <1>a, <2>2, <3>2, <3>4, <3>5, <3>7 DEF CalmPart
  <2>9. QED
    BY <2>4, <2>5, <2>6, <2>7, <2>8 DEF CallerStep
<1>5. QED
  BY <1>2, <1>3, <1>4 DEF CalmInv

\* Recovery or a caller replays the one transaction that is left undone.
LEMMA CalmRoll ==
  ASSUME Base, CalmInv, NEW t \in Txn, RollStep(t)
  PROVE  CalmInv'
<1> USE DEF Base, TypeOK, DiskTypeOK, ProcessTypeOK
<1>0. /\ UNCHANGED <<payload, planned, old, intent, edits>>
      /\ pc[t] \in {"apply", "mark"}
      /\ t \in Undone
      /\ committed' \subseteq committed \cup {t}
      /\ committed \subseteq committed'
      /\ pc'[t] # "idle" /\ pc'[t] \notin {"payload", "check", "intent"}
      /\ \A u \in Txn \ {t} : applied'[u] = applied[u]
      /\ \A u \in Txn \ {t} : pc'[u] = pc[u] \/ pc'[u] \in {"idle", "done"}
  <2>1. pc[t] \in {"apply", "mark"}
    BY DEF RollStep, AlreadyApplied, Mismatch, TearAppend, Apply, Mark, Commit, VerifyFails
  <2>2. t \in Undone
    BY <2>1 DEF CalmInv, JournalInv, Undone
  <2>3. /\ UNCHANGED <<payload, planned, old, intent, edits>>
        /\ committed' \subseteq committed \cup {t}
        /\ committed \subseteq committed'
        /\ \A u \in Txn \ {t} : applied'[u] = applied[u]
    BY DEF RollStep, AlreadyApplied, Mismatch, TearAppend, Apply, Mark, Commit,
           VerifyFails, disk, bounds
  <2>4. \/ \E stage \in {"apply", "mark"} : GoTo(t, stage)
        \/ \E answer : Finish(t, answer)
        \/ Die
    BY DEF RollStep, AlreadyApplied, Mismatch, TearAppend, Apply, Mark, Commit,
           VerifyFails, Continue
  <2>5. /\ pc'[t] # "idle" /\ pc'[t] \notin {"payload", "check", "intent"}
        /\ \A u \in Txn \ {t} : pc'[u] = pc[u] \/ pc'[u] \in {"idle", "done"}
    BY <2>1, <2>4 DEF GoTo, Finish, Die
  <2>6. QED
    BY <2>1, <2>2, <2>3, <2>5
<1>a. /\ pc'[t] \in {"apply", "mark"} => committed' = committed
      /\ up = "recovering" \/ up = "open"
      /\ \A u \in Txn \ {t} : pc[u] \notin Working
  <2>1. pc'[t] \in {"apply", "mark"} => committed' = committed
    BY DEF RollStep, AlreadyApplied, Mismatch, TearAppend, Apply, Mark, Commit, VerifyFails,
           Finish, disk
  <2>2. pc[t] \in Working
    BY <1>0 DEF Working, InEngine
  <2>3. QED
    BY <2>1, <2>2, OwnerUnique DEF OwnerInv, Owns
<1>1. \A u \in Txn : pc'[u] \in {"apply", "mark"} => u \notin committed'
  BY <1>0, <1>a DEF CalmInv
<1>2. \A u \in Txn \ intent' : applied'[u] = {}
  BY <1>0 DEF CalmInv, Undone
<1>3. ASSUME Calm' PROVE CalmPart'
  <2>0. BoundsTypeOK
    BY DEF TypeOK
  <2>1. Calm
    BY <1>0, <1>3, <2>0, CalmCharge, EngineAssumption
       DEF Calm, RollStep, AlreadyApplied, Mismatch, TearAppend, Apply, Mark, Commit,
           VerifyFails, bounds, Charge, BoundsTypeOK
  <2>2. CalmPart
    BY <2>1 DEF CalmInv
  <2>3. Undone \subseteq {t} /\ Undone' \subseteq {t}
    BY <1>0, <2>2 DEF CalmPart, Undone
  <2>4. \A i \in Indices(t) : /\ Understood(t, i)
                              /\ i \in applied[t] => Observed(t, i) = New(t, i)
                              /\ pc[t] = "mark" /\ IsNext(t, i) => Observed(t, i) = New(t, i)
    BY <1>0, <2>2 DEF CalmPart, RollInv
  \* What remains to be shown of each action.
  <2>5. ASSUME UNCHANGED conflict, up' # "blocked",
               up' = "open" => Undone' = {} \/ pc'[t] \in {"apply", "mark"},
               Undone' = {} \/
                 \A i \in Indices(t) :
                   /\ (Understood(t, i))'
                   /\ i \in applied'[t] => (Observed(t, i) = New(t, i))'
                   /\ pc'[t] = "mark" /\ (IsNext(t, i))' => (Observed(t, i) = New(t, i))'
        PROVE  CalmPart'
    <3>1. RollInv'
      BY <2>3, <2>5 DEF RollInv
    <3>2. \A u \in Txn : pc'[u] \notin {"payload", "check", "intent"}
      BY <1>0, <1>a DEF Working, InEngine
    <3>3. QED
      BY <2>2, <2>3, <2>5, <3>1, <3>2 DEF CalmPart
  <2>6. ASSUME NEW i \in Indices(t), AlreadyApplied(t, i)
        PROVE  CalmPart'
    <3>1. /\ GoTo(t, "mark") /\ pc'[t] = "mark"
          /\ IsNext(t, i) /\ Observed(t, i) = New(t, i)
          /\ UNCHANGED disk
      BY <2>6 DEF AlreadyApplied, GoTo
    <3>2. \A j \in Indices(t) : IsNext(t, j) => j = i
      BY <3>1, OneOperation
    <3>3. \A j \in Indices(t) :
            /\ (Understood(t, j))'
            /\ j \in applied'[t] => (Observed(t, j) = New(t, j))'
            /\ (IsNext(t, j))' => (Observed(t, j) = New(t, j))'
      BY <2>4, <3>1, <3>2 DEF disk, Understood, IsOld, Observed, New, IsNext
    <3>4. QED
      BY <1>a, <2>5, <3>1, <3>3 DEF GoTo, disk
  <2>7. ASSUME NEW i \in Indices(t), Mismatch(t, i)
        PROVE  FALSE
    BY <2>4, <2>7 DEF Mismatch, Understood
  <2>8. ASSUME NEW i \in Indices(t), TearAppend(t, i)
        PROVE  CalmPart'
    <3>1. Die
      BY <1>3, <2>0, <2>8, CalmCharge DEF TearAppend, Calm, Outcomes
    <3>2. /\ content' = [content EXCEPT ![OpTarget(t, i)] =
                           TornImage(t, old[t][OpTarget(t, i)])]
          /\ IsNext(t, i) /\ OpMode(t, i) = "append"
          /\ UNCHANGED <<old, applied, conflict>>
      BY <2>8 DEF TearAppend
    <3>3. OpTarget(t, i) \in Target
      BY TargetOfOperation
    <3>4. ASSUME NEW j \in Indices(t), j # i
          PROVE  (Observed(t, j))' = Observed(t, j)
      BY <3>2, <3>4, OneOperation, TargetOfOperation DEF Observed
    <3>5. ASSUME NEW j \in Indices(t)
          PROVE  /\ (Understood(t, j))'
                 /\ j \in applied'[t] => (Observed(t, j) = New(t, j))'
      <4>1. CASE j = i
        BY <3>2, <3>3, <4>1 DEF Understood, IsOld, Observed, IsNext
      <4>2. CASE j # i
        BY <2>4, <3>2, <3>4, <4>2 DEF Understood, IsOld, New
      <4>3. QED
        BY <4>1, <4>2
    <3>6. pc'[t] # "mark" /\ up' = "down"
      BY <3>1 DEF Die
    <3>7. QED
      BY <2>5, <3>2, <3>5, <3>6
  <2>9. ASSUME NEW o \in Outcomes, NEW i \in Indices(t), Apply(t, i, o)
        PROVE  CalmPart'
    <3>1. o = "ok"
      BY <1>3, <2>0, <2>9, CalmCharge DEF Apply, Calm
    <3>2. /\ content' = [content EXCEPT ![OpTarget(t, i)] = New(t, i)]
          /\ IsNext(t, i)
          /\ UNCHANGED <<old, applied, conflict>>
          /\ GoTo(t, "mark")
      BY <2>9, <3>1 DEF Apply, Written, Continue
    <3>3. OpTarget(t, i) \in Target
      BY TargetOfOperation
    <3>4. ASSUME NEW j \in Indices(t)
          PROVE  /\ j # i => (Observed(t, j))' = Observed(t, j)
                 /\ (New(t, j))' = New(t, j)
      BY <3>2, OneOperation, TargetOfOperation DEF Observed, New
    <3>5. (Observed(t, i))' = (New(t, i))'
      BY <3>2, <3>3, <3>4 DEF Observed
    <3>6. ASSUME NEW j \in Indices(t)
          PROVE  /\ (Understood(t, j))'
                 /\ j \in applied'[t] => (Observed(t, j) = New(t, j))'
                 /\ (IsNext(t, j))' => (Observed(t, j) = New(t, j))'
      <4>1. CASE j = i
        BY <3>5, <4>1 DEF Understood
      <4>2. CASE j # i
        BY <2>4, <3>2, <3>4, <4>2, OneOperation DEF Understood, IsOld, IsNext
      <4>3. QED
        BY <4>1, <4>2
    <3>7. pc'[t] = "mark" /\ up' = up
      BY <3>2 DEF GoTo
    <3>8. QED
      BY <1>a, <2>5, <3>2, <3>6, <3>7
  <2>10. ASSUME NEW o \in Outcomes, NEW i \in Indices(t), Mark(t, i, o)
         PROVE  CalmPart'
    <3>1. o = "ok"
      BY <1>3, <2>0, <2>10, CalmCharge DEF Mark, Calm
    <3>2. /\ pc[t] = "mark" /\ IsNext(t, i)
          /\ UNCHANGED <<content, old, conflict>>
          /\ applied'[t] = applied[t] \cup {i}
          /\ GoTo(t, "apply")
      BY <2>10, <3>1 DEF Mark, Written, Continue
    <3>3. ASSUME NEW j \in Indices(t)
          PROVE  /\ (Understood(t, j))'
                 /\ j \in applied'[t] => (Observed(t, j) = New(t, j))'
      BY <2>4, <3>2 DEF Understood, IsOld, Observed, New
    <3>4. pc'[t] = "apply" /\ up' = up
      BY <3>2 DEF GoTo
    <3>5. QED
      BY <1>a, <2>5, <3>2, <3>3, <3>4
  <2>11. ASSUME NEW o \in Outcomes, Commit(t, o)
         PROVE  CalmPart'
    <3>1. o = "ok"
      BY <1>3, <2>0, <2>11, CalmCharge DEF Commit, Calm
    <3>2. t \in committed' /\ Finish(t, "committed") /\ UNCHANGED conflict
      BY <2>11, <3>1 DEF Commit, Written
    <3>3. Undone' = {}
      BY <2>3, <3>2 DEF Undone
    <3>4. up' # "blocked"
      BY <3>2 DEF Finish
    <3>5. QED
      BY <2>5, <3>2, <3>3, <3>4
  <2>12. CASE VerifyFails(t)
    BY <2>4, <2>12 DEF VerifyFails, AllApplied, Realized
  <2>13. QED
    BY <2>6, <2>7, <2>8, <2>9, <2>10, <2>11, <2>12 DEF RollStep
<1>4. QED
  BY <1>1, <1>2, <1>3 DEF CalmInv

LEMMA CalmScan ==
  ASSUME Base, CalmInv, NEW t \in Txn, ScanStep(t)
  PROVE  CalmInv'
<1> USE DEF Base, TypeOK, DiskTypeOK, ProcessTypeOK
<1>0. UNCHANGED <<content, old, intent, applied, committed, conflict, edits>>
  BY DEF ScanStep, Recognize, StopAt, RollForward, Discard, RemoveEntry, FinishDiscard,
         disk, process, bounds
<1>1. /\ up = "recovering"
      /\ up' \in {"recovering", "blocked"}
  BY DEF ScanStep, Recognize, StopAt, RollForward, Discard, RemoveEntry, FinishDiscard,
         Reached, OwnerInv, Owns, Working, InEngine, process, GoTo
<1>2. /\ \A u \in Txn \ {t} : pc'[u] = pc[u]
      /\ pc'[t] # pc[t] => pc'[t] \in {"apply", "discard", "done"}
      /\ pc'[t] # pc[t] /\ pc'[t] = "apply" => t \notin committed
  BY DEF ScanStep, Recognize, StopAt, RollForward, Discard, RemoveEntry, FinishDiscard,
         process, GoTo, IsIntended, IsUndecided
<1>3. \A u \in Txn : pc'[u] \in {"apply", "mark"} => u \notin committed'
  BY <1>0, <1>2 DEF CalmInv
<1>4. \A u \in Txn \ intent' : applied'[u] = {}
  BY <1>0 DEF CalmInv
<1>5. ASSUME Calm' PROVE CalmPart'
  <2>0. BoundsTypeOK
    BY DEF TypeOK
  <2>1. Calm
    BY <1>0, <1>5, <2>0, EngineAssumption
       DEF Calm, ScanStep, Recognize, StopAt, RollForward, Discard, RemoveEntry,
           FinishDiscard, bounds, Charge, BoundsTypeOK
  <2>2. CalmPart
    BY <2>1 DEF CalmInv
  <2>3. RollInv'
    BY <1>0, <1>2, <2>2, RollFrame DEF CalmPart, Undone
  <2>4. \A u \in Txn : pc'[u] \notin {"payload", "check", "intent"}
    BY <1>1, <1>2 DEF OwnerInv, Owns, Working, InEngine
  <2>5. CASE up' = "recovering"
    BY <1>0, <2>2, <2>3, <2>4, <2>5 DEF CalmPart, Undone
  <2>6. CASE up' = "blocked"
    \* Neither a conflict nor an intent without its plan exists.
    <3>1. StopAt(t)
      BY <1>1, <1>5, <2>0, <2>1, <2>6, CalmCharge, EngineAssumption
         DEF ScanStep, Recognize, RollForward, Discard, RemoveEntry, FinishDiscard,
             process, GoTo, Calm, Outcomes, Charge, BoundsTypeOK
    <3>2. conflict = {}
      BY <2>2 DEF CalmPart
    <3>3. t \in planned /\ ~PayloadsComplete(t) /\ t \notin committed
      BY <3>1, <3>2 DEF StopAt, IsConflict, IsCorrupt, IsUndecided, JournalInv,
                        IntentReplayable
    <3>4. Damaged'
      BY <3>1, <3>3 DEF StopAt, disk, Damaged, PayloadsComplete
    <3>5. QED
      BY <1>0, <2>2, <2>3, <2>4, <2>6, <3>4 DEF CalmPart, Undone
  <2>7. QED
    BY <1>1, <2>5, <2>6
<1>6. QED
  BY <1>3, <1>4, <1>5 DEF CalmInv

LEMMA CalmStep == Base /\ CalmInv /\ [Next]_vars => CalmInv'
<1> SUFFICES ASSUME Base, CalmInv, [Next]_vars PROVE CalmInv'
  OBVIOUS
<1> USE DEF Base, TypeOK, DiskTypeOK, ProcessTypeOK
<1>1. CASE Edit
  <2>1. ~Calm'
    BY <1>1, EngineAssumption DEF Calm, Edit, BoundsTypeOK
  <2>2. QED
    BY <1>1, <2>1 DEF Edit, process, CalmInv
\* The other steps of the environment leave the disk and the bounds alone.
<1>2. CASE OpenProject \/ Launch \/ Crash \/ UNCHANGED vars
  <2>1. UNCHANGED <<content, payload, planned, old, intent, applied, committed,
                    conflict, faults, edits>>
    BY <1>2 DEF OpenProject, Launch, Crash, vars, disk, bounds
  <2>2. \A t \in Txn : pc'[t] = pc[t] \/ pc'[t] \in {"idle", "done"}
    BY <1>2 DEF OpenProject, Launch, Crash, Die, vars
  <2>3. up' = "open" => Undone = {} \/ (up = "open" /\ pc' = pc)
    BY <1>2 DEF OpenProject, Launch, Crash, Die, vars, ScanInv, Undone
  <2>4. up' = "blocked" => up = "blocked"
    BY <1>2 DEF OpenProject, Launch, Crash, Die, vars
  <2>5. ASSUME Calm, CalmPart PROVE CalmPart'
    <3>1. RollInv'
      BY <2>1, <2>2, <2>5, RollFrame DEF CalmPart, Undone, TypeOK
    <3>2. QED
      BY <2>1, <2>2, <2>3, <2>4, <2>5, <3>1
         DEF CalmPart, Undone, Damaged, PayloadsComplete
  <2>6. QED
    BY <2>1, <2>2, <2>5 DEF CalmInv, Calm
<1>3. QED
  BY <1>1, <1>2, CalmCaller, CalmRoll, CalmScan DEF Next, ProcessStep

LEMMA CalmAlways == Spec => []CalmInv
BY BaseAlways, CalmInit, CalmStep, PTL DEF Spec

\* Recovery stops a launch only for a cause: a write that failed, an edit from
\* outside, or a journal an interrupted discard left behind.  A crash alone,
\* between any two durable writes, never blocks the project.
THEOREM BlocksForCause == Spec => []BlockedForCause
<1>1. Base /\ CalmInv => BlockedForCause
  <2> SUFFICES ASSUME Base, CalmInv, up = "blocked", ~(faults > 0), ~(edits > 0)
               PROVE  Damaged
    BY DEF BlockedForCause
  <2>1. Calm
    BY EngineAssumption DEF Base, TypeOK, BoundsTypeOK, Calm
  <2>2. QED
    BY <2>1 DEF CalmInv, CalmPart
<1>2. QED
  BY <1>1, BaseAlways, CalmAlways, PTL

-------------------------------------------------------------------------------
(* Send-time compare-and-swap, as long as the mutex is all there is to     *)
(* keep other writers away.                                                *)

LEMMA ReadCaller ==
  ASSUME Base, ReadInv, NEW t \in Txn, CallerStep(t)
  PROVE  ReadInv'
<1> USE DEF Base, TypeOK, DiskTypeOK, ProcessTypeOK
<1>0. UNCHANGED <<content, edits>> /\ t \notin intent
  BY DEF CallerStep, Capture, Request, BindPlan, CheckPrecondition, InstallPayload,
         InstallPlan, InstallIntent, disk, bounds, JournalInv, BeforeIntent
<1>1. CASE Capture(t)
  BY <1>0, <1>1 DEF Capture, GoTo, disk, ReadInv
<1>2. CASE Request(t)
  BY <1>0, <1>2 DEF Request, disk, ReadInv
<1>3. CASE BindPlan(t)
  BY <1>0, <1>3 DEF BindPlan, GoTo, Finish, ReadInv
<1>4. CASE CheckPrecondition(t)
  BY <1>0, <1>4 DEF CheckPrecondition, GoTo, Finish, disk, ReadSetHolds, ReadInv
<1>5. ASSUME NEW o \in Outcomes, NEW i \in PayloadOps(t), InstallPayload(t, i, o)
      PROVE  ReadInv'
  BY <1>0, <1>5 DEF InstallPayload, Continue, GoTo, Finish, ReadInv
<1>6. ASSUME NEW o \in Outcomes, InstallPlan(t, o)
      PROVE  ReadInv'
  BY <1>0, <1>6 DEF InstallPlan, Continue, GoTo, Finish, ReadInv
<1>7. ASSUME NEW o \in Outcomes, InstallIntent(t, o)
      PROVE  ReadInv'
  BY <1>0, <1>7 DEF InstallIntent, Continue, GoTo, Finish, ReadInv
<1>8. QED
  BY <1>1, <1>2, <1>3, <1>4, <1>5, <1>6, <1>7 DEF CallerStep

\* A transaction that is applied is the only one at work, so no plan that is
\* still on its way to its intent goes stale.
LEMMA ReadRoll ==
  ASSUME Base, ReadInv, NEW t \in Txn, RollStep(t)
  PROVE  ReadInv'
<1> USE DEF Base, TypeOK, DiskTypeOK, ProcessTypeOK
<1>1. UNCHANGED <<old, intent, readSet, edits>> /\ pc[t] \in {"apply", "mark"}
  BY DEF RollStep, AlreadyApplied, Mismatch, TearAppend, Apply, Mark, Commit,
         VerifyFails, Die, disk, bounds
<1>2. \A u \in Txn : pc[u] \notin {"payload", "check", "intent"}
  BY <1>1, OwnerUnique DEF Working, InEngine
<1>3. \/ \E stage \in {"apply", "mark"} : GoTo(t, stage)
      \/ \E answer : Finish(t, answer)
      \/ Die
  BY DEF RollStep, AlreadyApplied, Mismatch, TearAppend, Apply, Mark, Commit,
         VerifyFails, Continue
<1>4. \A u \in Txn : pc'[u] \notin {"payload", "check", "intent"}
  BY <1>2, <1>3 DEF GoTo, Finish, Die
<1>5. QED
  BY <1>1, <1>4 DEF ReadInv

LEMMA ReadStep == Base /\ ReadInv /\ [Next]_vars => ReadInv'
<1> SUFFICES ASSUME Base, ReadInv, [Next]_vars PROVE ReadInv'
  OBVIOUS
<1> USE DEF Base, TypeOK, DiskTypeOK, ProcessTypeOK, BoundsTypeOK
<1>1. ASSUME NEW t \in Txn, ScanStep(t) PROVE ReadInv'
  <2>1. UNCHANGED <<content, old, intent, readSet, edits>>
    BY <1>1 DEF ScanStep, Recognize, StopAt, RollForward, Discard, RemoveEntry,
                FinishDiscard, disk, process, bounds, GoTo
  <2>2. \A u \in Txn : pc'[u] = pc[u] \/ pc'[u] \in {"apply", "discard", "done"}
    BY <1>1 DEF ScanStep, Recognize, StopAt, RollForward, Discard, RemoveEntry,
                FinishDiscard, process, GoTo
  <2>3. QED
    BY <2>1, <2>2 DEF ReadInv
<1>2. CASE Edit
  BY <1>2, EngineAssumption DEF Edit, ReadInv
<1>3. CASE OpenProject \/ Launch \/ Crash \/ UNCHANGED vars
  BY <1>3 DEF OpenProject, Launch, Crash, Die, vars, disk, bounds, ReadInv
<1>4. QED
  BY <1>1, <1>2, <1>3, ReadCaller, ReadRoll DEF Next, ProcessStep

\* Among termcraft's own writers the compare-and-swap is exact: until the first
\* edit from outside, what a guarded caller commits replaces what it read when
\* it was sent, whatever crashed or failed and whoever wrote in between.
THEOREM CommitsOverItsRead == Spec => []CommitsOverWhatItRead
<1>1. Spec => []ReadInv
  BY BaseAlways, CalmInit, ReadStep, PTL DEF Spec
<1>2. Base /\ ReadInv => CommitsOverWhatItRead
  BY DEF Base, TypeOK, DiskTypeOK, JournalInv, ReadInv, CommitsOverWhatItRead
<1>3. QED
  BY <1>1, <1>2, BaseAlways, PTL

-------------------------------------------------------------------------------
(* The engine implements the atomic store: the view takes the transaction  *)
(* that is left undone back out of the files, so that its operations are   *)
(* invisible one by one and take effect at once with committed.json.       *)

ViewIsCommitted ==
  /\ \A t \in Undone : \A x \in Targets(t) : CommittedView[x] = old[t][x]
  /\ \A x \in Target : (\A t \in Undone : x \notin Targets(t)) => CommittedView[x] = content[x]

LEMMA CommittedViewIs == Base /\ CalmInv /\ Calm => ViewIsCommitted
<1> SUFFICES ASSUME Base, CalmInv, Calm PROVE ViewIsCommitted
  OBVIOUS
<1> USE DEF Base, TypeOK, DiskTypeOK
<1>1. ASSUME NEW t \in Undone, NEW x \in Targets(t)
      PROVE  CommittedView[x] = old[t][x]
  <2>1. t \in Txn
    BY DEF Undone
  <2>2. PICK i \in Indices(t) : x = OpTarget(t, i)
    BY DEF Targets
  <2>3. OpOn(t, x) = i
    BY <2>1, <2>2, OneOperation DEF OpOn
  <2>4. Unfinished(x) \subseteq {t}
    BY DEF CalmInv, CalmPart, Unfinished, Undone
  <2>5. x \in Target
    BY <2>1, <2>2, TargetOfOperation
  <2>6. CASE Unfinished(x) = {}
    <3>1. t \notin Unfinished(x)
      BY <2>6
    <3>2. content[x] # New(t, i) /\ content[x] # TornImage(t, old[t][x])
      BY <3>1, <2>3 DEF Unfinished, Undone
    <3>3. Understood(t, i)
      BY DEF CalmInv, CalmPart, RollInv
    <3>4. content[x] = old[t][x]
      BY <2>2, <3>2, <3>3 DEF Understood, IsOld, Observed
    <3>5. QED
      BY <2>5, <2>6, <3>4 DEF CommittedView
  <2>7. CASE Unfinished(x) = {t}
    <3>1. (CHOOSE u \in Unfinished(x) : TRUE) = t
      BY <2>7
    <3>2. QED
      BY <2>5, <2>7, <3>1 DEF CommittedView
  <2>8. QED
    BY <2>4, <2>6, <2>7
<1>2. ASSUME NEW x \in Target, \A t \in Undone : x \notin Targets(t)
      PROVE  CommittedView[x] = content[x]
  <2>1. Unfinished(x) = {}
    BY <1>2 DEF Unfinished, Undone
  <2>2. QED
    BY <2>1 DEF CommittedView
<1>3. QED
  BY <1>1, <1>2 DEF ViewIsCommitted

LEMMA CommittedViewIsNext == Base' /\ CalmInv' /\ Calm' => ViewIsCommitted'
BY CommittedViewIs, PTL

\* A step after which the same transaction is undone, with the same old images,
\* and which touches no file but that transaction's, does not show.
LEMMA ViewKept ==
  ASSUME ViewIsCommitted, ViewIsCommitted', Undone' = Undone, Undone \subseteq Txn,
         \A t \in Undone : old'[t] = old[t],
         \A x \in Target : (\A t \in Undone : x \notin Targets(t)) => content'[x] = content[x]
  PROVE  UNCHANGED CommittedView
<1>1. ASSUME NEW x \in Target PROVE CommittedView'[x] = CommittedView[x]
  <2>1. CASE \E t \in Undone : x \in Targets(t)
    BY <2>1 DEF ViewIsCommitted
  <2>2. CASE \A t \in Undone : x \notin Targets(t)
    BY <2>2 DEF ViewIsCommitted
  <2>3. QED
    BY <2>1, <2>2
<1>2. /\ CommittedView = [x \in Target |-> CommittedView[x]]
      /\ CommittedView' = [x \in Target |-> CommittedView'[x]]
  BY DEF CommittedView
<1>3. QED
  BY <1>1, <1>2

LEMMA AtomicStep ==
  ASSUME Base, CalmInv, Calm, CalmInv', Calm', [Next]_vars,
         ViewIsCommitted, ViewIsCommitted'
  PROVE  [Atomic!Next]_<<CommittedView, committed>>
<1> USE DEF Base, TypeOK, DiskTypeOK, ProcessTypeOK
<1>0. BoundsTypeOK /\ Undone \subseteq Txn
  BY DEF TypeOK, Undone
<1>1. ASSUME NEW t \in Txn, CallerStep(t)
      PROVE  [Atomic!Next]_<<CommittedView, committed>>
  <2>1. UNCHANGED <<content, committed>> /\ t \notin intent
    BY <1>1
       DEF CallerStep, Capture, Request, BindPlan, CheckPrecondition, InstallPayload,
           InstallPlan, InstallIntent, disk, JournalInv, BeforeIntent
  <2>2. CASE UNCHANGED intent
    <3>1. \A u \in Undone : old'[u] = old[u]
      BY <1>1, <2>1
         DEF CallerStep, Capture, Request, BindPlan, CheckPrecondition, InstallPayload,
             InstallPlan, InstallIntent, disk, Undone
    <3>2. UNCHANGED CommittedView
      BY <1>0, <2>1, <2>2, <3>1, ViewKept DEF Undone
    <3>3. QED
      BY <2>1, <3>2
  \* When the intent appears, the plan is still true of the files.
  <2>3. ASSUME NEW o \in Outcomes, InstallIntent(t, o), ~UNCHANGED intent
        PROVE  UNCHANGED CommittedView
    <3>1. pc[t] = "intent" /\ old' = old /\ intent' = intent \cup {t}
      BY <2>3 DEF InstallIntent
    <3>2. old[t] = content
      BY <3>1 DEF CalmInv, CalmPart
    <3>3. up = "open"
      BY <3>1 DEF OwnerInv, Owns, Working, InEngine
    <3>4. Undone = {}
      BY <3>1, <3>3, UndoneAtWork DEF Working, InEngine
    <3>5. Undone' = {t}
      BY <2>1, <3>1, <3>4 DEF Undone, JournalInv
    <3>6. ASSUME NEW x \in Target PROVE CommittedView'[x] = CommittedView[x]
      <4>1. CommittedView[x] = content[x]
        BY <3>4 DEF ViewIsCommitted
      <4>2. CASE x \in Targets(t)
        BY <3>1, <3>2, <3>5, <4>1, <4>2 DEF ViewIsCommitted
      <4>3. CASE x \notin Targets(t)
        BY <2>1, <3>5, <4>1, <4>3 DEF ViewIsCommitted
      <4>4. QED
        BY <4>2, <4>3
    <3>7. /\ CommittedView = [x \in Target |-> CommittedView[x]]
          /\ CommittedView' = [x \in Target |-> CommittedView'[x]]
      BY DEF CommittedView
    <3>8. QED
      BY <3>6, <3>7
  <2>4. QED
    BY <1>1, <2>1, <2>2, <2>3
       DEF CallerStep, Capture, Request, BindPlan, CheckPrecondition, InstallPayload,
           InstallPlan, disk
<1>2. ASSUME NEW t \in Txn, RollStep(t)
      PROVE  [Atomic!Next]_<<CommittedView, committed>>
  <2>1. t \in Undone /\ pc[t] \in {"apply", "mark"} /\ UNCHANGED <<old, intent>>
    BY <1>2
       DEF RollStep, AlreadyApplied, Mismatch, TearAppend, Apply, Mark, Commit,
           VerifyFails, disk, JournalInv, CalmInv, Undone
  <2>2. Undone = {t}
    BY <2>1 DEF CalmInv, CalmPart
  <2>3. CASE UNCHANGED committed
    <3>1. \A x \in Target : x \notin Targets(t) => content'[x] = content[x]
      BY <1>2, TargetOfOperation
         DEF RollStep, AlreadyApplied, Mismatch, TearAppend, Apply, Mark, Commit,
             VerifyFails, disk
    <3>2. UNCHANGED CommittedView
      BY <1>0, <2>1, <2>2, <2>3, <3>1, ViewKept DEF Undone
    <3>3. QED
      BY <2>3, <3>2
  \* committed.json: everything the transaction wrote becomes visible.
  <2>4. ASSUME NEW o \in Outcomes, Commit(t, o), ~UNCHANGED committed
        PROVE  Atomic!Commit(t)
    <3>1. /\ committed' = committed \cup {t}
          /\ t \notin committed
          /\ Realized(t)
          /\ UNCHANGED content
      BY <2>1, <2>4 DEF Commit, Undone
    <3>2. Undone' = {}
      BY <2>1, <2>2, <3>1 DEF Undone
    <3>3. ASSUME NEW x \in Target
          PROVE  CommittedView'[x] = IF x \in Targets(t)
                                     THEN NewImage(t, OpOn(t, x), CommittedView[x])
                                     ELSE CommittedView[x]
      <4>1. CommittedView'[x] = content[x]
        BY <3>1, <3>2 DEF ViewIsCommitted
      <4>2. CASE x \notin Targets(t)
        BY <2>2, <4>1, <4>2 DEF ViewIsCommitted
      <4>3. CASE x \in Targets(t)
        <5>1. PICK i \in Indices(t) : x = OpTarget(t, i)
          BY <4>3 DEF Targets
        <5>2. OpOn(t, x) = i
          BY <5>1, OneOperation DEF OpOn
        <5>3. CommittedView[x] = old[t][x]
          BY <2>1, <4>3 DEF ViewIsCommitted
        <5>4. content[x] = NewImage(t, i, old[t][x])
          BY <3>1, <5>1 DEF Realized, Observed, New
        <5>5. QED
          BY <4>1, <4>3, <5>2, <5>3, <5>4
      <4>4. QED
        BY <4>2, <4>3
    <3>4. CommittedView' = Applied(t, CommittedView)
      <4>1. CommittedView' = [x \in Target |-> CommittedView'[x]]
        BY DEF CommittedView
      <4>2. QED
        BY <3>3, <4>1 DEF Applied
    <3>5. Atomic!Applied(t, CommittedView) = Applied(t, CommittedView)
      BY DEF Applied, Targets, OpOn, OpTarget, OpMode, Indices, NewImage, Whole, Absent,
             Atomic!Applied, Atomic!Targets, Atomic!OpOn, Atomic!OpTarget, Atomic!OpMode,
             Atomic!Indices, Atomic!NewImage, Atomic!Whole, Atomic!Absent
    <3>6. QED
      BY <3>1, <3>4, <3>5 DEF Atomic!Commit
  <2>5. CASE \E o \in Outcomes : Commit(t, o)
    BY <2>3, <2>4, <2>5 DEF Atomic!Next
  <2>6. CASE ~\E o \in Outcomes : Commit(t, o)
    BY <1>2, <2>3, <2>6
       DEF RollStep, AlreadyApplied, Mismatch, TearAppend, Apply, Mark, VerifyFails, disk
  <2>7. QED
    BY <2>5, <2>6
<1>3. ASSUME UNCHANGED <<content, old, intent, committed>>
      PROVE  [Atomic!Next]_<<CommittedView, committed>>
  <2>1. UNCHANGED CommittedView
    BY <1>0, <1>3, ViewKept DEF Undone
  <2>2. QED
    BY <1>3, <2>1
<1>4. ASSUME NEW t \in Txn, ScanStep(t) PROVE UNCHANGED <<content, old, intent, committed>>
  BY <1>4 DEF ScanStep, Recognize, StopAt, RollForward, Discard, RemoveEntry,
              FinishDiscard, disk
<1>5. CASE OpenProject \/ Launch \/ Crash \/ UNCHANGED vars
  BY <1>3, <1>5 DEF OpenProject, Launch, Crash, vars, disk
<1>6. ~Edit
  BY <1>0, EngineAssumption DEF Calm, Edit, BoundsTypeOK
<1>7. QED
  BY <1>1, <1>2, <1>3, <1>4, <1>5, <1>6 DEF Next, ProcessStep

\* All or nothing, exactly once, in one serial order: in every behaviour without
\* failing writes and outside edits, however often the process dies between two
\* of the engine's writes, the managed files show what an atomic store would.
THEOREM EngineIsAtomic == Spec /\ []Calm => ImplementsAtomicStore
<1>1. Init => Atomic!Init
  <2> SUFFICES ASSUME Init PROVE Atomic!Init
    OBVIOUS
  <2>1. \A x \in Target : Unfinished(x) = {}
    BY DEF Init, Unfinished
  <2>2. CommittedView = [x \in Target |-> content[x]]
    BY <2>1 DEF CommittedView
  <2>3. QED
    BY <2>2 DEF Init, Atomic!Init, Atomic!Absent, Absent
<1>2. Base /\ CalmInv /\ Calm /\ Base' /\ CalmInv' /\ Calm' /\ [Next]_vars
        => [Atomic!Next]_<<CommittedView, committed>>
  BY AtomicStep, CommittedViewIs, CommittedViewIsNext
<1>3. [Atomic!Next]_<<CommittedView, committed>> => [Atomic!Next]_Atomic!vars
  BY DEF Atomic!vars
<1>4. QED
  BY <1>1, <1>2, <1>3, BaseAlways, CalmAlways, PTL DEF Spec, ImplementsAtomicStore, Atomic!Spec

===============================================================================
