------------------------ MODULE ProjectTransactionProofs ------------------------
(***************************************************************************)
(* Safety of the transaction engine for every set of transactions, plans,  *)
(* targets, launches, failing writes and outside edits.                    *)
(***************************************************************************)
EXTENDS ProjectTransaction, SequenceTheorems, TLAPS

-------------------------------------------------------------------------------
(* Plans and images.                                                       *)

LEMMA OpsTyped ==
  ASSUME NEW t \in Txn, NEW i \in Indices(t)
  PROVE  /\ i \in Nat
         /\ OpTarget(t, i) \in Target
         /\ OpMode(t, i) \in Mode
<1> DEFINE Op == [target : Target, mode : Mode]
<1>1. Ops[t] \in Seq(Op)
  BY PlanAssumption
<1>2. i \in 1 .. Len(Ops[t])
  BY <1>1, LenProperties DEF Indices
<1>3. Ops[t][i] \in Op
  BY <1>1, <1>2, ElementOfSeq
<1>4. QED
  BY <1>2, <1>3, <1>1, LenProperties DEF OpTarget, OpMode

LEMMA NewImageTyped ==
  ASSUME NEW t \in Txn, NEW i \in Indices(t), NEW image \in Image
  PROVE  NewImage(t, i, image) \in Image
<1>1. Whole(t) \in Atom
  BY DEF Whole, Atom
<1>2. /\ Absent \in Image
      /\ << Whole(t) >> \in Image
      /\ Append(image, Whole(t)) \in Image
  BY <1>1 DEF Image, Absent
<1>3. OpMode(t, i) \in {"replace", "delete", "append"}
  BY OpsTyped DEF Mode
<1>4. QED
  BY <1>2, <1>3 DEF NewImage

LEMMA TornImageTyped ==
  ASSUME NEW t \in Txn, NEW image \in Image
  PROVE  TornImage(t, image) \in Image
<1>1. Torn(t) \in Atom
  BY DEF Torn, Atom
<1>2. QED
  BY <1>1 DEF TornImage, Image

LEMMA EditImageTyped == ASSUME NEW image \in EditImages PROVE image \in Image
<1> DEFINE EditAtom == [by : {Outside}, whole : {TRUE}]
<1>1. image \in Seq(EditAtom)
  BY PlanAssumption
<1>2. EditAtom \subseteq Atom
  BY DEF Atom
<1>3. QED
  BY <1>1, <1>2, SeqMonotonic DEF Image

-------------------------------------------------------------------------------
(* The building blocks of the actions keep the types of what they change.  *)

LEMMA ReleaseTyped ==
  ASSUME ProcessTypeOK, NEW t \in Txn, Mutex!Release(t)
  PROVE  active' \in Txn \cup {NoTxn} /\ waiters' \in Seq(Txn)
<1>1. CASE UNCHANGED <<active, waiters>>
  BY <1>1 DEF ProcessTypeOK
<1>2. CASE active' = NoTxn /\ UNCHANGED waiters
  BY <1>2 DEF ProcessTypeOK
<1>3. CASE waiters # << >> /\ active' = Head(waiters) /\ waiters' = Tail(waiters)
  BY <1>3, HeadTailProperties DEF ProcessTypeOK
<1>4. QED
  BY <1>1, <1>2, <1>3 DEF Mutex!Release, Mutex!IsActive

LEMMA AcquireTyped ==
  ASSUME ProcessTypeOK, NEW t \in Txn, Mutex!Acquire(t)
  PROVE  active' \in Txn \cup {NoTxn} /\ waiters' \in Seq(Txn)
<1>1. CASE waiters' = Append(waiters, t) /\ UNCHANGED active
  BY <1>1, AppendProperties DEF ProcessTypeOK
<1>2. CASE active' = t /\ UNCHANGED waiters
  BY <1>2 DEF ProcessTypeOK
<1>3. QED
  BY <1>1, <1>2 DEF Mutex!Acquire

LEMMA GoToTyped ==
  ASSUME ProcessTypeOK, NEW t \in Txn, NEW stage \in Stage, GoTo(t, stage),
         readSet' \in [Txn -> [Target -> Image]]
  PROVE  ProcessTypeOK'
BY DEF GoTo, ProcessTypeOK

LEMMA FinishTyped ==
  ASSUME ProcessTypeOK, NEW t \in Txn, NEW answer \in Answer, Finish(t, answer),
         UNCHANGED readSet
  PROVE  ProcessTypeOK'
<1>1. /\ pc' = [pc EXCEPT ![t] = "done"]
      /\ told' = [told EXCEPT ![t] = IF up = "open" THEN answer ELSE @]
  BY DEF Finish
<1>2. pc' \in [Txn -> Stage] /\ told' \in [Txn -> Answer]
  BY <1>1 DEF ProcessTypeOK, Stage
<1>3. /\ up' \in {"down", "recovering", "open", "blocked"}
      /\ toScan' \subseteq Txn
      /\ active' \in Txn \cup {NoTxn}
      /\ waiters' \in Seq(Txn)
  <2>1. CASE up = "open" /\ Mutex!Release(t) /\ UNCHANGED <<up, toScan>>
    BY <2>1, ReleaseTyped DEF ProcessTypeOK
  <2>2. CASE up = "recovering"
    BY <2>2 DEF Finish, ProcessTypeOK
  <2>3. QED
    BY <2>1, <2>2 DEF Finish
<1>4. QED
  BY <1>2, <1>3 DEF ProcessTypeOK

LEMMA ContinueTyped ==
  ASSUME ProcessTypeOK, NEW t \in Txn, NEW o \in Outcomes, NEW stage \in Stage,
         NEW answer \in Answer, Continue(t, o, stage, answer), UNCHANGED readSet
  PROVE  ProcessTypeOK'
<1>1. CASE GoTo(t, stage)
  BY <1>1, GoToTyped DEF ProcessTypeOK
<1>2. CASE Finish(t, answer)
  BY <1>2, FinishTyped
<1>3. QED
  BY <1>1, <1>2 DEF Continue

LEMMA DieTyped ==
  ASSUME ProcessTypeOK, Die
  PROVE  ProcessTypeOK'
BY EmptySeq DEF Die, ProcessTypeOK, Stage, Answer

LEMMA ChargeTyped ==
  ASSUME BoundsTypeOK, NEW o, Charge(o), UNCHANGED <<launches, edits>>
  PROVE  BoundsTypeOK'
BY EngineAssumption DEF Charge, BoundsTypeOK

-------------------------------------------------------------------------------
(* Type correctness, one lemma per group of actions.                       *)

LEMMA CallerTyped ==
  ASSUME TypeOK, NEW t \in Txn, CallerStep(t)
  PROVE  TypeOK'
<1> USE DEF TypeOK
<1>1. CASE Capture(t)
  <2>1. readSet' \in [Txn -> [Target -> Image]]
    BY <1>1 DEF Capture, DiskTypeOK, ProcessTypeOK
  <2>2. ProcessTypeOK'
    BY <1>1, <2>1, GoToTyped DEF Capture, Stage
  <2>3. QED
    BY <1>1, <2>2 DEF Capture, disk, bounds, DiskTypeOK, BoundsTypeOK
<1>2. CASE Request(t)
  <2>1. active' \in Txn \cup {NoTxn} /\ waiters' \in Seq(Txn)
    BY <1>2, AcquireTyped DEF Request
  <2>2. ProcessTypeOK'
    BY <1>2, <2>1 DEF Request, ProcessTypeOK, Stage
  <2>3. QED
    BY <1>2, <2>2 DEF Request, disk, bounds, DiskTypeOK, BoundsTypeOK
<1>3. CASE BindPlan(t)
  <2>1. ProcessTypeOK'
    BY <1>3, FinishTyped, GoToTyped DEF BindPlan, Stage, Answer, ProcessTypeOK
  <2>2. old' \in [Txn -> [Target -> Image]]
    BY <1>3 DEF BindPlan, DiskTypeOK
  <2>3. QED
    BY <1>3, <2>1, <2>2 DEF BindPlan, bounds, DiskTypeOK, BoundsTypeOK
<1>4. CASE CheckPrecondition(t)
  <2>1. ProcessTypeOK'
    BY <1>4, FinishTyped, GoToTyped
       DEF CheckPrecondition, Stage, Answer, ProcessTypeOK
  <2>2. QED
    BY <1>4, <2>1 DEF CheckPrecondition, disk, bounds, DiskTypeOK, BoundsTypeOK
<1>5. ASSUME NEW o \in Outcomes, NEW i \in PayloadOps(t), InstallPayload(t, i, o)
      PROVE  TypeOK'
  <2>1. ProcessTypeOK'
    BY <1>5, ContinueTyped DEF InstallPayload, Stage, Answer
  <2>2. BoundsTypeOK'
    BY <1>5, ChargeTyped DEF InstallPayload
  <2>3. i \in Nat
    BY OpsTyped DEF PayloadOps
  <2>4. payload' \in [Txn -> SUBSET Nat] /\ \A u \in Txn : payload'[u] \subseteq PayloadOps(u)
    BY <1>5, <2>3 DEF InstallPayload, DiskTypeOK
  <2>5. QED
    BY <1>5, <2>1, <2>2, <2>4 DEF InstallPayload, DiskTypeOK
<1>6. ASSUME NEW o \in Outcomes, InstallPlan(t, o)
      PROVE  TypeOK'
  <2>1. ProcessTypeOK'
    BY <1>6, ContinueTyped DEF InstallPlan, Stage, Answer
  <2>2. BoundsTypeOK'
    BY <1>6, ChargeTyped DEF InstallPlan
  <2>3. QED
    BY <1>6, <2>1, <2>2 DEF InstallPlan, DiskTypeOK
<1>7. ASSUME NEW o \in Outcomes, InstallIntent(t, o)
      PROVE  TypeOK'
  <2>1. ProcessTypeOK'
    BY <1>7, ContinueTyped DEF InstallIntent, Stage, Answer
  <2>2. BoundsTypeOK'
    BY <1>7, ChargeTyped DEF InstallIntent
  <2>3. QED
    BY <1>7, <2>1, <2>2 DEF InstallIntent, DiskTypeOK
<1>8. QED
  BY <1>1, <1>2, <1>3, <1>4, <1>5, <1>6, <1>7 DEF CallerStep

LEMMA RollTyped ==
  ASSUME TypeOK, NEW t \in Txn, RollStep(t)
  PROVE  TypeOK'
<1> USE DEF TypeOK
<1>1. ASSUME NEW i \in Indices(t), AlreadyApplied(t, i)
      PROVE  TypeOK'
  <2>1. ProcessTypeOK'
    BY <1>1, GoToTyped DEF AlreadyApplied, Stage, ProcessTypeOK
  <2>2. QED
    BY <1>1, <2>1 DEF AlreadyApplied, disk, bounds, DiskTypeOK, BoundsTypeOK
<1>2. ASSUME NEW i \in Indices(t), Mismatch(t, i)
      PROVE  TypeOK'
  <2>1. ProcessTypeOK'
    BY <1>2, FinishTyped DEF Mismatch, Answer
  <2>2. BoundsTypeOK'
    BY <1>2, ChargeTyped DEF Mismatch, BoundsTypeOK
  <2>3. QED
    BY <1>2, <2>1, <2>2 DEF Mismatch, DiskTypeOK
<1>3. ASSUME NEW i \in Indices(t), TearAppend(t, i)
      PROVE  TypeOK'
  <2>1. ProcessTypeOK'
    BY <1>3, FinishTyped, DieTyped DEF TearAppend, Answer
  <2>2. BoundsTypeOK'
    BY <1>3, ChargeTyped DEF TearAppend, BoundsTypeOK
  <2>3. TornImage(t, old[t][OpTarget(t, i)]) \in Image
    BY OpsTyped, TornImageTyped DEF DiskTypeOK
  <2>4. content' \in [Target -> Image]
    BY <1>3, <2>3 DEF TearAppend, DiskTypeOK
  <2>5. QED
    BY <1>3, <2>1, <2>2, <2>4 DEF TearAppend, DiskTypeOK
<1>4. ASSUME NEW o \in Outcomes, NEW i \in Indices(t), Apply(t, i, o)
      PROVE  TypeOK'
  <2>1. ProcessTypeOK'
    BY <1>4, ContinueTyped DEF Apply, Stage, Answer
  <2>2. BoundsTypeOK'
    BY <1>4, ChargeTyped DEF Apply
  <2>3. New(t, i) \in Image
    BY OpsTyped, NewImageTyped DEF New, DiskTypeOK
  <2>4. content' \in [Target -> Image]
    BY <1>4, <2>3 DEF Apply, DiskTypeOK
  <2>5. QED
    BY <1>4, <2>1, <2>2, <2>4 DEF Apply, DiskTypeOK
<1>5. ASSUME NEW o \in Outcomes, NEW i \in Indices(t), Mark(t, i, o)
      PROVE  TypeOK'
  <2>1. ProcessTypeOK'
    BY <1>5, ContinueTyped DEF Mark, Stage, Answer
  <2>2. BoundsTypeOK'
    BY <1>5, ChargeTyped DEF Mark
  <2>3. /\ applied' \in [Txn -> SUBSET Nat]
        /\ \A u \in Txn : applied'[u] \subseteq Indices(u)
    BY <1>5, OpsTyped DEF Mark, DiskTypeOK
  <2>4. QED
    BY <1>5, <2>1, <2>2, <2>3 DEF Mark, DiskTypeOK
<1>6. ASSUME NEW o \in Outcomes, Commit(t, o)
      PROVE  TypeOK'
  <2>1. ProcessTypeOK'
    BY <1>6, FinishTyped DEF Commit, Answer
  <2>2. BoundsTypeOK'
    BY <1>6, ChargeTyped DEF Commit
  <2>3. QED
    BY <1>6, <2>1, <2>2 DEF Commit, DiskTypeOK
<1>7. CASE VerifyFails(t)
  <2>1. ProcessTypeOK'
    BY <1>7, FinishTyped DEF VerifyFails, Answer
  <2>2. QED
    BY <1>7, <2>1 DEF VerifyFails, disk, bounds, DiskTypeOK, BoundsTypeOK
<1>8. QED
  BY <1>1, <1>2, <1>3, <1>4, <1>5, <1>6, <1>7 DEF RollStep

LEMMA ScanTyped ==
  ASSUME TypeOK, NEW t \in Txn, ScanStep(t)
  PROVE  TypeOK'
<1> USE DEF TypeOK
<1>1. CASE Recognize(t)
  BY <1>1 DEF Recognize, disk, mutex, bounds, DiskTypeOK, ProcessTypeOK, BoundsTypeOK
<1>2. CASE StopAt(t)
  BY <1>2 DEF StopAt, disk, mutex, bounds, DiskTypeOK, ProcessTypeOK, BoundsTypeOK
<1>3. CASE RollForward(t)
  <2>1. ProcessTypeOK'
    BY <1>3, GoToTyped DEF RollForward, Stage, ProcessTypeOK
  <2>2. QED
    BY <1>3, <2>1 DEF RollForward, disk, bounds, DiskTypeOK, BoundsTypeOK
<1>4. CASE Discard(t)
  <2>1. ProcessTypeOK'
    BY <1>4, GoToTyped DEF Discard, Stage, ProcessTypeOK
  <2>2. QED
    BY <1>4, <2>1 DEF Discard, disk, bounds, DiskTypeOK, BoundsTypeOK
<1>5. CASE RemoveEntry(t)
  <2>1. /\ payload' \in [Txn -> SUBSET Nat]
        /\ \A u \in Txn : payload'[u] \subseteq PayloadOps(u)
        /\ planned' \subseteq Txn
    BY <1>5 DEF RemoveEntry, DiskTypeOK
  <2>2. QED
    BY <1>5, <2>1
       DEF RemoveEntry, process, bounds, DiskTypeOK, ProcessTypeOK, BoundsTypeOK
<1>6. CASE FinishDiscard(t)
  <2>1. BoundsTypeOK'
    BY <1>6, ChargeTyped DEF FinishDiscard, BoundsTypeOK
  <2>2. ProcessTypeOK'
    BY <1>6 DEF FinishDiscard, mutex, ProcessTypeOK, Stage
  <2>3. QED
    BY <1>6, <2>1, <2>2 DEF FinishDiscard, disk, DiskTypeOK
<1>7. QED
  BY <1>1, <1>2, <1>3, <1>4, <1>5, <1>6 DEF ScanStep

\* Every variable keeps its type: in particular markers and payloads exist only
\* for operations of the plan, and every file is a sequence of atoms.
THEOREM TypeCorrect == Spec => []TypeOK
<1>1. Init => TypeOK
  <2> SUFFICES ASSUME Init PROVE TypeOK
    OBVIOUS
  <2>1. \A image \in EditImages \cup {Absent} : image \in Image
    BY EditImageTyped, EmptySeq DEF Absent, Image
  <2>2. DiskTypeOK
    BY <2>1 DEF Init, DiskTypeOK
  <2>3. ProcessTypeOK
    BY <2>1, EmptySeq DEF Init, Mutex!Init, ProcessTypeOK, Stage, Answer, Absent
  <2>4. BoundsTypeOK
    BY EngineAssumption DEF Init, BoundsTypeOK
  <2>5. QED
    BY <2>2, <2>3, <2>4 DEF TypeOK
<1>2. TypeOK /\ [Next]_vars => TypeOK'
  <2> SUFFICES ASSUME TypeOK, [Next]_vars PROVE TypeOK'
    OBVIOUS
  <2> USE DEF TypeOK
  <2>1. CASE UNCHANGED vars
    BY <2>1 DEF vars, DiskTypeOK, ProcessTypeOK, BoundsTypeOK
  <2>2. CASE OpenProject
    BY <2>2 DEF OpenProject, disk, mutex, bounds, DiskTypeOK, ProcessTypeOK, BoundsTypeOK
  <2>3. CASE Launch
    <3>1. BoundsTypeOK'
      BY <2>3, EngineAssumption DEF Launch, CanRelaunch, BoundsTypeOK
    <3>2. QED
      BY <2>3, <3>1 DEF Launch, disk, mutex, DiskTypeOK, ProcessTypeOK
  <2>4. CASE Crash
    BY <2>4, DieTyped DEF Crash, disk, bounds, DiskTypeOK, BoundsTypeOK
  <2>5. CASE Edit
    <3>1. content' \in [Target -> Image]
      BY <2>5, EditImageTyped DEF Edit, DiskTypeOK
    <3>2. BoundsTypeOK'
      BY <2>5, EngineAssumption DEF Edit, BoundsTypeOK
    <3>3. QED
      BY <2>5, <3>1, <3>2 DEF Edit, process, DiskTypeOK, ProcessTypeOK
  <2>6. QED
    BY <2>1, <2>2, <2>3, <2>4, <2>5, CallerTyped, RollTyped, ScanTyped
       DEF Next, ProcessStep
<1>3. QED
  BY <1>1, <1>2, PTL DEF Spec

-------------------------------------------------------------------------------
(* The journal's records come and go in an order a later scan can rely on. *)

BeforeIntent == {"idle", "captured", "queued", "payload", "check", "intent"}

JournalInv ==
  /\ IntentReplayable
  /\ committed \subseteq intent
  /\ \A t \in Txn :
       /\ pc[t] \in BeforeIntent \cup {"discard"} => t \notin intent
       /\ pc[t] \in {"check", "intent"} => t \in planned /\ PayloadsComplete(t)
       /\ pc[t] \in {"apply", "mark"} => t \in intent

LEMMA JournalInit == Init => JournalInv
BY DEF Init, JournalInv, IntentReplayable

LEMMA JournalCaller ==
  ASSUME TypeOK, JournalInv, NEW t \in Txn, CallerStep(t)
  PROVE  JournalInv'
<1> USE DEF TypeOK, DiskTypeOK, ProcessTypeOK, JournalInv, IntentReplayable,
            PayloadsComplete, BeforeIntent
<1>1. CASE Capture(t)
  BY <1>1 DEF Capture, GoTo, disk
<1>2. CASE Request(t)
  BY <1>2 DEF Request, disk
<1>3. CASE BindPlan(t)
  BY <1>3 DEF BindPlan, GoTo, Finish
<1>4. CASE CheckPrecondition(t)
  BY <1>4 DEF CheckPrecondition, GoTo, Finish, disk
<1>5. ASSUME NEW o \in Outcomes, NEW i \in PayloadOps(t), InstallPayload(t, i, o)
      PROVE  JournalInv'
  BY <1>5 DEF InstallPayload, Continue, GoTo, Finish
<1>6. ASSUME NEW o \in Outcomes, InstallPlan(t, o)
      PROVE  JournalInv'
  BY <1>6 DEF InstallPlan, Continue, GoTo, Finish, Written
<1>7. ASSUME NEW o \in Outcomes, InstallIntent(t, o)
      PROVE  JournalInv'
  BY <1>7 DEF InstallIntent, Continue, GoTo, Finish, Written
<1>8. QED
  BY <1>1, <1>2, <1>3, <1>4, <1>5, <1>6, <1>7 DEF CallerStep

LEMMA JournalRoll ==
  ASSUME TypeOK, JournalInv, NEW t \in Txn, RollStep(t)
  PROVE  JournalInv'
<1> USE DEF TypeOK, DiskTypeOK, ProcessTypeOK, JournalInv, IntentReplayable,
            PayloadsComplete, BeforeIntent
<1>1. ASSUME NEW i \in Indices(t), AlreadyApplied(t, i)
      PROVE  JournalInv'
  BY <1>1 DEF AlreadyApplied, GoTo, disk
<1>2. ASSUME NEW i \in Indices(t), Mismatch(t, i)
      PROVE  JournalInv'
  BY <1>2 DEF Mismatch, Finish
<1>3. ASSUME NEW i \in Indices(t), TearAppend(t, i)
      PROVE  JournalInv'
  BY <1>3 DEF TearAppend, Finish, Die
<1>4. ASSUME NEW o \in Outcomes, NEW i \in Indices(t), Apply(t, i, o)
      PROVE  JournalInv'
  BY <1>4 DEF Apply, Continue, GoTo, Finish
<1>5. ASSUME NEW o \in Outcomes, NEW i \in Indices(t), Mark(t, i, o)
      PROVE  JournalInv'
  BY <1>5 DEF Mark, Continue, GoTo, Finish
<1>6. ASSUME NEW o \in Outcomes, Commit(t, o)
      PROVE  JournalInv'
  BY <1>6 DEF Commit, Finish
<1>7. CASE VerifyFails(t)
  BY <1>7 DEF VerifyFails, Finish, disk
<1>8. QED
  BY <1>1, <1>2, <1>3, <1>4, <1>5, <1>6, <1>7 DEF RollStep

LEMMA JournalScan ==
  ASSUME TypeOK, JournalInv, NEW t \in Txn, ScanStep(t)
  PROVE  JournalInv'
<1> USE DEF TypeOK, DiskTypeOK, ProcessTypeOK, JournalInv, IntentReplayable,
            PayloadsComplete, BeforeIntent
<1>1. CASE Recognize(t)
  BY <1>1 DEF Recognize, disk
<1>2. CASE StopAt(t)
  BY <1>2 DEF StopAt, disk
<1>3. CASE RollForward(t)
  BY <1>3 DEF RollForward, GoTo, IsIntended, disk
<1>4. CASE Discard(t)
  BY <1>4 DEF Discard, GoTo, IsDiscarded, disk
<1>5. CASE RemoveEntry(t)
  BY <1>5 DEF RemoveEntry, process
<1>6. CASE FinishDiscard(t)
  BY <1>6 DEF FinishDiscard, disk
<1>7. QED
  BY <1>1, <1>2, <1>3, <1>4, <1>5, <1>6 DEF ScanStep

LEMMA JournalStep == TypeOK /\ JournalInv /\ [Next]_vars => JournalInv'
<1> SUFFICES ASSUME TypeOK, JournalInv, [Next]_vars PROVE JournalInv'
  OBVIOUS
<1> USE DEF TypeOK, DiskTypeOK, ProcessTypeOK, JournalInv, IntentReplayable,
            PayloadsComplete, BeforeIntent
<1>1. CASE UNCHANGED vars
  BY <1>1 DEF vars
<1>2. CASE OpenProject
  BY <1>2 DEF OpenProject, disk
<1>3. CASE Launch
  BY <1>3 DEF Launch, disk
<1>4. CASE Crash
  BY <1>4 DEF Crash, Die, disk
<1>5. CASE Edit
  BY <1>5 DEF Edit, process
<1>6. QED
  BY <1>1, <1>2, <1>3, <1>4, <1>5, JournalCaller, JournalRoll, JournalScan
     DEF Next, ProcessStep

\* An intended transaction can always be replayed: plan.json and every payload
\* outlive intent.json, whatever crashed, failed or was discarded.
THEOREM IntentIsReplayable == Spec => []IntentReplayable
<1>1. Spec => []TypeOK
  BY TypeCorrect
<1>2. Spec => []JournalInv
  BY <1>1, JournalInit, JournalStep, PTL DEF Spec
<1>3. JournalInv => IntentReplayable
  BY DEF JournalInv
<1>4. QED
  BY <1>2, <1>3, PTL

-------------------------------------------------------------------------------
(* One transaction at a time: in an open project the engine works for the  *)
(* holder of the write permit, during a startup scan for the lowest        *)
(* transaction directory that is left.                                     *)

Working == InEngine \cup {"discard"}

Owns(t) ==
  \/ /\ up = "open"
     /\ active = t
     /\ pc[t] \in InEngine
  \/ /\ up = "recovering"
     /\ pc[t] \in {"apply", "mark", "discard"}
     /\ t \in toScan
     /\ \A u \in toScan : t <= u

OwnerInv ==
  /\ \A t \in Txn : pc[t] \in Working => Owns(t)
  /\ up # "open" => active = NoTxn

LEMMA OwnerInit == Init => OwnerInv
BY DEF Init, Mutex!Init, OwnerInv, Working, InEngine

\* A release by the owner, or by a caller that is not the owner, leaves every
\* other owner in place.
LEMMA FinishOwner ==
  ASSUME TypeOK, OwnerInv, NEW t \in Txn, NEW answer,
         pc[t] \in Working \/ Mutex!IsActive(t), Finish(t, answer)
  PROVE  OwnerInv'
<1> USE DEF TypeOK, ProcessTypeOK, OwnerInv, Owns, Working, InEngine
<1>1. t \in Nat /\ t # NoTxn
  BY PlanAssumption, EngineAssumption
<1>2. pc' = [pc EXCEPT ![t] = "done"]
  BY DEF Finish
<1>3. CASE up = "open" /\ Mutex!Release(t) /\ UNCHANGED <<up, toScan>>
  <2>1. active = t
    BY <1>3 DEF Mutex!IsActive
  <2>2. \A u \in Txn \ {t} : pc'[u] \notin Working
    BY <1>2, <1>3, <2>1
  <2>3. QED
    BY <1>2, <1>3, <2>2
<1>4. CASE up = "recovering" /\ toScan' = toScan \ {t} /\ UNCHANGED <<up, active, waiters>>
  BY <1>2, <1>4
<1>5. CASE up = "recovering" /\ up' = "blocked" /\ UNCHANGED <<toScan, active, waiters>>
  <2>1. t \in toScan /\ \A u \in toScan : t <= u
    BY <1>1, <1>5 DEF Mutex!IsActive
  <2>2. \A u \in Txn \ {t} : pc'[u] \notin Working
    <3> SUFFICES ASSUME NEW u \in Txn \ {t}, pc[u] \in Working PROVE FALSE
      BY <1>2
    <3>1. u \in toScan /\ u <= t /\ t <= u
      BY <1>5, <2>1
    <3>2. u \in Nat /\ t \in Nat
      BY PlanAssumption
    <3>3. QED
      BY <3>1, <3>2
  <2>3. QED
    BY <1>2, <1>5, <2>2
<1>6. QED
  BY <1>3, <1>4, <1>5 DEF Finish

\* A step that keeps t at work, or puts the owner to work, keeps the owners.
LEMMA GoToOwner ==
  ASSUME TypeOK, OwnerInv, NEW t \in Txn, NEW stage, GoTo(t, stage),
         pc'[t] \in Working => Owns(t)'
  PROVE  OwnerInv'
BY DEF GoTo, TypeOK, ProcessTypeOK, OwnerInv, Owns, Working, InEngine

LEMMA ContinueOwner ==
  ASSUME TypeOK, OwnerInv, NEW t \in Txn, NEW o, NEW stage \in InEngine, NEW answer,
         up = "recovering" => stage \in {"apply", "mark"},
         pc[t] \in Working \/ Mutex!IsActive(t), pc[t] # "discard",
         Mutex!IsActive(t) => up = "open", Continue(t, o, stage, answer)
  PROVE  OwnerInv'
<1>1. CASE GoTo(t, stage)
  <2>1. Owns(t)'
    BY <1>1 DEF GoTo, TypeOK, ProcessTypeOK, OwnerInv, Owns, Working, InEngine, Mutex!IsActive
  <2>2. QED
    BY <1>1, <2>1, GoToOwner
<1>2. CASE Finish(t, answer)
  BY <1>2, FinishOwner
<1>3. QED
  BY <1>1, <1>2 DEF Continue

LEMMA OwnerCaller ==
  ASSUME TypeOK, OwnerInv, NEW t \in Txn, CallerStep(t)
  PROVE  OwnerInv'
<1> USE DEF TypeOK, ProcessTypeOK, OwnerInv, Owns, Working, InEngine
<1>0. t # NoTxn
  BY EngineAssumption
<1>a. Mutex!IsActive(t) => up = "open"
  BY <1>0 DEF Mutex!IsActive
<1>1. CASE Capture(t)
  BY <1>1 DEF Capture, GoTo
<1>2. CASE Request(t)
  <2>1. \A u \in Txn : pc'[u] \in Working => active = u /\ active' = u
    BY <1>2, <1>0, EngineAssumption DEF Request, Mutex!Acquire
  <2>2. QED
    BY <1>2, <2>1 DEF Request
<1>3. CASE BindPlan(t)
  <2>1. CASE GoTo(t, "payload")
    BY <1>3, <1>a, <2>1 DEF BindPlan, GoTo, Mutex!IsActive
  <2>2. CASE Finish(t, "refused")
    BY <1>3, <2>2, FinishOwner DEF BindPlan
  <2>3. QED
    BY <1>3, <2>1, <2>2 DEF BindPlan
<1>4. CASE CheckPrecondition(t)
  BY <1>4, FinishOwner DEF CheckPrecondition, GoTo
<1>5. ASSUME NEW o \in Outcomes, NEW i \in PayloadOps(t), InstallPayload(t, i, o)
      PROVE  OwnerInv'
  BY <1>5, <1>a, ContinueOwner DEF InstallPayload
<1>6. ASSUME NEW o \in Outcomes, InstallPlan(t, o)
      PROVE  OwnerInv'
  BY <1>6, <1>a, ContinueOwner DEF InstallPlan
<1>7. ASSUME NEW o \in Outcomes, InstallIntent(t, o)
      PROVE  OwnerInv'
  BY <1>7, <1>a, ContinueOwner DEF InstallIntent
<1>8. QED
  BY <1>1, <1>2, <1>3, <1>4, <1>5, <1>6, <1>7 DEF CallerStep

LEMMA OwnerRoll ==
  ASSUME TypeOK, OwnerInv, NEW t \in Txn, RollStep(t)
  PROVE  OwnerInv'
<1> USE DEF TypeOK, ProcessTypeOK, OwnerInv, Owns, Working, InEngine
<1>0. t # NoTxn
  BY EngineAssumption
<1>a. Mutex!IsActive(t) => up = "open"
  BY <1>0 DEF Mutex!IsActive
<1>1. ASSUME NEW i \in Indices(t), AlreadyApplied(t, i)
      PROVE  OwnerInv'
  BY <1>1 DEF AlreadyApplied, GoTo
<1>2. ASSUME NEW i \in Indices(t), Mismatch(t, i)
      PROVE  OwnerInv'
  BY <1>2, FinishOwner DEF Mismatch
<1>3. ASSUME NEW i \in Indices(t), TearAppend(t, i)
      PROVE  OwnerInv'
  <2>1. CASE Die
    BY <2>1 DEF Die
  <2>2. CASE Finish(t, "pending")
    BY <1>3, <2>2, FinishOwner DEF TearAppend
  <2>3. QED
    BY <1>3, <2>1, <2>2 DEF TearAppend
<1>4. ASSUME NEW o \in Outcomes, NEW i \in Indices(t), Apply(t, i, o)
      PROVE  OwnerInv'
  BY <1>4, <1>a, ContinueOwner DEF Apply
<1>5. ASSUME NEW o \in Outcomes, NEW i \in Indices(t), Mark(t, i, o)
      PROVE  OwnerInv'
  BY <1>5, <1>a, ContinueOwner DEF Mark
<1>6. ASSUME NEW o \in Outcomes, Commit(t, o)
      PROVE  OwnerInv'
  BY <1>6, FinishOwner DEF Commit
<1>7. CASE VerifyFails(t)
  BY <1>7, FinishOwner DEF VerifyFails
<1>8. QED
  BY <1>1, <1>2, <1>3, <1>4, <1>5, <1>6, <1>7 DEF RollStep

LEMMA OwnerScan ==
  ASSUME TypeOK, OwnerInv, NEW t \in Txn, ScanStep(t)
  PROVE  OwnerInv'
<1> USE DEF TypeOK, ProcessTypeOK, OwnerInv, Owns, Working, InEngine
\* While the scan has reached t, nothing is at work.
<1>0. ASSUME Reached(t), NEW u \in Txn, pc[u] \in Working PROVE FALSE
  <2>1. u \in toScan /\ u <= t /\ t <= u /\ pc[u] \in {"apply", "mark", "discard"}
    BY <1>0 DEF Reached
  <2>2. u = t
    BY <2>1, PlanAssumption
  <2>3. QED
    BY <1>0, <2>1, <2>2 DEF Reached
<1>1. CASE Recognize(t)
  BY <1>0, <1>1 DEF Recognize, Reached, mutex
<1>2. CASE StopAt(t)
  BY <1>0, <1>2 DEF StopAt, Reached, mutex
<1>3. CASE RollForward(t)
  BY <1>0, <1>3 DEF RollForward, Reached, GoTo
<1>4. CASE Discard(t)
  BY <1>0, <1>4 DEF Discard, Reached, GoTo
<1>5. CASE RemoveEntry(t)
  BY <1>5 DEF RemoveEntry, process
<1>6. CASE FinishDiscard(t)
  <2>1. up = "recovering" /\ t \in toScan /\ \A u \in toScan : t <= u
    BY <1>6 DEF FinishDiscard
  <2>2. \A u \in Txn \ {t} : pc[u] \notin Working
    <3> SUFFICES ASSUME NEW u \in Txn \ {t}, pc[u] \in Working PROVE FALSE
      OBVIOUS
    <3>1. u \in toScan /\ u <= t /\ t <= u
      BY <2>1
    <3>2. QED
      BY <3>1, PlanAssumption
  <2>3. QED
    BY <1>6, <2>1, <2>2 DEF FinishDiscard, mutex
<1>7. QED
  BY <1>1, <1>2, <1>3, <1>4, <1>5, <1>6 DEF ScanStep

LEMMA OwnerStep == TypeOK /\ OwnerInv /\ [Next]_vars => OwnerInv'
<1> SUFFICES ASSUME TypeOK, OwnerInv, [Next]_vars PROVE OwnerInv'
  OBVIOUS
<1> USE DEF TypeOK, ProcessTypeOK, OwnerInv, Owns, Working, InEngine
<1>1. CASE UNCHANGED vars
  BY <1>1 DEF vars
<1>2. CASE OpenProject
  BY <1>2 DEF OpenProject, mutex
<1>3. CASE Launch
  BY <1>3 DEF Launch, mutex
<1>4. CASE Crash
  BY <1>4 DEF Crash, Die
<1>5. CASE Edit
  BY <1>5 DEF Edit, process
<1>6. QED
  BY <1>1, <1>2, <1>3, <1>4, <1>5, OwnerCaller, OwnerRoll, OwnerScan
     DEF Next, ProcessStep

\* No two transactions are between their plan and their answer at once.
THEOREM TransactionsAreExclusive == Spec => []OneAtATime
<1>1. Spec => []TypeOK
  BY TypeCorrect
<1>2. Spec => []OwnerInv
  BY <1>1, OwnerInit, OwnerStep, PTL DEF Spec
<1>3. OwnerInv => OneAtATime
  BY PlanAssumption DEF OwnerInv, Owns, OneAtATime, Working
<1>4. QED
  BY <1>2, <1>3, PTL

-------------------------------------------------------------------------------
(* What reaches the managed files: nothing ahead of its intent, nothing    *)
(* twice, nothing behind a torn line.  A plan's old images stay free of    *)
(* the transaction's own writes, which is what makes replaying it safe.    *)

WrittenBy(image, writers) == \A n \in DOMAIN image : image[n].by \in writers \cup {Outside}

WritesOnce(image) == \A m, n \in DOMAIN image :
  /\ image[m].by = image[n].by /\ image[m].by # Outside => m = n
  /\ m < n => image[m].whole

\* An image t may append to.
Appendable(t, image) == \A m, n \in DOMAIN image :
  /\ image[m].whole
  /\ image[m].by # t
  /\ image[m].by = image[n].by /\ image[m].by # Outside => m = n

AppendBases == \A t \in Txn : \A i \in Indices(t) :
  OpMode(t, i) = "append" => Appendable(t, old[t][OpTarget(t, i)])

ContentInv ==
  /\ \A x \in Target : WrittenBy(content[x], intent) /\ WritesOnce(content[x])
  /\ \A t \in Txn, x \in Target : WrittenBy(old[t][x], intent)
  /\ AppendBases

LEMMA AppendAtoms ==
  ASSUME NEW image \in Image, NEW a \in Atom
  PROVE  /\ DOMAIN image = 1 .. Len(image)
         /\ Len(image) \in Nat
         /\ DOMAIN Append(image, a) = 1 .. Len(image) + 1
         /\ \A n \in 1 .. Len(image) : Append(image, a)[n] = image[n]
         /\ Append(image, a)[Len(image) + 1] = a
BY AppendProperties, LenProperties DEF Image

LEMMA AppendOnTop ==
  ASSUME NEW t \in Txn, NEW image \in Image, NEW w \in BOOLEAN, NEW writers,
         t \in writers, WrittenBy(image, writers), Appendable(t, image)
  PROVE  /\ WrittenBy(Append(image, [by |-> t, whole |-> w]), writers)
         /\ WritesOnce(Append(image, [by |-> t, whole |-> w]))
<1> DEFINE a == [by |-> t, whole |-> w]
<1>1. a \in Atom /\ a.by = t
  BY DEF Atom
<1> HIDE DEF a
<1>2. WrittenBy(Append(image, a), writers)
  BY <1>1, AppendAtoms DEF WrittenBy
<1>3. WritesOnce(Append(image, a))
  <2> SUFFICES ASSUME NEW m \in DOMAIN Append(image, a), NEW n \in DOMAIN Append(image, a)
               PROVE  /\ /\ Append(image, a)[m].by = Append(image, a)[n].by
                         /\ Append(image, a)[m].by # Outside
                         => m = n
                      /\ m < n => Append(image, a)[m].whole
    BY DEF WritesOnce
  <2>1. m \in 1 .. Len(image) + 1 /\ n \in 1 .. Len(image) + 1 /\ Len(image) \in Nat
    BY <1>1, AppendAtoms
  <2>2. CASE m \in 1 .. Len(image) /\ n \in 1 .. Len(image)
    BY <1>1, <2>2, AppendAtoms DEF Appendable
  <2>3. CASE m = Len(image) + 1 /\ n \in 1 .. Len(image)
    BY <1>1, <2>1, <2>3, AppendAtoms DEF Appendable
  <2>4. CASE m \in 1 .. Len(image) /\ n = Len(image) + 1
    BY <1>1, <2>1, <2>4, AppendAtoms DEF Appendable
  <2>5. CASE m = Len(image) + 1 /\ n = Len(image) + 1
    BY <2>1, <2>5
  <2>6. QED
    BY <2>1, <2>2, <2>3, <2>4, <2>5
<1>4. QED
  BY <1>2, <1>3 DEF a

LEMMA NewImageOnce ==
  ASSUME NEW t \in Txn, NEW i \in Indices(t), NEW image \in Image, NEW writers,
         t \in writers, WrittenBy(image, writers),
         OpMode(t, i) = "append" => Appendable(t, image)
  PROVE  WrittenBy(NewImage(t, i, image), writers) /\ WritesOnce(NewImage(t, i, image))
<1>1. CASE OpMode(t, i) = "replace"
  BY <1>1 DEF NewImage, Whole, WrittenBy, WritesOnce
<1>2. CASE OpMode(t, i) = "delete"
  BY <1>2 DEF NewImage, Absent, WrittenBy, WritesOnce
<1>3. CASE OpMode(t, i) = "append"
  BY <1>3, AppendOnTop DEF NewImage, Whole
<1>4. QED
  BY <1>1, <1>2, <1>3, OpsTyped DEF Mode

LEMMA EditImageOnce ==
  ASSUME NEW image \in EditImages \cup {Absent}, NEW writers
  PROVE  WrittenBy(image, writers) /\ WritesOnce(image)
<1>1. CASE image = Absent
  BY <1>1 DEF Absent, WrittenBy, WritesOnce
<1>2. CASE image \in EditImages
  <2> DEFINE EditAtom == [by : {Outside}, whole : {TRUE}]
  <2>1. image \in Seq(EditAtom)
    BY <1>2, PlanAssumption
  <2> HIDE DEF EditAtom
  <2>2. DOMAIN image = 1 .. Len(image)
    BY <2>1, LenProperties
  <2>3. \A n \in DOMAIN image : image[n] \in EditAtom
    BY <2>1, <2>2, ElementOfSeq
  <2>4. QED
    BY <2>3 DEF EditAtom, WrittenBy, WritesOnce
<1>3. QED
  BY <1>1, <1>2

LEMMA ContentInit == Init => ContentInv
<1> SUFFICES ASSUME Init PROVE ContentInv
  OBVIOUS
<1>1. \A x \in Target : content[x] \in EditImages \cup {Absent}
  BY DEF Init
<1>2. \A t \in Txn, x \in Target : old[t][x] = Absent
  BY DEF Init
<1>3. \A t \in Txn : Appendable(t, Absent)
  BY DEF Appendable, Absent
<1>4. AppendBases
  BY <1>2, <1>3, OpsTyped DEF AppendBases
<1>5. QED
  BY <1>1, <1>2, <1>4, EditImageOnce DEF ContentInv

\* A step that leaves the files and the plans alone, and removes no intent.
LEMMA ContentFrame ==
  ASSUME ContentInv, UNCHANGED <<content, old>>, intent \subseteq intent'
  PROVE  ContentInv'
BY DEF ContentInv, AppendBases, WrittenBy, WritesOnce, Appendable

\* A plan is bound while none of its own writes can be in any file.
LEMMA ContentBind ==
  ASSUME TypeOK, JournalInv, ContentInv, NEW t \in Txn, BindPlan(t)
  PROVE  ContentInv'
<1> USE DEF TypeOK, DiskTypeOK
<1>1. UNCHANGED <<content, intent>>
  BY DEF BindPlan
<1>2. CASE UNCHANGED old
  BY <1>1, <1>2, ContentFrame
<1>3. CASE ~LogLocked(t) /\ old' = [old EXCEPT ![t] = content]
  <2>1. \A u \in Txn, x \in Target : WrittenBy(old'[u][x], intent)
    BY <1>3 DEF ContentInv
  <2>2. ASSUME NEW i \in Indices(t), OpMode(t, i) = "append"
        PROVE  Appendable(t, content[OpTarget(t, i)])
    <3> DEFINE image == content[OpTarget(t, i)]
    <3>1. image \in Image /\ WrittenBy(image, intent) /\ WritesOnce(image)
      BY OpsTyped DEF ContentInv
    <3>2. t \notin intent /\ t # Outside
      BY PlanAssumption DEF BindPlan, JournalInv, BeforeIntent
    <3>3. ~HasTornTail(image)
      BY <1>3, <2>2 DEF LogLocked
    <3> HIDE DEF image
    <3>4. DOMAIN image = 1 .. Len(image) /\ Len(image) \in Nat
      BY <3>1, LenProperties DEF Image
    <3>5. \A m \in DOMAIN image : image[m].whole
      <4> SUFFICES ASSUME NEW m \in DOMAIN image PROVE image[m].whole
        OBVIOUS
      <4>1. CASE m < Len(image)
        BY <3>1, <3>4, <4>1 DEF WritesOnce
      <4>2. CASE m = Len(image)
        <5>1. image # Absent
          BY <3>4, <4>2 DEF Absent
        <5>2. QED
          BY <3>3, <4>2, <5>1 DEF HasTornTail
      <4>3. QED
        BY <3>4, <4>1, <4>2
    <3>6. QED
      BY <3>1, <3>2, <3>5 DEF Appendable, WrittenBy, WritesOnce, image
  <2>3. AppendBases'
    BY <1>3, <2>2 DEF AppendBases, ContentInv
  <2>4. QED
    BY <1>1, <2>1, <2>3 DEF ContentInv
<1>4. QED
  BY <1>2, <1>3 DEF BindPlan

\* Installing an image into one file.
LEMMA ContentInstall ==
  ASSUME TypeOK, ContentInv, NEW x \in Target, NEW image,
         content' = [content EXCEPT ![x] = image], UNCHANGED <<old, intent>>,
         WrittenBy(image, intent), WritesOnce(image)
  PROVE  ContentInv'
BY DEF TypeOK, DiskTypeOK, ContentInv, AppendBases

LEMMA ContentRoll ==
  ASSUME TypeOK, JournalInv, ContentInv, NEW t \in Txn, RollStep(t)
  PROVE  ContentInv'
<1> USE DEF TypeOK, DiskTypeOK
<1>1. ASSUME NEW i \in Indices(t), TearAppend(t, i)
      PROVE  ContentInv'
  <2>1. t \in intent
    BY <1>1 DEF TearAppend, JournalInv
  <2>2. OpTarget(t, i) \in Target
    BY OpsTyped
  <2>3. Appendable(t, old[t][OpTarget(t, i)])
    BY <1>1 DEF TearAppend, ContentInv, AppendBases
  <2>4. /\ WrittenBy(TornImage(t, old[t][OpTarget(t, i)]), intent)
        /\ WritesOnce(TornImage(t, old[t][OpTarget(t, i)]))
    BY <2>1, <2>2, <2>3, AppendOnTop DEF ContentInv, TornImage, Torn
  <2>5. QED
    BY <1>1, <2>2, <2>4, ContentInstall DEF TearAppend
<1>2. ASSUME NEW o \in Outcomes, NEW i \in Indices(t), Apply(t, i, o)
      PROVE  ContentInv'
  <2>1. t \in intent
    BY <1>2 DEF Apply, JournalInv
  <2>2. OpTarget(t, i) \in Target
    BY OpsTyped
  <2>3. WrittenBy(New(t, i), intent) /\ WritesOnce(New(t, i))
    BY <2>1, <2>2, NewImageOnce DEF New, ContentInv, AppendBases
  <2>4. CASE Written(o)
    BY <1>2, <2>2, <2>3, <2>4, ContentInstall DEF Apply
  <2>5. CASE ~Written(o)
    BY <1>2, <2>5, ContentFrame DEF Apply
  <2>6. QED
    BY <2>4, <2>5
<1>3. ASSUME UNCHANGED <<content, old, intent>> PROVE ContentInv'
  BY <1>3, ContentFrame
<1>4. QED
  BY <1>1, <1>2, <1>3
     DEF RollStep, AlreadyApplied, Mismatch, Mark, Commit, VerifyFails, disk

LEMMA ContentStep == TypeOK /\ JournalInv /\ ContentInv /\ [Next]_vars => ContentInv'
<1> SUFFICES ASSUME TypeOK, JournalInv, ContentInv, [Next]_vars PROVE ContentInv'
  OBVIOUS
<1>1. ASSUME UNCHANGED <<content, old>>, intent \subseteq intent' PROVE ContentInv'
  BY <1>1, ContentFrame
<1>2. ASSUME NEW t \in Txn, CallerStep(t) PROVE ContentInv'
  BY <1>1, <1>2, ContentBind
     DEF CallerStep, Capture, Request, CheckPrecondition, InstallPayload, InstallPlan,
         InstallIntent, disk
<1>3. ASSUME NEW t \in Txn, ScanStep(t) PROVE ContentInv'
  BY <1>1, <1>3
     DEF ScanStep, Recognize, StopAt, RollForward, Discard, RemoveEntry, FinishDiscard, disk
<1>4. CASE Edit
  <2>1. PICK x \in Target, image \in EditImages : content' = [content EXCEPT ![x] = image]
    BY <1>4 DEF Edit
  <2>2. WrittenBy(image, intent) /\ WritesOnce(image)
    BY EditImageOnce
  <2>3. QED
    BY <1>4, <2>1, <2>2, ContentInstall DEF Edit
<1>5. CASE OpenProject \/ Launch \/ Crash \/ UNCHANGED vars
  BY <1>1, <1>5 DEF OpenProject, Launch, Crash, vars, disk
<1>6. QED
  BY <1>2, <1>3, <1>4, <1>5, ContentRoll DEF Next, ProcessStep

LEMMA ContentAlways == Spec => []ContentInv
<1>1. Spec => []TypeOK
  BY TypeCorrect
<1>2. Spec => []JournalInv
  BY <1>1, JournalInit, JournalStep, PTL DEF Spec
<1>3. QED
  BY <1>1, <1>2, ContentInit, ContentStep, PTL DEF Spec

\* Nothing a transaction writes is in a managed file before its intent.json.
THEOREM WritesFollowIntent == Spec => []WriteAhead
<1>1. ContentInv => WriteAhead
  BY DEF ContentInv, WrittenBy, WriteAhead
<1>2. QED
  BY <1>1, ContentAlways, PTL

\* Exactly-once append: however often a transaction is interrupted, fails and is
\* rolled forward again, no file holds two records of it and no torn line is
\* ever buried.
THEOREM AppendsOnce == Spec => []AppendOnce
<1>1. ContentInv => AppendOnce
  BY DEF ContentInv, WritesOnce, AppendOnce
<1>2. QED
  BY <1>1, ContentAlways, PTL

-------------------------------------------------------------------------------
(* What a caller was told, and what a startup scan leaves open.            *)

ScanInv ==
  /\ up = "recovering" => intent \ committed \subseteq toScan
  /\ \A t \in Txn :
       /\ pc[t] \in BeforeIntent => told[t] = "none"
       /\ told[t] = "committed" => t \in committed /\ AllApplied(t)
       /\ up = "open" /\ told[t] = "orphaned" => t \notin intent \ committed

LEMMA ScanInit == Init => ScanInv
BY DEF Init, ScanInv, BeforeIntent

\* Telling a caller its answer, or passing on to the next directory.
LEMMA FinishScan ==
  ASSUME TypeOK, ScanInv, NEW t \in Txn, NEW answer \in Answer, Finish(t, answer),
         answer # "orphaned",
         answer = "committed" => t \in committed' /\ AllApplied(t),
         up = "recovering" => intent' = intent,
         intent' \subseteq intent \cup {t},
         committed \subseteq committed',
         UNCHANGED applied
  PROVE  ScanInv'
<1> USE DEF TypeOK, ProcessTypeOK, ScanInv, BeforeIntent
<1>1. /\ pc' = [pc EXCEPT ![t] = "done"]
      /\ told' = [told EXCEPT ![t] = IF up = "open" THEN answer ELSE @]
      /\ \A u \in Txn : AllApplied(u)' = AllApplied(u)
  BY DEF Finish, AllApplied
<1>2. CASE up = "open" /\ UNCHANGED up
  BY <1>1, <1>2
<1>3. CASE up = "recovering" /\ UNCHANGED up /\ toScan' = toScan \ {t} /\ answer = "committed"
  BY <1>1, <1>3
<1>4. CASE up = "recovering" /\ up' = "blocked"
  BY <1>1, <1>4
<1>5. QED
  BY <1>2, <1>3, <1>4 DEF Finish

\* A stage that follows the intent, or a caller still on its way there.
LEMMA GoToScan ==
  ASSUME TypeOK, ScanInv, NEW t \in Txn, NEW stage, GoTo(t, stage),
         stage \in BeforeIntent => pc[t] \in BeforeIntent,
         \/ intent' \subseteq intent
         \/ pc[t] \in BeforeIntent /\ intent' \subseteq intent \cup {t},
         up = "recovering" => intent' = intent,
         committed' = committed,
         \A u \in Txn : applied[u] \subseteq applied'[u]
  PROVE  ScanInv'
BY DEF GoTo, TypeOK, ProcessTypeOK, ScanInv, BeforeIntent, AllApplied

LEMMA ScanCaller ==
  ASSUME TypeOK, JournalInv, OwnerInv, ScanInv, NEW t \in Txn, CallerStep(t)
  PROVE  ScanInv'
<1> USE DEF BeforeIntent
<1>0. up = "recovering" => pc[t] # "intent"
  BY DEF OwnerInv, Owns, Working, InEngine
<1>1. CASE Capture(t)
  BY <1>1, GoToScan DEF Capture, disk
<1>2. CASE Request(t)
  BY <1>2 DEF Request, disk, TypeOK, ProcessTypeOK, ScanInv, AllApplied
<1>3. CASE BindPlan(t)
  BY <1>3, GoToScan, FinishScan DEF BindPlan, Answer
<1>4. CASE CheckPrecondition(t)
  BY <1>4, GoToScan, FinishScan DEF CheckPrecondition, disk, Answer
<1>5. ASSUME NEW o \in Outcomes, NEW i \in PayloadOps(t), InstallPayload(t, i, o)
      PROVE  ScanInv'
  BY <1>5, GoToScan, FinishScan DEF InstallPayload, Continue, Answer
<1>6. ASSUME NEW o \in Outcomes, InstallPlan(t, o)
      PROVE  ScanInv'
  BY <1>6, GoToScan, FinishScan DEF InstallPlan, Continue, Answer
<1>7. ASSUME NEW o \in Outcomes, InstallIntent(t, o)
      PROVE  ScanInv'
  <2>1. /\ up # "recovering"
        /\ pc[t] = "intent"
        /\ intent' \subseteq intent \cup {t}
        /\ UNCHANGED <<committed, applied>>
    BY <1>0, <1>7 DEF InstallIntent
  <2>2. CASE GoTo(t, "apply")
    BY <2>1, <2>2, GoToScan
  <2>3. CASE Finish(t, "refused")
    BY <2>1, <2>3, FinishScan DEF Answer
  <2>4. QED
    BY <1>7, <2>2, <2>3 DEF InstallIntent, Continue
<1>8. QED
  BY <1>1, <1>2, <1>3, <1>4, <1>5, <1>6, <1>7 DEF CallerStep

LEMMA ScanRoll ==
  ASSUME TypeOK, JournalInv, OwnerInv, ScanInv, NEW t \in Txn, RollStep(t)
  PROVE  ScanInv'
<1> USE DEF BeforeIntent
<1>1. ASSUME NEW i \in Indices(t), AlreadyApplied(t, i)
      PROVE  ScanInv'
  BY <1>1, GoToScan DEF AlreadyApplied, disk
<1>2. ASSUME NEW i \in Indices(t), Mismatch(t, i)
      PROVE  ScanInv'
  BY <1>2, FinishScan DEF Mismatch, Answer
<1>3. ASSUME NEW i \in Indices(t), TearAppend(t, i)
      PROVE  ScanInv'
  <2>1. CASE Die
    BY <1>3, <2>1
       DEF TearAppend, Die, TypeOK, ProcessTypeOK, ScanInv, AllApplied
  <2>2. CASE Finish(t, "pending")
    BY <1>3, <2>2, FinishScan DEF TearAppend, Answer
  <2>3. QED
    BY <1>3, <2>1, <2>2 DEF TearAppend
<1>4. ASSUME NEW o \in Outcomes, NEW i \in Indices(t), Apply(t, i, o)
      PROVE  ScanInv'
  BY <1>4, GoToScan, FinishScan DEF Apply, Continue, Answer
<1>5. ASSUME NEW o \in Outcomes, NEW i \in Indices(t), Mark(t, i, o)
      PROVE  ScanInv'
  <2>1. \A u \in Txn : applied[u] \subseteq applied'[u]
    BY <1>5 DEF Mark, TypeOK, DiskTypeOK
  <2>2. CASE GoTo(t, "apply")
    BY <1>5, <2>1, <2>2, GoToScan DEF Mark
  <2>3. CASE Finish(t, "pending")
    BY <1>5, <2>1, <2>3
       DEF Mark, Finish, TypeOK, ProcessTypeOK, ScanInv, AllApplied
  <2>4. QED
    BY <1>5, <2>2, <2>3 DEF Mark, Continue
<1>6. ASSUME NEW o \in Outcomes, Commit(t, o)
      PROVE  ScanInv'
  <2>1. /\ committed \subseteq committed'
        /\ o = "ok" => t \in committed'
        /\ AllApplied(t)
        /\ UNCHANGED <<intent, applied>>
    BY <1>6 DEF Commit, Written
  <2>2. QED
    BY <1>6, <2>1, FinishScan DEF Commit, Answer
<1>7. CASE VerifyFails(t)
  BY <1>7, FinishScan DEF VerifyFails, disk, Answer
<1>8. QED
  BY <1>1, <1>2, <1>3, <1>4, <1>5, <1>6, <1>7 DEF RollStep

LEMMA ScanScan ==
  ASSUME TypeOK, JournalInv, OwnerInv, ScanInv, NEW t \in Txn, ScanStep(t)
  PROVE  ScanInv'
<1> USE DEF BeforeIntent
<1>1. CASE Recognize(t)
  BY <1>1 DEF Recognize, IsComplete, Reached, disk, ScanInv, AllApplied
<1>2. CASE StopAt(t)
  BY <1>2 DEF StopAt, disk, ScanInv, AllApplied
<1>3. CASE RollForward(t)
  BY <1>3, GoToScan DEF RollForward, disk
<1>4. CASE Discard(t)
  BY <1>4, GoToScan DEF Discard, disk
<1>5. CASE RemoveEntry(t)
  BY <1>5 DEF RemoveEntry, process, ScanInv, AllApplied
<1>6. CASE FinishDiscard(t)
  <2>1. t \notin intent /\ up = "recovering"
    BY <1>6 DEF FinishDiscard, JournalInv, OwnerInv, Owns, Working, InEngine
  <2>2. QED
    BY <1>6, <2>1
       DEF FinishDiscard, disk, TypeOK, ProcessTypeOK, ScanInv, AllApplied
<1>7. QED
  BY <1>1, <1>2, <1>3, <1>4, <1>5, <1>6 DEF ScanStep

LEMMA ScanKept ==
  TypeOK /\ JournalInv /\ OwnerInv /\ ScanInv /\ [Next]_vars => ScanInv'
<1> SUFFICES ASSUME TypeOK, JournalInv, OwnerInv, ScanInv, [Next]_vars PROVE ScanInv'
  OBVIOUS
<1> USE DEF BeforeIntent
<1>1. CASE UNCHANGED vars
  BY <1>1 DEF vars, ScanInv, AllApplied
<1>2. CASE OpenProject
  BY <1>2 DEF OpenProject, disk, ScanInv, AllApplied
<1>3. CASE Launch
  <2>1. intent \subseteq toScan'
    BY <1>3 DEF Launch, Journaled, JournalInv, IntentReplayable, TypeOK, DiskTypeOK
  <2>2. QED
    BY <1>3, <2>1 DEF Launch, disk, ScanInv, AllApplied
<1>4. CASE Crash
  BY <1>4 DEF Crash, Die, disk, TypeOK, ProcessTypeOK, ScanInv, AllApplied
<1>5. CASE Edit
  BY <1>5 DEF Edit, process, ScanInv, AllApplied
<1>6. QED
  BY <1>1, <1>2, <1>3, <1>4, <1>5, ScanCaller, ScanRoll, ScanScan
     DEF Next, ProcessStep

LEMMA ScanAlways == Spec => [](JournalInv /\ ScanInv)
<1>1. Spec => []TypeOK
  BY TypeCorrect
<1>2. Spec => []JournalInv
  BY <1>1, JournalInit, JournalStep, PTL DEF Spec
<1>3. Spec => []OwnerInv
  BY <1>1, OwnerInit, OwnerStep, PTL DEF Spec
<1>4. QED
  BY <1>1, <1>2, <1>3, ScanInit, ScanKept, PTL DEF Spec

\* A project opens only once every intended transaction of the processes before
\* it has been committed.
THEOREM OpenIsDecided == Spec => []OpenMeansDecided
<1>1. JournalInv /\ ScanInv /\ TypeOK => OpenMeansDecided
  BY DEF JournalInv, ScanInv, OpenMeansDecided, TypeOK, DiskTypeOK
<1>2. QED
  BY <1>1, ScanAlways, TypeCorrect, PTL

\* "committed" is never retracted: the journal of an acknowledged transaction
\* stays complete, so every later scan recognizes it and leaves its files alone.
THEOREM AnswersAreDurable == Spec => []AnswerIsDurable
<1>1. JournalInv /\ ScanInv => AnswerIsDurable
  BY DEF JournalInv, IntentReplayable, ScanInv, AnswerIsDurable
<1>2. QED
  BY <1>1, ScanAlways, PTL

===============================================================================
