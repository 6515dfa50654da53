-------------------------- MODULE ProjectLaunchProofs --------------------------
(***************************************************************************)
(* The chat of a project over any number of processes, launches, deaths    *)
(* and failing reads and writes: one terminal record per turn, nothing     *)
(* interrupted over an intended answer, nothing left open at ready.        *)
(***************************************************************************)
EXTENDS ProjectLaunch, SequenceTheorems, TLAPS

-------------------------------------------------------------------------------
(* What holds of one process by itself.                                    *)

\* A transaction is about the chat, unless it creates the project.
EntryOK(e) == IF e.kind = "create" THEN e.turn = NoTurn ELSE e.turn \in Turn

\* The transaction process p waits for is the one its stage calls for.
JobOK(p, r) ==
  /\ r.job.by = p
  /\ \/ r.pc = "creating" /\ r.job.kind = "create" /\ r.job.turn = NoTurn
     \/ r.pc = "scanning" /\ r.job.kind = "interrupted" /\ r.job.turn \in r.todo
     \/ /\ r.pc = "kernel" /\ r.job.turn = r.turn
        /\ \/ r.step = "admitting" /\ r.job.kind = "user"
           \/ r.step = "finalizing" /\ r.job.kind = "agent"
           \/ r.step = "ending" /\ r.job.kind = "failed"

ProcOK(p, r) ==
  /\ r.pc # "kernel" => r.phase = "closed" /\ r.step = "none" /\ r.own = {}
  /\ r.pc # "scanning" => r.todo = {}
  /\ r.pc \notin {"scanning", "kernel"} => r.orphans = {}
  /\ r.phase # "ready" => r.step = "none"
  /\ r.phase = "ready" => \A o \in r.orphans : o.terminalized
  /\ r.step = "none" <=> r.turn = NoTurn
  /\ r.turn # NoTurn => r.turn \in r.own
  /\ r.step = "finalizing" => r.job # NoJob
  /\ r.job # NoJob => JobOK(p, r)

TypeInv ==
  /\ TypeOK
  /\ \A p \in Process : ProcOK(p, proc[p])
  /\ \A j \in DOMAIN journal : EntryOK(journal[j])

-------------------------------------------------------------------------------
(* What a transaction that may still take effect knew of the chat.         *)

Journaled(e) == \E j \in DOMAIN journal : e = journal[j]
Awaited(e)   == \E p \in Process : e = proc[p].job /\ e # NoJob

\* The transactions that may still append their record.
Live(e) == Journaled(e) \/ Awaited(e)

\* Nothing in the first n records is about t, or is t's terminal record.
Unseen(t, n) == \A k \in 1 .. n : chat[k].turn # t
Unended(t, n) == \A k \in 1 .. n : chat[k].turn = t => chat[k].kind \notin Terminal
Begun(t, n) == \E k \in 1 .. n : chat[k] = [turn |-> t, kind |-> "user"]

\* A transaction is bound to the length of the chat: up to there the chat never
\* changes again, and beyond it the transaction has no effect.
BoundOK(e) ==
  /\ e.at <= Len(chat)
  /\ e.kind \in Terminal => Begun(e.turn, e.at) /\ Unended(e.turn, e.at)
  /\ e.kind = "user" => Unseen(e.turn, e.at)

\* No trace of a turn that has only just begun.
NoTrace(t) == Unseen(t, Len(chat)) /\ \A e \in Entry : Live(e) => e.turn # t

TurnInv ==
  /\ \A t \in Turn \ used : NoTrace(t) /\ \A p \in Process : t \notin proc[p].own
  /\ \A p, q \in Process : p # q => proc[p].own \cap proc[q].own = {}
  /\ \A p \in Process :
       /\ \A t \in proc[p].todo : Begun(t, Len(chat))
       /\ proc[p].step = "admitting" /\ proc[p].job = NoJob => NoTrace(proc[p].turn)
       /\ proc[p].step = "running" =>
            /\ proc[p].base <= Len(chat)
            /\ Begun(proc[p].turn, proc[p].base)
            /\ Unended(proc[p].turn, proc[p].base)

ChatInv ==
  /\ \A e \in Entry : Live(e) => BoundOK(e)
  /\ TurnInv
  /\ OneTerminalRecord

-------------------------------------------------------------------------------
(* As long as only the holder of the lease has begun transactions.         *)

InterruptedBy(t) ==
  \/ \E k \in DOMAIN chat : chat[k] = [turn |-> t, kind |-> "interrupted"]
  \/ \E e \in Entry : Live(e) /\ e.kind = "interrupted" /\ e.turn = t

\* The user record of p's turn is on its way, or the agent works on it.
Underway(p) ==
  \/ proc[p].step = "running"
  \/ proc[p].step = "admitting" /\ proc[p].job # NoJob

\* The stages of an opening or a creation that run under the lease.
Opens == {"creating", "recovering", "scanning"}

LeaseInv ==
  /\ \A p \in Process : proc[p].pc \in Opens => lock = p
  /\ ~unleased =>
       /\ \A p \in Process : proc[p].job # NoJob \/ proc[p].step = "running" => lock = p
       /\ \A p \in Process : proc[p].pc = "scanning" =>
            \A e \in Entry : Journaled(e) => e.kind # "agent"
       /\ \A e \in Entry : Live(e) /\ e.kind = "agent" => ~InterruptedBy(e.turn)
       /\ \A p \in Process : Underway(p) => ~InterruptedBy(proc[p].turn)

-------------------------------------------------------------------------------
(* The creation of the project, and what a scan has still to account for.  *)

CreateInv ==
  /\ ~folder => \A p \in Process : proc[p].pc \in {"off", "making"}
  /\ ~folder => manifest = NoProcess /\ \A e \in Entry : ~Live(e)
  /\ \A p \in Process : proc[p].pc \in {"making", "locking", "creating"} => manifest # p
  /\ \A e \in Entry : Live(e) /\ e.kind = "create" =>
       /\ proc[e.by].pc \notin {"making", "locking"}
       /\ proc[e.by].pc = "creating" => proc[e.by].job = e
  /\ manifest = NoProcess =>
       /\ chat = << >>
       /\ \A p \in Process : proc[p].pc \notin {"scanning", "kernel"}
       /\ \A e \in Entry : Live(e) => e.kind = "create"

Unsettled(p) == {t \in Turn : [turn |-> t, terminalized |-> FALSE] \in proc[p].orphans}

ScanInv == ~unleased =>
  \A p \in Process : lock = p /\ ~proc[p].skipped =>
    /\ proc[p].pc = "scanning" => Orphans \subseteq proc[p].todo \union Unsettled(p)
    /\ proc[p].pc = "kernel" => Orphans \subseteq proc[p].own \union Unsettled(p)

-------------------------------------------------------------------------------
(* Sequences.                                                              *)

LEMMA RemoveAtElements ==
  ASSUME NEW S, NEW s \in Seq(S), NEW i \in 1 .. Len(s)
  PROVE  /\ RemoveAt(s, i) \in Seq(S)
         /\ \A j \in 1 .. Len(RemoveAt(s, i)) : \E k \in 1 .. Len(s) : RemoveAt(s, i)[j] = s[k]
<1> DEFINE a == SubSeq(s, 1, i - 1)
           b == SubSeq(s, i + 1, Len(s))
<1>0. Len(s) \in Nat /\ i \in Int
  BY LenProperties
<1>1. a \in Seq(S) /\ b \in Seq(S)
  BY <1>0, SubSeqProperties
<1>2. \A j \in 1 .. Len(a) : a[j] = s[j] /\ j \in 1 .. Len(s)
  BY <1>0, SubSeqProperties
<1>3. \A j \in 1 .. Len(b) : b[j] = s[i + j] /\ i + j \in 1 .. Len(s)
  BY <1>0, SubSeqProperties
<1> HIDE DEF a, b
<1>4. a \o b \in Seq(S) /\ Len(a \o b) = Len(a) + Len(b)
  BY <1>1, ConcatProperties
<1>5. \A j \in 1 .. Len(a \o b) : (a \o b)[j] = IF j <= Len(a) THEN a[j] ELSE b[j - Len(a)]
  BY <1>1, <1>4, ConcatProperties
<1>6. Len(a) \in Nat /\ Len(b) \in Nat
  BY <1>1, LenProperties
<1>7. \A j \in 1 .. Len(a \o b) : j > Len(a) => j - Len(a) \in 1 .. Len(b)
  BY <1>4, <1>6
<1>8. \A j \in 1 .. Len(a \o b) : \E k \in 1 .. Len(s) : (a \o b)[j] = s[k]
  BY <1>2, <1>3, <1>4, <1>5, <1>6, <1>7
<1>9. QED
  BY <1>4, <1>8 DEF a, b, RemoveAt

\* A committed transaction leaves the journal; no other enters it.
LEMMA SettledElements ==
  ASSUME journal \in Seq(Entry), NEW e, Settled(e)
  PROVE  /\ journal' \in Seq(Entry)
         /\ \A j \in DOMAIN journal' : \E k \in DOMAIN journal : journal'[j] = journal[k]
<1>1. CASE UNCHANGED journal
  BY <1>1
<1>2. ASSUME NEW i \in DOMAIN journal, journal' = RemoveAt(journal, i)
      PROVE  /\ journal' \in Seq(Entry)
             /\ \A j \in DOMAIN journal' : \E k \in DOMAIN journal : journal'[j] = journal[k]
  <2>1. DOMAIN journal = 1 .. Len(journal)
    BY LenProperties
  <2>2. journal' \in Seq(Entry)
    BY <1>2, <2>1, RemoveAtElements
  <2>3. DOMAIN journal' = 1 .. Len(journal')
    BY <2>2, LenProperties
  <2>4. QED
    BY <1>2, <2>1, <2>2, <2>3, RemoveAtElements
<1>3. QED
  BY <1>1, <1>2 DEF Settled

LEMMA TailElements ==
  ASSUME NEW S, NEW s \in Seq(S), s # << >>
  PROVE  /\ Head(s) \in S /\ Head(s) = s[1] /\ 1 \in DOMAIN s
         /\ Tail(s) \in Seq(S)
         /\ \A j \in DOMAIN Tail(s) : \E k \in DOMAIN s : Tail(s)[j] = s[k]
<1>1. /\ Len(s) \in Nat /\ Len(s) # 0
      /\ DOMAIN s = 1 .. Len(s)
      /\ Tail(s) \in Seq(S) /\ Len(Tail(s)) = Len(s) - 1
      /\ DOMAIN Tail(s) = 1 .. Len(Tail(s))
      /\ \A j \in 1 .. Len(Tail(s)) : Tail(s)[j] = s[j + 1] /\ j + 1 \in 1 .. Len(s)
  BY HeadTailProperties, LenProperties, EmptySeq
<1>2. 1 \in DOMAIN s
  BY <1>1
<1>3. Head(s) = s[1] /\ s[1] \in S
  BY <1>1, <1>2, ElementOfSeq
<1>4. QED
  BY <1>1, <1>2, <1>3

LEMMA AppendElements ==
  ASSUME NEW S, NEW s \in Seq(S), NEW a \in S
  PROVE  /\ Append(s, a) \in Seq(S)
         /\ Len(s) \in Nat
         /\ DOMAIN s = 1 .. Len(s)
         /\ Len(Append(s, a)) = Len(s) + 1
         /\ DOMAIN Append(s, a) = 1 .. Len(s) + 1
         /\ \A k \in 1 .. Len(s) : Append(s, a)[k] = s[k]
         /\ Append(s, a)[Len(s) + 1] = a
BY AppendProperties, LenProperties

-------------------------------------------------------------------------------
(* Type correctness.                                                       *)

\* The transaction a process waits for.
LEMMA JobTyped ==
  ASSUME TypeInv, NEW p \in Process, proc[p].job # NoJob
  PROVE  /\ proc[p].job \in Entry
         /\ EntryOK(proc[p].job)
         /\ JobOK(p, proc[p])
<1>1. proc[p] \in Proc /\ ProcOK(p, proc[p])
  BY DEF TypeInv, TypeOK
<1>2. proc[p].job \in Entry /\ JobOK(p, proc[p])
  BY <1>1 DEF Proc, ProcOK
<1>3. EntryOK(proc[p].job)
  BY <1>1, <1>2 DEF EntryOK, JobOK, Proc, ProcOK
<1>4. QED
  BY <1>2, <1>3

\* What a process goes on as once its transaction has answered.
LEMMA ToldFacts ==
  ASSUME TypeInv, NEW p \in Process, NEW ok \in BOOLEAN, proc[p].job # NoJob
  PROVE  /\ Told(p, ok) \in Proc
         /\ ProcOK(p, Told(p, ok))
         /\ Told(p, ok).job = NoJob
         /\ Told(p, ok).own \subseteq proc[p].own
         /\ Told(p, ok).todo \subseteq proc[p].todo
         /\ \/ Told(p, ok).pc = proc[p].pc
            \/ proc[p].pc = "creating" /\ Told(p, ok).pc \in {"kernel", "off"}
         /\ Told(p, ok).step # "admitting"
         /\ Told(p, ok).step = "running" =>
              /\ proc[p].pc = "kernel" /\ proc[p].step = "admitting"
              /\ ok /\ Told(p, ok).base = proc[p].job.at + 1
              /\ Told(p, ok).turn = proc[p].turn
<1>1. /\ proc[p] \in Proc /\ ProcOK(p, proc[p])
      /\ proc[p].job \in Entry
      /\ JobOK(p, proc[p])
  BY JobTyped DEF TypeInv, TypeOK
<1>2. CASE proc[p].pc = "creating"
  BY <1>1, <1>2 DEF Told, Off, NoJob, Proc, ProcOK
<1>3. CASE proc[p].pc = "scanning"
  <2>1. [turn |-> proc[p].job.turn, terminalized |-> ok] \in [turn : Turn, terminalized : BOOLEAN]
    BY <1>1, <1>3 DEF JobOK, Proc
  <2> DEFINE o == [turn |-> proc[p].job.turn, terminalized |-> ok]
             me == [proc[p] EXCEPT !.job = NoJob]
  <2>2. me \in Proc /\ me.pc = "scanning" /\ me.step = "none"
    BY <1>1, <1>3 DEF Proc, ProcOK
  <2>3. Told(p, ok) = [me EXCEPT !.todo = me.todo \ {proc[p].job.turn},
                                 !.orphans = me.orphans \union {o}]
    BY <2>2 DEF Told
  <2>4. /\ me.todo = proc[p].todo /\ me.orphans = proc[p].orphans /\ me.own = proc[p].own
        /\ me.step = proc[p].step /\ me.phase = proc[p].phase /\ me.turn = proc[p].turn
        /\ me.job = NoJob
    BY <1>1 DEF Proc
  <2> HIDE DEF me, o
  <2>5. me.todo \ {proc[p].job.turn} \in SUBSET Turn
    BY <2>2 DEF Proc
  <2>6. me.orphans \union {o} \in SUBSET [turn : Turn, terminalized : BOOLEAN]
    BY <2>1, <2>2 DEF Proc, o
  <2>7. Told(p, ok) \in Proc
    BY <2>2, <2>3, <2>5, <2>6 DEF Proc
  <2> DEFINE q == Told(p, ok)
  <2>8. /\ q.pc = "scanning" /\ q.job = NoJob /\ q.step = "none"
        /\ q.own = proc[p].own /\ q.phase = proc[p].phase /\ q.turn = proc[p].turn
        /\ q.todo = proc[p].todo \ {proc[p].job.turn}
    BY <2>2, <2>3, <2>4 DEF Proc
  <2>9. ProcOK(p, Told(p, ok))
    BY <1>1, <1>3, <2>8 DEF ProcOK
  <2>10. q.own \subseteq proc[p].own /\ q.todo \subseteq proc[p].todo
    BY <2>8
  <2>11. QED
    BY <1>3, <2>7, <2>8, <2>9, <2>10
<1>4. CASE proc[p].pc = "kernel"
  <2>1. proc[p].turn \in Turn /\ proc[p].job.turn = proc[p].turn
    BY <1>1, <1>4 DEF JobOK, ProcOK, Proc
  <2>2. proc[p].job.at + 1 \in Nat
    BY <1>1 DEF Entry
  <2>3. CASE proc[p].step = "admitting"
    BY <1>1, <1>4, <2>1, <2>2, <2>3 DEF Told, Proc, ProcOK
  <2>4. CASE proc[p].step = "finalizing"
    BY <1>1, <1>4, <2>1, <2>4 DEF Told, Proc, ProcOK
  <2>5. CASE proc[p].step = "ending"
    BY <1>1, <1>4, <2>1, <2>5 DEF Told, Proc, ProcOK
  <2>6. QED
    BY <1>1, <1>4, <2>3, <2>4, <2>5 DEF JobOK
<1>5. QED
  BY <1>1, <1>2, <1>3, <1>4 DEF JobOK

LEMMA OffTyped == ASSUME NEW p \in Process PROVE Off \in Proc /\ ProcOK(p, Off)
BY DEF Off, NoJob, Proc, ProcOK

\* A step of process p, which goes on as q.
LEMMA StepTyped ==
  ASSUME TypeInv, NEW p \in Process, NEW q \in Proc, ProcOK(p, q),
         proc' = [proc EXCEPT ![p] = q], lock' \in {lock, p, NoProcess},
         folder' \in BOOLEAN, manifest' \in Process \union {NoProcess},
         chat' \in Seq(Record), journal' \in Seq(Entry),
         \A j \in DOMAIN journal' : EntryOK(journal'[j]),
         used' \in SUBSET Turn, unleased' \in BOOLEAN,
         launches' \in 0..MaxLaunches, faults' \in 0..MaxFaults
  PROVE  TypeInv'
<1>1. proc' \in [Process -> Proc] /\ \A r \in Process : ProcOK(r, proc'[r])
  BY DEF TypeInv, TypeOK
<1>2. QED
  BY <1>1 DEF TypeInv, TypeOK

LEMMA FaultTyped ==
  ASSUME TypeInv, Fault \/ UNCHANGED budget
  PROVE  launches' \in 0..MaxLaunches /\ faults' \in 0..MaxFaults
BY LaunchAssumption DEF TypeInv, TypeOK, Fault, budget

LEMMA BecomesIs ==
  ASSUME NEW p, NEW q, Becomes(p, q)
  PROVE  /\ proc' = [proc EXCEPT ![p] = q] /\ lock' \in {lock, NoProcess}
         /\ lock' = lock \/ (lock = p /\ lock' = NoProcess /\ q.pc = "off")
BY DEF Becomes

LEMMA AppliedTyped ==
  ASSUME TypeInv, NEW e \in Entry, EntryOK(e), Applied(e)
  PROVE  chat' \in Seq(Record) /\ manifest' \in Process \union {NoProcess}
<1>1. CASE e.kind = "create"
  BY <1>1 DEF Applied, TypeInv, TypeOK, Entry
<1>2. CASE e.kind # "create"
  <2>1. [turn |-> e.turn, kind |-> e.kind] \in Record
    BY <1>2 DEF EntryOK, Entry, Record
  <2>2. Append(chat, [turn |-> e.turn, kind |-> e.kind]) \in Seq(Record)
    BY <2>1, AppendElements DEF TypeInv, TypeOK
  <2>3. QED
    BY <1>2, <2>2 DEF Applied, TypeInv, TypeOK
<1>3. QED
  BY <1>1, <1>2

\* Binding a transaction and installing its intent.
LEMMA IntendTyped ==
  ASSUME TypeInv, NEW p \in Process, NEW q \in Proc, NEW kind, NEW t, Intend(p, q, kind, t),
         kind \in Terminal \union {"user", "create"},
         t \in Turn \union {NoTurn},
         IF kind = "create" THEN t = NoTurn ELSE t \in Turn,
         ProcOK(p, [q EXCEPT !.job = [turn |-> t, kind |-> kind, by |-> p, at |-> Len(chat)]])
  PROVE  TypeInv'
<1> DEFINE e == [turn |-> t, kind |-> kind, by |-> p, at |-> Len(chat)]
<1>1. Len(chat) \in Nat
  BY LenProperties DEF TypeInv, TypeOK
<1>2. e \in Entry /\ EntryOK(e)
  BY <1>1 DEF Entry, EntryOK
<1>3. [q EXCEPT !.job = e] \in Proc
  BY <1>2 DEF Proc
<1>4. /\ proc' = [proc EXCEPT ![p] = [q EXCEPT !.job = e]]
      /\ lock' \in {lock, NoProcess}
      /\ journal' = Append(journal, e)
      /\ unleased' = (unleased \/ lock # p)
      /\ UNCHANGED <<folder, manifest, chat, used, budget>>
  BY BecomesIs DEF Intend
<1> HIDE DEF e
<1>5. /\ journal' \in Seq(Entry)
      /\ \A j \in DOMAIN journal' : EntryOK(journal'[j])
  BY <1>2, <1>4, AppendElements DEF TypeInv, TypeOK
<1>6. ProcOK(p, [q EXCEPT !.job = e])
  BY DEF e
<1>7. QED
  BY <1>3, <1>4, <1>5, <1>6, StepTyped DEF TypeInv, TypeOK, budget

LEMMA TransactionTyped ==
  ASSUME TypeInv, NEW p \in Process, Realize(p) \/ Conflicts(p) \/ StaysPending(p)
  PROVE  TypeInv'
<1> DEFINE e == proc[p].job
<1>1. e # NoJob
  BY DEF Realize, Conflicts, StaysPending
<1>2. e \in Entry /\ EntryOK(e)
  BY <1>1, JobTyped
<1>3. PICK ok \in BOOLEAN : Becomes(p, Told(p, ok))
  BY DEF Realize, Conflicts, StaysPending
<1>4. Told(p, ok) \in Proc /\ ProcOK(p, Told(p, ok))
  BY <1>1, ToldFacts
<1>5. proc' = [proc EXCEPT ![p] = Told(p, ok)] /\ lock' \in {lock, NoProcess}
  BY <1>3, BecomesIs
<1>6. chat' \in Seq(Record) /\ manifest' \in Process \union {NoProcess}
  BY <1>2, AppliedTyped
     DEF Realize, Conflicts, StaysPending, disk, TypeInv, TypeOK
<1>7. journal' \in Seq(Entry) /\ \A j \in DOMAIN journal' : EntryOK(journal'[j])
  BY SettledElements DEF Realize, Conflicts, StaysPending, disk, TypeInv, TypeOK
<1>8. launches' \in 0..MaxLaunches /\ faults' \in 0..MaxFaults
  BY FaultTyped DEF Realize, Conflicts, StaysPending
<1>9. folder' \in BOOLEAN /\ used' \in SUBSET Turn /\ unleased' \in BOOLEAN
  BY DEF Realize, Conflicts, StaysPending, disk, minted, TypeInv, TypeOK
<1> HIDE DEF e
<1>10. QED
  BY <1>4, <1>5, <1>6, <1>7, <1>8, <1>9, StepTyped

LEMMA OpeningTyped ==
  ASSUME TypeInv, NEW p \in Process,
         \/ Launch(p) \/ MakeFolder(p) \/ LockNew(p) \/ Create(p) \/ Recover(p)
         \/ SkipChat(p) \/ Interrupt(p) \/ Scanned(p)
  PROVE  TypeInv'
<1>0. proc[p] \in Proc /\ ProcOK(p, proc[p])
  BY DEF TypeInv, TypeOK
<1>1. CASE Launch(p)
  <2>1. PICK pc \in {"making", "recovering"} : proc' = [proc EXCEPT ![p].pc = pc]
    BY <1>1 DEF Launch
  <2> DEFINE q == [proc[p] EXCEPT !.pc = pc]
  <2>2. q \in Proc /\ ProcOK(p, q)
    BY <1>0, <1>1 DEF Launch, Proc, ProcOK, JobOK
  <2>3. launches' \in 0..MaxLaunches
    BY <1>1, LaunchAssumption DEF Launch, TypeInv, TypeOK
  <2>4. QED
    BY <1>1, <2>1, <2>2, <2>3, StepTyped DEF Launch, disk, minted, TypeInv, TypeOK
<1>2. CASE MakeFolder(p)
  <2> DEFINE q == [proc[p] EXCEPT !.pc = "locking"]
  <2>1. q \in Proc /\ ProcOK(p, q)
    BY <1>0, <1>2 DEF MakeFolder, Proc, ProcOK, JobOK
  <2>2. QED
    BY <1>2, <2>1, StepTyped DEF MakeFolder, minted, budget, TypeInv, TypeOK
<1>3. CASE LockNew(p)
  <2> DEFINE q == [proc[p] EXCEPT !.pc = "creating"]
  <2>1. q \in Proc /\ ProcOK(p, q)
    BY <1>0, <1>3 DEF LockNew, Proc, ProcOK, JobOK
  <2>2. \/ proc' = [proc EXCEPT ![p] = q] /\ lock' = p
        \/ proc' = [proc EXCEPT ![p] = Off] /\ lock' \in {lock, NoProcess}
    BY <1>3, BecomesIs DEF LockNew
  <2>3. QED
    BY <1>3, <2>1, <2>2, OffTyped, StepTyped
       DEF LockNew, disk, minted, budget, TypeInv, TypeOK
<1>4. CASE Create(p)
  <2> DEFINE e == [turn |-> NoTurn, kind |-> "create", by |-> p, at |-> Len(chat)]
  <2>1. ProcOK(p, [proc[p] EXCEPT !.job = e])
    BY <1>0, <1>4 DEF Create, Proc, ProcOK, JobOK
  <2>2. QED
    BY <1>0, <1>4, <2>1, IntendTyped DEF Create
<1>5. CASE Recover(p)
  <2>1. CASE journal = << >>
    <3> DEFINE q == [proc[p] EXCEPT !.pc = "scanning", !.todo = Orphans]
    <3>1. q \in Proc /\ ProcOK(p, q)
      BY <1>0, <1>5 DEF Recover, Proc, ProcOK, JobOK, Orphans
    <3>2. /\ \/ proc' = [proc EXCEPT ![p] = q]
             \/ proc' = [proc EXCEPT ![p] = Off]
          /\ lock' \in {lock, NoProcess}
      BY <1>5, <2>1, BecomesIs DEF Recover
    <3>3. UNCHANGED <<disk, minted, budget>>
      BY <1>5, <2>1 DEF Recover
    <3>4. QED
      BY <3>1, <3>2, <3>3, OffTyped, StepTyped
         DEF disk, minted, budget, TypeInv, TypeOK
  <2>2. CASE journal # << >> /\ Applies(Head(journal))
    <3> DEFINE e == Head(journal)
    <3>1. /\ Applied(e) /\ journal' = Tail(journal)
          /\ UNCHANGED <<folder, lock, proc, minted, budget>>
      BY <1>5, <2>2 DEF Recover
    <3>2. e \in Entry /\ EntryOK(e)
      BY <2>2, TailElements DEF TypeInv, TypeOK
    <3>3. journal' \in Seq(Entry) /\ \A j \in DOMAIN journal' : EntryOK(journal'[j])
      BY <2>2, <3>1, TailElements DEF TypeInv, TypeOK
    <3>4. chat' \in Seq(Record) /\ manifest' \in Process \union {NoProcess}
      BY <3>1, <3>2, AppliedTyped
    <3>5. QED
      BY <3>1, <3>3, <3>4 DEF minted, budget, TypeInv, TypeOK
  <2>3. CASE journal # << >> /\ ~Applies(Head(journal))
    BY <1>5, <2>3, OffTyped, BecomesIs, StepTyped
       DEF Recover, disk, minted, budget, TypeInv, TypeOK
  <2>4. QED
    BY <2>1, <2>2, <2>3
<1>6. CASE SkipChat(p)
  <2> DEFINE q == [proc[p] EXCEPT !.pc = "scanning", !.skipped = TRUE]
  <2>1. q \in Proc /\ ProcOK(p, q)
    BY <1>0, <1>6 DEF SkipChat, Proc, ProcOK, JobOK
  <2>2. proc' = [proc EXCEPT ![p] = q]
    BY <1>6 DEF SkipChat, TypeInv, TypeOK
  <2>3. QED
    BY <1>6, <2>1, <2>2, FaultTyped, StepTyped DEF SkipChat, disk, minted, TypeInv, TypeOK
<1>7. CASE Interrupt(p)
  <2>0. PICK t \in proc[p].todo :
          \/ Recordable(t) /\ Intend(p, proc[p], "interrupted", t)
          \/ /\ Refused(~Recordable(t))
             /\ proc' = [proc EXCEPT ![p].todo = @ \ {t},
                           ![p].orphans = @ \union {[turn |-> t, terminalized |-> FALSE]}]
             /\ UNCHANGED <<disk, lock, minted>>
    BY <1>7 DEF Interrupt
  <2>1. t \in Turn
    BY <1>0 DEF Proc
  <2>2. CASE Recordable(t) /\ Intend(p, proc[p], "interrupted", t)
    <3> DEFINE e == [turn |-> t, kind |-> "interrupted", by |-> p, at |-> Len(chat)]
    <3>1. ProcOK(p, [proc[p] EXCEPT !.job = e])
      BY <1>0, <1>7, <2>0 DEF Interrupt, Proc, ProcOK, JobOK
    <3>2. QED
      BY <1>0, <2>1, <2>2, <3>1, IntendTyped DEF Terminal
  <2>3. CASE /\ Refused(~Recordable(t))
             /\ proc' = [proc EXCEPT ![p].todo = @ \ {t},
                           ![p].orphans = @ \union {[turn |-> t, terminalized |-> FALSE]}]
             /\ UNCHANGED <<disk, lock, minted>>
    <3> DEFINE o == [turn |-> t, terminalized |-> FALSE]
               q == [proc[p] EXCEPT !.todo = @ \ {t}, !.orphans = @ \union {o}]
    <3>a. o \in [turn : Turn, terminalized : BOOLEAN]
      BY <2>1
    <3>b. q \in Proc
      <4> HIDE DEF o
      <4>1. QED
        BY <1>0, <3>a DEF Proc
    <3>c. ProcOK(p, q)
      <4> HIDE DEF o
      <4>1. QED
        BY <1>0, <1>7, <3>a DEF Interrupt, Proc, ProcOK
    <3>1. q \in Proc /\ ProcOK(p, q)
      BY <3>b, <3>c
    <3>2. proc' = [proc EXCEPT ![p] = q]
      BY <2>3 DEF TypeInv, TypeOK
    <3>3. launches' \in 0..MaxLaunches /\ faults' \in 0..MaxFaults
      BY <2>3, FaultTyped DEF Refused
    <3>4. QED
      BY <2>3, <3>1, <3>2, <3>3, StepTyped DEF disk, minted, TypeInv, TypeOK
  <2>4. QED
    BY <2>0, <2>2, <2>3
<1>8. CASE Scanned(p)
  <2> DEFINE q == [proc[p] EXCEPT !.pc = "kernel"]
  <2>1. q \in Proc /\ ProcOK(p, q)
    BY <1>0, <1>8 DEF Scanned, Proc, ProcOK
  <2>2. QED
    BY <1>8, <2>1, StepTyped DEF Scanned, disk, minted, budget, TypeInv, TypeOK
<1>9. QED
  BY <1>1, <1>2, <1>3, <1>4, <1>5, <1>6, <1>7, <1>8

LEMMA KernelTyped ==
  ASSUME TypeInv, NEW p \in Process,
         \/ Open(p) \/ Ready(p) \/ CloseBlocked(p) \/ (\E t \in Turn : Start(p, t))
         \/ Admit(p) \/ Finalize(p) \/ Terminalize(p) \/ Exit(p)
  PROVE  TypeInv'
<1>0. proc[p] \in Proc /\ ProcOK(p, proc[p])
  BY DEF TypeInv, TypeOK
<1>1. CASE Open(p)
  <2> DEFINE q == [proc[p] EXCEPT !.phase = "opening"]
  <2>1. q \in Proc /\ ProcOK(p, q)
    BY <1>0, <1>1 DEF Open, Proc, ProcOK, JobOK
  <2>2. QED
    BY <1>1, <2>1, StepTyped DEF Open, disk, minted, budget, TypeInv, TypeOK
<1>2. CASE Ready(p)
  <2>0. PICK phase \in {"ready", "blocked"} :
          /\ proc' = [proc EXCEPT ![p].phase = phase]
          /\ phase = "ready" => OrphansAreSettled(p)
    BY <1>2 DEF Ready
  <2> DEFINE q == [proc[p] EXCEPT !.phase = phase]
  <2>1. q \in Proc
    BY <1>0 DEF Proc
  <2>2. ProcOK(p, q)
    BY <1>0, <1>2, <2>0 DEF Ready, Proc, ProcOK, JobOK, OrphansAreSettled
  <2>3. launches' \in 0..MaxLaunches /\ faults' \in 0..MaxFaults
    BY <1>2, FaultTyped DEF Ready, Refused
  <2>4. QED
    BY <1>2, <2>0, <2>1, <2>2, <2>3, StepTyped DEF Ready, disk, minted, TypeInv, TypeOK
<1>3. CASE CloseBlocked(p)
  <2> DEFINE q == [proc[p] EXCEPT !.phase = "closed"]
  <2>1. q \in Proc /\ ProcOK(p, q)
    BY <1>0, <1>3 DEF CloseBlocked, Proc, ProcOK, JobOK
  <2>2. QED
    BY <1>3, <2>1, StepTyped DEF CloseBlocked, disk, minted, budget, TypeInv, TypeOK
<1>4. ASSUME NEW t \in Turn, Start(p, t) PROVE TypeInv'
  <2> DEFINE q == [proc[p] EXCEPT !.turn = t, !.step = "admitting", !.own = @ \union {t}]
  <2>0. proc' = [proc EXCEPT ![p] = q]
    BY <1>4 DEF Start, TypeInv, TypeOK
  <2>1. q \in Proc
    BY <1>0 DEF Proc
  <2>2. proc[p].job = NoJob /\ t # NoTurn
    BY <1>0, <1>4, LaunchAssumption DEF Start, ProcOK, JobOK
  <2>3. ProcOK(p, q)
    BY <1>0, <1>4, <2>2 DEF Start, Proc, ProcOK
  <2>4. QED
    BY <1>4, <2>0, <2>1, <2>3, StepTyped DEF Start, disk, budget, TypeInv, TypeOK
<1>5. CASE Admit(p)
  <2>1. CASE Intend(p, proc[p], "user", proc[p].turn)
    <3> DEFINE e == [turn |-> proc[p].turn, kind |-> "user", by |-> p, at |-> Len(chat)]
    <3>1. ProcOK(p, [proc[p] EXCEPT !.job = e])
      BY <1>0, <1>5 DEF Admit, Proc, ProcOK, JobOK
    <3>2. proc[p].turn \in Turn
      BY <1>0, <1>5 DEF Admit, Proc, ProcOK
    <3>3. QED
      BY <1>0, <2>1, <3>1, <3>2, IntendTyped
  <2>2. CASE ~Intend(p, proc[p], "user", proc[p].turn)
    <3> DEFINE q == [proc[p] EXCEPT !.step = "ending"]
    <3>1. q \in Proc /\ ProcOK(p, q)
      BY <1>0, <1>5 DEF Admit, Proc, ProcOK
    <3>2. QED
      BY <1>5, <2>2, <3>1, FaultTyped, StepTyped DEF Admit, disk, minted, TypeInv, TypeOK
  <2>3. QED
    BY <2>1, <2>2
<1>6. CASE Finalize(p)
  <2>0. proc[p].turn \in Turn
    BY <1>0, <1>6 DEF Finalize, Proc, ProcOK
  <2>1. CASE Intend(p, [proc[p] EXCEPT !.step = "finalizing"], "agent", proc[p].turn)
    <3> DEFINE e == [turn |-> proc[p].turn, kind |-> "agent", by |-> p, at |-> Len(chat)]
               q == [proc[p] EXCEPT !.step = "finalizing"]
    <3>1. q \in Proc
      BY <1>0 DEF Proc
    <3>2. e # NoJob
      BY DEF NoJob
    <3>3. ProcOK(p, [q EXCEPT !.job = e])
      BY <1>0, <1>6, <3>2 DEF Finalize, Proc, ProcOK, JobOK
    <3>4. QED
      BY <2>0, <2>1, <3>1, <3>3, IntendTyped DEF Terminal
  <2>2. CASE ~Intend(p, [proc[p] EXCEPT !.step = "finalizing"], "agent", proc[p].turn)
    <3> DEFINE q == [proc[p] EXCEPT !.step = "ending"]
    <3>1. q \in Proc /\ ProcOK(p, q)
      BY <1>0, <1>6 DEF Finalize, Proc, ProcOK
    <3>2. QED
      BY <1>6, <2>2, <3>1, StepTyped DEF Finalize, disk, minted, budget, TypeInv, TypeOK
  <2>3. QED
    BY <2>1, <2>2
<1>7. CASE Terminalize(p)
  <2>0. proc[p].turn \in Turn
    BY <1>0, <1>7 DEF Terminalize, Proc, ProcOK
  <2>1. CASE Intend(p, proc[p], "failed", proc[p].turn)
    <3> DEFINE e == [turn |-> proc[p].turn, kind |-> "failed", by |-> p, at |-> Len(chat)]
    <3>1. ProcOK(p, [proc[p] EXCEPT !.job = e])
      BY <1>0, <1>7 DEF Terminalize, Proc, ProcOK, JobOK
    <3>2. QED
      BY <1>0, <2>0, <2>1, <3>1, IntendTyped DEF Terminal
  <2>2. CASE ~Intend(p, proc[p], "failed", proc[p].turn)
    <3> DEFINE q == [proc[p] EXCEPT !.turn = NoTurn, !.step = "none"]
    <3>1. q \in Proc /\ ProcOK(p, q)
      BY <1>0, <1>7 DEF Terminalize, Proc, ProcOK
    <3>2. proc' = [proc EXCEPT ![p] = q]
      BY <1>7, <2>2 DEF Terminalize, Over, TypeInv, TypeOK
    <3>3. launches' \in 0..MaxLaunches /\ faults' \in 0..MaxFaults
      BY <1>7, <2>2, FaultTyped DEF Terminalize, Refused
    <3>4. QED
      BY <1>7, <2>2, <3>1, <3>2, <3>3, StepTyped
         DEF Terminalize, disk, minted, TypeInv, TypeOK
  <2>3. QED
    BY <2>1, <2>2
<1>8. CASE Exit(p)
  BY <1>8, OffTyped, BecomesIs, StepTyped
     DEF Exit, disk, minted, budget, TypeInv, TypeOK
<1>9. QED
  BY <1>1, <1>2, <1>3, <1>4, <1>5, <1>6, <1>7, <1>8

LEMMA TypeInit == Init => TypeInv
<1> SUFFICES ASSUME Init PROVE TypeInv
  OBVIOUS
<1>1. proc \in [Process -> Proc]
  BY OffTyped DEF Init
<1>a. chat \in Seq(Record) /\ journal \in Seq(Entry)
  BY EmptySeq DEF Init
<1>b. launches \in 0..MaxLaunches /\ faults \in 0..MaxFaults
  BY LaunchAssumption DEF Init
<1>2. \A p \in Process : ProcOK(p, proc[p])
  BY OffTyped DEF Init
<1>3. TypeOK
  BY <1>1, <1>a, <1>b DEF Init, TypeOK
<1>4. QED
  BY <1>2, <1>3 DEF Init, TypeInv

LEMMA TypeStep == TypeInv /\ [Next]_vars => TypeInv'
<1>1. TypeInv /\ UNCHANGED vars => TypeInv'
  BY DEF vars, TypeInv, TypeOK
<1>2. QED
  BY <1>1, OpeningTyped, KernelTyped, TransactionTyped DEF Next

LEMMA TypeAlways == Spec => []TypeInv
BY TypeInit, TypeStep, PTL DEF Spec

\* Every reachable state is well typed: the chat, the journal and what each process
\* holds in memory are of the kinds the code writes, whichever process dies when.
THEOREM LaunchTypes == Spec => []TypeOK
BY TypeAlways, PTL DEF TypeInv

-------------------------------------------------------------------------------
(* What one step does to the chat, to the transactions that may still take *)
(* effect, and to the acting process.                                      *)

Act(p) ==
  \/ Launch(p) \/ MakeFolder(p) \/ LockNew(p) \/ Create(p)
  \/ Recover(p) \/ SkipChat(p) \/ Interrupt(p) \/ Scanned(p)
  \/ Open(p) \/ Ready(p) \/ CloseBlocked(p)
  \/ (\E t \in Turn : Start(p, t))
  \/ Admit(p) \/ Finalize(p) \/ Terminalize(p)
  \/ Realize(p) \/ Conflicts(p) \/ StaysPending(p)
  \/ Exit(p)

\* p binds transaction e to the chat as it is.
Binds(p, e) ==
  /\ e.by = p /\ e.at = Len(chat)
  /\ proc[p].job = NoJob
  /\ journal' = Append(journal, e)
  /\ proc'[p].job = e
  /\ unleased' = (unleased \/ lock # p)
  /\ UNCHANGED chat
  /\ \/ proc[p].pc = "creating" /\ e.kind = "create" /\ e.turn = NoTurn
     \/ /\ proc[p].pc = "scanning" /\ e.kind = "interrupted"
        /\ e.turn \in proc[p].todo /\ Recordable(e.turn)
     \/ /\ e.turn = proc[p].turn /\ proc[p].pc = "kernel"
        /\ \/ proc[p].step = "admitting" /\ e.kind = "user"
           \/ proc[p].step = "running" /\ e.kind = "agent" /\ Len(chat) = proc[p].base
           \/ proc[p].step = "ending" /\ e.kind = "failed" /\ Recordable(e.turn)

\* The record of e is appended to the chat it was bound to.
Grows(e) ==
  /\ Live(e) /\ e.kind # "create"
  /\ Len(chat) = e.at
  /\ chat' = Append(chat, [turn |-> e.turn, kind |-> e.kind])

\* Nothing is bound by the step.
NoneBound ==
  /\ \A j \in DOMAIN journal' : \E k \in DOMAIN journal : journal'[j] = journal[k]
  /\ \A f \in Entry : Live(f)' => Live(f)
  /\ \A q \in Process : proc'[q].job \in {proc[q].job, NoJob}

LEMMA AppliedGrows ==
  ASSUME TypeInv, NEW e \in Entry, Live(e), Applies(e), Applied(e)
  PROVE  /\ UNCHANGED chat \/ Grows(e)
         /\ e.kind # "create" =>
              /\ e.at + 1 = Len(chat')
              /\ chat'[e.at + 1] = [turn |-> e.turn, kind |-> e.kind]
         /\ e.kind = "create" => UNCHANGED chat /\ manifest' = e.by
         /\ e.kind # "create" => UNCHANGED manifest
<1>1. CASE e.kind = "create"
  BY <1>1 DEF Applied
<1>2. CASE e.kind # "create" /\ IsNew(e)
  BY <1>2 DEF Applied, IsNew
<1>3. CASE e.kind # "create" /\ ~IsNew(e)
  <2> DEFINE r == [turn |-> e.turn, kind |-> e.kind]
  <2>1. Len(chat) = e.at /\ chat' = Append(chat, r) /\ UNCHANGED manifest
    BY <1>3 DEF Applied, Applies, IsOld
  <2>2. Len(Append(chat, r)) = Len(chat) + 1 /\ Append(chat, r)[Len(chat) + 1] = r
    BY AppendProperties DEF TypeInv, TypeOK
  <2>3. QED
    BY <1>3, <2>1, <2>2 DEF Grows
<1>4. QED
  BY <1>1, <1>2, <1>3

\* A step that journals nothing and gives no process a transaction to wait for.
LEMMA NoneBoundIf ==
  ASSUME \A j \in DOMAIN journal' : \E k \in DOMAIN journal : journal'[j] = journal[k],
         \A q \in Process : proc'[q].job \in {proc[q].job, NoJob}
  PROVE  NoneBound
BY DEF NoneBound, Live, Journaled, Awaited

LEMMA OtherProcesses ==
  ASSUME TypeInv, NEW p \in Process, Act(p), NEW q \in Process \ {p}
  PROVE  proc'[q] = proc[q]
<1> USE DEF TypeInv, TypeOK
<1>1. ASSUME NEW r, Becomes(p, r) PROVE proc'[q] = proc[q]
  BY <1>1 DEF Becomes
<1>2. CASE Launch(p) \/ MakeFolder(p) \/ LockNew(p) \/ SkipChat(p) \/ Scanned(p)
  BY <1>1, <1>2 DEF Launch, MakeFolder, LockNew, SkipChat, Scanned
<1>3. CASE Recover(p)
  BY <1>1, <1>3 DEF Recover
<1>4. CASE Open(p) \/ Ready(p) \/ CloseBlocked(p) \/ (\E t \in Turn : Start(p, t))
  BY <1>4 DEF Open, Ready, CloseBlocked, Start
<1>5. CASE Create(p) \/ Admit(p) \/ Finalize(p) \/ Terminalize(p) \/ Interrupt(p)
  <2>1. ASSUME NEW r, NEW kind, NEW t, Intend(p, r, kind, t) PROVE proc'[q] = proc[q]
    BY <1>1, <2>1 DEF Intend
  <2>2. CASE Create(p) \/ Admit(p)
    BY <2>1, <2>2 DEF Create, Admit
  <2>3. CASE Finalize(p) \/ Terminalize(p)
    BY <2>1, <2>3 DEF Finalize, Terminalize, Over
  <2>4. CASE Interrupt(p)
    BY <2>1, <2>4 DEF Interrupt
  <2>5. QED
    BY <1>5, <2>2, <2>3, <2>4
<1>6. CASE Realize(p) \/ Conflicts(p) \/ StaysPending(p) \/ Exit(p)
  BY <1>1, <1>6 DEF Realize, Conflicts, StaysPending, Exit
<1>7. QED
  BY <1>2, <1>3, <1>4, <1>5, <1>6 DEF Act

\* Transaction e enters the journal, and p, going on as q, waits for it.
Installs(p, q, e) ==
  /\ proc[p].job = NoJob
  /\ journal' = Append(journal, e)
  /\ proc'[p] = [q EXCEPT !.job = e]
  /\ proc'[p].job = e
  /\ unleased' = (unleased \/ lock # p)
  /\ q.pc # "off" => lock' = lock
  /\ UNCHANGED <<folder, manifest, chat, used, budget>>
  /\ \A f \in Entry : Live(f)' => Live(f) \/ f = e

LEMMA IntendBinds ==
  ASSUME TypeInv, NEW p \in Process, NEW q \in Proc, NEW kind, NEW t, Intend(p, q, kind, t),
         kind \in Terminal \union {"user", "create"}, t \in Turn \union {NoTurn}
  PROVE  \E e \in Entry :
           /\ e = [turn |-> t, kind |-> kind, by |-> p, at |-> Len(chat)]
           /\ Installs(p, q, e)
<1> DEFINE e == [turn |-> t, kind |-> kind, by |-> p, at |-> Len(chat)]
<1>1. e \in Entry
  BY LenProperties DEF TypeInv, TypeOK, Entry
<1>2. /\ proc[p].job = NoJob
      /\ journal' = Append(journal, e)
      /\ proc' = [proc EXCEPT ![p] = [q EXCEPT !.job = e]]
      /\ unleased' = (unleased \/ lock # p)
      /\ UNCHANGED <<folder, manifest, chat, used, budget>>
  BY BecomesIs DEF Intend
<1>a. q.pc # "off" => lock' = lock
  <2>1. [q EXCEPT !.job = e].pc = q.pc
    BY DEF Proc
  <2>2. QED
    BY <2>1, BecomesIs DEF Intend
<1> HIDE DEF e
<1>3. /\ proc'[p] = [q EXCEPT !.job = e] /\ proc'[p].job = e
      /\ \A r \in Process \ {p} : proc'[r] = proc[r]
  BY <1>2 DEF TypeInv, TypeOK, Proc
<1>4. \A f \in Entry : Live(f)' => Live(f) \/ f = e
  <2>1. \A j \in DOMAIN journal' : journal'[j] = e \/ \E k \in DOMAIN journal : journal'[j] = journal[k]
    BY <1>1, <1>2, AppendElements DEF TypeInv, TypeOK
  <2>2. SUFFICES ASSUME NEW f \in Entry, Live(f)', f # e PROVE Live(f)
    OBVIOUS
  <2>3. CASE Journaled(f)'
    BY <2>1, <2>2, <2>3 DEF Live, Journaled
  <2>4. CASE Awaited(f)'
    BY <1>3, <2>2, <2>4 DEF Live, Awaited
  <2>5. QED
    BY <2>2, <2>3, <2>4 DEF Live
<1>5. Installs(p, q, e)
  BY <1>2, <1>3, <1>4, <1>a DEF Installs
<1>6. QED
  BY <1>1, <1>5 DEF e

\* What a step that binds no transaction leaves of the acting process.
LEMMA PlainShapes ==
  ASSUME TypeInv, NEW p \in Process
  PROVE  /\ Launch(p) => \E pc \in {"making", "recovering"} :
              proc'[p] = [proc[p] EXCEPT !.pc = pc]
         /\ MakeFolder(p) => proc'[p] = [proc[p] EXCEPT !.pc = "locking"]
         /\ LockNew(p) => \/ proc'[p] = [proc[p] EXCEPT !.pc = "creating"]
                          \/ proc'[p] = Off
         /\ SkipChat(p) => proc'[p] = [proc[p] EXCEPT !.pc = "scanning", !.skipped = TRUE]
         /\ Scanned(p) => proc'[p] = [proc[p] EXCEPT !.pc = "kernel"]
         /\ Open(p) => proc'[p] = [proc[p] EXCEPT !.phase = "opening"]
         /\ Ready(p) => \E phase \in {"ready", "blocked"} :
              proc'[p] = [proc[p] EXCEPT !.phase = phase]
         /\ CloseBlocked(p) => proc'[p] = [proc[p] EXCEPT !.phase = "closed"]
         /\ Exit(p) => proc'[p] = Off
         /\ \A t \in Turn : Start(p, t) =>
              proc'[p] = [proc[p] EXCEPT !.turn = t, !.step = "admitting", !.own = @ \union {t}]
<1> USE DEF TypeInv, TypeOK
<1>1. Launch(p) => \E pc \in {"making", "recovering"} : proc'[p] = [proc[p] EXCEPT !.pc = pc]
  BY DEF Launch
<1>2. MakeFolder(p) => proc'[p] = [proc[p] EXCEPT !.pc = "locking"]
  BY DEF MakeFolder
<1>3. LockNew(p) => proc'[p] = [proc[p] EXCEPT !.pc = "creating"] \/ proc'[p] = Off
  BY BecomesIs DEF LockNew
<1>4. SkipChat(p) => proc'[p] = [proc[p] EXCEPT !.pc = "scanning", !.skipped = TRUE]
  BY DEF SkipChat
<1>5. Scanned(p) => proc'[p] = [proc[p] EXCEPT !.pc = "kernel"]
  BY DEF Scanned
<1>6. Open(p) => proc'[p] = [proc[p] EXCEPT !.phase = "opening"]
  BY DEF Open
<1>7. Ready(p) => \E phase \in {"ready", "blocked"} : proc'[p] = [proc[p] EXCEPT !.phase = phase]
  BY DEF Ready
<1>8. CloseBlocked(p) => proc'[p] = [proc[p] EXCEPT !.phase = "closed"]
  BY DEF CloseBlocked
<1>9. Exit(p) => proc'[p] = Off
  BY BecomesIs DEF Exit
<1>10. ASSUME NEW t \in Turn, Start(p, t)
       PROVE  proc'[p] = [proc[p] EXCEPT !.turn = t, !.step = "admitting", !.own = @ \union {t}]
  BY <1>10 DEF Start
<1>11. QED
  BY <1>1, <1>2, <1>3, <1>4, <1>5, <1>6, <1>7, <1>8, <1>9, <1>10

LEMMA RecoverShape ==
  ASSUME TypeInv, NEW p \in Process, Recover(p)
  PROVE  \/ /\ UNCHANGED disk
            /\ \/ proc'[p] = Off
               \/ proc'[p] = [proc[p] EXCEPT !.pc = "scanning", !.todo = Orphans]
         \/ /\ journal # << >> /\ Applies(Head(journal)) /\ Applied(Head(journal))
            /\ journal' = Tail(journal) /\ UNCHANGED <<folder, lock, proc>>
BY BecomesIs DEF Recover, TypeInv, TypeOK

\* Giving up on an orphan, or on the turn.
LEMMA RefusedShapes ==
  ASSUME TypeInv, NEW p \in Process
  PROVE  /\ Interrupt(p) =>
              \E t \in proc[p].todo :
                \/ Recordable(t) /\ Intend(p, proc[p], "interrupted", t)
                \/ /\ UNCHANGED <<disk, lock, minted>>
                   /\ proc'[p] = [proc[p] EXCEPT !.todo = @ \ {t},
                        !.orphans = @ \union {[turn |-> t, terminalized |-> FALSE]}]
         /\ Admit(p) =>
              \/ Intend(p, proc[p], "user", proc[p].turn)
              \/ UNCHANGED <<disk, lock, minted>> /\ proc'[p] = [proc[p] EXCEPT !.step = "ending"]
         /\ Finalize(p) =>
              \/ /\ Len(chat) = proc[p].base
                 /\ Intend(p, [proc[p] EXCEPT !.step = "finalizing"], "agent", proc[p].turn)
              \/ UNCHANGED <<disk, lock, minted>> /\ proc'[p] = [proc[p] EXCEPT !.step = "ending"]
         /\ Terminalize(p) =>
              \/ Recordable(proc[p].turn) /\ Intend(p, proc[p], "failed", proc[p].turn)
              \/ /\ UNCHANGED <<disk, lock, minted>>
                 /\ proc'[p] = [proc[p] EXCEPT !.turn = NoTurn, !.step = "none"]
<1> USE DEF TypeInv, TypeOK
<1>1. ASSUME Interrupt(p)
      PROVE  \E t \in proc[p].todo :
               \/ Recordable(t) /\ Intend(p, proc[p], "interrupted", t)
               \/ /\ UNCHANGED <<disk, lock, minted>>
                  /\ proc'[p] = [proc[p] EXCEPT !.todo = @ \ {t},
                       !.orphans = @ \union {[turn |-> t, terminalized |-> FALSE]}]
  <2>1. PICK t \in proc[p].todo :
          \/ Recordable(t) /\ Intend(p, proc[p], "interrupted", t)
          \/ /\ proc' = [proc EXCEPT ![p].todo = @ \ {t},
                           ![p].orphans = @ \union {[turn |-> t, terminalized |-> FALSE]}]
             /\ UNCHANGED <<disk, lock, minted>>
    BY <1>1 DEF Interrupt
  <2>2. QED
    BY <2>1
<1>2. ASSUME Admit(p)
      PROVE  \/ Intend(p, proc[p], "user", proc[p].turn)
             \/ UNCHANGED <<disk, lock, minted>> /\ proc'[p] = [proc[p] EXCEPT !.step = "ending"]
  BY <1>2 DEF Admit
<1>3. ASSUME Finalize(p)
      PROVE  \/ /\ Len(chat) = proc[p].base
                /\ Intend(p, [proc[p] EXCEPT !.step = "finalizing"], "agent", proc[p].turn)
             \/ UNCHANGED <<disk, lock, minted>> /\ proc'[p] = [proc[p] EXCEPT !.step = "ending"]
  BY <1>3 DEF Finalize
<1>4. ASSUME Terminalize(p)
      PROVE  \/ Recordable(proc[p].turn) /\ Intend(p, proc[p], "failed", proc[p].turn)
             \/ /\ UNCHANGED <<disk, lock, minted>>
                /\ proc'[p] = [proc[p] EXCEPT !.turn = NoTurn, !.step = "none"]
  BY <1>4 DEF Terminalize, Over
<1>5. QED
  BY <1>1, <1>2, <1>3, <1>4

\* A transaction has answered.
LEMMA AnswerShape ==
  ASSUME TypeInv, NEW p \in Process, Realize(p) \/ Conflicts(p) \/ StaysPending(p)
  PROVE  \E ok \in BOOLEAN : /\ proc'[p] = Told(p, ok)
                             /\ proc[p].job # NoJob
                             /\ ok <=> Realize(p)
                             /\ UNCHANGED <<folder, minted>>
                             /\ lock' = IF Told(p, ok).pc = "off" /\ lock = p
                                        THEN NoProcess ELSE lock
<1>1. ASSUME NEW ok \in BOOLEAN, Becomes(p, Told(p, ok))
      PROVE  /\ proc'[p] = Told(p, ok)
             /\ lock' = IF Told(p, ok).pc = "off" /\ lock = p THEN NoProcess ELSE lock
  BY <1>1 DEF Becomes, TypeInv, TypeOK
<1>2. CASE Realize(p)
  <2>1. Becomes(p, Told(p, TRUE)) /\ proc[p].job # NoJob /\ UNCHANGED <<folder, minted>>
    BY <1>2 DEF Realize
  <2>2. QED
    BY <1>1, <1>2, <2>1
<1>3. CASE Conflicts(p)
  <2>1. /\ Becomes(p, Told(p, FALSE)) /\ proc[p].job # NoJob
        /\ UNCHANGED <<folder, minted>> /\ ~Realize(p)
    BY <1>3 DEF Conflicts, Realize, disk
  <2>2. QED
    BY <1>1, <2>1
<1>4. CASE StaysPending(p)
  <2>1. Becomes(p, Told(p, FALSE)) /\ proc[p].job # NoJob /\ UNCHANGED <<folder, minted>>
    BY <1>4 DEF StaysPending
  <2>2. faults \in Int /\ faults' = faults + 1
    BY <1>4 DEF StaysPending, Fault, TypeInv, TypeOK
  <2>3. ~Realize(p)
    <3>1. Realize(p) => faults' = faults
      BY DEF Realize, budget
    <3>2. QED
      BY <2>2, <3>1
  <2>4. QED
    BY <1>1, <2>1, <2>3
<1>5. QED
  BY <1>2, <1>3, <1>4

\* Every step leaves the chat and the live transactions alone, appends the record
\* of a live one, or binds a new one.
Summary(p) ==
  \/ UNCHANGED chat /\ NoneBound
  \/ NoneBound /\ \E e \in Entry : Grows(e)
  \/ \E e \in Entry : Binds(p, e) /\ \A f \in Entry : Live(f)' => Live(f) \/ f = e

\* The turns of p, and the transaction it waits for, are as they were.
KeepsTurn(p) ==
  /\ proc'[p].own = proc[p].own /\ proc'[p].todo = proc[p].todo
  /\ proc'[p].step = proc[p].step /\ proc'[p].turn = proc[p].turn
  /\ proc'[p].base = proc[p].base /\ proc'[p].job = proc[p].job

LEMMA PlainKeeps ==
  ASSUME TypeInv, NEW p \in Process,
         \/ Launch(p) \/ MakeFolder(p) \/ LockNew(p) \/ SkipChat(p) \/ Scanned(p)
         \/ Open(p) \/ Ready(p) \/ CloseBlocked(p) \/ Exit(p)
  PROVE  UNCHANGED <<chat, journal, minted>> /\ (KeepsTurn(p) \/ proc'[p] = Off)
<1>0. proc[p] \in Proc
  BY DEF TypeInv, TypeOK
<1>1. UNCHANGED <<chat, journal, minted>>
  BY DEF Launch, MakeFolder, LockNew, SkipChat, Scanned, Open, Ready, CloseBlocked, Exit, disk
<1>2. ASSUME Launch(p) PROVE KeepsTurn(p)
  <2>1. PICK pc \in {"making", "recovering"} : proc'[p] = [proc[p] EXCEPT !.pc = pc]
    BY <1>2, PlainShapes
  <2>2. QED
    BY <1>0, <2>1 DEF Proc, KeepsTurn
<1>3. ASSUME Ready(p) PROVE KeepsTurn(p)
  <2>1. PICK phase \in {"ready", "blocked"} : proc'[p] = [proc[p] EXCEPT !.phase = phase]
    BY <1>3, PlainShapes
  <2>2. QED
    BY <1>0, <2>1 DEF Proc, KeepsTurn
<1>4. /\ MakeFolder(p) => proc'[p] = [proc[p] EXCEPT !.pc = "locking"]
      /\ LockNew(p) => proc'[p] = [proc[p] EXCEPT !.pc = "creating"] \/ proc'[p] = Off
  BY PlainShapes
<1>5. MakeFolder(p) \/ LockNew(p) => KeepsTurn(p) \/ proc'[p] = Off
  BY <1>0, <1>4 DEF Proc, KeepsTurn
<1>6. /\ SkipChat(p) => proc'[p] = [proc[p] EXCEPT !.pc = "scanning", !.skipped = TRUE]
      /\ Scanned(p) => proc'[p] = [proc[p] EXCEPT !.pc = "kernel"]
      /\ Open(p) => proc'[p] = [proc[p] EXCEPT !.phase = "opening"]
  BY PlainShapes
<1>7. SkipChat(p) \/ Scanned(p) \/ Open(p) => KeepsTurn(p)
  BY <1>0, <1>6 DEF Proc, KeepsTurn
<1>8. /\ CloseBlocked(p) => proc'[p] = [proc[p] EXCEPT !.phase = "closed"]
      /\ Exit(p) => proc'[p] = Off
  BY PlainShapes
<1>9. CloseBlocked(p) \/ Exit(p) => KeepsTurn(p) \/ proc'[p] = Off
  BY <1>0, <1>8 DEF Proc, KeepsTurn
<1>10. QED
  BY <1>1, <1>2, <1>3, <1>5, <1>7, <1>9

LEMMA StartShape ==
  ASSUME TypeInv, NEW p \in Process, NEW t \in Turn, Start(p, t)
  PROVE  /\ UNCHANGED <<chat, journal, lock, unleased>>
         /\ proc'[p].job = proc[p].job /\ proc'[p].todo = proc[p].todo
         /\ proc'[p].own = proc[p].own \union {t} /\ proc'[p].turn = t
         /\ proc'[p].step = "admitting"
         /\ proc'[p].pc = proc[p].pc /\ proc'[p].phase = proc[p].phase
         /\ proc'[p].orphans = proc[p].orphans /\ proc'[p].skipped = proc[p].skipped
         /\ t \notin used /\ used' = used \union {t} /\ proc[p].step = "none"
         /\ proc[p].phase = "ready" /\ proc[p].pc = "kernel" /\ proc[p].job = NoJob
<1>0. proc[p] \in Proc /\ ProcOK(p, proc[p])
  BY DEF TypeInv, TypeOK
<1>1. proc'[p] = [proc[p] EXCEPT !.turn = t, !.step = "admitting", !.own = @ \union {t}]
  BY PlainShapes
<1>2. /\ proc[p].phase = "ready" /\ proc[p].step = "none" /\ proc[p].pc = "kernel"
      /\ proc[p].job = NoJob
  BY <1>0 DEF Start, ProcOK, JobOK
<1>3. UNCHANGED <<chat, journal, lock, unleased>> /\ t \notin used /\ used' = used \union {t}
  BY DEF Start, disk
<1>4. QED
  BY <1>0, <1>1, <1>2, <1>3 DEF Proc

LEMMA PlainSummary ==
  ASSUME TypeInv, NEW p \in Process,
         \/ Launch(p) \/ MakeFolder(p) \/ LockNew(p) \/ SkipChat(p) \/ Scanned(p)
         \/ Open(p) \/ Ready(p) \/ CloseBlocked(p) \/ (\E t \in Turn : Start(p, t)) \/ Exit(p)
  PROVE  UNCHANGED <<chat, journal>> /\ proc'[p].job \in {proc[p].job, NoJob} /\ NoneBound
<1>1. Act(p)
  BY DEF Act
<1>2. UNCHANGED <<chat, journal>> /\ proc'[p].job \in {proc[p].job, NoJob}
  BY PlainKeeps, StartShape DEF KeepsTurn, Off
<1>3. \A q \in Process : proc'[q].job \in {proc[q].job, NoJob}
  BY <1>1, <1>2, OtherProcesses
<1>4. QED
  BY <1>2, <1>3, NoneBoundIf

LEMMA ActSummary ==
  ASSUME TypeInv, NEW p \in Process, Act(p)
  PROVE  Summary(p)
<1>0. proc[p] \in Proc /\ ProcOK(p, proc[p]) /\ Off.job = NoJob
  BY DEF TypeInv, TypeOK, Off
<1>q. ASSUME UNCHANGED <<chat, journal>>, proc'[p].job \in {proc[p].job, NoJob} PROVE Summary(p)
  BY <1>q, OtherProcesses, NoneBoundIf DEF Summary
<1>r. ASSUME NEW e \in Entry, Binds(p, e), \A f \in Entry : Live(f)' => Live(f) \/ f = e
      PROVE  Summary(p)
  BY <1>r DEF Summary
<1>1. CASE \/ Launch(p) \/ MakeFolder(p) \/ LockNew(p) \/ SkipChat(p) \/ Scanned(p)
           \/ Open(p) \/ Ready(p) \/ CloseBlocked(p) \/ (\E t \in Turn : Start(p, t))
           \/ Exit(p)
  BY <1>1, PlainSummary DEF Summary
<1>2. CASE Recover(p)
  <2>1. CASE /\ UNCHANGED disk
             /\ \/ proc'[p] = Off
                \/ proc'[p] = [proc[p] EXCEPT !.pc = "scanning", !.todo = Orphans]
    <3>1. proc'[p].job \in {proc[p].job, NoJob}
      BY <1>0, <2>1 DEF Proc
    <3>2. QED
      BY <1>q, <2>1, <3>1 DEF disk
  <2>2. CASE /\ journal # << >> /\ Applies(Head(journal)) /\ Applied(Head(journal))
             /\ journal' = Tail(journal) /\ UNCHANGED <<folder, lock, proc>>
    <3>1. journal \in Seq(Entry)
      BY DEF TypeInv, TypeOK
    <3>2. /\ Head(journal) \in Entry
          /\ \A j \in DOMAIN journal' : \E k \in DOMAIN journal : journal'[j] = journal[k]
      BY <2>2, <3>1, TailElements
    <3>3. Live(Head(journal))
      BY <2>2, <3>1, TailElements DEF Live, Journaled
    <3>4. NoneBound
      BY <2>2, <3>2, NoneBoundIf
    <3>5. UNCHANGED chat \/ Grows(Head(journal))
      BY <2>2, <3>2, <3>3, AppliedGrows
    <3>6. QED
      BY <3>2, <3>4, <3>5 DEF Summary
  <2>3. QED
    BY <1>2, <2>1, <2>2, RecoverShape
<1>3. CASE Realize(p) \/ Conflicts(p) \/ StaysPending(p)
  <2>1. PICK ok \in BOOLEAN : proc[p].job # NoJob /\ proc'[p] = Told(p, ok)
    BY <1>3, AnswerShape
  <2>2. proc'[p].job = NoJob
    BY <2>1, ToldFacts
  <2>3. \A j \in DOMAIN journal' : \E k \in DOMAIN journal : journal'[j] = journal[k]
    BY <1>3, SettledElements DEF Realize, Conflicts, StaysPending, disk, TypeInv, TypeOK
  <2>4. NoneBound
    BY <2>2, <2>3, OtherProcesses, NoneBoundIf
  <2>5. proc[p].job \in Entry /\ Live(proc[p].job)
    BY <2>1, JobTyped DEF Live, Awaited
  <2>6. UNCHANGED chat \/ Grows(proc[p].job)
    BY <1>3, <2>5, AppliedGrows DEF Realize, Conflicts, StaysPending, disk
  <2>7. QED
    BY <2>4, <2>5, <2>6 DEF Summary
<1>4. CASE Create(p)
  <2>1. proc[p].pc = "creating" /\ Intend(p, proc[p], "create", NoTurn)
    BY <1>4 DEF Create
  <2>2. PICK e \in Entry :
          /\ e = [turn |-> NoTurn, kind |-> "create", by |-> p, at |-> Len(chat)]
          /\ Installs(p, proc[p], e)
    BY <1>0, <2>1, IntendBinds
  <2>3. Binds(p, e)
    BY <2>1, <2>2 DEF Binds, Installs
  <2>4. QED
    BY <1>r, <2>2, <2>3 DEF Installs
<1>5. CASE Interrupt(p)
  <2>1. PICK t \in proc[p].todo :
          \/ Recordable(t) /\ Intend(p, proc[p], "interrupted", t)
          \/ /\ UNCHANGED <<disk, lock, minted>>
             /\ proc'[p] = [proc[p] EXCEPT !.todo = @ \ {t},
                  !.orphans = @ \union {[turn |-> t, terminalized |-> FALSE]}]
    BY <1>5, RefusedShapes
  <2>2. t \in Turn
    BY <1>0 DEF Proc
  <2>3. CASE Recordable(t) /\ Intend(p, proc[p], "interrupted", t)
    <3>1. PICK e \in Entry :
            /\ e = [turn |-> t, kind |-> "interrupted", by |-> p, at |-> Len(chat)]
            /\ Installs(p, proc[p], e)
      BY <1>0, <2>2, <2>3, IntendBinds DEF Terminal
    <3>2. proc[p].pc = "scanning"
      BY <1>5 DEF Interrupt
    <3>3. Binds(p, e)
      BY <2>1, <2>3, <3>1, <3>2 DEF Binds, Installs
    <3>4. QED
      BY <1>r, <3>1, <3>3 DEF Installs
  <2>4. CASE /\ UNCHANGED <<disk, lock, minted>>
             /\ proc'[p] = [proc[p] EXCEPT !.todo = @ \ {t},
                  !.orphans = @ \union {[turn |-> t, terminalized |-> FALSE]}]
    <3>1. proc'[p].job = proc[p].job
      BY <1>0, <2>4 DEF Proc
    <3>2. QED
      BY <1>q, <2>4, <3>1 DEF disk
  <2>5. QED
    BY <2>1, <2>3, <2>4
<1>6. CASE Admit(p) \/ Finalize(p) \/ Terminalize(p)
  <2>1. proc[p].turn \in Turn /\ proc[p].pc = "kernel"
    BY <1>0, <1>6 DEF Admit, Finalize, Terminalize, ProcOK, Proc
  <2>2. ASSUME NEW q \in Proc, NEW kind \in {"user", "agent", "failed"},
               Intend(p, q, kind, proc[p].turn),
               \/ proc[p].step = "admitting" /\ kind = "user"
               \/ proc[p].step = "running" /\ kind = "agent" /\ Len(chat) = proc[p].base
               \/ proc[p].step = "ending" /\ kind = "failed" /\ Recordable(proc[p].turn)
        PROVE  Summary(p)
    <3>1. PICK e \in Entry :
            /\ e = [turn |-> proc[p].turn, kind |-> kind, by |-> p, at |-> Len(chat)]
            /\ Installs(p, q, e)
      BY <2>1, <2>2, IntendBinds DEF Terminal
    <3>2. Binds(p, e)
      BY <2>1, <2>2, <3>1 DEF Binds, Installs
    <3>3. QED
      BY <1>r, <3>1, <3>2 DEF Installs
  <2>3. ASSUME UNCHANGED <<disk, lock, minted>>,
               \/ proc'[p] = [proc[p] EXCEPT !.step = "ending"]
               \/ proc'[p] = [proc[p] EXCEPT !.turn = NoTurn, !.step = "none"]
        PROVE  Summary(p)
    <3>1. proc'[p].job = proc[p].job
      BY <1>0, <2>3 DEF Proc
    <3>2. QED
      BY <1>q, <2>3, <3>1 DEF disk
  <2>4. CASE Admit(p)
    <3>1. proc[p].step = "admitting"
      BY <2>4 DEF Admit
    <3>2. CASE Intend(p, proc[p], "user", proc[p].turn)
      BY <1>0, <2>2, <3>1, <3>2
    <3>3. QED
      BY <2>3, <2>4, <3>2, RefusedShapes
  <2>5. CASE Finalize(p)
    <3>1. proc[p].step = "running"
      BY <2>5 DEF Finalize
    <3> DEFINE q == [proc[p] EXCEPT !.step = "finalizing"]
    <3>2. q \in Proc
      BY <1>0 DEF Proc
    <3>3. CASE Len(chat) = proc[p].base /\ Intend(p, q, "agent", proc[p].turn)
      <4> HIDE DEF q
      <4>1. QED
        BY <2>2, <3>1, <3>2, <3>3
    <3>4. QED
      BY <2>3, <2>5, <3>3, RefusedShapes
  <2>6. CASE Terminalize(p)
    <3>1. proc[p].step = "ending"
      BY <2>6 DEF Terminalize
    <3>2. CASE Recordable(proc[p].turn) /\ Intend(p, proc[p], "failed", proc[p].turn)
      BY <1>0, <2>2, <3>1, <3>2
    <3>3. QED
      BY <2>3, <2>6, <3>2, RefusedShapes
  <2>7. QED
    BY <1>6, <2>4, <2>5, <2>6
<1>7. QED
  BY <1>1, <1>2, <1>3, <1>4, <1>5, <1>6 DEF Act

\* What a process may still do with turns, before and after a step of its own.
TurnsMove(p) ==
  /\ \/ proc'[p].own \subseteq proc[p].own /\ used' = used
     \/ \E t \in Turn : Start(p, t)
  /\ \A t \in proc'[p].todo : \/ t \in proc[p].todo
                              \/ t \in Turn /\ HasUser(t) /\ UNCHANGED chat
  /\ proc'[p].step = "admitting" /\ proc'[p].job = NoJob =>
       \/ /\ proc[p].step = "admitting" /\ proc[p].job = NoJob
          /\ proc'[p].turn = proc[p].turn /\ UNCHANGED <<chat, journal>>
       \/ \E t \in Turn : Start(p, t)
  /\ proc'[p].step = "running" =>
       \/ /\ proc[p].step = "running" /\ proc'[p].turn = proc[p].turn
          /\ proc'[p].base = proc[p].base
       \/ /\ Realize(p) /\ proc[p].pc = "kernel" /\ proc[p].step = "admitting"
          /\ proc[p].job # NoJob
          /\ proc'[p].turn = proc[p].turn
          /\ proc'[p].base = proc[p].job.at + 1

LEMMA OffMoves == ASSUME NEW p, proc'[p] = Off, used' = used PROVE TurnsMove(p)
BY DEF Off, TurnsMove

\* A transaction bound by a step leaves the turns of its process as they are.
LEMMA InstallsKeeps ==
  ASSUME NEW p, NEW q \in Proc, NEW e \in Entry, Installs(p, q, e)
  PROVE  /\ proc'[p].own = q.own /\ proc'[p].todo = q.todo /\ proc'[p].step = q.step
         /\ proc'[p].turn = q.turn /\ proc'[p].base = q.base /\ used' = used
         /\ proc'[p].pc = q.pc /\ proc'[p].orphans = q.orphans /\ proc'[p].skipped = q.skipped
         /\ proc'[p].phase = q.phase
         /\ proc'[p].job = e /\ e # NoJob
BY DEF Installs, Proc, Entry, NoJob, Terminal

LEMMA ActTurns ==
  ASSUME TypeInv, NEW p \in Process, Act(p)
  PROVE  TurnsMove(p)
<1>0. proc[p] \in Proc /\ ProcOK(p, proc[p])
  BY DEF TypeInv, TypeOK
<1>1. CASE \/ Launch(p) \/ MakeFolder(p) \/ LockNew(p) \/ SkipChat(p) \/ Scanned(p)
           \/ Open(p) \/ Ready(p) \/ CloseBlocked(p) \/ Exit(p)
  BY <1>1, PlainKeeps, OffMoves DEF KeepsTurn, TurnsMove, minted
<1>2. CASE Recover(p)
  <2>0. used' = used
    BY <1>2 DEF Recover, minted
  <2>1. CASE proc'[p] = Off
    BY <2>0, <2>1, OffMoves
  <2>2. CASE /\ proc'[p] = [proc[p] EXCEPT !.pc = "scanning", !.todo = Orphans]
             /\ UNCHANGED disk
    <3>1. /\ proc'[p].own = proc[p].own /\ proc'[p].todo = Orphans
          /\ proc'[p].step = proc[p].step
      BY <1>0, <2>2 DEF Proc
    <3>2. proc[p].step = "none"
      BY <1>0, <1>2 DEF ProcOK, Recover
    <3>3. QED
      BY <2>0, <2>2, <3>1, <3>2 DEF TurnsMove, Orphans, disk
  <2>3. CASE UNCHANGED proc
    <3>1. proc[p].step = "none"
      BY <1>0, <1>2 DEF ProcOK, Recover
    <3>2. QED
      BY <2>0, <2>3, <3>1 DEF TurnsMove
  <2>4. QED
    BY <1>2, <2>1, <2>2, <2>3, RecoverShape
<1>3. CASE Realize(p) \/ Conflicts(p) \/ StaysPending(p)
  <2>1. PICK ok \in BOOLEAN : /\ proc'[p] = Told(p, ok) /\ proc[p].job # NoJob
                              /\ ok <=> Realize(p)
                              /\ UNCHANGED minted
    BY <1>3, AnswerShape
  <2>2. QED
    BY <2>1, ToldFacts DEF TurnsMove, minted
<1>4. ASSUME NEW t \in Turn, Start(p, t) PROVE TurnsMove(p)
  BY <1>0, <1>4, StartShape DEF TurnsMove
<1>5. CASE Create(p)
  <2>1. PICK e \in Entry : Installs(p, proc[p], e)
    BY <1>0, <1>5, IntendBinds DEF Create
  <2>2. proc[p].step = "none"
    BY <1>0, <1>5 DEF Create, ProcOK
  <2>3. QED
    BY <1>0, <2>1, <2>2, InstallsKeeps DEF TurnsMove
<1>6. CASE Interrupt(p)
  <2>0. proc[p].step = "none"
    BY <1>0, <1>6 DEF Interrupt, ProcOK
  <2>1. PICK t \in proc[p].todo :
          \/ Recordable(t) /\ Intend(p, proc[p], "interrupted", t)
          \/ /\ UNCHANGED <<disk, lock, minted>>
             /\ proc'[p] = [proc[p] EXCEPT !.todo = @ \ {t},
                  !.orphans = @ \union {[turn |-> t, terminalized |-> FALSE]}]
    BY <1>6, RefusedShapes
  <2>2. t \in Turn
    BY <1>0 DEF Proc
  <2>3. CASE Intend(p, proc[p], "interrupted", t)
    <3>1. PICK e \in Entry : Installs(p, proc[p], e)
      BY <1>0, <2>2, <2>3, IntendBinds DEF Terminal
    <3>2. QED
      BY <1>0, <2>0, <3>1, InstallsKeeps DEF TurnsMove
  <2>4. CASE /\ UNCHANGED <<disk, lock, minted>>
             /\ proc'[p] = [proc[p] EXCEPT !.todo = @ \ {t},
                  !.orphans = @ \union {[turn |-> t, terminalized |-> FALSE]}]
    <3>1. /\ proc'[p].own = proc[p].own /\ proc'[p].todo = proc[p].todo \ {t}
          /\ proc'[p].step = proc[p].step
      BY <1>0, <2>4 DEF Proc
    <3>2. QED
      BY <2>0, <2>4, <3>1 DEF TurnsMove, minted
  <2>5. QED
    BY <2>1, <2>3, <2>4
<1>7. CASE Admit(p) \/ Finalize(p) \/ Terminalize(p)
  <2>0. proc[p].turn \in Turn /\ proc[p].todo = {} /\ proc[p].step # "none"
    BY <1>0, <1>7 DEF Admit, Finalize, Terminalize, ProcOK, Proc
  <2>1. ASSUME NEW q \in Proc, NEW kind \in {"user", "agent", "failed"},
               Intend(p, q, kind, proc[p].turn), q.own = proc[p].own, q.todo = proc[p].todo,
               q.step # "running"
        PROVE  TurnsMove(p)
    <3>1. PICK e \in Entry : Installs(p, q, e)
      BY <2>0, <2>1, IntendBinds DEF Terminal
    <3>2. QED
      BY <2>1, <3>1, InstallsKeeps DEF TurnsMove
  <2>2. ASSUME UNCHANGED <<disk, lock, minted>>,
               \/ proc'[p] = [proc[p] EXCEPT !.step = "ending"]
               \/ proc'[p] = [proc[p] EXCEPT !.turn = NoTurn, !.step = "none"]
        PROVE  TurnsMove(p)
    <3>1. /\ proc'[p].own = proc[p].own /\ proc'[p].todo = proc[p].todo
          /\ proc'[p].step \in {"none", "ending"}
      BY <1>0, <2>2 DEF Proc
    <3>2. QED
      BY <2>2, <3>1 DEF TurnsMove, minted
  <2>3. CASE Admit(p)
    <3>1. proc[p].step = "admitting"
      BY <2>3 DEF Admit
    <3>2. CASE Intend(p, proc[p], "user", proc[p].turn)
      BY <1>0, <2>1, <3>1, <3>2
    <3>3. QED
      BY <2>2, <2>3, <3>2, RefusedShapes
  <2>4. CASE Finalize(p)
    <3> DEFINE q == [proc[p] EXCEPT !.step = "finalizing"]
    <3>1. /\ q \in Proc /\ q.own = proc[p].own /\ q.todo = proc[p].todo
          /\ q.step = "finalizing"
      BY <1>0 DEF Proc
    <3>2. CASE Intend(p, q, "agent", proc[p].turn)
      <4> HIDE DEF q
      <4>1. QED
        BY <2>1, <3>1, <3>2
    <3>3. QED
      BY <2>2, <2>4, <3>2, RefusedShapes
  <2>5. CASE Terminalize(p)
    <3>1. proc[p].step = "ending"
      BY <2>5 DEF Terminalize
    <3>2. CASE Intend(p, proc[p], "failed", proc[p].turn)
      BY <1>0, <2>1, <3>1, <3>2
    <3>3. QED
      BY <2>2, <2>5, <3>2, RefusedShapes
  <2>6. QED
    BY <1>7, <2>3, <2>4, <2>5
<1>8. QED
  BY <1>1, <1>2, <1>3, <1>4, <1>5, <1>6, <1>7 DEF Act

-------------------------------------------------------------------------------
(* One terminal record for a turn.                                         *)

Extended == Len(chat) <= Len(chat') /\ \A k \in 1 .. Len(chat) : chat'[k] = chat[k]

\* Records are only ever appended.
LEMMA ChatExtends ==
  ASSUME TypeInv, NEW p \in Process, Act(p)
  PROVE  Extended
<1>1. chat \in Seq(Record) /\ Len(chat) \in Nat
  BY LenProperties DEF TypeInv, TypeOK
<1>2. CASE UNCHANGED chat
  BY <1>1, <1>2 DEF Extended
<1>3. CASE \E e \in Entry : Grows(e)
  <2>1. PICK e \in Entry : Grows(e)
    BY <1>3
  <2> DEFINE r == [turn |-> e.turn, kind |-> e.kind]
  <2>2. /\ Len(Append(chat, r)) = Len(chat) + 1
        /\ \A k \in 1 .. Len(chat) : Append(chat, r)[k] = chat[k]
    BY <1>1, AppendProperties
  <2>3. QED
    BY <1>1, <2>1, <2>2 DEF Grows, Extended
<1>4. QED
  BY <1>2, <1>3, ActSummary DEF Summary, Binds

\* What was said of the first records stays true.
LEMMA PrefixKept ==
  ASSUME TypeInv, Extended, NEW t, NEW n \in Nat, n <= Len(chat)
  PROVE  /\ n <= Len(chat')
         /\ Unseen(t, n) => Unseen(t, n)'
         /\ Unended(t, n) => Unended(t, n)'
         /\ Begun(t, n) => Begun(t, n)'
         /\ Begun(t, n) => Begun(t, Len(chat))'
<1>1. Len(chat) \in Nat /\ Len(chat') \in Int
  BY LenProperties DEF TypeInv, TypeOK, Extended
<1>2. QED
  BY <1>1 DEF Extended, Unseen, Unended, Begun

\* A turn a terminal record may be written for has begun and has not ended.
LEMMA RecordableFacts ==
  ASSUME TypeInv, NEW t \in Turn
  PROVE  /\ HasUser(t) => Begun(t, Len(chat))
         /\ Recordable(t) => Begun(t, Len(chat)) /\ Unended(t, Len(chat))
<1>1. HasUser(t) => Begun(t, Len(chat))
  BY DEF HasUser, Contains, Begun
<1>2. ASSUME ~IsTerminal(t) PROVE Unended(t, Len(chat))
  <2>1. SUFFICES ASSUME NEW k \in 1 .. Len(chat), chat[k].turn = t, chat[k].kind \in Terminal
                 PROVE  FALSE
    BY DEF Unended
  <2>2. chat[k] \in Record
    BY ElementOfSeq, LenProperties DEF TypeInv, TypeOK
  <2>3. chat[k] = [turn |-> t, kind |-> chat[k].kind]
    BY <2>1, <2>2 DEF Record
  <2>4. QED
    BY <1>2, <2>1, <2>3 DEF IsTerminal, Contains
<1>3. QED
  BY <1>1, <1>2 DEF Recordable

\* A turn without a trace keeps none, unless its own process acts.
LEMMA NoTraceKept ==
  ASSUME TypeInv, NEW p \in Process, Act(p), NEW t \in Turn, NoTrace(t), t \notin proc[p].own
  PROVE  NoTrace(t)'
<1>0. proc[p] \in Proc /\ ProcOK(p, proc[p]) /\ chat \in Seq(Record) /\ Len(chat) \in Nat
  BY LenProperties DEF TypeInv, TypeOK
<1>1. CASE UNCHANGED chat /\ NoneBound
  BY <1>1 DEF NoTrace, Unseen, NoneBound
<1>2. ASSUME NoneBound, NEW e \in Entry, Grows(e) PROVE NoTrace(t)'
  <2> DEFINE r == [turn |-> e.turn, kind |-> e.kind]
  <2>1. /\ Len(Append(chat, r)) = Len(chat) + 1
        /\ \A k \in 1 .. Len(chat) : Append(chat, r)[k] = chat[k]
        /\ Append(chat, r)[Len(chat) + 1] = r
    BY <1>0, AppendProperties
  <2>2. r.turn # t
    BY <1>2 DEF Grows, NoTrace
  <2>3. chat' = Append(chat, r)
    BY <1>2 DEF Grows
  <2> HIDE DEF r
  <2>4. Unseen(t, Len(chat))'
    BY <1>0, <2>1, <2>2, <2>3 DEF NoTrace, Unseen
  <2>5. QED
    BY <1>2, <2>4 DEF NoTrace, NoneBound
<1>3. ASSUME NEW e \in Entry, Binds(p, e), \A f \in Entry : Live(f)' => Live(f) \/ f = e
      PROVE  NoTrace(t)'
  <2>1. e.turn # t
    <3>1. CASE e.turn = NoTurn
      BY <3>1, LaunchAssumption
    <3>2. CASE e.turn = proc[p].turn
      BY <1>0, <3>2, LaunchAssumption DEF ProcOK
    <3>3. CASE Recordable(e.turn)
      BY <3>3 DEF Recordable, HasUser, Contains, NoTrace, Unseen
    <3>4. QED
      BY <1>3, <3>1, <3>2, <3>3 DEF Binds
  <2>2. UNCHANGED chat
    BY <1>3 DEF Binds
  <2>3. QED
    BY <1>3, <2>1, <2>2 DEF NoTrace, Unseen
<1>4. QED
  BY <1>1, <1>2, <1>3, ActSummary DEF Summary

\* What a transaction knew of the chat when it was bound stays true of it.
LEMMA BoundKept ==
  ASSUME TypeInv, ChatInv, NEW p \in Process, Act(p), NEW f \in Entry, Live(f)'
  PROVE  BoundOK(f)'
<1>0. /\ Extended /\ f.at \in Nat /\ Len(chat) \in Nat
      /\ proc[p] \in Proc /\ ProcOK(p, proc[p])
  BY ChatExtends, LenProperties DEF TypeInv, TypeOK, Entry
<1>1. CASE Live(f)
  <2>1. BoundOK(f)
    BY <1>1 DEF ChatInv
  <2>2. QED
    BY <1>0, <2>1, PrefixKept DEF BoundOK
<1>2. CASE ~Live(f)
  <2>1. Binds(p, f)
    BY <1>2, ActSummary DEF Summary, NoneBound
  <2>2. UNCHANGED chat /\ f.at = Len(chat)
    BY <2>1 DEF Binds
  <2>3. BoundOK(f)
    <3>1. CASE f.kind = "create"
      BY <1>0, <2>2, <3>1 DEF BoundOK, Terminal
    <3>2. CASE f.kind \in {"interrupted", "failed"} /\ f.turn \in Turn /\ Recordable(f.turn)
      BY <1>0, <2>2, <3>2, RecordableFacts DEF BoundOK
    <3>3. CASE f.kind = "user" /\ f.turn = proc[p].turn /\ proc[p].step = "admitting"
      <4>1. NoTrace(f.turn)
        BY <2>1, <3>3 DEF Binds, ChatInv, TurnInv
      <4>2. QED
        BY <1>0, <2>2, <3>3, <4>1 DEF BoundOK, NoTrace, Terminal
    <3>4. CASE /\ f.kind = "agent" /\ f.turn = proc[p].turn /\ proc[p].step = "running"
               /\ Len(chat) = proc[p].base
      <4>1. Begun(f.turn, f.at) /\ Unended(f.turn, f.at)
        BY <2>2, <3>4 DEF ChatInv, TurnInv
      <4>2. QED
        BY <1>0, <2>2, <3>4, <4>1 DEF BoundOK
    <3>5. proc[p].todo \subseteq Turn /\ (proc[p].step # "none" => proc[p].turn \in Turn)
      BY <1>0 DEF Proc, ProcOK
    <3>6. QED
      BY <2>1, <3>1, <3>2, <3>3, <3>4, <3>5 DEF Binds
  <2>4. QED
    BY <2>2, <2>3 DEF BoundOK, Begun, Unended, Unseen
<1>3. QED
  BY <1>1, <1>2

LEMMA OneTerminalKept ==
  ASSUME TypeInv, ChatInv, NEW p \in Process, Act(p)
  PROVE  OneTerminalRecord'
<1>0. chat \in Seq(Record) /\ Len(chat) \in Nat /\ DOMAIN chat = 1 .. Len(chat)
  BY LenProperties DEF TypeInv, TypeOK
<1>1. CASE UNCHANGED chat
  BY <1>1 DEF ChatInv, OneTerminalRecord
<1>2. ASSUME NEW e \in Entry, Grows(e) PROVE OneTerminalRecord'
  <2> DEFINE r == [turn |-> e.turn, kind |-> e.kind]
             n == Len(chat)
  <2>1. e.turn \in Turn /\ r \in Record
    <3>1. CASE Journaled(e)
      <4>1. EntryOK(e)
        BY <3>1 DEF Journaled, TypeInv
      <4>2. QED
        BY <1>2, <4>1 DEF EntryOK, Entry, Grows, Record
    <3>2. CASE Awaited(e)
      <4>1. EntryOK(e)
        BY <3>2, JobTyped DEF Awaited
      <4>2. QED
        BY <1>2, <4>1 DEF EntryOK, Entry, Grows, Record
    <3>3. QED
      BY <1>2, <3>1, <3>2 DEF Grows, Live
  <2>2. /\ DOMAIN chat' = 1 .. n + 1
        /\ \A k \in 1 .. n : chat'[k] = chat[k]
        /\ chat'[n + 1] = r
    BY <1>0, <1>2, <2>1, AppendElements DEF Grows
  <2>3. e.kind \in Terminal => Begun(e.turn, n) /\ Unended(e.turn, n)
    BY <1>2 DEF ChatInv, BoundOK, Grows
  <2>4. r.turn = e.turn /\ r.kind = e.kind
    OBVIOUS
  <2>5. \A i \in 1 .. n + 1 : chat'[i].kind \in Terminal =>
          \E k \in 1 .. (i - 1) : chat'[k] = [turn |-> chat'[i].turn, kind |-> "user"]
    <3>1. SUFFICES ASSUME NEW i \in 1 .. n + 1, chat'[i].kind \in Terminal
                   PROVE  \E k \in 1 .. (i - 1) :
                            chat'[k] = [turn |-> chat'[i].turn, kind |-> "user"]
      OBVIOUS
    <3>2. CASE i = n + 1
      <4>1. PICK k \in 1 .. n : chat[k] = [turn |-> e.turn, kind |-> "user"]
        BY <2>2, <2>3, <2>4, <3>1, <3>2 DEF Begun
      <4>2. QED
        BY <1>0, <2>2, <2>4, <3>2, <4>1
    <3>3. CASE i \in 1 .. n
      <4>1. chat'[i] = chat[i]
        BY <2>2, <3>3
      <4>2. PICK k \in 1 .. (i - 1) : chat[k] = [turn |-> chat[i].turn, kind |-> "user"]
        BY <1>0, <3>1, <3>3, <4>1 DEF ChatInv, OneTerminalRecord
      <4>3. k \in 1 .. n
        BY <1>0, <3>3, <4>2
      <4>4. QED
        BY <2>2, <4>1, <4>2, <4>3
    <3>4. QED
      BY <1>0, <3>2, <3>3
  <2>6. \A i, j \in 1 .. n :
          chat[i].kind \in Terminal /\ chat[j].kind \in Terminal /\ chat[i].turn = chat[j].turn
            => i = j
    BY <1>0 DEF ChatInv, OneTerminalRecord
  <2>7. \A i \in 1 .. n : chat[i].kind \in Terminal /\ r.kind \in Terminal => chat[i].turn # r.turn
    BY <2>3, <2>4 DEF Unended
  <2> HIDE DEF r
  <2>8. ASSUME NEW i \in 1 .. n + 1, NEW j \in 1 .. n + 1,
               chat'[i].kind \in Terminal, chat'[j].kind \in Terminal,
               chat'[i].turn = chat'[j].turn
        PROVE  i = j
    <3>1. \A k \in 1 .. n + 1 : k = n + 1 \/ k \in 1 .. n
      BY <1>0
    <3>2. /\ chat'[i].kind \in Terminal /\ chat'[j].kind \in Terminal
          /\ chat'[i].turn = chat'[j].turn
      BY <2>8
    <3> HIDE DEF n
    <3>3. CASE i \in 1 .. n /\ j \in 1 .. n
      BY <2>2, <2>6, <3>2, <3>3
    <3>4. CASE i \in 1 .. n /\ j = n + 1
      BY <2>2, <2>7, <3>2, <3>4
    <3>5. CASE i = n + 1 /\ j \in 1 .. n
      BY <2>2, <2>7, <3>2, <3>5
    <3>6. QED
      BY <3>1, <3>3, <3>4, <3>5
  <2>9. QED
    BY <2>2, <2>5, <2>8 DEF OneTerminalRecord
<1>3. QED
  BY <1>1, <1>2, ActSummary DEF Summary, Binds

LEMMA TurnsKept ==
  ASSUME TypeInv, ChatInv, NEW p \in Process, Act(p)
  PROVE  TurnInv'
<1>0. /\ Extended /\ Len(chat) \in Nat /\ TurnsMove(p)
      /\ proc[p] \in Proc /\ ProcOK(p, proc[p])
      /\ \A q \in Process \ {p} : proc'[q] = proc[q]
  BY ChatExtends, ActTurns, OtherProcesses, LenProperties DEF TypeInv, TypeOK
<1>1. ASSUME NEW t \in Turn, t \notin used'
      PROVE  NoTrace(t)' /\ \A q \in Process : t \notin proc'[q].own
  <2>1. t \notin used /\ t \notin proc'[p].own
    <3>1. CASE proc'[p].own \subseteq proc[p].own /\ used' = used
      BY <1>1, <3>1 DEF ChatInv, TurnInv
    <3>2. ASSUME NEW u \in Turn, Start(p, u) PROVE t \notin used /\ t \notin proc'[p].own
      BY <1>1, <3>2, StartShape DEF ChatInv, TurnInv
    <3>3. QED
      BY <1>0, <3>1, <3>2 DEF TurnsMove
  <2>2. NoTrace(t) /\ \A q \in Process : t \notin proc[q].own
    BY <1>1, <2>1 DEF ChatInv, TurnInv
  <2>3. QED
    BY <1>0, <2>1, <2>2, NoTraceKept
<1>2. ASSUME NEW q \in Process \ {p} PROVE proc'[p].own \cap proc'[q].own = {}
  <2>1. proc[p].own \cap proc[q].own = {}
    BY <1>2 DEF ChatInv, TurnInv
  <2>2. CASE proc'[p].own \subseteq proc[p].own
    BY <1>0, <2>1, <2>2
  <2>3. ASSUME NEW u \in Turn, Start(p, u) PROVE proc'[p].own \cap proc'[q].own = {}
    <3>1. proc'[p].own = proc[p].own \union {u} /\ u \notin used
      BY <2>3, StartShape
    <3>2. u \notin proc[q].own
      BY <3>1 DEF ChatInv, TurnInv
    <3>3. QED
      BY <1>0, <2>1, <3>1, <3>2
  <2>4. QED
    BY <1>0, <2>2, <2>3 DEF TurnsMove
<1>3. \A q, r \in Process : q # r => proc'[q].own \cap proc'[r].own = {}
  <2>1. \A q, r \in Process : q # r => proc[q].own \cap proc[r].own = {}
    BY DEF ChatInv, TurnInv
  <2>2. QED
    BY <1>0, <1>2, <2>1
<1>4. ASSUME NEW q \in Process PROVE \A t \in proc'[q].todo : Begun(t, Len(chat))'
  <2>1. ASSUME NEW t \in proc[q].todo PROVE Begun(t, Len(chat))'
    BY <1>0, PrefixKept DEF ChatInv, TurnInv
  <2>2. CASE q # p
    BY <1>0, <2>1, <2>2
  <2>3. CASE q = p
    <3>1. ASSUME NEW t \in Turn, HasUser(t), UNCHANGED chat PROVE Begun(t, Len(chat))'
      BY <3>1, RecordableFacts DEF Begun
    <3>2. QED
      BY <1>0, <2>1, <2>3, <3>1 DEF TurnsMove
  <2>4. QED
    BY <2>2, <2>3
<1>5. ASSUME NEW q \in Process, proc'[q].step = "admitting", proc'[q].job = NoJob
      PROVE  NoTrace(proc[q].turn)'
  <2>1. CASE q # p
    <3>1. proc'[q] = proc[q]
      BY <1>0, <2>1
    <3> DEFINE t == proc[q].turn
    <3>2. t \in Turn /\ t \in proc[q].own /\ NoTrace(t)
      <4>1. proc[q] \in Proc /\ ProcOK(q, proc[q])
        BY DEF TypeInv, TypeOK
      <4>2. QED
        BY <1>5, <3>1, <4>1 DEF Proc, ProcOK, ChatInv, TurnInv
    <3>3. t \notin proc[p].own
      BY <2>1, <3>2 DEF ChatInv, TurnInv
    <3>4. ASSUME NEW u, u = t PROVE NoTrace(u)'
      BY <3>2, <3>3, <3>4, NoTraceKept
    <3>5. QED
      BY <3>1, <3>4 DEF NoTrace, Unseen
  <2>2. CASE q = p
    <3>1. CASE /\ proc[p].step = "admitting" /\ proc[p].job = NoJob
               /\ proc'[p].turn = proc[p].turn /\ UNCHANGED <<chat, journal>>
      <4>1. \A r \in Process : proc'[r].job \in {proc[r].job, NoJob}
        BY <1>0, <1>5, <2>2
      <4>2. NoneBound
        BY <3>1, <4>1, NoneBoundIf
      <4>3. NoTrace(proc[p].turn)
        BY <3>1 DEF ChatInv, TurnInv
      <4>4. QED
        BY <2>2, <3>1, <4>2, <4>3 DEF NoTrace, Unseen, NoneBound
    <3>2. ASSUME NEW u \in Turn, Start(p, u) PROVE NoTrace(proc[q].turn)'
      <4>1. u \notin used /\ proc'[p].turn = u
        BY <3>2, StartShape
      <4>2. NoTrace(u) /\ u \notin proc[p].own
        BY <4>1 DEF ChatInv, TurnInv
      <4>3. NoTrace(u)'
        BY <4>2, NoTraceKept
      <4>4. QED
        BY <2>2, <4>1, <4>3 DEF NoTrace, Unseen
    <3>3. QED
      BY <1>0, <1>5, <2>2, <3>1, <3>2 DEF TurnsMove
  <2>3. QED
    BY <2>1, <2>2
<1>6. ASSUME NEW q \in Process, proc'[q].step = "running"
      PROVE  /\ proc'[q].base <= Len(chat')
             /\ Begun(proc[q].turn, proc[q].base)'
             /\ Unended(proc[q].turn, proc[q].base)'
  <2>1. ASSUME proc[q].step = "running", proc'[q].turn = proc[q].turn,
               proc'[q].base = proc[q].base
        PROVE  /\ proc'[q].base <= Len(chat')
               /\ Begun(proc[q].turn, proc[q].base)'
               /\ Unended(proc[q].turn, proc[q].base)'
    <3>1. PICK t \in Turn \union {NoTurn}, n \in Nat : t = proc[q].turn /\ n = proc[q].base
      BY DEF TypeInv, TypeOK, Proc
    <3>2. n \in Nat
      OBVIOUS
    <3>3. n <= Len(chat) /\ Begun(t, n) /\ Unended(t, n)
      BY <2>1, <3>1 DEF ChatInv, TurnInv
    <3>4. n <= Len(chat') /\ Begun(t, n)' /\ Unended(t, n)'
      BY <1>0, <3>2, <3>3, PrefixKept
    <3>5. QED
      BY <2>1, <3>1, <3>4 DEF Begun, Unended
  <2>2. CASE q # p
    BY <1>0, <1>6, <2>1, <2>2
  <2>3. CASE /\ q = p /\ Realize(p) /\ proc[p].pc = "kernel" /\ proc[p].step = "admitting"
             /\ proc[p].job # NoJob
             /\ proc'[p].turn = proc[p].turn
             /\ proc'[p].base = proc[p].job.at + 1
    <3>1. PICK e \in Entry : e = proc[p].job
      BY <2>3, JobTyped
    <3>2. Live(e) /\ e.kind = "user" /\ e.turn = proc[p].turn /\ JobOK(p, proc[p])
      BY <2>3, <3>1, JobTyped DEF Live, Awaited, JobOK
    <3>3. e.at \in Nat /\ BoundOK(e)
      BY <3>2 DEF ChatInv, Entry
    <3>4. /\ e.at + 1 = Len(chat')
          /\ chat'[e.at + 1] = [turn |-> e.turn, kind |-> "user"]
      BY <2>3, <3>1, <3>2, AppliedGrows DEF Realize
    <3>5. Unseen(e.turn, e.at)'
      BY <1>0, <3>2, <3>3, PrefixKept DEF BoundOK
    <3> DEFINE t == e.turn
               n == e.at + 1
    <3>6. n \in 1 .. n /\ \A k \in 1 .. n : k = n \/ k \in 1 .. e.at
      BY <3>3
    <3>7. Begun(t, n)'
      BY <3>4, <3>6 DEF Begun
    <3>8. Unended(t, n)'
      BY <3>4, <3>5, <3>6 DEF Unended, Unseen, Terminal
    <3>9. proc'[q].turn = t /\ proc'[q].base = n /\ n <= Len(chat')
      BY <2>3, <3>1, <3>2, <3>3, <3>4
    <3> HIDE DEF t, n
    <3>10. QED
      BY <3>7, <3>8, <3>9 DEF Begun, Unended
  <2>4. QED
    BY <1>0, <1>6, <2>1, <2>2, <2>3 DEF TurnsMove
<1>7. QED
  BY <1>1, <1>3, <1>4, <1>5, <1>6 DEF TurnInv

LEMMA ChatInit == Init => ChatInv
<1> SUFFICES ASSUME Init PROVE ChatInv
  OBVIOUS
<1>1. Len(chat) = 0 /\ DOMAIN chat = {} /\ DOMAIN journal = {}
  BY DEF Init
<1>2. \A p \in Process : proc[p] = Off
  BY DEF Init
<1>3. \A e \in Entry : ~Live(e)
  BY <1>1, <1>2 DEF Live, Journaled, Awaited, Off
<1>4. TurnInv
  BY <1>1, <1>2, <1>3 DEF TurnInv, NoTrace, Unseen, Off
<1>5. OneTerminalRecord
  BY <1>1 DEF OneTerminalRecord
<1>6. QED
  BY <1>3, <1>4, <1>5 DEF ChatInv

LEMMA ChatStep == TypeInv /\ ChatInv /\ [Next]_vars => ChatInv'
<1>1. ASSUME TypeInv, ChatInv, NEW p \in Process, Act(p) PROVE ChatInv'
  BY <1>1, BoundKept, TurnsKept, OneTerminalKept DEF ChatInv
<1>2. ASSUME ChatInv, UNCHANGED vars PROVE ChatInv'
  BY <1>2
     DEF vars, ChatInv, BoundOK, Live, Journaled, Awaited, TurnInv, NoTrace, Unseen, Unended,
         Begun, OneTerminalRecord
<1>3. ASSUME Next PROVE \E p \in Process : Act(p)
  BY <1>3 DEF Next, Act
<1>4. QED
  BY <1>1, <1>2, <1>3

LEMMA ChatAlways == Spec => [](TypeInv /\ ChatInv)
BY TypeInit, TypeStep, ChatInit, ChatStep, PTL DEF Spec

\* Whatever dies or fails, and however many processes share the folder, a turn has
\* at most one terminal record, after its user record: a transaction is bound to
\* the length of the chat it was decided over, so a second copy of a record, or one
\* decided over an older chat, finds its target neither old nor new.
THEOREM TurnsEndOnce == Spec => []OneTerminalRecord
<1>1. TypeInv /\ ChatInv => OneTerminalRecord
  BY DEF ChatInv
<1>2. QED
  BY <1>1, ChatAlways, PTL

-------------------------------------------------------------------------------
(* Who holds the lease.                                                    *)

\* p takes a free lease, leaves its own, or leaves the lease alone; and it starts
\* to scan over an empty journal only.
LeaseMoves(p) ==
  /\ \/ lock' = lock
     \/ lock = NoProcess /\ lock' = p
     \/ /\ lock = p /\ lock' = NoProcess
        /\ proc'[p].pc \notin Opens /\ proc'[p].job = NoJob /\ proc'[p].step # "running"
  /\ proc'[p].pc \in Opens => proc[p].pc \in Opens \/ lock' = p
  /\ proc'[p].pc = "scanning" => proc[p].pc = "scanning" \/ journal' = << >>

LEMMA OffLeases ==
  ASSUME NEW p, proc'[p] = Off, lock' = lock \/ (lock = p /\ lock' = NoProcess)
  PROVE  LeaseMoves(p)
BY DEF LeaseMoves, Off, Opens

LEMMA ActLeases ==
  ASSUME TypeInv, NEW p \in Process, Act(p)
  PROVE  LeaseMoves(p)
<1>0. proc[p] \in Proc /\ ProcOK(p, proc[p])
  BY DEF TypeInv, TypeOK
<1>1. ASSUME UNCHANGED lock, proc'[p].pc = proc[p].pc PROVE LeaseMoves(p)
  BY <1>1 DEF LeaseMoves
<1>2. CASE Launch(p)
  <2>1. CASE lock' = lock /\ proc'[p] = [proc[p] EXCEPT !.pc = "making"]
    <3>1. proc'[p].pc = "making"
      BY <1>0, <2>1 DEF Proc
    <3>2. QED
      BY <2>1, <3>1 DEF LeaseMoves, Opens
  <2>2. CASE lock = NoProcess /\ lock' = p /\ proc'[p] = [proc[p] EXCEPT !.pc = "recovering"]
    <3>1. proc'[p].pc = "recovering"
      BY <1>0, <2>2 DEF Proc
    <3>2. QED
      BY <2>2, <3>1 DEF LeaseMoves
  <2>3. QED
    BY <1>2, <2>1, <2>2 DEF Launch, TypeInv, TypeOK
<1>3. CASE MakeFolder(p)
  <2>1. proc'[p] = [proc[p] EXCEPT !.pc = "locking"] /\ lock' = lock
    BY <1>3, PlainShapes DEF MakeFolder
  <2>2. proc'[p].pc = "locking"
    BY <1>0, <2>1 DEF Proc
  <2>3. QED
    BY <2>1, <2>2 DEF LeaseMoves, Opens
<1>4. CASE LockNew(p)
  <2>1. CASE lock = NoProcess
    <3>1. lock' = p /\ proc'[p].pc = "creating"
      BY <1>0, <1>4, <2>1 DEF LockNew, Proc, TypeInv, TypeOK
    <3>2. QED
      BY <2>1, <3>1 DEF LeaseMoves
  <2>2. CASE lock # NoProcess
    <3>1. Becomes(p, Off) /\ proc'[p] = Off
      BY <1>4, <2>2, BecomesIs DEF LockNew, TypeInv, TypeOK
    <3>2. QED
      BY <3>1, BecomesIs, OffLeases
  <2>3. QED
    BY <2>1, <2>2
<1>5. CASE Recover(p)
  <2>1. CASE journal = << >> /\ manifest # NoProcess
    <3> DEFINE q == [proc[p] EXCEPT !.pc = "scanning", !.todo = Orphans]
    <3>1. Becomes(p, q) /\ UNCHANGED disk
      BY <1>5, <2>1 DEF Recover
    <3>2. q.pc = "scanning" /\ proc[p].pc = "recovering"
      BY <1>0, <1>5 DEF Recover, Proc
    <3> HIDE DEF q
    <3>3. lock' = lock /\ proc'[p] = q /\ journal' = << >>
      BY <2>1, <3>1, <3>2, BecomesIs DEF disk, TypeInv, TypeOK
    <3>4. QED
      BY <3>2, <3>3 DEF LeaseMoves, Opens
  <2>2. CASE Becomes(p, Off)
    BY <2>2, BecomesIs, OffLeases DEF TypeInv, TypeOK
  <2>3. CASE UNCHANGED <<folder, lock, proc>>
    BY <1>1, <2>3
  <2>4. QED
    BY <1>5, <2>1, <2>2, <2>3 DEF Recover
<1>6. CASE SkipChat(p)
  <2>1. /\ lock' = lock /\ journal' = << >> /\ proc[p].pc = "recovering"
        /\ proc'[p] = [proc[p] EXCEPT !.pc = "scanning", !.skipped = TRUE]
    BY <1>6, PlainShapes DEF SkipChat, disk
  <2>2. QED
    BY <2>1 DEF LeaseMoves, Opens
<1>7. CASE Scanned(p)
  <2>1. proc'[p] = [proc[p] EXCEPT !.pc = "kernel"] /\ lock' = lock
    BY <1>7, PlainShapes DEF Scanned
  <2>2. proc'[p].pc = "kernel"
    BY <1>0, <2>1 DEF Proc
  <2>3. QED
    BY <2>1, <2>2 DEF LeaseMoves, Opens
<1>8. CASE Open(p) \/ Ready(p)
  <2>1. lock' = lock
    BY <1>8 DEF Open, Ready
  <2>2. PICK phase : proc'[p] = [proc[p] EXCEPT !.phase = phase]
    BY <1>8, PlainShapes
  <2>3. proc'[p].pc = proc[p].pc
    BY <1>0, <2>2 DEF Proc
  <2>4. QED
    BY <1>1, <2>1, <2>3
<1>9. CASE CloseBlocked(p)
  <2>1. proc'[p] = [proc[p] EXCEPT !.phase = "closed"]
    BY <1>9, PlainShapes
  <2>2. proc[p].pc = "kernel" /\ proc[p].step = "none" /\ proc[p].job = NoJob
    BY <1>0, <1>9 DEF CloseBlocked, ProcOK, JobOK
  <2>3. proc'[p].pc = "kernel" /\ proc'[p].step = "none" /\ proc'[p].job = NoJob
    BY <1>0, <2>1, <2>2 DEF Proc
  <2>4. lock' = lock \/ (lock = p /\ lock' = NoProcess)
    BY <1>9 DEF CloseBlocked
  <2>5. QED
    BY <2>3, <2>4 DEF LeaseMoves, Opens
<1>10. ASSUME NEW t \in Turn, Start(p, t) PROVE LeaseMoves(p)
  BY <1>1, <1>10, StartShape
<1>11. CASE Exit(p)
  BY <1>11, BecomesIs, OffLeases DEF Exit, TypeInv, TypeOK
<1>12. CASE Realize(p) \/ Conflicts(p) \/ StaysPending(p)
  <2>1. PICK ok \in BOOLEAN : /\ proc'[p] = Told(p, ok)
                              /\ proc[p].job # NoJob
                              /\ lock' = IF Told(p, ok).pc = "off" /\ lock = p
                                         THEN NoProcess ELSE lock
    BY <1>12, AnswerShape
  <2>2. /\ proc'[p].job = NoJob
        /\ proc'[p].pc = proc[p].pc \/ proc'[p].pc \in {"kernel", "off"}
        /\ proc'[p].pc = "off" => proc'[p].step = "none"
    BY <2>1, ToldFacts DEF ProcOK
  <2>3. QED
    BY <2>1, <2>2 DEF LeaseMoves, Opens
<1>13. ASSUME NEW q \in Proc, NEW kind \in Terminal \union {"user", "create"},
              NEW t \in Turn \union {NoTurn}, Intend(p, q, kind, t),
              q.pc = proc[p].pc, q.pc # "off"
       PROVE  LeaseMoves(p)
  <2>1. PICK e \in Entry : Installs(p, q, e)
    BY <1>13, IntendBinds
  <2>2. lock' = lock /\ proc'[p].pc = proc[p].pc
    BY <1>13, <2>1, InstallsKeeps DEF Installs
  <2>3. QED
    BY <1>1, <2>2
<1>14. CASE Create(p)
  BY <1>0, <1>13, <1>14 DEF Create
<1>15. CASE Interrupt(p)
  <2>1. PICK t \in proc[p].todo :
          \/ Recordable(t) /\ Intend(p, proc[p], "interrupted", t)
          \/ /\ UNCHANGED <<disk, lock, minted>>
             /\ proc'[p] = [proc[p] EXCEPT !.todo = @ \ {t},
                  !.orphans = @ \union {[turn |-> t, terminalized |-> FALSE]}]
    BY <1>15, RefusedShapes
  <2>2. t \in Turn /\ proc[p].pc = "scanning"
    BY <1>0, <1>15 DEF Interrupt, Proc
  <2>3. CASE Intend(p, proc[p], "interrupted", t)
    BY <1>0, <1>13, <2>2, <2>3 DEF Terminal
  <2>4. CASE /\ UNCHANGED <<disk, lock, minted>>
             /\ proc'[p] = [proc[p] EXCEPT !.todo = @ \ {t},
                  !.orphans = @ \union {[turn |-> t, terminalized |-> FALSE]}]
    <3>1. proc'[p].pc = proc[p].pc
      BY <1>0, <2>4 DEF Proc
    <3>2. QED
      BY <1>1, <2>4, <3>1
  <2>5. QED
    BY <2>1, <2>3, <2>4
<1>16. CASE Admit(p) \/ Finalize(p) \/ Terminalize(p)
  <2>0. proc[p].turn \in Turn /\ proc[p].pc = "kernel"
    BY <1>0, <1>16 DEF Admit, Finalize, Terminalize, ProcOK, Proc
  <2>1. ASSUME UNCHANGED <<disk, lock, minted>>,
               \/ proc'[p] = [proc[p] EXCEPT !.step = "ending"]
               \/ proc'[p] = [proc[p] EXCEPT !.turn = NoTurn, !.step = "none"]
        PROVE  LeaseMoves(p)
    <3>1. proc'[p].pc = proc[p].pc
      BY <1>0, <2>1 DEF Proc
    <3>2. QED
      BY <1>1, <2>1, <3>1
  <2>2. CASE Admit(p)
    <3>1. CASE Intend(p, proc[p], "user", proc[p].turn)
      BY <1>0, <1>13, <2>0, <3>1
    <3>2. QED
      BY <2>1, <2>2, <3>1, RefusedShapes
  <2>3. CASE Finalize(p)
    <3> DEFINE q == [proc[p] EXCEPT !.step = "finalizing"]
    <3>1. q \in Proc /\ q.pc = proc[p].pc
      BY <1>0 DEF Proc
    <3>2. CASE Intend(p, q, "agent", proc[p].turn)
      <4> HIDE DEF q
      <4>1. QED
        BY <1>13, <2>0, <3>1, <3>2 DEF Terminal
    <3>3. QED
      BY <2>1, <2>3, <3>2, RefusedShapes
  <2>4. CASE Terminalize(p)
    <3>1. CASE Intend(p, proc[p], "failed", proc[p].turn)
      BY <1>0, <1>13, <2>0, <3>1 DEF Terminal
    <3>2. QED
      BY <2>1, <2>4, <3>1, RefusedShapes
  <2>5. QED
    BY <1>16, <2>2, <2>3, <2>4
<1>17. QED
  BY <1>2, <1>3, <1>4, <1>5, <1>6, <1>7, <1>8, <1>9, <1>10, <1>11, <1>12, <1>14, <1>15,
     <1>16 DEF Act

\* A turn becomes interrupted only by a transaction bound to say so.
LEMMA InterruptedKept ==
  ASSUME TypeInv, NEW p \in Process, Act(p), NEW t, ~InterruptedBy(t),
         \A e \in Entry : Binds(p, e) => ~(e.kind = "interrupted" /\ e.turn = t)
  PROVE  ~InterruptedBy(t)'
<1>0. chat \in Seq(Record) /\ Len(chat) \in Nat /\ DOMAIN chat = 1 .. Len(chat)
  BY LenProperties DEF TypeInv, TypeOK
<1>1. CASE UNCHANGED chat /\ NoneBound
  BY <1>1 DEF InterruptedBy, NoneBound
<1>2. ASSUME NoneBound, NEW e \in Entry, Grows(e) PROVE ~InterruptedBy(t)'
  <2> DEFINE r == [turn |-> e.turn, kind |-> e.kind]
             i == [turn |-> t, kind |-> "interrupted"]
  <2>1. /\ Len(Append(chat, r)) = Len(chat) + 1
        /\ DOMAIN Append(chat, r) = 1 .. Len(chat) + 1
        /\ \A k \in 1 .. Len(chat) : Append(chat, r)[k] = chat[k]
        /\ Append(chat, r)[Len(chat) + 1] = r
    BY <1>0, AppendProperties, LenProperties
  <2>2. r # i
    BY <1>2 DEF Grows, InterruptedBy
  <2>3. chat' = Append(chat, r)
    BY <1>2 DEF Grows
  <2>4. \A k \in 1 .. Len(chat) : chat[k] # i
    BY <1>0 DEF InterruptedBy
  <2> HIDE DEF r, i
  <2>5. \A k \in DOMAIN chat' : chat'[k] # i
    BY <1>0, <2>1, <2>2, <2>3, <2>4
  <2>6. QED
    BY <1>2, <2>5 DEF InterruptedBy, NoneBound, i
<1>3. ASSUME NEW e \in Entry, Binds(p, e), \A f \in Entry : Live(f)' => Live(f) \/ f = e
      PROVE  ~InterruptedBy(t)'
  BY <1>3 DEF InterruptedBy, Binds
<1>4. QED
  BY <1>1, <1>2, <1>3, ActSummary DEF Summary

\* The transaction a process waits for afterwards is the one it waited for, or the
\* one it has just bound.
LEMMA JobMoves ==
  ASSUME TypeInv, NEW p \in Process, Act(p), proc'[p].job # NoJob
  PROVE  \/ proc'[p].job = proc[p].job
         \/ \E e \in Entry : Binds(p, e) /\ proc'[p].job = e
<1>1. CASE NoneBound
  BY <1>1 DEF NoneBound
<1>2. CASE \E e \in Entry : Binds(p, e)
  BY <1>2 DEF Binds
<1>3. QED
  BY <1>1, <1>2, ActSummary DEF Summary

\* What still has to be written, after the step.
LEMMA LiveMoves ==
  ASSUME TypeInv, NEW p \in Process, Act(p), NEW f \in Entry, Live(f)', ~Live(f)
  PROVE  Binds(p, f)
BY ActSummary DEF Summary, NoneBound

LEMMA JournalMoves ==
  ASSUME TypeInv, NEW p \in Process, Act(p), NEW f \in Entry, Journaled(f)', ~Journaled(f)
  PROVE  Binds(p, f)
<1>1. ~NoneBound
  BY DEF NoneBound, Journaled
<1>2. PICK e \in Entry : Binds(p, e)
  BY <1>1, ActSummary DEF Summary
<1>3. f = e
  BY <1>2, AppendElements DEF Binds, Journaled, TypeInv, TypeOK
<1>4. QED
  BY <1>2, <1>3

\* What was begun without the lease is not forgotten.
LEMMA UnleasedStays ==
  ASSUME TypeInv, NEW p \in Process, Act(p)
  PROVE  unleased => unleased'
<1>1. CASE \E e \in Entry : Binds(p, e)
  BY <1>1 DEF Binds
<1>2. CASE Recover(p) \/ Exit(p) \/ Realize(p) \/ Conflicts(p) \/ StaysPending(p)
  BY <1>2 DEF Recover, Exit, Realize, Conflicts, StaysPending, minted
<1>3. CASE \/ Launch(p) \/ MakeFolder(p) \/ LockNew(p) \/ SkipChat(p) \/ Scanned(p)
           \/ Open(p) \/ Ready(p) \/ CloseBlocked(p)
  BY <1>3, PlainKeeps DEF minted
<1>4. CASE \E t \in Turn : Start(p, t)
  BY <1>4 DEF Start
<1>5. ASSUME NEW q, NEW kind, NEW t, Intend(p, q, kind, t) PROVE unleased => unleased'
  BY <1>5 DEF Intend
<1>6. CASE Create(p) \/ Interrupt(p)
  BY <1>5, <1>6, RefusedShapes DEF Create, minted
<1>7. CASE Admit(p) \/ Finalize(p) \/ Terminalize(p)
  BY <1>5, <1>7, RefusedShapes DEF minted
<1>8. QED
  BY <1>2, <1>3, <1>4, <1>6, <1>7 DEF Act

LEMMA LeaseKept ==
  ASSUME TypeInv, TypeInv', ChatInv, LeaseInv, NEW p \in Process, Act(p)
  PROVE  LeaseInv'
<1>0. /\ LeaseMoves(p) /\ TurnsMove(p)
      /\ \A q \in Process \ {p} : proc'[q] = proc[q]
      /\ \A q \in Process : ProcOK(q, proc[q]) /\ ProcOK(q, proc'[q])
      /\ NoProcess \notin Process
  BY ActLeases, ActTurns, OtherProcesses, LaunchAssumption DEF TypeInv
<1>1. \A q \in Process : proc'[q].pc \in Opens => lock' = q
  <2>1. ASSUME NEW q \in Process, q # p, proc'[q].pc \in Opens PROVE lock' = q
    <3>1. lock = q
      BY <1>0, <2>1 DEF LeaseInv
    <3>2. QED
      BY <1>0, <2>1, <3>1 DEF LeaseMoves
  <2>2. ASSUME proc'[p].pc \in Opens PROVE lock' = p
    <3>1. lock = p \/ lock' = p
      BY <1>0, <2>2 DEF LeaseMoves, LeaseInv
    <3>2. QED
      BY <1>0, <2>2, <3>1 DEF LeaseMoves
  <2>3. QED
    BY <2>1, <2>2
<1>2. ASSUME ~unleased' PROVE ~unleased
  BY <1>2, UnleasedStays
\* What p binds, it binds under the lease.
<1>3. ASSUME ~unleased', NEW e \in Entry, Binds(p, e) PROVE lock = p /\ lock' = p
  <2>1. lock = p
    BY <1>3 DEF Binds
  <2>2. proc'[p].job # NoJob
    BY <1>3 DEF Binds, NoJob, Entry, Terminal
  <2>3. QED
    BY <1>0, <2>1, <2>2 DEF LeaseMoves
<1>4. ASSUME ~unleased', NEW q \in Process, proc'[q].job # NoJob \/ proc'[q].step = "running"
      PROVE  lock' = q
  <2>0. ~unleased
    BY <1>2, <1>4
  <2>1. CASE q # p
    <3>1. lock = q
      BY <1>0, <1>4, <2>0, <2>1 DEF LeaseInv
    <3>2. QED
      BY <1>0, <2>1, <3>1 DEF LeaseMoves
  <2>2. CASE q = p
    <3>1. CASE proc[p].job # NoJob \/ proc[p].step = "running"
      <4>1. lock = p
        BY <2>0, <3>1 DEF LeaseInv
      <4>2. QED
        BY <1>0, <1>4, <2>2, <4>1 DEF LeaseMoves
    <3>2. CASE proc[p].job = NoJob /\ proc[p].step # "running"
      <4>1. proc'[p].job # NoJob
        BY <1>0, <1>4, <2>2, <3>2 DEF TurnsMove
      <4>2. PICK e \in Entry : Binds(p, e)
        BY <3>2, <4>1, JobMoves
      <4>3. QED
        BY <1>3, <1>4, <2>2, <4>2
    <3>3. QED
      BY <3>1, <3>2
  <2>3. QED
    BY <2>1, <2>2
<1>5. ASSUME ~unleased', NEW q \in Process, proc'[q].pc = "scanning", NEW e \in Entry,
             Journaled(e)'
      PROVE  e.kind # "agent"
  <2>0. ~unleased /\ lock' = q
    BY <1>1, <1>2, <1>5 DEF Opens
  <2>1. CASE proc[q].pc = "scanning"
    <3>1. CASE Journaled(e)
      BY <2>0, <2>1, <3>1 DEF LeaseInv
    <3>2. CASE ~Journaled(e)
      <4>1. ASSUME e.kind = "agent" PROVE FALSE
        <5>1. Binds(p, e)
          BY <1>5, <3>2, JournalMoves
        <5>2. q = p
          BY <1>3, <1>5, <2>0, <5>1
        <5>3. proc'[p].job = e /\ e # NoJob /\ JobOK(p, proc'[p])
          BY <1>0, <4>1, <5>1 DEF Binds, ProcOK, NoJob
        <5>4. QED
          BY <1>5, <4>1, <5>2, <5>3 DEF JobOK
      <4>2. QED
        BY <4>1
    <3>3. QED
      BY <3>1, <3>2
  <2>2. CASE proc[q].pc # "scanning"
    <3>1. journal' = << >>
      BY <1>0, <1>5, <2>2 DEF LeaseMoves
    <3>2. QED
      BY <1>5, <3>1 DEF Journaled
  <2>3. QED
    BY <2>1, <2>2
<1>6. ASSUME ~unleased', NEW e \in Entry, Live(e)', e.kind = "agent"
      PROVE  ~InterruptedBy(e.turn)'
  <2>0. ~unleased
    BY <1>2, <1>6
  <2>1. ASSUME ~InterruptedBy(e.turn),
               \A b \in Entry : Binds(p, b) => ~(b.kind = "interrupted" /\ b.turn = e.turn)
        PROVE  ~InterruptedBy(e.turn)'
    BY <2>1, InterruptedKept
  <2>2. CASE Live(e)
    <3>1. ~InterruptedBy(e.turn)
      BY <1>6, <2>0, <2>2 DEF LeaseInv
    <3>2. ASSUME NEW b \in Entry, Binds(p, b), b.kind = "interrupted" PROVE FALSE
      <4>1. lock = p /\ proc[p].pc = "scanning" /\ proc[p].job = NoJob
        BY <1>3, <1>6, <3>2 DEF Binds
      <4>2. ~Journaled(e)
        BY <1>6, <2>0, <4>1 DEF LeaseInv
      <4>3. PICK q \in Process : e = proc[q].job /\ e # NoJob
        BY <2>2, <4>2 DEF Live, Awaited
      <4>4. lock = q
        BY <2>0, <4>3 DEF LeaseInv
      <4>5. QED
        BY <4>1, <4>3, <4>4
    <3>3. QED
      BY <2>1, <3>1, <3>2
  <2>3. CASE ~Live(e)
    <3>1. Binds(p, e)
      BY <1>6, <2>3, LiveMoves
    <3>2. proc[p].step = "running" /\ e.turn = proc[p].turn
      BY <1>6, <3>1 DEF Binds
    <3>3. ~InterruptedBy(e.turn)
      BY <2>0, <3>2 DEF LeaseInv, Underway
    <3>4. \A b \in Entry : Binds(p, b) => b = e
      BY <3>1 DEF Binds
    <3>5. QED
      BY <1>6, <2>1, <3>3, <3>4
  <2>4. QED
    BY <2>2, <2>3
<1>7. ASSUME ~unleased', NEW q \in Process, Underway(q)' PROVE ~InterruptedBy(proc[q].turn)'
  <2>0. ~unleased
    BY <1>2, <1>7
  <2>1. ASSUME proc'[q].turn = proc[q].turn, ~InterruptedBy(proc[q].turn),
               \A b \in Entry : Binds(p, b) => b.kind # "interrupted"
        PROVE  ~InterruptedBy(proc[q].turn)'
    <3>1. PICK t \in Turn \union {NoTurn} : t = proc[q].turn
      BY DEF TypeInv, TypeOK, Proc
    <3>2. ~InterruptedBy(t)'
      BY <2>1, <3>1, InterruptedKept
    <3>3. QED
      BY <2>1, <3>1, <3>2 DEF InterruptedBy
  <2>2. CASE q # p
    <3>1. proc'[q] = proc[q] /\ Underway(q)
      BY <1>0, <1>7, <2>2 DEF Underway
    <3>2. lock = q
      BY <2>0, <3>1 DEF LeaseInv, Underway
    <3>3. \A b \in Entry : ~Binds(p, b)
      BY <1>3, <1>7, <2>2, <3>2
    <3>4. ~InterruptedBy(proc[q].turn)
      BY <2>0, <3>1 DEF LeaseInv
    <3>5. QED
      BY <2>1, <3>1, <3>3, <3>4
  <2>3. CASE /\ q = p /\ Underway(p) /\ proc'[p].turn = proc[p].turn
    <3>1. ~InterruptedBy(proc[p].turn)
      BY <2>0, <2>3 DEF LeaseInv
    <3>2. proc[p].step # "none"
      BY <2>3 DEF Underway
    <3>3. \A b \in Entry : Binds(p, b) => b.kind # "interrupted"
      BY <1>0, <3>2 DEF Binds, ProcOK
    <3>4. QED
      BY <2>1, <2>3, <3>1, <3>3
  <2>4. CASE q = p /\ proc'[p].step = "running"
    <3>1. Underway(p) /\ proc'[p].turn = proc[p].turn
      BY <1>0, <2>4 DEF TurnsMove, Underway
    <3>2. QED
      BY <2>3, <2>4, <3>1
  <2>5. CASE q = p /\ proc'[p].step = "admitting" /\ proc'[p].job # NoJob
    <3>1. /\ JobOK(p, proc'[p]) /\ (proc[p].job # NoJob => JobOK(p, proc[p]))
          /\ proc'[p].pc = "kernel"
      BY <1>0, <2>5 DEF ProcOK
    <3>2. proc'[p].job.kind = "user" /\ proc'[p].job.turn = proc'[p].turn
      BY <2>5, <3>1 DEF JobOK
    <3>3. CASE proc'[p].job = proc[p].job
      <4>1. proc[p].step = "admitting" /\ proc[p].turn = proc'[p].turn
        BY <2>5, <3>1, <3>2, <3>3 DEF JobOK
      <4>2. QED
        BY <2>3, <2>5, <3>3, <4>1 DEF Underway
    <3>4. ASSUME NEW e \in Entry, Binds(p, e), proc'[p].job = e
          PROVE  ~InterruptedBy(proc[q].turn)'
      <4>1. /\ proc[p].step = "admitting" /\ proc[p].job = NoJob /\ proc[p].turn = e.turn
            /\ proc'[p].turn = e.turn
        BY <3>2, <3>4 DEF Binds
      <4>2. NoTrace(proc[p].turn)
        BY <4>1 DEF ChatInv, TurnInv
      <4>3. ~InterruptedBy(proc[p].turn)
        <5>1. DOMAIN chat = 1 .. Len(chat)
          BY LenProperties DEF TypeInv, TypeOK
        <5>2. \A k \in DOMAIN chat : chat[k].turn # proc[p].turn
          BY <4>2, <5>1 DEF NoTrace, Unseen
        <5>3. \A f \in Entry : Live(f) => f.turn # proc[p].turn
          BY <4>2 DEF NoTrace
        <5>4. QED
          BY <5>2, <5>3 DEF InterruptedBy
      <4>4. \A b \in Entry : Binds(p, b) => b = e
        BY <3>4 DEF Binds
      <4>5. QED
        BY <2>1, <2>5, <3>2, <3>4, <4>1, <4>3, <4>4
    <3>5. QED
      BY <2>5, <3>3, <3>4, JobMoves
  <2>6. QED
    BY <1>7, <2>2, <2>4, <2>5 DEF Underway
<1>8. QED
  BY <1>1, <1>4, <1>5, <1>6, <1>7 DEF LeaseInv

LEMMA LeaseInit == Init => LeaseInv
<1> SUFFICES ASSUME Init PROVE LeaseInv
  OBVIOUS
<1>1. \A p \in Process : proc[p] = Off
  BY DEF Init
<1>2. \A e \in Entry : ~Live(e)
  BY <1>1 DEF Init, Live, Journaled, Awaited, Off
<1>3. QED
  BY <1>1, <1>2 DEF LeaseInv, Live, Underway, Off, Opens

LEMMA LeaseStep == TypeInv /\ TypeInv' /\ ChatInv /\ LeaseInv /\ [Next]_vars => LeaseInv'
<1>1. ASSUME LeaseInv, UNCHANGED vars PROVE LeaseInv'
  BY <1>1
     DEF vars, LeaseInv, Live, Journaled, Awaited, InterruptedBy, Underway
<1>2. ASSUME Next PROVE \E p \in Process : Act(p)
  BY <1>2 DEF Next, Act
<1>3. QED
  BY <1>1, <1>2, LeaseKept

LEMMA LeaseAlways == Spec => [](TypeInv /\ ChatInv /\ LeaseInv)
BY TypeInit, TypeStep, ChatInit, ChatStep, LeaseInit, LeaseStep, PTL DEF Spec

\* As long as those who write hold the lease, no turn is recorded as interrupted
\* over an agent record whose transaction is still in the journal: the scan starts
\* over an empty journal, and only the holder of the lease can add to it.
THEOREM AnswersAreNotInterrupted == Spec => []IntendedIsNotInterrupted
<1>1. TypeInv /\ LeaseInv => IntendedIsNotInterrupted
  <2> SUFFICES ASSUME TypeInv, LeaseInv, ~unleased, NEW i \in DOMAIN chat,
                      NEW j \in DOMAIN journal, chat[i].turn = journal[j].turn,
                      chat[i].kind = "interrupted", journal[j].kind = "agent"
               PROVE  FALSE
    BY DEF IntendedIsNotInterrupted
  <2>1. journal[j] \in Entry /\ chat[i] \in Record
    BY ElementOfSeq, LenProperties DEF TypeInv, TypeOK
  <2>2. Live(journal[j])
    BY DEF Live, Journaled
  <2>3. chat[i] = [turn |-> journal[j].turn, kind |-> "interrupted"]
    BY <2>1 DEF Record
  <2>4. QED
    BY <2>1, <2>2, <2>3 DEF LeaseInv, InterruptedBy
<1>2. QED
  BY <1>1, LeaseAlways, PTL

-------------------------------------------------------------------------------
(* The stages a process goes through, and who may write.                   *)

KeepsStage(p) ==
  /\ proc'[p].pc = proc[p].pc /\ proc'[p].todo = proc[p].todo
  /\ proc'[p].orphans = proc[p].orphans /\ proc'[p].skipped = proc[p].skipped
  /\ proc[p].own \subseteq proc'[p].own
  /\ lock' = p => lock = p
  /\ proc[p].pc # "kernel" =>
       /\ UNCHANGED <<folder, chat>> \/ proc[p].pc = "recovering"
       /\ proc'[p].job # NoJob \/ proc'[p].job = proc[p].job

\* Another orphan of the scan is dealt with.
ScansOn(p) ==
  /\ proc[p].pc = "scanning" /\ proc'[p].pc = "scanning" /\ lock' = lock
  /\ proc'[p].skipped = proc[p].skipped
  /\ proc[p].orphans \subseteq proc'[p].orphans
  /\ \E t \in proc[p].todo :
       /\ proc'[p].todo = proc[p].todo \ {t}
       /\ \/ [turn |-> t, terminalized |-> FALSE] \in proc'[p].orphans
          \/ Realize(p) /\ t = proc[p].job.turn

Stages(p) ==
  \/ proc'[p] = Off
  \/ KeepsStage(p)
  \/ proc[p].pc = "off" /\ proc'[p].pc = "making" /\ ~folder
  \/ proc[p].pc = "off" /\ proc'[p].pc = "recovering" /\ folder
  \/ proc[p].pc = "making" /\ proc'[p].pc = "locking" /\ folder'
  \/ proc[p].pc = "locking" /\ proc'[p].pc = "creating" /\ proc'[p].job = proc[p].job
  \/ /\ proc[p].pc = "recovering" /\ proc'[p].pc = "scanning"
     /\ proc'[p].skipped \/ proc'[p].todo = Orphans
     /\ UNCHANGED <<manifest, chat>> /\ manifest # NoProcess
  \/ ScansOn(p)
  \/ proc[p].pc = "creating" /\ proc'[p].pc = "kernel" /\ Realize(p)
  \/ /\ proc[p].pc = "scanning" /\ proc'[p].pc = "kernel" /\ proc[p].todo = {}
     /\ proc'[p].orphans = proc[p].orphans /\ proc'[p].skipped = proc[p].skipped
     /\ UNCHANGED <<lock, chat>>

LEMMA OpeningStages ==
  ASSUME TypeInv, NEW p \in Process,
         \/ Launch(p) \/ MakeFolder(p) \/ LockNew(p) \/ Recover(p) \/ SkipChat(p) \/ Scanned(p)
  PROVE  Stages(p)
<1>0. proc[p] \in Proc
  BY DEF TypeInv, TypeOK
<1>1. CASE Launch(p)
  <2>1. CASE ~folder /\ proc'[p] = [proc[p] EXCEPT !.pc = "making"]
    <3>1. proc[p].pc = "off" /\ proc'[p].pc = "making"
      BY <1>0, <1>1, <2>1 DEF Launch, Proc
    <3>2. QED
      BY <2>1, <3>1 DEF Stages
  <2>2. CASE folder /\ proc'[p] = [proc[p] EXCEPT !.pc = "recovering"]
    <3>1. proc[p].pc = "off" /\ proc'[p].pc = "recovering"
      BY <1>0, <1>1, <2>2 DEF Launch, Proc
    <3>2. QED
      BY <2>2, <3>1 DEF Stages
  <2>3. QED
    BY <1>1, <2>1, <2>2 DEF Launch, TypeInv, TypeOK
<1>2. CASE MakeFolder(p)
  <2>1. proc'[p] = [proc[p] EXCEPT !.pc = "locking"] /\ folder' /\ proc[p].pc = "making"
    BY <1>2, PlainShapes DEF MakeFolder
  <2>2. proc'[p].pc = "locking"
    BY <1>0, <2>1 DEF Proc
  <2>3. QED
    BY <2>1, <2>2 DEF Stages
<1>3. CASE LockNew(p)
  <2>1. proc'[p] = [proc[p] EXCEPT !.pc = "creating"] \/ proc'[p] = Off
    BY <1>3, PlainShapes
  <2>2. CASE proc'[p] = [proc[p] EXCEPT !.pc = "creating"]
    <3>1. proc'[p].pc = "creating" /\ proc'[p].job = proc[p].job /\ proc[p].pc = "locking"
      BY <1>0, <1>3, <2>2 DEF LockNew, Proc
    <3>2. QED
      BY <3>1 DEF Stages
  <2>3. QED
    BY <2>1, <2>2 DEF Stages
<1>4. CASE Recover(p)
  <2>0. proc[p].pc = "recovering"
    BY <1>4 DEF Recover
  <2>1. CASE UNCHANGED <<folder, lock, proc>>
    BY <2>0, <2>1 DEF KeepsStage, Stages
  <2>2. CASE /\ manifest # NoProcess /\ UNCHANGED disk
             /\ proc'[p] = [proc[p] EXCEPT !.pc = "scanning", !.todo = Orphans]
    <3>1. proc'[p].pc = "scanning" /\ proc'[p].todo = Orphans
      BY <1>0, <2>2 DEF Proc
    <3>2. QED
      BY <2>0, <2>2, <3>1 DEF Stages, disk
  <2>3. CASE proc'[p] = Off
    BY <2>3 DEF Stages
  <2>4. QED
    BY <1>4, <2>1, <2>2, <2>3, BecomesIs DEF Recover, TypeInv, TypeOK
<1>5. CASE SkipChat(p)
  <2>1. proc'[p] = [proc[p] EXCEPT !.pc = "scanning", !.skipped = TRUE]
    BY <1>5, PlainShapes
  <2>2. proc[p].pc = "recovering" /\ proc'[p].pc = "scanning" /\ proc'[p].skipped
    <3>1. proc[p].pc = "recovering"
      BY <1>5 DEF SkipChat
    <3>2. proc'[p].pc = "scanning" /\ proc'[p].skipped = TRUE
      BY <1>0, <2>1 DEF Proc
    <3>3. QED
      BY <3>1, <3>2
  <2>3. QED
    BY <1>5, <2>2 DEF SkipChat, disk, Stages
<1>6. CASE Scanned(p)
  <2>1. proc'[p] = [proc[p] EXCEPT !.pc = "kernel"]
    BY <1>6, PlainShapes
  <2>2. /\ proc[p].pc = "scanning" /\ proc'[p].pc = "kernel" /\ proc[p].todo = {}
        /\ proc'[p].orphans = proc[p].orphans /\ proc'[p].skipped = proc[p].skipped
    BY <1>0, <1>6, <2>1 DEF Scanned, Proc
  <2>3. QED
    BY <1>6, <2>2 DEF Scanned, disk, Stages
<1>7. QED
  BY <1>1, <1>2, <1>3, <1>4, <1>5, <1>6

LEMMA KernelStages ==
  ASSUME TypeInv, NEW p \in Process,
         \/ Create(p) \/ Interrupt(p) \/ Open(p) \/ Ready(p) \/ CloseBlocked(p)
         \/ (\E t \in Turn : Start(p, t)) \/ Admit(p) \/ Finalize(p) \/ Terminalize(p) \/ Exit(p)
  PROVE  Stages(p)
<1>0. proc[p] \in Proc /\ ProcOK(p, proc[p])
  BY DEF TypeInv, TypeOK
<1>1. CASE Open(p) \/ Ready(p) \/ CloseBlocked(p)
  <2>1. PICK phase : proc'[p] = [proc[p] EXCEPT !.phase = phase]
    BY <1>1, PlainShapes
  <2>2. /\ proc'[p].pc = proc[p].pc /\ proc'[p].todo = proc[p].todo
        /\ proc'[p].orphans = proc[p].orphans /\ proc'[p].skipped = proc[p].skipped
        /\ proc'[p].own = proc[p].own
    BY <1>0, <2>1 DEF Proc
  <2>3. (lock' = p => lock = p) /\ UNCHANGED <<folder, chat>> /\ proc[p].pc = "kernel"
    BY <1>1, LaunchAssumption DEF Open, Ready, CloseBlocked, disk
  <2>4. QED
    BY <2>2, <2>3 DEF KeepsStage, Stages
<1>2. ASSUME NEW t \in Turn, Start(p, t) PROVE Stages(p)
  BY <1>2, StartShape DEF KeepsStage, Stages
<1>3. CASE Exit(p)
  BY <1>3, PlainShapes DEF Stages
<1>4. ASSUME NEW q \in Proc, NEW kind \in Terminal \union {"user", "create"},
             NEW t \in Turn \union {NoTurn}, Intend(p, q, kind, t),
             q.pc = proc[p].pc, q.pc # "off", q.todo = proc[p].todo, q.own = proc[p].own,
             q.orphans = proc[p].orphans, q.skipped = proc[p].skipped
      PROVE  Stages(p)
  <2>1. PICK e \in Entry : Installs(p, q, e)
    BY <1>4, IntendBinds
  <2>2. lock' = lock /\ UNCHANGED <<folder, chat>>
    BY <1>4, <2>1 DEF Installs
  <2>3. QED
    BY <1>4, <2>1, <2>2, InstallsKeeps DEF KeepsStage, Stages
<1>5. CASE Create(p)
  BY <1>0, <1>4, <1>5 DEF Create
<1>6. CASE Interrupt(p)
  <2>0. proc[p].pc = "scanning"
    BY <1>6 DEF Interrupt
  <2>1. PICK t \in proc[p].todo :
          \/ Recordable(t) /\ Intend(p, proc[p], "interrupted", t)
          \/ /\ UNCHANGED <<disk, lock, minted>>
             /\ proc'[p] = [proc[p] EXCEPT !.todo = @ \ {t},
                  !.orphans = @ \union {[turn |-> t, terminalized |-> FALSE]}]
    BY <1>6, RefusedShapes
  <2>2. t \in Turn
    BY <1>0 DEF Proc
  <2>3. CASE Intend(p, proc[p], "interrupted", t)
    BY <1>0, <1>4, <2>0, <2>2, <2>3 DEF Terminal
  <2>4. CASE /\ UNCHANGED <<disk, lock, minted>>
             /\ proc'[p] = [proc[p] EXCEPT !.todo = @ \ {t},
                  !.orphans = @ \union {[turn |-> t, terminalized |-> FALSE]}]
    <3> DEFINE o == [turn |-> t, terminalized |-> FALSE]
    <3>1. /\ proc'[p].pc = proc[p].pc /\ proc'[p].todo = proc[p].todo \ {t}
          /\ proc'[p].skipped = proc[p].skipped
          /\ proc'[p].orphans = proc[p].orphans \union {o}
      <4> HIDE DEF o
      <4>1. proc'[p] = [proc[p] EXCEPT !.todo = @ \ {t}, !.orphans = @ \union {o}]
        BY <2>4 DEF o
      <4>2. QED
        BY <1>0, <4>1 DEF Proc
    <3>2. QED
      BY <2>0, <2>1, <2>4, <3>1 DEF ScansOn, Stages
  <2>5. QED
    BY <2>1, <2>3, <2>4
<1>7. CASE Admit(p) \/ Finalize(p) \/ Terminalize(p)
  <2>0. proc[p].turn \in Turn /\ proc[p].pc = "kernel"
    BY <1>0, <1>7 DEF Admit, Finalize, Terminalize, ProcOK, Proc
  <2>1. ASSUME UNCHANGED <<disk, lock, minted>>,
               \/ proc'[p] = [proc[p] EXCEPT !.step = "ending"]
               \/ proc'[p] = [proc[p] EXCEPT !.turn = NoTurn, !.step = "none"]
        PROVE  Stages(p)
    <3>1. /\ proc'[p].pc = proc[p].pc /\ proc'[p].todo = proc[p].todo
          /\ proc'[p].orphans = proc[p].orphans /\ proc'[p].skipped = proc[p].skipped
          /\ proc'[p].own = proc[p].own
      BY <1>0, <2>1 DEF Proc
    <3>2. QED
      BY <2>0, <2>1, <3>1 DEF KeepsStage, Stages
  <2>2. CASE Admit(p)
    <3>1. CASE Intend(p, proc[p], "user", proc[p].turn)
      BY <1>0, <1>4, <2>0, <3>1
    <3>2. QED
      BY <2>1, <2>2, <3>1, RefusedShapes
  <2>3. CASE Finalize(p)
    <3> DEFINE q == [proc[p] EXCEPT !.step = "finalizing"]
    <3>1. /\ q \in Proc /\ q.pc = proc[p].pc /\ q.todo = proc[p].todo /\ q.own = proc[p].own
          /\ q.orphans = proc[p].orphans /\ q.skipped = proc[p].skipped
      BY <1>0 DEF Proc
    <3>2. CASE Intend(p, q, "agent", proc[p].turn)
      <4> HIDE DEF q
      <4>1. QED
        BY <1>4, <2>0, <3>1, <3>2 DEF Terminal
    <3>3. QED
      BY <2>1, <2>3, <3>2, RefusedShapes
  <2>4. CASE Terminalize(p)
    <3>1. CASE Intend(p, proc[p], "failed", proc[p].turn)
      BY <1>0, <1>4, <2>0, <3>1 DEF Terminal
    <3>2. QED
      BY <2>1, <2>4, <3>1, RefusedShapes
  <2>5. QED
    BY <1>7, <2>2, <2>3, <2>4
<1>8. QED
  BY <1>1, <1>2, <1>3, <1>5, <1>6, <1>7

\* What the answer to a transaction makes of the stage.
LEMMA ToldStages ==
  ASSUME TypeInv, NEW p \in Process, NEW ok \in BOOLEAN, proc[p].job # NoJob
  PROVE  LET q == Told(p, ok) IN
         \/ proc[p].pc = "creating" /\ (IF ok THEN q.pc = "kernel" ELSE q = Off)
         \/ /\ proc[p].pc = "scanning" /\ q.pc = "scanning" /\ q.skipped = proc[p].skipped
            /\ q.todo = proc[p].todo \ {proc[p].job.turn}
            /\ proc[p].job.turn \in proc[p].todo
            /\ q.orphans = proc[p].orphans
                 \union {[turn |-> proc[p].job.turn, terminalized |-> ok]}
         \/ /\ proc[p].pc = "kernel" /\ q.pc = "kernel" /\ q.skipped = proc[p].skipped
            /\ q.orphans = proc[p].orphans /\ q.own = proc[p].own /\ q.todo = proc[p].todo
<1>1. /\ proc[p] \in Proc /\ ProcOK(p, proc[p])
      /\ JobOK(p, proc[p])
  BY JobTyped DEF TypeInv, TypeOK
<1> DEFINE me == [proc[p] EXCEPT !.job = NoJob]
<1>2. /\ me.pc = proc[p].pc /\ me.step = proc[p].step /\ me.todo = proc[p].todo
      /\ me.orphans = proc[p].orphans /\ me.skipped = proc[p].skipped /\ me.own = proc[p].own
      /\ me \in Proc
  BY <1>1 DEF Proc
<1>3. CASE proc[p].pc = "creating"
  <2>1. Told(p, ok) = IF ok THEN [me EXCEPT !.pc = "kernel"] ELSE Off
    <3>1. me.step = "none"
      BY <1>1, <1>2, <1>3 DEF ProcOK
    <3>2. QED
      BY <1>2, <1>3, <3>1 DEF Told
  <2> HIDE DEF me
  <2>2. [me EXCEPT !.pc = "kernel"].pc = "kernel"
    BY <1>2 DEF Proc
  <2>3. QED
    BY <1>3, <2>1, <2>2
<1>4. CASE proc[p].pc = "scanning"
  <2> DEFINE o == [turn |-> proc[p].job.turn, terminalized |-> ok]
  <2>1. Told(p, ok) = [me EXCEPT !.todo = me.todo \ {proc[p].job.turn},
                                 !.orphans = me.orphans \union {o}]
    <3>1. me.step = "none"
      BY <1>1, <1>2, <1>4 DEF ProcOK
    <3>2. QED
      BY <1>2, <1>4, <3>1 DEF Told
  <2> HIDE DEF me, o
  <2>2. /\ Told(p, ok).pc = me.pc /\ Told(p, ok).skipped = me.skipped
        /\ Told(p, ok).todo = me.todo \ {proc[p].job.turn}
        /\ Told(p, ok).orphans = me.orphans \union {o}
    BY <1>2, <2>1 DEF Proc
  <2>3. proc[p].job.turn \in proc[p].todo
    BY <1>1, <1>4 DEF JobOK
  <2>4. QED
    BY <1>2, <1>4, <2>2, <2>3 DEF o
<1>5. CASE proc[p].pc = "kernel"
  <2>1. proc[p].step \in {"admitting", "finalizing", "ending"}
    BY <1>1, <1>5 DEF JobOK
  <2>2. \/ Told(p, ok) = [me EXCEPT !.step = "running", !.base = proc[p].job.at + 1]
        \/ Told(p, ok) = [me EXCEPT !.step = "ending"]
        \/ Told(p, ok) = [me EXCEPT !.turn = NoTurn, !.step = "none"]
    BY <1>2, <1>5, <2>1 DEF Told
  <2> HIDE DEF me
  <2>3. /\ Told(p, ok).pc = me.pc /\ Told(p, ok).skipped = me.skipped
        /\ Told(p, ok).orphans = me.orphans /\ Told(p, ok).own = me.own
        /\ Told(p, ok).todo = me.todo
    BY <1>2, <2>2 DEF Proc
  <2>4. QED
    BY <1>2, <1>5, <2>3
<1>6. QED
  BY <1>1, <1>3, <1>4, <1>5 DEF JobOK

LEMMA AnswerStages ==
  ASSUME TypeInv, NEW p \in Process, Realize(p) \/ Conflicts(p) \/ StaysPending(p)
  PROVE  Stages(p)
<1>1. PICK ok \in BOOLEAN : /\ proc'[p] = Told(p, ok)
                            /\ proc[p].job # NoJob
                            /\ ok <=> Realize(p)
                            /\ lock' = IF Told(p, ok).pc = "off" /\ lock = p
                                       THEN NoProcess ELSE lock
  BY AnswerShape
<1> DEFINE q == Told(p, ok)
<1>2. CASE proc[p].pc = "creating" /\ (IF ok THEN q.pc = "kernel" ELSE q = Off)
  BY <1>1, <1>2 DEF Stages
<1>3. CASE /\ proc[p].pc = "scanning" /\ q.pc = "scanning" /\ q.skipped = proc[p].skipped
           /\ q.todo = proc[p].todo \ {proc[p].job.turn}
           /\ proc[p].job.turn \in proc[p].todo
           /\ q.orphans = proc[p].orphans
                \union {[turn |-> proc[p].job.turn, terminalized |-> ok]}
  <2>1. lock' = lock
    BY <1>1, <1>3
  <2>2. [turn |-> proc[p].job.turn, terminalized |-> ok] \in q.orphans
    BY <1>3
  <2> HIDE DEF q
  <2>3. ok \/ [turn |-> proc[p].job.turn, terminalized |-> FALSE] \in q.orphans
    BY <2>2
  <2>4. proc'[p] = q
    BY <1>1 DEF q
  <2>5. ScansOn(p)
    BY <1>1, <1>3, <2>1, <2>3, <2>4 DEF ScansOn
  <2>6. QED
    BY <2>5 DEF Stages
<1>4. CASE /\ proc[p].pc = "kernel" /\ q.pc = "kernel" /\ q.skipped = proc[p].skipped
           /\ q.orphans = proc[p].orphans /\ q.own = proc[p].own /\ q.todo = proc[p].todo
  BY <1>1, <1>4 DEF KeepsStage, Stages
<1>5. QED
  BY <1>1, <1>2, <1>3, <1>4, ToldStages

LEMMA ActStages == ASSUME TypeInv, NEW p \in Process, Act(p) PROVE Stages(p)
BY OpeningStages, KernelStages, AnswerStages DEF Act

\* The files change only by a transaction that may still take effect, applied by a
\* recovery or by the process that waits for it.
Writes(p) ==
  \/ UNCHANGED <<manifest, chat>>
  \/ \E e \in Entry :
       /\ Live(e) /\ Applies(e) /\ Applied(e)
       /\ \/ proc[p].pc = "recovering" /\ UNCHANGED proc
          \/ e = proc[p].job /\ JobOK(p, proc[p]) /\ proc'[p].job = NoJob

LEMMA ActWrites ==
  ASSUME TypeInv, NEW p \in Process, Act(p)
  PROVE  Writes(p)
<1>1. CASE \/ Launch(p) \/ MakeFolder(p) \/ LockNew(p) \/ SkipChat(p) \/ Scanned(p)
           \/ Open(p) \/ Ready(p) \/ CloseBlocked(p) \/ (\E t \in Turn : Start(p, t)) \/ Exit(p)
  BY <1>1
     DEF Launch, MakeFolder, LockNew, SkipChat, Scanned, Open, Ready, CloseBlocked, Start,
         Exit, disk, Writes
<1>2. CASE Recover(p)
  <2>1. CASE UNCHANGED disk
    BY <2>1 DEF disk, Writes
  <2>2. CASE /\ journal # << >> /\ Applies(Head(journal)) /\ Applied(Head(journal))
             /\ UNCHANGED proc
    <3>1. Head(journal) \in Entry /\ Live(Head(journal))
      BY <2>2, TailElements DEF Live, Journaled, TypeInv, TypeOK
    <3>2. proc[p].pc = "recovering"
      BY <1>2 DEF Recover
    <3>3. QED
      BY <2>2, <3>1, <3>2 DEF Writes
  <2>3. QED
    BY <1>2, <2>1, <2>2, RecoverShape
<1>3. CASE Realize(p) \/ Conflicts(p) \/ StaysPending(p)
  <2>1. /\ proc[p].job # NoJob
        /\ UNCHANGED <<manifest, chat>> \/ (Applies(proc[p].job) /\ Applied(proc[p].job))
    BY <1>3 DEF Realize, Conflicts, StaysPending, disk
  <2>2. proc[p].job \in Entry /\ Live(proc[p].job) /\ JobOK(p, proc[p])
    BY <2>1, JobTyped DEF Live, Awaited
  <2>3. proc'[p].job = NoJob
    BY <1>3, AnswerShape, ToldFacts
  <2>4. QED
    BY <2>1, <2>2, <2>3 DEF Writes
<1>4. ASSUME NEW q, NEW kind, NEW t, Intend(p, q, kind, t) PROVE Writes(p)
  BY <1>4 DEF Intend, Writes
<1>5. CASE Create(p) \/ Interrupt(p)
  BY <1>4, <1>5, RefusedShapes DEF Create, disk, Writes
<1>6. CASE Admit(p) \/ Finalize(p) \/ Terminalize(p)
  BY <1>4, <1>6, RefusedShapes DEF disk, Writes
<1>7. QED
  BY <1>1, <1>2, <1>3, <1>5, <1>6 DEF Act

LEMMA FolderStays ==
  ASSUME NEW p \in Process, Act(p), TypeInv
  PROVE  folder => folder'
<1>1. ASSUME NEW q, NEW kind, NEW t, Intend(p, q, kind, t) PROVE folder => folder'
  BY <1>1 DEF Intend
<1>2. CASE Create(p) \/ Interrupt(p) \/ Admit(p) \/ Finalize(p) \/ Terminalize(p)
  BY <1>1, <1>2, RefusedShapes DEF Create, disk
<1>3. CASE Recover(p) \/ Realize(p) \/ Conflicts(p) \/ StaysPending(p)
  BY <1>3 DEF Recover, Realize, Conflicts, StaysPending, disk
<1>4. QED
  BY <1>2, <1>3
     DEF Act, Launch, MakeFolder, LockNew, SkipChat, Scanned, Open, Ready, CloseBlocked,
         Start, Exit, disk

LEMMA CreateKept ==
  ASSUME TypeInv, TypeInv', LeaseInv, CreateInv, NEW p \in Process, Act(p)
  PROVE  CreateInv'
<1>0. /\ Stages(p) /\ Writes(p) /\ (folder => folder')
      /\ \A q \in Process \ {p} : proc'[q] = proc[q]
      /\ \A q \in Process : ProcOK(q, proc[q]) /\ ProcOK(q, proc'[q])
      /\ NoProcess \notin Process
      /\ \A e \in Entry : e.by \in Process /\ e # NoJob
  BY ActStages, ActWrites, FolderStays, OtherProcesses, LaunchAssumption
     DEF TypeInv, Entry, NoJob
<1>a. proc'[p] = Off => proc'[p].pc = "off" /\ proc'[p].job = NoJob
  BY DEF Off
<1>1. ASSUME ~folder' PROVE \A q \in Process : proc'[q].pc \in {"off", "making"}
  <2>1. ~folder /\ \A q \in Process : proc[q].pc \in {"off", "making"}
    BY <1>0, <1>1 DEF CreateInv
  <2>2. proc'[p].pc \in {"off", "making"}
    BY <1>0, <1>1, <1>a, <2>1 DEF Stages, KeepsStage, ScansOn
  <2>3. QED
    BY <1>0, <2>1, <2>2
<1>2. ASSUME ~folder' PROVE manifest' = NoProcess /\ \A e \in Entry : ~Live(e)'
  <2>1. ~folder /\ manifest = NoProcess /\ \A e \in Entry : ~Live(e)
    BY <1>0, <1>2 DEF CreateInv
  <2>2. proc[p].pc \in {"off", "making"}
    BY <2>1 DEF CreateInv
  <2>3. manifest' = NoProcess
    BY <1>0, <2>1 DEF Writes
  <2>4. \A e \in Entry : ~Binds(p, e)
    BY <2>2 DEF Binds
  <2>5. QED
    BY <2>1, <2>3, <2>4, LiveMoves
<1>3. ASSUME NEW q \in Process, proc'[q].pc \in {"making", "locking", "creating"}
      PROVE  manifest' # q
  <2>1. manifest # q
    <3>1. CASE proc[q].pc \in {"making", "locking", "creating"}
      BY <3>1 DEF CreateInv
    <3>2. CASE q = p /\ ~folder
      BY <1>0, <3>2 DEF CreateInv
    <3>3. CASE q # p
      BY <1>0, <1>3, <3>1, <3>3
    <3>4. QED
      BY <1>0, <1>3, <1>a, <3>1, <3>2, <3>3 DEF Stages, KeepsStage, ScansOn
  <2>2. CASE UNCHANGED manifest
    BY <2>1, <2>2
  <2>3. ASSUME NEW e \in Entry, Live(e), Applied(e), manifest' = q, manifest' # manifest,
               \/ proc[p].pc = "recovering" /\ UNCHANGED proc
               \/ e = proc[p].job /\ JobOK(p, proc[p]) /\ proc'[p].job = NoJob
        PROVE  FALSE
    <3>1. e.kind = "create" /\ e.by = q
      BY <2>3 DEF Applied
    <3>2. proc[q].pc \notin {"making", "locking"}
      BY <2>3, <3>1 DEF CreateInv
    <3>3. CASE proc[p].pc = "recovering" /\ UNCHANGED proc
      <4>1. proc[q].pc = "creating"
        BY <1>3, <3>2, <3>3
      <4>2. lock = p /\ lock = q
        BY <3>3, <4>1 DEF LeaseInv, Opens
      <4>3. QED
        BY <3>3, <4>1, <4>2
    <3>4. CASE e = proc[p].job /\ JobOK(p, proc[p]) /\ proc'[p].job = NoJob
      <4>1. q = p /\ proc[p].pc = "creating" /\ proc[p].job # NoJob
        BY <1>0, <3>1, <3>4 DEF JobOK
      <4>2. proc'[p].pc \notin {"making", "locking", "creating"}
        BY <1>0, <1>a, <3>4, <4>1 DEF Stages, KeepsStage, ScansOn
      <4>3. QED
        BY <1>3, <4>1, <4>2
    <3>5. QED
      BY <2>3, <3>3, <3>4
  <2>4. QED
    BY <1>0, <2>2, <2>3 DEF Writes
<1>4. ASSUME NEW e \in Entry, Live(e)', e.kind = "create"
      PROVE  /\ proc'[e.by].pc \notin {"making", "locking"}
             /\ proc'[e.by].pc = "creating" => proc'[e.by].job = e
  <2>1. CASE Binds(p, e)
    <3>1. e.by = p /\ proc'[p].job = e /\ JobOK(p, proc'[p])
      BY <1>0, <2>1 DEF Binds, ProcOK
    <3>2. proc'[p].pc = "creating"
      BY <1>4, <3>1 DEF JobOK
    <3>3. QED
      BY <3>1, <3>2
  <2>2. CASE ~Binds(p, e)
    <3>1. Live(e)
      BY <1>4, <2>2, LiveMoves
    <3>2. /\ proc[e.by].pc \notin {"making", "locking"}
          /\ proc[e.by].pc = "creating" => proc[e.by].job = e
      BY <1>4, <3>1 DEF CreateInv
    <3>3. CASE e.by # p
      BY <1>0, <3>2, <3>3
    <3>4. CASE e.by = p
      <4>1. folder
        BY <3>1 DEF CreateInv
      <4>2. CASE KeepsStage(p)
        <5>1. CASE proc[p].pc = "creating"
          <6>1. proc[p].job = e /\ proc'[p].job # NoJob
            BY <1>0, <3>2, <3>4, <4>2, <5>1 DEF KeepsStage
          <6>2. proc'[p].job = e
            BY <1>0, <6>1, JobMoves DEF Binds
          <6>3. QED
            BY <3>4, <4>2, <5>1, <6>2 DEF KeepsStage
        <5>2. QED
          BY <3>2, <3>4, <4>2, <5>1 DEF KeepsStage
      <4>3. CASE ~KeepsStage(p)
        <5>1. proc'[p].pc \notin {"making", "locking", "creating"}
          BY <1>0, <1>a, <3>2, <3>4, <4>1, <4>3 DEF Stages, ScansOn
        <5>2. QED
          BY <3>4, <5>1
      <4>4. QED
        BY <4>2, <4>3
    <3>5. QED
      BY <3>3, <3>4
  <2>3. QED
    BY <2>1, <2>2
<1>5. ASSUME manifest' = NoProcess
      PROVE  /\ chat' = << >>
             /\ \A q \in Process : proc'[q].pc \notin {"scanning", "kernel"}
             /\ \A e \in Entry : Live(e)' => e.kind = "create"
  <2>1. ASSUME NEW e \in Entry, Applied(e), e.kind = "create" PROVE FALSE
    BY <1>0, <1>5, <2>1 DEF Applied
  <2>2. manifest = NoProcess
    BY <1>0, <1>5, <2>1 DEF Writes, Applied
  <2>3. /\ chat = << >>
        /\ \A q \in Process : proc[q].pc \notin {"scanning", "kernel"}
        /\ \A e \in Entry : Live(e) => e.kind = "create"
    BY <2>2 DEF CreateInv
  <2>4. chat' = << >>
    BY <1>0, <2>1, <2>3 DEF Writes
  <2>5. ~(Realize(p) /\ proc[p].pc = "creating")
    <3>1. SUFFICES ASSUME Realize(p), proc[p].pc = "creating" PROVE FALSE
      OBVIOUS
    <3>2. proc[p].job # NoJob /\ Applied(proc[p].job)
      BY <3>1 DEF Realize
    <3>3. proc[p].job \in Entry /\ proc[p].job.kind = "create"
      BY <3>1, <3>2, JobTyped DEF JobOK
    <3>4. QED
      BY <2>1, <3>2, <3>3
  <2>6. proc'[p].pc \notin {"scanning", "kernel"}
    <3>1. proc[p].pc \notin {"scanning", "kernel"}
      BY <2>3
    <3>2. QED
      BY <1>0, <1>a, <2>2, <2>5, <3>1 DEF Stages, KeepsStage, ScansOn
  <2>7. \A e \in Entry : Binds(p, e) => e.kind = "create"
    BY <2>3 DEF Binds
  <2>8. QED
    BY <1>0, <2>3, <2>4, <2>6, <2>7, LiveMoves
<1>6. QED
  BY <1>1, <1>2, <1>3, <1>4, <1>5 DEF CreateInv

LEMMA CreateInit == Init => CreateInv
<1> SUFFICES ASSUME Init PROVE CreateInv
  OBVIOUS
<1>1. \A p \in Process : proc[p] = Off
  BY DEF Init
<1>2. \A e \in Entry : ~Live(e)
  BY <1>1 DEF Init, Live, Journaled, Awaited, Off
<1>3. QED
  BY <1>1, <1>2 DEF Init, CreateInv, Off

LEMMA CreateStep == TypeInv /\ TypeInv' /\ LeaseInv /\ CreateInv /\ [Next]_vars => CreateInv'
<1>1. ASSUME CreateInv, UNCHANGED vars PROVE CreateInv'
  BY <1>1 DEF vars, CreateInv, Live, Journaled, Awaited
<1>2. ASSUME Next PROVE \E p \in Process : Act(p)
  BY <1>2 DEF Next, Act
<1>3. QED
  BY <1>1, <1>2, CreateKept

\* Records that are only appended end turns and never open one again.
LEMMA OrphansMove ==
  ASSUME TypeInv, NEW p \in Process, Act(p), NEW t \in Orphans', t \notin Orphans
  PROVE  \E e \in Entry : Grows(e) /\ e.kind = "user" /\ e.turn = t
<1>0. /\ Extended /\ chat \in Seq(Record) /\ Len(chat) \in Nat /\ Len(chat') \in Int
      /\ t \in Turn
  BY ChatExtends, LenProperties DEF TypeInv, TypeOK, Orphans, Extended
<1>1. \A r : Contains(chat, r) => Contains(chat, r)'
  BY <1>0 DEF Contains, Extended
<1>2. ~IsTerminal(t)
  BY <1>1 DEF Orphans, IsTerminal
<1>3. HasUser(t)' /\ ~HasUser(t)
  BY <1>0, <1>2 DEF Orphans
<1>4. PICK e \in Entry : Grows(e)
  BY <1>3, ActSummary DEF Summary, HasUser, Binds
<1> DEFINE r == [turn |-> e.turn, kind |-> e.kind]
           u == [turn |-> t, kind |-> "user"]
<1>5. /\ chat' = Append(chat, r) /\ Len(chat') = Len(chat) + 1
      /\ \A k \in 1 .. Len(chat) : chat'[k] = chat[k]
      /\ chat'[Len(chat) + 1] = r
  BY <1>0, <1>4, AppendProperties DEF Grows
<1> HIDE DEF r, u
<1>6. PICK k \in 1 .. Len(chat) + 1 : chat'[k] = u
  BY <1>3, <1>5 DEF HasUser, Contains, u
<1>7. \A i \in 1 .. Len(chat) : chat[i] # u
  BY <1>3 DEF HasUser, Contains, u
<1>8. r = u
  BY <1>0, <1>5, <1>6, <1>7
<1>9. e.kind = "user" /\ e.turn = t
  BY <1>8 DEF r, u
<1>10. QED
  BY <1>4, <1>9

\* A turn whose terminal record has just been realized is no orphan.
LEMMA RealizedIsNoOrphan ==
  ASSUME TypeInv, NEW p \in Process, Realize(p), proc[p].pc = "scanning"
  PROVE  proc[p].job.turn \notin Orphans'
<1> DEFINE e == proc[p].job
<1>1. e \in Entry /\ e.kind = "interrupted" /\ Applies(e) /\ Applied(e) /\ Live(e)
  BY JobTyped DEF Realize, JobOK, Live, Awaited
<1>2. e.at \in Nat
  BY <1>1 DEF Entry
<1> HIDE DEF e
<1>3. e.at + 1 = Len(chat') /\ chat'[e.at + 1] = [turn |-> e.turn, kind |-> "interrupted"]
  BY <1>1, AppliedGrows
<1>4. e.at + 1 \in 1 .. Len(chat')
  BY <1>2, <1>3
<1>5. PICK t \in Turn \union {NoTurn} : t = e.turn
  BY <1>1 DEF Entry
<1>6. Contains(chat', [turn |-> t, kind |-> "interrupted"])
  BY <1>3, <1>4, <1>5 DEF Contains
<1>7. IsTerminal(t)'
  BY <1>6 DEF IsTerminal, Terminal
<1>8. t \notin Orphans'
  BY <1>7 DEF Orphans
<1>9. QED
  BY <1>5, <1>8 DEF e

\* Without the lease nobody appends to the chat.
LEMMA OthersDoNotWrite ==
  ASSUME TypeInv, LeaseInv, ~unleased, NEW p \in Process, Act(p), lock # p
  PROVE  UNCHANGED chat
<1>1. Writes(p) /\ proc[p].pc # "recovering" /\ proc[p].job = NoJob
  BY ActWrites DEF LeaseInv, Opens
<1>2. \A e \in Entry : e # NoJob
  BY DEF Entry, NoJob, Terminal
<1>3. QED
  BY <1>1, <1>2 DEF Writes

\* Outside a recovery, a process appends the record it waits for.
LEMMA GrowsOwn ==
  ASSUME TypeInv, NEW p \in Process, Act(p), proc[p].pc # "recovering",
         NEW e \in Entry, Grows(e)
  PROVE  JobOK(p, proc[p]) /\ e.kind = proc[p].job.kind /\ e.turn = proc[p].job.turn
<1>0. chat \in Seq(Record) /\ Len(chat) \in Nat
  BY LenProperties DEF TypeInv, TypeOK
<1>1. \A r : /\ Len(Append(chat, r)) = Len(chat) + 1
             /\ Append(chat, r)[Len(chat) + 1] = r
  BY <1>0, AppendProperties
<1> DEFINE r == [turn |-> e.turn, kind |-> e.kind]
           j == proc[p].job
           s == [turn |-> j.turn, kind |-> j.kind]
<1>2. chat' = Append(chat, r) /\ chat' # chat
  BY <1>0, <1>1 DEF Grows
<1>3. Applied(j) /\ JobOK(p, proc[p])
  BY <1>2, ActWrites DEF Writes
<1>4. chat' = Append(chat, s)
  BY <1>2, <1>3 DEF Applied
<1> HIDE DEF r, s
<1>5. r = s
  BY <1>1, <1>2, <1>4
<1>6. QED
  BY <1>3, <1>5 DEF r, s

LEMMA ScanKept ==
  ASSUME TypeInv, TypeInv', LeaseInv, LeaseInv', CreateInv, ScanInv, NEW p \in Process, Act(p)
  PROVE  ScanInv'
<1>0. /\ Stages(p) /\ LeaseMoves(p)
      /\ \A q \in Process \ {p} : proc'[q] = proc[q]
      /\ \A q \in Process : proc[q] \in Proc /\ ProcOK(q, proc[q]) /\ ProcOK(q, proc'[q])
      /\ NoProcess \notin Process
  BY ActStages, ActLeases, OtherProcesses, LaunchAssumption DEF TypeInv, TypeOK
<1>1. ASSUME ~unleased' PROVE ~unleased
  BY <1>1, UnleasedStays
<1>2. ASSUME UNCHANGED chat PROVE Orphans' = Orphans
  BY <1>2 DEF Orphans, HasUser, IsTerminal
<1>3. ASSUME ~unleased', NEW q \in Process, lock' = q, ~proc'[q].skipped,
             proc'[q].pc = "scanning"
      PROVE  Orphans' \subseteq proc'[q].todo \union Unsettled(q)'
  <2>0. ~unleased
    BY <1>1, <1>3
  <2>1. CASE q # p
    <3>1. proc'[q] = proc[q] /\ lock = q
      BY <1>0, <1>3, <2>1 DEF LeaseMoves
    <3>2. Orphans' = Orphans
      BY <1>2, <2>0, <2>1, <3>1, OthersDoNotWrite
    <3>3. Orphans \subseteq proc[q].todo \union Unsettled(q)
      BY <1>3, <2>0, <3>1 DEF ScanInv
    <3>4. QED
      BY <3>1, <3>2, <3>3 DEF Unsettled
  <2>2. CASE q = p /\ proc[p].pc = "scanning"
    <3>1. lock = p
      BY <2>2 DEF LeaseInv, Opens
    <3>2. proc[p].skipped = proc'[p].skipped /\ (KeepsStage(p) \/ ScansOn(p))
      BY <1>0, <1>3, <2>2 DEF Stages, KeepsStage, ScansOn, Off
    <3>3. Orphans \subseteq proc[p].todo \union Unsettled(p)
      BY <1>3, <2>0, <2>2, <3>1, <3>2 DEF ScanInv
    <3>4. CASE KeepsStage(p)
      <4>1. Orphans' = Orphans
        BY <1>2, <2>2, <3>4 DEF KeepsStage
      <4>2. QED
        BY <2>2, <3>3, <3>4, <4>1 DEF KeepsStage, Unsettled
    <3>5. CASE ScansOn(p)
      <4>1. PICK t \in proc[p].todo :
              /\ proc'[p].todo = proc[p].todo \ {t}
              /\ \/ [turn |-> t, terminalized |-> FALSE] \in proc'[p].orphans
                 \/ Realize(p) /\ t = proc[p].job.turn
        BY <3>5 DEF ScansOn
      <4>2. Orphans' \subseteq Orphans
        <5>1. ASSUME NEW e \in Entry, Grows(e), e.kind = "user" PROVE FALSE
          BY <2>2, <5>1, GrowsOwn DEF JobOK
        <5>2. QED
          BY <5>1, OrphansMove
      <4>3. t \in Turn /\ (t \in Orphans' => t \in Unsettled(p)')
        BY <1>0, <2>2, <4>1, RealizedIsNoOrphan DEF Unsettled, Proc
      <4>4. Unsettled(p) \subseteq Unsettled(p)'
        BY <3>5 DEF ScansOn, Unsettled
      <4>5. QED
        BY <2>2, <3>3, <4>1, <4>2, <4>3, <4>4
    <3>6. QED
      BY <3>2, <3>4, <3>5
  <2>3. CASE q = p /\ proc[p].pc # "scanning"
    <3>1. proc'[p].todo = Orphans /\ UNCHANGED chat
      BY <1>0, <1>3, <2>3 DEF Stages, KeepsStage, ScansOn, Off
    <3>2. QED
      BY <1>2, <2>3, <3>1
  <2>4. QED
    BY <2>1, <2>2, <2>3
<1>4. ASSUME ~unleased', NEW q \in Process, lock' = q, ~proc'[q].skipped,
             proc'[q].pc = "kernel"
      PROVE  Orphans' \subseteq proc'[q].own \union Unsettled(q)'
  <2>0. ~unleased
    BY <1>1, <1>4
  <2>1. CASE q # p
    <3>1. proc'[q] = proc[q] /\ lock = q
      BY <1>0, <1>4, <2>1 DEF LeaseMoves
    <3>2. Orphans' = Orphans
      BY <1>2, <2>0, <2>1, <3>1, OthersDoNotWrite
    <3>3. Orphans \subseteq proc[q].own \union Unsettled(q)
      BY <1>4, <2>0, <3>1 DEF ScanInv
    <3>4. QED
      BY <3>1, <3>2, <3>3 DEF Unsettled
  <2>2. CASE q = p /\ proc[p].pc = "kernel"
    <3>1. KeepsStage(p)
      BY <1>0, <1>4, <2>2 DEF Stages, ScansOn, Off
    <3>2. Orphans \subseteq proc[p].own \union Unsettled(p)
      BY <1>4, <2>0, <2>2, <3>1 DEF ScanInv, KeepsStage
    <3>3. Orphans' \subseteq Orphans \union proc[p].own
      <4>1. SUFFICES ASSUME NEW t \in Orphans', t \notin Orphans PROVE t \in proc[p].own
        OBVIOUS
      <4>2. PICK e \in Entry : Grows(e) /\ e.kind = "user" /\ e.turn = t
        BY <4>1, OrphansMove
      <4>3. proc[p].turn = t /\ t \in Turn
        BY <2>2, <4>1, <4>2, GrowsOwn DEF JobOK, Orphans
      <4>4. QED
        BY <1>0, <4>3, LaunchAssumption DEF ProcOK
    <3>4. proc[p].own \subseteq proc'[p].own /\ Unsettled(p)' = Unsettled(p)
      BY <3>1 DEF KeepsStage, Unsettled
    <3>5. QED
      BY <2>2, <3>2, <3>3, <3>4
  <2>3. CASE q = p /\ proc[p].pc = "creating" /\ Realize(p)
    <3>1. /\ proc[p].job.kind = "create" /\ proc[p].job.by = p
          /\ Applies(proc[p].job) /\ Applied(proc[p].job)
      BY <2>3, JobTyped DEF Realize, JobOK
    <3>2. manifest # p
      BY <2>3 DEF CreateInv
    <3>3. chat = << >> /\ UNCHANGED chat
      BY <3>1, <3>2 DEF Applies, IsOld, IsNew, Applied, CreateInv
    <3>4. Orphans = {}
      <4>1. Len(chat) = 0
        BY <3>3
      <4>2. \A t \in Turn : ~HasUser(t)
        BY <4>1 DEF HasUser, Contains
      <4>3. QED
        BY <4>2 DEF Orphans
    <3>5. QED
      BY <1>2, <3>3, <3>4
  <2>4. CASE /\ q = p /\ proc[p].pc = "scanning" /\ proc[p].todo = {}
             /\ proc'[p].orphans = proc[p].orphans /\ proc'[p].skipped = proc[p].skipped
             /\ UNCHANGED <<lock, chat>>
    <3>1. Orphans \subseteq Unsettled(p)
      BY <1>4, <2>0, <2>4 DEF ScanInv
    <3>2. QED
      BY <1>2, <2>4, <3>1 DEF Unsettled
  <2>5. QED
    BY <1>0, <1>4, <2>1, <2>2, <2>3, <2>4 DEF Stages, KeepsStage, ScansOn, Off
<1>5. QED
  BY <1>3, <1>4 DEF ScanInv

LEMMA ScanInit == Init => ScanInv
<1> SUFFICES ASSUME Init PROVE ScanInv
  OBVIOUS
<1>1. \A p \in Process : proc[p] = Off
  BY DEF Init
<1>2. QED
  BY <1>1 DEF ScanInv, Off

LEMMA ScanStep ==
  TypeInv /\ TypeInv' /\ LeaseInv /\ LeaseInv' /\ CreateInv /\ ScanInv /\ [Next]_vars
    => ScanInv'
<1>1. ASSUME ScanInv, UNCHANGED vars PROVE ScanInv'
  BY <1>1 DEF vars, ScanInv, Orphans, HasUser, IsTerminal, Unsettled
<1>2. ASSUME Next PROVE \E p \in Process : Act(p)
  BY <1>2 DEF Next, Act
<1>3. QED
  BY <1>1, <1>2, ScanKept

LEMMA ScanAlways == Spec => [](TypeInv /\ ChatInv /\ LeaseInv /\ CreateInv /\ ScanInv)
BY TypeInit, TypeStep, ChatInit, ChatStep, LeaseInit, LeaseStep, CreateInit, CreateStep,
   ScanInit, ScanStep, PTL DEF Spec

\* As long as those who write hold the lease, a project that is open holds no turn
\* of an earlier process without its terminal record, unless its scan left the chat
\* out: what the scan found it closed or reported, what it reported as not closed
\* blocks the opening, and what opened since is this process's own.
THEOREM OpenProjectIsSettled == Spec => []ReadyIsSettled
<1>1. TypeInv /\ ScanInv => ReadyIsSettled
  <2> SUFFICES ASSUME TypeInv, ScanInv, ~unleased, NEW p \in Process,
                      proc[p].phase = "ready", lock = p, ~proc[p].skipped
               PROVE  Orphans \subseteq proc[p].own
    BY DEF ReadyIsSettled
  <2>1. ProcOK(p, proc[p])
    BY DEF TypeInv
  <2>2. proc[p].pc = "kernel" /\ \A o \in proc[p].orphans : o.terminalized
    BY <2>1 DEF ProcOK
  <2>3. Unsettled(p) = {}
    BY <2>2 DEF Unsettled
  <2>4. QED
    BY <2>2, <2>3 DEF ScanInv
<1>2. QED
  BY <1>1, ScanAlways, PTL

===============================================================================
