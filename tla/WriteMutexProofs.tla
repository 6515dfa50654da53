--------------------------- MODULE WriteMutexProofs ---------------------------
(***************************************************************************)
(* The write mutex grants its permits in call order, never loses a waiter, *)
(* and lets no guarded step begin out of turn, for any number of acquire   *)
(* calls and steps.                                                        *)
(***************************************************************************)
EXTENDS WriteMutexClients, SequenceTheorems, TLAPS

\* No permit is acquired twice.
CalledOnce == \A m, n \in DOMAIN called : called[m] = called[n] => m = n

\* Whoever began a guarded step had been granted the mutex.
BegunAfterGrant == \A i \in DOMAIN begun : \E m \in 1 .. Granted : called[m] = begun[i]

MutexInv ==
  /\ ClientsTypeOK
  /\ NoLostWakeup
  /\ FifoOrder
  /\ CalledOnce
  /\ BegunAfterGrant
  /\ StepsFollowGrants
  /\ RunsUnderItsPermit

LEMMA MutexInit == ClientsInit => MutexInv
<1> SUFFICES ASSUME ClientsInit PROVE MutexInv
  OBVIOUS
<1>1. ClientsTypeOK
  BY EmptySeq DEF ClientsInit, Init, ClientsTypeOK, TypeOK
<1>2. QED
  BY <1>1
     DEF ClientsInit, Init, MutexInv, NoLostWakeup, FifoOrder, Granted, CalledOnce,
         BegunAfterGrant, StepsFollowGrants, RunsUnderItsPermit

LEMMA SequencesTyped ==
  ASSUME ClientsTypeOK
  PROVE  /\ Len(called) \in Nat /\ DOMAIN called = 1 .. Len(called)
         /\ Len(waiters) \in Nat /\ DOMAIN waiters = 1 .. Len(waiters)
         /\ Len(begun) \in Nat /\ DOMAIN begun = 1 .. Len(begun)
BY LenProperties DEF ClientsTypeOK, TypeOK

LEMMA AppendEntries ==
  ASSUME NEW seq \in Seq(Permit), NEW p \in Permit
  PROVE  /\ Append(seq, p) \in Seq(Permit)
         /\ Len(Append(seq, p)) = Len(seq) + 1
         /\ DOMAIN Append(seq, p) = 1 .. Len(seq) + 1
         /\ \A i \in 1 .. Len(seq) : Append(seq, p)[i] = seq[i]
         /\ Append(seq, p)[Len(seq) + 1] = p
BY AppendProperties, LenProperties

LEMMA TailEntries ==
  ASSUME NEW seq \in Seq(Permit), seq # << >>
  PROVE  /\ Head(seq) = seq[1]
         /\ Head(seq) \in Permit
         /\ Tail(seq) \in Seq(Permit)
         /\ Len(seq) >= 1
         /\ Len(Tail(seq)) = Len(seq) - 1
         /\ DOMAIN Tail(seq) = 1 .. Len(seq) - 1
         /\ \A i \in 1 .. Len(seq) - 1 : Tail(seq)[i] = seq[i + 1]
BY HeadTailProperties, LenProperties, EmptySeq

LEMMA AcquireStep ==
  ASSUME MutexInv, NEW p \in Permit, CallAcquire(p)
  PROVE  MutexInv'
<1> USE DEF MutexInv
<1>1. /\ called' = Append(called, p)
      /\ UNCHANGED <<chain, begun, early>>
      /\ \A m \in DOMAIN called : called[m] # p
  BY DEF CallAcquire, CallsMade
<1>2. /\ called' \in Seq(Permit)
      /\ Len(called') = Len(called) + 1
      /\ DOMAIN called' = 1 .. Len(called) + 1
      /\ \A i \in 1 .. Len(called) : called'[i] = called[i]
      /\ called'[Len(called) + 1] = p
  BY <1>1, AppendEntries DEF ClientsTypeOK
<1>3. CalledOnce'
  BY <1>1, <1>2, SequencesTyped DEF CalledOnce
<1>4. CASE activePermit = NoPermit /\ waiters = << >> /\ activePermit' = p /\ UNCHANGED waiters
  <2>1. Len(waiters) = 0 /\ Granted = Len(called) /\ Granted' = Len(called) + 1
    BY <1>2, <1>4, EmptySeq, SequencesTyped DEF Granted
  <2>2. ClientsTypeOK'
    BY <1>1, <1>2, <1>4 DEF ClientsTypeOK, TypeOK
  <2>3. NoLostWakeup' /\ FifoOrder'
    BY <1>2, <1>4, <2>1, PermitAssumption, SequencesTyped DEF NoLostWakeup, FifoOrder
  <2>4. BegunAfterGrant' /\ StepsFollowGrants'
    <3>1. \A i \in DOMAIN begun : begun[i] # p
      BY <1>1, <2>1, SequencesTyped DEF BegunAfterGrant
    <3>2. BegunAfterGrant'
      BY <1>1, <1>2, <2>1, SequencesTyped DEF BegunAfterGrant
    <3>3. StepsFollowGrants'
      BY <1>1, <1>2, <3>1, SequencesTyped DEF StepsFollowGrants
    <3>4. QED
      BY <3>2, <3>3
  <2>5. RunsUnderItsPermit'
    BY <1>1, <1>4, PermitAssumption DEF RunsUnderItsPermit, IsActive
  <2>6. QED
    BY <1>3, <2>2, <2>3, <2>4, <2>5
<1>5. CASE /\ activePermit # NoPermit \/ waiters # << >>
           /\ waiters' = Append(waiters, p)
           /\ UNCHANGED activePermit
  <2>1. /\ waiters' \in Seq(Permit)
        /\ Len(waiters') = Len(waiters) + 1
        /\ DOMAIN waiters' = 1 .. Len(waiters) + 1
        /\ \A i \in 1 .. Len(waiters) : waiters'[i] = waiters[i]
        /\ waiters'[Len(waiters) + 1] = p
    BY <1>5, AppendEntries DEF ClientsTypeOK, TypeOK
  <2>2. Granted' = Granted /\ Granted \in Nat /\ Granted <= Len(called)
    BY <1>2, <2>1, SequencesTyped DEF Granted, FifoOrder
  <2>3. ClientsTypeOK'
    BY <1>1, <1>2, <1>5, <2>1 DEF ClientsTypeOK, TypeOK
  <2>4. NoLostWakeup'
    BY <1>5 DEF NoLostWakeup
  <2>5. FifoOrder'
    <3>1. \A i \in DOMAIN waiters' : waiters'[i] = called'[Granted + i]
      <4> SUFFICES ASSUME NEW i \in 1 .. Len(waiters) + 1
                   PROVE  waiters'[i] = called'[Granted + i]
        BY <2>1
      <4>1. CASE i <= Len(waiters)
        <5>1. i \in DOMAIN waiters /\ Granted + i \in 1 .. Len(called)
          BY <2>2, <4>1, SequencesTyped DEF Granted
        <5>2. waiters[i] = called[Granted + i]
          BY <5>1 DEF FifoOrder
        <5>3. QED
          BY <1>2, <2>1, <5>1, <5>2, SequencesTyped
      <4>2. CASE i = Len(waiters) + 1
        BY <1>2, <2>1, <4>2, SequencesTyped DEF Granted
      <4>3. QED
        BY <4>1, <4>2, SequencesTyped
    <3>2. QED
      BY <1>2, <1>5, <2>1, <2>2, <3>1, SequencesTyped DEF FifoOrder
  <2>6. BegunAfterGrant'
    BY <1>1, <1>2, <2>2, SequencesTyped DEF BegunAfterGrant
  <2>7. StepsFollowGrants'
    <3>1. \A i \in DOMAIN begun : begun[i] # p
      BY <1>1, <2>2, SequencesTyped DEF BegunAfterGrant
    <3>2. QED
      BY <1>1, <1>2, <3>1, SequencesTyped DEF StepsFollowGrants
  <2>8. RunsUnderItsPermit'
    BY <1>1, <1>5 DEF RunsUnderItsPermit, IsActive
  <2>9. QED
    BY <1>3, <2>3, <2>4, <2>5, <2>6, <2>7, <2>8
<1>6. QED
  BY <1>4, <1>5 DEF CallAcquire, Acquire

LEMMA BeginStepStep ==
  ASSUME MutexInv, NEW p \in Permit, BeginStep(p)
  PROVE  MutexInv'
<1> USE DEF MutexInv
<1>1. /\ activePermit = p
      /\ begun' = Append(begun, p)
      /\ chain' = [chain EXCEPT ![p] = "running"]
      /\ UNCHANGED <<activePermit, waiters, called, early>>
  BY DEF BeginStep, IsActive
<1>2. /\ begun' \in Seq(Permit)
      /\ Len(begun') = Len(begun) + 1
      /\ DOMAIN begun' = 1 .. Len(begun) + 1
      /\ \A i \in 1 .. Len(begun) : begun'[i] = begun[i]
      /\ begun'[Len(begun) + 1] = p
  BY <1>1, AppendEntries DEF ClientsTypeOK
<1>3. /\ Granted \in Nat /\ Granted >= 1 /\ Granted <= Len(called)
      /\ called[Granted] = p
      /\ Granted' = Granted
  BY <1>1, PermitAssumption, SequencesTyped DEF FifoOrder, Granted
<1>4. ClientsTypeOK' /\ NoLostWakeup' /\ FifoOrder' /\ CalledOnce'
  BY <1>1, <1>2
     DEF ClientsTypeOK, TypeOK, NoLostWakeup, FifoOrder, Granted, CalledOnce
<1>5. BegunAfterGrant'
  BY <1>1, <1>2, <1>3, SequencesTyped DEF BegunAfterGrant
<1>6. StepsFollowGrants'
  <2> SUFFICES ASSUME NEW i \in DOMAIN begun', NEW j \in DOMAIN begun',
                      NEW m \in DOMAIN called, NEW n \in DOMAIN called,
                      i < j, begun'[i] = called[m], begun'[j] = called[n]
               PROVE  m <= n
    BY <1>1 DEF StepsFollowGrants
  <2>1. CASE j \in 1 .. Len(begun)
    BY <1>2, <2>1, SequencesTyped DEF StepsFollowGrants
  <2>2. CASE j = Len(begun) + 1
    <3>1. i \in 1 .. Len(begun)
      BY <1>2, <2>2, SequencesTyped
    <3>2. n = Granted
      BY <1>2, <1>3, <2>2, SequencesTyped DEF CalledOnce
    <3>3. PICK k \in 1 .. Granted : called[k] = begun[i]
      BY <3>1, SequencesTyped DEF BegunAfterGrant
    <3>4. m = k
      BY <1>2, <1>3, <3>1, <3>3, SequencesTyped DEF CalledOnce
    <3>5. QED
      BY <3>2, <3>3, <3>4
  <2>3. QED
    BY <1>2, <2>1, <2>2, SequencesTyped
<1>7. RunsUnderItsPermit'
  BY <1>1 DEF RunsUnderItsPermit, IsActive, ClientsTypeOK
<1>8. QED
  BY <1>4, <1>5, <1>6, <1>7

\* The steps of a chain that begin nothing leave the grants and the order alone.
LEMMA OtherChainSteps ==
  ASSUME MutexInv, NEW p \in Permit, OpenChain(p) \/ StaleStep(p) \/ EndStep(p)
  PROVE  MutexInv'
<1> USE DEF MutexInv
<1>1. UNCHANGED <<activePermit, waiters, called, begun>>
  BY DEF OpenChain, StaleStep, EndStep
<1>2. /\ NoLostWakeup' /\ FifoOrder' /\ CalledOnce'
      /\ BegunAfterGrant' /\ StepsFollowGrants'
  BY <1>1
     DEF NoLostWakeup, FifoOrder, Granted, CalledOnce, BegunAfterGrant, StepsFollowGrants
<1>3. ClientsTypeOK'
  BY <1>1 DEF OpenChain, StaleStep, EndStep, ClientsTypeOK, TypeOK
<1>4. RunsUnderItsPermit'
  BY <1>1 DEF OpenChain, StaleStep, EndStep, RunsUnderItsPermit, IsActive, ClientsTypeOK
<1>5. QED
  BY <1>2, <1>3, <1>4

LEMMA ReleaseStep ==
  ASSUME MutexInv, NEW p \in Permit, CallRelease(p)
  PROVE  MutexInv'
<1> USE DEF MutexInv
<1>1. /\ UNCHANGED <<called, chain, begun>>
      /\ early' \in SUBSET Permit
  BY DEF CallRelease, ClientsTypeOK
<1>2. CalledOnce' /\ StepsFollowGrants' /\ RunsUnderItsPermit'
  <2>1. CalledOnce' /\ StepsFollowGrants'
    BY <1>1 DEF CalledOnce, StepsFollowGrants
  <2>2. RunsUnderItsPermit'
    BY <1>1 DEF RunsUnderItsPermit, CallRelease, Release, IsActive
  <2>3. QED
    BY <2>1, <2>2
<1>3. CASE UNCHANGED <<activePermit, waiters>>
  BY <1>1, <1>2, <1>3
     DEF ClientsTypeOK, TypeOK, NoLostWakeup, FifoOrder, Granted, BegunAfterGrant
<1>4. CASE waiters = << >> /\ activePermit' = NoPermit /\ UNCHANGED waiters
  BY <1>1, <1>2, <1>4
     DEF ClientsTypeOK, TypeOK, NoLostWakeup, FifoOrder, Granted, BegunAfterGrant
<1>5. CASE /\ waiters # << >>
           /\ activePermit' = Head(waiters)
           /\ waiters' = Tail(waiters)
           /\ IsActive(p)
  <2>1. /\ activePermit' = waiters[1]
        /\ activePermit' \in Permit
        /\ waiters' \in Seq(Permit)
        /\ Len(waiters) >= 1
        /\ Len(waiters') = Len(waiters) - 1
        /\ DOMAIN waiters' = 1 .. Len(waiters) - 1
        /\ \A i \in 1 .. Len(waiters) - 1 : waiters'[i] = waiters[i + 1]
    BY <1>5, TailEntries DEF ClientsTypeOK, TypeOK
  <2>2. Granted' = Granted + 1 /\ Granted \in Nat /\ Granted + Len(waiters) = Len(called)
    BY <1>1, <2>1, SequencesTyped DEF Granted, FifoOrder
  <2>3. ClientsTypeOK' /\ NoLostWakeup'
    BY <1>1, <2>1, PermitAssumption DEF ClientsTypeOK, TypeOK, NoLostWakeup
  <2>4. FifoOrder'
    <3>1. activePermit' = called'[Granted']
      BY <1>1, <2>1, <2>2, SequencesTyped DEF FifoOrder
    <3>2. \A i \in DOMAIN waiters' : waiters'[i] = called'[Granted' + i]
      <4> SUFFICES ASSUME NEW i \in DOMAIN waiters'
                   PROVE  waiters'[i] = called'[Granted' + i]
        OBVIOUS
      <4>1. i \in 1 .. Len(waiters) - 1 /\ i + 1 \in DOMAIN waiters
        BY <2>1, SequencesTyped
      <4>2. waiters'[i] = waiters[i + 1]
        BY <2>1, <4>1
      <4>3. waiters[i + 1] = called[Granted + (i + 1)]
        BY <4>1 DEF FifoOrder
      <4>4. Granted' + i = Granted + (i + 1)
        BY <2>2, <4>1
      <4>5. QED
        BY <1>1, <4>2, <4>3, <4>4
    <3>3. QED
      BY <1>1, <2>1, <2>2, <3>1, <3>2, SequencesTyped DEF FifoOrder
  <2>5. BegunAfterGrant'
    BY <1>1, <2>2 DEF BegunAfterGrant
  <2>6. QED
    BY <1>2, <2>3, <2>4, <2>5
<1>6. QED
  BY <1>3, <1>4, <1>5 DEF CallRelease, Release

LEMMA MutexAlways == Spec => []MutexInv
<1>1. MutexInv /\ [Next]_vars => MutexInv'
  <2> SUFFICES ASSUME MutexInv, [Next]_vars PROVE MutexInv'
    OBVIOUS
  <2>1. CASE UNCHANGED vars
    BY <2>1
       DEF vars, MutexInv, ClientsTypeOK, TypeOK, NoLostWakeup, FifoOrder, Granted,
           CalledOnce, BegunAfterGrant, StepsFollowGrants, RunsUnderItsPermit, IsActive
  <2>2. QED
    BY <2>1, AcquireStep, BeginStepStep, OtherChainSteps, ReleaseStep DEF Next
<1>2. QED
  BY <1>1, MutexInit, PTL DEF Spec

\* Permits are granted in exact call order.
THEOREM GrantsAreFifo == Spec => []FifoOrder
BY MutexAlways, PTL DEF MutexInv

\* A waiting caller always has somebody ahead of it whose release wakes it.
THEOREM WaitersHaveAHolder == Spec => []NoLostWakeup
BY MutexAlways, PTL DEF MutexInv

\* Guarded steps begin in the order of the acquire calls, and a running one belongs
\* to the holder or to a caller that released its permit during that very step.
THEOREM GuardedStepsAreSerial == Spec => []StepsAreSerial
BY MutexAlways, PTL DEF MutexInv, StepsAreSerial

\* Two callers that await their steps before they release (withPermit) never have
\* a step running at the same time.
THEOREM AwaitedStepsExclude ==
  Spec => [](\A p, q \in Permit :
               /\ chain[p] = "running" /\ p \notin early
               /\ chain[q] = "running" /\ q \notin early
               => p = q)
<1>1. MutexInv => (\A p, q \in Permit :
               /\ chain[p] = "running" /\ p \notin early
               /\ chain[q] = "running" /\ q \notin early
               => p = q)
  BY DEF MutexInv, RunsUnderItsPermit, IsActive
<1>2. QED
  BY <1>1, MutexAlways, PTL
===============================================================================
