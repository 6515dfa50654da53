--------------------------- MODULE WriteMutexClients ---------------------------
(***************************************************************************)
(* The project-write mutex together with the code that uses it: every      *)
(* caller acquires once (withPermit in store/model/factory.ts), runs the   *)
(* guarded steps of a chain, and releases.  WriteMutex.chain checks the    *)
(* permit and then AWAITS the callback, so a step has a beginning and an   *)
(* end, and other callers run in between.  The check is before-only: a     *)
(* step that has begun runs to its end even if its permit is released      *)
(* meanwhile.  A caller keeps its permit object after the release, so a    *)
(* late continuation may still try to run a step or to release again.      *)
(***************************************************************************)
EXTENDS WriteMutex, Naturals

CONSTANT MaxSteps   \* bound on the guarded steps of one run

VARIABLES called,   \* history: the acquire calls in call order
          chain,    \* per permit, the state its chain has reached
          begun,    \* history: the permit of every guarded step that began
          early     \* history: permits released during their own running step

vars == <<activePermit, waiters, called, chain, begun, early>>

CallsMade == {called[i] : i \in DOMAIN called}
Waiting   == {waiters[i] : i \in DOMAIN waiters}

\* The promise of p's acquire has been resolved: its caller has the object.
HasPermit(p) == p \in CallsMade \ Waiting

ClientsTypeOK ==
  /\ TypeOK
  /\ called \in Seq(Permit)
  /\ chain \in [Permit -> {"none", "ready", "running", "stale"}]
  /\ begun \in Seq(Permit)
  /\ early \in SUBSET Permit

ClientsInit ==
  /\ Init
  /\ called = << >>
  /\ chain = [p \in Permit |-> "none"]
  /\ begun = << >>
  /\ early = {}

CallAcquire(p) ==
  /\ p \notin CallsMade
  /\ Acquire(p)
  /\ called' = Append(called, p)
  /\ UNCHANGED <<chain, begun, early>>

\* chain(permit): an already stale permit fails the chain before any step.
OpenChain(p) ==
  /\ HasPermit(p)
  /\ chain[p] = "none"
  /\ chain' = [chain EXCEPT ![p] = IF IsActive(p) THEN "ready" ELSE "stale"]
  /\ UNCHANGED <<activePermit, waiters, called, begun, early>>

\* Mutant of BeginStep: the permit was checked once, when the chain was opened.
BeginStepUnchecked(p) ==
  /\ chain[p] = "ready"
  /\ Len(begun) < MaxSteps
  /\ chain' = [chain EXCEPT ![p] = "running"]
  /\ begun' = Append(begun, p)
  /\ UNCHANGED <<activePermit, waiters, called, early>>

\* One `.do` of a chain: the permit is checked again and the callback starts.
BeginStep(p) ==
  /\ chain[p] = "ready"
  /\ IsActive(p)
  /\ Len(begun) < MaxSteps
  /\ chain' = [chain EXCEPT ![p] = "running"]
  /\ begun' = Append(begun, p)
  /\ UNCHANGED <<activePermit, waiters, called, early>>

\* A `.do` that finds the permit stale: WritePermitInvalidError, which every
\* later `.do` of the chain passes on without running its callback.
StaleStep(p) ==
  /\ chain[p] = "ready"
  /\ ~IsActive(p)
  /\ chain' = [chain EXCEPT ![p] = "stale"]
  /\ UNCHANGED <<activePermit, waiters, called, begun, early>>

\* The awaited callback is done; whether the permit is still active is not asked.
EndStep(p) ==
  /\ chain[p] = "running"
  /\ chain' = [chain EXCEPT ![p] = "ready"]
  /\ early' = early \ {p}
  /\ UNCHANGED <<activePermit, waiters, called, begun>>

\* A release: withPermit's after its fn has ended, or the call of a caller that
\* does not await its running step, or one that comes late or twice.
CallRelease(p) ==
  /\ HasPermit(p)
  /\ Release(p)
  /\ early' = IF IsActive(p) /\ chain[p] = "running" THEN early \cup {p} ELSE early
  /\ UNCHANGED <<called, chain, begun>>

Next == \E p \in Permit :
  \/ CallAcquire(p) \/ OpenChain(p) \/ CallRelease(p)
  \/ BeginStep(p) \/ StaleStep(p) \/ EndStep(p)

\* Callbacks end (local file operations), and withPermit releases in a `finally`
\* after its fn, so the holder of the mutex releases it once no step of it runs.
Fairness == \A p \in Permit :
  /\ WF_vars(EndStep(p))
  /\ WF_vars(IsActive(p) /\ chain[p] # "running" /\ CallRelease(p))

Spec == ClientsInit /\ [][Next]_vars /\ Fairness

-------------------------------------------------------------------------------
\* Nobody waits for a mutex that nobody holds: a release that forgot the first
\* waiter, or an acquire that queued behind nobody, would hang the project.
NoLostWakeup == waiters # << >> => activePermit # NoPermit

\* Grants follow the call order (write-mutex.ts: "granted in exact call order"):
\* the waiters are exactly the latest calls and the holder, if any, is the call
\* right before them.
Granted == Len(called) - Len(waiters)
FifoOrder ==
  /\ Len(waiters) <= Len(called)
  /\ \A i \in DOMAIN waiters : waiters[i] = called[Granted + i]
  /\ activePermit # NoPermit => Granted > 0 /\ activePermit = called[Granted]

\* No step begins out of turn: steps begin in the order of the acquire calls, so
\* none begins once a later caller has begun one.
StepsFollowGrants ==
  \A i, j \in DOMAIN begun : \A m, n \in DOMAIN called :
    i < j /\ begun[i] = called[m] /\ begun[j] = called[n] => m <= n

\* A running step belongs to the holder, unless its own caller released the
\* permit while it ran.
RunsUnderItsPermit == \A p \in Permit : chain[p] = "running" /\ p \notin early => IsActive(p)

\* What the chain promises of guarded steps: they begin in grant order whatever
\* stale continuations do, and the steps of two callers run at the same time only
\* if one of them released its permit during its own step (write-mutex.ts: "a
\* step that started under a valid permit runs to completion").  withPermit,
\* which awaits its fn, never does that: its steps exclude each other.
StepsAreSerial == StepsFollowGrants /\ RunsUnderItsPermit

\* Every acquire call is eventually granted, as long as callbacks end and holders
\* release.
EveryCallGranted == \A p \in Permit : p \in CallsMade ~> HasPermit(p)
===============================================================================
