------------------------------ MODULE WriteMutex ------------------------------
(***************************************************************************)
(* The in-process FIFO project-write mutex of                              *)
(* store/transaction/model/write-mutex.ts (createWriteMutex): at most one  *)
(* permit is active, acquire calls are granted in call order, and          *)
(* releasing a permit hands the mutex to the first waiter in the same      *)
(* synchronous step.  A permit stands for one acquire call: the code mints *)
(* a fresh random id per grant, so no id is ever active twice.             *)
(***************************************************************************)
EXTENDS Sequences

CONSTANTS Permit,    \* the acquire calls
          NoPermit   \* no permit is active (activePermitId === null)

ASSUME PermitAssumption == NoPermit \notin Permit

VARIABLES activePermit, waiters

TypeOK ==
  /\ activePermit \in Permit \cup {NoPermit}
  /\ waiters \in Seq(Permit)

Init ==
  /\ activePermit = NoPermit
  /\ waiters = << >>

IsActive(p) == activePermit = p

\* Mutant of Acquire: the latest caller is served first.
AcquireInFront(p) ==
  \/ /\ activePermit = NoPermit
     /\ activePermit' = p
     /\ UNCHANGED waiters
  \/ /\ activePermit # NoPermit
     /\ waiters' = << p >> \o waiters
     /\ UNCHANGED activePermit

Acquire(p) ==
  \/ /\ activePermit = NoPermit
     /\ waiters = << >>
     /\ activePermit' = p
     /\ UNCHANGED waiters
  \/ /\ activePermit # NoPermit \/ waiters # << >>
     /\ waiters' = Append(waiters, p)
     /\ UNCHANGED activePermit

\* Mutant of Release: the first waiter is not woken.
ReleaseForgetsWaiters(p) ==
  /\ activePermit' = IF IsActive(p) THEN NoPermit ELSE activePermit
  /\ UNCHANGED waiters

\* A stale or repeated release is a no-op; the active one passes the mutex on.
Release(p) ==
  \/ /\ ~IsActive(p)
     /\ UNCHANGED <<activePermit, waiters>>
  \/ /\ IsActive(p)
     /\ waiters = << >>
     /\ activePermit' = NoPermit
     /\ UNCHANGED waiters
  \/ /\ IsActive(p)
     /\ waiters # << >>
     /\ activePermit' = Head(waiters)
     /\ waiters' = Tail(waiters)
===============================================================================
