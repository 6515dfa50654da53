----------------------------- MODULE ProjectLaunch -----------------------------
(***************************************************************************)
(* The life of one project folder under several termcraft processes        *)
(* (store/model/factory.ts, store/lease, the kernel's project handlers and *)
(* the shell that drives them): creating the folder, taking the lease,     *)
(* recovering the journal, closing the turns a dead process left open,     *)
(* opening, running turns, closing, exiting or dying at any point.         *)
(*                                                                         *)
(* A transaction is two steps here, its intent and its realization         *)
(* (ProjectTransaction is the detailed account); the project is its        *)
(* manifest and one chat; a turn is the records it leaves there.           *)
(***************************************************************************)
EXTENDS Integers, Sequences, SequencesExt

CONSTANTS Process, NoProcess, Turn, NoTurn,
          MaxLaunches,   \* bound: launches of all processes together
          MaxFaults      \* bound: failing reads and writes

ASSUME LaunchAssumption ==
  NoProcess \notin Process /\ NoTurn \notin Turn /\ MaxLaunches \in Nat
    /\ MaxFaults \in Nat

VARIABLES
  folder,     \* does .termcraft exist?
  manifest,   \* the process whose creation wrote project.toml, if any
  chat,       \* the records of the chat
  journal,    \* transactions with an intent and no commit, oldest first
  lock,       \* the process holding the OS lock on .termcraft/lock
  proc,       \* the processes
  used,       \* turn ids minted so far
  unleased,   \* history: did a process begin a transaction without the lock?
  launches, faults

vars == <<folder, manifest, chat, journal, lock, proc, used, unleased, launches, faults>>
disk == <<folder, manifest, chat, journal>>
minted == <<used, unleased>>
budget == <<launches, faults>>

Terminal == {"agent", "failed", "interrupted"}
Record == [turn : Turn, kind : Terminal \union {"user"}]
Entry == [turn : Turn \union {NoTurn}, kind : Terminal \union {"user", "create"},
          by : Process, at : Nat]
NoJob == [turn |-> NoTurn, kind |-> "none", by |-> NoProcess, at |-> 0]

\* A process that is not running; everything in it is lost with it.
Off == [pc |-> "off", phase |-> "closed", todo |-> {}, orphans |-> {}, skipped |-> FALSE,
        turn |-> NoTurn, step |-> "none", base |-> 0, own |-> {}, job |-> NoJob]

Proc == [pc : {"off", "making", "locking", "creating", "recovering", "scanning", "kernel"},
         phase : {"closed", "opening", "ready", "blocked"},
         todo : SUBSET Turn,
         orphans : SUBSET [turn : Turn, terminalized : BOOLEAN],
         skipped : BOOLEAN,
         turn : Turn \union {NoTurn},
         step : {"none", "admitting", "running", "finalizing", "ending"},
         base : Nat, own : SUBSET Turn, job : Entry \union {NoJob}]

TypeOK ==
  /\ folder \in BOOLEAN /\ manifest \in Process \union {NoProcess}
  /\ chat \in Seq(Record) /\ journal \in Seq(Entry)
  /\ lock \in Process \union {NoProcess} /\ proc \in [Process -> Proc]
  /\ used \in SUBSET Turn /\ unleased \in BOOLEAN
  /\ launches \in 0..MaxLaunches /\ faults \in 0..MaxFaults

Init ==
  /\ folder = FALSE /\ manifest = NoProcess /\ chat = <<>> /\ journal = <<>>
  /\ lock = NoProcess /\ proc = [p \in Process |-> Off]
  /\ used = {} /\ unleased = FALSE /\ launches = 0 /\ faults = 0

\* A read or write fails, within the bound; and a step that may be refused for a
\* reason of its own, or because of a failure.
Fault == faults < MaxFaults /\ faults' = faults + 1 /\ UNCHANGED launches
Refused(reason) == \/ reason /\ UNCHANGED budget
                   \/ Fault

\* p goes on as q; a process that ends, or fails to open, leaves the OS lock free.
Becomes(p, q) ==
  /\ proc' = [proc EXCEPT ![p] = q]
  /\ lock' = IF q.pc = "off" /\ lock = p THEN NoProcess ELSE lock

--------------------------------------------------------------------------------
(* What the chat says of a turn.                                           *)

HasUser(t) == Contains(chat, [turn |-> t, kind |-> "user"])
IsTerminal(t) == \E k \in Terminal : Contains(chat, [turn |-> t, kind |-> k])
Orphans == {t \in Turn : HasUser(t) /\ ~IsTerminal(t)}

\* Mutant of Recordable: the terminal record that is already there is not looked for.
RecordableAgain(t) == HasUser(t)

\* May a terminal record be written?  Turns without a user record, and turns that
\* have theirs, are refused.
Recordable(t) == HasUser(t) /\ ~IsTerminal(t)

--------------------------------------------------------------------------------
(* Transactions.                                                           *)

IsOld(e) == IF e.kind = "create" THEN manifest = NoProcess ELSE Len(chat) = e.at
IsNew(e) == IF e.kind = "create" THEN manifest = e.by
            ELSE Len(chat) = e.at + 1 /\ chat[e.at + 1] = [turn |-> e.turn, kind |-> e.kind]

Applies(e) == IsOld(e) \/ IsNew(e)

\* The operations of e become visible, unless they already are.
Applied(e) ==
  IF e.kind = "create"
  THEN manifest' = e.by /\ UNCHANGED chat
  ELSE /\ chat' = IF IsNew(e) THEN chat ELSE Append(chat, [turn |-> e.turn, kind |-> e.kind])
       /\ UNCHANGED manifest

\* p, going on as q, binds a transaction to what it sees and installs its intent.
Intend(p, q, kind, t) ==
  LET e == [turn |-> t, kind |-> kind, by |-> p, at |-> Len(chat)] IN
  /\ proc[p].job = NoJob
  /\ journal' = Append(journal, e)
  /\ Becomes(p, [q EXCEPT !.job = e])
  /\ unleased' = (unleased \/ lock # p)
  /\ UNCHANGED <<folder, manifest, chat, used, budget>>

\* What p does when the transaction it waits for has answered.
Told(p, ok) ==
  LET me == [proc[p] EXCEPT !.job = NoJob]
      over == [me EXCEPT !.turn = NoTurn, !.step = "none"] IN
  CASE me.pc = "creating" -> IF ok THEN [me EXCEPT !.pc = "kernel"] ELSE Off
    [] me.pc = "scanning" ->
         LET t == proc[p].job.turn IN
         [me EXCEPT !.todo = @ \ {t},
                    !.orphans = @ \union {[turn |-> t, terminalized |-> ok]}]
    [] me.step = "admitting" ->
         IF ok THEN [me EXCEPT !.step = "running", !.base = proc[p].job.at + 1]
         ELSE [me EXCEPT !.step = "ending"]
    [] me.step = "finalizing" -> IF ok THEN over ELSE [me EXCEPT !.step = "ending"]
    [] OTHER -> over

\* The transaction leaves the journal with its committed.json, unless another
\* process has committed it already.
Settled(e) ==
  \/ \E i \in DOMAIN journal : journal[i] = e /\ journal' = RemoveAt(journal, i)
  \/ ~Contains(journal, e) /\ UNCHANGED journal

Realize(p) ==
  LET e == proc[p].job IN
  /\ e # NoJob /\ Applies(e)
  /\ Applied(e)
  /\ Settled(e)
  /\ Becomes(p, Told(p, TRUE))
  /\ UNCHANGED <<folder, minted, budget>>

\* A target that is neither the old nor the new one: a recovery conflict.
Conflicts(p) ==
  LET e == proc[p].job IN
  /\ e # NoJob /\ ~Applies(e)
  /\ Becomes(p, Told(p, FALSE))
  /\ UNCHANGED <<disk, minted, budget>>

\* A write fails after the intent, before or after the record is in the file: the
\* caller is told the transaction is pending.
StaysPending(p) ==
  LET e == proc[p].job IN
  /\ e # NoJob /\ Fault
  /\ \/ UNCHANGED <<manifest, chat>>
     \/ Applies(e) /\ Applied(e)
  /\ Becomes(p, Told(p, FALSE))
  /\ UNCHANGED <<folder, journal, minted>>

--------------------------------------------------------------------------------
(* Opening and creating.                                                   *)

\* openOrCreateProject.  Without the folder the lease cannot be taken, and the
\* process goes on to create it; a held lease ends the launch (no step).
Launch(p) ==
  /\ proc[p].pc = "off" /\ launches < MaxLaunches
  /\ launches' = launches + 1
  /\ \/ ~folder /\ proc' = [proc EXCEPT ![p].pc = "making"] /\ UNCHANGED lock
     \/ folder /\ lock = NoProcess
          /\ lock' = p /\ proc' = [proc EXCEPT ![p].pc = "recovering"]
  /\ UNCHANGED <<disk, minted, faults>>

\* mkdir is recursive: it accepts a folder made since it was looked for.
MakeFolder(p) ==
  /\ proc[p].pc = "making"
  /\ folder' = TRUE
  /\ proc' = [proc EXCEPT ![p].pc = "locking"]
  /\ UNCHANGED <<manifest, chat, journal, lock, minted, budget>>

LockNew(p) ==
  /\ proc[p].pc = "locking"
  /\ IF lock = NoProcess
     THEN lock' = p /\ proc' = [proc EXCEPT ![p].pc = "creating"]
     ELSE Becomes(p, Off)
  /\ UNCHANGED <<disk, minted, budget>>

Create(p) ==
  proc[p].pc = "creating" /\ Intend(p, proc[p], "create", NoTurn)

\* Mutant of Recover: the scan does not wait for the journal.
RecoverLater(p) ==
  /\ proc[p].pc = "recovering"
  /\ IF manifest = NoProcess THEN Becomes(p, Off)
     ELSE Becomes(p, [proc[p] EXCEPT !.pc = "scanning", !.todo = Orphans])
  /\ UNCHANGED <<disk, minted, budget>>

\* The journal is resolved in order; a conflict stops the launch.
Recover(p) ==
  /\ proc[p].pc = "recovering"
  /\ IF journal = <<>>
     THEN /\ IF manifest = NoProcess THEN Becomes(p, Off)
             ELSE Becomes(p, [proc[p] EXCEPT !.pc = "scanning", !.todo = Orphans])
          /\ UNCHANGED disk
     ELSE LET e == Head(journal) IN
          IF Applies(e)
          THEN Applied(e) /\ journal' = Tail(journal) /\ UNCHANGED <<folder, lock, proc>>
          ELSE Becomes(p, Off) /\ UNCHANGED disk
  /\ UNCHANGED <<minted, budget>>

\* A chat that cannot be read is left out of the scan with a warning.
SkipChat(p) ==
  /\ proc[p].pc = "recovering" /\ journal = <<>> /\ manifest # NoProcess
  /\ Fault
  /\ proc' = [proc EXCEPT ![p].pc = "scanning", ![p].skipped = TRUE]
  /\ UNCHANGED <<disk, lock, minted>>

\* scanOrphanTurns gives each orphan of its one reading of the chat a record
\* "interrupted", or reports that it could not.
Interrupt(p) ==
  /\ proc[p].pc = "scanning" /\ proc[p].job = NoJob
  /\ \E t \in proc[p].todo :
       \/ Recordable(t) /\ Intend(p, proc[p], "interrupted", t)
       \/ /\ Refused(~Recordable(t))
          /\ proc' = [proc EXCEPT ![p].todo = @ \ {t},
                        ![p].orphans = @ \union {[turn |-> t, terminalized |-> FALSE]}]
          /\ UNCHANGED <<disk, lock, minted>>

Scanned(p) ==
  /\ proc[p].pc = "scanning" /\ proc[p].job = NoJob /\ proc[p].todo = {}
  /\ proc' = [proc EXCEPT ![p].pc = "kernel"]
  /\ UNCHANGED <<disk, lock, minted, budget>>

--------------------------------------------------------------------------------
(* The kernel's project machine, as the shell drives it.                   *)

\* project.open (or project.create): at startup, and again on Home's Enter.
Open(p) ==
  /\ proc[p].pc = "kernel" /\ proc[p].phase = "closed"
  /\ proc' = [proc EXCEPT ![p].phase = "opening"]
  /\ UNCHANGED <<disk, lock, minted, budget>>

\* Mutant of OrphansAreSettled: the report is not looked at.
OrphansAreReported(p) == TRUE

\* classifyOrphanTurns over the report the store kept from its own opening: an
\* orphan that could not be given its record makes the chat corrupt.
OrphansAreSettled(p) == \A o \in proc[p].orphans : o.terminalized

\* runProjectReadySequence; any other failing read blocks the project too.
Ready(p) ==
  /\ proc[p].pc = "kernel" /\ proc[p].phase = "opening"
  /\ \/ OrphansAreSettled(p) /\ proc' = [proc EXCEPT ![p].phase = "ready"] /\ UNCHANGED budget
     \/ Refused(~OrphansAreSettled(p)) /\ proc' = [proc EXCEPT ![p].phase = "blocked"]
  /\ UNCHANGED <<disk, lock, minted>>

\* The shell answers a blocked open with project.close: beginClose, the store's
\* one-shot close, which releases the lease, and finishClose.  The kernel keeps the
\* store it was built over, and its machine is back where an open is legal.
CloseBlocked(p) ==
  /\ proc[p].pc = "kernel" /\ proc[p].phase = "blocked"
  /\ proc' = [proc EXCEPT ![p].phase = "closed"]
  /\ lock' = IF lock = p THEN NoProcess ELSE lock
  /\ UNCHANGED <<disk, minted, budget>>

--------------------------------------------------------------------------------
(* Turns.                                                                  *)

Start(p, t) ==
  /\ proc[p].phase = "ready" /\ proc[p].turn = NoTurn /\ t \notin used
  /\ used' = used \union {t}
  /\ proc' = [proc EXCEPT ![p].turn = t, ![p].step = "admitting", ![p].own = @ \union {t}]
  /\ UNCHANGED <<disk, lock, unleased, budget>>

Admit(p) ==
  /\ proc[p].step = "admitting" /\ proc[p].job = NoJob
  /\ \/ Intend(p, proc[p], "user", proc[p].turn)
     \/ /\ Fault
        /\ proc' = [proc EXCEPT ![p].step = "ending"]
        /\ UNCHANGED <<disk, lock, minted>>

\* The agent is done.  The finalizing transaction compares the chat with the one
\* the turn was sent over; a turn may also fail or be cancelled.
Finalize(p) ==
  /\ proc[p].step = "running" /\ proc[p].job = NoJob
  /\ \/ Len(chat) = proc[p].base
          /\ Intend(p, [proc[p] EXCEPT !.step = "finalizing"], "agent", proc[p].turn)
     \/ /\ proc' = [proc EXCEPT ![p].step = "ending"]
        /\ UNCHANGED <<disk, lock, minted, budget>>

Over(p) == proc' = [proc EXCEPT ![p].turn = NoTurn, ![p].step = "none"]

\* terminalizeTurn: settled whatever its transaction answers.
Terminalize(p) ==
  /\ proc[p].step = "ending" /\ proc[p].job = NoJob
  /\ \/ Recordable(proc[p].turn) /\ Intend(p, proc[p], "failed", proc[p].turn)
     \/ /\ Refused(~Recordable(proc[p].turn))
        /\ Over(p) /\ UNCHANGED <<disk, lock, minted>>

\* The process exits or dies, or a refused step of an opening makes it give up; the
\* operating system frees its lock.
Exit(p) ==
  /\ proc[p].pc # "off"
  /\ Becomes(p, Off)
  /\ UNCHANGED <<disk, minted, budget>>

Next == \E p \in Process :
  \/ Launch(p) \/ MakeFolder(p) \/ LockNew(p) \/ Create(p)
  \/ Recover(p) \/ SkipChat(p) \/ Interrupt(p) \/ Scanned(p)
  \/ Open(p) \/ Ready(p) \/ CloseBlocked(p)
  \/ (\E t \in Turn : Start(p, t))
  \/ Admit(p) \/ Finalize(p) \/ Terminalize(p)
  \/ Realize(p) \/ Conflicts(p) \/ StaysPending(p)
  \/ Exit(p)

Spec == Init /\ [][Next]_vars

--------------------------------------------------------------------------------
(* Properties.                                                             *)

\* A turn has at most one terminal record, after its user record, whatever died or
\* failed: not after a commit whose answer was lost, nor after the scan of a later
\* launch (turn-durability 7.7).
OneTerminalRecord ==
  \A i, j \in DOMAIN chat :
    /\ chat[i].kind \in Terminal => \E k \in 1..(i - 1) :
         chat[k] = [turn |-> chat[i].turn, kind |-> "user"]
    /\ chat[i].kind \in Terminal /\ chat[j].kind \in Terminal /\ chat[i].turn = chat[j].turn
         => i = j

\* What an earlier process intended is committed before its turn is judged: no turn
\* is recorded as interrupted over an agent record still to be written
\* (turn-durability 7.7: "Recover that transaction first, then rescan"), as long as
\* the lease is held by those who write.
IntendedIsNotInterrupted == unleased \/
  \A i \in DOMAIN chat, j \in DOMAIN journal :
    ~(chat[i].turn = journal[j].turn /\ chat[i].kind = "interrupted"
        /\ journal[j].kind = "agent")

\* In a project that is open, every turn of an earlier process is closed; only turns
\* of this process are open.  Excepted is a chat that the scan had to leave out
\* (skipped), and everything after somebody has written without the lease (unleased),
\* which WritersHoldLease shows to happen: then two processes run turns at once.
ReadyIsSettled == unleased \/
  \A p \in Process :
    proc[p].phase = "ready" /\ lock = p /\ ~proc[p].skipped => Orphans \subseteq proc[p].own

(* What the repository says of the lease and the code does not do.         *)

\* Storage-identity 9: "Every process that may mutate a project must hold
\* ProjectLease for its entire project lifetime."
WritersHoldLease == ~unleased
===============================================================================
