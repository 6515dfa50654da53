----------------------------- MODULE CommandBus -----------------------------
(***************************************************************************)
(* The Kernel's mailbox: the dedupe ledger a command passes, the dispatch  *)
(* that runs it once, the revision counter, the event bus and the mirrors  *)
(* of the subscribers, whose revision the next command of a client quotes. *)
(* JavaScript runs one step at a time: a drain of the bus excludes every   *)
(* step but what a subscriber does while it is being notified.  Payloads   *)
(* are left out; that a schema refuses one, which the code takes for a     *)
(* producer's breach of contract, is a choice.                             *)
(***************************************************************************)
EXTENDS Integers, Sequences, FiniteSets

CONSTANTS
  Clients,       \* subscribers that send commands
  Commands,      \* command ids
  Capacity,      \* DEDUPE_CAPACITY (65,536)
  Horizon,       \* DEDUPE_HORIZON_MS (15 minutes)
  MaxTime,       \* bound: the wall clock, which is not set back
  MaxBatches,    \* bound: batches handed to the bus
  MaxNested      \* bound: publications from inside a notification

ASSUME BusAssumption ==
  /\ Capacity \in Nat \ {0} /\ {Horizon, MaxTime, MaxBatches, MaxNested} \subseteq Nat

VARIABLES
  now,        \* the wall clock
  envelope,   \* command id -> what was sent: [stamp, expected, cancel], or NotSent
  ledger,     \* ids the ledger holds an entry for
  queue,      \* executions scheduled by the ledger, in order
  runs,       \* command id -> times executed (history)
  full,       \* the command just submitted was refused for capacity
  operations, \* started operations whose asynchronous half is still to publish
  revision, eventSeq,  \* the Kernel's counters
  pending,    \* pendingBatches: [of, events] yet to be emitted
  drain,      \* the batch being emitted, or Idle
  published,  \* batches handed to the bus so far
  nested,     \* of these, from inside a notification
  gap,        \* the schema refused a batch, and none was emitted since (history)
  mirrors     \* client -> what it last received

ledgerVars == <<now, envelope, ledger, queue, runs, full>>
busVars == <<eventSeq, pending, drain, gap, mirrors>>
vars == <<ledgerVars, operations, revision, busVars, published, nested>>

NotSent == [stamp |-> -1, expected |-> 0, cancel |-> FALSE]
NoMirror == [on |-> FALSE, revision |-> 0, seq |-> 0, of |-> 0]

(* of and revision of the batch, events left in it, the subscribers still  *)
(* to be notified of the current event; tracked: its end may publish a     *)
(* capability change.                                                      *)
Idle == [on |-> FALSE, of |-> 0, revision |-> 0, left |-> 0, notify |-> {},
         tracked |-> FALSE]

Init ==
  /\ now = 0 /\ envelope = [i \in Commands |-> NotSent]
  /\ ledger = {} /\ queue = <<>> /\ runs = [i \in Commands |-> 0] /\ full = FALSE
  /\ operations = 0 /\ revision = 0 /\ eventSeq = 0
  /\ pending = <<>> /\ drain = Idle /\ gap = FALSE /\ published = 0 /\ nested = 0
  /\ mirrors = [c \in Clients |-> NoMirror]

-----------------------------------------------------------------------------
(* The dedupe ledger.                                                      *)

floor == now - Horizon

Fresh == {i \in ledger : envelope[i].stamp >= floor}

\* Mutant of Swept: an entry is dropped one tick early.
SweptTooEarly ==
  IF Cardinality(ledger) >= Capacity THEN {i \in Fresh : envelope[i].stamp > floor} ELSE ledger

\* Mutant of Swept: no entry is ever dropped.
NeverSwept == ledger

(* Only a full ledger is swept, and only of what has passed the horizon.   *)
Swept == IF Cardinality(ledger) >= Capacity THEN Fresh ELSE ledger

(* run(): a known id shares its stored result; an id from before the floor *)
(* is expired; a full ledger refuses; otherwise the entry is recorded, and *)
(* execute is scheduled behind it.                                         *)
Submit(i, stamp) ==
  \/ /\ i \in ledger
     /\ full' = FALSE /\ UNCHANGED <<ledger, queue>>
  \/ /\ i \notin ledger /\ stamp < floor
     /\ full' = FALSE /\ UNCHANGED <<ledger, queue>>
  \/ /\ i \notin ledger /\ stamp >= floor
     /\ IF Cardinality(Swept) >= Capacity
        THEN full' = TRUE /\ ledger' = Swept /\ UNCHANGED queue
        ELSE full' = FALSE /\ ledger' = Swept \cup {i} /\ queue' = Append(queue, i)

(* A client's dispatcher mints an id, which carries the time, and quotes   *)
(* the revision of its mirror.                                             *)
Send(c, i) ==
  /\ mirrors[c].on /\ envelope[i] = NotSent
  /\ \E cancel \in BOOLEAN :
       envelope' = [envelope EXCEPT
         ![i] = [stamp |-> now, expected |-> mirrors[c].revision, cancel |-> cancel]]
  /\ Submit(i, now)
  /\ UNCHANGED <<now, runs, operations, revision, busVars, published, nested>>

(* The same envelope once more.                                            *)
Resend(i) ==
  /\ envelope[i] # NotSent
  /\ Submit(i, envelope[i].stamp)
  /\ UNCHANGED <<now, envelope, runs, operations, revision, busVars, published, nested>>

Tick ==
  /\ now < MaxTime /\ now' = now + 1 /\ full' = FALSE
  /\ UNCHANGED <<envelope, ledger, queue, runs, operations, revision, busVars,
                 published, nested>>

-----------------------------------------------------------------------------
(* Publication.                                                            *)

Subscribers == {c \in Clients : mirrors[c].on}

(* The first event of a batch: its revision is read now, once for all.     *)
FirstEvent(batch, rev, tracked) ==
  /\ drain' = [on |-> TRUE, of |-> batch.of, revision |-> rev, left |-> batch.events - 1,
               notify |-> Subscribers, tracked |-> tracked]
  /\ eventSeq' = eventSeq + 1
  /\ gap' = FALSE

\* Mutant of publishTransition: a nested batch goes before the waiting ones.
publishNestedFirst(events, rev, tracked) ==
  LET batch == [of |-> published + 1, events |-> events]
  IN /\ published < MaxBatches /\ published' = published + 1
     /\ IF drain.on
        THEN /\ pending' = <<batch>> \o pending /\ nested < MaxNested
             /\ nested' = nested + 1 /\ UNCHANGED <<drain, eventSeq, gap>>
        ELSE /\ FirstEvent(batch, rev, tracked) /\ UNCHANGED <<pending, nested>>
     /\ UNCHANGED mirrors

(* publishTransition: emitted at once, or queued behind what is being      *)
(* drained.                                                                *)
publishTransition(events, rev, tracked) ==
  LET batch == [of |-> published + 1, events |-> events]
  IN /\ published < MaxBatches /\ published' = published + 1
     /\ IF drain.on
        THEN /\ pending' = Append(pending, batch) /\ nested < MaxNested
             /\ nested' = nested + 1 /\ UNCHANGED <<drain, eventSeq, gap>>
        ELSE /\ FirstEvent(batch, rev, tracked) /\ UNCHANGED <<pending, nested>>
     /\ UNCHANGED mirrors

(* The bus refuses the whole batch when a payload does not fit its schema: *)
(* nothing is published or queued, at a revision that has already moved.   *)
refuseTransition ==
  /\ published < MaxBatches /\ published' = published + 1
  /\ revision' = revision + 1
  /\ gap' = TRUE
  /\ UNCHANGED <<eventSeq, pending, drain, mirrors, nested>>

(* notify: a subscriber sees the event; what it throws is only logged.     *)
Deliver(c) ==
  /\ c \in drain.notify
  /\ drain' = [drain EXCEPT !.notify = @ \ {c}]
  /\ mirrors' = IF ~mirrors[c].on THEN mirrors
                ELSE [mirrors EXCEPT ![c] = [on |-> TRUE, revision |-> drain.revision,
                                             seq |-> eventSeq, of |-> drain.of]]
  /\ UNCHANGED <<ledgerVars, operations, revision, eventSeq, pending, gap, published, nested>>

(* drainBatches goes on: the next event of the batch, the next batch, or,  *)
(* when the bus is drained, the capability change that may follow          *)
(* (publishAndTrackCapabilities), at the revision reached.                 *)
DrainOn ==
  /\ drain.on /\ drain.notify = {}
  /\ \/ /\ drain.left > 0
        /\ drain' = [drain EXCEPT !.left = @ - 1, !.notify = Subscribers]
        /\ eventSeq' = eventSeq + 1
        /\ UNCHANGED <<pending, gap, published, mirrors>>
     \/ /\ drain.left = 0 /\ pending # <<>>
        /\ FirstEvent(Head(pending), revision, drain.tracked)
        /\ pending' = Tail(pending) /\ UNCHANGED <<published, mirrors>>
     \/ /\ drain.left = 0 /\ pending = <<>>
        /\ drain' = Idle /\ UNCHANGED <<eventSeq, pending, gap, published, mirrors>>
     \/ /\ drain.left = 0 /\ pending = <<>> /\ drain.tracked /\ published < MaxBatches
        /\ published' = published + 1
        /\ FirstEvent([of |-> published + 1, events |-> 1], revision, FALSE)
        /\ UNCHANGED <<pending, mirrors>>
  /\ UNCHANGED <<ledgerVars, operations, revision, nested>>

(* subscribe: the snapshot, with the counters' current values; during a    *)
(* drain the newcomer is not told of the current event.  A client that     *)
(* left is not back before its old handler was passed.                     *)
Subscribe(c) ==
  /\ ~mirrors[c].on /\ c \notin drain.notify
  /\ mirrors' = [mirrors EXCEPT ![c] = [on |-> TRUE, revision |-> revision,
                                        seq |-> eventSeq, of |-> drain.of]]
  /\ UNCHANGED <<ledgerVars, operations, revision, eventSeq, pending, drain, gap, published,
                 nested>>

Unsubscribe(c) ==
  /\ mirrors[c].on
  /\ mirrors' = [mirrors EXCEPT ![c] = NoMirror]
  /\ UNCHANGED <<ledgerVars, operations, revision, eventSeq, pending, drain, gap, published,
                 nested>>

-----------------------------------------------------------------------------
(* Dispatch.                                                               *)

\* Mutant of applyTransition: the revision advances by the disposition,
\* whether or not there is an event to show for it.
advanceByDisposition ==
  /\ revision' = revision + 1
  /\ \/ \E events \in 1..2 :
          publishTransition(events, revision + 1, TRUE) /\ UNCHANGED operations
     \/ operations' = operations + 1 /\ UNCHANGED <<busVars, published, nested>>

(* applyTransition: only what has events to show advances the revision,    *)
(* before it publishes them, and it stays advanced when the bus refuses    *)
(* them; a started operation may publish later.                            *)
applyTransition ==
  \/ \E events \in 1..2 :
       /\ revision' = revision + 1
       /\ publishTransition(events, revision + 1, TRUE)
       /\ UNCHANGED operations
  \/ refuseTransition /\ UNCHANGED operations
  \/ /\ operations' \in {operations, operations + 1}
     /\ UNCHANGED <<revision, busVars, published, nested>>

(* runFirstSeen: a revision other than the current one is stale, except    *)
(* for turn.cancel, whose own guard decides; a capability guard refuses or *)
(* the handler throws, and nothing has changed; or the transition is       *)
(* applied.                                                                *)
Execute ==
  /\ queue # <<>> /\ ~drain.on
  /\ queue' = Tail(queue)
  /\ LET i == Head(queue)
     IN /\ runs' = [runs EXCEPT ![i] = @ + 1]
        /\ \/ UNCHANGED <<operations, revision, busVars, published, nested>>
           \/ /\ envelope[i].cancel \/ envelope[i].expected = revision
              /\ applyTransition
  /\ UNCHANGED <<now, envelope, ledger, full>>

(* publishOperationEvents: the asynchronous half of a command, or progress *)
(* on the way; an empty batch does not touch the counter.  From inside a   *)
(* notification it is queued.                                              *)
OperationPublishes ==
  /\ operations > 0
  /\ operations' \in {operations, operations - 1}
  /\ \/ \E events \in 1..2 :
          revision' = revision + 1 /\ publishTransition(events, revision + 1, TRUE)
     \/ refuseTransition
     \/ operations' # operations /\ UNCHANGED <<revision, busVars, published, nested>>
  /\ UNCHANGED ledgerVars

-----------------------------------------------------------------------------
Next ==
  \/ \E i \in Commands : Resend(i) \/ \E c \in Clients : Send(c, i)
  \/ \E c \in Clients : Deliver(c) \/ Subscribe(c) \/ Unsubscribe(c)
  \/ DrainOn \/ Execute \/ OperationPublishes \/ Tick

Spec == Init /\ [][Next]_vars

-----------------------------------------------------------------------------
(* Properties.                                                             *)

(* However often an envelope is sent, and whatever the ledger drops to     *)
(* make room, its command is executed at most once (dedupe-ledger.ts).     *)
AtMostOnce == \A i \in Commands : runs[i] <= 1

(* A command is refused for capacity only while the ledger is full of      *)
(* commands a duplicate could still arrive for: it never stays full.       *)
RefusedOnlyWhenFull == full => Cardinality(Fresh) >= Capacity

(* Once the bus is drained every subscriber has the Kernel's sequence      *)
(* number and its revision, so that its next command is not refused as     *)
(* stale: no revision is one that nobody could observe (applyTransition's  *)
(* comment on the defect of 2026-07-28).  Excepted is the time between a   *)
(* batch that the schemas refused and the next one emitted: its revision   *)
(* is one that nobody was told of.                                         *)
MirrorsCurrent ==
  ~drain.on =>
    \A c \in Subscribers : /\ mirrors[c].seq = eventSeq
                           /\ ~gap => mirrors[c].revision = revision

(* A subscriber receives each event after its snapshot once and in order,  *)
(* and the events of one transition contiguously, in the order of          *)
(* publication, though subscribers publish, subscribe and leave while they *)
(* are being notified.                                                     *)
StreamInOrder ==
  [][\A c \in drain.notify \ drain'.notify :
       mirrors[c].on => /\ mirrors'[c].seq = mirrors[c].seq + 1
                        /\ mirrors'[c].of >= mirrors[c].of]_vars

=============================================================================
