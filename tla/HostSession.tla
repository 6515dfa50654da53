----------------------------- MODULE HostSession -----------------------------
(***************************************************************************)
(* One incarnation: createHostSession on the supervisor's side, the        *)
(* child's session state machine on the other, and the two pipes between   *)
(* them.  The supervisor's side is a set of callbacks (the inbound pump,   *)
(* timers, calls) that run one at a time; the child handles one payload    *)
(* after the other.  Handshake and limits, the wording of errors and the   *)
(* bytes of frames are left out; heartbeats are the timer that may fire.   *)
(***************************************************************************)
EXTENDS Integers, Sequences, FiniteSets

CONSTANTS
  Pages, FirstPage,   \* page slugs; a page is named by its source hash
  NoPage,
  Ids,                \* bound: request ids the session hands out, 1..n
  Capacity,           \* REQUEST_TABLE_CAPACITY (64)
  Unresponsive,       \* UNRESPONSIVE_THRESHOLD (3)
  Hostile             \* TRUE: the child may also send garbage

ASSUME SessionAssumption ==
  /\ FirstPage \in Pages /\ NoPage \notin Pages
  /\ Ids \subseteq Nat \ {0} /\ {Capacity, Unresponsive} \subseteq Nat \ {0}

VARIABLES
  phase,      \* the session's phase (start, ready, failed, stopping, stopped)
  start,      \* start(): none, running, failing (tearing down), ok, error
  stop,       \* stop(): none, acked or forced teardown, waiting, done
  report,     \* onFatal: none, due (tearing down), made
  cause,      \* why the session failed: a protocol violation or other
  pumping,    \* the inbound pump runs
  table,      \* request table: id -> kind, for the open requests
  mounting,   \* pendingMount: [id, page], or NoMount
  mounted,    \* the page the session answers for
  known,      \* source hashes a frame may carry
  lastSeq,    \* the broker's last accepted sequence number
  frameTimer, \* the first-frame deadline is armed
  late,       \* request timeouts within the window
  calls,      \* id -> none, open, settled; the shutdown: open, ok, error
  toChild, toHost,  \* the pipes
  child       \* [life, page, seq]

sessionVars == <<phase, start, stop, report, cause, pumping>>
mountVars == <<mounting, mounted, known, lastSeq, frameTimer>>
callVars == <<table, calls, late>>
pipeVars == <<toChild, toHost, child>>
vars == <<sessionVars, mountVars, callVars, pipeVars>>

NoId == -1
ShutdownId == 0
RequestIds == Ids \cup {ShutdownId}
NoMount == [id |-> NoId, page |-> NoPage]

TypeOK ==
  /\ phase \in {"created", "starting", "ready", "failed", "stopping", "stopped"}
  /\ start \in {"none", "running", "failing", "ok", "error"}
  /\ stop \in {"none", "waiting", "acked", "forced", "done"}
  /\ report \in {"none", "due", "made"}
  /\ cause \in {"none", "protocol", "other"}
  /\ pumping \in BOOLEAN /\ frameTimer \in BOOLEAN
  /\ table \in [RequestIds -> {"none", "mount", "resize", "query", "shutdown"}]
  /\ mounting \in [id: Ids \cup {NoId}, page: Pages \cup {NoPage}]
  /\ mounted \in Pages /\ known \in SUBSET Pages
  /\ late \in 0..Unresponsive
  /\ calls \in [RequestIds -> {"none", "open", "settled", "ok", "error"}]
  /\ child.life \in {"none", "running", "dying", "exited"}

Init ==
  /\ phase = "created" /\ start = "none" /\ stop = "none"
  /\ report = "none" /\ cause = "none" /\ pumping = FALSE
  /\ table = [i \in RequestIds |-> "none"] /\ calls = table /\ late = 0
  /\ mounting = NoMount /\ mounted = FirstPage /\ known = {FirstPage}
  /\ lastSeq = 0 /\ frameTimer = FALSE
  /\ toChild = <<>> /\ toHost = <<>>
  /\ child = [life |-> "none", page |-> NoPage, seq |-> 0]

-----------------------------------------------------------------------------
(* Helpers.                                                                *)

Message(kind, id, page, seq) == [kind |-> kind, id |-> id, page |-> page, seq |-> seq]

Open == {i \in RequestIds : table[i] # "none"}

Exited == child.life = "exited"

(* A teardown has closed the broker and stopped every timer.               *)
TornDown == phase = "failed" \/ stop \in {"acked", "forced", "done"}

Killed == [child EXCEPT !.life = IF @ = "running" THEN "dying" ELSE @]

(* Only the shutdown's outcome is acted upon.                              *)
Outcome(id, outcome) == IF id = ShutdownId THEN outcome ELSE "settled"

\* Mutant of ClearTable: the entries are dropped and nobody is told.
ClearTableForgets ==
  /\ table' = [i \in RequestIds |-> "none"] /\ mounting' = NoMount
  /\ UNCHANGED calls

\* Mutant of ClearTable: the mount in flight is kept.
ClearTableKeepsMount ==
  /\ table' = [i \in RequestIds |-> "none"]
  /\ calls' = [i \in RequestIds |-> IF i \in Open THEN Outcome(i, "error") ELSE calls[i]]
  /\ UNCHANGED mounting

(* requestTable.clear: every open request settles with the error, which    *)
(* also ends a mount in flight.                                            *)
ClearTable ==
  /\ table' = [i \in RequestIds |-> "none"]
  /\ calls' = [i \in RequestIds |-> IF i \in Open THEN Outcome(i, "error") ELSE calls[i]]
  /\ mounting' = NoMount

\* Mutant of onPumpFatal: a session being stopped fails as well.
onPumpFatalAnyPhase(why) ==
  /\ ClearTable
  /\ IF phase \in {"ready", "stopping"}
     THEN /\ phase' = "failed" /\ report' = "due" /\ cause' = why
          /\ frameTimer' = FALSE /\ child' = Killed
     ELSE UNCHANGED <<phase, report, cause, frameTimer, child>>
  /\ UNCHANGED <<start, stop, mounted, known, lastSeq>>

(* onPumpFatal, read by the pump or raised by a timer: what is open        *)
(* settles, and a ready session fails and begins its teardown (timers      *)
(* cancelled, child killed); onFatal follows the teardown.                 *)
onPumpFatal(why) ==
  /\ ClearTable
  /\ IF phase = "ready"
     THEN /\ phase' = "failed" /\ report' = "due" /\ cause' = why
          /\ frameTimer' = FALSE /\ child' = Killed
     ELSE UNCHANGED <<phase, report, cause, frameTimer, child>>
  /\ UNCHANGED <<start, stop, mounted, known, lastSeq>>

(* A request leaves the table with an outcome.                             *)
Settle(id, outcome) ==
  /\ table' = [table EXCEPT ![id] = "none"]
  /\ calls' = [calls EXCEPT ![id] = Outcome(id, outcome)]

-----------------------------------------------------------------------------
(* start().                                                                *)

(* spawn, the hello and, once it is answered, the mount of the first page. *)
Start ==
  /\ phase = "created" /\ stop = "none"
  /\ phase' = "starting" /\ start' = "running"
  /\ child' = [child EXCEPT !.life = "running"]
  /\ toChild' = <<Message("hello", NoId, NoPage, 0)>>
  /\ UNCHANGED <<stop, report, cause, pumping, mountVars, callVars, toHost>>

(* failWith: the child is killed, and start() resolves once it is reaped.  *)
StartGivesUp ==
  /\ start' = "failing" /\ child' = Killed
  /\ UNCHANGED <<phase, pumping>>

(* awaitReady: start() reads what the child sends until it has the ready   *)
(* and a frame, which a child sends in this order; the pump then goes on.  *)
(* A stop() in the meantime does not keep a frame already sent from being  *)
(* read.                                                                   *)
ReadStart ==
  LET m == Head(toHost)
  IN /\ start = "running" /\ toHost # <<>>
     /\ toHost' = Tail(toHost)
     /\ \/ /\ m.kind = "hello"
           /\ toChild' = Append(toChild, Message("mount", NoId, FirstPage, 0))
           /\ UNCHANGED <<start, phase, pumping, child, lastSeq>>
        \/ /\ m.kind = "ready"
           /\ UNCHANGED <<start, phase, pumping, child, toChild, lastSeq>>
        \/ /\ m.kind = "frame" /\ m.page \in known
           /\ phase' = "ready" /\ start' = "ok" /\ pumping' = TRUE /\ lastSeq' = m.seq
           /\ UNCHANGED <<child, toChild>>
        \/ /\ m.kind \in {"error", "garbage"}
           /\ StartGivesUp /\ UNCHANGED <<toChild, lastSeq>>
     /\ UNCHANGED <<stop, report, cause, mounting, mounted, known, frameTimer, callVars>>

(* The handshake or mount deadline, or the end of the child's output.      *)
StartExpires ==
  /\ start = "running" /\ StartGivesUp
  /\ UNCHANGED <<stop, report, cause, mountVars, callVars, toChild, toHost>>

StartFails ==
  /\ start = "failing" /\ Exited
  /\ start' = "error" /\ phase' = "failed"
  /\ UNCHANGED <<stop, report, cause, pumping, mountVars, callVars, pipeVars>>

-----------------------------------------------------------------------------
(* Requests.                                                               *)

(* sendRequestWithId from a ready session: a full table refuses, a write   *)
(* to a dead child may be superseded, and otherwise the request is open    *)
(* and on its way.  The supervisor forgets a session it stops.             *)
Send(id, kind, page) ==
  /\ phase = "ready" /\ stop = "none" /\ calls[id] = "none"
  /\ \A i \in Ids : i < id => calls[i] # "none"       \* nextRequestId
  /\ \/ /\ Cardinality(Open) >= Capacity
        /\ calls' = [calls EXCEPT ![id] = "settled"]
        /\ UNCHANGED <<table, toChild>>
     \/ /\ Cardinality(Open) < Capacity
        /\ \/ /\ child.life # "running"
              /\ calls' = [calls EXCEPT ![id] = "settled"]
              /\ UNCHANGED <<table, toChild>>
           \/ /\ calls' = [calls EXCEPT ![id] = "open"]
              /\ table' = [table EXCEPT ![id] = kind]
              /\ toChild' = IF Exited THEN toChild
                            ELSE Append(toChild, Message(kind, id, page, 0))
  /\ UNCHANGED <<sessionVars, mounted, known, lastSeq, frameTimer, late, toHost, child>>

Request(id, kind) == Send(id, kind, NoPage) /\ UNCHANGED mounting

(* mount(): one at a time; the page is committed when its ready is read.   *)
Mount(id, p) ==
  /\ mounting = NoMount
  /\ Send(id, "mount", p)
  /\ mounting' = IF calls'[id] = "open" THEN [id |-> id, page |-> p] ELSE NoMount

-----------------------------------------------------------------------------
(* Timers.                                                                 *)

(* A request's timer: the third within the window makes the session        *)
(* unresponsive; that of a mount is fatal in any case.                     *)
RequestTimesOut(id) ==
  LET count == IF late = Unresponsive THEN late ELSE late + 1
  IN /\ id \in Open \ {ShutdownId}
     /\ late' = count
     /\ \/ /\ count = Unresponsive \/ table[id] = "mount"
           /\ onPumpFatal("other")
        \/ /\ count < Unresponsive /\ table[id] # "mount"
           /\ Settle(id, "error")
           /\ UNCHANGED <<phase, start, stop, report, cause, mountVars, child>>
     /\ UNCHANGED <<pumping, toChild, toHost>>

(* A timeout leaves the window (UNRESPONSIVE_WINDOW_MS).                   *)
WindowPasses ==
  /\ late \in 1..(Unresponsive - 1) /\ late' = late - 1
  /\ UNCHANGED <<sessionVars, mountVars, table, calls, pipeVars>>

(* No heartbeat in time, or no frame of the page just mounted.             *)
DeadlinePasses ==
  /\ start = "ok" /\ ~TornDown
  /\ onPumpFatal("other")
  /\ UNCHANGED <<pumping, late, toChild, toHost>>

-----------------------------------------------------------------------------
(* runPump: one message of the child's output.                             *)

PumpFails(why) ==
  /\ onPumpFatal(why) /\ pumping' = FALSE
  /\ UNCHANGED <<late, toChild>>

(* A frame of a page never mounted here fails the session, and so does one *)
(* of another page than the mounted one or out of sequence (the broker     *)
(* calls it stale, as it does every frame once it is closed).              *)
PumpFrame ==
  LET m == Head(toHost)
  IN /\ pumping /\ toHost # <<>> /\ m.kind = "frame"
     /\ toHost' = Tail(toHost)
     /\ IF m.page \in known /\ m.page = mounted /\ m.seq > lastSeq /\ ~TornDown
        THEN /\ lastSeq' = m.seq /\ frameTimer' = FALSE
             /\ UNCHANGED <<sessionVars, mounting, mounted, known, callVars, toChild, child>>
        ELSE PumpFails("protocol")

\* Mutant of PumpAnswer: pendingMount is not reset by its answer.
PumpAnswerKeepsMount ==
  LET m == Head(toHost)
      mountDone == m.kind = "ready" /\ m.id = mounting.id
  IN /\ pumping /\ toHost # <<>> /\ m.kind \in {"ready", "response"}
     /\ toHost' = Tail(toHost)
     /\ IF mountDone
        THEN /\ mounted' = mounting.page /\ known' = known \cup {mounting.page}
             /\ frameTimer' = TRUE
        ELSE UNCHANGED <<mounted, known, frameTimer>>
     /\ IF m.id \in Open THEN Settle(m.id, "ok") ELSE UNCHANGED <<table, calls>>
     /\ UNCHANGED <<mounting, sessionVars, lastSeq, late, toChild, child>>

(* The answer to a request.  The ready of the mount in flight moves the    *)
(* session to the new page before its first frame can be read; an answer   *)
(* nobody waits for any more is discarded.                                 *)
PumpAnswer ==
  LET m == Head(toHost)
      mountDone == m.kind = "ready" /\ m.id = mounting.id
  IN /\ pumping /\ toHost # <<>> /\ m.kind \in {"ready", "response"}
     /\ toHost' = Tail(toHost)
     /\ IF mountDone
        THEN /\ mounted' = mounting.page /\ known' = known \cup {mounting.page}
             /\ frameTimer' = TRUE /\ mounting' = NoMount
        ELSE UNCHANGED <<mounted, known, frameTimer, mounting>>
     /\ IF m.id \in Open THEN Settle(m.id, "ok") ELSE UNCHANGED <<table, calls>>
     /\ UNCHANGED <<sessionVars, lastSeq, late, toChild, child>>

(* An unsolicited error, or bytes that are no message.                     *)
PumpError ==
  LET m == Head(toHost)
  IN /\ pumping /\ toHost # <<>> /\ m.kind \in {"error", "garbage"}
     /\ toHost' = Tail(toHost)
     /\ PumpFails("other")

(* The stream ends, or a teardown drops the rest of it.                    *)
PumpEnds ==
  /\ pumping /\ Exited /\ (toHost = <<>> \/ TornDown)
  /\ pumping' = FALSE
  /\ IF phase = "ready" THEN onPumpFatal("other")
     ELSE UNCHANGED <<phase, start, stop, report, cause, mountVars, table, calls, child>>
  /\ UNCHANGED <<late, toChild, toHost>>

(* finalizeFatalTeardown: the child is reaped and onFatal is called.       *)
TeardownEnds ==
  /\ report = "due" /\ Exited
  /\ report' = "made"
  /\ UNCHANGED <<phase, start, stop, cause, pumping, mountVars, callVars, pipeVars>>

-----------------------------------------------------------------------------
(* stop().                                                                 *)

(* teardown(): nothing of the session is pending after it.                 *)
Teardown == ClearTable /\ frameTimer' = FALSE

(* From ready the child is asked to shut down, ahead of what is queued for *)
(* it, unless the table is full; from any other phase it is killed.        *)
Stop ==
  /\ stop = "none" /\ start # "none"
  /\ \/ /\ phase = "ready" /\ Cardinality(Open) < Capacity
        /\ phase' = "stopping" /\ stop' = "waiting"
        /\ table' = [table EXCEPT ![ShutdownId] = "shutdown"]
        /\ calls' = [calls EXCEPT ![ShutdownId] = "open"]
        /\ \E sent \in 0..Len(toChild) :
             toChild' = SubSeq(toChild, 1, sent)
                        \o <<Message("shutdown", ShutdownId, NoPage, 0)>>
                        \o SubSeq(toChild, sent + 1, Len(toChild))
        /\ UNCHANGED <<mounting, frameTimer, child>>
     \/ /\ phase # "ready" \/ Cardinality(Open) >= Capacity
        /\ phase' = IF phase = "ready" THEN "stopping" ELSE phase
        /\ stop' = "forced" /\ Teardown /\ child' = Killed
        /\ UNCHANGED toChild
  /\ UNCHANGED <<start, report, cause, pumping, mounted, known, lastSeq, late, toHost>>

(* The acknowledgement: the child exits by itself, or is killed in 1 s.    *)
StopAcked ==
  /\ stop = "waiting" /\ calls[ShutdownId] = "ok"
  /\ stop' = "acked" /\ Teardown
  /\ child' \in {child, Killed}
  /\ UNCHANGED <<phase, start, report, cause, pumping, mounted, known, lastSeq, late,
                 toChild, toHost>>

(* The request was cleared, or SHUTDOWN_ACK_TIMEOUT_MS passed.             *)
StopForced ==
  /\ stop = "waiting" /\ calls[ShutdownId] # "ok"
  /\ stop' = "forced" /\ Teardown /\ child' = Killed
  /\ UNCHANGED <<phase, start, report, cause, pumping, mounted, known, lastSeq, late,
                 toChild, toHost>>

(* The child is reaped and the pump has ended; a pump started by a late    *)
(* ready may not be the one stop() waits for.                              *)
StopEnds ==
  /\ stop \in {"acked", "forced"} /\ Exited
  /\ pumping => phase = "ready"
  /\ stop' = "done" /\ phase' = "stopped"
  /\ UNCHANGED <<start, report, cause, pumping, mountVars, callVars, pipeVars>>

-----------------------------------------------------------------------------
(* The child: one payload after the other (entry.ts).                      *)

Handling(m) ==
  /\ child.life = "running" /\ toChild # <<>> /\ m = Head(toChild)
  /\ toChild' = Tail(toChild)
  /\ UNCHANGED <<sessionVars, mountVars, callVars>>

handleHello ==
  LET m == Head(toChild)
  IN /\ Handling(m) /\ m.kind = "hello"
     /\ toHost' = Append(toHost, m)
     /\ UNCHANGED child

\* Mutant of handleMount: the frame is sent before the ready.
handleMountFrameFirst ==
  LET m == Head(toChild)
      seq == child.seq + 1
  IN /\ Handling(m) /\ m.kind = "mount"
     /\ \/ /\ child' = [child EXCEPT !.page = m.page, !.seq = seq]
           /\ toHost' = toHost \o <<Message("frame", NoId, m.page, seq),
                                    Message("ready", m.id, m.page, 0)>>
        \/ /\ child' = [child EXCEPT !.life = "dying"]
           /\ toHost' = Append(toHost, Message("error", NoId, NoPage, 0))

(* The new page is sealed in the next frame identity and announced before  *)
(* its frame; a page that fails to load or render ends the child.          *)
handleMount ==
  LET m == Head(toChild)
      seq == child.seq + 1
  IN /\ Handling(m) /\ m.kind = "mount"
     /\ \/ /\ child' = [child EXCEPT !.page = m.page, !.seq = seq]
           /\ toHost' = toHost \o <<Message("ready", m.id, m.page, 0),
                                    Message("frame", NoId, m.page, seq)>>
        \/ /\ child' = [child EXCEPT !.life = "dying"]
           /\ toHost' = Append(toHost, Message("error", NoId, NoPage, 0))

handleResize ==
  LET m == Head(toChild)
      seq == child.seq + 1
  IN /\ Handling(m) /\ m.kind = "resize"
     /\ child' = [child EXCEPT !.seq = seq]
     /\ toHost' = toHost \o <<Message("frame", NoId, child.page, seq),
                              Message("response", m.id, NoPage, 0)>>

handleQuery ==
  LET m == Head(toChild)
  IN /\ Handling(m) /\ m.kind = "query"
     /\ toHost' = Append(toHost, Message("response", m.id, NoPage, 0))
     /\ UNCHANGED child

handleShutdown ==
  LET m == Head(toChild)
  IN /\ Handling(m) /\ m.kind = "shutdown"
     /\ child' = [child EXCEPT !.life = "dying"]
     /\ toHost' = Append(toHost, Message("response", m.id, NoPage, 0))

(* The process dies; what it has written can still be read, what it has    *)
(* not read is lost.                                                       *)
ChildDies ==
  /\ child.life \in {"running", "dying"}
  /\ child' = [life |-> "exited", page |-> NoPage, seq |-> 0]
  /\ toChild' = <<>>
  /\ UNCHANGED <<sessionVars, mountVars, callVars, toHost>>

(* Page code writes to the child's output (bound: one such message at a    *)
(* time).                                                                  *)
ChildWritesGarbage ==
  /\ Hostile /\ child.life = "running"
  /\ \A i \in DOMAIN toHost : toHost[i].kind # "garbage"
  /\ toHost' = Append(toHost, Message("garbage", NoId, NoPage, 0))
  /\ UNCHANGED <<sessionVars, mountVars, callVars, toChild, child>>

-----------------------------------------------------------------------------
Over == start \in {"ok", "error"} /\ stop = "done" /\ ~pumping /\ report # "due"

Finished == Over /\ UNCHANGED vars

Child ==
  \/ handleHello \/ handleMount \/ handleResize \/ handleQuery \/ handleShutdown
  \/ ChildWritesGarbage

Next ==
  \/ Start \/ ReadStart \/ StartExpires \/ StartFails
  \/ \E id \in Ids :
       \/ \E p \in Pages : Mount(id, p)
       \/ \E kind \in {"resize", "query"} : Request(id, kind)
       \/ RequestTimesOut(id)
  \/ WindowPasses \/ DeadlinePasses
  \/ PumpFrame \/ PumpAnswer \/ PumpError \/ PumpEnds \/ TeardownEnds
  \/ Stop \/ StopAcked \/ StopForced \/ StopEnds
  \/ Child \/ ChildDies \/ Finished

(* Every wait of the session has a deadline, a killed child is reaped, and *)
(* a promise that can resolve does.  Nothing is assumed of the child.      *)
Fairness ==
  /\ WF_vars(StartExpires) /\ WF_vars(StartFails)
  /\ \A id \in Ids : WF_vars(RequestTimesOut(id))
  /\ WF_vars(PumpEnds \/ TeardownEnds)
  /\ WF_vars(StopAcked \/ StopForced \/ StopEnds)
  /\ WF_vars(child.life = "dying" /\ ChildDies)

Spec == Init /\ [][Next]_vars /\ Fairness

-----------------------------------------------------------------------------
(* Properties.                                                             *)

(* A child that follows the protocol is never failed for violating it,     *)
(* whatever page switches, late answers and resizes overlap (the ordering  *)
(* argument above broker.publish and pendingMount in session.ts).          *)
NoFalseViolation == cause # "protocol"

(* When all is said and no switch waits for its frame, both sides have the *)
(* same page mounted and the session expects nothing more.                 *)
SidesAgree ==
  (phase = "ready" /\ stop = "none" /\ child.life = "running" /\ toChild = <<>> /\ toHost = <<>>)
    => mounted = child.page /\ mounting = NoMount /\ ~frameTimer

(* No request, mount or deadline outlives the session: late output of a    *)
(* dying child re-arms nothing (teardown's "no dangling" timers).          *)
NothingOutlives == TornDown => Open = {} /\ mounting = NoMount /\ ~frameTimer

(* start(), every request and stop() return, and every failure after ready *)
(* is reported, though the child may hang, die or talk nonsense.           *)
EverythingReturns ==
  /\ start = "running" ~> start \in {"ok", "error"}
  /\ \A id \in RequestIds : calls[id] = "open" ~> calls[id] # "open"
  /\ stop = "waiting" ~> stop = "done"
  /\ report = "due" ~> report = "made"

(* The phases the supervisor sees, and those after start() has succeeded.  *)
startedPhase ==
  CASE report = "made" -> "gone"
    [] report = "due" -> "failed"
    [] report = "none" /\ phase = "ready" -> IF stop = "none" THEN "ready" ELSE "aborted"
    [] report = "none" /\ phase = "stopped" -> IF pumping THEN "stopping" ELSE "gone"
    [] OTHER -> phase

contractPhase ==
  CASE start = "none" -> "created"
    [] start = "error" -> "gone"
    [] start \in {"running", "failing"} -> IF stop = "none" THEN "starting" ELSE "aborted"
    [] start = "ok" -> startedPhase

contractMount == IF contractPhase = "ready" THEN mounting.page ELSE NoPage

Contract == INSTANCE HostContract WITH phase <- contractPhase, mount <- contractMount

(* The session is one of the incarnations HostSupervisor composes: one     *)
(* answer per start and mount, one report per failure, none after a stop.  *)
ImplementsContract == Contract!Spec

=============================================================================
