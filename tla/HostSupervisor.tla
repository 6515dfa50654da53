--------------------------- MODULE HostSupervisor ---------------------------
(***************************************************************************)
(* The host supervisor: at most one live child process per tree revision,  *)
(* restarted within a budget, behind a global cap with a start queue and a *)
(* pool of warm spares.                                                    *)
(*                                                                         *)
(* A record is one KeyState; a key whose session is closing can have two,  *)
(* the old one no longer in the map.  A host is one incarnation (one       *)
(* HostSession and its child), seen through what it reports: its start()   *)
(* outcome, the reply to a mount, and onFatal, which comes only after the  *)
(* teardown of the child.  Record and host numbers are reused once nothing *)
(* refers to them.  One action is one await-free section of the code.      *)
(***************************************************************************)
EXTENDS Integers, Sequences, SequencesExt, FiniteSetsExt

CONSTANTS
  Keys,             \* tree revisions
  Pages,            \* page slugs
  Sizes,            \* terminal sizes a preview is asked for with
  Resizes,          \* sizes a resize asks for
  Records,          \* bound: numbers for KeyStates
  Hosts,            \* bound: numbers for incarnations not yet reaped
  MaxGlobalHosts,   \* maxGlobalHosts (10 in the code)
  QueueCapacity,    \* startQueueCapacity (64)
  SpareCapacity,    \* spareCapacity
  MaxRestarts,      \* MAX_AUTOMATIC_RESTARTS (3)
  PromptReap        \* TRUE: a failed child is reaped before its successor starts

ASSUME BoundsAssumption ==
  /\ IsFiniteSet(Keys) /\ IsFiniteSet(Records) /\ IsFiniteSet(Hosts)
  /\ Records \subseteq Nat \ {0} /\ Hosts \subseteq Nat \ {0}
  /\ MaxGlobalHosts \in Nat \ {0} /\ QueueCapacity \in Nat
  /\ SpareCapacity \in Nat /\ MaxRestarts \in Nat /\ PromptReap \in BOOLEAN

NoPage == "none"
NoSize == "none"

ASSUME NamesAssumption ==
  NoPage \notin Pages /\ NoSize \notin Sizes \cup Resizes /\ "none" \notin Keys

VARIABLES
  rec,         \* the KeyStates
  keys,        \* key -> its record in the map, or 0
  startQueue,  \* records waiting for a slot
  hosts,       \* the incarnations
  budget,      \* restart policy: [failures in the window, circuit open]
  spares       \* idle spare processes

vars == <<rec, keys, startQueue, hosts, budget, spares>>

AnySize == Sizes \cup Resizes \cup {NoSize}
States == {"queued", "starting", "ready", "backoff", "circuit-open", "stopped"}
Phases == {"starting", "ready", "aborted", "failed", "stopping", "gone"}

(* A number not in use.                                                    *)
NoRecord ==
  [key |-> "none", page |-> NoPage, size |-> NoSize, state |-> "stopped",
   closed |-> TRUE, current |-> 0, failed |-> FALSE, mounted |-> NoPage,
   mounting |-> FALSE, pending |-> NoSize, timer |-> FALSE, awaited |-> 0,
   asked |-> NoSize]

NoHost ==
  [owner |-> 0, page |-> NoPage, size |-> NoSize, phase |-> "gone",
   mount |-> NoPage, refused |-> FALSE]

(* A KeyState; awaited is the incarnation its close() waits for, asked the *)
(* size last requested while it could only be buffered and not delivered,  *)
(* overtaken or lost to a restart since (history).                         *)
Record ==
  [key: Keys, page: Pages \cup {NoPage}, size: AnySize,
   state: States, closed: BOOLEAN,
   current: Hosts \cup {0}, failed: BOOLEAN, mounted: Pages \cup {NoPage},
   mounting: BOOLEAN, pending: AnySize, timer: BOOLEAN,
   awaited: Hosts \cup {0}, asked: AnySize]

(* An incarnation; mount is the page of an unanswered mount, refused says  *)
(* that some mount was refused (history).                                  *)
Host ==
  [owner: Records, page: Pages \cup {NoPage}, size: AnySize,
   phase: Phases, mount: Pages \cup {NoPage}, refused: BOOLEAN]

TypeOK ==
  /\ rec \in [Records -> Record \cup {NoRecord}]
  /\ keys \in [Keys -> Records \cup {0}]
  /\ startQueue \in Seq(Records) /\ Len(startQueue) <= QueueCapacity
  /\ hosts \in [Hosts -> Host \cup {NoHost}]
  /\ budget \in [Keys \X Pages -> [n: 0..MaxRestarts, open: BOOLEAN]]
  /\ spares \in 0..SpareCapacity

Fresh(k, p, s) ==
  [NoRecord EXCEPT !.key = k, !.page = p, !.size = s, !.state = "queued",
                   !.closed = FALSE]

Init ==
  /\ rec = [r \in Records |-> NoRecord]
  /\ keys = [k \in Keys |-> 0]
  /\ startQueue = <<>>
  /\ hosts = [h \in Hosts |-> NoHost]
  /\ budget = [c \in Keys \X Pages |-> [n |-> 0, open |-> FALSE]]
  /\ spares = 0

-----------------------------------------------------------------------------
(* Helpers.                                                                *)

Live == {"starting", "ready", "backoff"}

keyedLive(rs, ks) == Cardinality({k \in Keys : ks[k] # 0 /\ rs[ks[k]].state \in Live})

liveCount == keyedLive(rec, keys) + spares

restartKey(ks) == <<ks.key, ks.page>>

(* The key has a session preview() returns as it is.                       *)
Open(k) == keys[k] # 0 /\ ~rec[keys[k]].closed

Reaped(h) == hosts[h].phase = "gone"

AllReaped(r) == \A h \in Hosts : hosts[h].owner = r => Reaped(h)

(* A number can be used again once its children are reaped.                *)
FreeRecords == {r \in Records : rec[r] = NoRecord /\ AllReaped(r)}

(* Of an incarnation on its way out only its owner and phase matter.       *)
Dying(r, phase) == [NoHost EXCEPT !.owner = r, !.phase = phase]

(* HostSession.stop(): a ready child is shut down and its open mount is    *)
(* settled; one that is not ready yet is killed, and its start() will      *)
(* resolve with an error; a failed session just goes on tearing down.      *)
Stop(hs, h) ==
  IF h = 0 THEN hs
  ELSE [hs EXCEPT ![h] = Dying(@.owner, CASE @.phase = "ready" -> "stopping"
                                          [] @.phase = "starting" -> "aborted"
                                          [] OTHER -> @.phase)]

(* startIncarnation for every record of S, each in a number of its own; a  *)
(* spawn takes a spare when there is one.                                  *)
StartAll(rs, ks, q, hs, S) ==
  LET free == {h \in Hosts : Reaped(h) /\ \A r \in Records : rs[r].awaited # h}
      place == CHOOSE f \in [S -> free] : \A r, o \in S : f[r] = f[o] => r = o
      New(r) == [owner |-> r, page |-> rs[r].page, size |-> rs[r].size,
                 phase |-> "starting", mount |-> NoPage, refused |-> FALSE]
      Begun(r) == [rs[r] EXCEPT !.failed = FALSE, !.state = "starting",
                                !.current = place[r]]
  IN /\ Cardinality(S) <= Cardinality(free)
     /\ PromptReap => \A r \in S : AllReaped(r)
     /\ rec' = [r \in Records |-> IF r \in S THEN Begun(r) ELSE rs[r]]
     /\ hosts' = [h \in Hosts |->
          IF \E r \in S : place[r] = h THEN New(CHOOSE r \in S : place[r] = h) ELSE hs[h]]
     /\ spares' = Max({0, spares - Cardinality(S)})
     /\ keys' = ks
     /\ startQueue' = q

(* tryDrainQueue: queued records start while the cap leaves room.          *)
tryDrainQueue(rs, ks, q, hs) ==
  LET room == Max({0, MaxGlobalHosts - keyedLive(rs, ks)})
      n == Min({room, Len(q)})
  IN StartAll(rs, ks, SubSeq(q, n + 1, Len(q)), hs, ToSet(SubSeq(q, 1, n)))

(* reconcileMount: the page the live child serves is brought to the page   *)
(* asked for, one mount at a time.                                         *)
MountDue(ks) ==
  /\ ~ks.closed /\ ks.state = "ready" /\ ~ks.mounting
  /\ ks.mounted # ks.page /\ ks.current # 0

reconcileMount(ks, hs, r) ==
  IF MountDue(ks)
  THEN /\ rec' = [rec EXCEPT ![r] = [ks EXCEPT !.mounting = TRUE]]
       /\ hosts' = [hs EXCEPT ![ks.current].mount = ks.page]
  ELSE rec' = [rec EXCEPT ![r] = ks] /\ hosts' = hs

-----------------------------------------------------------------------------
(* recordFailure: the failure counts unless the circuit is open already;   *)
(* a deterministic one, or one past the budget, opens it.                  *)
recordFailure(c, deterministic) ==
  LET b == budget[c]
  IN IF b.open \/ deterministic \/ b.n = MaxRestarts
     THEN [n |-> 0, open |-> TRUE]
     ELSE [n |-> b.n + 1, open |-> FALSE]

\* Mutant of Folded: the buffered resize goes with the incarnation.
FoldedWithoutSize(ks) ==
  [ks EXCEPT !.failed = TRUE, !.current = 0, !.mounted = NoPage,
             !.mounting = FALSE, !.pending = NoSize]

(* A record whose incarnation failed; a buffered resize is folded into the *)
(* spec its successor mounts with.                                         *)
Folded(ks) ==
  [ks EXCEPT !.failed = TRUE, !.current = 0, !.mounted = NoPage,
             !.mounting = FALSE, !.pending = NoSize,
             !.size = IF ks.pending # NoSize THEN ks.pending ELSE @,
             !.asked = IF ks.pending # NoSize THEN @ ELSE NoSize]

(* onIncarnationFatal of record r, now ks: one failure per incarnation.    *)
(* hs are the hosts with the failing one already moved on.                 *)
onIncarnationFatal(r, ks, deterministic, hs) ==
  LET verdict == recordFailure(restartKey(ks), deterministic)
      stopped == Stop(hs, ks.current)
  IN IF ks.failed \/ ks.closed
     THEN hosts' = hs /\ UNCHANGED <<rec, keys, startQueue, budget, spares>>
     ELSE /\ budget' = [budget EXCEPT ![restartKey(ks)] = verdict]
          /\ IF verdict.open
             THEN tryDrainQueue([rec EXCEPT ![r] = [Folded(ks) EXCEPT !.state = "circuit-open"]],
                                keys, startQueue, stopped)
             ELSE /\ rec' = [rec EXCEPT ![r] =
                               [Folded(ks) EXCEPT !.state = "backoff", !.timer = TRUE]]
                  /\ hosts' = stopped
                  /\ UNCHANGED <<keys, startQueue, spares>>

-----------------------------------------------------------------------------
(* The calls.                                                              *)

(* preview() for a key whose record is open: the spec is replaced, the     *)
(* budget and the session stay, and a page change is a mount.  A session   *)
(* that has failed but not reported it yet refuses the mount, and that is  *)
(* taken for the failure.                                                  *)
PreviewAgain(k, p, s) ==
  LET r == keys[k]
      ks == [rec[r] EXCEPT !.page = p, !.size = s, !.asked = NoSize]
  IN /\ Open(k)
     /\ IF MountDue(ks) /\ hosts[ks.current].phase = "failed"
        THEN onIncarnationFatal(r, ks, FALSE, hosts)
        ELSE reconcileMount(ks, hosts, r) /\ UNCHANGED <<keys, startQueue, budget, spares>>

(* preview() for a new key, or one whose session is closing: a new record  *)
(* takes the map entry and starts, queues, or is refused with              *)
(* HOST_CAPACITY and removed again.                                        *)
Preview(k, p, s) ==
  /\ ~Open(k)
  /\ FreeRecords # {}
  /\ LET r == Min(FreeRecords)
         rs == [rec EXCEPT ![r] = Fresh(k, p, s)]
         ks == [keys EXCEPT ![k] = r]
     IN IF keyedLive(rs, ks) < MaxGlobalHosts
        THEN StartAll(rs, ks, startQueue, hosts, {r})
        ELSE /\ UNCHANGED <<hosts, spares>>
             /\ IF Len(startQueue) >= QueueCapacity
                THEN keys' = [keys EXCEPT ![k] = 0] /\ UNCHANGED <<rec, startQueue>>
                ELSE keys' = ks /\ rec' = rs /\ startQueue' = Append(startQueue, r)
  /\ UNCHANGED budget

(* resize() of the session handle: buffered unless ready.  A ready child   *)
(* is sent the size; the spec is left alone.                               *)
Resize(r, s) ==
  /\ ~rec[r].closed
  /\ IF rec[r].state = "ready"
     THEN /\ rec' = [rec EXCEPT ![r].asked = NoSize]
          /\ hosts' = [hosts EXCEPT ![rec[r].current].size =
                         IF hosts[rec[r].current].phase = "ready" THEN s ELSE @]
     ELSE /\ rec' = [rec EXCEPT ![r].pending = s, ![r].asked = s]
          /\ UNCHANGED hosts
  /\ UNCHANGED <<keys, startQueue, budget, spares>>

(* The user's retry: the budget of the page is forgiven, and a circuit     *)
(* that is open starts again, queues, or (queue full) stays open.          *)
Retry(r) ==
  /\ ~rec[r].closed
  /\ budget' = [budget EXCEPT ![restartKey(rec[r])] = [n |-> 0, open |-> FALSE]]
  /\ \/ /\ rec[r].state # "circuit-open"
        /\ UNCHANGED <<rec, keys, startQueue, hosts, spares>>
     \/ /\ rec[r].state = "circuit-open"
        /\ keyedLive(rec, keys) < MaxGlobalHosts
        /\ StartAll(rec, keys, startQueue, hosts, {r})
     \/ /\ rec[r].state = "circuit-open"
        /\ keyedLive(rec, keys) >= MaxGlobalHosts
        /\ IF Len(startQueue) < QueueCapacity /\ r \notin ToSet(startQueue)
           THEN /\ rec' = [rec EXCEPT ![r].state = "queued"]
                /\ startQueue' = Append(startQueue, r)
           ELSE UNCHANGED <<rec, startQueue>>
        /\ UNCHANGED <<keys, hosts, spares>>

(* close(), up to its first await: the buffered resize is dropped, the     *)
(* timer cancelled, the queue place given up.  Nothing reads the rest of a *)
(* closed record.                                                          *)
Close(r) ==
  /\ ~rec[r].closed
  /\ rec' = [rec EXCEPT ![r] = [NoRecord EXCEPT
       !.key = rec[r].key, !.state = rec[r].state, !.awaited = rec[r].current]]
  /\ startQueue' = RemoveFirst(startQueue, r)
  /\ hosts' = Stop(hosts, rec[r].current)
  /\ UNCHANGED <<keys, budget, spares>>

\* Mutant of CloseEnds: the freed slot is handed to nobody.
CloseEndsSilently(r) ==
  /\ rec[r].closed /\ rec[r].state # "stopped"
  /\ rec[r].awaited # 0 => Reaped(rec[r].awaited)
  /\ rec' = [rec EXCEPT ![r] = NoRecord]
  /\ keys' = [k \in Keys |-> IF keys[k] = r THEN 0 ELSE keys[k]]
  /\ UNCHANGED <<startQueue, hosts, budget, spares>>

\* Mutant of CloseEnds: the map entry goes whoever it belongs to.
CloseEndsByKey(r) ==
  /\ rec[r].closed /\ rec[r].state # "stopped"
  /\ rec[r].awaited # 0 => Reaped(rec[r].awaited)
  /\ tryDrainQueue([rec EXCEPT ![r] = NoRecord], [keys EXCEPT ![rec[r].key] = 0],
                   startQueue, hosts)
  /\ UNCHANGED budget

(* close() after stop() and the frame pump: the slot is handed on.  The    *)
(* map entry goes only if it is still this record's.                       *)
CloseEnds(r) ==
  /\ rec[r].closed /\ rec[r].state # "stopped"
  /\ rec[r].awaited # 0 => Reaped(rec[r].awaited)
  /\ tryDrainQueue([rec EXCEPT ![r] = NoRecord],
                   [k \in Keys |-> IF keys[k] = r THEN 0 ELSE keys[k]],
                   startQueue, hosts)
  /\ UNCHANGED budget

-----------------------------------------------------------------------------
(* What the incarnations report.                                           *)

\* Mutant of StartReady: a page asked for while starting waits for the next preview.
StartReadyAsSpawned(h) ==
  LET r == hosts[h].owner
  IN /\ hosts[h].phase = "starting" /\ rec[r].current = h
     /\ hosts' = [hosts EXCEPT ![h].phase = "ready", ![h].page = NoPage]
     /\ rec' = [rec EXCEPT ![r].state = "ready", ![r].mounted = hosts[h].page]
     /\ UNCHANGED <<keys, startQueue, budget, spares>>

\* Mutant of Replenished: admission is not consulted.
ReplenishedFreely(rs, ks) == SpareCapacity

(* sparePool.replenish: grow while keys and spares stay under the cap.     *)
Replenished(rs, ks) ==
  Min({SpareCapacity, Max({spares, MaxGlobalHosts - keyedLive(rs, ks)})})

(* start() resolves with a ready child; the buffered resize is flushed,    *)
(* a page asked for meanwhile is mounted, and the spares are replenished.  *)
StartReady(h) ==
  LET r == hosts[h].owner
      ks == rec[r]
      ready == [hosts EXCEPT ![h].phase = "ready", ![h].page = NoPage]
      flushed == IF ks.pending = NoSize THEN ready
                 ELSE [ready EXCEPT ![h].size = ks.pending]
  IN /\ hosts[h].phase = "starting"
     /\ IF ks.closed \/ ks.current # h
        THEN hosts' = ready /\ UNCHANGED <<rec, spares>>
        ELSE /\ reconcileMount([ks EXCEPT !.state = "ready", !.mounted = hosts[h].page,
                                          !.pending = NoSize], flushed, r)
             /\ spares' = Replenished(rec, keys)
     /\ UNCHANGED <<keys, startQueue, budget>>

(* start() resolves with an error, the child already reaped.               *)
StartFails(h) ==
  /\ hosts[h].phase \in {"starting", "aborted"}
  /\ \E deterministic \in BOOLEAN :
       onIncarnationFatal(hosts[h].owner, rec[hosts[h].owner], deterministic,
                          [hosts EXCEPT ![h] = NoHost])

(* A session stopped before ready had its answer in the pipe: it becomes   *)
(* ready for nobody, and then the end of the stream fails it or stop()     *)
(* completes.                                                              *)
LateReady(h) ==
  /\ hosts[h].phase = "aborted"
  /\ \E phase \in {"failed", "stopping"} :
       hosts' = [hosts EXCEPT ![h] = Dying(@.owner, phase)]
  /\ UNCHANGED <<rec, keys, startQueue, budget, spares>>

(* A ready child fails: the session moves to failed and begins a teardown. *)
(* An open mount is settled with the error at once, and reconcileMount's   *)
(* continuation treats it as the failure of the incarnation, if it is      *)
(* still the current one.                                                  *)
Fails(h) ==
  LET r == hosts[h].owner
      hs == [hosts EXCEPT ![h] = Dying(r, "failed")]
  IN /\ hosts[h].phase = "ready"
     /\ IF hosts[h].mount # NoPage /\ rec[r].current = h
        THEN \E deterministic \in BOOLEAN : onIncarnationFatal(r, rec[r], deterministic, hs)
        ELSE hosts' = hs /\ UNCHANGED <<rec, keys, startQueue, budget, spares>>

(* The teardown of a failed session ends: the child is reaped and onFatal  *)
(* is called for the record, whichever incarnation is its current one.     *)
FatalReported(h) ==
  /\ hosts[h].phase = "failed"
  /\ \E deterministic \in BOOLEAN :
       onIncarnationFatal(hosts[h].owner, rec[hosts[h].owner], deterministic,
                          [hosts EXCEPT ![h] = NoHost])

\* Mutant of StopEnds: a child that ignores the shutdown is not killed.
StopEndsNever(h) == hosts[h].phase = "stopping" /\ UNCHANGED vars

(* The child of a stopped session is reaped.                               *)
StopEnds(h) ==
  /\ hosts[h].phase = "stopping"
  /\ hosts' = [hosts EXCEPT ![h] = NoHost]
  /\ UNCHANGED <<rec, keys, startQueue, budget, spares>>

(* The child answers a mount; another page may have been asked for.  A     *)
(* refusal the incarnation survives is no failure.                         *)
MountReply(h, ok) ==
  LET r == hosts[h].owner
      ks == [rec[r] EXCEPT !.mounting = FALSE,
                           !.mounted = IF ok THEN hosts[h].mount ELSE @]
      hs == [hosts EXCEPT ![h].mount = NoPage, ![h].refused = @ \/ ~ok]
  IN /\ hosts[h].phase = "ready" /\ hosts[h].mount # NoPage
     /\ IF ok THEN reconcileMount(ks, hs, r)
        ELSE rec' = [rec EXCEPT ![r] = ks] /\ hosts' = hs
     /\ UNCHANGED <<keys, startQueue, budget, spares>>

(* The backoff timer fires.                                                *)
BackoffEnds(r) ==
  /\ rec[r].timer
  /\ StartAll([rec EXCEPT ![r].timer = FALSE], keys, startQueue, hosts, {r})
  /\ UNCHANGED budget

(* A failure leaves the restart window; an idle spare dies.                *)
WindowMoves(c) ==
  /\ budget[c].n > 0 /\ ~budget[c].open
  /\ budget' = [budget EXCEPT ![c].n = @ - 1]
  /\ UNCHANGED <<rec, keys, startQueue, hosts, spares>>

SpareDies ==
  /\ spares > 0 /\ spares' = spares - 1
  /\ UNCHANGED <<rec, keys, startQueue, hosts, budget>>

(* A promise of the session resolves.                                      *)
HostEnds(h) == StartReady(h) \/ StartFails(h) \/ FatalReported(h) \/ StopEnds(h)

Next ==
  \/ \E k \in Keys, p \in Pages, s \in Sizes : PreviewAgain(k, p, s) \/ Preview(k, p, s)
  \/ \E r \in Records :
       \/ \E s \in Resizes : Resize(r, s)
       \/ Retry(r) \/ Close(r) \/ CloseEnds(r) \/ BackoffEnds(r)
  \/ \E h \in Hosts :
       \/ HostEnds(h) \/ LateReady(h) \/ Fails(h)
       \/ \E ok \in BOOLEAN : MountReply(h, ok)
  \/ \E c \in Keys \X Pages : WindowMoves(c)
  \/ SpareDies

(* A timeout bounds start() and the reaping of a killed child, and a       *)
(* promise that can resolve does.                                          *)
Fairness ==
  /\ \A h \in Hosts : WF_vars(HostEnds(h))
  /\ \A r \in Records : WF_vars(CloseEnds(r))

Spec == Init /\ [][Next]_vars /\ Fairness

-----------------------------------------------------------------------------
(* Properties.                                                             *)

(* Keyed incarnations and spares together never pass the global cap,       *)
(* though admission counts keys alone and a start may take a spare (the    *)
(* argument above liveCount in supervisor.ts).                             *)
LiveWithinCap == liveCount <= MaxGlobalHosts

(* Nobody waits in the start queue while a slot is free, whatever ended    *)
(* the incarnation that held it, and nobody in it is closed.               *)
QueueServed ==
  /\ startQueue # <<>> => keyedLive(rec, keys) >= MaxGlobalHosts
  /\ \A r \in ToSet(startQueue) : rec[r].state = "queued" /\ ~rec[r].closed

(* An open session is the one the map holds for its key: a close() that    *)
(* ends late does not orphan the session that took its place.              *)
OpenMeansMapped == \A r \in Records : ~rec[r].closed => keys[rec[r].key] = r

(* A page switch asked for while the child was starting, backing off or    *)
(* mounting another page is not lost: an idle ready child serves the page  *)
(* asked for last, unless it refused a mount.                              *)
SwitchNotLost ==
  \A r \in Records :
    (MountDue(rec[r]) /\ hosts[rec[r].current].phase = "ready")
      => hosts[rec[r].current].refused

(* A size buffered before ready is still buffered, or in the spec the next *)
(* incarnation mounts with, until the child that becomes ready has it.     *)
BufferedResizeKept ==
  \A r \in Records :
    rec[r].asked # NoSize =>
      IF rec[r].state = "ready"
      THEN LET h == hosts[rec[r].current]
           IN h.phase = "ready" => h.size = rec[r].asked
      ELSE rec[r].asked \in {rec[r].pending, rec[r].size}

(* An incarnation is dropped only for its own failure or by close(): the   *)
(* late failure report of a predecessor never ends its successor.          *)
OwnFailureOnly ==
  [][\A r \in Records :
       LET h == rec[r].current
       IN (h # 0 /\ rec'[r].current # h /\ ~rec'[r].closed)
            => hosts'[h].phase \in {"failed", "gone"}]_vars

(* Every close() returns.                                                  *)
EveryCloseEnds ==
  \A r \in Records : rec[r].closed ~> rec[r].state = "stopped"

=============================================================================
