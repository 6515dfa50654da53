----------------------- MODULE HostSupervisorProofs -------------------------
(***************************************************************************)
(* Proofs about the host supervisor: the invariant SupervisorInv holds of  *)
(* every reachable state, for any number of keys, records and incarnations *)
(* and every cap, and implies the safety invariants of HostSupervisor.     *)
(*                                                                         *)
(* Its parts are predicates of the records rs, the map ks, the incarnations *)
(* hs and the queue q, because most actions first change those and then    *)
(* start whatever the change made room for.                                *)
(***************************************************************************)
EXTENDS HostSupervisor, FiniteSetTheorems, SequenceTheorems, TLAPS

RecordFields ==
  [key: Keys \cup {"none"}, page: Pages \cup {NoPage}, size: AnySize,
   state: States, closed: BOOLEAN,
   current: Hosts \cup {0}, failed: BOOLEAN, mounted: Pages \cup {NoPage},
   mounting: BOOLEAN, pending: AnySize, timer: BOOLEAN,
   awaited: Hosts \cup {0}, asked: AnySize]

HostFields ==
  [owner: Records \cup {0}, page: Pages \cup {NoPage}, size: AnySize,
   phase: Phases, mount: Pages \cup {NoPage}, refused: BOOLEAN]

RecordsOK(rs) == rs \in [Records -> RecordFields]

HostsOK(hs) ==
  /\ hs \in [Hosts -> HostFields]
  /\ \A h \in Hosts : hs[h].phase # "gone" => hs[h].owner \in Records

MapOK(rs, ks) ==
  /\ ks \in [Keys -> Records \cup {0}]
  /\ \A r \in Records : ~rs[r].closed => rs[r].key \in Keys /\ ks[rs[r].key] = r
  /\ \A k \in Keys : ks[k] # 0 => rs[ks[k]].key = k

(* A record that is open.                                                  *)
LifeOK(rs) ==
  \A r \in Records :
    /\ rs[r].timer => ~rs[r].closed /\ rs[r].state = "backoff"
    /\ rs[r].closed => rs[r].asked = NoSize
    /\ ~rs[r].closed =>
         /\ rs[r].page \in Pages /\ rs[r].state # "stopped"
         /\ rs[r].current = 0 <=> rs[r].state \in {"queued", "backoff", "circuit-open"}
         /\ rs[r].state \in {"backoff", "circuit-open"} => rs[r].failed
         /\ rs[r].state \in {"starting", "ready"} => ~rs[r].failed
         /\ rs[r].state # "ready" => ~rs[r].mounting

(* Records and the incarnations that run for them.                         *)
PairOK(rs, hs) ==
  /\ \A r \in Records :
       /\ ~rs[r].closed /\ rs[r].current # 0 =>
            /\ hs[rs[r].current].owner = r
            /\ rs[r].state = "starting" => hs[rs[r].current].phase = "starting"
            /\ rs[r].state = "ready" => hs[rs[r].current].phase \in {"ready", "failed"}
       /\ ~rs[r].closed /\ rs[r].state = "queued" /\ ~rs[r].failed =>
            \A h \in Hosts : hs[h].owner = r => hs[h].phase = "gone"
  /\ \A h \in Hosts :
       hs[h].phase \in {"starting", "ready"} =>
         ~rs[hs[h].owner].closed /\ rs[hs[h].owner].current = h

(* The page switches.                                                      *)
MountOK(rs, hs) ==
  /\ \A h \in Hosts : hs[h].phase = "starting" => hs[h].mount = NoPage
  /\ \A r \in Records :
       ~rs[r].closed /\ rs[r].current # 0 /\ hs[rs[r].current].phase = "ready" =>
         IF rs[r].mounting
         THEN hs[rs[r].current].mount # NoPage
         ELSE /\ hs[rs[r].current].mount = NoPage
              /\ rs[r].mounted = rs[r].page \/ hs[rs[r].current].refused

(* The sizes asked for before ready.                                       *)
SizeOK(rs, hs) ==
  \A r \in Records :
    ~rs[r].closed =>
      /\ rs[r].pending # NoSize => rs[r].asked \in {rs[r].pending, NoSize}
      /\ rs[r].state = "ready" => rs[r].pending = NoSize
      /\ rs[r].asked # NoSize =>
           /\ rs[r].state # "ready" => rs[r].asked \in {rs[r].pending, rs[r].size}
           /\ rs[r].state = "starting" /\ rs[r].pending = NoSize =>
                hs[rs[r].current].size = rs[r].asked
           /\ rs[r].state = "ready" /\ hs[rs[r].current].phase = "ready" =>
                hs[rs[r].current].size = rs[r].asked

(* A number not in use carries nothing.                                    *)
UnusedOK(rs, hs) ==
  /\ \A r \in Records : rs[r].key = "none" => rs[r] = NoRecord
  /\ \A h \in Hosts : hs[h].owner = 0 => hs[h] = NoHost

(* The start queue.                                                        *)
QueueOK(rs, q) ==
  /\ q \in Seq(Records) /\ Len(q) <= QueueCapacity
  /\ \A i, j \in 1 .. Len(q) : q[i] = q[j] => i = j
  /\ \A i \in 1 .. Len(q) : ~rs[q[i]].closed /\ rs[q[i]].state = "queued"

Shape(rs, ks, hs) ==
  /\ RecordsOK(rs) /\ HostsOK(hs) /\ MapOK(rs, ks) /\ LifeOK(rs) /\ PairOK(rs, hs)
  /\ MountOK(rs, hs) /\ SizeOK(rs, hs) /\ UnusedOK(rs, hs)

(* The cap, and that a free slot is not kept from the queue.               *)
CapOK(rs, ks, q, n) ==
  /\ n \in 0 .. SpareCapacity
  /\ keyedLive(rs, ks) + n <= MaxGlobalHosts
  /\ q # << >> => keyedLive(rs, ks) >= MaxGlobalHosts

BudgetOK == budget \in [Keys \X Pages -> [n: 0..MaxRestarts, open: BOOLEAN]]

SupervisorInv ==
  /\ Shape(rec, keys, hosts) /\ QueueOK(rec, startQueue)
  /\ CapOK(rec, keys, startQueue, spares) /\ BudgetOK
-----------------------------------------------------------------------------
(* Numbers.                                                                *)

LEMMA MaxOfTwo ==
  ASSUME NEW a \in Int, NEW b \in Int
  PROVE  Max({a, b}) = IF a >= b THEN a ELSE b
<1>1. \A x \in {a, b} : (\A y \in {a, b} : x >= y) => x = IF a >= b THEN a ELSE b
  OBVIOUS
<1>2. \E x \in {a, b} : \A y \in {a, b} : x >= y
  OBVIOUS
<1>3. QED
  BY <1>1, <1>2 DEF Max

LEMMA MinOfTwo ==
  ASSUME NEW a \in Int, NEW b \in Int
  PROVE  Min({a, b}) = IF a <= b THEN a ELSE b
<1>1. \A x \in {a, b} : (\A y \in {a, b} : x <= y) => x = IF a <= b THEN a ELSE b
  OBVIOUS
<1>2. \E x \in {a, b} : \A y \in {a, b} : x <= y
  OBVIOUS
<1>3. QED
  BY <1>1, <1>2 DEF Min

(* A finite set of numbers that is not empty has a least element: one with *)
(* the fewest elements below it.                                           *)
LEMMA LeastNumber ==
  ASSUME NEW S \in SUBSET Nat, S # {}, IsFiniteSet(S)
  PROVE  Min(S) \in S
<1> DEFINE Below(x) == {y \in S : y < x}
           All == {Below(x) : x \in S}
<1>1. IsWellFoundedOn(StrictSubsetOrdering(S), FiniteSubsetsOf(S))
  BY FS_StrictSubsetOrderingWellFounded
<1>2. All \subseteq FiniteSubsetsOf(S) /\ All # {}
  <2>1. \A x \in S : Below(x) \in SUBSET S /\ Below(x) \in All
    OBVIOUS
  <2>2. FiniteSubsetsOf(S) = SUBSET S
    BY FS_FiniteSubsetsOfFinite
  <2>3. All \subseteq SUBSET S
    BY <2>1
  <2>4. PICK x \in S : TRUE
    OBVIOUS
  <2>5. QED
    BY <2>1, <2>2, <2>3, <2>4
<1>3. PICK B \in All : \A C \in All : <<C, B>> \notin StrictSubsetOrdering(S)
  <2> HIDE DEF All
  <2> QED
    BY <1>1, <1>2, WFMin
<1>4. PICK x \in S : B = Below(x)
  OBVIOUS
<1>5. \A y \in S : x <= y
  <2> SUFFICES ASSUME NEW y \in S, y < x PROVE FALSE
    OBVIOUS
  <2>1. y \in B /\ y \notin Below(y)
    BY <1>4
  <2>2. \A z \in Below(y) : z \in S /\ z < x
    OBVIOUS
  <2>3. Below(y) \in SUBSET S /\ B \in SUBSET S /\ Below(y) \subseteq B
    BY <1>4, <2>2
  <2>4. <<Below(y), B>> \in StrictSubsetOrdering(S)
    <3> HIDE DEF Below, All
    <3> QED
      BY <2>1, <2>3 DEF StrictSubsetOrdering
  <2>5. QED
    BY <1>3, <2>4
<1>6. QED
  BY <1>5 DEF Min

(* A finite set maps one-to-one into one that is not smaller.              *)
LEMMA RoomFor ==
  ASSUME NEW S, NEW T, IsFiniteSet(S), IsFiniteSet(T), Cardinality(S) <= Cardinality(T)
  PROVE  \E f \in [S -> T] : \A x, y \in S : f[x] = f[y] => x = y
<1>1. PICK a \in Bijection(1 .. Cardinality(S), S) : TRUE
  BY FS_CardinalityType DEF ExistsBijection
<1>2. PICK b \in Bijection(1 .. Cardinality(T), T) : TRUE
  BY FS_CardinalityType DEF ExistsBijection
<1>3. Cardinality(S) \in Nat /\ Cardinality(T) \in Nat
  BY FS_CardinalityType
<1>4. /\ a \in [1 .. Cardinality(S) -> S] /\ \A x \in S : \E i \in 1 .. Cardinality(S) : a[i] = x
      /\ b \in [1 .. Cardinality(T) -> T]
      /\ \A i, j \in 1 .. Cardinality(T) : b[i] = b[j] => i = j
  BY <1>1, <1>2 DEF Bijection, Injection, Surjection, IsInjective
<1> DEFINE at == [x \in S |-> CHOOSE i \in 1 .. Cardinality(S) : a[i] = x]
<1>5. \A x \in S : at[x] \in 1 .. Cardinality(S) /\ a[at[x]] = x
  BY <1>4
<1> HIDE DEF at
<1> DEFINE f == [x \in S |-> b[at[x]]]
<1>6. \A x \in S : at[x] \in 1 .. Cardinality(T)
  BY <1>3, <1>5
<1>7. f \in [S -> T]
  BY <1>4, <1>6
<1>8. \A x, y \in S : f[x] = f[y] => x = y
  BY <1>4, <1>5, <1>6
<1>9. QED
  BY <1>7, <1>8

-----------------------------------------------------------------------------
(* Starting incarnations.                                                  *)

Begun(ks, h) == [ks EXCEPT !.failed = FALSE, !.state = "starting", !.current = h]

NewHost(ks, r) ==
  [owner |-> r, page |-> ks.page, size |-> ks.size, phase |-> "starting",
   mount |-> NoPage, refused |-> FALSE]

(* The records of S run in numbers of their own.                           *)
Placed(rs, hs, S, place) ==
  /\ \A r \in S : hs[place[r]].phase = "gone"
  /\ \A r, o \in S : place[r] = place[o] => r = o
  /\ rec' = [r \in Records |-> IF r \in S THEN Begun(rs[r], place[r]) ELSE rs[r]]
  /\ hosts' \in [Hosts -> HostFields]
  /\ \A r \in S : hosts'[place[r]] = NewHost(rs[r], r)
  /\ \A h \in Hosts : (\A r \in S : place[r] # h) => hosts'[h] = hs[h]

LEMMA Started ==
  ASSUME NEW rs, NEW ks, NEW q, NEW hs, NEW S \in SUBSET Records, IsFiniteSet(S),
         RecordsOK(rs), hs \in [Hosts -> HostFields],
         \A h \in Hosts : Reaped(h) => hs[h].phase = "gone",
         StartAll(rs, ks, q, hs, S)
  PROVE  /\ keys' = ks /\ startQueue' = q /\ spares' = Max({0, spares - Cardinality(S)})
         /\ \E place \in [S -> Hosts] : Placed(rs, hs, S, place)
<1> DEFINE free == {h \in Hosts : Reaped(h) /\ \A r \in Records : rs[r].awaited # h}
           Apart(f) == \A r, o \in S : f[r] = f[o] => r = o
           place == CHOOSE f \in [S -> free] : Apart(f)
           New(r) == [owner |-> r, page |-> rs[r].page, size |-> rs[r].size,
                      phase |-> "starting", mount |-> NoPage, refused |-> FALSE]
<1>1. Cardinality(S) <= Cardinality(free)
  BY DEF StartAll
<1>2. IsFiniteSet(free)
  <2>1. free \in SUBSET Hosts
    OBVIOUS
  <2>2. QED
    BY <2>1, FS_Subset, BoundsAssumption
<1>3. \E f \in [S -> free] : Apart(f)
  <2> HIDE DEF free
  <2> QED
    BY <1>1, <1>2, RoomFor
<1>4. place \in [S -> free] /\ Apart(place)
  <2> HIDE DEF free, Apart
  <2> QED
    BY <1>3
<1>5. /\ keys' = ks /\ startQueue' = q /\ spares' = Max({0, spares - Cardinality(S)})
      /\ rec' = [r \in Records |->
           IF r \in S THEN [rs[r] EXCEPT !.failed = FALSE, !.state = "starting",
                                         !.current = place[r]]
           ELSE rs[r]]
      /\ hosts' = [h \in Hosts |->
           IF \E r \in S : place[r] = h THEN New(CHOOSE r \in S : place[r] = h) ELSE hs[h]]
  BY DEF StartAll
<1> HIDE DEF place
<1>6. place \in [S -> Hosts] /\ \A r \in S : hs[place[r]].phase = "gone"
  BY <1>4
<1>7. \A r, o \in S : place[r] = place[o] => r = o
  BY <1>4
<1> HIDE DEF free, Apart
<1>8. rec' = [r \in Records |-> IF r \in S THEN Begun(rs[r], place[r]) ELSE rs[r]]
  BY <1>5 DEF Begun
<1>9. ASSUME NEW r \in S
      PROVE  hosts'[place[r]] = NewHost(rs[r], r)
  <2>1. (CHOOSE o \in S : place[o] = place[r]) = r
    BY <1>7
  <2>2. hosts'[place[r]] = New(CHOOSE o \in S : place[o] = place[r])
    BY <1>5, <1>6
  <2>3. QED
    BY <2>1, <2>2 DEF NewHost
<1>10. \A h \in Hosts : (\A r \in S : place[r] # h) => hosts'[h] = hs[h]
  BY <1>5
<1>11. \A r \in S : NewHost(rs[r], r) \in HostFields
  BY BoundsAssumption DEF NewHost, HostFields, RecordsOK, RecordFields, Phases
<1>12. hosts' \in [Hosts -> HostFields]
  <2>1. ASSUME NEW h \in Hosts
        PROVE  hosts'[h] \in HostFields
    <3>1. CASE \E r \in S : place[r] = h
      BY <3>1, <1>9, <1>11
    <3>2. CASE \A r \in S : place[r] # h
      BY <3>2, <1>10
    <3>3. QED
      BY <3>1, <3>2
  <2>2. QED
    BY <1>5, <2>1
<1>13. Placed(rs, hs, S, place)
  BY <1>6, <1>7, <1>8, <1>9, <1>10, <1>12 DEF Placed
<1>14. QED
  BY <1>5, <1>6, <1>13

(* An open record without an incarnation.                                  *)
Idle(ks) == ~ks.closed /\ ks.current = 0 /\ ~ks.timer

(* What is known of an incarnation that an open record calls its own.      *)
LEMMA OwnHost ==
  ASSUME NEW rs, NEW ks, NEW hs, Shape(rs, ks, hs), NEW r \in Records,
         ~rs[r].closed, rs[r].current # 0
  PROVE  /\ rs[r].current \in Hosts /\ hs[rs[r].current].owner = r
         /\ hs[rs[r].current].phase \in {"starting", "ready", "failed"}
         /\ rs[r].state \in {"starting", "ready"} /\ ~rs[r].failed
         /\ rs[r].state = "starting" <=> hs[rs[r].current].phase = "starting"
<1>1. rs[r].state \in {"starting", "ready"}
  BY DEF Shape, RecordsOK, RecordFields, LifeOK, States
<1>2. rs[r].current \in Hosts
  BY DEF Shape, RecordsOK, RecordFields
<1>3. QED
  BY <1>1, <1>2 DEF Shape, PairOK, LifeOK

(* Records that idle may start.                                            *)
LEMMA StartedShape ==
  ASSUME NEW rs, NEW ks, NEW hs, NEW S \in SUBSET Records, NEW place \in [S -> Hosts],
         Shape(rs, ks, hs), \A r \in S : Idle(rs[r]), Placed(rs, hs, S, place)
  PROVE  Shape(rec', ks, hosts')
<1>1. /\ \A r \in Records : rs[r] \in RecordFields
      /\ \A h \in Hosts : hs[h] \in HostFields
      /\ \A r \in S : place[r] \in Hosts /\ hs[place[r]].phase = "gone"
      /\ 0 \notin Hosts
  BY BoundsAssumption DEF Shape, RecordsOK, HostsOK, Placed
<1>2. ASSUME NEW r \in S
      PROVE  /\ rec'[r] = Begun(rs[r], place[r]) /\ rec'[r] \in RecordFields
             /\ rec'[r].key = rs[r].key /\ rec'[r].page = rs[r].page /\ rec'[r].size = rs[r].size
             /\ rec'[r].state = "starting" /\ ~rec'[r].closed /\ rec'[r].current = place[r]
             /\ ~rec'[r].failed /\ rec'[r].mounting = rs[r].mounting /\ ~rec'[r].timer
             /\ rec'[r].pending = rs[r].pending /\ rec'[r].asked = rs[r].asked
  <2>1. rec'[r] = Begun(rs[r], place[r]) /\ rs[r] \in RecordFields
    BY <1>1 DEF Placed
  <2>2. place[r] \in Hosts /\ "starting" \in States /\ ~rs[r].closed /\ ~rs[r].timer
    BY <1>1 DEF States, Idle
  <2>3. Begun(rs[r], place[r]) \in RecordFields
    BY <2>1, <2>2 DEF Begun, RecordFields
  <2>4. QED
    BY <2>1, <2>2, <2>3 DEF Begun, RecordFields
<1>3. \A r \in Records \ S : rec'[r] = rs[r]
  BY DEF Placed
<1>4. ASSUME NEW r \in S
      PROVE  /\ hosts'[place[r]].owner = r /\ hosts'[place[r]].page = rs[r].page
             /\ hosts'[place[r]].size = rs[r].size /\ hosts'[place[r]].phase = "starting"
             /\ hosts'[place[r]].mount = NoPage
  <2>1. hosts'[place[r]] = NewHost(rs[r], r)
    BY DEF Placed
  <2>2. QED
    BY <2>1 DEF NewHost
<1>5. ASSUME NEW h \in Hosts, hs[h].phase # "gone"
      PROVE  hosts'[h] = hs[h]
  BY <1>1, <1>5 DEF Placed
<1>6. ASSUME NEW h \in Hosts
      PROVE  hosts'[h] = hs[h] \/ \E r \in S : h = place[r]
  BY DEF Placed
<1>7. ASSUME NEW r \in Records \ S, ~rs[r].closed, rs[r].current # 0
      PROVE  rs[r].current \in Hosts /\ hosts'[rs[r].current] = hs[rs[r].current]
  BY <1>5, <1>7, OwnHost
<1>8. \A r \in S : ~rs[r].closed /\ rs[r].current = 0
                   /\ rs[r].state \in {"queued", "backoff", "circuit-open"} /\ ~rs[r].mounting
  BY DEF Idle, Shape, LifeOK
<1>9. RecordsOK(rec')
  <2>1. \A r \in Records : rec'[r] \in RecordFields
    BY <1>1, <1>2, <1>3
  <2>2. rec' = [r \in Records |-> rec'[r]]
    BY DEF Placed
  <2>3. QED
    BY <2>1, <2>2 DEF RecordsOK
<1>10. HostsOK(hosts')
  <2>1. hosts' \in [Hosts -> HostFields]
    BY DEF Placed
  <2>2. \A h \in Hosts : hosts'[h].phase # "gone" => hosts'[h].owner \in Records
    BY <1>4, <1>6 DEF Shape, HostsOK
  <2>3. QED
    BY <2>1, <2>2 DEF HostsOK
<1>11. MapOK(rec', ks)
  BY <1>2, <1>3, <1>8 DEF Shape, MapOK
<1>12. LifeOK(rec')
  <2> SUFFICES ASSUME NEW r \in Records
               PROVE  LifeOK(rec')!(r)
    BY DEF LifeOK
  <2>1. CASE r \in Records \ S
    BY <2>1, <1>3 DEF Shape, LifeOK
  <2>2. CASE r \in S
    BY <2>2, <1>1, <1>2, <1>8 DEF Shape, LifeOK
  <2>3. QED
    BY <2>1, <2>2
<1>13. PairOK(rec', hosts')
  <2>1. ASSUME NEW r \in Records
        PROVE  PairOK(rec', hosts')!1!(r)
    <3>1. CASE r \in S
      BY <3>1, <1>2, <1>4
    <3>2. CASE r \notin S
      <4>1. rec'[r] = rs[r]
        BY <3>2, <1>3
      <4>2. ASSUME ~rs[r].closed, rs[r].state = "queued", ~rs[r].failed, NEW h \in Hosts,
                   hosts'[h].owner = r
            PROVE  hosts'[h].phase = "gone"
        BY <3>2, <4>2, <1>4, <1>6 DEF Shape, PairOK
      <4>3. QED
        BY <3>2, <4>1, <4>2, <1>7 DEF Shape, PairOK
    <3>3. QED
      BY <3>1, <3>2
  <2>2. ASSUME NEW h \in Hosts, hosts'[h].phase \in {"starting", "ready"}
        PROVE  ~rec'[hosts'[h].owner].closed /\ rec'[hosts'[h].owner].current = h
    <3>1. CASE hosts'[h] = hs[h]
      <4>1. hs[h].owner \in Records /\ ~rs[hs[h].owner].closed /\ rs[hs[h].owner].current = h
        BY <2>2, <3>1 DEF Shape, PairOK, HostsOK
      <4>2. hs[h].owner \notin S
        BY <4>1, <1>1, <1>8
      <4>3. QED
        BY <3>1, <4>1, <4>2, <1>3
    <3>2. CASE \E r \in S : h = place[r]
      BY <3>2, <1>2, <1>4
    <3>3. QED
      BY <3>1, <3>2, <1>6
  <2>3. QED
    BY <2>1, <2>2 DEF PairOK
<1>14. MountOK(rec', hosts')
  <2>1. \A h \in Hosts : hosts'[h].phase = "starting" => hosts'[h].mount = NoPage
    BY <1>4, <1>6 DEF Shape, MountOK
  <2>2. ASSUME NEW r \in Records
        PROVE  MountOK(rec', hosts')!2!(r)
    <3>1. CASE r \in S
      BY <3>1, <1>2, <1>4
    <3>2. CASE r \notin S
      BY <3>2, <1>3, <1>7 DEF Shape, MountOK
    <3>3. QED
      BY <3>1, <3>2
  <2>3. QED
    BY <2>1, <2>2 DEF MountOK
<1>15. SizeOK(rec', hosts')
  <2> SUFFICES ASSUME NEW r \in Records, ~rec'[r].closed
               PROVE  SizeOK(rec', hosts')!(r)!2
    BY DEF SizeOK
  <2>1. CASE r \in S
    BY <2>1, <1>2, <1>4, <1>8 DEF Shape, SizeOK
  <2>2. CASE r \notin S
    <3>1. rec'[r] = rs[r] /\ ~rs[r].closed
      BY <2>2, <1>3
    <3>2. CASE rs[r].state \in {"starting", "ready"}
      <4>1. rs[r].current # 0
        BY <3>1, <3>2 DEF Shape, LifeOK
      <4>2. QED
        BY <2>2, <3>1, <4>1, <1>7 DEF Shape, SizeOK
    <3>3. CASE rs[r].state \notin {"starting", "ready"}
      BY <3>1, <3>3 DEF Shape, SizeOK
    <3>4. QED
      BY <3>2, <3>3
  <2>3. QED
    BY <2>1, <2>2
<1>16. UnusedOK(rec', hosts')
  <2>1. \A r \in S : rec'[r].key \in Keys
    BY <1>2, <1>8 DEF Shape, MapOK
  <2>2. ASSUME NEW r \in Records, rec'[r].key = "none"
        PROVE  rec'[r] = NoRecord
    <3>1. rec'[r] = rs[r]
      BY <1>3, <2>1, <2>2, NamesAssumption
    <3>2. QED
      BY <2>2, <3>1 DEF Shape, UnusedOK
  <2>3. \A h \in Hosts : hosts'[h].owner = 0 => hosts'[h] = NoHost
    BY <1>4, <1>6, BoundsAssumption DEF Shape, UnusedOK
  <2>4. QED
    BY <2>2, <2>3 DEF UnusedOK
<1>17. QED
  BY <1>9, <1>10, <1>11, <1>12, <1>13, <1>14, <1>15, <1>16 DEF Shape

-----------------------------------------------------------------------------
(* Counting the live keys.                                                 *)

LiveKeys(rs, ks) == {k \in Keys : ks[k] # 0 /\ rs[ks[k]].state \in Live}

LEMMA CountLive ==
  ASSUME NEW rs, NEW ks
  PROVE  /\ keyedLive(rs, ks) = Cardinality(LiveKeys(rs, ks)) /\ IsFiniteSet(LiveKeys(rs, ks))
         /\ keyedLive(rs, ks) \in Nat
<1>1. LiveKeys(rs, ks) \in SUBSET Keys
  BY DEF LiveKeys
<1>2. IsFiniteSet(LiveKeys(rs, ks))
  BY <1>1, FS_Subset, BoundsAssumption
<1>3. QED
  BY <1>2, FS_CardinalityType DEF keyedLive, LiveKeys

(* Every live key of one state is live in the other.                       *)
LEMMA CountGrows ==
  ASSUME NEW rs, NEW ks, NEW os, NEW ls, LiveKeys(rs, ks) \subseteq LiveKeys(os, ls)
  PROVE  keyedLive(rs, ks) <= keyedLive(os, ls)
BY CountLive, FS_Subset

LEMMA CountSame ==
  ASSUME NEW rs, NEW ks, NEW os, NEW ls, LiveKeys(rs, ks) = LiveKeys(os, ls)
  PROVE  keyedLive(rs, ks) = keyedLive(os, ls)
BY CountLive

(* Live keys of two states that differ in one key.                         *)
LEMMA CountButOne ==
  ASSUME NEW rs, NEW ks, NEW os, NEW ls, NEW k,
         LiveKeys(rs, ks) \subseteq LiveKeys(os, ls) \cup {k}
  PROVE  keyedLive(rs, ks) <= keyedLive(os, ls) + 1
<1>1. /\ IsFiniteSet(LiveKeys(os, ls) \cup {k})
      /\ Cardinality(LiveKeys(os, ls) \cup {k}) <= keyedLive(os, ls) + 1
  BY CountLive, FS_AddElement
<1>2. Cardinality(LiveKeys(rs, ks)) <= Cardinality(LiveKeys(os, ls) \cup {k})
  BY <1>1, FS_Subset
<1>3. Cardinality(LiveKeys(os, ls) \cup {k}) \in Nat
  BY <1>1, FS_CardinalityType
<1>4. QED
  BY <1>1, <1>2, <1>3, CountLive

(* One start adds at most one live key.                                    *)
LEMMA StartedOne ==
  ASSUME NEW rs, NEW ks, NEW hs, NEW r \in Records, NEW place \in [{r} -> Hosts],
         RecordsOK(rs), MapOK(rs, ks), ~rs[r].closed, Placed(rs, hs, {r}, place)
  PROVE  /\ LiveKeys(rec', ks) = LiveKeys(rs, ks) \cup {rs[r].key}
         /\ keyedLive(rs, ks) <= keyedLive(rec', ks)
         /\ keyedLive(rec', ks) <= keyedLive(rs, ks) + 1
         /\ rs[r].state \in Live => keyedLive(rec', ks) = keyedLive(rs, ks)
         /\ rs[r].state \notin Live => keyedLive(rec', ks) = keyedLive(rs, ks) + 1
<1>1. /\ rs[r].key \in Keys /\ ks[rs[r].key] = r /\ rec'[r].state = "starting"
      /\ \A o \in Records \ {r} : rec'[o] = rs[o]
      /\ \A k \in Keys : ks[k] \in Records \cup {0} /\ (ks[k] # 0 => rs[ks[k]].key = k)
      /\ r # 0
  <2>1. /\ rs[r].key \in Keys /\ ks[rs[r].key] = r
        /\ \A k \in Keys : ks[k] \in Records \cup {0} /\ (ks[k] # 0 => rs[ks[k]].key = k)
    BY DEF MapOK
  <2>2. rec'[r] = Begun(rs[r], place[r]) /\ \A o \in Records \ {r} : rec'[o] = rs[o]
    BY DEF Placed
  <2>3. rec'[r].state = "starting"
    BY <2>2 DEF Begun, RecordsOK, RecordFields
  <2>4. QED
    BY <2>1, <2>2, <2>3, BoundsAssumption
<1>2. LiveKeys(rec', ks) = LiveKeys(rs, ks) \cup {rs[r].key}
  <2>1. ASSUME NEW k \in Keys
        PROVE  k \in LiveKeys(rec', ks) <=> k \in LiveKeys(rs, ks) \/ k = rs[r].key
    <3>1. CASE ks[k] = r
      <4>1. k \in LiveKeys(rec', ks)
        BY <1>1, <3>1 DEF LiveKeys, Live
      <4>2. k = rs[r].key
        BY <1>1, <3>1
      <4>3. QED
        BY <4>1, <4>2
    <3>2. CASE ks[k] # r
      BY <1>1, <3>2 DEF LiveKeys
    <3>3. QED
      BY <3>1, <3>2
  <2>2. LiveKeys(rec', ks) \subseteq Keys /\ LiveKeys(rs, ks) \subseteq Keys
    BY DEF LiveKeys
  <2>3. QED
    BY <1>1, <2>1, <2>2
<1>3. rs[r].state \in Live => LiveKeys(rec', ks) = LiveKeys(rs, ks)
  BY <1>1, <1>2 DEF LiveKeys
<1>4. keyedLive(rs, ks) <= keyedLive(rec', ks)
  BY <1>2, CountGrows
<1>5. keyedLive(rec', ks) <= keyedLive(rs, ks) + 1
  <2>1. LiveKeys(rec', ks) \subseteq LiveKeys(rs, ks) \cup {rs[r].key}
    BY <1>2
  <2>2. QED
    BY <2>1, CountButOne
<1>6. rs[r].state \in Live => keyedLive(rec', ks) = keyedLive(rs, ks)
  BY <1>3, CountSame
<1>7. rs[r].state \notin Live => keyedLive(rec', ks) = keyedLive(rs, ks) + 1
  <2> SUFFICES ASSUME rs[r].state \notin Live PROVE keyedLive(rec', ks) = keyedLive(rs, ks) + 1
    OBVIOUS
  <2>1. rs[r].key \notin LiveKeys(rs, ks)
    BY <1>1 DEF LiveKeys
  <2>2. Cardinality(LiveKeys(rec', ks)) = Cardinality(LiveKeys(rs, ks)) + 1
    <3> DEFINE L == LiveKeys(rs, ks)
    <3>1. IsFiniteSet(L) /\ LiveKeys(rec', ks) = L \cup {rs[r].key} /\ rs[r].key \notin L
      BY <1>2, <2>1, CountLive
    <3> HIDE DEF L
    <3>2. Cardinality(L \cup {rs[r].key}) = Cardinality(L) + 1
      BY <3>1, FS_AddElement
    <3>3. QED
      BY <3>1, <3>2 DEF L
  <2>3. QED
    BY <2>2, CountLive
<1>8. QED
  BY <1>2, <1>4, <1>5, <1>6, <1>7

-----------------------------------------------------------------------------
(* Handing slots to the queue.                                             *)

FirstRecords(q, n) == {q[i] : i \in 1 .. n}
FirstKeys(rs, q, n) == {rs[q[i]].key : i \in 1 .. n}

(* The first n of a queue are n records, of n keys.                        *)
LEMMA FirstOfQueue ==
  ASSUME NEW rs, NEW ks, NEW q, MapOK(rs, ks), QueueOK(rs, q), NEW n \in 0 .. Len(q)
  PROVE  /\ FirstRecords(q, n) \in SUBSET Records
         /\ IsFiniteSet(FirstRecords(q, n)) /\ Cardinality(FirstRecords(q, n)) = n
         /\ FirstKeys(rs, q, n) \in SUBSET Keys
         /\ IsFiniteSet(FirstKeys(rs, q, n)) /\ Cardinality(FirstKeys(rs, q, n)) = n
<1> DEFINE S == FirstRecords(q, n)
           T == FirstKeys(rs, q, n)
<1>1. Len(q) \in Nat /\ \A i \in 1 .. Len(q) : q[i] \in Records
  BY LenProperties, ElementOfSeq DEF QueueOK
<1>2. n \in Nat /\ 1 .. n \subseteq 1 .. Len(q)
  BY <1>1
<1>3. \A i \in 1 .. n : q[i] \in Records /\ rs[q[i]].key \in Keys /\ ks[rs[q[i]].key] = q[i]
  BY <1>1, <1>2 DEF MapOK, QueueOK
<1>4. \A i, j \in 1 .. n : q[i] = q[j] => i = j
  BY <1>2 DEF QueueOK
<1>5. S \in SUBSET Records /\ T \in SUBSET Keys
  BY <1>3 DEF FirstRecords, FirstKeys
<1>6. IsFiniteSet(S) /\ IsFiniteSet(T)
  BY <1>5, FS_Subset, BoundsAssumption
<1> DEFINE f == [i \in 1 .. n |-> q[i]]
           g == [i \in 1 .. n |-> rs[q[i]].key]
<1>7. f \in Bijection(1 .. n, S)
  BY <1>4 DEF Bijection, Injection, Surjection, IsInjective, FirstRecords
<1>8. g \in Bijection(1 .. n, T)
  <2>1. \A i, j \in 1 .. n : g[i] = g[j] => i = j
    BY <1>3, <1>4
  <2>2. QED
    BY <2>1 DEF Bijection, Injection, Surjection, IsInjective, FirstKeys
<1> HIDE DEF f, g, S, T
<1>9. Cardinality(S) = n /\ Cardinality(T) = n
  BY <1>2, <1>7, <1>8, FS_CountingElements DEF ExistsBijection
<1>10. QED
  BY <1>5, <1>6, <1>9 DEF S, T

(* The rest of a queue is still one.                                       *)
LEMMA RestOfQueue ==
  ASSUME NEW rs, NEW q, QueueOK(rs, q), NEW n \in 0 .. Len(q),
         NEW os, \A i \in 1 .. Len(q) : n < i => os[q[i]] = rs[q[i]]
  PROVE  /\ QueueOK(os, SubSeq(q, n + 1, Len(q)))
         /\ SubSeq(q, n + 1, Len(q)) # << >> => n < Len(q)
<1> DEFINE rest == SubSeq(q, n + 1, Len(q))
<1>1. Len(q) \in Nat /\ n \in Nat /\ q \in Seq(Records)
  BY LenProperties DEF QueueOK
<1>2. /\ rest \in Seq(Records) /\ Len(rest) = Len(q) - n
      /\ \A i \in 1 .. Len(q) - n : rest[i] = q[n + i]
  <2>1. \A i \in n + 1 .. Len(q) : q[i] \in Records
    BY <1>1, ElementOfSeq
  <2>2. QED
    BY <1>1, <2>1, SubSeqProperties
<1> HIDE DEF rest
<1>3. \A i \in 1 .. Len(rest) : n + i \in 1 .. Len(q) /\ n < n + i /\ rest[i] = q[n + i]
  BY <1>1, <1>2
<1>4. \A i, j \in 1 .. Len(rest) : rest[i] = rest[j] => i = j
  <2> SUFFICES ASSUME NEW i \in 1 .. Len(rest), NEW j \in 1 .. Len(rest), rest[i] = rest[j]
               PROVE  i = j
    OBVIOUS
  <2>1. n + i = n + j
    <3>1. n + i \in 1 .. Len(q) /\ n + j \in 1 .. Len(q) /\ q[n + i] = q[n + j]
      BY <1>3
    <3>2. \A k, l \in 1 .. Len(q) : q[k] = q[l] => k = l
      BY DEF QueueOK
    <3>3. QED
      BY <3>1, <3>2, Zenon
  <2>2. QED
    BY <1>1, <1>2, <2>1
<1>5. \A i \in 1 .. Len(rest) : ~os[rest[i]].closed /\ os[rest[i]].state = "queued"
  BY <1>3 DEF QueueOK
<1>6. Len(rest) <= QueueCapacity
  BY <1>1, <1>2, BoundsAssumption DEF QueueOK
<1>7. rest # << >> => n < Len(q)
  BY <1>1, <1>2, EmptySeq
<1>8. QED
  BY <1>2, <1>4, <1>5, <1>6, <1>7 DEF QueueOK, rest

(* Draining fills the slots that are free, or empties the queue.           *)
LEMMA Drained ==
  ASSUME NEW rs, NEW ks, NEW q, NEW hs, Shape(rs, ks, hs), QueueOK(rs, q),
         \A h \in Hosts : Reaped(h) => hs[h].phase = "gone",
         spares \in 0 .. SpareCapacity, keyedLive(rs, ks) + spares <= MaxGlobalHosts,
         tryDrainQueue(rs, ks, q, hs)
  PROVE  /\ Shape(rec', keys', hosts') /\ QueueOK(rec', startQueue')
         /\ CapOK(rec', keys', startQueue', spares')
<1> DEFINE room == Max({0, MaxGlobalHosts - keyedLive(rs, ks)})
           n == Min({room, Len(q)})
           S == ToSet(SubSeq(q, 1, n))
           T == FirstKeys(rs, q, n)
<1>1. /\ keyedLive(rs, ks) \in Nat /\ MaxGlobalHosts \in Nat /\ spares \in Nat
      /\ keyedLive(rs, ks) <= MaxGlobalHosts
  BY CountLive, BoundsAssumption
<1>2. room = MaxGlobalHosts - keyedLive(rs, ks)
  <2>1. 0 \in Int /\ MaxGlobalHosts - keyedLive(rs, ks) \in Int
    BY <1>1
  <2>2. QED
    BY <1>1, <2>1, MaxOfTwo
<1>3. Len(q) \in Nat /\ q \in Seq(Records)
  BY LenProperties DEF QueueOK
<1>4. n = IF room <= Len(q) THEN room ELSE Len(q)
  <2>1. room \in Int /\ Len(q) \in Int
    BY <1>1, <1>2, <1>3
  <2> HIDE DEF room
  <2>2. QED
    BY <2>1, MinOfTwo
<1>5. StartAll(rs, ks, SubSeq(q, n + 1, Len(q)), hs, S)
  BY DEF tryDrainQueue
<1> HIDE DEF room
<1>6. n \in 0 .. Len(q) /\ n <= room /\ (n < Len(q) => n = room) /\ n \in Nat
  BY <1>1, <1>2, <1>3, <1>4
<1> HIDE DEF n
<1>7. S = {q[i] : i \in 1 .. n}
  <2>1. \A i \in 1 .. n : q[i] \in Records
    BY <1>3, <1>6, ElementOfSeq
  <2>2. SubSeq(q, 1, n) \in Seq(Records) /\ Len(SubSeq(q, 1, n)) = n
        /\ \A i \in 1 .. n : SubSeq(q, 1, n)[i] = q[i]
    BY <1>6, <2>1, SubSeqProperties
  <2>3. DOMAIN SubSeq(q, 1, n) = 1 .. n
    BY <2>2, LenProperties
  <2>4. QED
    BY <2>2, <2>3 DEF ToSet
<1> HIDE DEF S
<1>8. T = {rs[q[i]].key : i \in 1 .. n}
  BY DEF FirstKeys
<1>9. /\ S \in SUBSET Records /\ IsFiniteSet(S) /\ Cardinality(S) = n
      /\ T \in SUBSET Keys /\ IsFiniteSet(T) /\ Cardinality(T) = n
  <2>1. MapOK(rs, ks)
    BY DEF Shape
  <2>2. S = FirstRecords(q, n)
    BY <1>7 DEF FirstRecords
  <2>3. QED
    BY <1>6, <2>1, <2>2, FirstOfQueue
<1> HIDE DEF T
<1>10. /\ keys' = ks /\ startQueue' = SubSeq(q, n + 1, Len(q)) /\ spares' = Max({0, spares - n})
       /\ \E place \in [S -> Hosts] : Placed(rs, hs, S, place)
  <2>1. RecordsOK(rs) /\ hs \in [Hosts -> HostFields]
    BY DEF Shape, HostsOK
  <2>2. /\ keys' = ks /\ startQueue' = SubSeq(q, n + 1, Len(q))
        /\ spares' = Max({0, spares - Cardinality(S)})
        /\ \E place \in [S -> Hosts] : Placed(rs, hs, S, place)
    <3> DEFINE rest == SubSeq(q, n + 1, Len(q))
    <3> HIDE DEF rest
    <3>1. StartAll(rs, ks, rest, hs, S)
      BY <1>5 DEF rest
    <3>2. keys' = ks /\ startQueue' = rest /\ spares' = Max({0, spares - Cardinality(S)})
      BY <1>9, <2>1, <3>1, Started
    <3>3. \E place \in [S -> Hosts] : Placed(rs, hs, S, place)
      BY <1>9, <2>1, <3>1, Started
    <3>4. QED
      BY <3>2, <3>3 DEF rest
  <2>3. QED
    BY <1>9, <2>2
<1>11. PICK place \in [S -> Hosts] : Placed(rs, hs, S, place)
  BY <1>10
<1>12. ASSUME NEW i \in 1 .. n
       PROVE  /\ q[i] \in S /\ Idle(rs[q[i]]) /\ rs[q[i]].key \in Keys /\ ks[rs[q[i]].key] = q[i]
              /\ rs[q[i]].state = "queued"
  <2>1. q[i] \in S /\ q[i] \in Records /\ i \in 1 .. Len(q)
    BY <1>6, <1>7, <1>9
  <2>2. ~rs[q[i]].closed /\ rs[q[i]].state = "queued"
    BY <2>1 DEF QueueOK
  <2>3. rs[q[i]].current = 0 /\ ~rs[q[i]].timer
    <3>1. RecordsOK(rs) /\ LifeOK(rs)
      BY DEF Shape
    <3>2. QED
      BY <2>1, <2>2, <3>1 DEF LifeOK, RecordsOK, RecordFields
  <2>4. QED
    BY <2>1, <2>2, <2>3 DEF Idle, Shape, MapOK
<1>13. Shape(rec', keys', hosts')
  <2>1. \A r \in S : Idle(rs[r])
    BY <1>7, <1>12
  <2>2. QED
    BY <1>9, <1>10, <1>11, <2>1, StartedShape
<1>14. QueueOK(rec', startQueue') /\ (startQueue' # << >> => n < Len(q))
  <2>1. ASSUME NEW i \in 1 .. Len(q), n < i
        PROVE  rec'[q[i]] = rs[q[i]]
    <3>1. q[i] \in Records
      BY <1>3, ElementOfSeq
    <3>2. q[i] \notin S
      <4>1. SUFFICES ASSUME NEW j \in 1 .. n, q[j] = q[i] PROVE FALSE
        BY <1>7
      <4>2. j = i
        BY <1>6, <4>1 DEF QueueOK
      <4>3. QED
        BY <1>6, <2>1, <4>2
    <3>3. QED
      BY <1>11, <3>1, <3>2 DEF Placed
  <2>2. QED
    BY <1>6, <1>10, <2>1, RestOfQueue
<1>15. LiveKeys(rec', ks) = LiveKeys(rs, ks) \cup T
  <2>1. \A r \in Records : rec'[r] = IF r \in S THEN Begun(rs[r], place[r]) ELSE rs[r]
    BY <1>11 DEF Placed
  <2>2. \A r \in S : rec'[r].state = "starting"
    BY <1>9, <2>1 DEF Begun, Shape, RecordsOK, RecordFields
  <2>3. \A k \in Keys : ks[k] \in Records \cup {0} /\ (ks[k] # 0 => rs[ks[k]].key = k)
    BY DEF Shape, MapOK
  <2>4. 0 \notin Records
    BY BoundsAssumption
  <2>5. ASSUME NEW k \in Keys
        PROVE  k \in LiveKeys(rec', ks) <=> k \in LiveKeys(rs, ks) \/ k \in T
    <3>1. CASE ks[k] \in S
      <4>1. k \in LiveKeys(rec', ks)
        BY <1>9, <2>2, <2>4, <3>1 DEF LiveKeys, Live
      <4>2. k \in T
        BY <1>7, <1>8, <1>9, <2>3, <2>4, <3>1
      <4>3. QED
        BY <4>1, <4>2
    <3>2. CASE ks[k] \notin S
      <4>1. k \notin T
        BY <1>8, <1>12, <3>2
      <4>2. QED
        BY <2>1, <2>3, <3>2, <4>1 DEF LiveKeys
    <3>3. QED
      BY <3>1, <3>2
  <2>6. LiveKeys(rec', ks) \subseteq Keys /\ LiveKeys(rs, ks) \subseteq Keys
    BY DEF LiveKeys
  <2>7. QED
    BY <1>9, <2>5, <2>6
<1>16. keyedLive(rec', ks) = keyedLive(rs, ks) + n
  <2>1. LiveKeys(rs, ks) \cap T = {}
    <3>1. \A i \in 1 .. n : rs[q[i]].key \notin LiveKeys(rs, ks)
      BY <1>12 DEF LiveKeys, Live
    <3>2. QED
      BY <1>8, <3>1
  <2>2. Cardinality(LiveKeys(rs, ks) \cup T) = Cardinality(LiveKeys(rs, ks)) + n - 0
    BY <1>9, <2>1, CountLive, FS_Union, FS_EmptySet
  <2>3. keyedLive(rec', ks) = Cardinality(LiveKeys(rs, ks) \cup T)
    BY <1>15, CountLive
  <2>4. keyedLive(rs, ks) = Cardinality(LiveKeys(rs, ks))
    BY CountLive
  <2>5. QED
    BY <1>1, <1>6, <2>2, <2>3, <2>4
<1>17. spares' = IF n <= spares THEN spares - n ELSE 0
  <2>1. 0 \in Int /\ spares - n \in Int
    BY <1>1, <1>6
  <2>2. QED
    BY <1>1, <1>6, <1>10, <2>1, MaxOfTwo
<1>18. CapOK(rec', keys', startQueue', spares')
  <2>1. spares' \in 0 .. SpareCapacity
    BY <1>1, <1>6, <1>17, BoundsAssumption
  <2>2. keyedLive(rec', ks) + spares' <= MaxGlobalHosts
    BY <1>1, <1>2, <1>6, <1>16, <1>17
  <2>3. startQueue' # << >> => keyedLive(rec', ks) >= MaxGlobalHosts
    BY <1>1, <1>2, <1>6, <1>14, <1>16
  <2>4. QED
    BY <1>10, <2>1, <2>2, <2>3 DEF CapOK
<1>19. QED
  BY <1>13, <1>14, <1>18

(* One record that idles starts: a new one or one whose circuit was open   *)
(* while there is room, or one that backs off, which has its slot.         *)
LEMMA OneStarted ==
  ASSUME NEW rs, NEW ks, NEW q, NEW hs, NEW r \in Records,
         Shape(rs, ks, hs), QueueOK(rs, q), Idle(rs[r]), \A i \in 1 .. Len(q) : q[i] # r,
         \A h \in Hosts : Reaped(h) => hs[h].phase = "gone",
         spares \in 0 .. SpareCapacity, keyedLive(rs, ks) + spares <= MaxGlobalHosts,
         rs[r].state \in Live \/ keyedLive(rs, ks) < MaxGlobalHosts,
         q # << >> => \/ keyedLive(rs, ks) >= MaxGlobalHosts
                      \/ rs[r].state \notin Live /\ keyedLive(rs, ks) + 1 >= MaxGlobalHosts,
         StartAll(rs, ks, q, hs, {r})
  PROVE  /\ Shape(rec', keys', hosts') /\ QueueOK(rec', startQueue')
         /\ CapOK(rec', keys', startQueue', spares')
<1>1. IsFiniteSet({r}) /\ Cardinality({r}) = 1
  BY FS_Singleton
<1>2. /\ keys' = ks /\ startQueue' = q /\ spares' = Max({0, spares - 1})
      /\ \E place \in [{r} -> Hosts] : Placed(rs, hs, {r}, place)
  <2>1. RecordsOK(rs) /\ hs \in [Hosts -> HostFields] /\ {r} \in SUBSET Records
    BY DEF Shape, HostsOK
  <2>2. keys' = ks /\ startQueue' = q /\ spares' = Max({0, spares - Cardinality({r})})
    BY <1>1, <2>1, Started
  <2>3. \E place \in [{r} -> Hosts] : Placed(rs, hs, {r}, place)
    BY <1>1, <2>1, Started
  <2>4. QED
    BY <1>1, <2>2, <2>3
<1>3. PICK place \in [{r} -> Hosts] : Placed(rs, hs, {r}, place)
  BY <1>2
<1>4. Shape(rec', ks, hosts')
  <2>1. {r} \in SUBSET Records /\ \A o \in {r} : Idle(rs[o])
    OBVIOUS
  <2>2. QED
    BY <1>3, <2>1, StartedShape
<1>5. QueueOK(rec', q)
  <2>1. \A i \in 1 .. Len(q) : q[i] \in Records
    BY ElementOfSeq DEF QueueOK
  <2>2. \A i \in 1 .. Len(q) : rec'[q[i]] = rs[q[i]]
    BY <1>3, <2>1 DEF Placed
  <2>3. QED
    BY <2>2 DEF QueueOK
<1>6. spares' = IF spares = 0 THEN 0 ELSE spares - 1
  <2>1. spares \in Nat /\ 0 \in Int /\ spares - 1 \in Int
    BY BoundsAssumption
  <2>2. QED
    BY <1>2, <2>1, MaxOfTwo
<1>7. /\ keyedLive(rs, ks) <= keyedLive(rec', ks)
      /\ keyedLive(rec', ks) <= keyedLive(rs, ks) + 1
      /\ rs[r].state \in Live => keyedLive(rec', ks) = keyedLive(rs, ks)
      /\ rs[r].state \notin Live => keyedLive(rec', ks) = keyedLive(rs, ks) + 1
  <2>1. RecordsOK(rs) /\ MapOK(rs, ks) /\ ~rs[r].closed
    BY DEF Shape, Idle
  <2>2. QED
    BY <1>3, <2>1, StartedOne
<1>8. keyedLive(rs, ks) \in Nat /\ keyedLive(rec', ks) \in Nat
  BY CountLive
<1>9. CapOK(rec', ks, q, spares')
  <2>1. spares' \in 0 .. SpareCapacity
    BY <1>6, BoundsAssumption
  <2>2. keyedLive(rec', ks) + spares' <= MaxGlobalHosts
    BY <1>6, <1>7, <1>8, BoundsAssumption
  <2>3. q # << >> => keyedLive(rec', ks) >= MaxGlobalHosts
    BY <1>7, <1>8, BoundsAssumption
  <2>4. QED
    BY <2>1, <2>2, <2>3 DEF CapOK
<1>10. QED
  BY <1>2, <1>4, <1>5, <1>9

-----------------------------------------------------------------------------
(* Losing an incarnation.                                                  *)

(* A record after close(), or after a failure it waits out.                *)
Resting(v) ==
  /\ v \in RecordFields
  /\ v.timer => ~v.closed /\ v.state = "backoff"
  /\ v.closed => v.asked = NoSize
  /\ ~v.closed =>
       /\ v.page \in Pages /\ v.state \in {"backoff", "circuit-open"} /\ v.current = 0
       /\ v.failed /\ ~v.mounting /\ v.pending = NoSize /\ v.asked \in {NoSize, v.size}

(* Incarnations of r are on their way out, and nothing else moves.         *)
WindsDown(hs, os, r) ==
  /\ os \in [Hosts -> HostFields]
  /\ \A h \in Hosts :
       \/ os[h] = hs[h] /\ (hs[h].phase \in {"starting", "ready"} => hs[h].owner # r)
       \/ /\ hs[h].owner = r /\ os[h].phase \notin {"starting", "ready"}
          /\ os[h].owner = r \/ os[h] = NoHost
          /\ hs[h].phase = "gone" => os[h].phase = "gone"

LEMMA RestingShape ==
  ASSUME NEW rs, NEW ks, NEW hs, NEW os, Shape(rs, ks, hs), NEW r \in Records, ~rs[r].closed,
         NEW v, Resting(v), v.key = rs[r].key, WindsDown(hs, os, r)
  PROVE  Shape([rs EXCEPT ![r] = v], ks, os)
<1> DEFINE ns == [rs EXCEPT ![r] = v]
<1>1. ns[r] = v /\ \A o \in Records \ {r} : ns[o] = rs[o]
  BY DEF Shape, RecordsOK
<1>2. RecordsOK(ns)
  BY DEF Shape, RecordsOK, Resting
<1> HIDE DEF ns
<1>3. HostsOK(os)
  <2>1. NoHost.phase = "gone"
    BY DEF NoHost
  <2>2. QED
    BY <2>1 DEF WindsDown, Shape, HostsOK
<1>4. MapOK(ns, ks)
  <2>1. ks \in [Keys -> Records \cup {0}] /\ 0 \notin Records
    BY BoundsAssumption DEF Shape, MapOK
  <2>2. \A o \in Records : ns[o].key = rs[o].key /\ (~ns[o].closed => ~rs[o].closed)
    BY <1>1
  <2>3. QED
    BY <2>1, <2>2 DEF Shape, MapOK
<1>5. LifeOK(ns)
  <2> SUFFICES ASSUME NEW o \in Records
               PROVE  LifeOK(ns)!(o)
    BY DEF LifeOK
  <2>1. CASE o = r
    BY <2>1, <1>1 DEF Resting
  <2>2. CASE o # r
    BY <2>2, <1>1 DEF Shape, LifeOK
  <2>3. QED
    BY <2>1, <2>2
<1>6. ASSUME NEW o \in Records \ {r}, ~rs[o].closed, rs[o].current # 0
      PROVE  /\ rs[o].current \in Hosts /\ os[rs[o].current] = hs[rs[o].current]
             /\ hs[rs[o].current].owner = o
  BY <1>6, OwnHost DEF WindsDown
<1>7. PairOK(ns, os)
  <2>1. ASSUME NEW o \in Records
        PROVE  PairOK(ns, os)!1!(o)
    <3>1. CASE o = r
      BY <3>1, <1>1 DEF Resting
    <3>2. CASE o # r
      <4>1. ns[o] = rs[o]
        BY <3>2, <1>1
      <4>2. ASSUME ~rs[o].closed, rs[o].state = "queued", ~rs[o].failed, NEW h \in Hosts,
                   os[h].owner = o
            PROVE  os[h].phase = "gone"
        <5>1. NoHost.phase = "gone"
          BY DEF NoHost
        <5>2. os[h] = hs[h] \/ os[h] = NoHost
          BY <3>2, <4>2 DEF WindsDown
        <5>3. QED
          BY <4>2, <5>1, <5>2 DEF Shape, PairOK
      <4>3. QED
        BY <3>2, <4>1, <4>2, <1>6 DEF Shape, PairOK
    <3>3. QED
      BY <3>1, <3>2
  <2>2. ASSUME NEW h \in Hosts, os[h].phase \in {"starting", "ready"}
        PROVE  ~ns[os[h].owner].closed /\ ns[os[h].owner].current = h
    <3>1. os[h] = hs[h] /\ hs[h].owner # r
      BY <2>2 DEF WindsDown
    <3>2. hs[h].owner \in Records
      BY <2>2, <3>1 DEF Shape, HostsOK
    <3>3. QED
      BY <2>2, <3>1, <3>2, <1>1 DEF Shape, PairOK
  <2>3. QED
    BY <2>1, <2>2 DEF PairOK
<1>8. MountOK(ns, os)
  <2>1. \A h \in Hosts : os[h].phase = "starting" => os[h].mount = NoPage
    BY DEF WindsDown, Shape, MountOK
  <2>2. ASSUME NEW o \in Records
        PROVE  MountOK(ns, os)!2!(o)
    <3>1. CASE o = r
      BY <3>1, <1>1 DEF Resting
    <3>2. CASE o # r
      BY <3>2, <1>1, <1>6 DEF Shape, MountOK
    <3>3. QED
      BY <3>1, <3>2
  <2>3. QED
    BY <2>1, <2>2 DEF MountOK
<1>9. SizeOK(ns, os)
  <2> SUFFICES ASSUME NEW o \in Records, ~ns[o].closed
               PROVE  SizeOK(ns, os)!(o)!2
    BY DEF SizeOK
  <2>1. CASE o = r
    BY <2>1, <1>1 DEF Resting
  <2>2. CASE o # r
    <3>1. ns[o] = rs[o] /\ ~rs[o].closed
      BY <2>2, <1>1
    <3>2. CASE rs[o].state \in {"starting", "ready"}
      <4>1. rs[o].current # 0
        BY <3>1, <3>2 DEF Shape, LifeOK
      <4>2. QED
        BY <2>2, <3>1, <4>1, <1>6 DEF Shape, SizeOK
    <3>3. CASE rs[o].state \notin {"starting", "ready"}
      BY <3>1, <3>3 DEF Shape, SizeOK
    <3>4. QED
      BY <3>2, <3>3
  <2>3. QED
    BY <2>1, <2>2
<1>10. UnusedOK(ns, os)
  <2>1. rs[r].key # "none" /\ r # 0
    BY NamesAssumption, BoundsAssumption DEF Shape, MapOK
  <2>2. \A o \in Records : ns[o].key = "none" => ns[o] = NoRecord
    BY <1>1, <2>1 DEF Shape, UnusedOK
  <2>3. \A h \in Hosts : os[h].owner = 0 => os[h] = NoHost
    BY <2>1 DEF WindsDown, Shape, UnusedOK
  <2>4. QED
    BY <2>2, <2>3 DEF UnusedOK
<1>11. QED
  BY <1>2, <1>3, <1>4, <1>5, <1>7, <1>8, <1>9, <1>10 DEF Shape, ns

(* An incarnation that no open record counts on, or one that failed and    *)
(* has not reported it, moves on.                                          *)
LEMMA HostMoves ==
  ASSUME NEW rs, NEW ks, NEW hs, Shape(rs, ks, hs), NEW h \in Hosts, NEW v \in HostFields,
         v.phase \notin {"starting", "ready"}, hs[h].phase # "gone",
         v.owner = hs[h].owner \/ v = NoHost,
         \A r \in Records : ~rs[r].closed /\ rs[r].current = h =>
           rs[r].state = "ready" /\ v.phase = "failed"
  PROVE  Shape(rs, ks, [hs EXCEPT ![h] = v])
<1> DEFINE os == [hs EXCEPT ![h] = v]
<1>1. os \in [Hosts -> HostFields] /\ os[h] = v /\ \A g \in Hosts \ {h} : os[g] = hs[g]
  BY DEF Shape, HostsOK
<1> HIDE DEF os
<1>2. HostsOK(os) /\ UnusedOK(rs, os)
  <2>1. NoHost.phase = "gone" /\ hs[h].owner # 0 /\ hs[h].owner \in Records
    BY BoundsAssumption DEF NoHost, Shape, HostsOK
  <2>2. HostsOK(os)
    BY <1>1, <2>1 DEF Shape, HostsOK
  <2>3. UnusedOK(rs, os)
    BY <1>1, <2>1 DEF Shape, UnusedOK
  <2>4. QED
    BY <2>2, <2>3
<1>3. ASSUME NEW r \in Records, ~rs[r].closed, rs[r].current # 0
      PROVE  \/ rs[r].current # h /\ rs[r].current \in Hosts
                /\ os[rs[r].current] = hs[rs[r].current]
             \/ rs[r].current = h /\ rs[r].state = "ready" /\ os[h].phase = "failed"
                /\ os[h].owner = r
  <2>1. rs[r].current \in Hosts /\ hs[rs[r].current].owner = r
    BY <1>3, OwnHost
  <2>2. v.owner = hs[h].owner \/ v.phase = "gone"
    BY DEF NoHost
  <2>3. QED
    BY <1>1, <1>3, <2>1, <2>2
<1>4. PairOK(rs, os)
  <2>1. ASSUME NEW r \in Records
        PROVE  PairOK(rs, os)!1!(r)
    <3>1. ASSUME ~rs[r].closed, rs[r].current # 0
          PROVE  /\ os[rs[r].current].owner = r
                 /\ rs[r].state = "starting" => os[rs[r].current].phase = "starting"
                 /\ rs[r].state = "ready" => os[rs[r].current].phase \in {"ready", "failed"}
      BY <1>3, <3>1 DEF Shape, PairOK
    <3>2. ASSUME ~rs[r].closed, rs[r].state = "queued", ~rs[r].failed, NEW g \in Hosts,
                 os[g].owner = r
          PROVE  os[g].phase = "gone"
      <4>1. NoHost.phase = "gone"
        BY DEF NoHost
      <4>2. CASE g = h
        BY <1>1, <3>2, <4>1, <4>2 DEF Shape, PairOK
      <4>3. CASE g # h
        BY <1>1, <3>2, <4>3 DEF Shape, PairOK
      <4>4. QED
        BY <4>2, <4>3
    <3>3. QED
      BY <3>1, <3>2
  <2>2. \A g \in Hosts : os[g].phase \in {"starting", "ready"} =>
          ~rs[os[g].owner].closed /\ rs[os[g].owner].current = g
    BY <1>1 DEF Shape, PairOK
  <2>3. QED
    BY <2>1, <2>2 DEF PairOK
<1>5. MountOK(rs, os)
  <2>1. \A g \in Hosts : os[g].phase = "starting" => os[g].mount = NoPage
    BY <1>1 DEF Shape, MountOK
  <2>2. ASSUME NEW r \in Records
        PROVE  MountOK(rs, os)!2!(r)
    BY <1>3 DEF Shape, MountOK
  <2>3. QED
    BY <2>1, <2>2 DEF MountOK
<1>6. SizeOK(rs, os)
  <2> SUFFICES ASSUME NEW r \in Records, ~rs[r].closed
               PROVE  SizeOK(rs, os)!(r)!2
    BY DEF SizeOK
  <2>1. rs[r].state \in {"starting", "ready"} => rs[r].current # 0
    BY DEF Shape, LifeOK
  <2>2. QED
    BY <1>3, <2>1 DEF Shape, SizeOK
<1>7. QED
  BY <1>2, <1>4, <1>5, <1>6 DEF Shape, os

LEMMA DyingFields ==
  ASSUME NEW o \in Records \cup {0}, NEW phase \in Phases
  PROVE  /\ Dying(o, phase) \in HostFields
         /\ Dying(o, phase).owner = o /\ Dying(o, phase).phase = phase
BY DEF Dying, NoHost, HostFields, AnySize, Phases

LEMMA StopFields ==
  ASSUME NEW hs \in [Hosts -> HostFields], NEW h \in Hosts
  PROVE  /\ Stop(hs, h) \in [Hosts -> HostFields]
         /\ Stop(hs, h)[h].owner = hs[h].owner
         /\ Stop(hs, h)[h].phase \notin {"starting", "ready"}
         /\ hs[h].phase \notin {"starting", "ready"} => Stop(hs, h)[h].phase = hs[h].phase
         /\ hs[h].phase = "ready" => Stop(hs, h)[h].phase = "stopping"
         /\ hs[h].phase = "starting" => Stop(hs, h)[h].phase = "aborted"
         /\ \A g \in Hosts \ {h} : Stop(hs, h)[g] = hs[g]
         /\ hs[h] = NoHost => Stop(hs, h)[h] = NoHost
<1> DEFINE next == CASE hs[h].phase = "ready" -> "stopping"
                     [] hs[h].phase = "starting" -> "aborted"
                     [] OTHER -> hs[h].phase
<1>1. h # 0 /\ hs[h].owner \in Records \cup {0} /\ hs[h].phase \in Phases
  BY BoundsAssumption DEF HostFields
<1>2. /\ hs[h].phase = "ready" => next = "stopping"
      /\ hs[h].phase = "starting" => next = "aborted"
      /\ hs[h].phase \notin {"starting", "ready"} => next = hs[h].phase
  OBVIOUS
<1>3. Stop(hs, h) = [hs EXCEPT ![h] = Dying(hs[h].owner, next)]
  BY <1>1 DEF Stop
<1> HIDE DEF next
<1>4. next \in Phases /\ next \notin {"starting", "ready"}
  BY <1>1, <1>2 DEF Phases
<1>5. Dying(hs[h].owner, next) \in HostFields /\ Dying(hs[h].owner, next).owner = hs[h].owner
      /\ Dying(hs[h].owner, next).phase = next
  BY <1>1, <1>4, DyingFields
<1>6. /\ Stop(hs, h) \in [Hosts -> HostFields] /\ Stop(hs, h)[h] = Dying(hs[h].owner, next)
      /\ \A g \in Hosts \ {h} : Stop(hs, h)[g] = hs[g]
  BY <1>3, <1>5
<1>7. ASSUME hs[h] = NoHost
      PROVE  Dying(hs[h].owner, next) = NoHost
  <2>1. hs[h].owner = 0 /\ hs[h].phase = "gone"
    BY <1>7 DEF NoHost
  <2>2. next = "gone"
    BY <1>2, <2>1
  <2>3. Dying(0, "gone") = NoHost
    <3> DEFINE n == NoHost
    <3>1. n \in HostFields /\ n.owner = 0 /\ n.phase = "gone"
      BY DEF NoHost, HostFields, AnySize, Phases
    <3>2. Dying(0, "gone") = [n EXCEPT !.owner = 0, !.phase = "gone"]
      BY DEF Dying
    <3> HIDE DEF n
    <3>3. [n EXCEPT !.owner = 0, !.phase = "gone"] = n
      BY <3>1 DEF HostFields
    <3>4. QED
      BY <3>2, <3>3 DEF n
  <2>4. QED
    BY <2>1, <2>2, <2>3
<1>8. QED
  BY <1>2, <1>4, <1>5, <1>6, <1>7

(* The failure of incarnation h of r, told while r calls c its own.        *)
LEMMA FatalWindsDown ==
  ASSUME NEW rs, NEW ks, Shape(rs, ks, hosts), NEW r \in Records, ~rs[r].closed, rs[r].current # 0,
         NEW h \in Hosts, hosts[h].owner = r, hosts[h].phase # "gone",
         NEW v \in HostFields, v.phase \in {"failed", "gone"}, v.owner = r \/ v = NoHost
  PROVE  /\ WindsDown(hosts, Stop([hosts EXCEPT ![h] = v], rs[r].current), r)
         /\ \A g \in Hosts : Reaped(g) =>
              Stop([hosts EXCEPT ![h] = v], rs[r].current)[g].phase = "gone"
<1> DEFINE hs == [hosts EXCEPT ![h] = v]
           c == rs[r].current
           os == Stop(hs, c)
<1>1. /\ hosts \in [Hosts -> HostFields] /\ hs \in [Hosts -> HostFields] /\ hs[h] = v
      /\ \A g \in Hosts \ {h} : hs[g] = hosts[g]
  BY DEF Shape, HostsOK
<1>2. c \in Hosts /\ hosts[c].owner = r /\ hosts[c].phase \in {"starting", "ready", "failed"}
  BY OwnHost
<1> HIDE DEF hs, c
<1>3. /\ os \in [Hosts -> HostFields] /\ os[c].owner = hs[c].owner
      /\ os[c].phase \notin {"starting", "ready"}
      /\ hs[c].phase \notin {"starting", "ready"} => os[c].phase = hs[c].phase
      /\ \A g \in Hosts \ {c} : os[g] = hs[g]
      /\ hs[c] = NoHost => os[c] = NoHost
  BY <1>1, <1>2, StopFields
<1> HIDE DEF os
<1>4. ASSUME NEW g \in Hosts
      PROVE  \/ os[g] = hosts[g] /\ (hosts[g].phase \in {"starting", "ready"} => hosts[g].owner # r)
             \/ /\ hosts[g].owner = r /\ os[g].phase \notin {"starting", "ready"}
                /\ os[g].owner = r \/ os[g] = NoHost
                /\ hosts[g].phase # "gone"
  <2>1. CASE g = c
    BY <2>1, <1>1, <1>2, <1>3
  <2>2. CASE g # c /\ g = h
    BY <2>2, <1>1, <1>3
  <2>3. CASE g # c /\ g # h
    <3>1. os[g] = hosts[g]
      BY <2>3, <1>1, <1>3
    <3>2. hosts[g].phase \in {"starting", "ready"} => hosts[g].owner # r
      BY <2>3 DEF Shape, PairOK, c
    <3>3. QED
      BY <3>1, <3>2
  <2>4. QED
    BY <2>1, <2>2, <2>3
<1>5. WindsDown(hosts, os, r)
  BY <1>3, <1>4 DEF WindsDown
<1>6. \A g \in Hosts : Reaped(g) => os[g].phase = "gone"
  BY <1>4 DEF Reaped
<1>7. QED
  BY <1>5, <1>6 DEF os, hs, c

(* The record of r as a call found it, or with another page and size.      *)
SameLife(ks, old) ==
  /\ ks.key = old.key /\ ks.state = old.state /\ ks.closed = old.closed
  /\ ks.current = old.current /\ ks.failed = old.failed /\ ks.mounting = old.mounting
  /\ ks.pending = old.pending /\ ks.timer = old.timer
  /\ ks.asked \in {old.asked, NoSize}
  /\ ~old.closed => ks.page \in Pages

LEMMA FoldedRests ==
  ASSUME NEW ks \in RecordFields, ks.page \in Pages, ~ks.closed, ~ks.timer,
         ks.pending # NoSize => ks.asked \in {ks.pending, NoSize}
  PROVE  /\ Resting([Folded(ks) EXCEPT !.state = "circuit-open"])
         /\ Resting([Folded(ks) EXCEPT !.state = "backoff", !.timer = TRUE])
         /\ [Folded(ks) EXCEPT !.state = "circuit-open"].key = ks.key
         /\ [Folded(ks) EXCEPT !.state = "backoff", !.timer = TRUE].key = ks.key
         /\ [Folded(ks) EXCEPT !.state = "backoff", !.timer = TRUE].state = "backoff"
         /\ [Folded(ks) EXCEPT !.state = "circuit-open"].state = "circuit-open"
<1> DEFINE f == Folded(ks)
<1>1. /\ f \in RecordFields /\ f.key = ks.key /\ f.page = ks.page /\ f.closed = ks.closed
      /\ f.current = 0 /\ f.failed /\ ~f.mounting /\ f.pending = NoSize /\ f.timer = ks.timer
      /\ f.asked \in {NoSize, f.size}
  <2>1. /\ f.key = ks.key /\ f.page = ks.page /\ f.closed = ks.closed
        /\ f.current = 0 /\ f.failed = TRUE /\ f.mounting = FALSE /\ f.pending = NoSize
        /\ f.timer = ks.timer
    BY DEF Folded, RecordFields
  <2>2. CASE ks.pending # NoSize
    <3>1. f = [ks EXCEPT !.failed = TRUE, !.current = 0, !.mounted = NoPage, !.mounting = FALSE,
                         !.pending = NoSize, !.size = ks.pending, !.asked = ks.asked]
      BY <2>2 DEF Folded, RecordFields
    <3>2. f \in RecordFields /\ f.asked \in {NoSize, f.size}
      BY <2>2, <3>1 DEF RecordFields, AnySize
    <3>3. QED
      BY <2>1, <3>2
  <2>3. CASE ks.pending = NoSize
    <3>1. f = [ks EXCEPT !.failed = TRUE, !.current = 0, !.mounted = NoPage, !.mounting = FALSE,
                         !.pending = NoSize, !.size = ks.size, !.asked = NoSize]
      BY <2>3 DEF Folded, RecordFields
    <3>2. f \in RecordFields /\ f.asked \in {NoSize, f.size}
      BY <3>1 DEF RecordFields, AnySize
    <3>3. QED
      BY <2>1, <3>2
  <2>4. QED
    BY <2>2, <2>3
<1> HIDE DEF f
<1> DEFINE open == [f EXCEPT !.state = "circuit-open"]
           back == [f EXCEPT !.state = "backoff", !.timer = TRUE]
<1>2. Resting(open) /\ open.key = ks.key /\ open.state = "circuit-open"
  BY <1>1 DEF Resting, RecordFields, States
<1>3. Resting(back) /\ back.key = ks.key /\ back.state = "backoff"
  <2>1. f \in RecordFields /\ "backoff" \in States
    BY <1>1 DEF States
  <2>2. /\ back \in RecordFields /\ back.state = "backoff" /\ back.timer
        /\ back.key = f.key /\ back.page = f.page /\ back.size = f.size
        /\ back.closed = f.closed /\ back.current = f.current /\ back.failed = f.failed
        /\ back.mounting = f.mounting /\ back.pending = f.pending /\ back.asked = f.asked
    <3>1. back \in RecordFields
      BY <2>1 DEF RecordFields
    <3>2. QED
      BY <2>1, <3>1 DEF RecordFields
  <2> HIDE DEF back
  <2>3. QED
    BY <1>1, <2>2 DEF Resting
<1>4. QED
  BY <1>2, <1>3 DEF f

LEMMA Verdict ==
  ASSUME BudgetOK, NEW ks, ks.key \in Keys, ks.page \in Pages, NEW deterministic \in BOOLEAN,
         budget' = [budget EXCEPT ![restartKey(ks)] = recordFailure(restartKey(ks), deterministic)]
  PROVE  BudgetOK'
<1>1. restartKey(ks) \in Keys \X Pages
  BY DEF restartKey
<1>2. recordFailure(restartKey(ks), deterministic) \in [n: 0..MaxRestarts, open: BOOLEAN]
  <2> DEFINE b == budget[restartKey(ks)]
             v == recordFailure(restartKey(ks), deterministic)
  <2>1. b.n \in 0 .. MaxRestarts /\ b.open \in BOOLEAN /\ MaxRestarts \in Nat
    BY <1>1, BoundsAssumption DEF BudgetOK
  <2>2. v = IF b.open \/ deterministic \/ b.n = MaxRestarts
            THEN [n |-> 0, open |-> TRUE] ELSE [n |-> b.n + 1, open |-> FALSE]
    BY DEF recordFailure
  <2> HIDE DEF b, v
  <2>3. v \in [n: 0..MaxRestarts, open: BOOLEAN]
    BY <2>1, <2>2
  <2>4. QED
    BY <2>3 DEF v
<1>3. QED
  BY <1>1, <1>2 DEF BudgetOK

(* A failure is counted, and the record backs off or opens its circuit.    *)
LEMMA FatalKeeps ==
  ASSUME SupervisorInv, NEW r \in Records, NEW ks \in RecordFields, SameLife(ks, rec[r]),
         NEW h \in Hosts, hosts[h].owner = r, hosts[h].phase # "gone",
         NEW v \in HostFields, v.phase \in {"failed", "gone"}, v.owner = r \/ v = NoHost,
         rec[r].closed \/ rec[r].failed \/ rec[r].current # h \/ v.phase = "gone"
           \/ rec[r].state = "ready",
         NEW deterministic \in BOOLEAN,
         onIncarnationFatal(r, ks, deterministic, [hosts EXCEPT ![h] = v])
  PROVE  SupervisorInv'
<1> DEFINE hs == [hosts EXCEPT ![h] = v]
           stopped == Stop(hs, ks.current)
           verdict == recordFailure(restartKey(ks), deterministic)
           open == [Folded(ks) EXCEPT !.state = "circuit-open"]
           back == [Folded(ks) EXCEPT !.state = "backoff", !.timer = TRUE]
<1>1. /\ Shape(rec, keys, hosts) /\ QueueOK(rec, startQueue)
      /\ CapOK(rec, keys, startQueue, spares) /\ BudgetOK
  BY DEF SupervisorInv
<1>2. CASE ks.failed \/ ks.closed
  <2>1. hosts' = hs /\ UNCHANGED <<rec, keys, startQueue, budget, spares>>
    BY <1>2 DEF onIncarnationFatal
  <2>2. rec[r].failed \/ rec[r].closed
    BY <1>2 DEF SameLife
  <2>3. ASSUME NEW o \in Records, ~rec[o].closed, rec[o].current = h
        PROVE  FALSE
    <3>1. rec[o].current # 0
      BY <2>3, BoundsAssumption
    <3>2. hosts[h].owner = o /\ ~rec[o].failed
      BY <1>1, <2>3, <3>1, OwnHost
    <3>3. QED
      BY <2>2, <2>3, <3>2
  <2>4. Shape(rec, keys, hs)
    BY <1>1, <2>3, HostMoves
  <2> HIDE DEF hs
  <2>5. QED
    BY <1>1, <2>1, <2>4 DEF SupervisorInv, BudgetOK
<1>3. CASE ~(ks.failed \/ ks.closed)
  <2>1. /\ budget' = [budget EXCEPT ![restartKey(ks)] = verdict]
        /\ verdict.open => tryDrainQueue([rec EXCEPT ![r] = open], keys, startQueue, stopped)
        /\ ~verdict.open => /\ rec' = [rec EXCEPT ![r] = back] /\ hosts' = stopped
                            /\ UNCHANGED <<keys, startQueue, spares>>
    BY <1>3 DEF onIncarnationFatal
  <2>2. ~rec[r].closed /\ ~rec[r].failed /\ ks.current = rec[r].current /\ ks.page \in Pages
        /\ ks.key = rec[r].key
    BY <1>3 DEF SameLife
  <2>3. rec[r].state \in {"starting", "ready"} /\ rec[r].current # 0
    <3>1. rec[r].state # "queued"
      BY <1>1, <2>2 DEF Shape, PairOK
    <3>2. QED
      BY <1>1, <2>2, <3>1 DEF Shape, LifeOK, RecordsOK, RecordFields, States
  <2>4. ~ks.timer /\ ~ks.closed /\ (ks.pending # NoSize => ks.asked \in {ks.pending, NoSize})
    BY <1>1, <1>3, <2>2, <2>3 DEF Shape, LifeOK, SizeOK, SameLife
  <2>5. /\ Resting(open) /\ Resting(back) /\ open.key = ks.key /\ back.key = ks.key
        /\ back.state = "backoff" /\ open.state = "circuit-open"
    BY <2>2, <2>4, FoldedRests
  <2>6. /\ WindsDown(hosts, stopped, r)
        /\ \A g \in Hosts : Reaped(g) => stopped[g].phase = "gone"
    <3>1. stopped = Stop(hs, rec[r].current)
      BY <2>2
    <3> HIDE DEF stopped
    <3>2. WindsDown(hosts, Stop(hs, rec[r].current), r)
      BY <1>1, <2>2, <2>3, FatalWindsDown
    <3>3. \A g \in Hosts : Reaped(g) => Stop(hs, rec[r].current)[g].phase = "gone"
      BY <1>1, <2>2, <2>3, FatalWindsDown
    <3>4. QED
      BY <3>1, <3>2, <3>3
  <2> HIDE DEF stopped, open, back, verdict
  <2>7. BudgetOK'
    <3>1. ks.key \in Keys
      BY <1>1, <2>2 DEF Shape, MapOK
    <3>2. QED
      BY <1>1, <2>1, <2>2, <3>1, Verdict DEF verdict
  <2>8. ASSUME NEW w, Resting(w), w.key = ks.key
        PROVE  /\ Shape([rec EXCEPT ![r] = w], keys, stopped)
               /\ QueueOK([rec EXCEPT ![r] = w], startQueue)
               /\ [rec EXCEPT ![r] = w][r] = w
               /\ \A o \in Records \ {r} : [rec EXCEPT ![r] = w][o] = rec[o]
    <3>1. Shape([rec EXCEPT ![r] = w], keys, stopped)
      BY <1>1, <2>2, <2>6, <2>8, RestingShape
    <3>2. /\ [rec EXCEPT ![r] = w][r] = w
          /\ \A o \in Records \ {r} : [rec EXCEPT ![r] = w][o] = rec[o]
      BY <1>1 DEF Shape, RecordsOK
    <3>3. ASSUME NEW i \in 1 .. Len(startQueue)
          PROVE  startQueue[i] \in Records /\ startQueue[i] # r
      BY <1>1, <2>3, ElementOfSeq DEF QueueOK
    <3>4. QueueOK([rec EXCEPT ![r] = w], startQueue)
      BY <1>1, <3>2, <3>3 DEF QueueOK
    <3>5. QED
      BY <3>1, <3>2, <3>4
  <2>9. /\ \A k \in Keys : keys[k] \in Records \cup {0}
        /\ rec[r].state \in Live
    BY <1>1, <2>3 DEF Shape, MapOK, Live
  <2>10. CASE verdict.open
    <3> DEFINE rs == [rec EXCEPT ![r] = open]
    <3>1. /\ Shape(rs, keys, stopped) /\ QueueOK(rs, startQueue)
          /\ rs[r] = open /\ \A o \in Records \ {r} : rs[o] = rec[o]
      BY <2>5, <2>8
    <3>2. tryDrainQueue(rs, keys, startQueue, stopped)
      BY <2>1, <2>10
    <3> HIDE DEF rs
    <3>3. keyedLive(rs, keys) <= keyedLive(rec, keys)
      <4>1. LiveKeys(rs, keys) \subseteq LiveKeys(rec, keys)
        BY <2>9, <3>1 DEF LiveKeys
      <4>2. QED
        BY <4>1, CountGrows
    <3>4. spares \in 0 .. SpareCapacity /\ keyedLive(rs, keys) + spares <= MaxGlobalHosts
      <4>1. /\ keyedLive(rs, keys) \in Nat /\ keyedLive(rec, keys) \in Nat
            /\ spares \in 0 .. SpareCapacity /\ keyedLive(rec, keys) + spares <= MaxGlobalHosts
        BY <1>1, CountLive DEF CapOK
      <4>2. QED
        BY <3>3, <4>1, BoundsAssumption
    <3>5. /\ Shape(rec', keys', hosts') /\ QueueOK(rec', startQueue')
          /\ CapOK(rec', keys', startQueue', spares')
      BY <2>6, <3>1, <3>2, <3>4, Drained
    <3>6. QED
      BY <2>7, <3>5 DEF SupervisorInv
  <2>11. CASE ~verdict.open
    <3>1. /\ rec' = [rec EXCEPT ![r] = back] /\ hosts' = stopped
          /\ UNCHANGED <<keys, startQueue, spares>>
      BY <2>1, <2>11
    <3>2. /\ Shape(rec', keys, hosts') /\ QueueOK(rec', startQueue)
          /\ rec'[r] = back /\ \A o \in Records \ {r} : rec'[o] = rec[o]
      <4> DEFINE rs == [rec EXCEPT ![r] = back]
      <4>1. /\ Shape(rs, keys, stopped) /\ QueueOK(rs, startQueue)
            /\ rs[r] = back /\ \A o \in Records \ {r} : rs[o] = rec[o]
        BY <2>5, <2>8
      <4>2. rec' = rs /\ hosts' = stopped
        BY <3>1
      <4> HIDE DEF rs
      <4>3. QED
        BY <4>1, <4>2
    <3>3. LiveKeys(rec', keys) = LiveKeys(rec, keys)
      BY <2>5, <2>9, <3>2 DEF LiveKeys, Live
    <3>4. CapOK(rec', keys, startQueue, spares)
      BY <1>1, <3>3, CountSame DEF CapOK
    <3>5. QED
      BY <2>7, <3>1, <3>2, <3>4 DEF SupervisorInv
  <2>12. QED
    BY <2>10, <2>11
<1>4. QED
  BY <1>2, <1>3

-----------------------------------------------------------------------------
(* Steps of an open record and its own incarnation.                        *)

(* v is an open record of key k, and w the incarnation it calls its own.   *)
OwnOK(v, w, r, h) ==
  /\ v \in RecordFields /\ w \in HostFields /\ ~v.closed /\ ~v.timer /\ ~v.failed
  /\ v.page \in Pages /\ v.current = h /\ w.owner = r
  /\ \/ v.state = "starting" /\ w.phase = "starting" /\ ~v.mounting /\ w.mount = NoPage
     \/ v.state = "ready" /\ w.phase \in {"ready", "failed"} /\ v.pending = NoSize
  /\ w.phase = "ready" =>
       IF v.mounting THEN w.mount # NoPage
       ELSE w.mount = NoPage /\ (v.mounted = v.page \/ w.refused)
  /\ v.pending # NoSize => v.asked \in {v.pending, NoSize}
  /\ v.asked # NoSize =>
       /\ v.state = "starting" => v.asked \in {v.pending, v.size}
       /\ v.state = "starting" /\ v.pending = NoSize => w.size = v.asked
       /\ w.phase = "ready" => w.size = v.asked

LEMMA OwnIsOK ==
  ASSUME NEW rs, NEW ks, NEW hs, Shape(rs, ks, hs), NEW r \in Records,
         ~rs[r].closed, rs[r].current # 0
  PROVE  OwnOK(rs[r], hs[rs[r].current], r, rs[r].current)
<1>1. /\ rs[r].current \in Hosts /\ hs[rs[r].current].owner = r
      /\ rs[r].state \in {"starting", "ready"} /\ ~rs[r].failed
      /\ rs[r].state = "starting" <=> hs[rs[r].current].phase = "starting"
  BY OwnHost
<1>2. /\ rs[r] \in RecordFields /\ hs[rs[r].current] \in HostFields
      /\ rs[r].page \in Pages /\ ~rs[r].timer
      /\ rs[r].state = "starting" => ~rs[r].mounting
      /\ rs[r].state = "ready" => hs[rs[r].current].phase \in {"ready", "failed"}
  BY <1>1 DEF Shape, RecordsOK, HostsOK, LifeOK, PairOK
<1>3. /\ hs[rs[r].current].phase = "starting" => hs[rs[r].current].mount = NoPage
      /\ hs[rs[r].current].phase = "ready" =>
           IF rs[r].mounting THEN hs[rs[r].current].mount # NoPage
           ELSE /\ hs[rs[r].current].mount = NoPage
                /\ rs[r].mounted = rs[r].page \/ hs[rs[r].current].refused
  BY <1>1 DEF Shape, MountOK
<1>4. QED
  BY <1>1, <1>2, <1>3 DEF OwnOK, Shape, SizeOK

LEMMA OwnShape ==
  ASSUME NEW rs, NEW ks, NEW hs, Shape(rs, ks, hs), NEW r \in Records, ~rs[r].closed,
         NEW h \in Hosts, rs[r].current = h, NEW v, NEW w, OwnOK(v, w, r, h), v.key = rs[r].key
  PROVE  Shape([rs EXCEPT ![r] = v], ks, [hs EXCEPT ![h] = w])
<1> DEFINE ns == [rs EXCEPT ![r] = v]
           os == [hs EXCEPT ![h] = w]
<1>1. /\ rs \in [Records -> RecordFields] /\ hs \in [Hosts -> HostFields] /\ h # 0
      /\ hs[h].owner = r /\ hs[h].phase \in {"starting", "ready", "failed"}
  BY OwnHost, BoundsAssumption DEF Shape, RecordsOK, HostsOK
<1>2. /\ ns[r] = v /\ \A o \in Records \ {r} : ns[o] = rs[o]
      /\ os[h] = w /\ \A g \in Hosts \ {h} : os[g] = hs[g]
  BY <1>1
<1>3. ns \in [Records -> RecordFields] /\ os \in [Hosts -> HostFields]
  BY <1>1 DEF OwnOK
<1> HIDE DEF ns, os
<1>4. RecordsOK(ns) /\ HostsOK(os)
  <2>1. \A g \in Hosts : os[g].phase # "gone" => os[g].owner \in Records
    BY <1>2 DEF OwnOK, Shape, HostsOK
  <2>2. QED
    BY <1>3, <2>1 DEF RecordsOK, HostsOK
<1>5. MapOK(ns, ks)
  <2>1. ks \in [Keys -> Records \cup {0}] /\ 0 \notin Records
    BY BoundsAssumption DEF Shape, MapOK
  <2>2. \A o \in Records : ns[o].key = rs[o].key /\ (~ns[o].closed => ~rs[o].closed)
    BY <1>2
  <2>3. QED
    BY <2>1, <2>2 DEF Shape, MapOK
<1>6. LifeOK(ns)
  <2> SUFFICES ASSUME NEW o \in Records
               PROVE  LifeOK(ns)!(o)
    BY DEF LifeOK
  <2>1. CASE o = r
    BY <2>1, <1>1, <1>2 DEF OwnOK
  <2>2. CASE o # r
    BY <2>2, <1>2 DEF Shape, LifeOK
  <2>3. QED
    BY <2>1, <2>2
<1>7. ASSUME NEW o \in Records \ {r}, ~rs[o].closed, rs[o].current # 0
      PROVE  rs[o].current \in Hosts /\ os[rs[o].current] = hs[rs[o].current]
  BY <1>1, <1>2, <1>7, OwnHost
<1>8. PairOK(ns, os)
  <2>1. ASSUME NEW o \in Records
        PROVE  PairOK(ns, os)!1!(o)
    <3>1. CASE o = r
      BY <3>1, <1>1, <1>2 DEF OwnOK
    <3>2. CASE o # r
      <4>1. ns[o] = rs[o]
        BY <3>2, <1>2
      <4>2. ASSUME ~rs[o].closed, rs[o].state = "queued", ~rs[o].failed, NEW g \in Hosts,
                   os[g].owner = o
            PROVE  os[g].phase = "gone"
        BY <3>2, <4>2, <1>2 DEF Shape, PairOK, OwnOK
      <4>3. QED
        BY <3>2, <4>1, <4>2, <1>7 DEF Shape, PairOK
    <3>3. QED
      BY <3>1, <3>2
  <2>2. ASSUME NEW g \in Hosts, os[g].phase \in {"starting", "ready"}
        PROVE  ~ns[os[g].owner].closed /\ ns[os[g].owner].current = g
    <3>1. CASE g = h
      BY <3>1, <1>2 DEF OwnOK
    <3>2. CASE g # h
      <4>1. /\ os[g] = hs[g] /\ hs[g].owner \in Records
            /\ ~rs[hs[g].owner].closed /\ rs[hs[g].owner].current = g
        BY <2>2, <3>2, <1>2 DEF Shape, PairOK, HostsOK
      <4>2. hs[g].owner # r
        BY <3>2, <4>1
      <4>3. QED
        BY <4>1, <4>2, <1>2
    <3>3. QED
      BY <3>1, <3>2
  <2>3. QED
    BY <2>1, <2>2 DEF PairOK
<1>9. MountOK(ns, os)
  <2>1. \A g \in Hosts : os[g].phase = "starting" => os[g].mount = NoPage
    BY <1>2 DEF OwnOK, Shape, MountOK
  <2>2. ASSUME NEW o \in Records
        PROVE  MountOK(ns, os)!2!(o)
    <3>1. CASE o = r
      BY <3>1, <1>2 DEF OwnOK
    <3>2. CASE o # r
      BY <3>2, <1>2, <1>7 DEF Shape, MountOK
    <3>3. QED
      BY <3>1, <3>2
  <2>3. QED
    BY <2>1, <2>2 DEF MountOK
<1>10. SizeOK(ns, os)
  <2> SUFFICES ASSUME NEW o \in Records, ~ns[o].closed
               PROVE  SizeOK(ns, os)!(o)!2
    BY DEF SizeOK
  <2>1. CASE o = r
    BY <2>1, <1>2 DEF OwnOK
  <2>2. CASE o # r
    <3>1. ns[o] = rs[o] /\ ~rs[o].closed
      BY <2>2, <1>2
    <3>2. rs[o].state \in {"starting", "ready"} => rs[o].current # 0
      BY <3>1 DEF Shape, LifeOK
    <3>3. QED
      BY <2>2, <3>1, <3>2, <1>7 DEF Shape, SizeOK
  <2>3. QED
    BY <2>1, <2>2
<1>11. UnusedOK(ns, os)
  <2>1. rs[r].key # "none" /\ r # 0
    BY NamesAssumption, BoundsAssumption DEF Shape, MapOK
  <2>2. QED
    BY <1>2, <2>1 DEF Shape, UnusedOK, OwnOK
<1>12. QED
  BY <1>4, <1>5, <1>6, <1>8, <1>9, <1>10, <1>11 DEF Shape, ns, os

(* An open record without an incarnation is given a page or a size, loses  *)
(* its timer, or is queued again.                                          *)
LEMMA EditShape ==
  ASSUME NEW rs, NEW ks, NEW hs, Shape(rs, ks, hs), NEW r \in Records, ~rs[r].closed,
         rs[r].current = 0, NEW v \in RecordFields, v.page \in Pages, v.key = rs[r].key,
         v.state = rs[r].state \/ (v.state = "queued" /\ rs[r].state = "circuit-open"),
         ~v.closed, v.current = 0, v.failed = rs[r].failed, v.mounting = rs[r].mounting,
         v.timer => rs[r].timer,
         v.pending # NoSize => v.asked \in {v.pending, NoSize},
         v.asked # NoSize => v.asked \in {v.pending, v.size}
  PROVE  Shape([rs EXCEPT ![r] = v], ks, hs)
<1> DEFINE ns == [rs EXCEPT ![r] = v]
<1>1. /\ ns[r] = v /\ \A o \in Records \ {r} : ns[o] = rs[o]
      /\ RecordsOK(ns)
  BY DEF Shape, RecordsOK
<1> HIDE DEF ns
<1>2. rs[r].state \in {"queued", "backoff", "circuit-open"}
  BY DEF Shape, LifeOK
<1>3. MapOK(ns, ks)
  <2>1. ks \in [Keys -> Records \cup {0}] /\ 0 \notin Records
    BY BoundsAssumption DEF Shape, MapOK
  <2>2. \A o \in Records : ns[o].key = rs[o].key /\ (~ns[o].closed => ~rs[o].closed)
    BY <1>1
  <2>3. QED
    BY <2>1, <2>2 DEF Shape, MapOK
<1>4. LifeOK(ns)
  <2> SUFFICES ASSUME NEW o \in Records
               PROVE  LifeOK(ns)!(o)
    BY DEF LifeOK
  <2>1. CASE o = r
    BY <2>1, <1>1 DEF Shape, LifeOK
  <2>2. CASE o # r
    BY <2>2, <1>1 DEF Shape, LifeOK
  <2>3. QED
    BY <2>1, <2>2
<1>5. PairOK(ns, hs)
  <2>1. ASSUME NEW o \in Records
        PROVE  PairOK(ns, hs)!1!(o)
    <3>1. CASE o = r
      <4>1. v.state = "queued" /\ ~v.failed => rs[r].state = "queued" /\ ~rs[r].failed
        <5>1. LifeOK(rs)
          BY DEF Shape
        <5>2. rs[r].state = "circuit-open" => rs[r].failed
          BY <5>1 DEF LifeOK
        <5>3. QED
          BY <5>2
      <4>2. \A g \in Hosts :
              v.state = "queued" /\ ~v.failed /\ hs[g].owner = r => hs[g].phase = "gone"
        BY <4>1 DEF Shape, PairOK
      <4>3. QED
        BY <3>1, <1>1, <4>2
    <3>2. CASE o # r
      BY <3>2, <1>1 DEF Shape, PairOK
    <3>3. QED
      BY <3>1, <3>2
  <2>2. \A g \in Hosts : hs[g].phase \in {"starting", "ready"} =>
          ~ns[hs[g].owner].closed /\ ns[hs[g].owner].current = g
    <3>1. 0 \notin Hosts
      BY BoundsAssumption
    <3>2. QED
      BY <1>1, <3>1 DEF Shape, PairOK, HostsOK
  <2>3. QED
    BY <2>1, <2>2 DEF PairOK
<1>6. MountOK(ns, hs)
  <2>1. ASSUME NEW o \in Records
        PROVE  MountOK(ns, hs)!2!(o)
    <3>1. CASE o = r
      BY <3>1, <1>1
    <3>2. CASE o # r
      BY <3>2, <1>1 DEF Shape, MountOK
    <3>3. QED
      BY <3>1, <3>2
  <2>2. QED
    BY <2>1 DEF Shape, MountOK
<1>7. SizeOK(ns, hs)
  <2> SUFFICES ASSUME NEW o \in Records, ~ns[o].closed
               PROVE  SizeOK(ns, hs)!(o)!2
    BY DEF SizeOK
  <2>1. CASE o = r
    BY <2>1, <1>1, <1>2
  <2>2. CASE o # r
    BY <2>2, <1>1 DEF Shape, SizeOK
  <2>3. QED
    BY <2>1, <2>2
<1>8. UnusedOK(ns, hs)
  <2>1. rs[r].key # "none"
    BY NamesAssumption DEF Shape, MapOK
  <2>2. QED
    BY <1>1, <2>1 DEF Shape, UnusedOK
<1>9. QED
  BY <1>1, <1>3, <1>4, <1>5, <1>6, <1>7, <1>8 DEF Shape, ns

(* The queue and the cap see a record's state only.                        *)
LEMMA SameCounts ==
  ASSUME NEW rs, NEW ks, NEW q, NEW n, NEW os, NEW r \in Records,
         QueueOK(rs, q), MapOK(rs, ks), CapOK(rs, ks, q, n),
         \A o \in Records \ {r} : os[o] = rs[o],
         os[r].closed = rs[r].closed,
         \/ os[r].state = rs[r].state
         \/ os[r].state \in Live /\ rs[r].state \in Live
  PROVE  QueueOK(os, q) /\ CapOK(os, ks, q, n) /\ keyedLive(os, ks) = keyedLive(rs, ks)
<1>1. LiveKeys(os, ks) = LiveKeys(rs, ks)
  BY DEF LiveKeys, MapOK
<1>2. CapOK(os, ks, q, n) /\ keyedLive(os, ks) = keyedLive(rs, ks)
  BY <1>1, CountSame DEF CapOK
<1>3. QueueOK(os, q)
  <2>1. \A i \in 1 .. Len(q) : q[i] \in Records
    BY ElementOfSeq DEF QueueOK
  <2>2. QED
    BY <2>1 DEF QueueOK, Live
<1>4. QED
  BY <1>2, <1>3

-----------------------------------------------------------------------------
(* The actions.                                                            *)

LEMMA OwnStep ==
  ASSUME SupervisorInv, NEW r \in Records, ~rec[r].closed, NEW h \in Hosts, rec[r].current = h,
         NEW v, NEW w, OwnOK(v, w, r, h), v.key = rec[r].key,
         v.state = rec[r].state \/ (v.state \in Live /\ rec[r].state \in Live),
         rec' = [rec EXCEPT ![r] = v], hosts' = [hosts EXCEPT ![h] = w],
         UNCHANGED <<keys, startQueue, budget>>,
         CapOK(rec, keys, startQueue, spares')
  PROVE  SupervisorInv'
<1> DEFINE ns == [rec EXCEPT ![r] = v]
           os == [hosts EXCEPT ![h] = w]
<1>1. Shape(rec, keys, hosts) /\ QueueOK(rec, startQueue) /\ BudgetOK
  BY DEF SupervisorInv
<1>2. Shape(ns, keys, os)
  BY <1>1, OwnShape
<1>3. ns[r] = v /\ \A o \in Records \ {r} : ns[o] = rec[o]
  BY <1>1 DEF Shape, RecordsOK
<1> HIDE DEF ns, os
<1>4. MapOK(rec, keys) /\ ns[r].closed = rec[r].closed
  <2>1. ~v.closed /\ v \in RecordFields /\ rec[r] \in RecordFields
    BY <1>1 DEF OwnOK, Shape, RecordsOK
  <2>2. QED
    BY <1>1, <1>3, <2>1 DEF Shape, RecordFields
<1>5. QueueOK(ns, startQueue) /\ CapOK(ns, keys, startQueue, spares')
  BY <1>1, <1>3, <1>4, SameCounts
<1>6. rec' = ns /\ hosts' = os
  BY DEF ns, os
<1>7. Shape(rec', keys', hosts') /\ QueueOK(rec', startQueue')
      /\ CapOK(rec', keys', startQueue', spares') /\ BudgetOK'
  BY <1>1, <1>2, <1>5, <1>6 DEF BudgetOK
<1>8. QED
  BY <1>7 DEF SupervisorInv

LEMMA EditStep ==
  ASSUME SupervisorInv, NEW r \in Records, ~rec[r].closed, rec[r].current = 0,
         NEW v \in RecordFields, v.page \in Pages,
         v.key = rec[r].key, v.state = rec[r].state, ~v.closed, v.current = 0,
         v.failed = rec[r].failed, v.mounting = rec[r].mounting, v.timer = rec[r].timer,
         v.pending # NoSize => v.asked \in {v.pending, NoSize},
         v.asked # NoSize => v.asked \in {v.pending, v.size},
         rec' = [rec EXCEPT ![r] = v],
         UNCHANGED <<keys, startQueue, hosts, budget, spares>>
  PROVE  SupervisorInv'
<1> DEFINE ns == [rec EXCEPT ![r] = v]
<1>1. /\ Shape(rec, keys, hosts) /\ QueueOK(rec, startQueue) /\ BudgetOK
      /\ CapOK(rec, keys, startQueue, spares)
  BY DEF SupervisorInv
<1>2. Shape(ns, keys, hosts)
  BY <1>1, EditShape
<1>3. ns[r] = v /\ \A o \in Records \ {r} : ns[o] = rec[o]
  BY <1>1 DEF Shape, RecordsOK
<1> HIDE DEF ns
<1>4. MapOK(rec, keys) /\ ns[r].closed = rec[r].closed
  <2>1. rec[r] \in RecordFields
    BY <1>1 DEF Shape, RecordsOK
  <2>2. QED
    BY <1>1, <1>3, <2>1 DEF Shape, RecordFields
<1>5. QueueOK(ns, startQueue) /\ CapOK(ns, keys, startQueue, spares)
  BY <1>1, <1>3, <1>4, SameCounts
<1>6. Shape(rec', keys', hosts') /\ QueueOK(rec', startQueue')
      /\ CapOK(rec', keys', startQueue', spares') /\ BudgetOK'
  BY <1>1, <1>2, <1>5 DEF BudgetOK, ns
<1>7. QED
  BY <1>6 DEF SupervisorInv

(* A record brought to the page asked for.                                 *)
LEMMA ReconcileStep ==
  ASSUME SupervisorInv, NEW r \in Records, ~rec[r].closed, NEW h \in Hosts, rec[r].current = h,
         NEW ks, NEW w, ks.current = h,
         MountDue(ks) => OwnOK([ks EXCEPT !.mounting = TRUE], [w EXCEPT !.mount = ks.page], r, h),
         ~MountDue(ks) => OwnOK(ks, w, r, h),
         ks \in RecordFields, w \in HostFields, ks.key = rec[r].key,
         ks.state = rec[r].state \/ (ks.state \in Live /\ rec[r].state \in Live),
         reconcileMount(ks, [hosts EXCEPT ![h] = w], r),
         UNCHANGED <<keys, startQueue, budget>>,
         CapOK(rec, keys, startQueue, spares')
  PROVE  SupervisorInv'
<1>1. CASE MountDue(ks)
  <2> DEFINE v == [ks EXCEPT !.mounting = TRUE]
             u == [w EXCEPT !.mount = ks.page]
  <2>1. /\ rec' = [rec EXCEPT ![r] = v]
        /\ hosts' = [[hosts EXCEPT ![h] = w] EXCEPT ![h].mount = ks.page]
    BY <1>1 DEF reconcileMount
  <2>2. hosts \in [Hosts -> HostFields]
    BY DEF SupervisorInv, Shape, HostsOK
  <2>3. hosts' = [hosts EXCEPT ![h] = u]
    BY <2>1, <2>2
  <2>4. v.key = ks.key /\ v.state = ks.state /\ OwnOK(v, u, r, h)
    BY <1>1 DEF RecordFields
  <2> HIDE DEF u, v
  <2>5. QED
    BY <2>1, <2>3, <2>4, OwnStep
<1>2. CASE ~MountDue(ks)
  <2>1. rec' = [rec EXCEPT ![r] = ks] /\ hosts' = [hosts EXCEPT ![h] = w]
    BY <1>2 DEF reconcileMount
  <2>2. QED
    BY <1>2, <2>1, OwnStep
<1>3. QED
  BY <1>1, <1>2

LEMMA ResizeKeeps ==
  ASSUME SupervisorInv, NEW r \in Records, NEW s \in Resizes, Resize(r, s)
  PROVE  SupervisorInv'
<1>1. Shape(rec, keys, hosts) /\ CapOK(rec, keys, startQueue, spares)
  BY DEF SupervisorInv
<1>2. /\ ~rec[r].closed /\ UNCHANGED <<keys, startQueue, budget, spares>>
      /\ CapOK(rec, keys, startQueue, spares')
  BY <1>1 DEF Resize
<1>3. rec[r] \in RecordFields /\ rec[r].page \in Pages /\ hosts \in [Hosts -> HostFields]
  BY <1>1, <1>2 DEF Shape, RecordsOK, LifeOK, HostsOK
<1>4. s # NoSize /\ s \in AnySize
  BY NamesAssumption DEF AnySize
<1>5. CASE rec[r].state = "ready"
  <2> DEFINE h == rec[r].current
             v == [rec[r] EXCEPT !.asked = NoSize]
             w == [hosts[h] EXCEPT !.size = IF hosts[h].phase = "ready" THEN s ELSE @]
  <2>1. h # 0 /\ h \in Hosts /\ rec[r].current = h
    BY <1>1, <1>2, <1>3, <1>5 DEF Shape, LifeOK, RecordFields
  <2>2. rec' = [rec EXCEPT ![r].asked = NoSize]
        /\ hosts' = [hosts EXCEPT ![h].size = IF hosts[h].phase = "ready" THEN s ELSE @]
    BY <1>5 DEF Resize
  <2>3. rec' = [rec EXCEPT ![r] = v] /\ hosts' = [hosts EXCEPT ![h] = w]
    BY <2>2
  <2>4. OwnOK(rec[r], hosts[h], r, h)
    BY <1>1, <1>2, <2>1, OwnIsOK
  <2>5. v.asked = NoSize /\ v \in RecordFields /\ v.key = rec[r].key /\ v.state = rec[r].state
        /\ v.closed = rec[r].closed /\ v.timer = rec[r].timer /\ v.failed = rec[r].failed
        /\ v.page = rec[r].page /\ v.current = h /\ v.mounting = rec[r].mounting
        /\ v.pending = rec[r].pending /\ v.mounted = rec[r].mounted
    BY <1>3 DEF RecordFields, AnySize
  <2>6. w \in HostFields /\ w.owner = hosts[h].owner /\ w.phase = hosts[h].phase
        /\ w.mount = hosts[h].mount /\ w.refused = hosts[h].refused
    BY <1>3, <1>4, <2>1 DEF HostFields
  <2> HIDE DEF v, w, h
  <2>7. OwnOK(v, w, r, h)
    BY <2>4, <2>5, <2>6 DEF OwnOK
  <2>8. QED
    BY <1>2, <2>1, <2>3, <2>5, <2>7, OwnStep
<1>6. CASE rec[r].state # "ready"
  <2> DEFINE v == [rec[r] EXCEPT !.pending = s, !.asked = s]
  <2>1. rec' = [rec EXCEPT ![r].pending = s, ![r].asked = s] /\ hosts' = hosts
    BY <1>6 DEF Resize
  <2>2. rec' = [rec EXCEPT ![r] = v]
    BY <1>1, <2>1 DEF Shape, RecordsOK
  <2>3. v.asked = s /\ v.pending = s /\ v \in RecordFields /\ v.key = rec[r].key
        /\ v.state = rec[r].state /\ v.closed = rec[r].closed /\ v.timer = rec[r].timer
        /\ v.failed = rec[r].failed /\ v.page = rec[r].page /\ v.current = rec[r].current
        /\ v.mounting = rec[r].mounting /\ v.size = rec[r].size
    BY <1>3, <1>4 DEF RecordFields
  <2> HIDE DEF v
  <2>4. CASE rec[r].current = 0
    BY <1>2, <1>3, <2>1, <2>2, <2>3, <2>4, EditStep
  <2>5. CASE rec[r].current # 0
    <3> DEFINE h == rec[r].current
    <3>1. OwnOK(rec[r], hosts[h], r, h) /\ h \in Hosts /\ rec[r].current = h
      BY <1>1, <1>2, <2>5, OwnIsOK, OwnHost
    <3> HIDE DEF h
    <3>2. OwnOK(v, hosts[h], r, h)
      BY <1>4, <1>6, <2>3, <3>1 DEF OwnOK
    <3>3. hosts' = [hosts EXCEPT ![h] = hosts[h]]
      BY <1>3, <2>1
    <3>4. QED
      BY <1>2, <2>2, <2>3, <3>1, <3>2, <3>3, OwnStep
  <2>6. QED
    BY <2>4, <2>5
<1>7. QED
  BY <1>5, <1>6

(* A step of the incarnations alone.                                       *)
LEMMA HostsStep ==
  ASSUME SupervisorInv, Shape(rec, keys, hosts'),
         UNCHANGED <<rec, keys, startQueue, budget, spares>>
  PROVE  SupervisorInv'
<1>1. Shape(rec', keys', hosts') /\ QueueOK(rec', startQueue')
      /\ CapOK(rec', keys', startQueue', spares') /\ BudgetOK'
  BY DEF SupervisorInv, BudgetOK
<1>2. QED
  BY <1>1 DEF SupervisorInv

LEMMA HostFacts ==
  ASSUME SupervisorInv, NEW h \in Hosts, hosts[h].phase # "gone"
  PROVE  /\ hosts[h] \in HostFields /\ hosts[h].owner \in Records
         /\ rec[hosts[h].owner] \in RecordFields
         /\ SameLife(rec[hosts[h].owner], rec[hosts[h].owner])
         /\ hosts[h].phase \in {"starting", "ready"} =>
              /\ ~rec[hosts[h].owner].closed /\ rec[hosts[h].owner].current = h
              /\ rec[hosts[h].owner].state = hosts[h].phase
         /\ \A r \in Records : ~rec[r].closed /\ rec[r].current = h =>
              /\ rec[r].state \in {"starting", "ready"} /\ r = hosts[h].owner
              /\ rec[r].state = "starting" <=> hosts[h].phase = "starting"
         /\ NoHost \in HostFields /\ NoHost.phase = "gone"
<1>1. Shape(rec, keys, hosts) /\ 0 \notin Hosts
  BY BoundsAssumption DEF SupervisorInv
<1>2. hosts[h] \in HostFields /\ hosts[h].owner \in Records
  BY <1>1 DEF Shape, HostsOK
<1>3. rec[hosts[h].owner] \in RecordFields
  BY <1>1, <1>2 DEF Shape, RecordsOK
<1>4. SameLife(rec[hosts[h].owner], rec[hosts[h].owner])
  BY <1>1, <1>2 DEF Shape, LifeOK, SameLife
<1>5. \A r \in Records : ~rec[r].closed /\ rec[r].current = h =>
        /\ rec[r].state \in {"starting", "ready"} /\ r = hosts[h].owner
        /\ rec[r].state = "starting" <=> hosts[h].phase = "starting"
  BY <1>1, OwnHost
<1>6. hosts[h].phase \in {"starting", "ready"} =>
        ~rec[hosts[h].owner].closed /\ rec[hosts[h].owner].current = h
  BY <1>1 DEF Shape, PairOK
<1>7. NoHost \in HostFields /\ NoHost.phase = "gone"
  BY DEF NoHost, HostFields, AnySize, Phases
<1>8. QED
  BY <1>2, <1>3, <1>4, <1>5, <1>6, <1>7

LEMMA StartFailsKeeps ==
  ASSUME SupervisorInv, NEW h \in Hosts, StartFails(h)
  PROVE  SupervisorInv'
<1>1. PICK deterministic \in BOOLEAN :
        onIncarnationFatal(hosts[h].owner, rec[hosts[h].owner], deterministic,
                           [hosts EXCEPT ![h] = NoHost])
  BY DEF StartFails
<1>2. hosts[h].phase # "gone"
  BY DEF StartFails
<1> DEFINE r == hosts[h].owner
           ks == rec[r]
<1>3. r \in Records /\ ks \in RecordFields /\ SameLife(ks, rec[r])
      /\ NoHost \in HostFields /\ NoHost.phase = "gone"
  BY <1>2, HostFacts
<1>4. hosts[h].owner = r /\ onIncarnationFatal(r, ks, deterministic, [hosts EXCEPT ![h] = NoHost])
  BY <1>1
<1> HIDE DEF r, ks
<1>5. QED
  BY <1>2, <1>3, <1>4, FatalKeeps

LEMMA FatalReportedKeeps ==
  ASSUME SupervisorInv, NEW h \in Hosts, FatalReported(h)
  PROVE  SupervisorInv'
<1>1. PICK deterministic \in BOOLEAN :
        onIncarnationFatal(hosts[h].owner, rec[hosts[h].owner], deterministic,
                           [hosts EXCEPT ![h] = NoHost])
  BY DEF FatalReported
<1>2. hosts[h].phase # "gone"
  BY DEF FatalReported
<1> DEFINE r == hosts[h].owner
           ks == rec[r]
<1>3. r \in Records /\ ks \in RecordFields /\ SameLife(ks, rec[r])
      /\ NoHost \in HostFields /\ NoHost.phase = "gone"
  BY <1>2, HostFacts
<1>4. hosts[h].owner = r /\ onIncarnationFatal(r, ks, deterministic, [hosts EXCEPT ![h] = NoHost])
  BY <1>1
<1> HIDE DEF r, ks
<1>5. QED
  BY <1>2, <1>3, <1>4, FatalKeeps

LEMMA FailsKeeps ==
  ASSUME SupervisorInv, NEW h \in Hosts, Fails(h)
  PROVE  SupervisorInv'
<1> DEFINE r == hosts[h].owner
           ks == rec[r]
           v == Dying(r, "failed")
<1>1. hosts[h].phase = "ready"
  BY DEF Fails
<1>2. /\ r \in Records /\ ks \in RecordFields /\ SameLife(ks, rec[r])
      /\ ~rec[r].closed /\ rec[r].current = h /\ rec[r].state = "ready"
  BY <1>1, HostFacts
<1>3. v \in HostFields /\ v.owner = r /\ v.phase = "failed"
  BY <1>2, DyingFields DEF Phases
<1>4. CASE hosts[h].mount # NoPage
  <2>1. PICK deterministic \in BOOLEAN :
          onIncarnationFatal(r, ks, deterministic, [hosts EXCEPT ![h] = v])
    BY <1>2, <1>4 DEF Fails
  <2>2. hosts[h].owner = r
    OBVIOUS
  <2> HIDE DEF r, ks, v
  <2>3. QED
    BY <1>1, <1>2, <1>3, <2>1, <2>2, FatalKeeps
<1>5. CASE hosts[h].mount = NoPage
  <2>1. hosts' = [hosts EXCEPT ![h] = v] /\ UNCHANGED <<rec, keys, startQueue, budget, spares>>
    BY <1>5 DEF Fails
  <2>2. \A o \in Records : ~rec[o].closed /\ rec[o].current = h => rec[o].state = "ready"
    BY <1>1, <1>2, HostFacts
  <2>3. Shape(rec, keys, hosts) /\ hosts[h].owner = r
    BY DEF SupervisorInv
  <2> HIDE DEF r, ks, v
  <2>4. Shape(rec, keys, [hosts EXCEPT ![h] = v])
    BY <1>1, <1>3, <2>2, <2>3, HostMoves
  <2>5. QED
    BY <2>1, <2>4, HostsStep
<1>6. QED
  BY <1>4, <1>5

(* An incarnation its record has given up is a step nearer to its end.     *)
LEMMA GivenUpMoves ==
  ASSUME SupervisorInv, NEW h \in Hosts, hosts[h].phase \in {"aborted", "stopping"},
         NEW v \in HostFields, v.phase \notin {"starting", "ready"},
         v.owner = hosts[h].owner \/ v = NoHost,
         hosts' = [hosts EXCEPT ![h] = v], UNCHANGED <<rec, keys, startQueue, budget, spares>>
  PROVE  SupervisorInv'
<1>1. Shape(rec, keys, hosts) /\ 0 \notin Hosts
  BY BoundsAssumption DEF SupervisorInv
<1>2. ASSUME NEW o \in Records, ~rec[o].closed, rec[o].current = h
      PROVE  FALSE
    BY <1>1, <1>2, OwnHost
<1>3. Shape(rec, keys, [hosts EXCEPT ![h] = v])
  BY <1>1, <1>2, HostMoves
<1>4. QED
  BY <1>3, HostsStep

LEMMA LateReadyKeeps ==
  ASSUME SupervisorInv, NEW h \in Hosts, LateReady(h)
  PROVE  SupervisorInv'
<1>1. PICK phase \in {"failed", "stopping"} :
        hosts' = [hosts EXCEPT ![h] = Dying(@.owner, phase)]
  BY DEF LateReady
<1> DEFINE v == Dying(hosts[h].owner, phase)
<1>2. hosts[h].phase = "aborted" /\ UNCHANGED <<rec, keys, startQueue, budget, spares>>
  BY DEF LateReady
<1>3. v \in HostFields /\ v.owner = hosts[h].owner /\ v.phase = phase
  BY <1>2, HostFacts, DyingFields DEF Phases
<1>4. hosts' = [hosts EXCEPT ![h] = v]
  BY <1>1
<1> HIDE DEF v
<1>5. QED
  BY <1>2, <1>3, <1>4, GivenUpMoves

LEMMA StopEndsKeeps ==
  ASSUME SupervisorInv, NEW h \in Hosts, StopEnds(h)
  PROVE  SupervisorInv'
<1>1. /\ hosts[h].phase = "stopping" /\ hosts' = [hosts EXCEPT ![h] = NoHost]
      /\ UNCHANGED <<rec, keys, startQueue, budget, spares>>
  BY DEF StopEnds
<1>2. NoHost \in HostFields /\ NoHost.phase = "gone"
  BY <1>1, HostFacts
<1>3. QED
  BY <1>1, <1>2, GivenUpMoves

LEMMA WindowKeeps ==
  ASSUME SupervisorInv, NEW c \in Keys \X Pages, WindowMoves(c)
  PROVE  SupervisorInv'
<1>1. UNCHANGED <<rec, keys, startQueue, hosts, spares>>
  BY DEF WindowMoves
<1>2. BudgetOK'
  <2> DEFINE b == budget[c]
             v == [b EXCEPT !.n = @ - 1]
  <2>1. b \in [n: 0..MaxRestarts, open: BOOLEAN] /\ b.n > 0 /\ MaxRestarts \in Nat
        /\ budget' = [budget EXCEPT ![c] = v]
    BY BoundsAssumption DEF WindowMoves, SupervisorInv, BudgetOK
  <2>2. v \in [n: 0..MaxRestarts, open: BOOLEAN]
    <3> HIDE DEF b
    <3>1. b.n \in 0 .. MaxRestarts /\ b.n - 1 \in 0 .. MaxRestarts
      BY <2>1
    <3>2. QED
      BY <2>1, <3>1
  <2> HIDE DEF b, v
  <2>3. QED
    BY <2>1, <2>2 DEF SupervisorInv, BudgetOK
<1>3. Shape(rec', keys', hosts') /\ QueueOK(rec', startQueue')
      /\ CapOK(rec', keys', startQueue', spares')
  BY <1>1 DEF SupervisorInv
<1>4. QED
  BY <1>2, <1>3 DEF SupervisorInv

LEMMA SpareDiesKeeps ==
  ASSUME SupervisorInv, SpareDies
  PROVE  SupervisorInv'
<1>1. /\ Shape(rec, keys, hosts) /\ QueueOK(rec, startQueue)
      /\ CapOK(rec, keys, startQueue, spares) /\ BudgetOK
  BY DEF SupervisorInv
<1>2. UNCHANGED <<rec, keys, startQueue, hosts, budget>> /\ spares > 0 /\ spares' = spares - 1
  BY DEF SpareDies
<1>3. CapOK(rec, keys, startQueue, spares')
  <2>1. keyedLive(rec, keys) \in Nat /\ MaxGlobalHosts \in Nat /\ SpareCapacity \in Nat
    BY CountLive, BoundsAssumption
  <2>2. spares \in 0 .. SpareCapacity /\ keyedLive(rec, keys) + spares <= MaxGlobalHosts
        /\ (startQueue # << >> => keyedLive(rec, keys) >= MaxGlobalHosts)
    BY <1>1 DEF CapOK
  <2>3. spares' \in 0 .. SpareCapacity /\ keyedLive(rec, keys) + spares' <= MaxGlobalHosts
    BY <1>2, <2>1, <2>2
  <2>4. QED
    BY <2>2, <2>3 DEF CapOK
<1>4. Shape(rec', keys', hosts') /\ QueueOK(rec', startQueue')
      /\ CapOK(rec', keys', startQueue', spares') /\ BudgetOK'
  BY <1>1, <1>2, <1>3 DEF BudgetOK
<1>5. QED
  BY <1>4 DEF SupervisorInv

LEMMA PreviewAgainKeeps ==
  ASSUME SupervisorInv, NEW k \in Keys, NEW p \in Pages, NEW s \in Sizes, PreviewAgain(k, p, s)
  PROVE  SupervisorInv'
<1> DEFINE r == keys[k]
           ks == [rec[r] EXCEPT !.page = p, !.size = s, !.asked = NoSize]
           h == ks.current
<1>1. Shape(rec, keys, hosts) /\ CapOK(rec, keys, startQueue, spares)
  BY DEF SupervisorInv
<1>2. r \in Records /\ ~rec[r].closed
  BY <1>1 DEF PreviewAgain, Open, Shape, MapOK
<1>3. IF MountDue(ks) /\ hosts[h].phase = "failed"
      THEN onIncarnationFatal(r, ks, FALSE, hosts)
      ELSE reconcileMount(ks, hosts, r) /\ UNCHANGED <<keys, startQueue, budget, spares>>
  BY DEF PreviewAgain
<1>4. rec[r] \in RecordFields /\ hosts \in [Hosts -> HostFields]
  BY <1>1, <1>2 DEF Shape, RecordsOK, HostsOK
<1>5. /\ ks \in RecordFields /\ ks.key = rec[r].key /\ ks.page = p /\ ks.size = s
      /\ ks.state = rec[r].state /\ ks.closed = rec[r].closed /\ ks.current = rec[r].current
      /\ ks.failed = rec[r].failed /\ ks.mounted = rec[r].mounted
      /\ ks.mounting = rec[r].mounting /\ ks.pending = rec[r].pending
      /\ ks.timer = rec[r].timer /\ ks.asked = NoSize
  <2>1. s \in AnySize /\ NoSize \in AnySize /\ rec[r] \in RecordFields
    BY <1>4 DEF AnySize
  <2> HIDE DEF r
  <2>2. ks \in RecordFields
    BY <2>1 DEF RecordFields
  <2>3. QED
    BY <2>1, <2>2 DEF RecordFields
<1>6. SameLife(ks, rec[r]) /\ p # NoPage
  BY <1>5, NamesAssumption DEF SameLife
<1> HIDE DEF r, ks
<1>7. CASE h = 0
  <2>1. rec' = [rec EXCEPT ![r] = ks] /\ UNCHANGED <<keys, startQueue, hosts, budget, spares>>
    BY <1>3, <1>7 DEF MountDue, reconcileMount
  <2>2. QED
    BY <1>2, <1>5, <1>7, <2>1, EditStep
<1>8. CASE h # 0
  <2>1. /\ h \in Hosts /\ rec[r].current = h /\ hosts[h].owner = r
        /\ hosts[h].phase \in {"starting", "ready", "failed"}
        /\ OwnOK(rec[r], hosts[h], r, h)
    BY <1>1, <1>2, <1>5, <1>8, OwnHost, OwnIsOK
  <2>2. hosts = [hosts EXCEPT ![h] = hosts[h]] /\ hosts[h] \in HostFields
    BY <1>4, <2>1
  <2>3. ks.current = h
    OBVIOUS
  <2> HIDE DEF h
  <2>4. CASE MountDue(ks) /\ hosts[h].phase = "failed"
    <3>1. onIncarnationFatal(r, ks, FALSE, [hosts EXCEPT ![h] = hosts[h]])
      BY <1>3, <2>2, <2>4
    <3>2. rec[r].state = "ready"
      BY <1>5, <2>4 DEF MountDue
    <3>3. QED
      BY <1>2, <1>5, <1>6, <2>1, <2>2, <2>4, <3>1, <3>2, FatalKeeps
  <2>5. CASE ~(MountDue(ks) /\ hosts[h].phase = "failed")
    <3>1. /\ reconcileMount(ks, [hosts EXCEPT ![h] = hosts[h]], r)
          /\ UNCHANGED <<keys, startQueue, budget, spares>>
      BY <1>3, <2>2, <2>5
    <3> DEFINE v == [ks EXCEPT !.mounting = TRUE]
               u == [hosts[h] EXCEPT !.mount = ks.page]
    <3>2. ASSUME MountDue(ks)
          PROVE  OwnOK(v, u, r, h)
      <4>1. /\ v \in RecordFields /\ v.page = p /\ v.state = ks.state /\ v.closed = ks.closed
            /\ v.current = h /\ v.failed = ks.failed /\ v.mounting /\ v.timer = ks.timer
            /\ v.pending = ks.pending /\ v.asked = NoSize
        BY <1>5, <2>3 DEF RecordFields
      <4>2. /\ u \in HostFields /\ u.owner = r /\ u.phase = hosts[h].phase /\ u.mount = p
        BY <1>5, <2>1, <2>2 DEF HostFields
      <4>3. rec[r].state = "ready" /\ hosts[h].phase # "failed"
        BY <1>5, <2>5, <3>2 DEF MountDue
      <4> HIDE DEF u, v
      <4>4. QED
        BY <1>5, <1>6, <2>1, <4>1, <4>2, <4>3 DEF OwnOK
    <3>3. ASSUME ~MountDue(ks)
          PROVE  OwnOK(ks, hosts[h], r, h)
      <4>1. ~ks.closed /\ ks.current # 0
        BY <1>2, <1>5, <2>1, BoundsAssumption
      <4>2. hosts[h].phase = "ready" => ks.state = "ready"
        BY <1>5, <2>1 DEF OwnOK
      <4>3. hosts[h].phase = "ready" /\ ~ks.mounting => ks.mounted = ks.page
        BY <3>3, <4>1, <4>2 DEF MountDue
      <4>4. QED
        BY <1>5, <2>1, <2>3, <4>3 DEF OwnOK
    <3> HIDE DEF u, v
    <3>4. /\ MountDue(ks) =>
               OwnOK([ks EXCEPT !.mounting = TRUE], [hosts[h] EXCEPT !.mount = ks.page], r, h)
          /\ ~MountDue(ks) => OwnOK(ks, hosts[h], r, h)
      BY <3>2, <3>3 DEF u, v
    <3>5. CapOK(rec, keys, startQueue, spares')
      BY <1>1, <3>1
    <3>6. QED
      BY <1>2, <1>5, <2>1, <2>2, <2>3, <3>1, <3>4, <3>5, ReconcileStep
  <2>6. QED
    BY <2>4, <2>5
<1>9. QED
  BY <1>7, <1>8

(* Spares grow into the room the keys leave.                               *)
LEMMA ReplenishedFits ==
  ASSUME NEW rs, NEW ks, NEW q, CapOK(rs, ks, q, spares), spares' = Replenished(rs, ks)
  PROVE  CapOK(rs, ks, q, spares')
<1> DEFINE n == keyedLive(rs, ks)
           m == Max({spares, MaxGlobalHosts - n})
<1>1. /\ n \in Nat /\ MaxGlobalHosts \in Nat /\ SpareCapacity \in Nat /\ spares \in Nat
      /\ n + spares <= MaxGlobalHosts /\ (q # << >> => n >= MaxGlobalHosts)
  BY CountLive, BoundsAssumption DEF CapOK
<1>2. spares' = Min({SpareCapacity, m})
  BY DEF Replenished
<1> HIDE DEF n
<1>3. m = MaxGlobalHosts - n
  <2>1. spares \in Int /\ MaxGlobalHosts - n \in Int
    BY <1>1
  <2>2. m = IF spares >= MaxGlobalHosts - n THEN spares ELSE MaxGlobalHosts - n
    BY <2>1, MaxOfTwo
  <2>3. QED
    BY <1>1, <2>2
<1> HIDE DEF m
<1>4. spares' = IF SpareCapacity <= m THEN SpareCapacity ELSE m
  <2>1. SpareCapacity \in Int /\ m \in Int
    BY <1>1, <1>3
  <2>2. QED
    BY <1>2, <2>1, MinOfTwo
<1>5. spares' \in 0 .. SpareCapacity /\ n + spares' <= MaxGlobalHosts
  BY <1>1, <1>3, <1>4
<1>6. QED
  BY <1>1, <1>5 DEF CapOK, n

LEMMA StartReadyKeeps ==
  ASSUME SupervisorInv, NEW h \in Hosts, StartReady(h)
  PROVE  SupervisorInv'
<1> DEFINE r == hosts[h].owner
           ks == rec[r]
           ready == [hosts EXCEPT ![h].phase = "ready", ![h].page = NoPage]
           flushed == IF ks.pending = NoSize THEN ready
                      ELSE [ready EXCEPT ![h].size = ks.pending]
           own == [hosts[h] EXCEPT !.phase = "ready", !.page = NoPage,
                     !.size = IF ks.pending = NoSize THEN hosts[h].size ELSE ks.pending]
           new == [ks EXCEPT !.state = "ready", !.mounted = hosts[h].page, !.pending = NoSize]
<1>1. Shape(rec, keys, hosts) /\ CapOK(rec, keys, startQueue, spares)
  BY DEF SupervisorInv
<1>2. hosts[h].phase = "starting"
  BY DEF StartReady
<1>3. /\ r \in Records /\ ks \in RecordFields /\ hosts[h] \in HostFields
      /\ ~ks.closed /\ ks.current = h /\ ks.state = "starting"
  BY <1>2, HostFacts
<1>4. /\ reconcileMount(new, flushed, r) /\ spares' = Replenished(rec, keys)
      /\ UNCHANGED <<keys, startQueue, budget>>
  BY <1>3 DEF StartReady
<1>5. OwnOK(ks, hosts[h], r, h) /\ h # 0 /\ hosts \in [Hosts -> HostFields]
  <2>1. h # 0
    BY BoundsAssumption
  <2>2. QED
    BY <1>1, <1>3, <2>1, OwnIsOK DEF Shape, HostsOK
<1>6. flushed = [hosts EXCEPT ![h] = own]
  BY <1>5
<1>7. /\ new \in RecordFields /\ new.key = ks.key /\ new.page = ks.page /\ new.size = ks.size
      /\ new.state = "ready" /\ ~new.closed /\ new.current = h /\ new.failed = ks.failed
      /\ new.mounted = hosts[h].page /\ new.mounting = ks.mounting /\ new.pending = NoSize
      /\ new.timer = ks.timer /\ new.asked = ks.asked
  <2>1. /\ hosts[h].page \in Pages \cup {NoPage} /\ NoSize \in AnySize /\ "ready" \in States
    BY <1>3 DEF HostFields, States, AnySize
  <2> DEFINE p == hosts[h].page
  <2> HIDE DEF ks, p
  <2>2. new \in RecordFields
    BY <1>3, <2>1 DEF RecordFields, p
  <2>3. QED
    BY <1>3, <2>2 DEF RecordFields, p
<1>8. /\ own \in HostFields /\ own.owner = r /\ own.phase = "ready" /\ own.mount = hosts[h].mount
      /\ ks.pending # NoSize => own.size = ks.pending
      /\ ks.pending = NoSize => own.size = hosts[h].size
  <2>1. (IF ks.pending = NoSize THEN hosts[h].size ELSE ks.pending) \in AnySize
    BY <1>3 DEF RecordFields, HostFields
  <2>2. QED
    BY <1>3, <2>1 DEF HostFields, Phases
<1>9. ks.asked # NoSize => own.size = ks.asked
  BY <1>3, <1>5, <1>8 DEF OwnOK
<1>10. CapOK(rec, keys, startQueue, spares')
  BY <1>1, <1>4, ReplenishedFits
<1>11. /\ ks.page \in Pages /\ ks.page # NoPage /\ ~ks.timer /\ ~ks.failed /\ ~ks.mounting
       /\ hosts[h].mount = NoPage
  BY <1>3, <1>5, NamesAssumption DEF OwnOK
<1>12. rec[r].current = h /\ ~rec[r].closed /\ rec[r].state = "starting" /\ new.key = rec[r].key
  BY <1>3, <1>7
<1> HIDE DEF r, ks, flushed, ready, own, new
<1> DEFINE v == [new EXCEPT !.mounting = TRUE]
           u == [own EXCEPT !.mount = new.page]
<1>13. OwnOK(v, u, r, h)
  <2>1. /\ v \in RecordFields /\ v.page = new.page /\ v.state = "ready" /\ ~v.closed
        /\ v.current = h /\ v.failed = new.failed /\ v.mounting /\ v.timer = new.timer
        /\ v.pending = NoSize /\ v.asked = new.asked
    BY <1>7 DEF RecordFields
  <2>2. /\ u \in HostFields /\ u.owner = r /\ u.phase = "ready" /\ u.mount = new.page
        /\ u.size = own.size
    BY <1>7, <1>8, <1>11 DEF HostFields
  <2> HIDE DEF u, v
  <2>3. QED
    BY <1>7, <1>9, <1>11, <2>1, <2>2 DEF OwnOK
<1>14. ~MountDue(new) => OwnOK(new, own, r, h)
  BY <1>5, <1>7, <1>8, <1>9, <1>11 DEF OwnOK, MountDue
<1>15. reconcileMount(new, [hosts EXCEPT ![h] = own], r)
  BY <1>4, <1>6
<1>16. new.state \in Live /\ rec[r].state \in Live
  BY <1>7, <1>12 DEF Live
<1>17. r \in Records
  BY <1>3
<1>18. QED
  BY <1>4, <1>7, <1>8, <1>10, <1>12, <1>13, <1>14, <1>15, <1>16, <1>17, ReconcileStep

LEMMA MountReplyKeeps ==
  ASSUME SupervisorInv, NEW h \in Hosts, NEW ok \in BOOLEAN, MountReply(h, ok)
  PROVE  SupervisorInv'
<1> DEFINE r == hosts[h].owner
           new == [rec[r] EXCEPT !.mounting = FALSE,
                                 !.mounted = IF ok THEN hosts[h].mount ELSE @]
           hs == [hosts EXCEPT ![h].mount = NoPage, ![h].refused = @ \/ ~ok]
           own == [hosts[h] EXCEPT !.mount = NoPage, !.refused = @ \/ ~ok]
<1>1. Shape(rec, keys, hosts) /\ CapOK(rec, keys, startQueue, spares) /\ h # 0
  BY BoundsAssumption DEF SupervisorInv
<1>2. hosts[h].phase = "ready" /\ hosts[h].mount # NoPage
      /\ UNCHANGED <<keys, startQueue, budget, spares>>
  BY DEF MountReply
<1>3. /\ r \in Records /\ rec[r] \in RecordFields /\ hosts[h] \in HostFields
      /\ ~rec[r].closed /\ rec[r].current = h /\ rec[r].state = "ready"
  BY <1>2, HostFacts
<1>4. OwnOK(rec[r], hosts[h], r, h) /\ hosts \in [Hosts -> HostFields]
  BY <1>1, <1>3, OwnIsOK DEF Shape, HostsOK
<1>5. IF ok THEN reconcileMount(new, hs, r) ELSE rec' = [rec EXCEPT ![r] = new] /\ hosts' = hs
  BY DEF MountReply
<1>6. hs = [hosts EXCEPT ![h] = own]
  BY <1>4
<1>7. /\ new \in RecordFields /\ new.key = rec[r].key /\ new.page = rec[r].page
      /\ new.size = rec[r].size /\ new.state = "ready" /\ ~new.closed /\ new.current = h
      /\ new.failed = rec[r].failed /\ ~new.mounting
      /\ new.pending = rec[r].pending /\ new.timer = rec[r].timer /\ new.asked = rec[r].asked
  <2>1. (IF ok THEN hosts[h].mount ELSE rec[r].mounted) \in Pages \cup {NoPage}
    BY <1>3 DEF RecordFields, HostFields
  <2>2. QED
    BY <1>3, <2>1 DEF RecordFields
<1>8. /\ own \in HostFields /\ own.owner = r /\ own.phase = "ready" /\ own.mount = NoPage
      /\ own.size = hosts[h].size /\ (~ok => own.refused)
  BY <1>2, <1>3 DEF HostFields
<1>9. rec[r].page \in Pages /\ rec[r].page # NoPage
  BY <1>4, NamesAssumption DEF OwnOK
<1>10. CapOK(rec, keys, startQueue, spares')
  BY <1>1, <1>2
<1> HIDE DEF r, new, hs, own
<1>11. CASE ok
  <2> DEFINE v == [new EXCEPT !.mounting = TRUE]
             u == [own EXCEPT !.mount = new.page]
  <2>1. OwnOK(v, u, r, h)
    <3>1. /\ v \in RecordFields /\ v.page = new.page /\ v.state = "ready" /\ ~v.closed
          /\ v.current = h /\ v.failed = new.failed /\ v.mounting /\ v.timer = new.timer
          /\ v.pending = new.pending /\ v.asked = new.asked
      BY <1>7 DEF RecordFields
    <3>2. /\ u \in HostFields /\ u.owner = r /\ u.phase = "ready" /\ u.mount = new.page
          /\ u.size = own.size
      BY <1>7, <1>8, <1>9 DEF HostFields
    <3> HIDE DEF u, v
    <3>3. QED
      BY <1>2, <1>3, <1>4, <1>7, <1>8, <1>9, <3>1, <3>2 DEF OwnOK
  <2>2. ~MountDue(new) => OwnOK(new, own, r, h)
    BY <1>1, <1>2, <1>3, <1>4, <1>7, <1>8, <1>9 DEF OwnOK, MountDue
  <2>3. reconcileMount(new, [hosts EXCEPT ![h] = own], r)
    BY <1>5, <1>6, <1>11
  <2>4. new.state = rec[r].state
    BY <1>3, <1>7
  <2>5. QED
    BY <1>2, <1>3, <1>7, <1>8, <1>10, <2>1, <2>2, <2>3, <2>4, ReconcileStep
<1>12. CASE ~ok
  <2>1. rec' = [rec EXCEPT ![r] = new] /\ hosts' = [hosts EXCEPT ![h] = own]
    BY <1>5, <1>6, <1>12
  <2>2. OwnOK(new, own, r, h)
    BY <1>2, <1>3, <1>4, <1>7, <1>8, <1>9, <1>12 DEF OwnOK
  <2>3. new.state = rec[r].state
    BY <1>3, <1>7
  <2>4. QED
    BY <1>2, <1>3, <1>7, <1>10, <2>1, <2>2, <2>3, OwnStep
<1>13. QED
  BY <1>11, <1>12

-----------------------------------------------------------------------------
(* The queue grows and shrinks.                                            *)

LEMMA Appended ==
  ASSUME NEW rs, NEW q, QueueOK(rs, q), Len(q) < QueueCapacity, NEW r \in Records,
         \A i \in 1 .. Len(q) : q[i] # r,
         NEW os, \A o \in Records \ {r} : os[o] = rs[o], ~os[r].closed, os[r].state = "queued"
  PROVE  QueueOK(os, Append(q, r))
<1> DEFINE n == Len(q)
           a == Append(q, r)
<1>1. q \in Seq(Records) /\ n \in Nat /\ QueueCapacity \in Nat
  BY LenProperties, BoundsAssumption DEF QueueOK
<1>2. /\ a \in Seq(Records) /\ Len(a) = n + 1 /\ a[n + 1] = r
      /\ \A i \in 1 .. n : a[i] = q[i]
  BY <1>1, AppendProperties
<1>3. \A i \in 1 .. n : q[i] \in Records \ {r} /\ ~rs[q[i]].closed /\ rs[q[i]].state = "queued"
  BY <1>1, ElementOfSeq DEF QueueOK
<1> HIDE DEF a
<1>4. ASSUME NEW i \in 1 .. n + 1, NEW j \in 1 .. n + 1, a[i] = a[j]
      PROVE  i = j
  <2>1. \A k, l \in 1 .. n : q[k] = q[l] => k = l
    BY DEF QueueOK
  <2>2. CASE i = n + 1 \/ j = n + 1
    <3>1. \A k \in 1 .. n : a[k] # r
      BY <1>2, <1>3
    <3>2. \A k \in 1 .. n + 1 : k \in 1 .. n \/ k = n + 1
      BY <1>1
    <3> HIDE DEF n
    <3>3. QED
      BY <1>2, <1>4, <2>2, <3>1, <3>2
  <2>3. CASE i # n + 1 /\ j # n + 1
    <3>1. i \in 1 .. n /\ j \in 1 .. n
      BY <1>1, <2>3
    <3>2. q[i] = q[j]
      BY <1>2, <1>4, <3>1
    <3>3. QED
      BY <2>1, <3>1, <3>2
  <2>4. QED
    BY <2>2, <2>3
<1>5. ASSUME NEW i \in 1 .. n + 1
      PROVE  ~os[a[i]].closed /\ os[a[i]].state = "queued"
  <2>1. CASE i = n + 1
    BY <1>2, <2>1
  <2>2. CASE i # n + 1
    <3>1. i \in 1 .. n
      BY <1>1, <2>2
    <3>2. a[i] \in Records \ {r} /\ ~rs[a[i]].closed /\ rs[a[i]].state = "queued"
      BY <1>2, <1>3, <3>1
    <3>3. QED
      BY <3>2
  <2>3. QED
    BY <2>1, <2>2
<1>6. n + 1 <= QueueCapacity
  BY <1>1
<1>7. QED
  BY <1>2, <1>4, <1>5, <1>6 DEF QueueOK, a

(* A queue without the element at i.                                       *)
LEMMA RemovedAt ==
  ASSUME NEW rs, NEW q, QueueOK(rs, q), NEW i \in 1 .. Len(q),
         NEW os, \A o \in Records \ {q[i]} : os[o] = rs[o]
  PROVE  QueueOK(os, RemoveAt(q, i))
<1> DEFINE n == Len(q)
           a == SubSeq(q, 1, i - 1)
           b == SubSeq(q, i + 1, n)
           c == a \o b
           at(j) == IF j < i THEN j ELSE j + 1
<1>1. q \in Seq(Records) /\ n \in Nat /\ i \in Nat /\ 1 <= i /\ i <= n
  BY LenProperties DEF QueueOK
<1>2. \A j \in 1 .. n : q[j] \in Records
  BY <1>1, ElementOfSeq
<1>3. a \in Seq(Records) /\ Len(a) = i - 1 /\ \A j \in 1 .. i - 1 : a[j] = q[j]
  BY <1>1, <1>2, SubSeqProperties
<1>4. b \in Seq(Records) /\ Len(b) = n - i /\ \A j \in 1 .. n - i : b[j] = q[i + j]
  BY <1>1, <1>2, SubSeqProperties
<1> HIDE DEF a, b
<1>5. /\ c \in Seq(Records) /\ Len(c) = n - 1
      /\ \A j \in 1 .. n - 1 : c[j] = IF j <= i - 1 THEN a[j] ELSE b[j - (i - 1)]
  <2>1. /\ c \in Seq(Records) /\ Len(c) = Len(a) + Len(b)
        /\ \A j \in 1 .. Len(a) + Len(b) : c[j] = IF j <= Len(a) THEN a[j] ELSE b[j - Len(a)]
    BY <1>3, <1>4, ConcatProperties
  <2>2. Len(a) + Len(b) = n - 1
    BY <1>1, <1>3, <1>4
  <2> HIDE DEF c, n
  <2>3. QED
    BY <1>3, <2>1, <2>2
<1> HIDE DEF c
<1>6. ASSUME NEW j \in 1 .. n - 1
      PROVE  c[j] = q[at(j)] /\ at(j) \in 1 .. n /\ at(j) # i
  <2>1. CASE j < i
    <3>1. j \in 1 .. i - 1 /\ j <= i - 1
      BY <1>1, <2>1
    <3>2. QED
      BY <1>1, <1>3, <1>5, <2>1, <3>1
  <2>2. CASE ~(j < i)
    <3>1. j - (i - 1) \in 1 .. n - i /\ i + (j - (i - 1)) = j + 1 /\ ~(j <= i - 1)
      BY <1>1, <2>2
    <3>2. c[j] = q[j + 1]
      BY <1>4, <1>5, <3>1
    <3>3. QED
      BY <1>1, <2>2, <3>2
  <2>3. QED
    BY <2>1, <2>2
<1>7. \A j, k \in 1 .. n - 1 : at(j) = at(k) => j = k
  BY <1>1
<1> HIDE DEF at
<1>8. \A j, k \in 1 .. n : q[j] = q[k] => j = k
  BY DEF QueueOK
<1>9. \A j, k \in 1 .. n - 1 : c[j] = c[k] => j = k
  <2> SUFFICES ASSUME NEW j \in 1 .. n - 1, NEW k \in 1 .. n - 1, c[j] = c[k] PROVE j = k
    OBVIOUS
  <2>1. q[at(j)] = q[at(k)] /\ at(j) \in 1 .. n /\ at(k) \in 1 .. n
    BY <1>6
  <2>2. at(j) = at(k)
    BY <1>8, <2>1
  <2>3. QED
    BY <1>7, <2>2
<1>10. ASSUME NEW j \in 1 .. n - 1
       PROVE  ~os[c[j]].closed /\ os[c[j]].state = "queued"
  <2>1. c[j] = q[at(j)] /\ at(j) \in 1 .. n /\ at(j) # i
    BY <1>6
  <2>2. c[j] \in Records \ {q[i]} /\ ~rs[c[j]].closed /\ rs[c[j]].state = "queued"
    BY <1>2, <1>8, <2>1 DEF QueueOK
  <2>3. QED
    BY <2>2
<1>11. n - 1 <= QueueCapacity
  BY <1>1, BoundsAssumption DEF QueueOK
<1>12. QED
  BY <1>5, <1>9, <1>10, <1>11 DEF QueueOK, RemoveAt, a, b, c

(* A queue without r.                                                      *)
LEMMA Removed ==
  ASSUME NEW rs, NEW q, QueueOK(rs, q), NEW r \in Records,
         NEW os, \A o \in Records \ {r} : os[o] = rs[o]
  PROVE  QueueOK(os, RemoveFirst(q, r)) /\ (RemoveFirst(q, r) # << >> => q # << >>)
<1> DEFINE I == {i \in 1 .. Len(q) : q[i] = r}
<1>1. q \in Seq(Records) /\ Len(q) \in Nat
  BY LenProperties DEF QueueOK
<1>2. CASE I = {}
  <2>1. RemoveFirst(q, r) = q
    BY <1>2 DEF RemoveFirst
  <2>2. \A i \in 1 .. Len(q) : q[i] \in Records \ {r}
    BY <1>1, <1>2, ElementOfSeq
  <2>3. QueueOK(os, q)
    BY <2>2 DEF QueueOK
  <2>4. QED
    BY <2>1, <2>3
<1>3. CASE I # {}
  <2>1. Min(I) \in I
    <3>1. I \subseteq 1 .. Len(q) /\ IsFiniteSet(1 .. Len(q))
      BY <1>1, FS_Interval
    <3>2. IsFiniteSet(I) /\ I \in SUBSET Nat
      BY <1>1, <3>1, FS_Subset
    <3> HIDE DEF I
    <3>3. QED
      BY <1>3, <3>2, LeastNumber
  <2>2. RemoveFirst(q, r) = RemoveAt(q, Min(I))
    BY <1>3 DEF RemoveFirst, SelectInSeq
  <2>3. PICK i \in 1 .. Len(q) : q[i] = r /\ i = Min(I)
    BY <2>1
  <2> HIDE DEF I
  <2>4. QueueOK(os, RemoveAt(q, i))
    BY <2>3, RemovedAt
  <2>5. q # << >>
    BY <1>1, <2>3, EmptySeq
  <2>6. QED
    BY <2>2, <2>3, <2>4, <2>5
<1>4. QED
  BY <1>2, <1>3

-----------------------------------------------------------------------------
(* The calls that move the queue.                                          *)

LEMMA BackoffEndsKeeps ==
  ASSUME SupervisorInv, NEW r \in Records, BackoffEnds(r)
  PROVE  SupervisorInv'
<1> DEFINE v == [rec[r] EXCEPT !.timer = FALSE]
           rs == [rec EXCEPT ![r] = v]
<1>1. /\ Shape(rec, keys, hosts) /\ QueueOK(rec, startQueue)
      /\ CapOK(rec, keys, startQueue, spares) /\ BudgetOK
  BY DEF SupervisorInv
<1>2. /\ rec[r].timer /\ StartAll(rs, keys, startQueue, hosts, {r}) /\ UNCHANGED budget
  <2>1. [rec EXCEPT ![r].timer = FALSE] = rs
    BY <1>1 DEF Shape, RecordsOK
  <2>2. QED
    BY <2>1 DEF BackoffEnds
<1>3. /\ rec[r] \in RecordFields /\ ~rec[r].closed /\ rec[r].state = "backoff"
      /\ rec[r].current = 0 /\ rec[r].page \in Pages
  BY <1>1, <1>2 DEF Shape, RecordsOK, LifeOK
<1>4. /\ v \in RecordFields /\ v.key = rec[r].key /\ v.page = rec[r].page /\ v.size = rec[r].size
      /\ v.state = "backoff" /\ ~v.closed /\ v.current = 0 /\ v.failed = rec[r].failed
      /\ v.mounting = rec[r].mounting /\ v.pending = rec[r].pending /\ ~v.timer
      /\ v.asked = rec[r].asked
  BY <1>3 DEF RecordFields
<1>5. /\ v.pending # NoSize => v.asked \in {v.pending, NoSize}
      /\ v.asked # NoSize => v.asked \in {v.pending, v.size}
  BY <1>1, <1>3, <1>4 DEF Shape, SizeOK
<1>6. rs[r] = v /\ \A o \in Records \ {r} : rs[o] = rec[o]
  BY <1>1 DEF Shape, RecordsOK
<1> HIDE DEF v
<1>7. Shape(rs, keys, hosts)
  BY <1>1, <1>3, <1>4, <1>5, EditShape
<1> HIDE DEF rs
<1>8. QueueOK(rs, startQueue) /\ CapOK(rs, keys, startQueue, spares)
  <2>1. MapOK(rec, keys) /\ rs[r].closed = rec[r].closed /\ rs[r].state = rec[r].state
    BY <1>1, <1>3, <1>4, <1>6 DEF Shape, RecordFields
  <2>2. QED
    BY <1>1, <1>6, <2>1, SameCounts
<1>9. /\ Idle(rs[r]) /\ rs[r].state \in Live
      /\ \A i \in 1 .. Len(startQueue) : startQueue[i] # r
  BY <1>3, <1>4, <1>6, <1>1 DEF Idle, Live, QueueOK
<1>10. /\ Shape(rec', keys', hosts') /\ QueueOK(rec', startQueue')
       /\ CapOK(rec', keys', startQueue', spares')
  <2>1. /\ spares \in 0 .. SpareCapacity /\ keyedLive(rs, keys) + spares <= MaxGlobalHosts
        /\ startQueue # << >> => keyedLive(rs, keys) >= MaxGlobalHosts
    BY <1>8 DEF CapOK
  <2>2. \A h \in Hosts : Reaped(h) => hosts[h].phase = "gone"
    BY DEF Reaped
  <2>3. QED
    BY <1>2, <1>7, <1>8, <1>9, <2>1, <2>2, OneStarted
<1>11. QED
  BY <1>1, <1>2, <1>10 DEF SupervisorInv, BudgetOK

LEMMA RetryKeeps ==
  ASSUME SupervisorInv, NEW r \in Records, Retry(r)
  PROVE  SupervisorInv'
<1> DEFINE v == [rec[r] EXCEPT !.state = "queued"]
           rs == [rec EXCEPT ![r] = v]
<1>1. /\ Shape(rec, keys, hosts) /\ QueueOK(rec, startQueue)
      /\ CapOK(rec, keys, startQueue, spares) /\ BudgetOK
  BY DEF SupervisorInv
<1>2. ~rec[r].closed /\ rec[r].page \in Pages /\ rec[r].key \in Keys /\ rec[r] \in RecordFields
  <2>1. ~rec[r].closed
    BY DEF Retry
  <2>2. QED
    BY <1>1, <2>1 DEF Shape, RecordsOK, MapOK, LifeOK
<1>3. BudgetOK'
  <2> DEFINE c == restartKey(rec[r])
             b == [n |-> 0, open |-> FALSE]
  <2>1. c \in Keys \X Pages
    BY <1>2 DEF restartKey
  <2>2. b \in [n: 0..MaxRestarts, open: BOOLEAN]
    BY BoundsAssumption
  <2>3. budget' = [budget EXCEPT ![c] = b]
    BY DEF Retry
  <2> HIDE DEF c, b
  <2>4. QED
    BY <1>1, <2>1, <2>2, <2>3 DEF BudgetOK
<1>4. SUFFICES /\ Shape(rec', keys', hosts') /\ QueueOK(rec', startQueue')
               /\ CapOK(rec', keys', startQueue', spares')
  BY <1>3 DEF SupervisorInv
<1>5. CASE UNCHANGED <<rec, keys, startQueue, hosts, spares>>
  BY <1>1, <1>5
<1>6. ASSUME rec[r].state = "circuit-open"
      PROVE  /\ rec[r].current = 0 /\ ~rec[r].timer /\ Idle(rec[r]) /\ rec[r].state \notin Live
             /\ \A i \in 1 .. Len(startQueue) : startQueue[i] # r
  BY <1>1, <1>2, <1>6 DEF Shape, LifeOK, Idle, Live, QueueOK
<1>7. CASE /\ rec[r].state = "circuit-open"
           /\ keyedLive(rec, keys) < MaxGlobalHosts
           /\ StartAll(rec, keys, startQueue, hosts, {r})
  <2>1. /\ spares \in 0 .. SpareCapacity /\ keyedLive(rec, keys) + spares <= MaxGlobalHosts
        /\ startQueue # << >> => keyedLive(rec, keys) >= MaxGlobalHosts
    BY <1>1 DEF CapOK
  <2>2. \A h \in Hosts : Reaped(h) => hosts[h].phase = "gone"
    BY DEF Reaped
  <2>3. QED
    BY <1>1, <1>6, <1>7, <2>1, <2>2, OneStarted
<1>8. CASE /\ rec[r].state = "circuit-open"
           /\ keyedLive(rec, keys) >= MaxGlobalHosts
           /\ Len(startQueue) < QueueCapacity
           /\ rec' = rs /\ startQueue' = Append(startQueue, r)
           /\ UNCHANGED <<keys, hosts, spares>>
  <2>1. /\ v \in RecordFields /\ v.key = rec[r].key /\ v.page = rec[r].page
        /\ v.size = rec[r].size /\ v.state = "queued" /\ ~v.closed /\ v.current = 0
        /\ v.failed = rec[r].failed /\ v.mounting = rec[r].mounting
        /\ v.pending = rec[r].pending /\ v.timer = rec[r].timer /\ v.asked = rec[r].asked
    BY <1>2, <1>6, <1>8 DEF RecordFields, States
  <2>2. /\ v.pending # NoSize => v.asked \in {v.pending, NoSize}
        /\ v.asked # NoSize => v.asked \in {v.pending, v.size}
    BY <1>1, <1>2, <1>8, <2>1 DEF Shape, SizeOK
  <2>3. rs[r] = v /\ \A o \in Records \ {r} : rs[o] = rec[o]
    BY <1>1 DEF Shape, RecordsOK
  <2> HIDE DEF v
  <2>4. Shape(rs, keys, hosts)
    BY <1>1, <1>2, <1>6, <1>8, <2>1, <2>2, EditShape
  <2> HIDE DEF rs
  <2>5. QueueOK(rs, Append(startQueue, r))
    BY <1>1, <1>6, <1>8, <2>1, <2>3, Appended
  <2>6. keyedLive(rs, keys) = keyedLive(rec, keys)
    <3>1. LiveKeys(rs, keys) = LiveKeys(rec, keys)
      BY <1>1, <1>8, <2>1, <2>3 DEF LiveKeys, Live, Shape, MapOK
    <3>2. QED
      BY <3>1, CountSame
  <2>7. QED
    BY <1>1, <1>8, <2>4, <2>5, <2>6 DEF CapOK
<1>9. QED
  <2>1. \/ UNCHANGED <<rec, keys, startQueue, hosts, spares>>
        \/ /\ rec[r].state = "circuit-open"
           /\ keyedLive(rec, keys) < MaxGlobalHosts
           /\ StartAll(rec, keys, startQueue, hosts, {r})
        \/ /\ rec[r].state = "circuit-open"
           /\ keyedLive(rec, keys) >= MaxGlobalHosts
           /\ Len(startQueue) < QueueCapacity
           /\ rec' = [rec EXCEPT ![r].state = "queued"] /\ startQueue' = Append(startQueue, r)
           /\ UNCHANGED <<keys, hosts, spares>>
    BY DEF Retry
  <2>2. [rec EXCEPT ![r].state = "queued"] = rs
    BY <1>1 DEF Shape, RecordsOK
  <2> HIDE DEF rs
  <2>3. QED
    BY <1>5, <1>7, <1>8, <2>1, <2>2

(* A record closes: its queue place goes, its slot stays taken.            *)
LEMMA CloseKeeps ==
  ASSUME SupervisorInv, NEW r \in Records, Close(r)
  PROVE  SupervisorInv'
<1> DEFINE v == [NoRecord EXCEPT !.key = rec[r].key, !.state = rec[r].state,
                                 !.awaited = rec[r].current]
           rs == [rec EXCEPT ![r] = v]
           os == Stop(hosts, rec[r].current)
           q == RemoveFirst(startQueue, r)
<1>1. /\ Shape(rec, keys, hosts) /\ QueueOK(rec, startQueue)
      /\ CapOK(rec, keys, startQueue, spares) /\ BudgetOK
  BY DEF SupervisorInv
<1>2. /\ ~rec[r].closed /\ rec' = rs /\ startQueue' = q /\ hosts' = os
      /\ UNCHANGED <<keys, budget, spares>>
  BY DEF Close
<1>3. rec[r] \in RecordFields /\ hosts \in [Hosts -> HostFields] /\ 0 \notin Hosts
  BY <1>1, BoundsAssumption DEF Shape, RecordsOK, HostsOK
<1>4. Resting(v) /\ v.key = rec[r].key /\ v.state = rec[r].state /\ v.closed
  <2>1. NoSize \in AnySize
    BY DEF AnySize
  <2>2. v \in RecordFields
    BY <1>3, <2>1 DEF NoRecord, RecordFields
  <2>3. QED
    BY <2>2 DEF Resting, NoRecord
<1>5. rs[r] = v /\ \A o \in Records \ {r} : rs[o] = rec[o]
  BY <1>1 DEF Shape, RecordsOK
<1> HIDE DEF v
<1>6. \A g \in Hosts : hosts[g].phase \in {"starting", "ready"} /\ hosts[g].owner = r =>
        g = rec[r].current
  BY <1>1 DEF Shape, PairOK
<1>7. WindsDown(hosts, os, r)
  <2>1. CASE rec[r].current = 0
    <3>1. os = hosts
      BY <2>1 DEF Stop
    <3> HIDE DEF os
    <3>2. QED
      BY <1>3, <1>6, <2>1, <3>1 DEF WindsDown
  <2>2. CASE rec[r].current # 0
    <3> DEFINE h == rec[r].current
    <3>1. h \in Hosts /\ hosts[h].owner = r /\ hosts[h].phase # "gone"
      BY <1>1, <1>2, <2>2, OwnHost
    <3>2. /\ os \in [Hosts -> HostFields] /\ os[h].owner = r
          /\ os[h].phase \notin {"starting", "ready"} /\ \A g \in Hosts \ {h} : os[g] = hosts[g]
      <4> HIDE DEF h
      <4>1. /\ Stop(hosts, h) \in [Hosts -> HostFields]
            /\ Stop(hosts, h)[h].owner = hosts[h].owner
            /\ Stop(hosts, h)[h].phase \notin {"starting", "ready"}
            /\ \A g \in Hosts \ {h} : Stop(hosts, h)[g] = hosts[g]
        BY <1>3, <3>1, StopFields
      <4>2. QED
        BY <3>1, <4>1 DEF h
    <3>3. \A g \in Hosts \ {h} :
            hosts[g].phase \in {"starting", "ready"} => hosts[g].owner # r
      BY <1>6
    <3> HIDE DEF h, os
    <3>4. QED
      BY <3>1, <3>2, <3>3 DEF WindsDown
  <2>3. QED
    BY <2>1, <2>2
<1> HIDE DEF os
<1>8. Shape(rs, keys, os)
  BY <1>1, <1>2, <1>4, <1>7, RestingShape
<1> HIDE DEF rs
<1>9. QueueOK(rs, q) /\ (q # << >> => startQueue # << >>)
  BY <1>1, <1>5, Removed
<1>10. CapOK(rs, keys, q, spares)
  <2>1. LiveKeys(rs, keys) = LiveKeys(rec, keys)
    BY <1>1, <1>4, <1>5 DEF LiveKeys, Shape, MapOK
  <2>2. keyedLive(rs, keys) = keyedLive(rec, keys)
    BY <2>1, CountSame
  <2> HIDE DEF q
  <2>3. QED
    BY <1>1, <1>9, <2>2 DEF CapOK
<1>11. QED
  BY <1>1, <1>2, <1>8, <1>9, <1>10 DEF SupervisorInv, BudgetOK

(* The number of a closed record is given back, and its key if it is still *)
(* the record's.                                                           *)
LEMMA GoneShape ==
  ASSUME NEW rs, NEW ks, NEW hs, Shape(rs, ks, hs), NEW r \in Records, rs[r].closed,
         NEW os, os \in [Records -> RecordFields], os[r] = NoRecord,
         \A o \in Records \ {r} : os[o] = rs[o],
         NEW ls, ls \in [Keys -> Records \cup {0}],
         \A k \in Keys : ls[k] = IF ks[k] = r THEN 0 ELSE ks[k]
  PROVE  Shape(os, ls, hs) /\ LiveKeys(os, ls) \subseteq LiveKeys(rs, ks)
<1>1. /\ os[r].closed /\ ~os[r].timer /\ os[r].asked = NoSize /\ 0 \notin Records
      /\ RecordsOK(os)
  BY BoundsAssumption DEF NoRecord, RecordsOK
<1>2. MapOK(os, ls)
  <2>1. ASSUME NEW o \in Records, ~os[o].closed
        PROVE  os[o].key \in Keys /\ ls[os[o].key] = o
    BY <1>1, <2>1 DEF Shape, MapOK
  <2>2. ASSUME NEW k \in Keys, ls[k] # 0
        PROVE  os[ls[k]].key = k
    BY <2>2 DEF Shape, MapOK
  <2>3. QED
    BY <2>1, <2>2 DEF MapOK
<1>3. LifeOK(os)
  BY <1>1 DEF Shape, LifeOK
<1>4. PairOK(os, hs)
  <2>1. ASSUME NEW o \in Records
        PROVE  PairOK(os, hs)!1!(o)
    <3>1. CASE o = r
      BY <3>1, <1>1
    <3>2. CASE o # r
      BY <3>2 DEF Shape, PairOK
    <3>3. QED
      BY <3>1, <3>2
  <2>2. \A g \in Hosts : hs[g].phase \in {"starting", "ready"} =>
          ~os[hs[g].owner].closed /\ os[hs[g].owner].current = g
    BY DEF Shape, PairOK, HostsOK
  <2>3. QED
    BY <2>1, <2>2 DEF PairOK
<1>5. MountOK(os, hs)
  <2>1. ASSUME NEW o \in Records
        PROVE  MountOK(os, hs)!2!(o)
    <3>1. CASE o = r
      BY <3>1, <1>1
    <3>2. CASE o # r
      BY <3>2 DEF Shape, MountOK
    <3>3. QED
      BY <3>1, <3>2
  <2>2. QED
    BY <2>1 DEF Shape, MountOK
<1>6. SizeOK(os, hs)
  BY <1>1 DEF Shape, SizeOK
<1>7. HostsOK(hs) /\ UnusedOK(os, hs)
  BY DEF Shape, UnusedOK
<1>8. LiveKeys(os, ls) \subseteq LiveKeys(rs, ks)
  BY DEF LiveKeys, Shape, MapOK
<1>9. QED
  BY <1>1, <1>2, <1>3, <1>4, <1>5, <1>6, <1>7, <1>8 DEF Shape

LEMMA CloseEndsKeeps ==
  ASSUME SupervisorInv, NEW r \in Records, CloseEnds(r)
  PROVE  SupervisorInv'
<1> DEFINE rs == [rec EXCEPT ![r] = NoRecord]
           ks == [k \in Keys |-> IF keys[k] = r THEN 0 ELSE keys[k]]
<1>1. /\ Shape(rec, keys, hosts) /\ QueueOK(rec, startQueue)
      /\ CapOK(rec, keys, startQueue, spares) /\ BudgetOK
  BY DEF SupervisorInv
<1>2. rec[r].closed /\ tryDrainQueue(rs, ks, startQueue, hosts) /\ UNCHANGED budget
  BY DEF CloseEnds
<1>3. /\ rs \in [Records -> RecordFields] /\ rs[r] = NoRecord
      /\ \A o \in Records \ {r} : rs[o] = rec[o]
  <2>1. NoRecord \in RecordFields
    BY DEF NoRecord, RecordFields, States, AnySize
  <2>2. QED
    BY <1>1, <2>1 DEF Shape, RecordsOK
<1>4. /\ ks \in [Keys -> Records \cup {0}]
      /\ \A k \in Keys : ks[k] = IF keys[k] = r THEN 0 ELSE keys[k]
  BY <1>1 DEF Shape, MapOK
<1> HIDE DEF rs, ks
<1>5. Shape(rs, ks, hosts) /\ LiveKeys(rs, ks) \subseteq LiveKeys(rec, keys)
  BY <1>1, <1>2, <1>3, <1>4, GoneShape
<1>6. QueueOK(rs, startQueue)
  <2>1. \A i \in 1 .. Len(startQueue) : startQueue[i] \in Records \ {r}
    BY <1>1, <1>2, ElementOfSeq DEF QueueOK
  <2>2. QED
    BY <1>1, <1>3, <2>1 DEF QueueOK
<1>7. spares \in 0 .. SpareCapacity /\ keyedLive(rs, ks) + spares <= MaxGlobalHosts
  <2>1. /\ keyedLive(rs, ks) \in Nat /\ keyedLive(rec, keys) \in Nat
        /\ keyedLive(rs, ks) <= keyedLive(rec, keys)
    BY <1>5, CountLive, CountGrows
  <2>2. spares \in 0 .. SpareCapacity /\ keyedLive(rec, keys) + spares <= MaxGlobalHosts
    BY <1>1 DEF CapOK
  <2>3. QED
    BY <2>1, <2>2, BoundsAssumption
<1>8. \A h \in Hosts : Reaped(h) => hosts[h].phase = "gone"
  BY DEF Reaped
<1>9. /\ Shape(rec', keys', hosts') /\ QueueOK(rec', startQueue')
      /\ CapOK(rec', keys', startQueue', spares')
  BY <1>2, <1>5, <1>6, <1>7, <1>8, Drained
<1>10. QED
  BY <1>1, <1>2, <1>9 DEF SupervisorInv, BudgetOK

(* A new record takes a key that no open record has.                       *)
LEMMA FreshShape ==
  ASSUME NEW rs, NEW ks, NEW hs, Shape(rs, ks, hs), NEW r \in Records, rs[r] = NoRecord,
         \A g \in Hosts : hs[g].owner = r => hs[g].phase = "gone",
         NEW k \in Keys, \A o \in Records : ~rs[o].closed => rs[o].key # k,
         NEW os, os \in [Records -> RecordFields], \A o \in Records \ {r} : os[o] = rs[o],
         NEW p \in Pages, NEW s \in Sizes, os[r] = Fresh(k, p, s),
         NEW ls, ls \in [Keys -> Records \cup {0}], ls[k] = r,
         \A l \in Keys \ {k} : ls[l] = ks[l]
  PROVE  Shape(os, ls, hs) /\ LiveKeys(os, ls) = LiveKeys(rs, ks) \ {k}
<1>1. /\ os[r].key = k /\ os[r].page = p /\ os[r].state = "queued" /\ ~os[r].closed
      /\ os[r].current = 0 /\ ~os[r].failed /\ ~os[r].mounting /\ ~os[r].timer
      /\ os[r].pending = NoSize /\ os[r].asked = NoSize
  BY DEF Fresh, NoRecord
<1>2. rs[r].key = "none" /\ rs[r].closed /\ 0 \notin Records
  BY BoundsAssumption DEF NoRecord
<1>3. \A l \in Keys : ks[l] # r
  BY <1>2, NamesAssumption DEF Shape, MapOK
<1>4. MapOK(os, ls)
  <2>1. ASSUME NEW o \in Records, ~os[o].closed
        PROVE  os[o].key \in Keys /\ ls[os[o].key] = o
    <3>1. CASE o = r
      BY <1>1, <3>1
    <3>2. CASE o # r
      BY <2>1, <3>2 DEF Shape, MapOK
    <3>3. QED
      BY <3>1, <3>2
  <2>2. ASSUME NEW l \in Keys, ls[l] # 0
        PROVE  os[ls[l]].key = l
    <3>1. CASE l = k
      BY <1>1, <3>1
    <3>2. CASE l # k
      <4>1. ls[l] = ks[l] /\ ks[l] \in Records \ {r} /\ rs[ks[l]].key = l
        BY <1>3, <2>2, <3>2 DEF Shape, MapOK
      <4>2. QED
        BY <4>1
    <3>3. QED
      BY <3>1, <3>2
  <2>3. QED
    BY <2>1, <2>2 DEF MapOK
<1>5. LifeOK(os)
  <2> SUFFICES ASSUME NEW o \in Records
               PROVE  LifeOK(os)!(o)
    BY DEF LifeOK
  <2>1. CASE o = r
    BY <2>1, <1>1
  <2>2. CASE o # r
    BY <2>2 DEF Shape, LifeOK
  <2>3. QED
    BY <2>1, <2>2
<1>6. PairOK(os, hs)
  <2>1. ASSUME NEW o \in Records
        PROVE  PairOK(os, hs)!1!(o)
    <3>1. CASE o = r
      BY <3>1, <1>1
    <3>2. CASE o # r
      BY <3>2 DEF Shape, PairOK
    <3>3. QED
      BY <3>1, <3>2
  <2>2. ASSUME NEW g \in Hosts, hs[g].phase \in {"starting", "ready"}
        PROVE  ~os[hs[g].owner].closed /\ os[hs[g].owner].current = g
    <3>1. hs[g].owner \in Records \ {r}
      BY <2>2 DEF Shape, HostsOK
    <3>2. QED
      BY <2>2, <3>1 DEF Shape, PairOK
  <2>3. QED
    BY <2>1, <2>2 DEF PairOK
<1>7. MountOK(os, hs)
  <2>1. ASSUME NEW o \in Records
        PROVE  MountOK(os, hs)!2!(o)
    <3>1. CASE o = r
      BY <3>1, <1>1
    <3>2. CASE o # r
      BY <3>2 DEF Shape, MountOK
    <3>3. QED
      BY <3>1, <3>2
  <2>2. QED
    BY <2>1 DEF Shape, MountOK
<1>8. SizeOK(os, hs)
  <2> SUFFICES ASSUME NEW o \in Records, ~os[o].closed
               PROVE  SizeOK(os, hs)!(o)!2
    BY DEF SizeOK
  <2>1. CASE o = r
    BY <2>1, <1>1
  <2>2. CASE o # r
    BY <2>2 DEF Shape, SizeOK
  <2>3. QED
    BY <2>1, <2>2
<1>9. LiveKeys(os, ls) = LiveKeys(rs, ks) \ {k}
  <2>1. k \notin LiveKeys(os, ls)
    BY <1>1 DEF LiveKeys, Live
  <2>2. ASSUME NEW l \in Keys \ {k}
        PROVE  l \in LiveKeys(os, ls) <=> l \in LiveKeys(rs, ks)
    <3>1. ls[l] = ks[l] /\ ks[l] \in (Records \cup {0}) \ {r}
      BY <1>3 DEF Shape, MapOK
    <3>2. QED
      BY <3>1 DEF LiveKeys
  <2>3. LiveKeys(os, ls) \subseteq Keys /\ LiveKeys(rs, ks) \subseteq Keys
    BY DEF LiveKeys
  <2>4. QED
    BY <2>1, <2>2, <2>3
<1>10. RecordsOK(os) /\ HostsOK(hs) /\ UnusedOK(os, hs)
  BY <1>1, NamesAssumption DEF Shape, RecordsOK, UnusedOK
<1>11. QED
  BY <1>4, <1>5, <1>6, <1>7, <1>8, <1>9, <1>10 DEF Shape

(* A key that no open record has is taken off the map.                     *)
LEMMA KeyDropped ==
  ASSUME NEW rs, NEW ks, NEW hs, Shape(rs, ks, hs),
         NEW k \in Keys, \A o \in Records : ~rs[o].closed => rs[o].key # k,
         NEW ls, ls \in [Keys -> Records \cup {0}], ls[k] = 0,
         \A l \in Keys \ {k} : ls[l] = ks[l]
  PROVE  Shape(rs, ls, hs) /\ LiveKeys(rs, ls) = LiveKeys(rs, ks) \ {k}
<1>1. MapOK(rs, ls)
  BY DEF Shape, MapOK
<1>2. LiveKeys(rs, ls) = LiveKeys(rs, ks) \ {k}
  BY DEF LiveKeys
<1>3. QED
  BY <1>1, <1>2 DEF Shape

LEMMA PreviewKeeps ==
  ASSUME SupervisorInv, NEW k \in Keys, NEW p \in Pages, NEW s \in Sizes, Preview(k, p, s)
  PROVE  SupervisorInv'
<1> DEFINE r == Min(FreeRecords)
           rs == [rec EXCEPT ![r] = Fresh(k, p, s)]
           ks == [keys EXCEPT ![k] = r]
           ls == [keys EXCEPT ![k] = 0]
           n == keyedLive(rs, ks)
<1>1. /\ Shape(rec, keys, hosts) /\ QueueOK(rec, startQueue)
      /\ CapOK(rec, keys, startQueue, spares) /\ BudgetOK
  BY DEF SupervisorInv
<1>2. /\ ~Open(k) /\ FreeRecords # {} /\ UNCHANGED budget
      /\ IF n < MaxGlobalHosts
         THEN StartAll(rs, ks, startQueue, hosts, {r})
         ELSE /\ UNCHANGED <<hosts, spares>>
              /\ IF Len(startQueue) >= QueueCapacity
                 THEN keys' = ls /\ UNCHANGED <<rec, startQueue>>
                 ELSE keys' = ks /\ rec' = rs /\ startQueue' = Append(startQueue, r)
  BY DEF Preview
<1>3. r \in FreeRecords
  <2>1. FreeRecords \in SUBSET Records
    BY DEF FreeRecords
  <2>2. FreeRecords \in SUBSET Nat /\ IsFiniteSet(FreeRecords)
    BY <2>1, FS_Subset, BoundsAssumption
  <2>3. QED
    BY <1>2, <2>2, LeastNumber
<1>4. /\ r \in Records /\ rec[r] = NoRecord
      /\ \A g \in Hosts : hosts[g].owner = r => hosts[g].phase = "gone"
  BY <1>3 DEF FreeRecords, AllReaped, Reaped
<1> HIDE DEF r
<1>5. \A o \in Records : ~rec[o].closed => rec[o].key # k
  <2> SUFFICES ASSUME NEW o \in Records, ~rec[o].closed, rec[o].key = k PROVE FALSE
    OBVIOUS
  <2>1. keys[k] = o /\ o # 0
    BY <1>1, BoundsAssumption DEF Shape, MapOK
  <2>2. QED
    BY <1>2, <2>1 DEF Open
<1>6. /\ rs \in [Records -> RecordFields] /\ rs[r] = Fresh(k, p, s)
      /\ \A o \in Records \ {r} : rs[o] = rec[o]
  <2>1. Fresh(k, p, s) \in RecordFields
    BY DEF Fresh, NoRecord, RecordFields, States, AnySize
  <2>2. QED
    BY <1>1, <1>4, <2>1 DEF Shape, RecordsOK
<1>7. /\ ks \in [Keys -> Records \cup {0}] /\ ks[k] = r /\ \A l \in Keys \ {k} : ks[l] = keys[l]
      /\ ls \in [Keys -> Records \cup {0}] /\ ls[k] = 0 /\ \A l \in Keys \ {k} : ls[l] = keys[l]
  BY <1>1, <1>4 DEF Shape, MapOK
<1> HIDE DEF rs, ks, ls
<1>8. Shape(rs, ks, hosts) /\ LiveKeys(rs, ks) = LiveKeys(rec, keys) \ {k}
  BY <1>1, <1>4, <1>5, <1>6, <1>7, FreshShape
<1>9. Shape(rec, ls, hosts) /\ LiveKeys(rec, ls) = LiveKeys(rec, keys) \ {k}
  BY <1>1, <1>5, <1>7, KeyDropped
<1>10. /\ n \in Nat /\ keyedLive(rec, keys) \in Nat
       /\ n <= keyedLive(rec, keys) /\ keyedLive(rec, keys) <= n + 1 /\ keyedLive(rec, ls) = n
  <2>1. /\ LiveKeys(rs, ks) \subseteq LiveKeys(rec, keys)
        /\ LiveKeys(rec, keys) \subseteq LiveKeys(rs, ks) \cup {k}
        /\ LiveKeys(rec, ls) = LiveKeys(rs, ks)
    BY <1>8, <1>9
  <2>2. keyedLive(rs, ks) <= keyedLive(rec, keys)
    BY <2>1, CountGrows
  <2>3. keyedLive(rec, keys) <= keyedLive(rs, ks) + 1
    BY <2>1, CountButOne
  <2>4. keyedLive(rec, ls) = keyedLive(rs, ks)
    BY <2>1, CountSame
  <2>5. keyedLive(rs, ks) \in Nat /\ keyedLive(rec, keys) \in Nat
    BY CountLive
  <2>6. QED
    BY <2>2, <2>3, <2>4, <2>5
<1>11. n = keyedLive(rs, ks)
  OBVIOUS
<1> HIDE DEF n
<1>12. /\ spares \in 0 .. SpareCapacity /\ n + spares <= MaxGlobalHosts
       /\ startQueue # << >> => n + 1 >= MaxGlobalHosts
  <2>1. /\ spares \in 0 .. SpareCapacity /\ keyedLive(rec, keys) + spares <= MaxGlobalHosts
        /\ startQueue # << >> => keyedLive(rec, keys) >= MaxGlobalHosts
    BY <1>1 DEF CapOK
  <2>2. QED
    BY <1>10, <2>1, BoundsAssumption
<1>13. /\ \A i \in 1 .. Len(startQueue) : startQueue[i] \in Records \ {r}
       /\ QueueOK(rs, startQueue)
  <2>1. rec[r].closed
    BY <1>4 DEF NoRecord
  <2>2. \A i \in 1 .. Len(startQueue) : startQueue[i] \in Records \ {r}
    BY <1>1, <2>1, ElementOfSeq DEF QueueOK
  <2>3. QED
    BY <1>1, <1>6, <2>2 DEF QueueOK
<1>14. rs[r].state = "queued" /\ ~rs[r].closed /\ Idle(rs[r]) /\ rs[r].state \notin Live
  BY <1>6 DEF Fresh, NoRecord, Idle, Live
<1>15. SUFFICES /\ Shape(rec', keys', hosts') /\ QueueOK(rec', startQueue')
                /\ CapOK(rec', keys', startQueue', spares')
  BY <1>1, <1>2 DEF SupervisorInv, BudgetOK
<1>16. CASE n < MaxGlobalHosts
  <2>1. StartAll(rs, ks, startQueue, hosts, {r})
    BY <1>2, <1>16
  <2>2. \A h \in Hosts : Reaped(h) => hosts[h].phase = "gone"
    BY DEF Reaped
  <2>3. \A i \in 1 .. Len(startQueue) : startQueue[i] # r
    BY <1>13
  <2>4. QED
    BY <1>4, <1>8, <1>11, <1>12, <1>13, <1>14, <1>16, <2>1, <2>2, <2>3, OneStarted
<1>17. CASE ~(n < MaxGlobalHosts) /\ Len(startQueue) >= QueueCapacity
  <2>1. keys' = ls /\ UNCHANGED <<rec, startQueue, hosts, spares>>
    BY <1>2, <1>17
  <2>2. CapOK(rec, ls, startQueue, spares)
    BY <1>10, <1>12, <1>17, BoundsAssumption DEF CapOK
  <2>3. QED
    BY <1>1, <1>9, <2>1, <2>2
<1>18. CASE ~(n < MaxGlobalHosts) /\ ~(Len(startQueue) >= QueueCapacity)
  <2>1. /\ keys' = ks /\ rec' = rs /\ startQueue' = Append(startQueue, r)
        /\ UNCHANGED <<hosts, spares>>
    BY <1>2, <1>18
  <2>2. Len(startQueue) < QueueCapacity
    BY <1>1, <1>18, LenProperties, BoundsAssumption DEF QueueOK
  <2>3. \A i \in 1 .. Len(startQueue) : startQueue[i] # r
    BY <1>13
  <2>4. QueueOK(rs, Append(startQueue, r))
    BY <1>1, <1>4, <1>6, <1>14, <2>2, <2>3, Appended
  <2>5. CapOK(rs, ks, Append(startQueue, r), spares)
    BY <1>10, <1>11, <1>12, <1>18, BoundsAssumption DEF CapOK
  <2>6. QED
    BY <1>8, <2>1, <2>4, <2>5
<1>19. QED
  BY <1>16, <1>17, <1>18

-----------------------------------------------------------------------------
(* The invariant.                                                          *)

LEMMA SupervisorStarts == Init => SupervisorInv
<1> SUFFICES ASSUME Init PROVE SupervisorInv
  OBVIOUS
<1>1. \A r \in Records : rec[r] = NoRecord
  BY DEF Init
<1>2. \A h \in Hosts : hosts[h] = NoHost
  BY DEF Init
<1>3. NoRecord \in RecordFields /\ NoHost \in HostFields
  BY DEF NoRecord, RecordFields, NoHost, HostFields, States, AnySize, Phases
<1>4. /\ rec \in [Records -> RecordFields] /\ hosts \in [Hosts -> HostFields]
      /\ keys \in [Keys -> Records \cup {0}] /\ \A k \in Keys : keys[k] = 0
  BY <1>3 DEF Init
<1>5. /\ \A r \in Records : rec[r].closed /\ ~rec[r].timer /\ rec[r].asked = NoSize
      /\ \A h \in Hosts : hosts[h].phase = "gone"
  BY <1>1, <1>2 DEF NoRecord, NoHost
<1>6. Shape(rec, keys, hosts)
  <2>1. RecordsOK(rec) /\ HostsOK(hosts) /\ MapOK(rec, keys)
    BY <1>4, <1>5 DEF RecordsOK, HostsOK, MapOK
  <2>2. LifeOK(rec)
    BY <1>5 DEF LifeOK
  <2>3. PairOK(rec, hosts) /\ MountOK(rec, hosts) /\ SizeOK(rec, hosts)
    BY <1>5 DEF PairOK, MountOK, SizeOK
  <2>4. UnusedOK(rec, hosts)
    BY <1>1, <1>2 DEF UnusedOK
  <2>5. QED
    BY <2>1, <2>2, <2>3, <2>4 DEF Shape
<1>7. QueueOK(rec, startQueue)
  BY EmptySeq, BoundsAssumption DEF Init, QueueOK
<1>8. CapOK(rec, keys, startQueue, spares)
  <2>1. LiveKeys(rec, keys) = {}
    BY <1>4 DEF LiveKeys
  <2>2. keyedLive(rec, keys) = 0
    BY <2>1, CountLive, FS_EmptySet
  <2>3. QED
    BY <2>2, BoundsAssumption DEF Init, CapOK
<1>9. BudgetOK
  BY BoundsAssumption DEF Init, BudgetOK
<1>10. QED
  BY <1>6, <1>7, <1>8, <1>9 DEF SupervisorInv

LEMMA SupervisorStep == SupervisorInv /\ [Next]_vars => SupervisorInv'
<1> SUFFICES ASSUME SupervisorInv, [Next]_vars PROVE SupervisorInv'
  OBVIOUS
<1>1. ASSUME NEW k \in Keys, NEW p \in Pages, NEW s \in Sizes,
             PreviewAgain(k, p, s) \/ Preview(k, p, s)
      PROVE  SupervisorInv'
  BY <1>1, PreviewAgainKeeps, PreviewKeeps
<1>2. ASSUME NEW r \in Records, NEW s \in Resizes, Resize(r, s)
      PROVE  SupervisorInv'
  BY <1>2, ResizeKeeps
<1>3. ASSUME NEW r \in Records, Retry(r) \/ Close(r) \/ CloseEnds(r) \/ BackoffEnds(r)
      PROVE  SupervisorInv'
  BY <1>3, RetryKeeps, CloseKeeps, CloseEndsKeeps, BackoffEndsKeeps
<1>4. ASSUME NEW h \in Hosts, HostEnds(h) \/ LateReady(h) \/ Fails(h)
      PROVE  SupervisorInv'
  BY <1>4, StartReadyKeeps, StartFailsKeeps, FatalReportedKeeps, StopEndsKeeps,
     LateReadyKeeps, FailsKeeps DEF HostEnds
<1>5. ASSUME NEW h \in Hosts, NEW ok \in BOOLEAN, MountReply(h, ok)
      PROVE  SupervisorInv'
  BY <1>5, MountReplyKeeps
<1>6. ASSUME NEW c \in Keys \X Pages, WindowMoves(c)
      PROVE  SupervisorInv'
  BY <1>6, WindowKeeps
<1>7. CASE SpareDies
  BY <1>7, SpareDiesKeeps
<1>8. CASE UNCHANGED vars
  BY <1>8 DEF vars, SupervisorInv, BudgetOK
<1>9. QED
  BY <1>1, <1>2, <1>3, <1>4, <1>5, <1>6, <1>7, <1>8 DEF Next

(* The invariant holds of every reachable state.                           *)
THEOREM SupervisorAlways == Spec => []SupervisorInv
<1>1. QED
  BY SupervisorStarts, SupervisorStep, PTL DEF Spec

(* Types: an open record has a key, a page and a size, an incarnation that *)
(* is not reaped has its owner, and a number given back carries nothing    *)
(* over to its next use.                                                   *)
THEOREM SupervisorTypes == Spec => []TypeOK
<1>1. SupervisorInv => TypeOK
  <2> SUFFICES ASSUME SupervisorInv PROVE TypeOK
    OBVIOUS
  <2>1. Shape(rec, keys, hosts) /\ QueueOK(rec, startQueue) /\ spares \in 0 .. SpareCapacity
    BY DEF SupervisorInv, CapOK
  <2>2. ASSUME NEW r \in Records
        PROVE  rec[r] \in Record \cup {NoRecord}
    <3>1. rec[r] \in RecordFields /\ (rec[r].key = "none" => rec[r] = NoRecord)
      BY <2>1 DEF Shape, RecordsOK, UnusedOK
    <3>2. rec[r].key # "none" => rec[r] \in Record
      BY <3>1 DEF RecordFields, Record
    <3>3. QED
      BY <3>1, <3>2
  <2>3. ASSUME NEW h \in Hosts
        PROVE  hosts[h] \in Host \cup {NoHost}
    <3>1. hosts[h] \in HostFields /\ (hosts[h].owner = 0 => hosts[h] = NoHost)
      BY <2>1 DEF Shape, HostsOK, UnusedOK
    <3>2. hosts[h].owner # 0 => hosts[h] \in Host
      BY <3>1 DEF HostFields, Host
    <3>3. QED
      BY <3>1, <3>2
  <2>4. /\ rec \in [Records -> Record \cup {NoRecord}]
        /\ hosts \in [Hosts -> Host \cup {NoHost}]
    BY <2>1, <2>2, <2>3 DEF Shape, RecordsOK, HostsOK
  <2>5. /\ keys \in [Keys -> Records \cup {0}]
        /\ startQueue \in Seq(Records) /\ Len(startQueue) <= QueueCapacity
        /\ budget \in [Keys \X Pages -> [n: 0..MaxRestarts, open: BOOLEAN]]
    BY <2>1 DEF Shape, MapOK, QueueOK, SupervisorInv, BudgetOK
  <2>6. QED
    BY <2>1, <2>4, <2>5 DEF TypeOK
<1>2. QED
  BY <1>1, SupervisorAlways, PTL

(* An open session is the one the map holds for its key, for any number of *)
(* closes that end late: close() takes the entry away only if it is still  *)
(* the record's own.                                                       *)
THEOREM OpenIsMapped == Spec => []OpenMeansMapped
<1>1. SupervisorInv => OpenMeansMapped
  BY DEF SupervisorInv, Shape, MapOK, OpenMeansMapped
<1>2. QED
  BY <1>1, SupervisorAlways, PTL

(* Nobody waits in the start queue while a slot is free, and nobody in it  *)
(* is closed or running: every end of an incarnation drains the queue.     *)
THEOREM QueueIsServed == Spec => []QueueServed
<1>1. SupervisorInv => QueueServed
  <2> SUFFICES ASSUME SupervisorInv PROVE QueueServed
    OBVIOUS
  <2>1. startQueue # << >> => keyedLive(rec, keys) >= MaxGlobalHosts
    BY DEF SupervisorInv, CapOK
  <2>2. \A r \in ToSet(startQueue) : \E i \in 1 .. Len(startQueue) : startQueue[i] = r
    BY LenProperties DEF SupervisorInv, QueueOK, ToSet
  <2>3. \A r \in ToSet(startQueue) : rec[r].state = "queued" /\ ~rec[r].closed
    BY <2>2 DEF SupervisorInv, QueueOK
  <2>4. QED
    BY <2>1, <2>3 DEF QueueServed
<1>2. QED
  BY <1>1, SupervisorAlways, PTL

(* Keyed incarnations and idle spares together stay within the global cap, *)
(* although admission and draining count the keyed ones alone.             *)
THEOREM CapHolds == Spec => []LiveWithinCap
<1>1. SupervisorInv => LiveWithinCap
  BY DEF SupervisorInv, CapOK, LiveWithinCap, liveCount
<1>2. QED
  BY <1>1, SupervisorAlways, PTL

(* A page switch asked for while the child was starting, backing off or    *)
(* mounting is not lost: reconcileMount runs wherever one may have waited. *)
THEOREM SwitchesAreKept == Spec => []SwitchNotLost
<1>1. SupervisorInv => SwitchNotLost
  <2> SUFFICES ASSUME SupervisorInv, NEW r \in Records, MountDue(rec[r]),
                      hosts[rec[r].current].phase = "ready"
               PROVE  hosts[rec[r].current].refused
    BY DEF SwitchNotLost
  <2>1. MountOK(rec, hosts)
    BY DEF SupervisorInv, Shape
  <2>2. QED
    BY <2>1 DEF MountOK, MountDue
<1>2. QED
  BY <1>1, SupervisorAlways, PTL

(* A size buffered before ready reaches the child that becomes ready, over *)
(* any number of failed incarnations in between.                           *)
THEOREM ResizesAreKept == Spec => []BufferedResizeKept
<1>1. SupervisorInv => BufferedResizeKept
  <2> SUFFICES ASSUME SupervisorInv, NEW r \in Records, rec[r].asked # NoSize
               PROVE  BufferedResizeKept!(r)!2
    BY DEF BufferedResizeKept
  <2>1. LifeOK(rec) /\ SizeOK(rec, hosts)
    BY DEF SupervisorInv, Shape
  <2>2. ~rec[r].closed
    BY <2>1 DEF LifeOK
  <2>3. QED
    BY <2>1, <2>2 DEF SizeOK
<1>2. QED
  BY <1>1, SupervisorAlways, PTL

=============================================================================
