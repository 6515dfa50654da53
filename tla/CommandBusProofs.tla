--------------------------- MODULE CommandBusProofs ---------------------------
(***************************************************************************)
(* The mailbox and the event bus for every set of clients and command ids, *)
(* every capacity and horizon, and any number of batches.  The two halves  *)
(* share no variable but the counters, so each has an inductive invariant  *)
(* of its own.                                                             *)
(***************************************************************************)
EXTENDS CommandBus, SequenceTheorems, TLAPS

Envelope == [stamp : Nat, expected : Nat, cancel : BOOLEAN] \cup {NotSent}
Mirror == [on : BOOLEAN, revision : Nat, seq : Nat, of : Nat]
Batch == [of : Nat, events : Nat \ {0}]
Drain == [on : BOOLEAN, of : Nat, revision : Nat, left : Nat, notify : SUBSET Clients,
          tracked : BOOLEAN]

-----------------------------------------------------------------------------
(* Sequences.                                                              *)

(* What Append does to a sequence, entry by entry.                         *)
LEMMA AppendEntries ==
  ASSUME NEW S, NEW seq \in Seq(S), NEW e \in S
  PROVE  /\ Append(seq, e) \in Seq(S)
         /\ Append(seq, e) # << >>
         /\ Len(seq) \in Nat
         /\ Len(Append(seq, e)) = Len(seq) + 1
         /\ \A k \in 1 .. Len(seq) + 1 :
              Append(seq, e)[k] = IF k = Len(seq) + 1 THEN e ELSE seq[k]
         /\ \A k \in 1 .. Len(seq) + 1 : k = Len(seq) + 1 \/ k \in 1 .. Len(seq)
         /\ \A k \in 1 .. Len(seq) : seq[k] \in S
BY AppendProperties, LenProperties, ElementOfSeq

(* What Head and Tail take from a sequence, entry by entry.                *)
LEMMA TailEntries ==
  ASSUME NEW S, NEW seq \in Seq(S), seq # << >>
  PROVE  /\ Head(seq) = seq[1] /\ Head(seq) \in S
         /\ Tail(seq) \in Seq(S)
         /\ Len(seq) \in Nat \ {0}
         /\ Len(Tail(seq)) = Len(seq) - 1
         /\ \A k \in 1 .. Len(Tail(seq)) :
              k + 1 \in 1 .. Len(seq) /\ Tail(seq)[k] = seq[k + 1] /\ Tail(seq)[k] \in S
BY HeadTailProperties, LenProperties, EmptySeq, ElementOfSeq

TypeOfMirrors == mirrors \in [Clients -> Mirror]

-----------------------------------------------------------------------------
(* The ledger.                                                             *)

LedgerTypeOK ==
  /\ now \in Nat
  /\ envelope \in [Commands -> Envelope]
  /\ ledger \subseteq Commands
  /\ queue \in Seq(Commands)
  /\ runs \in [Commands -> Nat]

Scheduled(i) == \E k \in 1 .. Len(queue) : queue[k] = i

(* What the ledger has admitted: it has an envelope, and until its stamp   *)
(* is behind the floor its entry is kept.                                  *)
Guarded(i) ==
  /\ envelope[i].stamp >= 0
  /\ i \in ledger \/ envelope[i].stamp < floor

LedgerInv ==
  /\ LedgerTypeOK
  /\ \A i \in ledger : envelope[i].stamp >= 0
  /\ \A i \in Commands : Scheduled(i) \/ runs[i] > 0 => Guarded(i)
  /\ \A k, m \in 1 .. Len(queue) : queue[k] = queue[m] => k = m
  /\ \A k \in 1 .. Len(queue) : runs[queue[k]] = 0
  /\ AtMostOnce

LEMMA LedgerInit == Init => LedgerInv
<1> SUFFICES ASSUME Init PROVE LedgerInv
  OBVIOUS
<1>1. LedgerTypeOK
  BY EmptySeq DEF Init, LedgerTypeOK, NotSent, Envelope
<1>2. Len(queue) = 0
  BY EmptySeq DEF Init
<1>3. QED
  BY <1>1, <1>2 DEF Init, LedgerInv, Scheduled, AtMostOnce

(* Submitting an id, the stamp of which is the one in its envelope.        *)
LEMMA SubmitStep ==
  ASSUME LedgerInv, NEW i \in Commands, Submit(i, envelope'[i].stamp),
         envelope' \in [Commands -> Envelope], envelope'[i].stamp >= 0,
         \A j \in Commands : j # i \/ envelope[i].stamp >= 0 => envelope'[j] = envelope[j],
         UNCHANGED <<now, runs>>
  PROVE  LedgerInv'
<1> USE BusAssumption DEF LedgerInv, Guarded
<1> DEFINE stamp == envelope'[i].stamp
<1>1. floor' = floor /\ floor \in Int /\ stamp \in Nat
  BY DEF floor, LedgerTypeOK, Envelope, NotSent
<1>2. \A j \in Commands : Scheduled(j) \/ runs[j] > 0 => envelope'[j] = envelope[j]
  OBVIOUS
<1>3. \A j \in ledger : envelope'[j] = envelope[j]
  BY DEF LedgerTypeOK
<1>4. CASE UNCHANGED <<ledger, queue>>
  <2>1. LedgerTypeOK' /\ AtMostOnce'
    BY <1>4 DEF LedgerTypeOK, AtMostOnce
  <2>2. \A j \in Commands : Scheduled(j)' \/ runs'[j] > 0 => Guarded(j)'
    BY <1>1, <1>2, <1>4 DEF Scheduled
  <2>3. QED
    BY <1>3, <1>4, <2>1, <2>2
<1>5. CASE i \notin ledger /\ stamp >= floor
  <2>1. Swept \subseteq ledger /\ \A j \in ledger \ Swept : envelope[j].stamp < floor
    <3>1. \A j \in ledger : envelope[j].stamp \in Int
      BY DEF LedgerTypeOK, Envelope, NotSent
    <3>2. QED
      BY <1>1, <3>1 DEF Swept, Fresh
  <2>2. \A j \in Commands : Scheduled(j) \/ runs[j] > 0 =>
          j # i /\ envelope'[j].stamp >= 0 /\ (j \in Swept \/ envelope'[j].stamp < floor)
    BY <1>1, <1>2, <1>5, <2>1 DEF LedgerTypeOK, Envelope, NotSent
  <2>3. CASE ledger' = Swept /\ UNCHANGED queue
    <3>1. LedgerTypeOK' /\ AtMostOnce'
      BY <2>1, <2>3 DEF LedgerTypeOK, AtMostOnce
    <3>2. \A j \in Commands : Scheduled(j)' \/ runs'[j] > 0 => Guarded(j)'
      BY <1>1, <2>2, <2>3 DEF Scheduled
    <3>3. QED
      BY <1>3, <2>1, <2>3, <3>1, <3>2
  <2>4. CASE ledger' = Swept \cup {i} /\ queue' = Append(queue, i)
    <3>1. /\ queue' \in Seq(Commands)
          /\ Len(queue) \in Nat /\ Len(queue') = Len(queue) + 1
          /\ \A k \in 1 .. Len(queue') : \/ k = Len(queue') /\ queue'[k] = i
                                         \/ k \in 1 .. Len(queue) /\ queue'[k] = queue[k]
          /\ \A k \in 1 .. Len(queue) : queue[k] \in Commands
      BY <2>4, AppendEntries DEF LedgerTypeOK
    <3>2. ~Scheduled(i) /\ ~(runs[i] > 0)
      BY <2>2
    <3>3. LedgerTypeOK' /\ AtMostOnce'
      BY <2>1, <2>4, <3>1 DEF LedgerTypeOK, AtMostOnce
    <3>4. \A j \in Commands : Scheduled(j)' \/ runs'[j] > 0 => Guarded(j)'
      BY <1>1, <2>2, <2>4, <3>1 DEF Scheduled
    <3>5. /\ \A k, m \in 1 .. Len(queue') : queue'[k] = queue'[m] => k = m
          /\ \A k \in 1 .. Len(queue') : runs'[queue'[k]] = 0
      <4>1. \A k \in 1 .. Len(queue) : queue[k] # i
        BY <3>2 DEF Scheduled
      <4>2. runs[i] = 0
        BY <3>2 DEF LedgerTypeOK
      <4>3. ASSUME NEW k \in 1 .. Len(queue'), NEW m \in 1 .. Len(queue'), queue'[k] = queue'[m]
            PROVE  k = m
        BY <3>1, <4>1, <4>3
      <4>4. ASSUME NEW k \in 1 .. Len(queue') PROVE runs'[queue'[k]] = 0
        BY <3>1, <4>2
      <4>5. QED
        BY <4>3, <4>4
    <3>6. QED
      BY <1>3, <2>1, <2>4, <3>3, <3>4, <3>5
  <2>5. QED
    BY <1>1, <1>5, <2>3, <2>4 DEF Submit
<1>6. QED
  BY <1>4, <1>5 DEF Submit

LEMMA ExecuteLedger == ASSUME LedgerInv, Execute PROVE LedgerInv'
<1> USE DEF LedgerInv, Guarded, LedgerTypeOK
<1> DEFINE i == Head(queue)
<1>1. /\ i \in Commands /\ i = queue[1]
      /\ queue' \in Seq(Commands)
      /\ Len(queue) \in Nat \ {0} /\ Len(queue') = Len(queue) - 1
      /\ \A k \in 1 .. Len(queue') :
           k + 1 \in 1 .. Len(queue) /\ queue'[k] = queue[k + 1] /\ queue'[k] \in Commands
  BY TailEntries DEF Execute
<1>2. /\ runs' = [runs EXCEPT ![i] = @ + 1]
      /\ UNCHANGED <<now, envelope, ledger>>
  BY DEF Execute
<1>3. runs[i] = 0 /\ runs'[i] = 1 /\ Scheduled(i)
  BY <1>1, <1>2 DEF Scheduled
<1>4. \A j \in Commands : j # i => runs'[j] = runs[j]
  BY <1>2
<1>5. LedgerTypeOK' /\ AtMostOnce'
  BY <1>1, <1>2, <1>3, <1>4 DEF AtMostOnce
<1>6. \A j \in Commands : Scheduled(j)' => Scheduled(j)
  BY <1>1 DEF Scheduled
<1>7. \A j \in Commands : Scheduled(j)' \/ runs'[j] > 0 => Guarded(j)'
  BY <1>1, <1>2, <1>3, <1>4, <1>6 DEF floor
<1>8. /\ \A k, m \in 1 .. Len(queue') : queue'[k] = queue'[m] => k = m
      /\ \A k \in 1 .. Len(queue') : runs'[queue'[k]] = 0
  <2>1. ASSUME NEW k \in 1 .. Len(queue') PROVE queue'[k] # i
    <3>1. 1 \in 1 .. Len(queue) /\ k + 1 \in 1 .. Len(queue) /\ k + 1 # 1
      BY <1>1
    <3>2. queue[1] # queue[k + 1]
      BY <3>1
    <3>3. QED
      BY <1>1, <3>2
  <2>2. ASSUME NEW k \in 1 .. Len(queue'), NEW m \in 1 .. Len(queue'), queue'[k] = queue'[m]
        PROVE  k = m
    <3>1. /\ k + 1 \in 1 .. Len(queue) /\ queue'[k] = queue[k + 1]
          /\ m + 1 \in 1 .. Len(queue) /\ queue'[m] = queue[m + 1]
      BY <1>1
    <3>2. k + 1 = m + 1
      BY <2>2, <3>1
    <3>3. QED
      BY <1>1, <3>2
  <2>3. ASSUME NEW k \in 1 .. Len(queue') PROVE runs'[queue'[k]] = 0
    <3>1. /\ k + 1 \in 1 .. Len(queue) /\ queue'[k] = queue[k + 1]
          /\ queue'[k] \in Commands /\ queue'[k] # i
      BY <1>1, <2>1
    <3>2. runs[queue[k + 1]] = 0
      BY <3>1
    <3>3. QED
      BY <1>4, <3>1, <3>2
  <2>4. QED
    BY <2>2, <2>3
<1>9. QED
  BY <1>2, <1>5, <1>7, <1>8

(* Time only raises the floor.                                             *)
LEMMA TickLedger == ASSUME LedgerInv, Tick PROVE LedgerInv'
<1> USE BusAssumption DEF LedgerInv, Guarded, LedgerTypeOK, Tick
<1>1. floor \in Int /\ floor' = floor + 1
  BY DEF floor
<1>2. \A j \in Commands : envelope[j].stamp \in Int
  BY DEF Envelope, NotSent
<1>3. \A j \in Commands : Guarded(j) => Guarded(j)'
  BY <1>1, <1>2
<1>4. QED
  BY <1>3 DEF Scheduled, AtMostOnce

LEMMA LedgerFrame == ASSUME LedgerInv, UNCHANGED <<now, envelope, ledger, queue, runs>>
                     PROVE  LedgerInv'
BY DEF LedgerInv, LedgerTypeOK, Guarded, Scheduled, AtMostOnce, floor

LEMMA SendLedger ==
  ASSUME LedgerInv, TypeOfMirrors, NEW c \in Clients, NEW i \in Commands, Send(c, i)
  PROVE  LedgerInv'
<1>1. PICK cancel \in BOOLEAN :
        envelope' = [envelope EXCEPT
          ![i] = [stamp |-> now, expected |-> mirrors[c].revision, cancel |-> cancel]]
  BY DEF Send
<1>2. envelope' \in [Commands -> Envelope] /\ envelope'[i].stamp = now /\ now \in Nat
  BY <1>1 DEF LedgerInv, LedgerTypeOK, Envelope, TypeOfMirrors, Mirror
<1>3. ~(envelope[i].stamp >= 0)
  BY DEF Send, NotSent
<1>4. \A j \in Commands : j # i \/ envelope[i].stamp >= 0 => envelope'[j] = envelope[j]
  BY <1>1, <1>3 DEF LedgerInv, LedgerTypeOK
<1>5. Submit(i, envelope'[i].stamp) /\ UNCHANGED <<now, runs>>
  BY <1>2 DEF Send
<1>6. QED
  BY <1>2, <1>4, <1>5, SubmitStep

LEMMA ResendLedger == ASSUME LedgerInv, NEW i \in Commands, Resend(i) PROVE LedgerInv'
<1>1. envelope[i].stamp \in Nat /\ envelope \in [Commands -> Envelope]
  BY DEF Resend, LedgerInv, LedgerTypeOK, Envelope, NotSent
<1>2. Submit(i, envelope'[i].stamp) /\ UNCHANGED <<now, envelope, runs>>
  BY DEF Resend
<1>3. QED
  BY <1>1, <1>2, SubmitStep

(* A sweep that keeps everything leaves nothing behind the floor.          *)
LEMMA RefusalStep ==
  ASSUME LedgerInv, NEW i \in Commands, NEW stamp, Submit(i, stamp), now' = now,
         \A j \in ledger : envelope'[j] = envelope[j]
  PROVE  RefusedOnlyWhenFull'
<1>1. CASE full' = FALSE
  BY <1>1 DEF RefusedOnlyWhenFull
<1>2. CASE Cardinality(Swept) >= Capacity /\ ledger' = Swept
  <2>1. Swept = Fresh
    BY <1>2 DEF Swept
  <2>2. Fresh' = Fresh
    BY <1>2, <2>1 DEF Fresh, floor
  <2>3. QED
    BY <1>2, <2>1, <2>2 DEF RefusedOnlyWhenFull
<1>3. QED
  BY <1>1, <1>2 DEF Submit

-----------------------------------------------------------------------------
(* The bus.                                                                *)

BusTypeOK ==
  /\ operations \in Nat /\ revision \in Nat /\ eventSeq \in Nat
  /\ published \in Nat /\ nested \in Nat
  /\ pending \in Seq(Batch)
  /\ drain \in Drain /\ gap \in BOOLEAN
  /\ TypeOfMirrors

(* A subscriber that has been told of the current event has its sequence   *)
(* number and, unless a batch is still to come or was refused, the         *)
(* Kernel's revision; one that has not is exactly one event behind.        *)
MirrorsInv ==
  /\ drain.on /\ pending = << >> /\ ~gap => drain.revision = revision
  /\ \A c \in Subscribers \ drain.notify :
       /\ mirrors[c].seq = eventSeq
       /\ pending = << >> /\ ~gap => mirrors[c].revision = revision
  /\ \A c \in Subscribers \cap drain.notify : mirrors[c].seq + 1 = eventSeq

(* Batches wait in the order of publication, behind the one being emitted, *)
(* and nobody has heard of a later one.                                    *)
OrderInv ==
  /\ ~drain.on => drain = Idle /\ pending = << >>
  /\ drain.of <= published
  /\ \A k \in 1 .. Len(pending) : drain.of < pending[k].of /\ pending[k].of <= published
  /\ \A k, m \in 1 .. Len(pending) : k < m => pending[k].of < pending[m].of
  /\ \A c \in Subscribers : mirrors[c].of <= IF drain.on THEN drain.of ELSE published

BusInv == BusTypeOK /\ MirrorsInv /\ OrderInv

LEMMA BusInit == Init => BusInv
<1> SUFFICES ASSUME Init PROVE BusInv
  OBVIOUS
<1>1. BusTypeOK
  BY EmptySeq DEF Init, BusTypeOK, TypeOfMirrors, Mirror, NoMirror, Drain, Idle
<1>2. Len(pending) = 0 /\ drain.of = 0 /\ ~drain.on
  BY EmptySeq DEF Init, Idle
<1>3. Subscribers = {}
  BY DEF Init, Subscribers, NoMirror
<1>4. QED
  BY <1>1, <1>2, <1>3 DEF Init, BusInv, MirrorsInv, OrderInv

(* The first event of a batch that is newer than what anybody has heard    *)
(* of, and older than the batches left to wait.                            *)
LEMMA FirstEventStep ==
  ASSUME BusInv, drain.notify = {}, NEW batch \in Batch, NEW tracked \in BOOLEAN,
         FirstEvent(batch, revision', tracked), UNCHANGED mirrors,
         operations' \in Nat, revision' \in Nat, published' \in Nat, nested' \in Nat,
         pending' \in Seq(Batch),
         batch.of <= published',
         (IF drain.on THEN drain.of ELSE published) <= batch.of,
         \A k \in 1 .. Len(pending') : batch.of < pending'[k].of /\ pending'[k].of <= published',
         \A k, m \in 1 .. Len(pending') : k < m => pending'[k].of < pending'[m].of
  PROVE  BusInv'
<1>1. /\ drain' = [on |-> TRUE, of |-> batch.of, revision |-> revision',
                   left |-> batch.events - 1, notify |-> Subscribers, tracked |-> tracked]
      /\ eventSeq' = eventSeq + 1 /\ gap' = FALSE /\ Subscribers' = Subscribers
  BY DEF FirstEvent, Subscribers
<1>2. BusTypeOK'
  <2>1. drain' \in Drain
    BY <1>1 DEF Batch, Drain, Subscribers
  <2>2. eventSeq' \in Nat /\ TypeOfMirrors'
    BY <1>1 DEF BusInv, BusTypeOK, TypeOfMirrors
  <2>3. gap' \in BOOLEAN
    BY <1>1
  <2>4. QED
    BY <2>1, <2>2, <2>3 DEF BusTypeOK
<1>3. MirrorsInv'
  BY <1>1 DEF BusInv, MirrorsInv
<1>4. \A c \in Subscribers : mirrors'[c].of <= batch.of
  <2>1. \A c \in Subscribers : mirrors[c].of <= IF drain.on THEN drain.of ELSE published
    BY DEF BusInv, OrderInv
  <2>2. /\ \A c \in Subscribers : mirrors[c].of \in Nat
        /\ batch.of \in Nat /\ drain.of \in Nat /\ published \in Nat
    BY DEF BusInv, BusTypeOK, TypeOfMirrors, Mirror, Batch, Drain, Subscribers
  <2>3. QED
    BY <2>1, <2>2
<1>5. OrderInv'
  BY <1>1, <1>4 DEF OrderInv
<1>6. QED
  BY <1>2, <1>3, <1>5 DEF BusInv

LEMMA PublishStep ==
  ASSUME BusInv, NEW events \in 1 .. 2, NEW tracked \in BOOLEAN,
         publishTransition(events, revision + 1, tracked),
         revision' = revision + 1, operations' \in Nat
  PROVE  BusInv'
<1> DEFINE batch == [of |-> published + 1, events |-> events]
<1>1. /\ published' = published + 1 /\ published \in Nat /\ batch \in Batch
      /\ batch.of = published + 1 /\ UNCHANGED mirrors
      /\ pending \in Seq(Batch) /\ revision \in Nat
  BY DEF publishTransition, BusInv, BusTypeOK, Batch
<1>2. CASE ~drain.on
  <2>1. /\ FirstEvent(batch, revision + 1, tracked) /\ UNCHANGED <<pending, nested>>
        /\ drain = Idle /\ pending = << >> /\ Len(pending) = 0
    BY <1>2, EmptySeq DEF publishTransition, BusInv, OrderInv
  <2>2. FirstEvent(batch, revision', tracked)
    BY <2>1
  <2>3. drain.notify = {} /\ nested' \in Nat /\ pending' = << >> /\ pending' \in Seq(Batch)
    BY <1>1, <2>1 DEF Idle, BusInv, BusTypeOK
  <2>4. 1 .. Len(pending') = {}
    BY <2>1
  <2>5. (IF drain.on THEN drain.of ELSE published) <= batch.of /\ batch.of <= published'
    BY <1>1, <1>2
  <2>6. revision' \in Nat /\ published' \in Nat
    BY <1>1
  <2>7. QED
    BY <1>1, <2>2, <2>3, <2>4, <2>5, <2>6, FirstEventStep
<1>3. CASE drain.on
  <2>1. /\ pending' = Append(pending, batch) /\ nested' = nested + 1
        /\ UNCHANGED <<drain, eventSeq, gap>>
    BY <1>3 DEF publishTransition
  <2>2. /\ pending' \in Seq(Batch) /\ pending' # << >>
        /\ Len(pending') = Len(pending) + 1 /\ Len(pending) \in Nat
        /\ \A k \in 1 .. Len(pending') :
             \/ k = Len(pending') /\ pending'[k] = batch
             \/ k \in 1 .. Len(pending) /\ pending'[k] = pending[k]
        /\ \A k \in 1 .. Len(pending) : pending[k].of \in Nat
    <3>1. /\ pending' \in Seq(Batch) /\ pending' # << >>
          /\ Len(pending') = Len(pending) + 1 /\ Len(pending) \in Nat
          /\ \A k \in 1 .. Len(pending) + 1 :
               pending'[k] = IF k = Len(pending) + 1 THEN batch ELSE pending[k]
          /\ \A k \in 1 .. Len(pending) : pending[k] \in Batch
      BY <1>1, <2>1, AppendEntries
    <3>2. \A k \in 1 .. Len(pending') : k = Len(pending') \/ k \in 1 .. Len(pending)
      BY <3>1
    <3>3. QED
      BY <3>1, <3>2 DEF Batch
  <2>3. Subscribers' = Subscribers
    BY <1>1 DEF Subscribers
  <2>4. BusTypeOK'
    BY <1>1, <2>1, <2>2 DEF BusInv, BusTypeOK, TypeOfMirrors
  <2>5. MirrorsInv'
    BY <1>1, <2>1, <2>2, <2>3 DEF BusInv, MirrorsInv
  <2>6. OrderInv'
    <3>1. drain.of \in Nat
      BY DEF BusInv, BusTypeOK, Drain
    <3>2. drain'.of <= published'
      BY <1>1, <2>1, <3>1 DEF BusInv, OrderInv
    <3>3. ASSUME NEW k \in 1 .. Len(pending')
          PROVE  drain'.of < pending'[k].of /\ pending'[k].of <= published'
      <4>1. CASE k = Len(pending') /\ pending'[k] = batch
        BY <1>1, <2>1, <3>1, <4>1 DEF BusInv, OrderInv
      <4>2. CASE k \in 1 .. Len(pending) /\ pending'[k] = pending[k]
        BY <1>1, <2>1, <2>2, <3>1, <4>2 DEF BusInv, OrderInv
      <4>3. QED
        BY <2>2, <4>1, <4>2
    <3>4. ASSUME NEW k \in 1 .. Len(pending'), NEW m \in 1 .. Len(pending'), k < m
          PROVE  pending'[k].of < pending'[m].of
      <4>1. k \in 1 .. Len(pending) /\ pending'[k] = pending[k]
        BY <2>2, <3>4
      <4>2. CASE m = Len(pending') /\ pending'[m] = batch
        BY <1>1, <2>2, <4>1, <4>2 DEF BusInv, OrderInv
      <4>3. CASE m \in 1 .. Len(pending) /\ pending'[m] = pending[m]
        BY <3>4, <4>1, <4>3 DEF BusInv, OrderInv
      <4>4. QED
        BY <2>2, <4>2, <4>3
    <3>5. QED
      BY <1>1, <1>3, <2>1, <2>3, <3>2, <3>3, <3>4 DEF BusInv, OrderInv
  <2>7. QED
    BY <2>4, <2>5, <2>6 DEF BusInv
<1>4. QED
  BY <1>2, <1>3

LEMMA DrainOnBus == ASSUME BusInv, DrainOn PROVE BusInv'
<1>1. /\ drain.on /\ drain.notify = {} /\ UNCHANGED <<operations, revision, nested>>
      /\ UNCHANGED mirrors /\ Subscribers' = Subscribers
  BY DEF DrainOn, Subscribers
<1>2. /\ operations' \in Nat /\ revision' \in Nat /\ nested' \in Nat /\ published \in Nat
      /\ drain.of \in Nat /\ drain.left \in Nat /\ drain.tracked \in BOOLEAN
      /\ pending \in Seq(Batch) /\ drain \in Drain /\ eventSeq \in Nat
  BY <1>1 DEF BusInv, BusTypeOK, Drain
<1>3. ASSUME drain.left > 0, drain' = [drain EXCEPT !.left = @ - 1, !.notify = Subscribers],
             eventSeq' = eventSeq + 1, UNCHANGED <<pending, gap, published>>
      PROVE  BusInv'
  <2>1. /\ drain'.on /\ drain'.of = drain.of /\ drain'.notify = Subscribers
        /\ drain'.revision = drain.revision /\ drain' \in Drain
    <3>1. drain.left - 1 \in Nat /\ Subscribers \in SUBSET Clients
      BY <1>2, <1>3 DEF Subscribers
    <3>2. drain' = [on |-> drain.on, of |-> drain.of, revision |-> drain.revision,
                    left |-> drain.left - 1, notify |-> Subscribers, tracked |-> drain.tracked]
      BY <1>2, <1>3 DEF Drain
    <3>3. QED
      BY <1>1, <1>2, <3>1, <3>2 DEF Drain
  <2>2. BusTypeOK'
    BY <1>1, <1>2, <1>3, <2>1 DEF BusInv, BusTypeOK, TypeOfMirrors
  <2>3. MirrorsInv' /\ OrderInv'
    BY <1>1, <1>2, <1>3, <2>1 DEF BusInv, MirrorsInv, OrderInv
  <2>4. QED
    BY <2>2, <2>3 DEF BusInv
<1>4. ASSUME pending # << >>, FirstEvent(Head(pending), revision, drain.tracked),
             pending' = Tail(pending), UNCHANGED published
      PROVE  BusInv'
  <2> DEFINE batch == Head(pending)
  <2>1. /\ batch = pending[1] /\ batch \in Batch /\ pending' \in Seq(Batch)
        /\ Len(pending) \in Nat \ {0} /\ Len(pending') = Len(pending) - 1
        /\ \A k \in 1 .. Len(pending') :
             k + 1 \in 1 .. Len(pending) /\ pending'[k] = pending[k + 1]
    BY <1>2, <1>4, TailEntries
  <2>2. 1 \in 1 .. Len(pending) /\ drain.of < batch.of /\ batch.of <= published
    BY <2>1 DEF BusInv, OrderInv
  <2>3. batch.of \in Nat
    BY <2>1 DEF Batch
  <2>4. ASSUME NEW k \in 1 .. Len(pending')
        PROVE  batch.of < pending'[k].of /\ pending'[k].of <= published'
    <3>1. k + 1 \in 1 .. Len(pending) /\ pending'[k] = pending[k + 1] /\ 1 < k + 1
      BY <2>1
    <3>2. pending[1].of < pending[k + 1].of /\ pending[k + 1].of <= published
      BY <2>2, <3>1 DEF BusInv, OrderInv
    <3>3. QED
      BY <1>4, <2>1, <3>1, <3>2
  <2>5. ASSUME NEW k \in 1 .. Len(pending'), NEW m \in 1 .. Len(pending'), k < m
        PROVE  pending'[k].of < pending'[m].of
    <3>1. /\ k + 1 \in 1 .. Len(pending) /\ pending'[k] = pending[k + 1]
          /\ m + 1 \in 1 .. Len(pending) /\ pending'[m] = pending[m + 1]
          /\ k + 1 < m + 1
      BY <2>1, <2>5
    <3>2. QED
      BY <3>1 DEF BusInv, OrderInv
  <2>6. (IF drain.on THEN drain.of ELSE published) <= batch.of /\ batch.of <= published'
    BY <1>1, <1>2, <1>4, <2>2, <2>3
  <2>7. FirstEvent(batch, revision', drain.tracked) /\ published' \in Nat
    BY <1>1, <1>2, <1>4
  <2> HIDE DEF batch
  <2>8. QED
    BY <1>1, <1>2, <2>1, <2>4, <2>5, <2>6, <2>7, FirstEventStep
<1>5. ASSUME pending = << >>, drain' = Idle, UNCHANGED <<eventSeq, pending, gap, published>>
      PROVE  BusInv'
  <2>1. /\ ~drain'.on /\ drain'.of = 0 /\ drain'.notify = {} /\ drain' \in Drain
        /\ Len(pending') = 0
    BY <1>5, EmptySeq DEF Idle, Drain
  <2>2. BusTypeOK'
    BY <1>1, <1>2, <1>5, <2>1 DEF BusInv, BusTypeOK, TypeOfMirrors
  <2>3. MirrorsInv'
    BY <1>1, <1>5, <2>1 DEF BusInv, MirrorsInv
  <2>4. \A c \in Subscribers : mirrors[c].of <= published
    <3>1. \A c \in Subscribers : mirrors[c].of \in Nat
      BY DEF BusInv, BusTypeOK, TypeOfMirrors, Mirror, Subscribers
    <3>2. QED
      BY <1>1, <1>2, <3>1 DEF BusInv, OrderInv
  <2>5. OrderInv'
    BY <1>1, <1>2, <1>5, <2>1, <2>4 DEF OrderInv
  <2>6. QED
    BY <2>2, <2>3, <2>5 DEF BusInv
<1>6. ASSUME pending = << >>, published' = published + 1,
             FirstEvent([of |-> published + 1, events |-> 1], revision, FALSE),
             UNCHANGED pending
      PROVE  BusInv'
  <2> DEFINE batch == [of |-> published + 1, events |-> 1]
  <2>1. /\ batch \in Batch /\ batch.of = published + 1 /\ published' \in Nat
        /\ FirstEvent(batch, revision', FALSE) /\ Len(pending') = 0
        /\ pending' \in Seq(Batch)
    <3>1. batch \in Batch /\ batch.of = published + 1 /\ published' \in Nat
      BY <1>2, <1>6 DEF Batch
    <3>2. FirstEvent(batch, revision', FALSE)
      BY <1>1, <1>6
    <3>3. Len(pending') = 0 /\ pending' \in Seq(Batch)
      BY <1>6, EmptySeq
    <3>4. QED
      BY <3>1, <3>2, <3>3
  <2>2. (IF drain.on THEN drain.of ELSE published) <= batch.of /\ batch.of <= published'
    BY <1>1, <1>2, <1>6, <2>1 DEF BusInv, OrderInv
  <2>3. 1 .. Len(pending') = {}
    BY <2>1
  <2> HIDE DEF batch
  <2>4. QED
    BY <1>1, <1>2, <2>1, <2>2, <2>3, FirstEventStep
<1>7. QED
  BY <1>3, <1>4, <1>5, <1>6 DEF DrainOn

LEMMA DeliverBus == ASSUME BusInv, NEW c \in Clients, Deliver(c) PROVE BusInv'
<1>1. /\ c \in drain.notify /\ drain' = [drain EXCEPT !.notify = @ \ {c}]
      /\ UNCHANGED <<operations, revision, eventSeq, pending, gap, published, nested>>
      /\ mirrors' = IF ~mirrors[c].on THEN mirrors
                    ELSE [mirrors EXCEPT ![c] = [on |-> TRUE, revision |-> drain.revision,
                                                 seq |-> eventSeq, of |-> drain.of]]
  BY DEF Deliver
<1>2. /\ drain \in Drain /\ drain' \in Drain /\ drain'.on = drain.on /\ drain'.of = drain.of
      /\ drain'.revision = drain.revision /\ drain'.notify = drain.notify \ {c}
  BY <1>1 DEF BusInv, BusTypeOK, Drain
<1>3. drain.on
  BY <1>1 DEF BusInv, OrderInv, Idle
<1>4. BusTypeOK'
  BY <1>1, <1>2 DEF BusInv, BusTypeOK, TypeOfMirrors, Mirror, Drain
<1>5. /\ Subscribers' = Subscribers
      /\ \A d \in Clients : d # c => mirrors'[d] = mirrors[d]
      /\ c \in Subscribers => mirrors'[c] = [on |-> TRUE, revision |-> drain.revision,
                                             seq |-> eventSeq, of |-> drain.of]
  BY <1>1 DEF Subscribers, BusInv, BusTypeOK, TypeOfMirrors
<1>6. MirrorsInv'
  BY <1>1, <1>2, <1>3, <1>5 DEF BusInv, MirrorsInv, Subscribers
<1>7. OrderInv'
  BY <1>1, <1>2, <1>3, <1>5 DEF BusInv, OrderInv, Subscribers, Drain
<1>8. QED
  BY <1>4, <1>6, <1>7 DEF BusInv

LEMMA SubscribeBus == ASSUME BusInv, NEW c \in Clients, Subscribe(c) PROVE BusInv'
<1>1. /\ ~mirrors[c].on /\ c \notin drain.notify
      /\ mirrors' = [mirrors EXCEPT ![c] = [on |-> TRUE, revision |-> revision,
                                            seq |-> eventSeq, of |-> drain.of]]
      /\ UNCHANGED <<operations, revision, eventSeq, pending, drain, gap, published, nested>>
  BY DEF Subscribe
<1>2. drain \in Drain /\ drain.of \in Nat
  BY DEF BusInv, BusTypeOK, Drain
<1>3. BusTypeOK'
  BY <1>1, <1>2 DEF BusInv, BusTypeOK, TypeOfMirrors, Mirror
<1>4. /\ Subscribers' = Subscribers \cup {c}
      /\ \A d \in Clients : d # c => mirrors'[d] = mirrors[d]
      /\ mirrors'[c] = [on |-> TRUE, revision |-> revision, seq |-> eventSeq, of |-> drain.of]
  BY <1>1 DEF Subscribers, BusInv, BusTypeOK, TypeOfMirrors
<1>5. MirrorsInv'
  BY <1>1, <1>4 DEF BusInv, MirrorsInv, Subscribers
<1>6. OrderInv'
  BY <1>1, <1>2, <1>4 DEF BusInv, OrderInv, Subscribers
<1>7. QED
  BY <1>3, <1>5, <1>6 DEF BusInv

LEMMA UnsubscribeBus == ASSUME BusInv, NEW c \in Clients, Unsubscribe(c) PROVE BusInv'
<1>1. /\ mirrors' = [mirrors EXCEPT ![c] = NoMirror]
      /\ UNCHANGED <<operations, revision, eventSeq, pending, drain, gap, published, nested>>
  BY DEF Unsubscribe
<1>2. BusTypeOK'
  BY <1>1 DEF BusInv, BusTypeOK, TypeOfMirrors, Mirror, NoMirror
<1>3. /\ Subscribers' = Subscribers \ {c}
      /\ \A d \in Subscribers' : mirrors'[d] = mirrors[d]
  BY <1>1 DEF Subscribers, BusInv, BusTypeOK, TypeOfMirrors, NoMirror
<1>4. QED
  BY <1>1, <1>2, <1>3 DEF BusInv, MirrorsInv, OrderInv

LEMMA BusFrame ==
  ASSUME BusInv, operations' \in Nat, UNCHANGED <<revision, busVars, published, nested>>
  PROVE  BusInv'
BY DEF BusInv, BusTypeOK, TypeOfMirrors, MirrorsInv, OrderInv, Subscribers, busVars

\* A refused batch leaves the bus as it is, one revision behind.
LEMMA RefuseBus ==
  ASSUME BusInv, operations' \in Nat, refuseTransition
  PROVE  BusInv'
<1>1. /\ revision' \in Nat /\ gap' = TRUE
      /\ published \in Nat /\ published' = published + 1
      /\ UNCHANGED <<eventSeq, pending, drain, mirrors, nested>>
  BY DEF refuseTransition, BusInv, BusTypeOK
<1>2. BusTypeOK'
  BY <1>1 DEF BusInv, BusTypeOK, TypeOfMirrors
<1>3. MirrorsInv'
  BY <1>1 DEF BusInv, MirrorsInv, Subscribers
<1>4. OrderInv'
  <2>1. /\ \A n \in Nat : n <= published => n <= published'
        /\ drain.of \in Nat /\ \A c \in Subscribers : mirrors[c].of \in Nat
        /\ \A k \in 1 .. Len(pending) : pending[k].of \in Nat
    <3>1. \A k \in 1 .. Len(pending) : pending[k] \in Batch
      BY ElementOfSeq DEF BusInv, BusTypeOK
    <3>2. QED
      BY <1>1, <3>1 DEF BusInv, BusTypeOK, TypeOfMirrors, Mirror, Drain, Batch, Subscribers
  <2>2. QED
    BY <1>1, <2>1 DEF BusInv, OrderInv, Subscribers
<1>5. QED
  BY <1>2, <1>3, <1>4 DEF BusInv

LEMMA ExecuteBus == ASSUME BusInv, Execute PROVE BusInv'
<1>1. operations \in Nat
  BY DEF BusInv, BusTypeOK
<1>2. CASE UNCHANGED <<operations, revision, busVars, published, nested>>
  BY <1>1, <1>2, BusFrame
<1>3. CASE applyTransition
  <2>1. CASE \E events \in 1 .. 2 :
               /\ revision' = revision + 1
               /\ publishTransition(events, revision + 1, TRUE)
               /\ UNCHANGED operations
    BY <1>1, <2>1, PublishStep
  <2>2. CASE /\ operations' \in {operations, operations + 1}
             /\ UNCHANGED <<revision, busVars, published, nested>>
    BY <1>1, <2>2, BusFrame
  <2>3. CASE refuseTransition /\ UNCHANGED operations
    BY <1>1, <2>3, RefuseBus
  <2>4. QED
    BY <1>3, <2>1, <2>2, <2>3 DEF applyTransition
<1>4. QED
  BY <1>2, <1>3 DEF Execute

LEMMA OperationBus == ASSUME BusInv, OperationPublishes PROVE BusInv'
<1>1. operations' \in Nat
  BY DEF OperationPublishes, BusInv, BusTypeOK
<1>2. CASE \E events \in 1 .. 2 :
             revision' = revision + 1 /\ publishTransition(events, revision + 1, TRUE)
  BY <1>1, <1>2, PublishStep
<1>3. CASE UNCHANGED <<revision, busVars, published, nested>>
  BY <1>1, <1>3, BusFrame
<1>4. CASE refuseTransition
  BY <1>1, <1>4, RefuseBus
<1>5. QED
  BY <1>2, <1>3, <1>4 DEF OperationPublishes

-----------------------------------------------------------------------------
(* The theorems.                                                           *)

LEMMA BusStep == BusInv /\ [Next]_vars => BusInv'
<1> SUFFICES ASSUME BusInv, [Next]_vars PROVE BusInv'
  OBVIOUS
<1>1. operations \in Nat
  BY DEF BusInv, BusTypeOK
<1>2. ASSUME NEW i \in Commands, Resend(i) PROVE BusInv'
  BY <1>1, <1>2, BusFrame DEF Resend
<1>3. ASSUME NEW c \in Clients, NEW i \in Commands, Send(c, i) PROVE BusInv'
  BY <1>1, <1>3, BusFrame DEF Send
<1>4. CASE Tick
  BY <1>1, <1>4, BusFrame DEF Tick
<1>5. CASE UNCHANGED vars
  BY <1>1, <1>5, BusFrame DEF vars
<1>6. QED
  BY <1>2, <1>3, <1>4, <1>5, DeliverBus, SubscribeBus, UnsubscribeBus, DrainOnBus,
     ExecuteBus, OperationBus DEF Next

LEMMA BusAlways == Spec => []BusInv
<1>1. QED
  BY BusInit, BusStep, PTL DEF Spec

LEMMA LedgerStep == LedgerInv /\ BusInv /\ [Next]_vars => LedgerInv'
<1> SUFFICES ASSUME LedgerInv, BusInv, [Next]_vars PROVE LedgerInv'
  OBVIOUS
<1>1. TypeOfMirrors
  BY DEF BusInv, BusTypeOK
<1>2. CASE UNCHANGED <<now, envelope, ledger, queue, runs>>
  BY <1>2, LedgerFrame
<1>3. CASE UNCHANGED ledgerVars \/ UNCHANGED vars
  BY <1>2, <1>3 DEF ledgerVars, vars
<1>4. ASSUME NEW c \in Clients, Deliver(c) \/ Subscribe(c) \/ Unsubscribe(c)
      PROVE  UNCHANGED ledgerVars
  BY <1>4 DEF Deliver, Subscribe, Unsubscribe
<1>5. DrainOn \/ OperationPublishes => UNCHANGED ledgerVars
  BY DEF DrainOn, OperationPublishes
<1>6. QED
  BY <1>1, <1>3, <1>4, <1>5, SendLedger, ResendLedger, ExecuteLedger, TickLedger DEF Next

LEMMA LedgerAlways == Spec => []LedgerInv
<1>1. QED
  BY LedgerInit, LedgerStep, BusAlways, PTL DEF Spec

(* However often its envelope is sent again, and whatever the ledger drops *)
(* when it is full, a command is executed at most once (dedupe-ledger.ts): *)
(* what has left the ledger is behind the floor, which never goes back.    *)
THEOREM ExecutedOnce == Spec => []AtMostOnce
<1>1. LedgerInv => AtMostOnce
  BY DEF LedgerInv
<1>2. QED
  BY <1>1, LedgerAlways, PTL

(* The ledger refuses a command for capacity only while it is full of      *)
(* commands within the horizon, for any capacity and horizon.              *)
THEOREM RefusalsAreDue == Spec => []RefusedOnlyWhenFull
<1>1. Init => RefusedOnlyWhenFull
  BY DEF Init, RefusedOnlyWhenFull
<1>2. LedgerInv /\ BusInv /\ RefusedOnlyWhenFull /\ [Next]_vars => RefusedOnlyWhenFull'
  <2> SUFFICES ASSUME LedgerInv, BusInv, RefusedOnlyWhenFull, [Next]_vars
               PROVE  RefusedOnlyWhenFull'
    OBVIOUS
  <2>1. CASE UNCHANGED <<now, envelope, ledger, full>>
    BY <2>1 DEF RefusedOnlyWhenFull, Fresh, floor
  <2>2. ASSUME NEW c \in Clients, NEW i \in Commands, Send(c, i) PROVE RefusedOnlyWhenFull'
    <3>1. i \notin ledger
      BY <2>2 DEF Send, NotSent, LedgerInv
    <3>2. \A j \in ledger : envelope'[j] = envelope[j]
      BY <2>2, <3>1 DEF Send, LedgerInv, LedgerTypeOK
    <3>3. QED
      BY <2>2, <3>2, RefusalStep DEF Send
  <2>3. ASSUME NEW i \in Commands, Resend(i) PROVE RefusedOnlyWhenFull'
    BY <2>3, RefusalStep DEF Resend
  <2>4. CASE Tick
    BY <2>4 DEF Tick, RefusedOnlyWhenFull
  <2>5. CASE Execute \/ DrainOn \/ OperationPublishes \/ UNCHANGED vars
    BY <2>1, <2>5 DEF Execute, DrainOn, OperationPublishes, ledgerVars, vars
  <2>6. ASSUME NEW c \in Clients, Deliver(c) \/ Subscribe(c) \/ Unsubscribe(c)
        PROVE  RefusedOnlyWhenFull'
    BY <2>1, <2>6 DEF Deliver, Subscribe, Unsubscribe, ledgerVars
  <2>7. QED
    BY <2>2, <2>3, <2>4, <2>5, <2>6 DEF Next
<1>3. QED
  BY <1>1, <1>2, LedgerAlways, BusAlways, PTL DEF Spec

(* Once the bus is drained every subscriber's mirror has the Kernel's      *)
(* revision and sequence number, whoever published, joined or left while   *)
(* it was draining: no revision is one that nobody could observe, but that *)
(* of a batch the schemas refused, until the next one is emitted.          *)
THEOREM MirrorsCatchUp == Spec => []MirrorsCurrent
<1>1. BusInv => MirrorsCurrent
  BY DEF BusInv, MirrorsInv, OrderInv, MirrorsCurrent, Idle
<1>2. QED
  BY <1>1, BusAlways, PTL

(* A subscriber receives every event after its snapshot once and in order, *)
(* and the batches in the order they were published in.                    *)
THEOREM StreamsAreOrdered == Spec => StreamInOrder
<1> DEFINE Told == \A c \in drain.notify \ drain'.notify :
       mirrors[c].on => /\ mirrors'[c].seq = mirrors[c].seq + 1
                        /\ mirrors'[c].of >= mirrors[c].of
<1>1. BusInv /\ [Next]_vars => [Told]_vars
  <2> SUFFICES ASSUME BusInv, Next PROVE Told
    OBVIOUS
  <2>1. drain \in Drain
    BY DEF BusInv, BusTypeOK
  <2>2. ASSUME NEW c \in Clients, Deliver(c) PROVE Told
    <3> SUFFICES ASSUME NEW d \in drain.notify \ drain'.notify, mirrors[d].on
                 PROVE  mirrors'[d].seq = mirrors[d].seq + 1 /\ mirrors'[d].of >= mirrors[d].of
      OBVIOUS
    <3>1. d = c /\ c \in drain.notify /\ drain.on
      BY <2>1, <2>2 DEF Deliver, Drain, BusInv, OrderInv, Idle
    <3>2. mirrors'[c].seq = eventSeq /\ mirrors'[c].of = drain.of
      BY <2>2, <3>1 DEF Deliver, BusInv, BusTypeOK, TypeOfMirrors
    <3>3. mirrors[c].seq + 1 = eventSeq /\ mirrors[c].of <= drain.of
      BY <3>1 DEF BusInv, MirrorsInv, OrderInv, Subscribers
    <3>4. mirrors[c].of \in Nat /\ drain.of \in Nat
      BY <2>1 DEF BusInv, BusTypeOK, TypeOfMirrors, Mirror, Drain
    <3>5. QED
      BY <3>1, <3>2, <3>3, <3>4
  <2>3. CASE UNCHANGED drain
    BY <2>3
  <2>4. CASE drain.notify = {}
    BY <2>4
  <2>5. ASSUME NEW events, NEW rev, NEW tracked, publishTransition(events, rev, tracked)
        PROVE  Told
    BY <2>3, <2>4, <2>5 DEF publishTransition, BusInv, OrderInv, Idle
  <2>6. CASE Execute \/ OperationPublishes
    BY <2>3, <2>5, <2>6
       DEF Execute, OperationPublishes, applyTransition, refuseTransition, busVars
  <2>7. CASE DrainOn
    BY <2>4, <2>7 DEF DrainOn
  <2>8. ASSUME NEW c \in Clients, Subscribe(c) \/ Unsubscribe(c) PROVE Told
    BY <2>3, <2>8 DEF Subscribe, Unsubscribe
  <2>9. ASSUME NEW i \in Commands, Resend(i) \/ \E c \in Clients : Send(c, i) PROVE Told
    BY <2>3, <2>9 DEF Resend, Send, busVars
  <2>10. CASE Tick
    BY <2>3, <2>10 DEF Tick, busVars
  <2> HIDE DEF Told
  <2>11. QED
    BY <2>2, <2>6, <2>7, <2>8, <2>9, <2>10 DEF Next
<1>2. QED
  BY <1>1, BusAlways, PTL DEF Spec, StreamInOrder
=============================================================================
