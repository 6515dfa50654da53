--------------------------- MODULE HostSessionProofs ---------------------------
(***************************************************************************)
(* A session for every set of pages and request ids, every capacity and    *)
(* timeout budget, and a child that may die, hang or talk nonsense at any  *)
(* point: what the pipes hold is known from where the handshake, the mount *)
(* in flight and the teardown stand.                                       *)
(***************************************************************************)
EXTENDS HostSession, SequenceTheorems, TLAPS

-------------------------------------------------------------------------------
(* The invariants.                                                         *)

Kinds == {"hello", "mount", "ready", "frame", "resize", "query", "shutdown",
          "response", "error", "garbage"}

Messages == [kind: Kinds, id: RequestIds \cup {NoId}, page: Pages \cup {NoPage}, seq: Nat]

(* Once the handshake is over, mounts and their answers carry a request id. *)
Numbered == {m \in Messages : m.kind \in {"mount", "ready"} => m.id \in Ids}

Children ==
  [life: {"none", "running", "dying", "exited"}, page: Pages \cup {NoPage}, seq: Nat]

SessionOK ==
  /\ phase \in {"created", "starting", "ready", "failed", "stopping", "stopped"}
  /\ start \in {"none", "running", "failing", "ok", "error"}
  /\ stop \in {"none", "waiting", "acked", "forced", "done"}
  /\ report \in {"none", "due", "made"}
  /\ cause \in {"none", "protocol", "other"}
  /\ pumping \in BOOLEAN

MountOK ==
  /\ mounting = NoMount \/ mounting \in [id: Ids, page: Pages]
  /\ mounted \in Pages /\ known \in SUBSET Pages
  /\ lastSeq \in Nat /\ frameTimer \in BOOLEAN

CallsOK ==
  /\ table \in [RequestIds -> {"none", "mount", "resize", "query", "shutdown"}]
  /\ calls \in [RequestIds -> {"none", "open", "settled", "ok", "error"}]
  /\ late \in 0 .. Unresponsive

PipesOK ==
  /\ child \in Children
  /\ toChild \in Seq(Messages) /\ toHost \in Seq(Messages)
  /\ start = "ok" => toChild \in Seq(Numbered) /\ toHost \in Seq(Numbered)

TypeInv == SessionOK /\ MountOK /\ CallsOK /\ PipesOK

(* Before start() has succeeded nothing is asked of the child but the      *)
(* handshake.                                                              *)
Untouched ==
  /\ mounting = NoMount /\ Open = {} /\ ~frameTimer /\ ~pumping
  /\ mounted = FirstPage /\ known = {FirstPage} /\ report = "none"

(* Where start(), stop() and the teardown of a failure can stand.          *)
StageInv ==
  /\ start # "ok" => Untouched
  /\ start = "none" => phase = "created" /\ stop = "none"
  /\ start = "none" => toHost = << >> /\ child.life = "none"
  /\ start \in {"running", "failing"} => phase \in {"starting", "stopped"}
  /\ start = "error" => phase \in {"failed", "stopped"}
  /\ start = "ok" => phase \in {"ready", "failed", "stopping", "stopped"}
  /\ phase = "ready" => pumping
  /\ phase = "stopping" => stop # "none"
  /\ phase = "stopped" => stop = "done"
  /\ stop = "waiting" => phase = "stopping"
  /\ start = "ok" => (phase = "failed" => report # "none")
  /\ report # "none" => phase \in {"failed", "stopped"}
  /\ stop # "none" /\ (start \in {"running", "failing"} \/ phase = "ready")
       => child.life # "running"

(* The hello, the ready of the first page and its frame follow each other; *)
(* the child has nothing to read while one of them is under way.           *)
Milestone(m) == m.kind \in {"hello", "ready", "frame"}

HandshakeInv ==
  start = "running" =>
    /\ Len(toChild) <= 1
    /\ \A i \in 1 .. Len(toChild) :
         /\ toChild[i].kind \in {"hello", "mount"}
         /\ toChild[i].kind = "mount" => toChild[i].id = NoId /\ toChild[i].page = FirstPage
    /\ \A i \in 1 .. Len(toHost) :
         /\ toHost[i].kind \in {"hello", "ready", "frame", "error", "garbage"}
         /\ Milestone(toHost[i]) => toChild = << >>
         /\ toHost[i].kind = "frame" =>
              /\ toHost[i].page = FirstPage
              /\ child.life # "exited" => child.page = FirstPage /\ toHost[i].seq <= child.seq
    /\ \A i, j \in 1 .. Len(toHost) :
         i < j /\ Milestone(toHost[i]) /\ Milestone(toHost[j])
           => toHost[i].kind = "ready" /\ toHost[j].kind = "frame"

Serving == phase = "ready" /\ stop = "none"

(* The page the child is on when it has written what is in the pipe up to  *)
(* message n.                                                              *)
HasReady(n) == \E i \in 1 .. n : toHost[i].kind = "ready"

PageAt(n) == IF HasReady(n) THEN mounting.page ELSE mounted

(* The mount in flight is in one pipe or in the other, and only once.      *)
AskedInv ==
  \A i \in 1 .. Len(toChild) :
    /\ toChild[i].kind \in {"mount", "resize", "query"}
    /\ toChild[i].kind = "mount" =>
         /\ toChild[i].id = mounting.id /\ toChild[i].page = mounting.page
         /\ \A j \in 1 .. Len(toChild) : toChild[j].kind = "mount" => i = j
         /\ ~HasReady(Len(toHost))

(* Its answer is followed by the first frame of the page.                  *)
AnsweredInv ==
  \A i \in 1 .. Len(toHost) :
    toHost[i].kind = "ready" =>
      /\ toHost[i].id = mounting.id /\ toHost[i].page = mounting.page
      /\ \A j \in 1 .. Len(toHost) : toHost[j].kind = "ready" => i = j
      /\ i < Len(toHost) /\ toHost[i + 1].kind = "frame"

(* Frames are of the page that was mounted when they were written, and in  *)
(* sequence.                                                               *)
FrameInv ==
  \A i \in 1 .. Len(toHost) :
    toHost[i].kind = "frame" =>
      /\ toHost[i].page = PageAt(i) /\ lastSeq < toHost[i].seq
      /\ child.life # "exited" => toHost[i].seq <= child.seq
      /\ \A j \in 1 .. Len(toHost) :
           j < i /\ toHost[j].kind = "frame" => toHost[j].seq < toHost[i].seq

PageInv ==
  child.life # "exited" => child.page = PageAt(Len(toHost)) /\ lastSeq <= child.seq

FlightInv ==
  child.life = "running" /\ mounting # NoMount =>
    \/ \E i \in 1 .. Len(toChild) : toChild[i].kind = "mount"
    \/ HasReady(Len(toHost))

TimerInv == frameTimer => \E i \in 1 .. Len(toHost) : toHost[i].kind = "frame"

(* A session in service.                                                   *)
ServingInv == AskedInv /\ AnsweredInv /\ FrameInv /\ PageInv /\ FlightInv /\ TimerInv

(* A session that is ready for nobody has read its only frame.             *)
LateInv ==
  phase = "ready" /\ stop # "none" =>
    \A i \in 1 .. Len(toHost) : toHost[i].kind # "frame"

KnownInv == mounted \in known

SessionInv ==
  /\ TypeInv /\ StageInv /\ HandshakeInv
  /\ Serving => ServingInv
  /\ LateInv /\ KnownInv /\ NothingOutlives /\ NoFalseViolation

-------------------------------------------------------------------------------
(* Sequences.                                                              *)

(* What Append does to a sequence, entry by entry.                         *)
LEMMA AppendEntries ==
  ASSUME NEW S, NEW seq \in Seq(S), NEW e \in S
  PROVE  /\ Append(seq, e) \in Seq(S)
         /\ Len(seq) \in Nat
         /\ Len(Append(seq, e)) = Len(seq) + 1
         /\ Append(seq, e)[Len(seq) + 1] = e
         /\ \A k \in 1 .. Len(seq) : Append(seq, e)[k] = seq[k] /\ seq[k] \in S
         /\ \A k \in 1 .. Len(seq) + 1 : k = Len(seq) + 1 \/ k \in 1 .. Len(seq)
BY AppendProperties, LenProperties, ElementOfSeq

(* What writing two messages does to a pipe.                               *)
LEMMA PairEntries ==
  ASSUME NEW S, NEW seq \in Seq(S), NEW d \in S, NEW e \in S
  PROVE  /\ seq \o <<d, e>> \in Seq(S)
         /\ Len(seq) \in Nat
         /\ Len(seq \o <<d, e>>) = Len(seq) + 2
         /\ (seq \o <<d, e>>)[Len(seq) + 1] = d
         /\ (seq \o <<d, e>>)[Len(seq) + 2] = e
         /\ \A k \in 1 .. Len(seq) : (seq \o <<d, e>>)[k] = seq[k] /\ seq[k] \in S
         /\ \A k \in 1 .. Len(seq) + 2 :
              k = Len(seq) + 1 \/ k = Len(seq) + 2 \/ k \in 1 .. Len(seq)
<1>1. Append(seq, d) \in Seq(S)
  BY AppendProperties
<1>2. seq \o <<d, e>> = Append(Append(seq, d), e)
  <2>1. <<d>> \in Seq(S) /\ <<e>> \in Seq(S) /\ <<d, e>> = <<d>> \o <<e>>
    <3>1. <<d>> \in Seq(S) /\ <<e>> \in Seq(S) /\ <<d, e>> \in Seq(S)
      OBVIOUS
    <3>2. /\ Len(<<d, e>>) = 2 /\ Len(<<d>> \o <<e>>) = 2
          /\ (<<d>> \o <<e>>)[1] = d /\ (<<d>> \o <<e>>)[2] = e
      BY <3>1, ConcatProperties
    <3>3. <<d>> \o <<e>> \in Seq(S)
      BY <3>1, ConcatProperties
    <3> DEFINE c == <<d>> \o <<e>>
               p == <<d, e>>
    <3>4. p \in Seq(S) /\ c \in Seq(S) /\ Len(p) = 2 /\ Len(c) = 2
      BY <3>1, <3>2, <3>3
    <3>5. p[1] = d /\ p[2] = e /\ c[1] = d /\ c[2] = e
      BY <3>2
    <3> HIDE DEF c, p
    <3>6. \A i \in 1 .. Len(p) : p[i] = c[i]
      BY <3>4, <3>5
    <3>7. p = c
      BY <3>4, <3>6, SeqEqual
    <3>8. QED
      BY <3>1, <3>7 DEF c, p
  <2>2. seq \o (<<d>> \o <<e>>) = (seq \o <<d>>) \o <<e>>
    BY <2>1, ConcatAssociative
  <2>3. Append(seq, d) = seq \o <<d>> /\ Append(Append(seq, d), e) = Append(seq, d) \o <<e>>
    BY <1>1, AppendIsConcat
  <2>4. QED
    BY <2>1, <2>2, <2>3
<1>3. QED
  BY <1>1, <1>2, AppendEntries

(* What Head and Tail take from a sequence, entry by entry.                *)
LEMMA TailEntries ==
  ASSUME NEW S, NEW seq \in Seq(S), seq # << >>
  PROVE  /\ Head(seq) = seq[1] /\ Head(seq) \in S
         /\ Tail(seq) \in Seq(S)
         /\ Len(seq) \in Nat \ {0}
         /\ Len(Tail(seq)) = Len(seq) - 1
         /\ \A k \in 1 .. Len(Tail(seq)) :
              k + 1 \in 1 .. Len(seq) /\ Tail(seq)[k] = seq[k + 1] /\ Tail(seq)[k] \in S
BY HeadTailProperties, LenProperties, EmptySeq, ElementOfSeq

(* A message written ahead of what is still in the pipe.                   *)
LEMMA InsertType ==
  ASSUME NEW S, NEW seq \in Seq(S), NEW e \in S, NEW n \in 0 .. Len(seq)
  PROVE  SubSeq(seq, 1, n) \o <<e>> \o SubSeq(seq, n + 1, Len(seq)) \in Seq(S)
<1>1. SubSeq(seq, 1, n) \in Seq(S)
  BY SubSeqProperties, LenProperties
<1>2. SubSeq(seq, n + 1, Len(seq)) \in Seq(S)
  BY SubSeqProperties, LenProperties
<1>3. <<e>> \in Seq(S)
  OBVIOUS
<1>4. QED
  BY <1>1, <1>2, <1>3, ConcatProperties

-------------------------------------------------------------------------------
(* Types.                                                                  *)

LEMMA NumberedIsMessage == Numbered \subseteq Messages /\ Seq(Numbered) \subseteq Seq(Messages)
BY SeqMonotonic DEF Numbered

LEMMA IdsAreNat == Ids \subseteq Nat \ {0} /\ NoId \notin RequestIds /\ ShutdownId \in RequestIds
                   /\ Ids \subseteq RequestIds /\ ShutdownId \notin Ids
BY SessionAssumption DEF NoId, RequestIds, ShutdownId

(* Any message can be written.                                             *)
LEMMA MessageType ==
  ASSUME NEW kind \in Kinds, NEW id \in RequestIds \cup {NoId},
         NEW page \in Pages \cup {NoPage}, NEW seq \in Nat
  PROVE  /\ Message(kind, id, page, seq) \in Messages
         /\ kind \notin {"mount", "ready"} \/ id \in Ids => Message(kind, id, page, seq) \in Numbered
         /\ Message(kind, id, page, seq).kind = kind /\ Message(kind, id, page, seq).id = id
         /\ Message(kind, id, page, seq).page = page /\ Message(kind, id, page, seq).seq = seq
BY DEF Message, Messages, Numbered

(* What the pump, or start(), reads.                                       *)
LEMMA HeadType ==
  ASSUME TypeInv, toHost # << >>
  PROVE  /\ Head(toHost) \in Messages /\ Tail(toHost) \in Seq(Messages)
         /\ Len(toHost) \in Nat \ {0} /\ Head(toHost) = toHost[1]
         /\ Len(Tail(toHost)) = Len(toHost) - 1
         /\ \A k \in 1 .. Len(Tail(toHost)) :
              k + 1 \in 1 .. Len(toHost) /\ Tail(toHost)[k] = toHost[k + 1]
         /\ start = "ok" => Head(toHost) \in Numbered /\ Tail(toHost) \in Seq(Numbered)
<1>1. toHost \in Seq(Messages) /\ (start = "ok" => toHost \in Seq(Numbered))
  BY DEF TypeInv, PipesOK
<1>2. QED
  BY <1>1, TailEntries

(* What the child reads.                                                   *)
LEMMA PayloadType ==
  ASSUME TypeInv, toChild # << >>
  PROVE  /\ Head(toChild) \in Messages /\ Tail(toChild) \in Seq(Messages)
         /\ Len(toChild) \in Nat \ {0} /\ Head(toChild) = toChild[1]
         /\ Len(Tail(toChild)) = Len(toChild) - 1
         /\ \A k \in 1 .. Len(Tail(toChild)) :
              k + 1 \in 1 .. Len(toChild) /\ Tail(toChild)[k] = toChild[k + 1]
         /\ start = "ok" => Head(toChild) \in Numbered /\ Tail(toChild) \in Seq(Numbered)
<1>1. toChild \in Seq(Messages) /\ (start = "ok" => toChild \in Seq(Numbered))
  BY DEF TypeInv, PipesOK
<1>2. QED
  BY <1>1, TailEntries

(* What start() reads last is the frame, with nothing behind it that has   *)
(* to do with the handshake.                                               *)
LEMMA ReadyType ==
  ASSUME TypeInv, HandshakeInv, start = "running", toHost # << >>,
         Head(toHost).kind = "frame"
  PROVE  /\ toChild = << >> /\ Tail(toHost) \in Seq(Numbered)
         /\ \A k \in 1 .. Len(Tail(toHost)) : ~Milestone(Tail(toHost)[k])
<1>1. 1 \in 1 .. Len(toHost) /\ Milestone(toHost[1])
  BY HeadType DEF Milestone
<1>2. toChild = << >>
  BY <1>1 DEF HandshakeInv
<1>3. ASSUME NEW k \in 1 .. Len(Tail(toHost))
      PROVE  ~Milestone(Tail(toHost)[k]) /\ Tail(toHost)[k] \in Numbered
  <2>1. k + 1 \in 1 .. Len(toHost) /\ 1 < k + 1 /\ Tail(toHost)[k] = toHost[k + 1]
    BY HeadType
  <2>2. ~Milestone(toHost[k + 1])
    BY <1>1, <2>1, HeadType DEF HandshakeInv
  <2>3. toHost[k + 1].kind \in {"error", "garbage"}
    BY <2>1, <2>2 DEF HandshakeInv, Milestone
  <2>4. toHost[k + 1] \in Messages
    BY <2>1, ElementOfSeq DEF TypeInv, PipesOK
  <2>5. QED
    BY <2>1, <2>2, <2>3, <2>4 DEF Numbered
<1>4. Tail(toHost) \in Seq(Numbered)
  <2> DEFINE rest == Tail(toHost)
  <2>1. rest \in Seq(Messages) /\ \A k \in 1 .. Len(rest) : rest[k] \in Numbered
    BY <1>3, HeadType
  <2> HIDE DEF rest
  <2>2. rest \in Seq(Numbered)
    BY <2>1, IsASeq, LenProperties
  <2>3. QED
    BY <2>2 DEF rest
<1>5. QED
  BY <1>2, <1>3, <1>4

(* What is on its way to the child, and what it answers, is well typed.    *)
LEMMA ChildType ==
  ASSUME TypeInv,
         handleHello \/ handleMount \/ handleResize \/ handleQuery \/ handleShutdown
  PROVE  PipesOK'
<1> DEFINE m == Head(toChild)
           seq == child.seq + 1
<1>1. /\ UNCHANGED <<sessionVars, mountVars, callVars>> /\ toChild # << >>
      /\ toChild' = Tail(toChild)
  BY DEF handleHello, handleMount, handleResize, handleQuery, handleShutdown, Handling
<1>2. m \in Messages /\ (start = "ok" => m \in Numbered)
  BY <1>1, PayloadType
<1>3. child \in Children /\ seq \in Nat /\ child.page \in Pages \cup {NoPage}
  BY DEF TypeInv, PipesOK, Children
<1>4. toHost \in Seq(Messages) /\ (start = "ok" => toHost \in Seq(Numbered))
  BY DEF TypeInv, PipesOK
<1> DEFINE frame == Message("frame", NoId, m.page, seq)
           again == Message("frame", NoId, child.page, seq)
           answer == Message("response", m.id, NoPage, 0)
           error == Message("error", NoId, NoPage, 0)
           ready == Message("ready", m.id, m.page, 0)
<1>5. m.id \in RequestIds \cup {NoId} /\ m.page \in Pages \cup {NoPage}
  BY <1>2 DEF Messages
<1>6. start = "ok" /\ m.kind = "mount" => m.id \in Ids
  BY <1>2 DEF Numbered
<1>7. /\ frame \in Messages /\ frame \in Numbered
      /\ again \in Messages /\ again \in Numbered
      /\ answer \in Messages /\ answer \in Numbered
      /\ error \in Messages /\ error \in Numbered
  <2> HIDE DEF m, seq
  <2> {"frame", "response", "error"} \subseteq Kinds /\ NoId \in RequestIds \cup {NoId}
    BY DEF Kinds
  <2>1. frame \in Messages /\ frame \in Numbered
    BY <1>3, <1>5, MessageType
  <2>2. again \in Messages /\ again \in Numbered
    BY <1>3, <1>5, MessageType
  <2>3. answer \in Messages /\ answer \in Numbered
    BY <1>5, MessageType
  <2>4. error \in Messages /\ error \in Numbered
    BY MessageType
  <2> HIDE DEF frame, again, answer, error
  <2>5. QED
    BY <2>1, <2>2, <2>3, <2>4
<1>8. ready \in Messages /\ (start = "ok" /\ m.kind = "mount" => ready \in Numbered)
  <2> HIDE DEF m, seq
  <2>1. QED
    BY <1>5, <1>6, MessageType DEF Kinds
<1>9. child' \in Children
  <2>1. child' = child \/ child' = [child EXCEPT !.life = "dying"]
        \/ child' = [child EXCEPT !.page = m.page, !.seq = seq]
        \/ child' = [child EXCEPT !.seq = seq]
    BY DEF handleHello, handleMount, handleResize, handleQuery, handleShutdown
  <2> HIDE DEF m, seq
  <2>2. QED
    BY <1>3, <1>5, <2>1 DEF Children
<1>10. \/ toHost' = Append(toHost, m) \/ toHost' = Append(toHost, error)
       \/ toHost' = Append(toHost, answer) \/ toHost' = toHost \o <<again, answer>>
       \/ m.kind = "mount" /\ toHost' = toHost \o <<ready, frame>>
  BY DEF handleHello, handleMount, handleResize, handleQuery, handleShutdown
<1> HIDE DEF m, seq, frame, again, answer, error, ready
<1>11. ASSUME NEW S, toHost \in Seq(S), m \in S, error \in S, answer \in S, again \in S,
              frame \in S, m.kind = "mount" => ready \in S
       PROVE  toHost' \in Seq(S)
  <2>1. \A e \in S : Append(toHost, e) \in Seq(S)
    BY <1>11, AppendEntries
  <2>2. \A d, e \in S : toHost \o <<d, e>> \in Seq(S)
    BY <1>11, PairEntries
  <2>3. CASE toHost' = toHost \o <<again, answer>>
    BY <1>11, <2>2, <2>3
  <2>4. CASE m.kind = "mount" /\ toHost' = toHost \o <<ready, frame>>
    BY <1>11, <2>2, <2>4
  <2>5. QED
    BY <1>10, <1>11, <2>1, <2>3, <2>4
<1>12. toHost' \in Seq(Messages)
  BY <1>2, <1>4, <1>7, <1>8, <1>11
<1>13. start = "ok" => toHost' \in Seq(Numbered)
  BY <1>2, <1>4, <1>7, <1>8, <1>11
<1>14. QED
  BY <1>1, <1>9, <1>12, <1>13, PayloadType DEF PipesOK, sessionVars

LEMMA TypeStep ==
  ASSUME TypeInv, StageInv, HandshakeInv, [Next]_vars
  PROVE  TypeInv'
<1> USE IdsAreNat
<1>1. CASE Start
  <2>1. toChild' \in Seq(Messages)
    BY <1>1, MessageType DEF Start, Kinds
  <2>2. SessionOK' /\ MountOK' /\ CallsOK'
    BY <1>1 DEF TypeInv, SessionOK, MountOK, CallsOK, Start, mountVars, callVars
  <2>3. PipesOK'
    BY <1>1, <2>1 DEF TypeInv, PipesOK, Start, Children
  <2>4. QED
    BY <2>2, <2>3 DEF TypeInv
<1>2. CASE ReadStart
  <2>1. Message("mount", NoId, FirstPage, 0) \in Messages
    BY MessageType, SessionAssumption DEF Kinds
  <2>2. toHost # << >> /\ toHost' = Tail(toHost) /\ start = "running"
        /\ toChild' \in {toChild, Append(toChild, Message("mount", NoId, FirstPage, 0))}
        /\ lastSeq' \in {lastSeq, Head(toHost).seq} /\ child' \in {child, Killed}
    BY <1>2 DEF ReadStart, StartGivesUp
  <2>3. toChild' \in Seq(Messages) /\ toHost' \in Seq(Messages)
    <3>1. Append(toChild, Message("mount", NoId, FirstPage, 0)) \in Seq(Messages)
      BY <2>1, AppendEntries DEF TypeInv, PipesOK
    <3>2. QED
      BY <2>2, <3>1, HeadType DEF TypeInv, PipesOK
  <2>4. start' = "ok" => toChild' \in Seq(Numbered) /\ toHost' \in Seq(Numbered)
    <3>1. start' = "ok" => Head(toHost).kind = "frame" /\ toChild' = toChild
      BY <1>2 DEF ReadStart, StartGivesUp
    <3>2. << >> \in Seq(Numbered)
      OBVIOUS
    <3>3. QED
      BY <2>2, <3>1, <3>2, ReadyType
  <2>5. lastSeq' \in Nat
    BY <2>2, HeadType DEF Messages, TypeInv, MountOK
  <2>6. child' \in Children
    BY <2>2 DEF Killed, Children, TypeInv, PipesOK
  <2>7. SessionOK'
    BY <1>2 DEF TypeInv, SessionOK, ReadStart, StartGivesUp
  <2>8. MountOK' /\ CallsOK'
    BY <1>2, <2>5 DEF TypeInv, MountOK, CallsOK, ReadStart, callVars
  <2>9. QED
    BY <2>3, <2>4, <2>6, <2>7, <2>8 DEF TypeInv, PipesOK
<1>3. CASE StartExpires
  <2>1. child' \in Children
    BY <1>3 DEF StartExpires, StartGivesUp, Killed, Children, TypeInv, PipesOK
  <2>2. QED
    BY <1>3, <2>1 DEF TypeInv, SessionOK, MountOK, CallsOK, PipesOK, StartExpires,
                      StartGivesUp, mountVars, callVars
<1>4. CASE StartFails
  BY <1>4 DEF TypeInv, SessionOK, MountOK, CallsOK, PipesOK, StartFails, mountVars, callVars,
              pipeVars
<1>5. ASSUME NEW id \in Ids, NEW kind \in {"mount", "resize", "query"},
             NEW p \in Pages \cup {NoPage}, Send(id, kind, p)
      PROVE  SessionOK' /\ CallsOK' /\ PipesOK'
  <2>1. CallsOK'
    BY <1>5 DEF Send, TypeInv, CallsOK
  <2>2. Message(kind, id, p, 0) \in Messages /\ Message(kind, id, p, 0) \in Numbered
    BY MessageType DEF Kinds
  <2>3. toChild' \in {toChild, Append(toChild, Message(kind, id, p, 0))}
    BY <1>5 DEF Send
  <2>4. toChild' \in Seq(Messages) /\ (start = "ok" => toChild' \in Seq(Numbered))
    <3> DEFINE m == Message(kind, id, p, 0)
    <3> HIDE DEF m
    <3>1. m \in Messages /\ m \in Numbered /\ toChild' \in {toChild, Append(toChild, m)}
      BY <2>2, <2>3 DEF m
    <3>2. toChild \in Seq(Messages) /\ (start = "ok" => toChild \in Seq(Numbered))
      BY DEF TypeInv, PipesOK
    <3>3. Append(toChild, m) \in Seq(Messages)
      BY <3>1, <3>2, AppendEntries
    <3>4. start = "ok" => Append(toChild, m) \in Seq(Numbered)
      BY <3>1, <3>2, AppendEntries
    <3>5. QED
      BY <3>1, <3>2, <3>3, <3>4
  <2>5. QED
    BY <1>5, <2>1, <2>4 DEF Send, TypeInv, SessionOK, PipesOK, sessionVars
<1>6. ASSUME NEW id \in Ids, NEW p \in Pages, Mount(id, p)
      PROVE  TypeInv'
  <2>1. Send(id, "mount", p) /\ (mounting' = NoMount \/ mounting' = [id |-> id, page |-> p])
    BY <1>6 DEF Mount
  <2>2. MountOK'
    BY <2>1 DEF Send, TypeInv, MountOK
  <2>3. QED
    BY <1>5, <2>1, <2>2 DEF TypeInv
<1>7. ASSUME NEW id \in Ids, NEW kind \in {"resize", "query"}, Request(id, kind)
      PROVE  TypeInv'
  <2>1. Send(id, kind, NoPage) /\ mounting' = mounting
    BY <1>7 DEF Request
  <2>2. MountOK'
    BY <2>1 DEF Send, TypeInv, MountOK
  <2>3. QED
    BY <1>5, <2>1, <2>2 DEF TypeInv
<1>8. ASSUME NEW why \in {"protocol", "other"}, onPumpFatal(why), pumping' \in BOOLEAN,
             late' \in 0 .. Unresponsive, toChild' = toChild,
             \/ toHost' = toHost
             \/ toHost # << >> /\ toHost' = Tail(toHost)
      PROVE  TypeInv'
  <2>1. CallsOK'
    BY <1>8 DEF onPumpFatal, ClearTable, Outcome, TypeInv, CallsOK
  <2>2. SessionOK'
    BY <1>8 DEF onPumpFatal, TypeInv, SessionOK
  <2>3. MountOK'
    BY <1>8 DEF onPumpFatal, ClearTable, TypeInv, MountOK
  <2>4. child' \in Children
    BY <1>8 DEF onPumpFatal, Killed, Children, TypeInv, PipesOK
  <2>5. toHost' \in Seq(Messages) /\ (start = "ok" => toHost' \in Seq(Numbered))
    BY <1>8, HeadType DEF TypeInv, PipesOK
  <2>6. QED
    BY <1>8, <2>1, <2>2, <2>3, <2>4, <2>5 DEF onPumpFatal, TypeInv, PipesOK
<1>9. ASSUME NEW id \in Ids, RequestTimesOut(id)
      PROVE  TypeInv'
  <2>1. late' \in 0 .. Unresponsive
    BY <1>9, SessionAssumption DEF RequestTimesOut, TypeInv, CallsOK
  <2>2. CASE onPumpFatal("other")
    BY <1>8, <1>9, <2>1, <2>2 DEF RequestTimesOut, TypeInv, SessionOK
  <2>3. CASE Settle(id, "error") /\ UNCHANGED <<phase, start, stop, report, cause, mountVars, child>>
    <3>1. CallsOK'
      BY <2>1, <2>3 DEF Settle, Outcome, TypeInv, CallsOK
    <3>2. QED
      BY <1>9, <2>3, <3>1 DEF RequestTimesOut, TypeInv, SessionOK, MountOK, PipesOK, mountVars
  <2>4. QED
    BY <1>9, <2>2, <2>3 DEF RequestTimesOut
<1>10. CASE WindowPasses
  BY <1>10, SessionAssumption
     DEF WindowPasses, TypeInv, SessionOK, MountOK, CallsOK, PipesOK, sessionVars, mountVars,
         pipeVars
<1>11. CASE DeadlinePasses
  BY <1>8, <1>11 DEF DeadlinePasses, TypeInv, SessionOK, CallsOK
<1>12. ASSUME toHost # << >>, toHost' = Tail(toHost),
              NEW why \in {"protocol", "other"}, PumpFails(why)
       PROVE  TypeInv'
  BY <1>8, <1>12 DEF PumpFails, TypeInv, CallsOK
<1>13. CASE PumpFrame
  <2>1. CASE PumpFails("protocol")
    BY <1>12, <1>13, <2>1 DEF PumpFrame
  <2>2. CASE ~PumpFails("protocol")
    <3>1. /\ lastSeq' = Head(toHost).seq /\ frameTimer' = FALSE /\ toHost # << >>
          /\ toHost' = Tail(toHost)
          /\ UNCHANGED <<sessionVars, mounting, mounted, known, callVars, toChild, child>>
      BY <1>13, <2>2 DEF PumpFrame
    <3>2. lastSeq' \in Nat
      BY <3>1, HeadType DEF Messages
    <3>3. SessionOK' /\ MountOK' /\ CallsOK'
      <4>1. SessionOK' /\ CallsOK'
        BY <3>1 DEF TypeInv, SessionOK, CallsOK, sessionVars, callVars
      <4>2. MountOK'
        BY <3>1, <3>2 DEF TypeInv, MountOK
      <4>3. QED
        BY <4>1, <4>2
    <3>4. PipesOK'
      BY <3>1, HeadType DEF TypeInv, PipesOK, sessionVars
    <3>5. QED
      BY <3>3, <3>4 DEF TypeInv
  <2>3. QED
    BY <2>1, <2>2
<1>14. CASE PumpAnswer
  <2>1. start = "ok" /\ toHost # << >> /\ toHost' = Tail(toHost)
    BY <1>14 DEF PumpAnswer, StageInv, Untouched
  <2>2. Head(toHost) \in Numbered
    BY <2>1, HeadType
  <2>3. Head(toHost).kind = "ready" /\ Head(toHost).id = mounting.id => mounting.page \in Pages
    <3>1. NoMount.id = NoId
      BY DEF NoMount
    <3>2. mounting = NoMount \/ mounting.page \in Pages
      BY DEF TypeInv, MountOK
    <3>3. QED
      BY <2>2, <3>1, <3>2 DEF Numbered
  <2>4. CallsOK'
    BY <1>14 DEF PumpAnswer, Settle, Outcome, Open, TypeInv, CallsOK
  <2>5. MountOK'
    BY <1>14, <2>3 DEF PumpAnswer, TypeInv, MountOK
  <2>6. QED
    BY <1>14, <2>1, <2>4, <2>5, HeadType DEF PumpAnswer, TypeInv, SessionOK, PipesOK, sessionVars
<1>15. CASE PumpError
  BY <1>12, <1>15 DEF PumpError
<1>16. CASE PumpEnds
  <2>1. CASE onPumpFatal("other")
    BY <1>8, <1>16, <2>1 DEF PumpEnds, TypeInv, CallsOK
  <2>2. CASE ~onPumpFatal("other")
    <3>1. UNCHANGED <<phase, start, stop, report, cause, mountVars, table, calls, child>>
      BY <1>16, <2>2 DEF PumpEnds
    <3>2. QED
      <4>1. SessionOK' /\ PipesOK'
        <5>1. SessionOK'
          BY <1>16, <3>1 DEF PumpEnds, TypeInv, SessionOK
        <5>2. PipesOK'
          BY <1>16, <3>1 DEF PumpEnds, TypeInv, PipesOK
        <5>3. QED
          BY <5>1, <5>2
      <4>2. MountOK' /\ CallsOK'
        BY <1>16, <3>1 DEF PumpEnds, TypeInv, MountOK, CallsOK, mountVars
      <4>3. QED
        BY <4>1, <4>2 DEF TypeInv
  <2>3. QED
    BY <2>1, <2>2
<1>17. CASE TeardownEnds
  BY <1>17 DEF TeardownEnds, TypeInv, SessionOK, MountOK, CallsOK, PipesOK, mountVars, callVars,
               pipeVars
<1>18. CASE Stop
  <2>1. CallsOK'
    BY <1>18 DEF Stop, Teardown, ClearTable, Outcome, TypeInv, CallsOK
  <2>2. toChild' \in Seq(Messages) /\ (start = "ok" => toChild' \in Seq(Numbered))
    <3> DEFINE m == Message("shutdown", ShutdownId, NoPage, 0)
    <3>1. m \in Messages /\ m \in Numbered
      BY MessageType DEF Kinds
    <3>2. CASE toChild' = toChild
      BY <3>2 DEF TypeInv, PipesOK
    <3>3. CASE \E sent \in 0 .. Len(toChild) :
                 toChild' = SubSeq(toChild, 1, sent) \o <<m>>
                            \o SubSeq(toChild, sent + 1, Len(toChild))
      <4> HIDE DEF m
      <4>1. QED
        BY <3>1, <3>3, InsertType DEF TypeInv, PipesOK
    <3>4. QED
      BY <1>18, <3>2, <3>3 DEF Stop
  <2>3. child' \in Children
    BY <1>18 DEF Stop, Killed, TypeInv, PipesOK, Children
  <2>4. SessionOK'
    BY <1>18 DEF Stop, TypeInv, SessionOK
  <2>5. MountOK'
    BY <1>18 DEF Stop, Teardown, ClearTable, TypeInv, MountOK
  <2>6. QED
    BY <1>18, <2>1, <2>2, <2>3, <2>4, <2>5 DEF Stop, TypeInv, PipesOK
<1>19. CASE StopAcked \/ StopForced
  <2>1. CallsOK'
    BY <1>19 DEF StopAcked, StopForced, Teardown, ClearTable, Outcome, TypeInv, CallsOK
  <2>2. child' \in Children
    BY <1>19 DEF StopAcked, StopForced, Killed, TypeInv, PipesOK, Children
  <2>3. SessionOK'
    BY <1>19 DEF StopAcked, StopForced, TypeInv, SessionOK
  <2>4. MountOK'
    BY <1>19 DEF StopAcked, StopForced, Teardown, ClearTable, TypeInv, MountOK
  <2>5. QED
    BY <1>19, <2>1, <2>2, <2>3, <2>4 DEF StopAcked, StopForced, TypeInv, PipesOK
<1>20. CASE StopEnds
  BY <1>20 DEF StopEnds, TypeInv, SessionOK, MountOK, CallsOK, PipesOK, mountVars, callVars,
               pipeVars
<1>21. CASE handleHello \/ handleMount \/ handleResize \/ handleQuery \/ handleShutdown
  <2>1. UNCHANGED <<sessionVars, mountVars, callVars>>
    BY <1>21 DEF handleHello, handleMount, handleResize, handleQuery, handleShutdown, Handling
  <2>2. PipesOK'
    BY <1>21, ChildType
  <2>3. QED
    BY <2>1, <2>2 DEF TypeInv, SessionOK, MountOK, CallsOK, sessionVars, mountVars, callVars
<1>22. CASE ChildDies
  <2>1. PipesOK'
    BY <1>22 DEF ChildDies, TypeInv, PipesOK, Children, sessionVars
  <2>2. QED
    BY <1>22, <2>1 DEF ChildDies, TypeInv, SessionOK, MountOK, CallsOK, sessionVars, mountVars,
                       callVars
<1>23. CASE ChildWritesGarbage
  <2>1. Message("garbage", NoId, NoPage, 0) \in Messages
        /\ Message("garbage", NoId, NoPage, 0) \in Numbered
    BY DEF Message, Messages, Numbered, Kinds
  <2>2. toHost' \in Seq(Messages) /\ (start = "ok" => toHost' \in Seq(Numbered))
    BY <1>23, <2>1, AppendEntries DEF ChildWritesGarbage, TypeInv, PipesOK
  <2>3. QED
    BY <1>23, <2>2 DEF ChildWritesGarbage, TypeInv, SessionOK, MountOK, CallsOK, PipesOK,
                       sessionVars, mountVars, callVars
<1>24. CASE UNCHANGED vars
  BY <1>24 DEF vars, sessionVars, mountVars, callVars, pipeVars, TypeInv, SessionOK, MountOK,
               CallsOK, PipesOK
<1>25. QED
  BY <1>1, <1>2, <1>3, <1>4, <1>6, <1>7, <1>9, <1>10, <1>11, <1>13, <1>14, <1>15, <1>16,
     <1>17, <1>18, <1>19, <1>20, <1>21, <1>22, <1>23, <1>24
     DEF Next, Child, Finished

-------------------------------------------------------------------------------
(* Stages.                                                                 *)

(* What a pump that reports a failure does to the stages.                  *)
LEMMA FatalStage ==
  ASSUME TypeInv, StageInv, start = "ok", NEW why, onPumpFatal(why),
         phase = "ready" \/ pumping' = pumping \/ pumping' = FALSE
  PROVE  StageInv'
<1>1. CASE phase = "ready"
  BY <1>1 DEF onPumpFatal, StageInv, Untouched
<1>2. CASE phase # "ready"
  BY <1>2 DEF onPumpFatal, StageInv, Untouched
<1>3. QED
  BY <1>1, <1>2

LEMMA StageStep ==
  ASSUME TypeInv, StageInv, [Next]_vars
  PROVE  StageInv'
<1> USE DEF Open
<1>1. CASE Start
  BY <1>1 DEF Start, StageInv, Untouched, mountVars, callVars
<1>2. CASE ReadStart
  <2>1. child' \in {child, Killed}
    BY <1>2 DEF ReadStart, StartGivesUp
  <2>2. child.life # "running" => child'.life # "running"
    BY <2>1 DEF Killed, TypeInv, PipesOK, Children
  <2>3. start' = "ok" => phase' = "ready" /\ pumping' /\ stop' = stop
    BY <1>2 DEF ReadStart, StartGivesUp
  <2>4. start' # "ok" => UNCHANGED <<phase, pumping, stop>> /\ start' \in {"running", "failing"}
    BY <1>2 DEF ReadStart, StartGivesUp
  <2>5. /\ start = "running" /\ UNCHANGED <<stop, report, mounting, mounted, known, frameTimer,
                                            callVars>>
    BY <1>2 DEF ReadStart
  <2>6. QED
    BY <2>2, <2>3, <2>4, <2>5 DEF StageInv, Untouched, callVars
<1>3. CASE StartExpires
  <2>1. child.life # "running" => child'.life # "running"
    BY <1>3 DEF StartExpires, StartGivesUp, Killed, TypeInv, PipesOK, Children
  <2>2. QED
    BY <1>3, <2>1 DEF StartExpires, StartGivesUp, StageInv, Untouched, mountVars, callVars
<1>4. CASE StartFails
  BY <1>4 DEF StartFails, StageInv, Untouched, mountVars, callVars, pipeVars
<1>5. ASSUME NEW id, NEW kind, NEW p, Send(id, kind, p)
      PROVE  StageInv'
  BY <1>5 DEF Send, StageInv, Untouched, sessionVars
<1>6. ASSUME NEW id \in Ids, RequestTimesOut(id)
      PROVE  StageInv'
  <2>1. start = "ok" /\ pumping' = pumping
    BY <1>6 DEF RequestTimesOut, StageInv, Untouched
  <2>2. CASE onPumpFatal("other")
    BY <2>1, <2>2, FatalStage
  <2>3. CASE ~onPumpFatal("other")
    BY <1>6, <2>1, <2>3 DEF RequestTimesOut, StageInv
  <2>4. QED
    BY <2>2, <2>3
<1>7. CASE WindowPasses
  BY <1>7 DEF WindowPasses, StageInv, Untouched, sessionVars, mountVars, pipeVars
<1>8. CASE DeadlinePasses
  BY <1>8, FatalStage DEF DeadlinePasses
<1>9. ASSUME NEW why, pumping, PumpFails(why)
      PROVE  StageInv'
  BY <1>9, FatalStage DEF PumpFails, StageInv, Untouched
<1>10. CASE PumpFrame
  <2>1. CASE PumpFails("protocol")
    BY <1>9, <1>10, <2>1 DEF PumpFrame
  <2>2. CASE UNCHANGED <<sessionVars, mounting, mounted, known, callVars, toChild, child>>
    BY <1>10, <2>2 DEF PumpFrame, StageInv, Untouched, sessionVars
  <2>3. QED
    BY <1>10, <2>1, <2>2 DEF PumpFrame
<1>11. CASE PumpAnswer
  BY <1>11 DEF PumpAnswer, StageInv, Untouched, sessionVars
<1>12. CASE PumpError
  BY <1>9, <1>12 DEF PumpError
<1>13. CASE PumpEnds
  <2>1. start = "ok" /\ pumping' = FALSE
    BY <1>13 DEF PumpEnds, StageInv, Untouched
  <2>2. CASE phase = "ready"
    BY <1>13, <2>1, <2>2, FatalStage DEF PumpEnds
  <2>3. CASE phase # "ready"
    BY <1>13, <2>1, <2>3 DEF PumpEnds, StageInv
  <2>4. QED
    BY <2>2, <2>3
<1>14. CASE TeardownEnds
  BY <1>14 DEF TeardownEnds, StageInv, Untouched, mountVars, callVars, pipeVars
<1>15. CASE Stop
  <2>1. child' \in {child, Killed}
    BY <1>15 DEF Stop
  <2>2. \/ /\ phase' = phase /\ stop' = "forced" /\ child' = Killed /\ Teardown
           /\ phase # "ready"
        \/ phase' = "stopping" /\ phase = "ready" /\ stop' \in {"waiting", "forced"}
    BY <1>15 DEF Stop
  <2>3. Killed.life # "running"
    BY DEF Killed, TypeInv, PipesOK, Children
  <2>4. stop = "none" /\ start # "none"
        /\ UNCHANGED <<start, report, cause, pumping, mounted, known>>
    BY <1>15 DEF Stop
  <2>5. CASE phase = "ready"
    BY <2>2, <2>4, <2>5 DEF StageInv, Untouched
  <2>6. CASE phase # "ready"
    <3>1. Teardown => mounting' = NoMount /\ Open' = {} /\ ~frameTimer'
      BY DEF Teardown, ClearTable
    <3>2. QED
      BY <2>2, <2>3, <2>4, <2>6, <3>1 DEF StageInv, Untouched
  <2>7. QED
    BY <2>5, <2>6
<1>16. CASE StopAcked \/ StopForced
  BY <1>16 DEF StopAcked, StopForced, StageInv, TypeInv, SessionOK
<1>17. CASE StopEnds
  BY <1>17 DEF StopEnds, Exited, StageInv, Untouched, mountVars, callVars, pipeVars
<1>18. CASE handleHello \/ handleMount \/ handleResize \/ handleQuery \/ handleShutdown
  <2>1. UNCHANGED <<sessionVars, mountVars, callVars>> /\ child.life = "running" /\ toChild # << >>
    BY <1>18 DEF handleHello, handleMount, handleResize, handleQuery, handleShutdown, Handling
  <2>2. QED
    BY <2>1 DEF StageInv, Untouched, sessionVars, mountVars, callVars
<1>19. CASE ChildDies
  BY <1>19 DEF ChildDies, StageInv, Untouched, sessionVars, mountVars, callVars
<1>20. CASE ChildWritesGarbage
  BY <1>20 DEF ChildWritesGarbage, StageInv, Untouched, sessionVars, mountVars, callVars
<1>21. CASE UNCHANGED vars
  BY <1>21 DEF vars, sessionVars, mountVars, callVars, pipeVars, StageInv, Untouched
<1>22. QED
  BY <1>1, <1>2, <1>3, <1>4, <1>5, <1>6, <1>7, <1>8, <1>10, <1>11, <1>12, <1>13, <1>14, <1>15,
     <1>16, <1>17, <1>18, <1>19, <1>20, <1>21
     DEF Next, Child, Finished, Mount, Request

-------------------------------------------------------------------------------
(* The handshake.                                                          *)

(* While the child has something to read, start() has nothing of it.       *)
LEMMA HandshakeTurn ==
  ASSUME TypeInv, HandshakeInv, start = "running", toChild # << >>
  PROVE  /\ Tail(toChild) = << >> /\ Head(toChild).kind \in {"hello", "mount"}
         /\ Head(toChild).kind = "mount" =>
              Head(toChild).id = NoId /\ Head(toChild).page = FirstPage
         /\ \A i \in 1 .. Len(toHost) :
              ~Milestone(toHost[i]) /\ toHost[i].kind \in {"error", "garbage"}
<1>1. Len(toChild) = 1 /\ Len(Tail(toChild)) = 0 /\ Head(toChild) = toChild[1]
      /\ Tail(toChild) \in Seq(Messages)
  BY PayloadType DEF HandshakeInv
<1>2. Tail(toChild) = << >>
  BY <1>1, EmptySeq
<1>3. QED
  BY <1>1, <1>2 DEF HandshakeInv, Milestone

LEMMA HandshakeChild ==
  ASSUME TypeInv, StageInv, HandshakeInv, start = "running",
         handleHello \/ handleMount \/ handleResize \/ handleQuery \/ handleShutdown
  PROVE  HandshakeInv'
<1> DEFINE m == Head(toChild)
           frame == Message("frame", NoId, m.page, child.seq + 1)
           ready == Message("ready", m.id, m.page, 0)
           error == Message("error", NoId, NoPage, 0)
<1>1. /\ toChild # << >> /\ toChild' = Tail(toChild) /\ start' = start
      /\ child.life = "running"
  BY DEF handleHello, handleMount, handleResize, handleQuery, handleShutdown, Handling,
         sessionVars
<1>2. /\ toChild' = << >> /\ m.kind \in {"hello", "mount"} /\ m \in Messages
      /\ m.kind = "mount" => m.id = NoId /\ m.page = FirstPage
      /\ \A i \in 1 .. Len(toHost) :
           ~Milestone(toHost[i]) /\ toHost[i].kind \in {"error", "garbage"}
  BY <1>1, HandshakeTurn, PayloadType
<1>3. toHost \in Seq(Messages) /\ child \in Children
  BY DEF TypeInv, PipesOK
<1>4. Len(toChild') = 0
  BY <1>2
<1>5. /\ error \in Messages /\ ready \in Messages /\ frame \in Messages
      /\ error.kind = "error" /\ ready.kind = "ready"
      /\ frame.kind = "frame" /\ frame.page = m.page /\ frame.seq = child.seq + 1
  <2>1. m.id \in RequestIds \cup {NoId} /\ m.page \in Pages \cup {NoPage}
    BY <1>2 DEF Messages
  <2>2. child.seq + 1 \in Nat
    BY <1>3 DEF Children
  <2> HIDE DEF m
  <2>3. error \in Messages /\ error.kind = "error"
    BY MessageType DEF Kinds
  <2>4. ready \in Messages /\ ready.kind = "ready"
    BY <2>1 DEF Message, Messages, Kinds
  <2>5. /\ frame \in Messages /\ frame.kind = "frame" /\ frame.page = m.page
        /\ frame.seq = child.seq + 1
    BY <2>1, <2>2 DEF Message, Messages, Kinds
  <2>6. QED
    BY <2>3, <2>4, <2>5
<1>6. \/ m.kind = "hello" /\ toHost' = Append(toHost, m)
      \/ toHost' = Append(toHost, error)
      \/ /\ m.kind = "mount" /\ toHost' = toHost \o <<ready, frame>>
         /\ child' = [child EXCEPT !.page = m.page, !.seq = child.seq + 1]
  BY <1>2 DEF handleHello, handleMount, handleResize, handleQuery, handleShutdown
<1> HIDE DEF m, ready, frame, error
<1>7. CASE m.kind = "hello" /\ toHost' = Append(toHost, m)
  BY <1>1, <1>2, <1>3, <1>4, <1>7, AppendEntries DEF HandshakeInv, Milestone
<1>8. CASE toHost' = Append(toHost, error)
  BY <1>1, <1>2, <1>3, <1>4, <1>5, <1>8, AppendEntries DEF HandshakeInv, Milestone
<1>9. CASE /\ m.kind = "mount" /\ toHost' = toHost \o <<ready, frame>>
           /\ child' = [child EXCEPT !.page = m.page, !.seq = child.seq + 1]
  <2>1. child'.page = FirstPage /\ child'.seq = child.seq + 1 /\ child'.seq \in Nat
    BY <1>2, <1>3, <1>9 DEF Children
  <2>2. /\ Len(toHost) \in Nat /\ Len(toHost') = Len(toHost) + 2
        /\ toHost'[Len(toHost) + 1] = ready /\ toHost'[Len(toHost) + 2] = frame
        /\ \A k \in 1 .. Len(toHost) : toHost'[k] = toHost[k]
        /\ \A k \in 1 .. Len(toHost) + 2 :
             k = Len(toHost) + 1 \/ k = Len(toHost) + 2 \/ k \in 1 .. Len(toHost)
    BY <1>3, <1>5, <1>9, PairEntries
  <2>3. \A i \in 1 .. Len(toHost') :
          /\ toHost'[i].kind \in {"ready", "frame", "error", "garbage"}
          /\ Milestone(toHost'[i]) <=> i = Len(toHost) + 1 \/ i = Len(toHost) + 2
          /\ toHost'[i].kind = "frame" => i = Len(toHost) + 2
    BY <1>2, <1>5, <2>2 DEF Milestone
  <2>4. \A i \in 1 .. Len(toHost') :
          toHost'[i].kind = "frame" => toHost'[i].page = FirstPage /\ toHost'[i].seq = child'.seq
    BY <1>2, <1>5, <1>9, <2>1, <2>2, <2>3
  <2>5. \A i, j \in 1 .. Len(toHost') :
          i < j /\ Milestone(toHost'[i]) /\ Milestone(toHost'[j])
            => toHost'[i] = ready /\ toHost'[j] = frame
    BY <2>2, <2>3
  <2>6. QED
    BY <1>2, <1>4, <1>5, <2>1, <2>3, <2>4, <2>5 DEF HandshakeInv
<1>10. QED
  BY <1>6, <1>7, <1>8, <1>9

LEMMA HandshakeStep ==
  ASSUME TypeInv, StageInv, HandshakeInv, [Next]_vars
  PROVE  HandshakeInv'
<1> SUFFICES ASSUME start' = "running" PROVE HandshakeInv'
  BY DEF HandshakeInv
<1>1. CASE Start
  <2>1. toHost = << >> /\ toHost' = toHost
    BY <1>1 DEF Start, StageInv, SessionOK, TypeInv
  <2>2. toChild' = <<Message("hello", NoId, NoPage, 0)>>
    BY <1>1 DEF Start
  <2>3. Len(toChild') = 1 /\ toChild'[1].kind = "hello"
    BY <2>2 DEF Message
  <2>4. Len(toHost') = 0
    BY <2>1
  <2>5. QED
    BY <2>3, <2>4 DEF HandshakeInv
<1>2. CASE ReadStart
  <2>1. /\ start = "running" /\ toHost # << >> /\ toHost' = Tail(toHost) /\ child' = child
        /\ \/ toChild' = toChild
           \/ /\ Head(toHost).kind = "hello"
              /\ toChild' = Append(toChild, Message("mount", NoId, FirstPage, 0))
    BY <1>2 DEF ReadStart, StartGivesUp
  <2>2. CASE toChild' = toChild
    BY <2>1, <2>2, HeadType DEF HandshakeInv, Milestone
  <2>3. CASE /\ Head(toHost).kind = "hello"
             /\ toChild' = Append(toChild, Message("mount", NoId, FirstPage, 0))
    <3>1. 1 \in 1 .. Len(toHost) /\ toHost[1].kind = "hello" /\ Milestone(toHost[1])
      BY <2>1, <2>3, HeadType DEF Milestone
    <3>2. toChild = << >>
      BY <2>1, <3>1 DEF HandshakeInv
    <3>3. \A k \in 1 .. Len(toHost') : ~Milestone(toHost'[k])
      BY <2>1, <3>1, HeadType DEF HandshakeInv
    <3>4. toChild' = <<Message("mount", NoId, FirstPage, 0)>>
      BY <2>3, <3>2
    <3>5. Len(toChild') = 1 /\ toChild'[1].kind = "mount" /\ toChild'[1].id = NoId
          /\ toChild'[1].page = FirstPage
      BY <3>4 DEF Message
    <3>6. \A k \in 1 .. Len(toHost') : toHost'[k].kind \in {"error", "garbage"}
      BY <2>1, <3>3, HeadType DEF HandshakeInv, Milestone
    <3>7. QED
      BY <3>3, <3>5, <3>6 DEF HandshakeInv
  <2>4. QED
    BY <2>1, <2>2, <2>3
<1>3. ASSUME start = "running", toChild' = toChild, toHost' = toHost,
             child' = child \/ child' = Killed
      PROVE  HandshakeInv'
  <2>1. child'.page = child.page /\ child'.seq = child.seq
        /\ (child'.life # "exited" => child.life # "exited")
    BY <1>3 DEF Killed, TypeInv, PipesOK, Children
  <2>2. QED
    BY <1>3, <2>1 DEF HandshakeInv
<1>4. CASE Stop
  BY <1>3, <1>4 DEF Stop, StageInv
<1>5. CASE StopAcked \/ StopForced
  BY <1>3, <1>5 DEF StopAcked, StopForced
<1>6. CASE StopEnds \/ WindowPasses \/ TeardownEnds
  BY <1>3, <1>6 DEF StopEnds, WindowPasses, TeardownEnds, sessionVars, pipeVars
<1>7. CASE handleHello \/ handleMount \/ handleResize \/ handleQuery \/ handleShutdown
  <2>1. start = "running"
    BY <1>7 DEF handleHello, handleMount, handleResize, handleQuery, handleShutdown, Handling,
                sessionVars
  <2>2. QED
    BY <1>7, <2>1, HandshakeChild
<1>8. CASE ChildDies
  <2>1. child'.life = "exited" /\ toChild' = << >> /\ toHost' = toHost /\ start = "running"
    BY <1>8 DEF ChildDies, sessionVars
  <2>2. Len(toChild') = 0
    BY <2>1
  <2>3. QED
    BY <2>1, <2>2 DEF HandshakeInv
<1>9. CASE ChildWritesGarbage
  <2> DEFINE m == Message("garbage", NoId, NoPage, 0)
  <2>1. m \in Messages /\ m.kind = "garbage"
    BY MessageType DEF Kinds
  <2>2. /\ start = "running" /\ toChild' = toChild /\ child' = child
        /\ toHost' = Append(toHost, m) /\ toHost \in Seq(Messages)
    BY <1>9 DEF ChildWritesGarbage, sessionVars, TypeInv, PipesOK
  <2> HIDE DEF m
  <2>3. QED
    BY <2>1, <2>2, AppendEntries DEF HandshakeInv, Milestone
<1>10. CASE UNCHANGED vars
  BY <1>3, <1>10 DEF vars, sessionVars, pipeVars
<1>11. ASSUME NEW id, NEW kind, NEW p, Send(id, kind, p)
       PROVE  FALSE
  BY <1>11 DEF Send, StageInv, sessionVars, Untouched
<1>12. ASSUME NEW id \in Ids, RequestTimesOut(id)
       PROVE  FALSE
  BY <1>12 DEF RequestTimesOut, onPumpFatal, StageInv, Untouched
<1>13. ASSUME DeadlinePasses \/ PumpFrame \/ PumpAnswer \/ PumpError \/ PumpEnds
       PROVE  FALSE
  BY <1>13 DEF DeadlinePasses, PumpFrame, PumpAnswer, PumpError, PumpEnds, PumpFails,
               onPumpFatal, sessionVars, StageInv, Untouched
<1>14. ASSUME StartExpires \/ StartFails
       PROVE  FALSE
  BY <1>14 DEF StartExpires, StartFails, StartGivesUp
<1>15. QED
  BY <1>1, <1>2, <1>4, <1>5, <1>6, <1>7, <1>8, <1>9, <1>10, <1>11, <1>12, <1>13, <1>14
     DEF Next, Child, Finished, Mount, Request

-------------------------------------------------------------------------------
(* The session in service.                                                 *)

(* The handshake leaves both pipes clean.                                  *)
LEMMA ServingStarts ==
  ASSUME TypeInv, StageInv, HandshakeInv, ReadStart, start' = "ok"
  PROVE  /\ ServingInv'
         /\ \A i \in 1 .. Len(toHost') : toHost'[i].kind # "frame"
<1>1. /\ start = "running" /\ toHost # << >> /\ Head(toHost).kind = "frame"
      /\ toHost' = Tail(toHost) /\ lastSeq' = Head(toHost).seq
      /\ UNCHANGED <<mounting, mounted, frameTimer, toChild, child>>
  BY DEF ReadStart, StartGivesUp
<1>2. toChild' = << >> /\ \A k \in 1 .. Len(toHost') : ~Milestone(toHost'[k])
  BY <1>1, ReadyType
<1>3. Len(toChild') = 0 /\ Len(toHost') \in Nat
  BY <1>1, <1>2, HeadType
<1>4. mounting' = NoMount /\ mounted' = FirstPage /\ ~frameTimer'
  BY <1>1 DEF StageInv, Untouched
<1>5. 1 \in 1 .. Len(toHost) /\ toHost[1] = Head(toHost)
  BY <1>1, HeadType
<1>6. child.life # "exited" => child.page = FirstPage /\ lastSeq' <= child.seq
  BY <1>1, <1>5 DEF HandshakeInv
<1>7. \A k \in 1 .. Len(toHost') : toHost'[k].kind # "frame" /\ toHost'[k].kind # "ready"
  BY <1>2 DEF Milestone
<1>8. \A n \in 0 .. Len(toHost') : ~HasReady(n)'
  BY <1>3, <1>7 DEF HasReady
<1>9. PageInv'
  BY <1>1, <1>3, <1>4, <1>6, <1>8 DEF PageInv, PageAt
<1>10. QED
  BY <1>3, <1>4, <1>7, <1>9 DEF ServingInv, AskedInv, AnsweredInv, FrameInv, FlightInv, TimerInv

(* Nothing the session is in service with changes.                         *)
LEMMA ServingSame ==
  ASSUME ServingInv,
         UNCHANGED <<mounting, mounted, lastSeq, frameTimer, toChild, toHost, child>>
  PROVE  ServingInv'
BY DEF ServingInv, AskedInv, AnsweredInv, FrameInv, PageInv, FlightInv, TimerInv, HasReady, PageAt

(* The pump reads a message that is no answer to a mount.                  *)
LEMMA ServingReads ==
  ASSUME TypeInv, ServingInv, toHost # << >>, toHost' = Tail(toHost),
         Head(toHost).kind # "ready",
         UNCHANGED <<mounting, mounted, toChild, child>>,
         lastSeq' = IF Head(toHost).kind = "frame" THEN Head(toHost).seq ELSE lastSeq,
         frameTimer' => frameTimer /\ Head(toHost).kind # "frame"
  PROVE  ServingInv'
<1>1. /\ Len(toHost) \in Nat \ {0} /\ Len(toHost') = Len(toHost) - 1
      /\ 1 \in 1 .. Len(toHost) /\ toHost[1] = Head(toHost)
      /\ \A k \in 1 .. Len(toHost') : k + 1 \in 1 .. Len(toHost) /\ toHost'[k] = toHost[k + 1]
  BY HeadType
<1>2. \A n \in 0 .. Len(toHost') : HasReady(n)' <=> HasReady(n + 1)
  <2> SUFFICES ASSUME NEW n \in 0 .. Len(toHost') PROVE HasReady(n)' <=> HasReady(n + 1)
    OBVIOUS
  <2>1. ASSUME NEW i \in 1 .. n, toHost'[i].kind = "ready" PROVE HasReady(n + 1)
    <3>1. i + 1 \in 1 .. n + 1 /\ toHost[i + 1].kind = "ready"
      BY <1>1, <2>1
    <3>2. QED
      BY <3>1 DEF HasReady
  <2>2. ASSUME NEW i \in 1 .. n + 1, toHost[i].kind = "ready" PROVE HasReady(n)'
    <3>1. i # 1
      BY <1>1, <2>2
    <3>2. i - 1 \in 1 .. n /\ i - 1 \in 1 .. Len(toHost') /\ (i - 1) + 1 = i
      BY <1>1, <3>1
    <3>3. toHost'[i - 1].kind = "ready"
      BY <1>1, <2>2, <3>2
    <3>4. QED
      BY <3>2, <3>3 DEF HasReady
  <2>3. QED
    BY <2>1, <2>2 DEF HasReady
<1>3. \A n \in 0 .. Len(toHost') : PageAt(n)' = PageAt(n + 1)
  BY <1>2 DEF PageAt
<1>4. Len(toHost') \in 0 .. Len(toHost') /\ Len(toHost') + 1 = Len(toHost)
  BY <1>1
<1>5. HasReady(Len(toHost))' <=> HasReady(Len(toHost))
  BY <1>2, <1>4
<1>6. AskedInv' /\ FlightInv'
  BY <1>5 DEF ServingInv, AskedInv, FlightInv
<1>7. AnsweredInv'
  <2> SUFFICES ASSUME NEW i \in 1 .. Len(toHost'), toHost'[i].kind = "ready"
               PROVE  /\ toHost'[i].id = mounting.id /\ toHost'[i].page = mounting.page
                      /\ \A j \in 1 .. Len(toHost') : toHost'[j].kind = "ready" => i = j
                      /\ i < Len(toHost') /\ toHost'[i + 1].kind = "frame"
    BY DEF AnsweredInv
  <2>1. i + 1 \in 1 .. Len(toHost) /\ toHost[i + 1].kind = "ready" /\ toHost[i + 1] = toHost'[i]
    BY <1>1
  <2>2. /\ toHost[i + 1].id = mounting.id /\ toHost[i + 1].page = mounting.page
        /\ \A j \in 1 .. Len(toHost) : toHost[j].kind = "ready" => i + 1 = j
        /\ i + 1 < Len(toHost) /\ toHost[(i + 1) + 1].kind = "frame"
    BY <2>1 DEF ServingInv, AnsweredInv
  <2>3. i < Len(toHost') /\ i + 1 \in 1 .. Len(toHost')
    BY <1>1, <2>2
  <2>4. toHost'[i + 1].kind = "frame"
    BY <1>1, <2>2, <2>3
  <2>5. ASSUME NEW j \in 1 .. Len(toHost'), toHost'[j].kind = "ready" PROVE i = j
    <3>1. j + 1 \in 1 .. Len(toHost) /\ toHost[j + 1].kind = "ready"
      BY <1>1, <2>5
    <3>2. i + 1 = j + 1
      BY <2>2, <3>1
    <3>3. QED
      BY <1>1, <3>2
  <2>6. QED
    BY <2>1, <2>2, <2>3, <2>4, <2>5
<1>8. FrameInv'
  <2> SUFFICES ASSUME NEW i \in 1 .. Len(toHost'), toHost'[i].kind = "frame"
               PROVE  /\ toHost'[i].page = PageAt(i)' /\ lastSeq' < toHost'[i].seq
                      /\ child.life # "exited" => toHost'[i].seq <= child.seq
                      /\ \A j \in 1 .. Len(toHost') :
                           j < i /\ toHost'[j].kind = "frame" => toHost'[j].seq < toHost'[i].seq
    BY DEF FrameInv
  <2>1. i + 1 \in 1 .. Len(toHost) /\ toHost[i + 1].kind = "frame" /\ toHost[i + 1] = toHost'[i]
    BY <1>1
  <2>2. /\ toHost[i + 1].page = PageAt(i + 1) /\ lastSeq < toHost[i + 1].seq
        /\ child.life # "exited" => toHost[i + 1].seq <= child.seq
        /\ \A j \in 1 .. Len(toHost) :
             j < i + 1 /\ toHost[j].kind = "frame" => toHost[j].seq < toHost[i + 1].seq
    BY <2>1 DEF ServingInv, FrameInv
  <2>3. toHost'[i].page = PageAt(i)'
    BY <1>1, <1>3, <2>1, <2>2
  <2>4. lastSeq' < toHost'[i].seq
    BY <1>1, <2>1, <2>2
  <2>5. ASSUME NEW j \in 1 .. Len(toHost'), j < i, toHost'[j].kind = "frame"
        PROVE  toHost'[j].seq < toHost'[i].seq
    <3>1. j + 1 \in 1 .. Len(toHost) /\ j + 1 < i + 1 /\ toHost[j + 1] = toHost'[j]
      BY <1>1, <2>5
    <3>2. QED
      BY <2>1, <2>2, <2>5, <3>1
  <2>6. QED
    BY <2>1, <2>2, <2>3, <2>4, <2>5
<1>9. PageInv'
  <2>1. child.life # "exited" => lastSeq' <= child.seq
    BY <1>1 DEF ServingInv, PageInv, FrameInv
  <2>2. PageAt(Len(toHost))' = PageAt(Len(toHost))
    BY <1>5 DEF PageAt
  <2>3. QED
    BY <2>1, <2>2 DEF ServingInv, PageInv
<1>10. TimerInv'
  <2> SUFFICES ASSUME frameTimer'
               PROVE  \E i \in 1 .. Len(toHost') : toHost'[i].kind = "frame"
    BY DEF TimerInv
  <2>1. PICK i \in 1 .. Len(toHost) : toHost[i].kind = "frame"
    BY DEF ServingInv, TimerInv
  <2>2. i # 1
    BY <1>1, <2>1
  <2>3. i - 1 \in 1 .. Len(toHost') /\ (i - 1) + 1 = i
    BY <1>1, <2>2
  <2>4. toHost'[i - 1].kind = "frame"
    BY <1>1, <2>1, <2>3
  <2>5. QED
    BY <2>3, <2>4
<1>11. QED
  BY <1>6, <1>7, <1>8, <1>9, <1>10 DEF ServingInv

(* The pump reads the answer to the mount: the page changes before its     *)
(* first frame is read.                                                    *)
LEMMA ServingSwitches ==
  ASSUME TypeInv, ServingInv, toHost # << >>, toHost' = Tail(toHost),
         Head(toHost).kind = "ready", mounted' = mounting.page, mounting' = NoMount,
         UNCHANGED <<lastSeq, toChild, child>>
  PROVE  ServingInv'
<1>1. /\ Len(toHost) \in Nat \ {0} /\ Len(toHost') = Len(toHost) - 1
      /\ 1 \in 1 .. Len(toHost) /\ toHost[1] = Head(toHost)
      /\ \A k \in 1 .. Len(toHost') : k + 1 \in 1 .. Len(toHost) /\ toHost'[k] = toHost[k + 1]
  BY HeadType
<1>2. /\ \A j \in 1 .. Len(toHost) : toHost[j].kind = "ready" => 1 = j
      /\ 1 < Len(toHost) /\ toHost[2].kind = "frame"
  <2>1. 1 + 1 = 2
    OBVIOUS
  <2>2. QED
    BY <1>1, <2>1 DEF ServingInv, AnsweredInv
<1>3. \A k \in 1 .. Len(toHost') : toHost'[k].kind # "ready"
  BY <1>1, <1>2
<1>4. \A n \in 0 .. Len(toHost') : ~HasReady(n)' /\ HasReady(n + 1)
  <2> SUFFICES ASSUME NEW n \in 0 .. Len(toHost') PROVE ~HasReady(n)' /\ HasReady(n + 1)
    OBVIOUS
  <2>1. 1 \in 1 .. n + 1
    BY <1>1
  <2>2. 1 .. n \subseteq 1 .. Len(toHost')
    BY <1>1
  <2>3. QED
    BY <1>1, <1>3, <2>1, <2>2 DEF HasReady
<1>5. \A n \in 0 .. Len(toHost') : PageAt(n)' = PageAt(n + 1)
  BY <1>4 DEF PageAt
<1>6. Len(toHost') \in 0 .. Len(toHost') /\ Len(toHost') + 1 = Len(toHost)
  BY <1>1
<1>7. \A i \in 1 .. Len(toChild) : toChild[i].kind # "mount"
  BY <1>4, <1>6 DEF ServingInv, AskedInv
<1>8. AskedInv' /\ FlightInv'
  BY <1>7 DEF ServingInv, AskedInv, FlightInv
<1>9. AnsweredInv'
  BY <1>3 DEF AnsweredInv
<1>10. FrameInv'
  <2> SUFFICES ASSUME NEW i \in 1 .. Len(toHost'), toHost'[i].kind = "frame"
               PROVE  /\ toHost'[i].page = PageAt(i)' /\ lastSeq' < toHost'[i].seq
                      /\ child.life # "exited" => toHost'[i].seq <= child.seq
                      /\ \A j \in 1 .. Len(toHost') :
                           j < i /\ toHost'[j].kind = "frame" => toHost'[j].seq < toHost'[i].seq
    BY DEF FrameInv
  <2>1. i + 1 \in 1 .. Len(toHost) /\ toHost[i + 1].kind = "frame" /\ toHost[i + 1] = toHost'[i]
    BY <1>1
  <2>2. /\ toHost[i + 1].page = PageAt(i + 1) /\ lastSeq < toHost[i + 1].seq
        /\ child.life # "exited" => toHost[i + 1].seq <= child.seq
        /\ \A j \in 1 .. Len(toHost) :
             j < i + 1 /\ toHost[j].kind = "frame" => toHost[j].seq < toHost[i + 1].seq
    BY <2>1 DEF ServingInv, FrameInv
  <2>3. toHost'[i].page = PageAt(i)'
    BY <1>1, <1>5, <2>1, <2>2
  <2>4. ASSUME NEW j \in 1 .. Len(toHost'), j < i, toHost'[j].kind = "frame"
        PROVE  toHost'[j].seq < toHost'[i].seq
    <3>1. j + 1 \in 1 .. Len(toHost) /\ j + 1 < i + 1 /\ toHost[j + 1] = toHost'[j]
      BY <1>1, <2>4
    <3>2. QED
      BY <2>1, <2>2, <2>4, <3>1
  <2>5. QED
    BY <2>1, <2>2, <2>3, <2>4
<1>11. PageInv'
  BY <1>5, <1>6 DEF ServingInv, PageInv
<1>12. TimerInv'
  <2>1. 1 \in 1 .. Len(toHost') /\ toHost'[1] = toHost[2]
    BY <1>1, <1>2
  <2>2. QED
    BY <1>2, <2>1 DEF TimerInv
<1>13. QED
  BY <1>8, <1>9, <1>10, <1>11, <1>12 DEF ServingInv

(* The child takes a payload.                                              *)
LEMMA AskedTail ==
  ASSUME TypeInv, AskedInv, toChild # << >>, toChild' = Tail(toChild), mounting' = mounting,
         HasReady(Len(toHost))' => HasReady(Len(toHost)) \/ Head(toChild).kind = "mount"
  PROVE  /\ AskedInv' /\ Head(toChild).kind \in {"mount", "resize", "query"}
         /\ Head(toChild).kind = "mount" =>
              /\ Head(toChild).id = mounting.id /\ Head(toChild).page = mounting.page
              /\ ~HasReady(Len(toHost))
         /\ Head(toChild).kind # "mount" =>
              ((\E i \in 1 .. Len(toChild) : toChild[i].kind = "mount")
                => \E i \in 1 .. Len(toChild') : toChild'[i].kind = "mount")
<1>1. /\ Len(toChild) \in Nat \ {0} /\ Len(toChild') = Len(toChild) - 1
      /\ 1 \in 1 .. Len(toChild) /\ toChild[1] = Head(toChild)
      /\ \A k \in 1 .. Len(toChild') : k + 1 \in 1 .. Len(toChild) /\ toChild'[k] = toChild[k + 1]
  BY PayloadType
<1>2. AskedInv'
  <2> SUFFICES ASSUME NEW i \in 1 .. Len(toChild')
               PROVE  /\ toChild'[i].kind \in {"mount", "resize", "query"}
                      /\ toChild'[i].kind = "mount" =>
                           /\ toChild'[i].id = mounting'.id /\ toChild'[i].page = mounting'.page
                           /\ \A j \in 1 .. Len(toChild') : toChild'[j].kind = "mount" => i = j
                           /\ ~HasReady(Len(toHost))'
    BY DEF AskedInv
  <2>1. i + 1 \in 1 .. Len(toChild) /\ toChild'[i] = toChild[i + 1] /\ i + 1 # 1
    BY <1>1
  <2>2. toChild[i + 1].kind = "mount" =>
          /\ toChild[i + 1].id = mounting.id /\ toChild[i + 1].page = mounting.page
          /\ \A j \in 1 .. Len(toChild) : toChild[j].kind = "mount" => i + 1 = j
          /\ ~HasReady(Len(toHost))
    BY <2>1 DEF AskedInv
  <2>3. ASSUME toChild[i + 1].kind = "mount", NEW j \in 1 .. Len(toChild'),
               toChild'[j].kind = "mount"
        PROVE  i = j
    <3>1. j + 1 \in 1 .. Len(toChild) /\ toChild[j + 1].kind = "mount"
      BY <1>1, <2>3
    <3>2. i + 1 = j + 1
      BY <2>2, <2>3, <3>1
    <3>3. QED
      BY <1>1, <3>2
  <2>4. toChild[i + 1].kind = "mount" => Head(toChild).kind # "mount"
    BY <1>1, <2>1, <2>2
  <2>5. toChild[i + 1].kind \in {"mount", "resize", "query"}
    BY <2>1 DEF AskedInv
  <2>6. QED
    BY <2>1, <2>2, <2>3, <2>4, <2>5
<1>3. ASSUME Head(toChild).kind # "mount", NEW i \in 1 .. Len(toChild), toChild[i].kind = "mount"
      PROVE  \E j \in 1 .. Len(toChild') : toChild'[j].kind = "mount"
  <2>1. i # 1
    BY <1>1, <1>3
  <2>2. i - 1 \in 1 .. Len(toChild') /\ (i - 1) + 1 = i
    BY <1>1, <2>1
  <2>3. toChild'[i - 1].kind = "mount"
    BY <1>1, <1>3, <2>2
  <2>4. QED
    BY <2>2, <2>3
<1>4. QED
  BY <1>1, <1>2, <1>3 DEF AskedInv

(* The child writes a message of no consequence, or dies of it.            *)
LEMMA ServingWrites ==
  ASSUME TypeInv, ServingInv, NEW e \in Messages, e.kind \notin {"ready", "frame"},
         toHost' = Append(toHost, e),
         UNCHANGED <<mounting, mounted, lastSeq, frameTimer>>,
         child'.page = child.page, child'.seq = child.seq, child.life = "running",
         \/ toChild' = toChild /\ child' = child
         \/ /\ toChild # << >> /\ toChild' = Tail(toChild)
            /\ Head(toChild).kind # "mount" \/ child'.life # "running"
  PROVE  ServingInv'
<1>1. toHost \in Seq(Messages)
  BY DEF TypeInv, PipesOK
<1>2. /\ Len(toHost) \in Nat /\ Len(toHost') = Len(toHost) + 1
      /\ toHost'[Len(toHost) + 1] = e
      /\ \A k \in 1 .. Len(toHost) : toHost'[k] = toHost[k]
      /\ \A k \in 1 .. Len(toHost') : k = Len(toHost) + 1 \/ k \in 1 .. Len(toHost)
  BY <1>1, AppendEntries
<1>3. \A n \in 0 .. Len(toHost) : HasReady(n)' <=> HasReady(n)
  BY <1>2 DEF HasReady
<1>4. HasReady(Len(toHost))' <=> HasReady(Len(toHost))
  BY <1>2 DEF HasReady
<1>5. \A k \in 1 .. Len(toHost') :
        toHost'[k].kind \in {"ready", "frame"} => k \in 1 .. Len(toHost) /\ toHost'[k] = toHost[k]
  BY <1>2
<1>6. AskedInv' /\ FlightInv'
  <2>1. CASE toChild' = toChild /\ child' = child
    BY <1>4, <2>1 DEF ServingInv, AskedInv, FlightInv
  <2>2. CASE /\ toChild # << >> /\ toChild' = Tail(toChild)
             /\ Head(toChild).kind # "mount" \/ child'.life # "running"
    BY <1>4, <2>2, AskedTail DEF ServingInv, FlightInv
  <2>3. QED
    BY <2>1, <2>2
<1>7. AnsweredInv'
  <2>1. \A i \in 1 .. Len(toHost) :
          i < Len(toHost) => i + 1 \in 1 .. Len(toHost) /\ i < Len(toHost')
    BY <1>2
  <2>2. QED
    BY <1>2, <1>5, <2>1 DEF ServingInv, AnsweredInv
<1>8. \A n \in 0 .. Len(toHost) : PageAt(n)' = PageAt(n)
  BY <1>3 DEF PageAt
<1>9. FrameInv'
  BY <1>5, <1>8 DEF ServingInv, FrameInv
<1>10. PageInv'
  BY <1>4 DEF ServingInv, PageInv, PageAt
<1>11. TimerInv'
  BY <1>2 DEF ServingInv, TimerInv
<1>12. QED
  BY <1>6, <1>7, <1>9, <1>10, <1>11 DEF ServingInv

(* The child repaints its page.                                            *)
LEMMA ServingRepaints ==
  ASSUME TypeInv, ServingInv, NEW f \in Messages, NEW e \in Messages,
         f.kind = "frame", f.page = child.page, f.seq = child.seq + 1,
         e.kind \notin {"ready", "frame"}, toHost' = toHost \o <<f, e>>,
         UNCHANGED <<mounting, mounted, lastSeq, frameTimer>>,
         child' = [child EXCEPT !.seq = child.seq + 1], child.life = "running",
         toChild # << >>, toChild' = Tail(toChild), Head(toChild).kind # "mount"
  PROVE  ServingInv'
<1>1. toHost \in Seq(Messages) /\ child \in Children /\ lastSeq \in Nat
  BY DEF TypeInv, PipesOK, MountOK
<1>2. /\ Len(toHost) \in Nat /\ Len(toHost') = Len(toHost) + 2
      /\ toHost'[Len(toHost) + 1] = f /\ toHost'[Len(toHost) + 2] = e
      /\ \A k \in 1 .. Len(toHost) : toHost'[k] = toHost[k] /\ toHost[k] \in Messages
      /\ \A k \in 1 .. Len(toHost') :
           k = Len(toHost) + 1 \/ k = Len(toHost) + 2 \/ k \in 1 .. Len(toHost)
  BY <1>1, PairEntries
<1>3. /\ child'.page = child.page /\ child'.seq = child.seq + 1 /\ child'.life = child.life
      /\ child.seq \in Nat
  BY <1>1 DEF Children
<1>4. \A n \in 0 .. Len(toHost) : HasReady(n)' <=> HasReady(n)
  BY <1>2 DEF HasReady
<1>5. \A n \in {Len(toHost) + 1, Len(toHost) + 2} : HasReady(n)' <=> HasReady(Len(toHost))
  BY <1>2 DEF HasReady
<1>6. \A k \in 1 .. Len(toHost') :
        /\ toHost'[k].kind = "ready" => k \in 1 .. Len(toHost) /\ toHost'[k] = toHost[k]
        /\ toHost'[k].kind = "frame" =>
             \/ k \in 1 .. Len(toHost) /\ toHost'[k] = toHost[k]
             \/ k = Len(toHost) + 1 /\ toHost'[k] = f
  BY <1>2
<1>7. HasReady(Len(toHost))' <=> HasReady(Len(toHost))
  BY <1>2, <1>5
<1>8. AskedInv' /\ FlightInv'
  BY <1>3, <1>7, AskedTail DEF ServingInv, FlightInv
<1>9. AnsweredInv'
  <2>1. \A i \in 1 .. Len(toHost) :
          i < Len(toHost) => i + 1 \in 1 .. Len(toHost) /\ i < Len(toHost')
    BY <1>2
  <2>2. QED
    BY <1>2, <1>6, <2>1 DEF ServingInv, AnsweredInv
<1>10. /\ \A n \in 0 .. Len(toHost) : PageAt(n)' = PageAt(n)
       /\ \A n \in {Len(toHost) + 1} : PageAt(n)' = PageAt(Len(toHost))
       /\ PageAt(Len(toHost))' = PageAt(Len(toHost))
  <2>1. \A n \in 0 .. Len(toHost) : PageAt(n)' = PageAt(n)
    BY <1>4 DEF PageAt
  <2>2. \A n \in {Len(toHost) + 1} : PageAt(n)' = PageAt(Len(toHost))
    BY <1>5 DEF PageAt
  <2>3. PageAt(Len(toHost))' = PageAt(Len(toHost))
    BY <1>7 DEF PageAt
  <2>4. QED
    BY <2>1, <2>2, <2>3
<1>11. child.page = PageAt(Len(toHost)) /\ lastSeq <= child.seq
  BY DEF ServingInv, PageInv
<1>12. FrameInv'
  <2> SUFFICES ASSUME NEW i \in 1 .. Len(toHost'), toHost'[i].kind = "frame"
               PROVE  /\ toHost'[i].page = PageAt(i)' /\ lastSeq < toHost'[i].seq
                      /\ toHost'[i].seq <= child'.seq
                      /\ \A j \in 1 .. Len(toHost') :
                           j < i /\ toHost'[j].kind = "frame" => toHost'[j].seq < toHost'[i].seq
    BY DEF FrameInv
  <2>1. CASE i \in 1 .. Len(toHost) /\ toHost'[i] = toHost[i]
    <3>1. /\ toHost[i].page = PageAt(i) /\ lastSeq < toHost[i].seq /\ toHost[i].seq <= child.seq
          /\ \A j \in 1 .. Len(toHost) :
               j < i /\ toHost[j].kind = "frame" => toHost[j].seq < toHost[i].seq
      BY <2>1 DEF ServingInv, FrameInv
    <3>2. toHost[i].seq \in Nat
      BY <1>2, <2>1 DEF Messages
    <3>3. toHost'[i].page = PageAt(i)'
      BY <1>10, <2>1, <3>1
    <3>4. toHost'[i].seq <= child'.seq
      BY <1>3, <2>1, <3>1, <3>2
    <3>5. QED
      BY <1>2, <2>1, <3>1, <3>3, <3>4
  <2>2. CASE i = Len(toHost) + 1 /\ toHost'[i] = f
    <3>1. \A j \in 1 .. Len(toHost) : toHost[j].kind = "frame" => toHost[j].seq <= child.seq
      BY DEF ServingInv, FrameInv
    <3>2. \A j \in 1 .. Len(toHost) : toHost[j].seq \in Nat
      BY <1>2 DEF Messages
    <3>3. toHost'[i].page = PageAt(i)'
      BY <1>10, <1>11, <2>2
    <3>4. ASSUME NEW j \in 1 .. Len(toHost'), j < i, toHost'[j].kind = "frame"
          PROVE  toHost'[j].seq < toHost'[i].seq
      <4>1. j \in 1 .. Len(toHost) /\ toHost'[j] = toHost[j]
        BY <1>2, <2>2, <3>4
      <4>2. QED
        BY <1>3, <2>2, <3>1, <3>2, <3>4, <4>1
    <3>5. QED
      BY <1>1, <1>3, <1>11, <2>2, <3>3, <3>4
  <2>3. QED
    BY <1>6, <2>1, <2>2
<1>13. PageInv'
  BY <1>1, <1>3, <1>10, <1>11 DEF PageInv
<1>14. TimerInv'
  BY <1>2 DEF ServingInv, TimerInv
<1>15. QED
  BY <1>8, <1>9, <1>12, <1>13, <1>14 DEF ServingInv

LEMMA JustAfter ==
  ASSUME NEW x \in Nat, NEW y \in Nat, x <= y
  PROVE  x < y + 1
OBVIOUS

(* The child mounts the page in flight: it announces it, and paints it.    *)
LEMMA ServingMounts ==
  ASSUME TypeInv, ServingInv, NEW e \in Messages, NEW f \in Messages,
         toChild # << >>, toChild' = Tail(toChild), Head(toChild).kind = "mount",
         e.kind = "ready", e.id = Head(toChild).id, e.page = Head(toChild).page,
         f.kind = "frame", f.page = Head(toChild).page, f.seq = child.seq + 1,
         toHost' = toHost \o <<e, f>>, UNCHANGED <<mounting, mounted, lastSeq, frameTimer>>,
         child' = [child EXCEPT !.page = Head(toChild).page, !.seq = child.seq + 1],
         child.life = "running"
  PROVE  ServingInv'
<1>1. toHost \in Seq(Messages) /\ child \in Children /\ lastSeq \in Nat
  BY DEF TypeInv, PipesOK, MountOK
<1>2. /\ Len(toHost) \in Nat /\ Len(toHost') = Len(toHost) + 2
      /\ toHost'[Len(toHost) + 1] = e /\ toHost'[Len(toHost) + 2] = f
      /\ \A k \in 1 .. Len(toHost) : toHost'[k] = toHost[k] /\ toHost[k] \in Messages
      /\ \A k \in 1 .. Len(toHost') :
           k = Len(toHost) + 1 \/ k = Len(toHost) + 2 \/ k \in 1 .. Len(toHost)
  BY <1>1, PairEntries
<1>3. /\ AskedInv' /\ ~HasReady(Len(toHost))
      /\ e.id = mounting.id /\ e.page = mounting.page /\ f.page = mounting.page
  BY AskedTail DEF ServingInv
<1>4. child.seq \in Nat /\ child'.seq = child.seq + 1 /\ child'.life = child.life
      /\ child'.page = mounting.page
  <2>1. Head(toChild).page = mounting.page
    BY <1>3
  <2>2. QED
    BY <1>1, <2>1 DEF Children
<1>5. \A k \in 1 .. Len(toHost) : toHost[k].kind # "ready"
  BY <1>3 DEF HasReady
<1>6. /\ \A n \in 0 .. Len(toHost) : ~HasReady(n)' /\ ~HasReady(n)
      /\ \A n \in {Len(toHost) + 1, Len(toHost) + 2} : HasReady(n)'
  <2>1. \A n \in 0 .. Len(toHost) : ~HasReady(n)' /\ ~HasReady(n)
    BY <1>2, <1>5 DEF HasReady
  <2>2. Len(toHost) + 1 \in 1 .. Len(toHost) + 1 /\ Len(toHost) + 1 \in 1 .. Len(toHost) + 2
    BY <1>2
  <2>3. \A n \in {Len(toHost) + 1, Len(toHost) + 2} : HasReady(n)'
    BY <1>2, <2>2 DEF HasReady
  <2>4. QED
    BY <2>1, <2>3
<1>7. /\ \A n \in 0 .. Len(toHost) : PageAt(n)' = PageAt(n)
      /\ \A n \in {Len(toHost) + 1, Len(toHost) + 2} : PageAt(n)' = mounting.page
  BY <1>6 DEF PageAt
<1>8. \A k \in 1 .. Len(toHost') :
        /\ toHost'[k].kind = "ready" <=> k = Len(toHost) + 1
        /\ toHost'[k].kind = "frame" =>
             \/ k \in 1 .. Len(toHost) /\ toHost'[k] = toHost[k]
             \/ k = Len(toHost) + 2
  BY <1>2, <1>5
<1>9. AnsweredInv'
  <2>1. Len(toHost) + 1 < Len(toHost') /\ (Len(toHost) + 1) + 1 = Len(toHost) + 2
    BY <1>2
  <2>2. QED
    BY <1>2, <1>3, <1>8, <2>1 DEF AnsweredInv
<1>10. FrameInv'
  <2> SUFFICES ASSUME NEW i \in 1 .. Len(toHost'), toHost'[i].kind = "frame"
               PROVE  /\ toHost'[i].page = PageAt(i)' /\ lastSeq < toHost'[i].seq
                      /\ toHost'[i].seq <= child'.seq
                      /\ \A j \in 1 .. Len(toHost') :
                           j < i /\ toHost'[j].kind = "frame" => toHost'[j].seq < toHost'[i].seq
    BY DEF FrameInv
  <2>1. CASE i \in 1 .. Len(toHost) /\ toHost'[i] = toHost[i]
    <3>1. /\ toHost[i].page = PageAt(i) /\ lastSeq < toHost[i].seq /\ toHost[i].seq <= child.seq
          /\ \A j \in 1 .. Len(toHost) :
               j < i /\ toHost[j].kind = "frame" => toHost[j].seq < toHost[i].seq
      BY <2>1 DEF ServingInv, FrameInv
    <3>2. toHost[i].seq \in Nat
      BY <1>2, <2>1 DEF Messages
    <3>3. toHost'[i].page = PageAt(i)'
      BY <1>7, <2>1, <3>1
    <3>4. toHost'[i].seq <= child'.seq
      BY <1>4, <2>1, <3>1, <3>2
    <3>5. QED
      BY <1>2, <2>1, <3>1, <3>3, <3>4
  <2>2. CASE i = Len(toHost) + 2
    <3>1. \A j \in 1 .. Len(toHost) :
            toHost[j].seq \in Nat /\ (toHost[j].kind = "frame" => toHost[j].seq <= child.seq)
      BY <1>2 DEF ServingInv, FrameInv, Messages
    <3>2. toHost'[i] = f
      BY <1>2, <2>2
    <3>3. toHost'[i].page = PageAt(i)'
      BY <1>3, <1>7, <2>2, <3>2
    <3>4. ASSUME NEW j \in 1 .. Len(toHost'), j < i, toHost'[j].kind = "frame"
          PROVE  toHost'[j].seq < toHost'[i].seq
      <4>1. j \in 1 .. Len(toHost) /\ toHost'[j] = toHost[j]
        BY <1>2, <1>8, <2>2, <3>4
      <4>2. toHost[j].seq \in Nat /\ toHost[j].seq <= child.seq /\ toHost'[j].seq = toHost[j].seq
        BY <3>1, <3>4, <4>1
      <4>3. toHost'[i].seq = child.seq + 1
        BY <3>2
      <4>4. toHost[j].seq < child.seq + 1
        BY <1>4, <4>2, JustAfter
      <4>5. QED
        BY <4>2, <4>3, <4>4, Zenon
    <3>5. lastSeq <= child.seq /\ toHost'[i].seq = child.seq + 1
      BY <3>2 DEF ServingInv, PageInv
    <3>6. lastSeq < toHost'[i].seq /\ toHost'[i].seq <= child'.seq
      BY <1>1, <1>4, <3>5, SMTT(20)
    <3>7. QED
      BY <3>3, <3>4, <3>6
  <2>3. QED
    BY <1>8, <2>1, <2>2
<1>11. PageInv'
  <2>1. lastSeq <= child.seq
    BY DEF ServingInv, PageInv
  <2>2. PageAt(Len(toHost))' = mounting.page
    BY <1>2, <1>7
  <2>3. QED
    BY <1>1, <1>4, <2>1, <2>2 DEF PageInv
<1>12. FlightInv'
  BY <1>2, <1>6 DEF FlightInv
<1>13. TimerInv'
  BY <1>2 DEF ServingInv, TimerInv
<1>14. QED
  BY <1>3, <1>9, <1>10, <1>11, <1>12, <1>13 DEF ServingInv

(* The session asks for something other than a page.                       *)
LEMMA ServingRequests ==
  ASSUME TypeInv, ServingInv, NEW q \in Messages, q.kind \in {"resize", "query"},
         toChild' \in {toChild, Append(toChild, q)},
         UNCHANGED <<mounting, mounted, lastSeq, frameTimer, toHost, child>>
  PROVE  ServingInv'
<1>1. CASE toChild' = toChild
  BY <1>1, ServingSame
<1>2. CASE toChild' = Append(toChild, q)
  <2>1. toChild \in Seq(Messages)
    BY DEF TypeInv, PipesOK
  <2>2. /\ Len(toChild) \in Nat /\ Len(toChild') = Len(toChild) + 1
        /\ toChild'[Len(toChild) + 1] = q
        /\ \A k \in 1 .. Len(toChild) : toChild'[k] = toChild[k]
        /\ \A k \in 1 .. Len(toChild') : k = Len(toChild) + 1 \/ k \in 1 .. Len(toChild)
    BY <1>2, <2>1, AppendEntries
  <2>3. AskedInv' /\ FlightInv'
    <3>1. HasReady(Len(toHost))' <=> HasReady(Len(toHost))
      BY DEF HasReady
    <3>2. AskedInv'
      BY <2>2, <3>1 DEF ServingInv, AskedInv
    <3>3. FlightInv'
      BY <2>2, <3>1 DEF ServingInv, FlightInv
    <3>4. QED
      BY <3>2, <3>3
  <2>4. QED
    BY <2>3 DEF ServingInv, AnsweredInv, FrameInv, PageInv, TimerInv, HasReady, PageAt
<1>3. QED
  BY <1>1, <1>2

(* The session asks for a page: nothing of an earlier mount is under way.  *)
LEMMA ServingAsks ==
  ASSUME TypeInv, StageInv, Serving, ServingInv, mounting = NoMount,
         NEW id \in Ids, NEW p \in Pages, NEW q \in Messages,
         q.kind = "mount", q.id = id, q.page = p, mounting' = [id |-> id, page |-> p],
         toChild' = IF Exited THEN toChild ELSE Append(toChild, q),
         UNCHANGED <<mounted, lastSeq, frameTimer, toHost, child>>
  PROVE  ServingInv'
<1>1. /\ toChild \in Seq(Messages) /\ toChild \in Seq(Numbered) /\ toHost \in Seq(Numbered)
  BY DEF TypeInv, PipesOK, Serving, StageInv, Untouched
<1>2. mounting.id = NoId
  BY DEF NoMount
<1>3. \A k \in 1 .. Len(toChild) : toChild[k] \in Numbered
  BY <1>1, ElementOfSeq
<1>4. \A k \in 1 .. Len(toHost) : toHost[k] \in Numbered
  BY <1>1, ElementOfSeq
<1>5. \A m \in Numbered : m.kind \in {"mount", "ready"} => m.id # mounting.id
  BY <1>2, IdsAreNat DEF Numbered
<1>6. \A k \in 1 .. Len(toChild) : toChild[k].kind # "mount"
  BY <1>3, <1>5 DEF ServingInv, AskedInv
<1>7. \A k \in 1 .. Len(toHost) : toHost[k].kind # "ready"
  BY <1>4, <1>5 DEF ServingInv, AnsweredInv
<1>8. Len(toHost) \in Nat /\ \A n \in 0 .. Len(toHost) : ~HasReady(n)' /\ ~HasReady(n)
  BY <1>1, <1>7, LenProperties DEF HasReady
<1>9. \A n \in 0 .. Len(toHost) : PageAt(n)' = PageAt(n)
  BY <1>8 DEF PageAt
<1>10. Len(toHost) \in 0 .. Len(toHost) /\ Len(toHost') = Len(toHost)
  BY <1>8
<1>11. ~HasReady(Len(toHost))' /\ PageAt(Len(toHost))' = PageAt(Len(toHost))
  BY <1>8, <1>9, <1>10
<1>12. AskedInv' /\ FlightInv'
  <2>1. mounting'.id = id /\ mounting'.page = p
    OBVIOUS
  <2>2. CASE Exited
    BY <1>6, <2>2 DEF AskedInv, FlightInv, ServingInv, Exited
  <2>3. CASE ~Exited
    <3>1. /\ Len(toChild) \in Nat /\ Len(toChild') = Len(toChild) + 1
          /\ toChild'[Len(toChild) + 1] = q
          /\ \A k \in 1 .. Len(toChild) : toChild'[k] = toChild[k]
          /\ \A k \in 1 .. Len(toChild') : k = Len(toChild) + 1 \/ k \in 1 .. Len(toChild)
      BY <1>1, <2>3, AppendEntries
    <3>2. \A k \in 1 .. Len(toChild') : toChild'[k].kind = "mount" => k = Len(toChild) + 1
      BY <1>6, <3>1
    <3>3. AskedInv'
      BY <1>11, <2>1, <3>1, <3>2 DEF AskedInv, ServingInv
    <3>4. FlightInv'
      BY <3>1 DEF FlightInv
    <3>5. QED
      BY <3>3, <3>4
  <2>4. QED
    BY <2>2, <2>3
<1>13. AnsweredInv'
  BY <1>7 DEF AnsweredInv
<1>14. FrameInv'
  BY <1>8, <1>9 DEF ServingInv, FrameInv
<1>15. PageInv'
  BY <1>11 DEF ServingInv, PageInv
<1>16. TimerInv'
  BY DEF ServingInv, TimerInv
<1>17. QED
  BY <1>12, <1>13, <1>14, <1>15, <1>16 DEF ServingInv

(* The child dies; what it has written can still be read.                  *)
LEMMA ServingDies ==
  ASSUME ServingInv, child'.life = "exited", toChild' = << >>,
         UNCHANGED <<mounting, mounted, lastSeq, frameTimer, toHost>>
  PROVE  ServingInv'
<1>1. Len(toChild') = 0
  OBVIOUS
<1>2. QED
  BY <1>1 DEF ServingInv, AskedInv, AnsweredInv, FrameInv, PageInv, FlightInv, TimerInv, HasReady,
              PageAt

(* The child handles a payload of a session in service.                    *)
LEMMA ServingChild ==
  ASSUME TypeInv, ServingInv,
         handleHello \/ handleMount \/ handleResize \/ handleQuery \/ handleShutdown
  PROVE  ServingInv'
<1> DEFINE m == Head(toChild)
           frame == Message("frame", NoId, m.page, child.seq + 1)
           again == Message("frame", NoId, child.page, child.seq + 1)
           ready == Message("ready", m.id, m.page, 0)
           answer == Message("response", m.id, NoPage, 0)
           error == Message("error", NoId, NoPage, 0)
<1>1. /\ toChild # << >> /\ toChild' = Tail(toChild) /\ child.life = "running"
      /\ UNCHANGED <<mounting, mounted, lastSeq, frameTimer>>
  BY DEF handleHello, handleMount, handleResize, handleQuery, handleShutdown, Handling, mountVars
<1>2. m \in Messages /\ m.id \in RequestIds \cup {NoId} /\ m.page \in Pages \cup {NoPage}
  BY <1>1, PayloadType DEF Messages
<1>3. child \in Children /\ child.seq + 1 \in Nat /\ child.page \in Pages \cup {NoPage}
  BY DEF TypeInv, PipesOK, Children
<1>4. 1 \in 1 .. Len(toChild) /\ m = toChild[1]
  BY <1>1, PayloadType
<1>5. m.kind \in {"mount", "resize", "query"}
  BY <1>4 DEF ServingInv, AskedInv
<1>6. /\ \/ /\ m.kind = "mount"
            /\ \/ /\ child' = [child EXCEPT !.page = m.page, !.seq = child.seq + 1]
                  /\ toHost' = toHost \o <<ready, frame>>
               \/ /\ child' = [child EXCEPT !.life = "dying"]
                  /\ toHost' = Append(toHost, error)
         \/ /\ m.kind = "resize"
            /\ child' = [child EXCEPT !.seq = child.seq + 1]
            /\ toHost' = toHost \o <<again, answer>>
         \/ m.kind = "query" /\ toHost' = Append(toHost, answer) /\ child' = child
  BY <1>5 DEF handleHello, handleMount, handleResize, handleQuery, handleShutdown
<1>7. /\ ready \in Messages /\ ready.kind = "ready" /\ ready.id = m.id /\ ready.page = m.page
      /\ answer \in Messages /\ answer.kind = "response"
      /\ error \in Messages /\ error.kind = "error"
  <2> HIDE DEF m
  <2>1. QED
    BY <1>2 DEF Message, Messages, Kinds
<1>8. /\ frame \in Messages /\ frame.kind = "frame" /\ frame.page = m.page
      /\ frame.seq = child.seq + 1
      /\ again \in Messages /\ again.kind = "frame" /\ again.page = child.page
      /\ again.seq = child.seq + 1
  <2> HIDE DEF m
  <2>1. QED
    BY <1>2, <1>3 DEF Message, Messages, Kinds
<1> HIDE DEF frame, again, ready, answer, error
<1>9. CASE /\ m.kind = "mount" /\ toHost' = toHost \o <<ready, frame>>
           /\ child' = [child EXCEPT !.page = m.page, !.seq = child.seq + 1]
  BY <1>1, <1>7, <1>8, <1>9, ServingMounts
<1>10. CASE /\ child' = [child EXCEPT !.life = "dying"] /\ toHost' = Append(toHost, error)
  <2>1. child'.page = child.page /\ child'.seq = child.seq /\ child'.life = "dying"
    BY <1>3, <1>10 DEF Children
  <2>2. QED
    BY <1>1, <1>7, <1>10, <2>1, ServingWrites
<1>11. CASE /\ m.kind = "resize" /\ toHost' = toHost \o <<again, answer>>
            /\ child' = [child EXCEPT !.seq = child.seq + 1]
  BY <1>1, <1>7, <1>8, <1>11, ServingRepaints
<1>12. CASE m.kind = "query" /\ toHost' = Append(toHost, answer) /\ child' = child
  BY <1>1, <1>7, <1>12, ServingWrites
<1>13. QED
  BY <1>6, <1>9, <1>10, <1>11, <1>12

LEMMA ServingStep ==
  ASSUME TypeInv, StageInv, HandshakeInv, Serving => ServingInv, [Next]_vars, Serving'
  PROVE  ServingInv'
<1>1. CASE ReadStart
  <2>1. start' = "ok"
    BY <1>1 DEF Serving, ReadStart, StartGivesUp, StageInv
  <2>2. QED
    BY <1>1, <2>1, ServingStarts
<1>2. ASSUME NEW id \in Ids, NEW kind \in {"resize", "query"}, Request(id, kind)
      PROVE  ServingInv'
  <2>1. Serving /\ UNCHANGED <<mounting, mounted, lastSeq, frameTimer, toHost, child>>
    BY <1>2 DEF Request, Send, Serving
  <2>2. toChild' \in {toChild, Append(toChild, Message(kind, id, NoPage, 0))}
    BY <1>2 DEF Request, Send
  <2>3. /\ Message(kind, id, NoPage, 0) \in Messages
        /\ Message(kind, id, NoPage, 0).kind \in {"resize", "query"}
    BY IdsAreNat DEF Message, Messages, Kinds
  <2>4. QED
    BY <2>1, <2>2, <2>3, ServingRequests
<1>3. ASSUME NEW id \in Ids, NEW p \in Pages, Mount(id, p)
      PROVE  ServingInv'
  <2> DEFINE q == Message("mount", id, p, 0)
  <2>1. Serving /\ mounting = NoMount /\ UNCHANGED <<mounted, lastSeq, frameTimer, toHost, child>>
    BY <1>3 DEF Mount, Send, Serving
  <2>2. q \in Messages /\ q.kind = "mount" /\ q.id = id /\ q.page = p
    BY IdsAreNat DEF Message, Messages, Kinds
  <2>3. \/ mounting' = NoMount /\ toChild' = toChild
        \/ /\ mounting' = [id |-> id, page |-> p]
           /\ toChild' = IF Exited THEN toChild ELSE Append(toChild, q)
    <3>1. calls[id] = "none" /\ id \in RequestIds /\ calls \in [RequestIds ->
             {"none", "open", "settled", "ok", "error"}]
      BY <1>3, IdsAreNat DEF Mount, Send, TypeInv, CallsOK
    <3>2. CASE calls' = [calls EXCEPT ![id] = "settled"] /\ toChild' = toChild
      BY <1>3, <3>1, <3>2 DEF Mount
    <3>3. CASE /\ calls' = [calls EXCEPT ![id] = "open"]
               /\ toChild' = IF Exited THEN toChild ELSE Append(toChild, q)
      BY <1>3, <3>1, <3>3 DEF Mount
    <3>4. QED
      BY <1>3, <3>2, <3>3 DEF Mount, Send
  <2> HIDE DEF q
  <2>4. QED
    BY <2>1, <2>2, <2>3, ServingSame, ServingAsks
<1>4. ASSUME phase = "ready", NEW why, onPumpFatal(why)
      PROVE  FALSE
  BY <1>4 DEF onPumpFatal, Serving
<1>5. ASSUME phase # "ready", phase' = phase
      PROVE  FALSE
  BY <1>5 DEF Serving
<1>6. ASSUME NEW id \in Ids, RequestTimesOut(id)
      PROVE  ServingInv'
  <2>1. phase = "ready"
    BY <1>5, <1>6 DEF RequestTimesOut, onPumpFatal
  <2>2. ~onPumpFatal("other")
    BY <1>4, <2>1
  <2>3. Serving /\ UNCHANGED <<mountVars, toChild, toHost, child>>
    BY <1>6, <2>1, <2>2 DEF RequestTimesOut, Serving
  <2>4. QED
    BY <2>3, ServingSame DEF mountVars
<1>7. CASE WindowPasses \/ TeardownEnds
  BY <1>7, ServingSame DEF WindowPasses, TeardownEnds, Serving, sessionVars, mountVars, pipeVars
<1>8. CASE DeadlinePasses
  BY <1>4, <1>5, <1>8 DEF DeadlinePasses, onPumpFatal
<1>9. ASSUME NEW why, PumpFails(why)
      PROVE  FALSE
  BY <1>4, <1>5, <1>9 DEF PumpFails, onPumpFatal
<1>10. CASE PumpFrame
  <2>1. /\ Head(toHost).kind = "frame" /\ toHost # << >> /\ toHost' = Tail(toHost)
        /\ lastSeq' = Head(toHost).seq /\ frameTimer' = FALSE
        /\ UNCHANGED <<sessionVars, mounting, mounted, toChild, child>>
    BY <1>9, <1>10 DEF PumpFrame
  <2>2. Serving
    BY <2>1 DEF Serving, sessionVars
  <2>3. QED
    BY <2>1, <2>2, ServingReads
<1>11. CASE PumpAnswer
  <2>1. /\ toHost # << >> /\ toHost' = Tail(toHost) /\ UNCHANGED <<lastSeq, toChild, child>>
        /\ Head(toHost).kind \in {"ready", "response"} /\ Serving
    BY <1>11 DEF PumpAnswer, Serving, sessionVars
  <2>2. CASE Head(toHost).kind = "ready"
    <3>1. 1 \in 1 .. Len(toHost) /\ toHost[1] = Head(toHost)
      BY <2>1, HeadType
    <3>2. Head(toHost).id = mounting.id
      BY <2>1, <2>2, <3>1 DEF ServingInv, AnsweredInv
    <3>3. mounted' = mounting.page /\ mounting' = NoMount
      BY <1>11, <2>2, <3>2 DEF PumpAnswer
    <3>4. QED
      BY <2>1, <2>2, <3>3, ServingSwitches
  <2>3. CASE Head(toHost).kind = "response"
    <3>1. UNCHANGED <<mounting, mounted, frameTimer>>
      BY <1>11, <2>3 DEF PumpAnswer
    <3>2. QED
      BY <2>1, <2>3, <3>1, ServingReads
  <2>4. QED
    BY <2>1, <2>2, <2>3
<1>12. CASE PumpError
  BY <1>9, <1>12 DEF PumpError
<1>13. CASE PumpEnds
  BY <1>4, <1>5, <1>13 DEF PumpEnds
<1>14. CASE Start \/ StartExpires \/ StartFails
  BY <1>14 DEF Start, StartExpires, StartFails, StartGivesUp, Serving, StageInv
<1>15. CASE Stop \/ StopAcked \/ StopForced \/ StopEnds
  BY <1>15 DEF Stop, StopAcked, StopForced, StopEnds, Serving
<1>16. CASE handleHello \/ handleMount \/ handleResize \/ handleQuery \/ handleShutdown
  <2>1. Serving
    BY <1>16 DEF handleHello, handleMount, handleResize, handleQuery, handleShutdown, Handling,
                 Serving, sessionVars
  <2>2. QED
    BY <1>16, <2>1, ServingChild
<1>17. CASE ChildDies
  <2>1. Serving /\ child'.life = "exited" /\ toChild' = << >>
        /\ UNCHANGED <<mounting, mounted, lastSeq, frameTimer, toHost>>
    BY <1>17 DEF ChildDies, Serving, sessionVars, mountVars
  <2>2. QED
    BY <2>1, ServingDies
<1>18. CASE ChildWritesGarbage
  <2> DEFINE e == Message("garbage", NoId, NoPage, 0)
  <2>1. /\ Serving /\ toChild' = toChild /\ child' = child /\ toHost' = Append(toHost, e)
        /\ child.life = "running" /\ UNCHANGED <<mounting, mounted, lastSeq, frameTimer>>
    BY <1>18 DEF ChildWritesGarbage, Serving, sessionVars, mountVars
  <2>2. e \in Messages /\ e.kind = "garbage"
    BY DEF Message, Messages, Kinds
  <2> HIDE DEF e
  <2>3. QED
    BY <2>1, <2>2, ServingWrites
<1>19. CASE UNCHANGED vars
  BY <1>19, ServingSame DEF vars, sessionVars, mountVars, pipeVars, Serving
<1>20. QED
  BY <1>1, <1>2, <1>3, <1>6, <1>7, <1>8, <1>10, <1>11, <1>12, <1>13, <1>14, <1>15, <1>16, <1>17,
     <1>18, <1>19
     DEF Next, Child, Finished

-------------------------------------------------------------------------------
(* The rest of the invariant.                                              *)

LEMMA ReadKinds ==
  ASSUME Next \/ UNCHANGED vars
  PROVE  \/ toHost' = toHost
         \/ toHost # << >> /\ toHost' = Tail(toHost)
         \/ child.life = "running"
BY DEF Next, Child, Finished, Start, ReadStart, StartExpires, StartFails, Mount, Request, Send,
       RequestTimesOut, WindowPasses, DeadlinePasses, PumpFrame, PumpAnswer, PumpError, PumpEnds,
       TeardownEnds, Stop, StopAcked, StopForced, StopEnds, handleHello, handleMount,
       handleResize, handleQuery, handleShutdown, Handling, ChildWritesGarbage, ChildDies, vars,
       pipeVars

(* A session stopped before it was ready reads no second frame.            *)
LEMMA LateStep ==
  ASSUME TypeInv, StageInv, HandshakeInv, LateInv, [Next]_vars
  PROVE  LateInv'
<1> SUFFICES ASSUME phase' = "ready", stop' # "none"
             PROVE  \A i \in 1 .. Len(toHost') : toHost'[i].kind # "frame"
  BY DEF LateInv
<1>1. CASE phase # "ready"
  <2>1. ReadStart /\ start' = "ok"
    BY <1>1 DEF Next, Child, Finished, Start, ReadStart, StartGivesUp, StartExpires, StartFails,
                Mount, Request, Send, onPumpFatal, PumpFails,
                RequestTimesOut, WindowPasses, DeadlinePasses, PumpFrame, PumpAnswer, PumpError,
                PumpEnds, TeardownEnds, Stop, StopAcked, StopForced, StopEnds, handleHello,
                handleMount, handleResize, handleQuery, handleShutdown, Handling,
                ChildWritesGarbage, ChildDies, vars, sessionVars
  <2>2. QED
    BY <2>1, ServingStarts
<1>2. CASE phase = "ready" /\ stop = "none"
  <2>1. Stop
    BY <1>2 DEF Next, Child, Finished, Start, ReadStart, StartGivesUp, StartExpires, StartFails,
                Mount, Request, Send, onPumpFatal, PumpFails,
                RequestTimesOut, WindowPasses, DeadlinePasses, PumpFrame, PumpAnswer, PumpError,
                PumpEnds, TeardownEnds, StopAcked, StopForced, StopEnds, handleHello,
                handleMount, handleResize, handleQuery, handleShutdown, Handling,
                ChildWritesGarbage, ChildDies, vars, sessionVars
  <2>2. QED
    BY <1>2, <2>1 DEF Stop
<1>3. CASE phase = "ready" /\ stop # "none"
  <2>1. child.life # "running"
    BY <1>3 DEF StageInv
  <2>2. CASE toHost' = toHost
    BY <1>3, <2>2 DEF LateInv
  <2>3. CASE toHost # << >> /\ toHost' = Tail(toHost)
    BY <1>3, <2>3, HeadType DEF LateInv
  <2>4. QED
    BY <2>1, <2>2, <2>3, ReadKinds
<1>4. QED
  BY <1>1, <1>2, <1>3

LEMMA KnownStep ==
  ASSUME KnownInv, [Next]_vars
  PROVE  KnownInv'
<1>1. UNCHANGED <<mounted, known>> \/ PumpAnswer
  BY DEF Next, Child, Finished, Start, ReadStart, StartGivesUp, StartExpires, StartFails,
         Mount, Request, Send, onPumpFatal, PumpFails,
         RequestTimesOut, WindowPasses, DeadlinePasses, PumpFrame, PumpError,
         PumpEnds, TeardownEnds, Stop, StopAcked, StopForced, StopEnds, handleHello,
         handleMount, handleResize, handleQuery, handleShutdown, Handling,
         ChildWritesGarbage, ChildDies, vars, mountVars
<1>2. QED
  BY <1>1 DEF KnownInv, PumpAnswer

LEMMA NothingOutlivesStep ==
  ASSUME TypeInv, StageInv, NothingOutlives, [Next]_vars
  PROVE  NothingOutlives'
<1> SUFFICES ASSUME TornDown'
             PROVE  Open' = {} /\ mounting' = NoMount /\ ~frameTimer'
  BY DEF NothingOutlives
<1>1. ASSUME ClearTable PROVE Open' = {} /\ mounting' = NoMount
  BY <1>1 DEF ClearTable, Open
<1>2. ASSUME Teardown PROVE Open' = {} /\ mounting' = NoMount /\ ~frameTimer'
  BY <1>1, <1>2 DEF Teardown
<1>3. ASSUME NEW why, onPumpFatal(why)
      PROVE  Open' = {} /\ mounting' = NoMount /\ ~frameTimer'
  <2>1. ClearTable
    BY <1>3 DEF onPumpFatal
  <2>2. CASE phase = "ready"
    BY <1>1, <1>3, <2>1, <2>2 DEF onPumpFatal
  <2>3. CASE phase # "ready"
    BY <1>1, <1>3, <2>1, <2>3 DEF onPumpFatal, NothingOutlives, TornDown
  <2>4. QED
    BY <2>2, <2>3
<1>4. CASE start # "ok" /\ start' # "ok"
  <2>1. StageInv'
    BY StageStep
  <2>2. QED
    BY <1>4, <2>1 DEF StageInv, Untouched
<1>5. CASE ReadStart /\ start' = "ok"
  <2>1. start = "running" /\ UNCHANGED <<table, mounting, frameTimer>>
    BY <1>5 DEF ReadStart, callVars
  <2>2. QED
    BY <2>1 DEF StageInv, Untouched, Open
<1>6. ASSUME NEW id, NEW kind, NEW p, Send(id, kind, p)
      PROVE  FALSE
  BY <1>6 DEF Send, TornDown, sessionVars
<1>7. ASSUME TornDown, UNCHANGED <<table, mounting, frameTimer>>
      PROVE  Open' = {} /\ mounting' = NoMount /\ ~frameTimer'
  BY <1>7 DEF NothingOutlives, Open
<1>8. ASSUME NEW id \in Ids, RequestTimesOut(id)
      PROVE  Open' = {} /\ mounting' = NoMount /\ ~frameTimer'
  <2>1. CASE onPumpFatal("other")
    BY <1>3, <2>1
  <2>2. CASE ~onPumpFatal("other")
    BY <1>8, <2>2 DEF RequestTimesOut, TornDown, NothingOutlives
  <2>3. QED
    BY <2>1, <2>2
<1>9. CASE WindowPasses \/ TeardownEnds \/ ChildDies \/ ChildWritesGarbage \/ UNCHANGED vars
  BY <1>7, <1>9 DEF WindowPasses, TeardownEnds, ChildDies, ChildWritesGarbage, vars, sessionVars,
                    mountVars, callVars, TornDown
<1>10. CASE DeadlinePasses
  BY <1>3, <1>10 DEF DeadlinePasses
<1>11. ASSUME NEW why, PumpFails(why)
       PROVE  Open' = {} /\ mounting' = NoMount /\ ~frameTimer'
  BY <1>3, <1>11 DEF PumpFails
<1>12. CASE PumpFrame
  <2>1. CASE PumpFails("protocol")
    BY <1>11, <2>1
  <2>2. CASE ~PumpFails("protocol")
    BY <1>12, <2>2 DEF PumpFrame, TornDown, sessionVars
  <2>3. QED
    BY <2>1, <2>2
<1>13. CASE PumpAnswer
  <2>1. TornDown /\ start = "ok" /\ toHost # << >>
    BY <1>13 DEF PumpAnswer, TornDown, sessionVars, StageInv, Untouched
  <2>2. Open = {} /\ mounting = NoMount /\ ~frameTimer
    BY <2>1 DEF NothingOutlives
  <2>3. Head(toHost).kind = "ready" => Head(toHost).id # mounting.id
    BY <2>1, <2>2, HeadType, IdsAreNat DEF Numbered, NoMount
  <2>4. UNCHANGED <<table, mounting, frameTimer>>
    BY <1>13, <2>2, <2>3 DEF PumpAnswer
  <2>5. QED
    BY <1>7, <2>1, <2>4
<1>14. CASE PumpError
  BY <1>11, <1>14 DEF PumpError
<1>15. CASE PumpEnds
  <2>1. CASE phase = "ready"
    BY <1>3, <1>15, <2>1 DEF PumpEnds
  <2>2. CASE phase # "ready"
    BY <1>7, <1>15, <2>2 DEF PumpEnds, mountVars, TornDown
  <2>3. QED
    BY <2>1, <2>2
<1>16. CASE Stop
  <2>1. CASE Teardown
    BY <1>2, <2>1
  <2>2. CASE phase' = "stopping" /\ stop' = "waiting"
    BY <2>2 DEF TornDown
  <2>3. QED
    BY <1>16, <2>1, <2>2 DEF Stop
<1>17. CASE StopAcked \/ StopForced
  BY <1>2, <1>17 DEF StopAcked, StopForced
<1>18. CASE StopEnds
  BY <1>7, <1>18 DEF StopEnds, mountVars, callVars, TornDown
<1>19. CASE handleHello \/ handleMount \/ handleResize \/ handleQuery \/ handleShutdown
  BY <1>7, <1>19 DEF handleHello, handleMount, handleResize, handleQuery, handleShutdown, Handling,
                     sessionVars, mountVars, callVars, TornDown
<1>20. CASE Start \/ StartExpires \/ StartFails \/ (ReadStart /\ start' # "ok")
  <2>1. start # "ok"
    BY <1>20 DEF Start, StartExpires, StartFails, ReadStart, StageInv
  <2>2. start' # "ok"
    BY <1>20 DEF Start, StartExpires, StartFails, StartGivesUp
  <2>3. QED
    BY <1>4, <2>1, <2>2
<1>21. QED
  BY <1>5, <1>6, <1>8, <1>9, <1>10, <1>12, <1>13, <1>14, <1>15, <1>16, <1>17, <1>18, <1>19, <1>20
     DEF Next, Child, Finished, Mount, Request

LEMMA ViolationStep ==
  ASSUME TypeInv, StageInv, Serving => ServingInv, LateInv, KnownInv, NothingOutlives,
         NoFalseViolation, [Next]_vars
  PROVE  NoFalseViolation'
<1>1. cause' \in {cause, "other"} \/ PumpFrame
  BY DEF Next, Child, Finished, Start, ReadStart, StartGivesUp, StartExpires, StartFails,
         Mount, Request, Send, onPumpFatal, PumpFails,
         RequestTimesOut, WindowPasses, DeadlinePasses, PumpAnswer, PumpError,
         PumpEnds, TeardownEnds, Stop, StopAcked, StopForced, StopEnds, handleHello,
         handleMount, handleResize, handleQuery, handleShutdown, Handling,
         ChildWritesGarbage, ChildDies, vars, sessionVars
<1>2. CASE PumpFrame
  <2>1. CASE phase # "ready"
    BY <1>2, <2>1 DEF PumpFrame, PumpFails, onPumpFatal, sessionVars, NoFalseViolation
  <2>2. CASE phase = "ready"
    <3>1. /\ toHost # << >> /\ Head(toHost).kind = "frame"
          /\ 1 \in 1 .. Len(toHost) /\ toHost[1] = Head(toHost)
      BY <1>2, HeadType DEF PumpFrame
    <3>2. Serving
      BY <2>2, <3>1 DEF Serving, LateInv
    <3>3. HasReady(1) <=> FALSE
      BY <3>1 DEF HasReady
    <3>4. toHost[1].page = mounted /\ lastSeq < toHost[1].seq
      BY <3>1, <3>2, <3>3 DEF ServingInv, FrameInv, PageAt
    <3>5. lastSeq \in Nat /\ toHost[1].seq \in Nat
      BY <3>1, HeadType DEF TypeInv, MountOK, Messages
    <3>6. ~TornDown
      BY <2>2, <3>2 DEF TornDown, Serving
    <3>7. Head(toHost).page \in known /\ Head(toHost).page = mounted /\ Head(toHost).seq > lastSeq
      BY <3>1, <3>4, <3>5 DEF KnownInv
    <3>8. UNCHANGED sessionVars
      BY <1>2, <3>6, <3>7 DEF PumpFrame
    <3>9. QED
      BY <3>8 DEF NoFalseViolation, sessionVars
  <2>3. QED
    BY <2>1, <2>2
<1>3. QED
  BY <1>1, <1>2 DEF NoFalseViolation

LEMMA SessionInit == Init => SessionInv
<1> SUFFICES ASSUME Init PROVE SessionInv
  OBVIOUS
<1>1. toChild = << >> /\ toHost = << >> /\ Len(toHost) = 0 /\ Len(toChild) = 0
  BY DEF Init
<1>2. SessionOK /\ MountOK
  BY SessionAssumption DEF Init, SessionOK, MountOK
<1>3. CallsOK
  <2>1. late = 0 /\ 0 \in 0 .. Unresponsive
    BY SessionAssumption DEF Init
  <2>2. QED
    BY <2>1 DEF Init, CallsOK
<1>4. PipesOK
  BY <1>1 DEF Init, PipesOK, Children
<1>5. QED
  BY <1>1, <1>2, <1>3, <1>4
     DEF Init, SessionInv, TypeInv, StageInv, Untouched, Open, HandshakeInv,
         Serving, LateInv, KnownInv, NothingOutlives, TornDown, NoFalseViolation

LEMMA SessionStep == SessionInv /\ [Next]_vars => SessionInv'
<1> SUFFICES ASSUME SessionInv, [Next]_vars PROVE SessionInv'
  OBVIOUS
<1>1. TypeInv' /\ StageInv' /\ HandshakeInv'
  BY TypeStep, StageStep, HandshakeStep DEF SessionInv
<1>2. Serving' => ServingInv'
  BY ServingStep DEF SessionInv
<1>3. LateInv' /\ KnownInv' /\ NothingOutlives' /\ NoFalseViolation'
  BY LateStep, KnownStep, NothingOutlivesStep, ViolationStep DEF SessionInv
<1>4. QED
  BY <1>1, <1>2, <1>3 DEF SessionInv

LEMMA SessionAlways == Spec => []SessionInv
BY SessionInit, SessionStep, PTL DEF Spec

-------------------------------------------------------------------------------
(* The theorems.                                                           *)

(* Variables keep their types: a timer's window never overflows, and what  *)
(* the pump reads from the pipe names pages and requests of the session.   *)
THEOREM SessionTypes == Spec => []TypeOK
<1>1. TypeInv => TypeOK
  <2> SUFFICES ASSUME TypeInv PROVE TypeOK
    OBVIOUS
  <2>1. mounting \in [id: Ids \cup {NoId}, page: Pages \cup {NoPage}]
    BY DEF TypeInv, MountOK, NoMount
  <2>2. QED
    BY <2>1 DEF TypeInv, SessionOK, MountOK, CallsOK, PipesOK, TypeOK, Children
<1>2. QED
  BY <1>1, SessionAlways, PTL DEF SessionInv

(* A child that follows the protocol is never failed for violating it: a   *)
(* frame that is read is one of the page mounted then, and newer than the  *)
(* last, however page switches, late answers and resizes overlap           *)
(* (session.ts, broker.publish).                                           *)
THEOREM NoViolationIsFalse == Spec => []NoFalseViolation
BY SessionAlways, PTL DEF SessionInv

(* No request, mount or deadline outlives the session: late output of a    *)
(* dying child re-arms nothing.                                            *)
THEOREM NothingIsLeft == Spec => []NothingOutlives
BY SessionAlways, PTL DEF SessionInv

(* When both pipes are empty and the child is idle, both sides have the    *)
(* same page mounted and the session expects nothing more.                 *)
THEOREM SidesMeet == Spec => []SidesAgree
<1>1. SessionInv => SidesAgree
  <2> SUFFICES ASSUME SessionInv, phase = "ready", stop = "none", child.life = "running",
                      toChild = << >>, toHost = << >>
               PROVE  mounted = child.page /\ mounting = NoMount /\ ~frameTimer
    BY DEF SidesAgree
  <2>1. ServingInv /\ Len(toChild) = 0 /\ Len(toHost) = 0
    BY DEF SessionInv, Serving
  <2>2. ~HasReady(Len(toHost))
    BY <2>1 DEF HasReady
  <2>3. QED
    BY <2>1, <2>2 DEF ServingInv, PageInv, PageAt, FlightInv, TimerInv
<1>2. QED
  BY <1>1, SessionAlways, PTL

-------------------------------------------------------------------------------
(* The contract, step by step.                                             *)

(* What the supervisor sees, case by case.                                 *)
Seen ==
  /\ start = "none" => contractPhase = "created"
  /\ start = "error" => contractPhase = "gone"
  /\ start \in {"running", "failing"} =>
       contractPhase = IF stop = "none" THEN "starting" ELSE "aborted"
  /\ start = "ok" =>
       /\ report = "made" => contractPhase = "gone"
       /\ report = "due" => contractPhase = "failed"
       /\ phase = "ready" => contractPhase = IF stop = "none" THEN "ready" ELSE "aborted"
       /\ phase = "stopping" => contractPhase = "stopping"
       /\ report = "none" /\ phase = "stopped" =>
            contractPhase = IF pumping THEN "stopping" ELSE "gone"
  /\ Serving => start = "ok" /\ report = "none"
  /\ contractMount = IF Serving THEN mounting.page ELSE NoPage
  /\ mounting.page = NoPage <=> mounting = NoMount

LEMMA SessionSeen == SessionInv => Seen
<1> SUFFICES ASSUME SessionInv PROVE Seen
  OBVIOUS
<1>1. start = "ok" => contractPhase = startedPhase
  BY DEF contractPhase
<1>2. phase \in {"ready", "stopping"} => report = "none"
  BY DEF SessionInv, StageInv, TypeInv, SessionOK
<1>3. start = "ok" =>
        /\ report = "made" => contractPhase = "gone"
        /\ report = "due" => contractPhase = "failed"
        /\ phase = "ready" => contractPhase = IF stop = "none" THEN "ready" ELSE "aborted"
        /\ phase = "stopping" => contractPhase = "stopping"
        /\ report = "none" /\ phase = "stopped" =>
             contractPhase = IF pumping THEN "stopping" ELSE "gone"
  BY <1>1, <1>2 DEF startedPhase
<1>4. /\ start = "none" => contractPhase = "created"
      /\ start = "error" => contractPhase = "gone"
      /\ start \in {"running", "failing"} =>
           contractPhase = IF stop = "none" THEN "starting" ELSE "aborted"
  BY DEF contractPhase
<1>5. Serving => start = "ok" /\ report = "none"
  BY <1>2 DEF SessionInv, StageInv, Serving, Untouched
<1>6. Serving => contractPhase = "ready"
  BY <1>3, <1>5 DEF Serving
<1>7. ~Serving => contractPhase # "ready"
  BY <1>3, <1>4 DEF SessionInv, StageInv, TypeInv, SessionOK, Serving
<1>8. mounting.page = NoPage <=> mounting = NoMount
  BY SessionAssumption DEF SessionInv, TypeInv, MountOK, NoMount
<1>9. QED
  BY <1>3, <1>4, <1>5, <1>6, <1>7, <1>8 DEF Seen, contractMount

LEMMA ContractInit == Init => Contract!Init
BY DEF Init, Contract!Init, contractPhase, contractMount

(* What a failure of the pump, or a timer's, is to the supervisor.         *)
LEMMA FatalSeen ==
  ASSUME SessionInv, SessionInv', Seen, Seen', start = "ok", NEW why, onPumpFatal(why),
         pumping' = pumping \/ pumping' = FALSE
  PROVE  [Contract!Next]_<<contractPhase, contractMount>>
<1>1. start' = "ok" /\ stop' = stop
  BY DEF onPumpFatal
<1>2. CASE phase = "ready"
  <2>1. phase' = "failed" /\ report' = "due"
    BY <1>2 DEF onPumpFatal
  <2>2. contractPhase' = "failed" /\ contractMount' = NoPage
    BY <1>1, <2>1 DEF Seen, Serving
  <2>3. CASE stop = "none"
    <3>1. contractPhase = "ready"
      BY <1>2, <2>3 DEF Seen
    <3>2. QED
      BY <2>2, <3>1 DEF Contract!Next, Contract!Fails
  <2>4. CASE stop # "none"
    <3>1. contractPhase = "aborted" /\ contractMount = NoPage
      BY <1>2, <2>4 DEF Seen, Serving
    <3>2. QED
      BY <2>2, <3>1 DEF Contract!Next, Contract!LateReady
  <2>5. QED
    BY <2>3, <2>4
<1>3. CASE phase # "ready"
  <2>1. phase' = phase /\ report' = report
    BY <1>3 DEF onPumpFatal
  <2>2. contractMount = NoPage /\ contractMount' = NoPage
    BY <1>3, <2>1 DEF Seen, Serving
  <2>3. CASE phase = "stopped" /\ report = "none"
    <3>1. contractPhase = IF pumping THEN "stopping" ELSE "gone"
      BY <2>3 DEF Seen
    <3>2. contractPhase' = IF pumping' THEN "stopping" ELSE "gone"
      BY <1>1, <2>1, <2>3 DEF Seen
    <3>3. QED
      BY <2>2, <3>1, <3>2 DEF Contract!Next, Contract!StopEnds
  <2>4. CASE ~(phase = "stopped" /\ report = "none")
    <3>1. report = "made" \/ report = "due" \/ phase = "stopping"
      BY <1>3, <2>4 DEF SessionInv, StageInv, TypeInv, SessionOK
    <3>2. contractPhase' = contractPhase
      BY <1>1, <2>1, <3>1 DEF Seen, SessionInv, StageInv
    <3>3. QED
      BY <2>2, <3>2
  <2>5. QED
    BY <2>3, <2>4
<1>4. QED
  BY <1>2, <1>3

(* Nothing the supervisor can see changes.                                 *)
LEMMA SameSeen ==
  ASSUME UNCHANGED <<phase, start, report, pumping, mounting>>,
         (stop' = "none") <=> (stop = "none")
  PROVE  UNCHANGED <<contractPhase, contractMount>>
BY DEF contractPhase, contractMount, startedPhase

LEMMA ContractStep ==
  ASSUME SessionInv, SessionInv', Seen, Seen', [Next]_vars
  PROVE  [Contract!Next]_<<contractPhase, contractMount>>
<1> USE DEF Contract!Next
<1>1. CASE Start
  <2>1. contractPhase = "created" /\ contractPhase' = "starting"
    BY <1>1 DEF Start, Seen, SessionInv, StageInv, TypeInv, SessionOK
  <2>2. contractMount = NoPage /\ contractMount' = NoPage
    BY <1>1 DEF Start, Seen, Serving
  <2>3. QED
    BY <2>1, <2>2 DEF Contract!Start
<1>2. CASE ReadStart \/ StartExpires
  <2>1. start = "running" /\ stop' = stop /\ start' \in {"running", "failing", "ok"}
        /\ mounting' = mounting
    BY <1>2 DEF ReadStart, StartExpires, StartGivesUp, mountVars
  <2>2. contractPhase = IF stop = "none" THEN "starting" ELSE "aborted"
    BY <2>1 DEF Seen
  <2>3. contractMount = NoPage
    BY <2>1 DEF Seen
  <2>4. mounting' = NoMount
    BY <2>1 DEF SessionInv, StageInv, Untouched
  <2>5. contractMount' = NoPage
    BY <2>4 DEF Seen
  <2>6. CASE start' # "ok"
    BY <2>1, <2>2, <2>3, <2>5, <2>6 DEF Seen
  <2>7. CASE start' = "ok"
    <3>1. phase' = "ready"
      BY <1>2, <2>7 DEF ReadStart, StartExpires, StartGivesUp
    <3>2. contractPhase' = IF stop = "none" THEN "ready" ELSE "aborted"
      BY <2>1, <2>7, <3>1 DEF Seen
    <3>3. QED
      BY <2>2, <2>3, <2>5, <3>2 DEF Contract!Ready
  <2>8. QED
    BY <2>6, <2>7
<1>3. CASE StartFails
  <2>1. contractPhase \in {"starting", "aborted"} /\ contractPhase' = "gone"
    BY <1>3 DEF StartFails, Seen
  <2>2. contractMount = NoPage /\ contractMount' = NoPage
    BY <1>3 DEF StartFails, Seen, Serving
  <2>3. QED
    BY <2>1, <2>2 DEF Contract!StartFails
<1>4. ASSUME NEW id \in Ids, NEW p \in Pages, Mount(id, p)
      PROVE  [Contract!Next]_<<contractPhase, contractMount>>
  <2>1. Serving /\ UNCHANGED sessionVars /\ mounting = NoMount
        /\ mounting' \in {NoMount, [id |-> id, page |-> p]}
    BY <1>4 DEF Mount, Send, Serving
  <2>2. Serving'
    BY <2>1 DEF Serving, sessionVars
  <2>3. contractPhase = "ready" /\ contractPhase' = "ready"
    BY <2>1, <2>2 DEF Seen, Serving
  <2>4. contractMount = NoPage /\ contractMount' = mounting'.page
    BY <2>1, <2>2 DEF Seen
  <2>5. CASE mounting' = NoMount
    BY <2>3, <2>4, <2>5 DEF Seen
  <2>6. CASE mounting' = [id |-> id, page |-> p]
    <3>1. contractMount' = p
      BY <2>4, <2>6
    <3>2. QED
      BY <2>3, <2>4, <3>1 DEF Contract!Mount
  <2>7. QED
    BY <2>1, <2>5, <2>6
<1>5. ASSUME NEW id \in Ids, NEW kind, Request(id, kind)
      PROVE  UNCHANGED <<contractPhase, contractMount>>
  BY <1>5, SameSeen DEF Request, Send, sessionVars
<1>6. ASSUME NEW id \in Ids, RequestTimesOut(id)
      PROVE  [Contract!Next]_<<contractPhase, contractMount>>
  <2>1. start = "ok" /\ pumping' = pumping
    BY <1>6 DEF RequestTimesOut, SessionInv, StageInv, Untouched
  <2>2. CASE onPumpFatal("other")
    BY <2>1, <2>2, FatalSeen
  <2>3. CASE ~onPumpFatal("other")
    BY <1>6, <2>3, SameSeen DEF RequestTimesOut, mountVars
  <2>4. QED
    BY <2>2, <2>3
<1>7. CASE DeadlinePasses
  BY <1>7, FatalSeen DEF DeadlinePasses
<1>8. ASSUME pumping, NEW why, PumpFails(why)
      PROVE  [Contract!Next]_<<contractPhase, contractMount>>
  BY <1>8, FatalSeen DEF PumpFails, SessionInv, StageInv, Untouched
<1>9. CASE PumpFrame
  <2>1. CASE PumpFails("protocol")
    BY <1>8, <1>9, <2>1 DEF PumpFrame
  <2>2. CASE ~PumpFails("protocol")
    BY <1>9, <2>2, SameSeen DEF PumpFrame, sessionVars
  <2>3. QED
    BY <2>1, <2>2
<1>10. CASE PumpAnswer
  <2>1. UNCHANGED sessionVars /\ mounting' \in {mounting, NoMount}
    BY <1>10 DEF PumpAnswer
  <2>2. CASE mounting' = mounting
    BY <2>1, <2>2, SameSeen DEF sessionVars
  <2>3. CASE mounting' = NoMount /\ mounting # NoMount /\ Serving
    <3>1. Serving' /\ mounting.page # NoPage /\ mounting'.page = NoPage
      BY <2>1, <2>3 DEF Serving, sessionVars, Seen
    <3>2. contractPhase = "ready" /\ contractPhase' = "ready"
      BY <2>3, <3>1 DEF Seen, Serving
    <3>3. contractMount # NoPage /\ contractMount' = NoPage
      BY <2>3, <3>1 DEF Seen
    <3>4. QED
      BY <3>2, <3>3 DEF Contract!MountReply
  <2>4. CASE ~Serving
    <3>1. ~Serving' /\ UNCHANGED contractPhase
      BY <2>1, <2>4 DEF Serving, sessionVars, contractPhase, startedPhase
    <3>2. contractMount = NoPage /\ contractMount' = NoPage
      BY <2>4, <3>1 DEF Seen
    <3>3. QED
      BY <3>1, <3>2
  <2>5. QED
    BY <2>1, <2>2, <2>3, <2>4
<1>11. CASE PumpError
  BY <1>8, <1>11 DEF PumpError
<1>12. CASE PumpEnds
  <2>1. start = "ok" /\ pumping' = FALSE /\ pumping
    BY <1>12 DEF PumpEnds, SessionInv, StageInv, Untouched
  <2>2. CASE phase = "ready"
    BY <1>12, <2>1, <2>2, FatalSeen DEF PumpEnds
  <2>3. CASE phase # "ready"
    <3>1. UNCHANGED <<phase, start, stop, report>>
      BY <1>12, <2>3 DEF PumpEnds
    <3>2. contractMount = NoPage /\ contractMount' = NoPage
      BY <2>3, <3>1 DEF Seen, Serving
    <3>3. CASE phase = "stopped" /\ report = "none"
      <4>1. contractPhase = "stopping" /\ contractPhase' = "gone"
        BY <2>1, <3>1, <3>3 DEF Seen
      <4>2. QED
        BY <3>2, <4>1 DEF Contract!StopEnds
    <3>4. CASE ~(phase = "stopped" /\ report = "none")
      <4>1. report = "made" \/ report = "due" \/ phase = "stopping"
        BY <2>1, <2>3, <3>4 DEF SessionInv, StageInv, TypeInv, SessionOK
      <4>2. contractPhase' = contractPhase
        BY <2>1, <3>1, <4>1 DEF Seen
      <4>3. QED
        BY <3>2, <4>2
    <3>5. QED
      BY <3>3, <3>4
  <2>4. QED
    BY <2>2, <2>3
<1>13. CASE TeardownEnds
  <2>1. report = "due" /\ report' = "made" /\ UNCHANGED <<phase, start, stop>>
    BY <1>13 DEF TeardownEnds
  <2>2. start = "ok"
    BY <2>1 DEF SessionInv, StageInv, Untouched
  <2>3. contractPhase = "failed" /\ contractPhase' = "gone"
    BY <2>1, <2>2 DEF Seen
  <2>4. contractMount = NoPage /\ contractMount' = NoPage
    BY <2>1 DEF Seen, Serving
  <2>5. QED
    BY <2>3, <2>4 DEF Contract!FatalReported
<1>14. CASE Stop
  <2>1. /\ stop = "none" /\ stop' # "none" /\ start # "none" /\ UNCHANGED <<start, report, pumping>>
        /\ phase = "ready" => phase' = "stopping"
        /\ phase # "ready" => phase' = phase
    BY <1>14 DEF Stop
  <2>2. contractMount' = NoPage
    BY <2>1 DEF Seen, Serving
  <2>3. CASE phase = "ready"
    <3>1. contractPhase = "ready" /\ contractPhase' = "stopping"
      BY <2>1, <2>3 DEF Seen, Serving
    <3>2. QED
      BY <2>2, <3>1 DEF Contract!Stop
  <2>4. CASE phase # "ready" /\ start \in {"running", "failing"}
    <3>1. contractPhase = "starting" /\ contractPhase' = "aborted"
      BY <2>1, <2>4 DEF Seen
    <3>2. QED
      BY <2>2, <3>1 DEF Contract!Stop
  <2>5. CASE phase # "ready" /\ start \notin {"running", "failing"}
    <3>1. start \in {"error", "ok"}
      BY <2>1, <2>5 DEF SessionInv, TypeInv, SessionOK
    <3>2. start = "ok" => phase = "failed"
      BY <2>1, <2>5 DEF SessionInv, StageInv
    <3>3. start = "ok" => report \in {"due", "made"}
      BY <3>2 DEF SessionInv, StageInv, TypeInv, SessionOK
    <3>4. contractPhase' = contractPhase
      BY <2>1, <3>1, <3>3 DEF Seen
    <3>5. contractMount = NoPage
      BY <2>5 DEF Seen, Serving
    <3>6. QED
      BY <2>2, <3>4, <3>5
  <2>6. QED
    BY <2>3, <2>4, <2>5
<1>15. CASE StopAcked \/ StopForced
  <2>1. stop = "waiting" /\ stop' # "none" /\ UNCHANGED <<phase, start, report, pumping>>
    BY <1>15 DEF StopAcked, StopForced
  <2>2. contractMount = NoPage /\ contractMount' = NoPage
    BY <2>1 DEF Seen, Serving
  <2>3. contractPhase' = contractPhase
    BY <2>1 DEF contractPhase, startedPhase
  <2>4. QED
    BY <2>2, <2>3
<1>16. CASE StopEnds
  <2>1. /\ stop # "none" /\ stop' = "done" /\ phase' = "stopped"
        /\ pumping => phase = "ready"
        /\ UNCHANGED <<start, report, pumping>>
    BY <1>16 DEF StopEnds
  <2>2. contractMount = NoPage /\ contractMount' = NoPage
    BY <2>1 DEF Seen, Serving
  <2>3. CASE start = "ok" /\ report = "none"
    <3>1. contractPhase' = IF pumping THEN "stopping" ELSE "gone"
      BY <2>1, <2>3 DEF Seen
    <3>2. phase = "ready" => contractPhase = "aborted" /\ pumping
      BY <2>1, <2>3 DEF Seen, SessionInv, StageInv
    <3>3. phase = "stopping" => contractPhase = "stopping"
      BY <2>3 DEF Seen
    <3>4. phase = "stopped" => contractPhase = IF pumping THEN "stopping" ELSE "gone"
      BY <2>3 DEF Seen
    <3>5. phase \in {"ready", "stopping", "stopped"}
      BY <2>3 DEF SessionInv, StageInv
    <3>6. QED
      BY <2>1, <2>2, <3>1, <3>2, <3>3, <3>4, <3>5 DEF Contract!StopEnds, Contract!LateReady
  <2>4. CASE start # "ok" \/ report # "none"
    <3>1. contractPhase' = contractPhase
      BY <2>1, <2>4 DEF Seen, SessionInv, TypeInv, SessionOK, StageInv
    <3>2. QED
      BY <2>2, <3>1
  <2>5. QED
    BY <2>3, <2>4
<1>17. CASE \/ WindowPasses \/ ChildDies \/ ChildWritesGarbage
            \/ handleHello \/ handleMount \/ handleResize \/ handleQuery \/ handleShutdown
            \/ UNCHANGED vars
  <2>1. UNCHANGED <<sessionVars, mounting>>
    BY <1>17 DEF WindowPasses, ChildDies, ChildWritesGarbage, handleHello, handleMount,
                 handleResize, handleQuery, handleShutdown, Handling, vars, mountVars
  <2>2. QED
    BY <2>1, SameSeen DEF sessionVars
<1>18. QED
  BY <1>1, <1>2, <1>3, <1>4, <1>5, <1>6, <1>7, <1>9, <1>10, <1>11, <1>12, <1>13, <1>14, <1>15,
     <1>16, <1>17
     DEF Next, Child, Finished

(* The session is one of the incarnations the supervisor composes: one     *)
(* answer per start and mount, one report per failure, none after a stop.  *)
THEOREM SessionKeepsTheContract == Spec => ImplementsContract
<1>1. SessionInv /\ SessionInv' /\ Seen /\ Seen' /\ [Next]_vars
        => [Contract!Next]_<<contractPhase, contractMount>>
  BY ContractStep
<1>2. QED
  BY <1>1, ContractInit, SessionSeen, SessionAlways, PTL
     DEF Spec, ImplementsContract, Contract!Spec

=============================================================================
