-------------------------- MODULE Controls_proofs --------------------------
(***************************************************************************)
(* Proofs about the smaller parts of the board: the phone that the         *)
(* Bluetooth speaker knows, the debouncing of the buttons, the requests of *)
(* the HTTP client, the attitude of a board that is at rest, and the       *)
(* settings that the getters of the motion sensor tell.                    *)
(***************************************************************************)
EXTENDS BtSpeaker, Button, HttpRequest, Mpu6050, SequenceTheorems, FiniteSetTheorems, FunctionTheorems, TLAPS

----------------------------------------------------------------------------
(* The Bluetooth speaker, for queues of any length, any number of texts,   *)
(* tracks and changes.  The last event of a kind in the queue tells what   *)
(* the phone is like now; what BtAppT has taken before does not matter,    *)
(* and when the queue is empty it has taken that last one.                 *)

LinkStates == {"disconnected", "connecting", "connected", "disconnecting"}
Messages == [event : {"stackUp", "track", "metadata"}]
            \cup [event : {"link"}, state : LinkStates]
            \cup [event : {"audio", "remote"}, state : BOOLEAN]

TypeOK ==
  /\ dev_name \in BOOLEAN /\ avrc \in BOOLEAN /\ playing \in BOOLEAN /\ registered \in BOOLEAN
  /\ m_audio_state \in BOOLEAN
  /\ link \in LinkStates /\ asked \in Nat /\ switches \in Nat /\ texts \in Int
  /\ queue \in Seq(Messages)

Without(q, e) == \A i \in 1..Len(q) : q[i].event # e

\* The last event of a kind in q tells what is so; when there is none, what was seen is so.
Known(q, e, seen, actual) ==
  /\ \A i \in 1..Len(q) :
       q[i].event = e /\ (\A j \in i + 1..Len(q) : q[j].event # e) => q[i].state = actual
  /\ Without(q, e) => seen = actual

StatesKnown ==
  /\ Known(queue, "link", m_con_state, link)
  /\ Known(queue, "audio", m_audio_state, playing)

\* The speaker is visible as the last change of the link has left it.
ScanKnown ==
  Without(queue, "link") =>
    /\ link = "connected" => scan = "none"
    /\ link = "disconnected" /\ switches > 0 => scan = "discoverable"

\* Before the first phone there is nothing but the start of the stack, once.
FirstPhone ==
  /\ ~dev_name => switches = 0 /\ queue = <<>> /\ scan = "off"
  /\ switches = 0 =>
       /\ link = "disconnected" /\ ~avrc /\ ~playing /\ asked = 0
       /\ queue # <<>> => Len(queue) = 1 /\ queue[1].event = "stackUp" /\ scan = "off"
  /\ switches > 0 => Without(queue, "stackUp")

\* A registration that is missing will be renewed by an event in the queue.
Renews(msg) == msg.event = "track" \/ (msg.event = "remote" /\ msg.state)
Renewing(q) == \E i \in 1..Len(q) : Renews(q[i])
RegistrationComes == avrc /\ ~registered => Renewing(queue)

TextsIn(q) == Cardinality({i \in 1..Len(q) : q[i].event = "metadata"})
TextsCounted == texts = TextsIn(queue)

SpeakerInv ==
  TypeOK /\ StatesKnown /\ ScanKnown /\ FirstPhone /\ RegistrationComes /\ TextsCounted

----------------------------------------------------------------------------
(* The queue.                                                              *)

\* An event that is sent is the last of its kind, and of no other.
LEMMA KnownSent ==
  ASSUME NEW q \in Seq(Messages), NEW msg \in Messages, NEW e, NEW seen, NEW actual, NEW new,
         IF msg.event = e THEN msg.state = new ELSE Known(q, e, seen, actual) /\ new = actual
  PROVE  Known(Append(q, msg), e, seen, new)
<1>1. /\ Len(Append(q, msg)) = Len(q) + 1 /\ Len(q) \in Nat
      /\ \A i \in 1..Len(q) : Append(q, msg)[i] = q[i]
      /\ Append(q, msg)[Len(q) + 1] = msg
  BY AppendProperties
<1>2. CASE msg.event = e
  <2>1. \A i \in 1..Len(q) + 1 :
          (\A j \in i + 1..Len(q) + 1 : Append(q, msg)[j].event # e) => i = Len(q) + 1
    BY <1>1, <1>2
  <2> QED BY <1>1, <1>2, <2>1 DEF Known, Without
<1>3. CASE msg.event # e
  <2>1. \A i \in 1..Len(q) : i + 1..Len(q) \subseteq i + 1..Len(q) + 1
    BY <1>1
  <2>2. Without(Append(q, msg), e) => Without(q, e)
    BY <1>1 DEF Without
  <2>3. ASSUME NEW i \in 1..Len(q) + 1, Append(q, msg)[i].event = e,
               \A j \in i + 1..Len(q) + 1 : Append(q, msg)[j].event # e
        PROVE  Append(q, msg)[i].state = new
    <3>1. i \in 1..Len(q) /\ q[i].event = e
      BY <1>1, <1>3, <2>3
    <3>2. \A j \in i + 1..Len(q) : j \in 1..Len(q) /\ j \in i + 1..Len(q) + 1
      BY <1>1, <3>1
    <3>3. \A j \in i + 1..Len(q) : q[j].event # e
      BY <1>1, <2>3, <3>2
    <3> QED BY <1>1, <1>3, <3>1, <3>3 DEF Known
  <2> QED BY <1>1, <1>3, <2>2, <2>3 DEF Known
<1> QED BY <1>2, <1>3

\* The head is taken: what is seen now is its state, if it is of the kind.
LEMMA KnownTaken ==
  ASSUME NEW q \in Seq(Messages), q # <<>>, NEW e, NEW seen, NEW actual, NEW new,
         Known(q, e, seen, actual), new = (IF Head(q).event = e THEN Head(q).state ELSE seen)
  PROVE  Known(Tail(q), e, new, actual)
<1>1. /\ Len(Tail(q)) = Len(q) - 1 /\ Len(q) \in Nat /\ Len(q) > 0 /\ Head(q) = q[1]
      /\ \A i \in 1..Len(q) - 1 : Tail(q)[i] = q[i + 1]
  BY HeadTailProperties, EmptySeq
<1>2. ASSUME NEW i \in 1..Len(q) - 1, Tail(q)[i].event = e,
             \A j \in i + 1..Len(q) - 1 : Tail(q)[j].event # e
      PROVE  Tail(q)[i].state = actual
  <2>1. i + 1 \in 1..Len(q) /\ q[i + 1].event = e
    BY <1>1, <1>2
  <2>2. ASSUME NEW j \in i + 1 + 1..Len(q) PROVE q[j].event # e
    <3>1. j - 1 \in i + 1..Len(q) - 1 /\ j - 1 \in 1..Len(q) - 1 /\ j - 1 + 1 = j
      BY <1>1
    <3> QED BY <1>1, <1>2, <3>1
  <2>3. q[i + 1].state = actual
    BY <2>1, <2>2 DEF Known
  <2> QED BY <1>1, <2>3
<1>3. ASSUME Without(Tail(q), e) PROVE new = actual
  <2>1. ASSUME NEW j \in 2..Len(q) PROVE q[j].event # e
    <3>1. j - 1 \in 1..Len(q) - 1 /\ j - 1 + 1 = j
      BY <1>1
    <3> QED BY <1>1, <1>3, <3>1 DEF Without
  <2>2. CASE q[1].event = e
    BY <1>1, <2>1, <2>2 DEF Known
  <2>3. CASE q[1].event # e
    BY <1>1, <2>1, <2>3 DEF Known, Without
  <2> QED BY <2>2, <2>3
<1> QED BY <1>1, <1>2, <1>3 DEF Known

\* The places of a sequence that are chosen by any condition are finitely many.
LEMMA PlacesFinite ==
  ASSUME NEW n \in Nat, NEW S \in SUBSET (1..n)
  PROVE  IsFiniteSet(S) /\ Cardinality(S) \in Nat
<1>1. IsFiniteSet(1..n)
  BY FS_Interval
<1> QED BY <1>1, FS_Subset, FS_CardinalityType

\* Events of a kind come and go with the ends of the queue.
LEMMA WithoutSent ==
  ASSUME NEW q \in Seq(Messages), NEW msg \in Messages, NEW e
  PROVE  Without(Append(q, msg), e) <=> Without(q, e) /\ msg.event # e
BY AppendProperties DEF Without
\* The queue without its first message has no event it had not before.
LEMMA WithoutTaken ==
  ASSUME NEW q \in Seq(Messages), q # <<>>, NEW e
  PROVE  Without(q, e) <=> Without(Tail(q), e) /\ Head(q).event # e
<1>1. /\ Len(Tail(q)) = Len(q) - 1 /\ Len(q) \in Nat /\ Len(q) > 0 /\ Head(q) = q[1]
      /\ \A i \in 1..Len(q) - 1 : Tail(q)[i] = q[i + 1]
  BY HeadTailProperties, EmptySeq
<1>2. \A j \in 2..Len(q) : j - 1 \in 1..Len(q) - 1 /\ j - 1 + 1 = j
  BY <1>1
<1>3. \A i \in 1..Len(q) - 1 : i + 1 \in 1..Len(q)
  BY <1>1
<1>4. \A i \in 1..Len(q) : i = 1 \/ i \in 2..Len(q)
  BY <1>1
<1>5. Without(q, e) => Without(Tail(q), e) /\ Head(q).event # e
  BY <1>1, <1>3 DEF Without
<1>6. ASSUME Without(Tail(q), e), Head(q).event # e, NEW i \in 1..Len(q)
      PROVE  q[i].event # e
  <2>1. CASE i = 1
    BY <1>1, <1>6, <2>1
  <2>2. CASE i \in 2..Len(q)
    BY <1>1, <1>2, <1>6, <2>2 DEF Without
  <2> QED BY <1>4, <2>1, <2>2
<1> QED BY <1>5, <1>6 DEF Without

\* A text more or less.
LEMMA TextsSent ==
  ASSUME NEW q \in Seq(Messages), NEW msg \in Messages
  PROVE  TextsIn(Append(q, msg)) = TextsIn(q) + (IF msg.event = "metadata" THEN 1 ELSE 0)
<1> DEFINE S == {i \in 1..Len(q) : q[i].event = "metadata"}
           T == {i \in 1..Len(Append(q, msg)) : Append(q, msg)[i].event = "metadata"}
<1>1. /\ Len(Append(q, msg)) = Len(q) + 1 /\ Len(q) \in Nat
      /\ \A i \in 1..Len(q) : Append(q, msg)[i] = q[i]
      /\ Append(q, msg)[Len(q) + 1] = msg
  BY AppendProperties
<1>2. IsFiniteSet(S) /\ Cardinality(S) \in Nat
  <2>1. S \in SUBSET (1..Len(q))
    OBVIOUS
  <2> HIDE DEF S
  <2> QED BY <1>1, <2>1, PlacesFinite
<1>3. T = IF msg.event = "metadata" THEN S \cup {Len(q) + 1} ELSE S
  BY <1>1
<1>4. Len(q) + 1 \notin S
  BY <1>1
<1>5. Cardinality(S \cup {Len(q) + 1}) = Cardinality(S) + 1
  BY <1>2, <1>4, FS_AddElement
<1> HIDE DEF S, T
<1>6. Cardinality(T) = Cardinality(S) + (IF msg.event = "metadata" THEN 1 ELSE 0)
  BY <1>2, <1>3, <1>5
<1> QED BY <1>6 DEF TextsIn, S, T

\* Taking a message takes its text, if it has one.
LEMMA TextsTaken ==
  ASSUME NEW q \in Seq(Messages), q # <<>>
  PROVE  TextsIn(q) = TextsIn(Tail(q)) + (IF Head(q).event = "metadata" THEN 1 ELSE 0)
<1> DEFINE S == {i \in 1..Len(Tail(q)) : Tail(q)[i].event = "metadata"}
           T == {i \in 1..Len(q) : q[i].event = "metadata"}
           f == [i \in S |-> i + 1]
<1>1. /\ Len(Tail(q)) = Len(q) - 1 /\ Len(q) \in Nat /\ Len(q) > 0 /\ Head(q) = q[1]
      /\ \A i \in 1..Len(q) - 1 : Tail(q)[i] = q[i + 1]
  BY HeadTailProperties, EmptySeq
<1>2. IsFiniteSet(T) /\ Cardinality(T) \in Nat /\ IsFiniteSet(S) /\ Cardinality(S) \in Nat
  <2>1. S \in SUBSET (1..Len(Tail(q))) /\ T \in SUBSET (1..Len(q)) /\ Len(Tail(q)) \in Nat
    BY <1>1
  <2> HIDE DEF S, T
  <2> QED BY <1>1, <2>1, PlacesFinite
<1>3. f \in Bijection(S, T \ {1})
  <2>1. \A i \in S : i + 1 \in T \ {1}
    BY <1>1
  <2>2. \A j \in T \ {1} : j - 1 \in S /\ j - 1 + 1 = j
    BY <1>1
  <2>3. \A i, j \in S : i + 1 = j + 1 => i = j
    BY <1>1
  <2> HIDE DEF S, T
  <2>4. f \in [S -> T \ {1}] /\ \A i \in S : f[i] = i + 1
    BY <2>1
  <2>5. f \in Injection(S, T \ {1})
    BY <2>3, <2>4 DEF Injection, IsInjective
  <2>6. f \in Surjection(S, T \ {1})
    BY <2>2, <2>4 DEF Surjection
  <2> QED BY <2>5, <2>6 DEF Bijection
<1>4. Cardinality(T \ {1}) = Cardinality(S)
  BY <1>2, <1>3, FS_Bijection, ZenonT(30) DEF ExistsBijection
<1>5. 1 \in T <=> Head(q).event = "metadata"
  BY <1>1
<1>6. Cardinality(T \ {1}) = IF 1 \in T THEN Cardinality(T) - 1 ELSE Cardinality(T)
  BY <1>2, FS_RemoveElement
<1> HIDE DEF S, T
<1>7. Cardinality(T) = Cardinality(S) + (IF Head(q).event = "metadata" THEN 1 ELSE 0)
  BY <1>2, <1>4, <1>5, <1>6
<1> QED BY <1>7 DEF TextsIn, S, T

\* What an event that is sent changes in the queue, for the parts of the invariant.
LEMMA QueueSent ==
  ASSUME TypeOK, NEW msg \in Messages, Send(msg)
  PROVE  /\ queue' \in Seq(Messages) /\ queue' # <<>>
         /\ Len(queue') = Len(queue) + 1 /\ queue'[Len(queue) + 1] = msg
         /\ \A e : Without(queue', e) <=> Without(queue, e) /\ msg.event # e
         /\ \A e, seen, actual :
              msg.event # e /\ Known(queue, e, seen, actual) => Known(queue', e, seen, actual)
         /\ \A seen : Known(queue', msg.event, seen, msg.state)
         /\ TextsIn(queue') = TextsIn(queue) + (IF msg.event = "metadata" THEN 1 ELSE 0)
         /\ Renewing(queue) \/ Renews(msg) => Renewing(queue')
<1> USE DEF TypeOK, Send
<1>1. /\ queue' \in Seq(Messages) /\ queue' # <<>> /\ Len(queue) \in Nat
      /\ Len(queue') = Len(queue) + 1 /\ queue'[Len(queue) + 1] = msg
      /\ \A i \in 1..Len(queue) : queue'[i] = queue[i]
  BY AppendProperties
<1>2. \A e : Without(queue', e) <=> Without(queue, e) /\ msg.event # e
  BY WithoutSent
<1>3. \A e, seen, actual :
        msg.event # e /\ Known(queue, e, seen, actual) => Known(queue', e, seen, actual)
  BY KnownSent
<1>4. \A seen : Known(queue', msg.event, seen, msg.state)
  BY KnownSent
<1>5. TextsIn(queue') = TextsIn(queue) + (IF msg.event = "metadata" THEN 1 ELSE 0)
  BY TextsSent
<1>6. Renewing(queue) \/ Renews(msg) => Renewing(queue')
  BY <1>1 DEF Renewing
<1> QED BY <1>1, <1>2, <1>3, <1>4, <1>5, <1>6

\* What BtAppT changes in it when it takes the head.
LEMMA QueueTaken ==
  ASSUME TypeOK, NEW event, Handle(event)
  PROVE  /\ queue # <<>> /\ Head(queue) \in Messages /\ Head(queue).event = event
         /\ Head(queue) = queue[1]
         /\ queue' \in Seq(Messages) /\ Len(queue') = Len(queue) - 1 /\ Len(queue) \in Nat
         /\ \A e : Without(queue, e) <=> Without(queue', e) /\ event # e
         /\ \A e, seen, actual :
              event # e /\ Known(queue, e, seen, actual) => Known(queue', e, seen, actual)
         /\ \A seen, actual :
              Known(queue, event, seen, actual) => Known(queue', event, Head(queue).state, actual)
         /\ TextsIn(queue) = TextsIn(queue') + (IF event = "metadata" THEN 1 ELSE 0)
         /\ Renewing(queue) => Renewing(queue') \/ Renews(Head(queue))
<1> USE DEF TypeOK, Handle
<1>1. /\ queue # <<>> /\ Head(queue) \in Messages /\ Head(queue).event = event
      /\ Head(queue) = queue[1]
      /\ queue' \in Seq(Messages) /\ Len(queue') = Len(queue) - 1 /\ Len(queue) \in Nat
      /\ \A i \in 1..Len(queue) - 1 : queue'[i] = queue[i + 1]
  BY HeadTailProperties
<1>2. \A e : Without(queue, e) <=> Without(queue', e) /\ event # e
  BY WithoutTaken
<1>3. \A e, seen, actual :
        event # e /\ Known(queue, e, seen, actual) => Known(queue', e, seen, actual)
  BY KnownTaken
<1>4. \A seen, actual :
        Known(queue, event, seen, actual) => Known(queue', event, Head(queue).state, actual)
  BY KnownTaken
<1>5. TextsIn(queue) = TextsIn(queue') + (IF event = "metadata" THEN 1 ELSE 0)
  BY TextsTaken
<1>6. ASSUME NEW i \in 1..Len(queue), Renews(queue[i]) PROVE Renewing(queue') \/ Renews(Head(queue))
  <2>1. CASE i = 1
    BY <1>1, <1>6, <2>1
  <2>2. CASE i > 1
    <3>1. i - 1 \in 1..Len(queue) - 1 /\ i - 1 + 1 = i
      BY <1>1, <2>2
    <3>2. queue'[i - 1] = queue[i]
      BY <1>1, <3>1
    <3> QED BY <1>1, <1>6, <3>1, <3>2 DEF Renewing
  <2> QED BY <1>1, <2>1, <2>2
<1>7. Renewing(queue) => Renewing(queue') \/ Renews(Head(queue))
  BY <1>6 DEF Renewing
<1> QED BY <1>1, <1>2, <1>3, <1>4, <1>5, <1>7

\* When no event of a kind is left, what was seen is so.
LEMMA KnownWithout ==
  ASSUME NEW q, NEW e, NEW seen, NEW actual, Known(q, e, seen, actual), Without(q, e)
  PROVE  seen = actual
BY DEF Known

----------------------------------------------------------------------------
(* Its steps.                                                              *)

\* At the start.
LEMMA InitSpeakerInv == ASSUME Init PROVE SpeakerInv
<1> USE DEF Init
<1>1. queue \in Seq(Messages) /\ Len(queue) = 0
  BY EmptySeq
<1>2. TypeOK
  <2>1. /\ dev_name \in BOOLEAN /\ avrc \in BOOLEAN /\ playing \in BOOLEAN /\ registered \in BOOLEAN
        /\ m_audio_state \in BOOLEAN
    OBVIOUS
  <2>2. link \in LinkStates /\ asked \in Nat /\ switches \in Nat /\ texts \in Int
    BY DEF LinkStates
  <2> QED BY <1>1, <2>1, <2>2 DEF TypeOK
<1>3. StatesKnown
  <2>1. \A i \in 1..Len(queue) : FALSE
    BY <1>1
  <2> QED BY <2>1 DEF StatesKnown, Known
<1>4. ScanKnown /\ FirstPhone /\ RegistrationComes
  BY <1>1 DEF ScanKnown, FirstPhone, RegistrationComes
<1>5. TextsCounted
  <2>1. {i \in 1..Len(queue) : queue[i].event = "metadata"} = {}
    BY <1>1
  <2> QED BY <2>1, FS_EmptySet DEF TextsCounted, TextsIn
<1> QED BY <1>2, <1>3, <1>4, <1>5 DEF SpeakerInv

\* The messages.
LEMMA MessageTypes ==
  /\ [event |-> "stackUp"] \in Messages /\ [event |-> "track"] \in Messages
  /\ [event |-> "metadata"] \in Messages
  /\ \A s \in LinkStates : [event |-> "link", state |-> s] \in Messages
  /\ \A b \in BOOLEAN : /\ [event |-> "audio", state |-> b] \in Messages
                        /\ [event |-> "remote", state |-> b] \in Messages
BY DEF Messages

\* A change of the link.
LEMMA LinkStep ==
  ASSUME SpeakerInv, NEW from \in LinkStates, NEW to \in LinkStates, LinkChanges(from, to),
         from = "disconnected" => scan = "discoverable",
         UNCHANGED <<avrc, registered>>
  PROVE  SpeakerInv'
<1> DEFINE msg == [event |-> "link", state |-> to]
<1> USE DEF SpeakerInv, LinkChanges, Switch, state
<1>1. msg \in Messages /\ msg.event = "link" /\ msg.state = to
  BY MessageTypes
<1>2. Send(msg) /\ TypeOK
  OBVIOUS
<1> HIDE DEF msg
<1>3. TypeOK'
  BY <1>1, <1>2, QueueSent DEF TypeOK
<1>4. StatesKnown'
  BY <1>1, <1>2, QueueSent DEF StatesKnown
<1>5. ScanKnown'
  BY <1>1, <1>2, QueueSent DEF ScanKnown
<1>6. FirstPhone'
  <2>1. switches' > 0 /\ dev_name
    BY DEF FirstPhone, TypeOK
  <2>2. Without(queue, "stackUp")
    BY DEF FirstPhone, TypeOK, Without
  <2> QED BY <1>1, <1>2, <2>1, <2>2, QueueSent DEF FirstPhone
<1>7. RegistrationComes'
  BY <1>1, <1>2, QueueSent DEF RegistrationComes
<1>8. TextsCounted'
  BY <1>1, <1>2, QueueSent DEF TextsCounted, TypeOK
<1> QED BY <1>3, <1>4, <1>5, <1>6, <1>7, <1>8

\* A change that is not of the link and sends a message, once there has been a phone.
LEMMA PhoneStep ==
  ASSUME SpeakerInv, NEW msg \in Messages, Send(msg), TypeOK', msg.event \in {"audio", "remote", "track", "metadata"},
         switches > 0, switches' >= switches, UNCHANGED <<dev_name, link, state>>,
         msg.event = "audio" => msg.state = playing', msg.event # "audio" => playing' = playing,
         avrc' /\ ~registered' => (avrc /\ ~registered) \/ Renews(msg),
         texts' = texts + (IF msg.event = "metadata" THEN 1 ELSE 0)
  PROVE  SpeakerInv'
<1> USE DEF SpeakerInv, state
<1>1. StatesKnown'
  BY QueueSent DEF StatesKnown
<1>2. ScanKnown'
  BY QueueSent DEF ScanKnown
<1>3. FirstPhone'
  BY QueueSent DEF FirstPhone, TypeOK
<1>4. RegistrationComes'
  BY QueueSent DEF RegistrationComes
<1>5. TextsCounted'
  BY QueueSent DEF TextsCounted
<1> QED BY <1>1, <1>2, <1>3, <1>4, <1>5

\* One that sends nothing.
LEMMA QuietStep ==
  ASSUME SpeakerInv, TypeOK', switches > 0, switches' >= switches,
         UNCHANGED <<dev_name, link, state, playing, queue, texts>>,
         avrc' /\ ~registered' => avrc /\ ~registered
  PROVE  SpeakerInv'
<1> USE DEF SpeakerInv, state
<1>1. StatesKnown' /\ TextsCounted' /\ RegistrationComes'
  BY DEF StatesKnown, TextsCounted, RegistrationComes
<1>2. ScanKnown' /\ FirstPhone'
  BY DEF ScanKnown, FirstPhone, TypeOK
<1> QED BY <1>1, <1>2

\* A step of BtAppT; event is what it takes, and scan is as the handler leaves it.
LEMMA HandlerStep ==
  ASSUME SpeakerInv, NEW event, Handle(event), TypeOK',
         m_con_state' = (IF event = "link" THEN Head(queue).state ELSE m_con_state),
         m_audio_state' = (IF event = "audio" THEN Head(queue).state ELSE m_audio_state),
         scan' = (IF event = "stackUp" THEN "discoverable"
                  ELSE IF event # "link" THEN scan
                  ELSE CASE m_con_state' = "disconnected" -> "discoverable"
                         [] m_con_state' = "connected" -> "none"
                         [] OTHER -> scan),
         ~avrc => asked' = asked,
         avrc /\ ~registered' => ~registered /\ ~Renews(Head(queue)),
         texts' = texts - (IF event = "metadata" THEN 1 ELSE 0)
  PROVE  SpeakerInv'
<1> USE DEF SpeakerInv
<1>1. UNCHANGED <<dev_name, link, avrc, playing, switches>>
  BY DEF Handle
<1>2. StatesKnown'
  BY <1>1, QueueTaken DEF StatesKnown
<1>3. ScanKnown'
  <2> SUFFICES ASSUME Without(queue', "link")
               PROVE  /\ link = "connected" => scan' = "none"
                      /\ link = "disconnected" /\ switches > 0 => scan' = "discoverable"
    BY <1>1 DEF ScanKnown
  <2>1. CASE event = "link"
    <3>1. m_con_state' = link
      BY <1>1, <1>2, KnownWithout DEF StatesKnown
    <3> QED BY <2>1, <3>1
  <2>2. CASE event = "stackUp"
    <3>1. ~Without(queue, "stackUp")
      BY <2>2, QueueTaken
    <3>2. switches = 0 /\ link = "disconnected"
      BY <3>1 DEF FirstPhone, TypeOK
    <3> QED BY <3>2
  <2>3. CASE event \notin {"link", "stackUp"}
    <3>1. Without(queue, "link")
      BY <2>3, QueueTaken
    <3> QED BY <2>3, <3>1 DEF ScanKnown
  <2> QED BY <2>1, <2>2, <2>3
<1>4. FirstPhone'
  <2>1. switches > 0 => Without(queue', "stackUp")
    BY QueueTaken DEF FirstPhone
  <2>2. ASSUME switches = 0
        PROVE  link = "disconnected" /\ ~avrc /\ ~playing /\ asked' = 0 /\ queue' = <<>>
    <3> DEFINE before == Len(queue)
               after == Len(queue')
    <3>a. queue # <<>> /\ before \in Nat /\ after = before - 1
      BY QueueTaken
    <3>b. before = 1
      BY <2>2, <3>a DEF FirstPhone
    <3> HIDE DEF before, after
    <3>c. after = 0
      BY <3>a, <3>b
    <3>1. Len(queue') = 0
      BY <3>c DEF after
    <3>2. queue' = <<>>
      BY <3>1, QueueTaken, EmptySeq
    <3> QED BY <2>2, <3>2 DEF FirstPhone
  <2>3. dev_name
    BY QueueTaken DEF FirstPhone
  <2> QED BY <1>1, <2>1, <2>2, <2>3 DEF FirstPhone
<1>5. RegistrationComes'
  BY <1>1, QueueTaken DEF RegistrationComes
<1>6. TextsCounted'
  <2>1. texts = TextsIn(queue) /\ texts \in Int /\ texts' \in Int
    BY DEF TextsCounted, TypeOK
  <2>2. TextsIn(queue) = TextsIn(queue') + (IF event = "metadata" THEN 1 ELSE 0)
    BY QueueTaken
  <2>3. TextsIn(queue') \in Nat
    <3>1. queue' \in Seq(Messages) /\ Len(queue') \in Nat
      BY QueueTaken
    <3> QED BY <3>1, PlacesFinite DEF TextsIn
  <2> QED BY <2>1, <2>2, <2>3 DEF TextsCounted
<1> QED BY <1>2, <1>3, <1>4, <1>5, <1>6

\* The stack is started once, before there is a phone.
LEMMA StartStep ==
  ASSUME SpeakerInv, bt_speaker_init
  PROVE  SpeakerInv'
<1> DEFINE msg == [event |-> "stackUp"]
<1> USE DEF SpeakerInv, bt_speaker_init, phone, state
<1>1. switches = 0 /\ queue = <<>> /\ scan = "off" /\ link = "disconnected" /\ ~avrc /\ ~playing /\ asked = 0
  BY DEF FirstPhone
<1>2. CASE UNCHANGED queue
  <2>1. TypeOK'
    BY <1>2 DEF TypeOK
  <2>2. StatesKnown' /\ ScanKnown' /\ RegistrationComes' /\ TextsCounted'
    BY <1>2 DEF StatesKnown, ScanKnown, RegistrationComes, TextsCounted
  <2>3. FirstPhone'
    BY <1>1, <1>2 DEF FirstPhone
  <2> QED BY <2>1, <2>2, <2>3
<1>3. CASE Send(msg)
  <2>1. msg \in Messages /\ msg.event = "stackUp" /\ Len(queue) = 0
    BY <1>1, MessageTypes, EmptySeq
  <2> HIDE DEF msg
  <2>2. TypeOK'
    BY <1>3, <2>1, QueueSent DEF TypeOK
  <2>3. StatesKnown'
    BY <1>3, <2>1, QueueSent DEF StatesKnown
  <2>4. ScanKnown' /\ RegistrationComes'
    BY <1>1 DEF ScanKnown, RegistrationComes
  <2>5. FirstPhone'
    BY <1>1, <1>3, <2>1, QueueSent DEF FirstPhone
  <2>6. TextsCounted'
    BY <1>3, <2>1, QueueSent DEF TextsCounted, TypeOK
  <2> QED BY <2>2, <2>3, <2>4, <2>5, <2>6
<1> QED BY <1>2, <1>3

\* The types behind an action that sends.
LEMMA TypeSent ==
  ASSUME TypeOK, NEW msg \in Messages, Send(msg), UNCHANGED <<dev_name, link, state>>,
         avrc' \in BOOLEAN, playing' \in BOOLEAN, registered' \in BOOLEAN,
         asked' \in Nat, switches' \in Nat, texts' \in Int
  PROVE  TypeOK'
<1>1. queue' \in Seq(Messages)
  BY QueueSent
<1>2. dev_name' \in BOOLEAN /\ m_audio_state' \in BOOLEAN /\ link' \in LinkStates
  BY DEF TypeOK, state
<1> QED BY <1>1, <1>2 DEF TypeOK

\* The phone's link and playback, its remote control, its tracks and its answers.
LEMMA LinkActions ==
  ASSUME SpeakerInv, Connect \/ Disconnect
  PROVE  SpeakerInv'
<1>1. "disconnected" \in LinkStates /\ "connecting" \in LinkStates
      /\ "connected" \in LinkStates /\ "disconnecting" \in LinkStates
  BY DEF LinkStates
<1>2. CASE Connect
  BY <1>1, <1>2, LinkStep DEF Connect
<1>3. CASE Disconnect
  BY <1>1, <1>3, LinkStep DEF Disconnect
<1> QED BY <1>2, <1>3

\* Playback is switched by the phone or by a key; nothing is sent when it is as wanted.
LEMMA PlaysStep ==
  ASSUME SpeakerInv, NEW on \in BOOLEAN, Plays(on), switches > 0, switches' \in Nat, switches' >= switches,
         UNCHANGED <<dev_name, link, avrc, track, asked, registered, state, texts>>
  PROVE  SpeakerInv'
<1> DEFINE msg == [event |-> "audio", state |-> on]
<1> USE DEF SpeakerInv, Plays
<1>1. CASE playing = on
  <2>1. TypeOK'
    BY <1>1 DEF TypeOK, state
  <2> QED BY <1>1, <2>1, QuietStep
<1>2. CASE playing # on
  <2>1. msg \in Messages /\ msg.event = "audio" /\ msg.state = on /\ Send(msg) /\ playing' = on
    BY <1>2, MessageTypes
  <2> HIDE DEF msg
  <2>2. UNCHANGED <<dev_name, link, avrc, asked, registered, state>> /\ texts' = texts
    OBVIOUS
  <2>3. avrc' \in BOOLEAN /\ registered' \in BOOLEAN /\ playing' \in BOOLEAN
    BY <2>1, <2>2 DEF TypeOK
  <2>4. asked' \in Nat /\ texts' \in Int /\ texts' = texts + 0
    BY <2>2 DEF TypeOK
  <2>5. TypeOK'
    BY <2>1, <2>2, <2>3, <2>4, TypeSent
  <2> QED BY <2>1, <2>2, <2>4, <2>5, PhoneStep
<1> QED BY <1>1, <1>2

\* What the phone does by itself.
LEMMA PhoneActions ==
  ASSUME SpeakerInv, PlaybackChanges \/ RemoteChanges \/ TrackChanges \/ MetadataAnswers
  PROVE  SpeakerInv'
<1>1. switches \in Nat /\ asked \in Nat /\ avrc \in BOOLEAN /\ playing \in BOOLEAN /\ texts \in Int
  BY DEF SpeakerInv, TypeOK
<1>2. switches = 0 => link = "disconnected" /\ ~avrc /\ ~playing /\ asked = 0
  BY DEF SpeakerInv, FirstPhone
<1>3. CASE PlaybackChanges
  <2>1. switches > 0 /\ switches' \in Nat /\ switches' >= switches /\ Plays(~playing)
    BY <1>1, <1>2, <1>3 DEF PlaybackChanges, Switch
  <2>2. UNCHANGED <<dev_name, link, avrc, track, asked, registered, state, texts>>
    BY <1>3 DEF PlaybackChanges
  <2> QED BY <1>1, <2>1, <2>2, PlaysStep
<1>4. CASE RemoteChanges
  <2> DEFINE msg == [event |-> "remote", state |-> ~avrc]
  <2>1. msg \in Messages /\ msg.event = "remote" /\ msg.state = ~avrc /\ Send(msg)
    BY <1>1, <1>4, MessageTypes DEF RemoteChanges
  <2> HIDE DEF msg
  <2>2. switches > 0 /\ switches' \in Nat /\ switches' >= switches
    BY <1>1, <1>2, <1>4 DEF RemoteChanges, Switch
  <2>3. /\ UNCHANGED <<dev_name, link, playing, state>>
        /\ avrc' = ~avrc /\ registered' = FALSE /\ asked' = 0 /\ texts' = texts + 0
    BY <1>1, <1>4 DEF RemoteChanges
  <2>4. TypeOK'
    <3>1. avrc' \in BOOLEAN /\ playing' \in BOOLEAN /\ registered' \in BOOLEAN
      BY <1>1, <2>3
    <3>2. asked' \in Nat /\ texts' \in Int
      BY <1>1, <2>3
    <3> QED BY <2>1, <2>2, <2>3, <3>1, <3>2, TypeSent DEF SpeakerInv
  <2>5. avrc' => Renews(msg)
    BY <2>1, <2>3 DEF Renews
  <2> QED BY <2>1, <2>2, <2>3, <2>4, <2>5, PhoneStep
<1>5. CASE TrackChanges
  <2> DEFINE msg == [event |-> "track"]
  <2>1. msg \in Messages /\ msg.event = "track" /\ Send(msg) /\ Renews(msg)
    BY <1>5, MessageTypes DEF TrackChanges, Renews
  <2> HIDE DEF msg
  <2>2. switches > 0 /\ switches' \in Nat /\ switches' >= switches
    BY <1>1, <1>2, <1>5 DEF TrackChanges, Switch
  <2>3. /\ UNCHANGED <<dev_name, link, avrc, playing, asked, state>>
        /\ registered' = FALSE /\ texts' = texts + 0
    BY <1>1, <1>5 DEF TrackChanges
  <2>4. TypeOK'
    <3>1. avrc' \in BOOLEAN /\ playing' \in BOOLEAN /\ registered' \in BOOLEAN
      BY <1>1, <2>3
    <3>2. asked' \in Nat /\ texts' \in Int
      BY <1>1, <2>3
    <3> QED BY <2>1, <2>2, <2>3, <3>1, <3>2, TypeSent DEF SpeakerInv
  <2> QED BY <2>1, <2>2, <2>3, <2>4, PhoneStep
<1>6. CASE MetadataAnswers
  <2> DEFINE msg == [event |-> "metadata"]
  <2>1. msg \in Messages /\ msg.event = "metadata" /\ Send(msg)
    BY <1>6, MessageTypes DEF MetadataAnswers
  <2> HIDE DEF msg
  <2>2. /\ switches > 0 /\ UNCHANGED <<dev_name, link, avrc, playing, registered, state, switches>>
        /\ asked' \in Nat /\ texts' = texts + 1
    BY <1>1, <1>2, <1>6 DEF MetadataAnswers
  <2>3. TypeOK'
    <3>1. TypeOK /\ avrc' \in BOOLEAN /\ playing' \in BOOLEAN /\ registered' \in BOOLEAN
      BY <2>2 DEF SpeakerInv, TypeOK
    <3> QED BY <1>1, <2>1, <2>2, <3>1, TypeSent
  <2> QED BY <1>1, <2>1, <2>2, <2>3, PhoneStep
<1> QED BY <1>3, <1>4, <1>5, <1>6

\* The keys.
LEMMA KeyActions ==
  ASSUME SpeakerInv, parse_Bta
  PROVE  SpeakerInv'
<1>1. switches \in Nat /\ m_audio_state \in BOOLEAN /\ texts \in Int /\ playing \in BOOLEAN
  BY DEF SpeakerInv, TypeOK
<1>2. Key
  BY DEF parse_Bta, PlayOrPause, Stop, Skip
<1>3. switches > 0 /\ switches' \in Nat /\ switches' >= switches
  BY <1>1, <1>2 DEF Key, Switch, SpeakerInv, FirstPhone
<1>4. UNCHANGED <<dev_name, link, avrc, asked, state, texts>>
  BY <1>2 DEF Key
<1>5. CASE PlayOrPause \/ Stop
  <2>1. \E on \in BOOLEAN : Plays(on)
    BY <1>1, <1>5 DEF PlayOrPause, Stop
  <2>2. UNCHANGED <<track, registered>>
    BY <1>5 DEF PlayOrPause, Stop
  <2> QED BY <1>3, <1>4, <2>1, <2>2, PlaysStep
<1>6. CASE Skip(1) \/ Skip(-1)
  <2> DEFINE msg == [event |-> "track"]
  <2>1. registered' = FALSE /\ playing' = playing /\ IF registered THEN Send(msg) ELSE UNCHANGED queue
    BY <1>6 DEF Skip
  <2>2. CASE registered
    <3>1. msg \in Messages /\ msg.event = "track" /\ Send(msg) /\ Renews(msg)
      BY <2>1, <2>2, MessageTypes DEF Renews
    <3> HIDE DEF msg
    <3>2. TypeOK /\ avrc' \in BOOLEAN /\ playing' \in BOOLEAN /\ registered' \in BOOLEAN
          /\ asked' \in Nat /\ texts' \in Int
      BY <1>4, <2>1 DEF SpeakerInv, TypeOK
    <3>3. TypeOK'
      BY <1>3, <1>4, <3>1, <3>2, TypeSent
    <3>4. texts' = texts + 0
      BY <1>1, <1>4
    <3> QED BY <1>3, <1>4, <2>1, <3>1, <3>3, <3>4, PhoneStep
  <2>3. CASE ~registered
    <3>1. TypeOK'
      <4>1. registered' \in BOOLEAN /\ UNCHANGED <<queue, playing>>
        BY <2>1, <2>3
      <4> QED BY <1>3, <1>4, <4>1 DEF SpeakerInv, TypeOK, state
    <3> QED BY <1>3, <1>4, <2>1, <2>3, <3>1, QuietStep
  <2> QED BY <2>2, <2>3
<1> QED BY <1>5, <1>6 DEF parse_Bta

\* The handlers.
LEMMA HandlerActions ==
  ASSUME SpeakerInv, BtAppT
  PROVE  SpeakerInv'
<1> USE DEF SpeakerInv
<1>1. TypeOK /\ asked \in Nat /\ texts \in Int
  BY DEF TypeOK
<1> DEFINE TypesKept ==
  /\ dev_name' \in BOOLEAN /\ avrc' \in BOOLEAN /\ playing' \in BOOLEAN /\ link' \in LinkStates /\ switches' \in Nat
  /\ queue' \in Seq(Messages)
<1>2. ASSUME NEW event, Handle(event) PROVE TypesKept
  <2>1. queue' \in Seq(Messages)
    BY <1>1, <1>2, QueueTaken
  <2>2. UNCHANGED <<dev_name, avrc, playing, link, switches>>
    BY <1>2 DEF Handle
  <2> QED BY <1>1, <2>1, <2>2 DEF TypeOK
<1>3. ASSUME bt_av_new_track \/ UNCHANGED <<asked, registered>>
      PROVE  asked' \in Nat /\ registered' \in BOOLEAN /\ (~avrc => asked' = asked)
  <2>1. CASE avrc /\ bt_av_new_track
    <3>1. asked' = asked + Attributes /\ registered' = TRUE
      BY <2>1 DEF bt_av_new_track
    <3>2. asked' \in Nat
      BY <1>1, <3>1, SpeakerAssumption
    <3> QED BY <2>1, <3>1, <3>2
  <2>2. CASE UNCHANGED <<asked, registered>>
    BY <1>1, <2>2 DEF TypeOK
  <2> QED BY <1>3, <2>1, <2>2 DEF bt_av_new_track
<1> USE DEF state
<1>4. CASE HandleStackUp
  <2>1. Handle("stackUp") /\ scan' = "discoverable"
        /\ UNCHANGED <<asked, registered, m_con_state, m_audio_state, texts>>
    BY <1>4 DEF HandleStackUp
  <2>2. TypeOK'
    BY <1>1, <1>2, <2>1 DEF TypeOK
  <2>3. texts' = texts - 0 /\ (avrc /\ ~registered' => ~registered /\ ~Renews(Head(queue)))
    BY <1>1, <2>1, QueueTaken DEF Renews
  <2> QED BY <2>1, <2>2, <2>3, HandlerStep
<1>5. CASE HandleLink
  <2>1. /\ Handle("link") /\ m_con_state' = Head(queue).state
        /\ scan' = CASE m_con_state' = "disconnected" -> "discoverable"
                     [] m_con_state' = "connected" -> "none"
                     [] OTHER -> scan
        /\ UNCHANGED <<asked, registered, m_audio_state, texts>>
    BY <1>5 DEF HandleLink
  <2>2. TypeOK'
    BY <1>1, <1>2, <2>1 DEF TypeOK
  <2>3. texts' = texts - 0 /\ (avrc /\ ~registered' => ~registered /\ ~Renews(Head(queue)))
    BY <1>1, <2>1, QueueTaken DEF Renews
  <2> QED BY <2>1, <2>2, <2>3, HandlerStep
<1>6. CASE HandleAudio
  <2>1. Handle("audio") /\ m_audio_state' = Head(queue).state
        /\ UNCHANGED <<asked, registered, m_con_state, scan, texts>>
    BY <1>6 DEF HandleAudio
  <2>2. Head(queue).state \in BOOLEAN
    BY <1>1, <2>1, QueueTaken DEF Messages
  <2>3. TypeOK'
    BY <1>1, <1>2, <2>1, <2>2 DEF TypeOK
  <2>4. texts' = texts - 0 /\ (avrc /\ ~registered' => ~registered /\ ~Renews(Head(queue)))
    BY <1>1, <2>1, QueueTaken DEF Renews
  <2> QED BY <2>1, <2>3, <2>4, HandlerStep
<1>7. CASE HandleRemote
  <2>1. Handle("remote") /\ UNCHANGED <<m_con_state, m_audio_state, scan, texts>>
        /\ IF Head(queue).state THEN bt_av_new_track ELSE UNCHANGED <<asked, registered>>
    BY <1>7 DEF HandleRemote
  <2>2. asked' \in Nat /\ registered' \in BOOLEAN /\ (~avrc => asked' = asked)
    BY <1>1, <1>3, <2>1
  <2>3. TypeOK'
    BY <1>1, <1>2, <2>1, <2>2 DEF TypeOK
  <2>4. texts' = texts - 0 /\ (avrc /\ ~registered' => ~registered /\ ~Renews(Head(queue)))
    BY <1>1, <2>1, QueueTaken DEF Renews, bt_av_new_track
  <2> QED BY <2>1, <2>2, <2>3, <2>4, HandlerStep
<1>8. CASE HandleTrack
  <2>1. Handle("track") /\ UNCHANGED <<m_con_state, m_audio_state, scan, texts>> /\ bt_av_new_track
    BY <1>8 DEF HandleTrack
  <2>2. asked' \in Nat /\ registered' \in BOOLEAN /\ (~avrc => asked' = asked)
    BY <1>1, <1>3, <2>1
  <2>3. TypeOK'
    BY <1>1, <1>2, <2>1, <2>2 DEF TypeOK
  <2>4. texts' = texts - 0 /\ (avrc => registered')
    BY <1>1, <2>1 DEF bt_av_new_track
  <2> QED BY <2>1, <2>2, <2>3, <2>4, HandlerStep
<1>9. CASE HandleMetadata
  <2>1. Handle("metadata") /\ texts' = texts - 1
        /\ UNCHANGED <<asked, registered, m_con_state, m_audio_state, scan>>
    BY <1>9 DEF HandleMetadata
  <2>2. TypeOK'
    BY <1>1, <1>2, <2>1 DEF TypeOK
  <2>3. avrc /\ ~registered' => ~registered /\ ~Renews(Head(queue))
    BY <1>1, <2>1, QueueTaken DEF Renews
  <2> QED BY <2>1, <2>2, <2>3, HandlerStep
<1> QED BY <1>4, <1>5, <1>6, <1>7, <1>8, <1>9 DEF BtAppT

\* Every step keeps it.
LEMMA SpeakerInvStep == ASSUME SpeakerInv, Next PROVE SpeakerInv'
BY StartStep, LinkActions, PhoneActions, KeyActions, HandlerActions DEF Next

----------------------------------------------------------------------------
(* The theorem.                                                            *)

\* What was to be shown.
LEMMA SpeakerInvKnows == ASSUME SpeakerInv PROVE PhoneKnown
<1> USE DEF SpeakerInv
<1>1. DOMAIN queue = 1..Len(queue)
  BY LenProperties DEF TypeOK
<1>2. CaughtUp
  <2>1. queue = <<>> => \A e : Without(queue, e)
    BY <1>1 DEF Without
  <2> QED BY <2>1, KnownWithout DEF CaughtUp, StatesKnown, ScanKnown
<1>3. TextsFreed
  BY <1>1 DEF TextsFreed, TextsCounted, TextsIn
<1>4. ChangesReported
  BY <1>1 DEF ChangesReported, RegistrationComes, Renewing
<1> QED BY <1>2, <1>3, <1>4 DEF PhoneKnown

\* However late BtAppT is, what it tells the commands and the other devices of the phone is
\* right once it has caught up, every text is freed, and a change of track is never the last
\* one reported (bt_app_core.c, bt_app_av.c).
THEOREM PhoneKnownAlways == Spec => []PhoneKnown
<1>1. SpeakerInv /\ [Next]_vars => SpeakerInv'
  <2>1. SpeakerInv /\ UNCHANGED vars => SpeakerInv'
    BY DEF vars, phone, state, SpeakerInv, TypeOK, StatesKnown, ScanKnown, FirstPhone,
           RegistrationComes, TextsCounted
  <2> QED BY <2>1, SpeakerInvStep
<1> QED BY <1>1, InitSpeakerInv, SpeakerInvKnows, PTL DEF Spec

----------------------------------------------------------------------------
(* The buttons.                                                            *)

\* The callback was last told what the value's halves say: pressed, if the level they end at is
\* low.  While the value has two different halves, a pin that keeps its level has kept it for
\* all the samples of the filter.
ButtonInv ==
  /\ bounces \in BOOLEAN /\ filter \in 0..255 /\ value \in {OFF, RELEASE, PRESS, ON}
  /\ told = IF value \in {OFF, PRESS} THEN PRESS ELSE RELEASE
  /\ ~ bounces /\ value = PRESS => filter = 0
  /\ ~ bounces /\ value = RELEASE => filter = 255

\* What button_filter makes of each value.
LEMMA FilterValues ==
  ASSUME NEW f \in 0..255, NEW v \in {OFF, RELEASE, PRESS, ON}
  PROVE  LET w == Or(Debounced(f, v), LowByte(16 * (v % 16)))
         IN CASE f = 0 -> w = (IF v \in {OFF, PRESS} THEN OFF ELSE PRESS)
              [] f = 255 -> w = (IF v \in {OFF, PRESS} THEN RELEASE ELSE ON)
              [] OTHER -> w = (CASE v = OFF -> OFF [] v = PRESS -> PRESS [] OTHER -> ON)
<1> USE DEF OFF, RELEASE, PRESS, ON
<1>1. /\ LowByte(16 * (0 % 16)) = 0 /\ LowByte(16 * (1 % 16)) = 16
      /\ LowByte(16 * (16 % 16)) = 0 /\ LowByte(16 * (17 % 16)) = 16
  BY DEF LowByte
<1>2. /\ Or(0, 0) = 0 /\ Or(0, 16) = 16 /\ Or(1, 0) = 1 /\ Or(1, 16) = 17
      /\ Or(16, 0) = 16 /\ Or(17, 16) = 17
  BY DEF Or
<1>3. Debounced(f, v) = (CASE f = 255 -> 1 [] f = 0 -> 0 [] OTHER -> v)
  BY DEF Debounced
<1> QED BY <1>1, <1>2, <1>3

\* One sample keeps ButtonInv, and changes the value as Debounces says.
LEMMA SampleStep ==
  ASSUME ButtonInv, Sample
  PROVE  /\ ButtonInv'
         /\ value' = RELEASE => told = PRESS
         /\ ~ bounces /\ value' = PRESS => told = RELEASE
         /\ value' % 16 # value % 16 => filter' \in {0, 255}
<1> USE DEF OFF, RELEASE, PRESS, ON
<1>1. PICK level \in {0, 1} :
        /\ ~ bounces /\ value \in {PRESS, RELEASE} => level = value % 2
        /\ filter' = LowByte(2 * filter + level)
        /\ value' = Or(Debounced(filter', value), LowByte(16 * (value % 16)))
        /\ told' = IF value' > OFF /\ value' < ON THEN value' ELSE told
        /\ bounces' = bounces
  BY DEF Sample, button_filter
<1>2. /\ bounces \in BOOLEAN /\ filter \in 0..255 /\ value \in {OFF, RELEASE, PRESS, ON}
      /\ told = IF value \in {OFF, PRESS} THEN PRESS ELSE RELEASE
  BY DEF ButtonInv
<1>3. filter' \in 0..255
  BY <1>1, <1>2 DEF LowByte
<1>4. /\ filter' = 0 => value' = (IF value \in {OFF, PRESS} THEN OFF ELSE PRESS)
      /\ filter' = 255 => value' = (IF value \in {OFF, PRESS} THEN RELEASE ELSE ON)
      /\ filter' \notin {0, 255} =>
           value' = (CASE value = OFF -> OFF [] value = PRESS -> PRESS [] OTHER -> ON)
  BY <1>1, <1>2, <1>3, FilterValues
<1>5. /\ ~ bounces /\ value = PRESS => filter' = 0
      /\ ~ bounces /\ value = RELEASE => filter' = 255
  <2>1. 16 % 2 = 0 /\ 1 % 2 = 1 /\ LowByte(2 * 0 + 0) = 0 /\ LowByte(2 * 255 + 1) = 255
    BY DEF LowByte
  <2> QED BY <1>1, <2>1 DEF ButtonInv
<1>6. /\ value' = RELEASE => told = PRESS
      /\ ~ bounces /\ value' = PRESS => told = RELEASE
  BY <1>2, <1>4, <1>5
<1>7. value' % 16 # value % 16 => filter' \in {0, 255}
  <2>1. 0 % 16 = 0 /\ 1 % 16 = 1 /\ 16 % 16 = 0 /\ 17 % 16 = 1
    OBVIOUS
  <2> QED BY <1>2, <1>4, <2>1
<1>8. /\ value' \in {OFF, RELEASE, PRESS, ON}
      /\ told' = IF value' \in {OFF, PRESS} THEN PRESS ELSE RELEASE
  BY <1>1, <1>2, <1>4
<1>9. /\ ~ bounces' /\ value' = PRESS => filter' = 0
      /\ ~ bounces' /\ value' = RELEASE => filter' = 255
  BY <1>1, <1>2, <1>4, <1>5
<1> QED BY <1>1, <1>2, <1>3, <1>6, <1>7, <1>8, <1>9 DEF ButtonInv

\* What is reported is what was done to the button (button_filter, button_task). However the pin
\* bounces, a level changes only after eight equal samples, and a release is reported once and only
\* after a press; a press once until the release, if the pin does not bounce right after the eight.
THEOREM DebouncesAlways == ButtonSpec => Debounces
<1>1. ButtonInit => ButtonInv
  BY DEF ButtonInit, ButtonInv, OFF, RELEASE, PRESS, ON
<1>2. ButtonInv /\ [ButtonNext]_buttonVars => ButtonInv'
  <2>1. ButtonInv /\ UNCHANGED buttonVars => ButtonInv'
    BY DEF ButtonInv, buttonVars
  <2> QED BY <2>1, SampleStep DEF ButtonNext
<1>3. ButtonInv /\ [ButtonNext]_buttonVars =>
        [/\ value' = RELEASE => told = PRESS
         /\ ~ bounces /\ value' = PRESS => told = RELEASE]_buttonVars
  BY SampleStep DEF ButtonNext
<1>4. ButtonInv /\ [ButtonNext]_buttonVars =>
        [value' % 16 # value % 16 => filter' \in {0, 255}]_buttonVars
  BY SampleStep DEF ButtonNext
<1> QED BY <1>1, <1>2, <1>3, <1>4, PTL DEF ButtonSpec, Debounces, ReportsAlternate, EightSamples

----------------------------------------------------------------------------
(* The requests of the HTTP client.                                        *)

RequestMethods == {"GET", "POST", "PUT", "DELETE"}
Client == [by : {"http_tls_request"}, method : RequestMethods, uri : Uris, body : Nat]
Rest == [by : {"http_rest_post"}, method : RequestMethods, uri : Uris, fields : Nat, file : Recordings]
HeadPart == [method : RequestMethods, path : Seq(Characters), host : STRING]
OtherParts == {"post_data", "field", "multipart", "header", "data", "tail"}
Sent == [part : HeadPart \cup OtherParts, size : Nat, whole : BOOLEAN]

\* f is the sums of the sizes in s; n is what they come to.  That there are such sums, and no
\* others, is what makes the recursion of BytesSent mean something.
Sums(s, f) == f = [i \in 0..Len(s) |-> IF i = 0 THEN 0 ELSE f[i - 1] + s[i].size]
Total(s, n) == \E f : Sums(s, f) /\ (\A g : Sums(s, g) => g = f) /\ f[Len(s)] = n

\* Nothing sent is no byte.
LEMMA TotalEmpty == Total(<<>>, 0)
<1> DEFINE f == [i \in 0..0 |-> 0]
<1>1. Sums(<<>>, f)
  BY DEF Sums
<1>2. ASSUME NEW g, Sums(<<>>, g) PROVE g = f
  <2>1. g = [i \in 0..0 |-> IF i = 0 THEN 0 ELSE g[i - 1] + <<>>[i].size]
    BY <1>2 DEF Sums
  <2>2. \A i \in 0..0 : i = 0
    OBVIOUS
  <2>3. g = [i \in 0..0 |-> 0]
    BY <2>1, <2>2, Zenon
  <2> QED BY <2>3
<1>3. f[Len(<<>>)] = 0
  OBVIOUS
<1> QED BY <1>1, <1>2, <1>3 DEF Total

\* Another part adds its size.
LEMMA TotalAppend ==
  ASSUME NEW s \in Seq(Sent), NEW n \in Nat, Total(s, n), NEW x \in Sent
  PROVE  Total(Append(s, x), n + x.size)
<1> DEFINE t == Append(s, x)
           l == Len(s)
<1>1. PICK f : Sums(s, f) /\ (\A g : Sums(s, g) => g = f) /\ f[l] = n
  BY DEF Total
<1>2. l \in Nat /\ Len(t) = l + 1 /\ t[l + 1] = x /\ \A i \in 1..l : t[i] = s[i]
  BY AppendProperties
<1> HIDE DEF t, l
<1>3. /\ f[0] = 0
      /\ \A i \in 1..l : f[i] = f[i - 1] + s[i].size
  <2>1. f = [i \in 0..l |-> IF i = 0 THEN 0 ELSE f[i - 1] + s[i].size]
    BY <1>1 DEF Sums, l
  <2>2. 0 \in 0..l /\ \A i \in 1..l : i \in 0..l /\ i # 0
    BY <1>2
  <2> QED BY <2>1, <2>2
<1> DEFINE h == [i \in 0..l + 1 |-> IF i = l + 1 THEN f[l] + x.size ELSE f[i]]
<1>4. \A i \in 0..l + 1 : h[i] = (IF i = 0 THEN 0 ELSE h[i - 1] + t[i].size)
  <2> SUFFICES ASSUME NEW i \in 0..l + 1
               PROVE  h[i] = (IF i = 0 THEN 0 ELSE h[i - 1] + t[i].size)
    OBVIOUS
  <2>1. CASE i = 0
    BY <1>2, <1>3, <2>1
  <2>2. CASE i \in 1..l
    <3>1. h[i] = f[i] /\ h[i - 1] = f[i - 1]
      BY <1>2, <2>2
    <3> QED BY <1>2, <1>3, <2>2, <3>1
  <2>3. CASE i = l + 1
    <3>1. h[i] = f[l] + x.size /\ h[i - 1] = f[l] /\ i # 0
      BY <1>2, <2>3
    <3> QED BY <1>2, <2>3, <3>1
  <2> QED BY <1>2, <2>1, <2>2, <2>3
<1>5. Sums(t, h)
  <2>1. h = [i \in 0..l + 1 |-> IF i = 0 THEN 0 ELSE h[i - 1] + t[i].size]
    BY <1>4
  <2> HIDE DEF h
  <2> QED BY <1>2, <2>1 DEF Sums
<1>6. ASSUME NEW g, Sums(t, g) PROVE g = h
  <2> DEFINE r == [i \in 0..l |-> g[i]]
  <2>1. g = [i \in 0..l + 1 |-> IF i = 0 THEN 0 ELSE g[i - 1] + t[i].size]
    BY <1>2, <1>6 DEF Sums
  <2>2. g[0] = 0 /\ \A i \in 1..l + 1 : g[i] = g[i - 1] + t[i].size
    BY <1>2, <2>1
  <2>3. \A i \in 0..l : r[i] = (IF i = 0 THEN 0 ELSE r[i - 1] + s[i].size)
    BY <1>2, <2>2
  <2>4. Sums(s, r)
    <3>1. r = [i \in 0..l |-> IF i = 0 THEN 0 ELSE r[i - 1] + s[i].size]
      BY <2>3
    <3> HIDE DEF r
    <3> QED BY <3>1 DEF Sums, l
  <2>5. \A i \in 0..l : g[i] = f[i]
    <3>1. r = f
      BY <1>1, <2>4
    <3> QED BY <3>1
  <2>6. \A i \in 0..l + 1 : g[i] = h[i]
    <3>1. g[l + 1] = g[l] + x.size /\ g[l] = f[l]
      BY <1>2, <2>2, <2>5
    <3> QED BY <1>2, <2>5, <3>1
  <2> QED BY <2>1, <2>6
<1>7. h[Len(t)] = n + x.size
  BY <1>1, <1>2
<1> HIDE DEF h
<1> QED BY <1>5, <1>6, <1>7 DEF Total, t

\* The sum is the one the request counts.
LEMMA TotalBytes ==
  ASSUME NEW n, Total(sent, n)
  PROVE  BytesSent = n
<1>1. PICK f : Sums(sent, f) /\ (\A g : Sums(sent, g) => g = f) /\ f[Len(sent)] = n
  BY DEF Total
<1>2. (CHOOSE g : Sums(sent, g)) = f
  BY <1>1
<1>3. BytesSent = (CHOOSE g : Sums(sent, g))[Len(sent)]
  BY DEF BytesSent, Sums
<1> QED BY <1>1, <1>2, <1>3

\* The buffer that is filled from both ends is the path with its query.
LEMMA PathJoined ==
  ASSUME NEW u \in Uri
  PROVE  /\ url_get_path(u) \in Seq(Characters)
         /\ url_get_path(u) = (IF u.path = <<>> THEN <<"/">> ELSE u.path)
                              \o (IF u.query = <<>> THEN <<>> ELSE <<"?">> \o u.query)
<1> DEFINE front == IF u.path = <<>> THEN <<"/">> ELSE u.path
           back == IF u.query = <<>> THEN <<>> ELSE <<"?">> \o u.query
           m == Len(front)
           n == Len(u.query)
           whole == url_get_path(u)
           joined == front \o back
<1>1. u.path \in Seq(Characters) /\ u.query \in Seq(Characters) /\ n \in Nat /\ (n = 0 <=> u.query = <<>>)
  BY EmptySeq DEF Uri
<1>2. front \in Seq(Characters) /\ m \in Nat /\ m = (IF u.path # <<>> THEN Len(u.path) ELSE 1)
  <2>1. <<"/">> \in Seq(Characters) /\ Len(<<"/">>) = 1
    BY RequestAssumption
  <2> QED BY <1>1, <2>1
<1>3. /\ back \in Seq(Characters) /\ Len(back) = (IF n = 0 THEN 0 ELSE n + 1)
      /\ \A i \in 1..Len(back) : back[i] = IF i = 1 THEN "?" ELSE u.query[i - 1]
  <2>1. CASE n = 0
    BY <1>1, <2>1
  <2>2. CASE n # 0
    <3>1. <<"?">> \in Seq(Characters) /\ Len(<<"?">>) = 1 /\ <<"?">>[1] = "?"
      BY RequestAssumption
    <3>2. /\ back \in Seq(Characters) /\ Len(back) = 1 + n
          /\ \A i \in 1..1 + n : back[i] = IF i <= 1 THEN <<"?">>[i] ELSE u.query[i - 1]
      BY <1>1, <2>2, <3>1, ConcatProperties
    <3> HIDE DEF back
    <3> QED BY <1>1, <2>2, <3>1, <3>2
  <2> QED BY <2>1, <2>2
<1>4. /\ joined \in Seq(Characters) /\ Len(joined) = m + Len(back)
      /\ \A i \in 1..m + Len(back) : joined[i] = IF i =< m THEN front[i] ELSE back[i - m]
  <2>0. front \in Seq(Characters) /\ back \in Seq(Characters)
    BY <1>2, <1>3
  <2> HIDE DEF back, front
  <2>1. /\ joined \in Seq(Characters) /\ Len(joined) = Len(front) + Len(back)
        /\ \A i \in 1..Len(front) + Len(back) :
             joined[i] = IF i <= Len(front) THEN front[i] ELSE back[i - Len(front)]
    BY <2>0, ConcatProperties
  <2> QED BY <2>1
<1> DEFINE len == (IF u.path # <<>> THEN Len(u.path) ELSE 1)
                  + (IF u.query # <<>> THEN Len(u.query) + 1 ELSE 0)
<1>5. /\ len = m + Len(back) /\ Len(back) \in Nat
      /\ whole = [i \in 1..len |-> whole[i]]
      /\ \A i \in 1..len :
           whole[i] = IF n # 0 /\ i > len - n THEN u.query[i - (len - n)]
                      ELSE IF n # 0 /\ i = len - n THEN "?" ELSE front[i]
  <2>1. len = m + Len(back) /\ Len(back) \in Nat
    <3> HIDE DEF front, back
    <3>1. Len(back) = IF u.query # <<>> THEN n + 1 ELSE 0
      BY <1>1, <1>3
    <3> QED BY <1>1, <1>2, <3>1
  <2>2. front = IF u.path # <<>> THEN u.path ELSE <<"/">>
    OBVIOUS
  <2>3. whole = [i \in 1..len |-> IF u.query # <<>> /\ i > len - Len(u.query) THEN u.query[i - (len - Len(u.query))]
                                 ELSE IF u.query # <<>> /\ i = len - Len(u.query) THEN "?"
                                 ELSE (IF u.path # <<>> THEN u.path ELSE <<"/">>)[i]]
    BY DEF url_get_path
  <2> HIDE DEF len, front, whole, back
  <2> QED BY <1>1, <2>1, <2>2, <2>3
<1> HIDE DEF whole, m, n, joined, len, back, front
<1>6. ASSUME NEW i \in 1..len PROVE whole[i] = joined[i]
  <2>1. CASE n = 0
    <3>1. len = m /\ i =< m
      BY <1>2, <1>3, <1>5, <2>1
    <3> QED BY <1>1, <1>4, <1>5, <2>1, <3>1
  <2>2. CASE n # 0
    <3>0. Len(back) = n + 1
      BY <1>3, <2>2
    <3>1. Len(back) = n + 1 /\ len = m + n + 1 /\ len - n = m + 1 /\ m \in Nat /\ n \in Nat
      <4>1. len = m + Len(back) /\ m \in Nat /\ n \in Nat
        BY <1>1, <1>2, <1>5
      <4> QED BY <3>0, <4>1
    <3>2. CASE i =< m
      <4>1. joined[i] = front[i]
        BY <1>4, <1>5, <3>2
      <4>2. ~ i > len - n /\ i # len - n
        BY <3>1, <3>2
      <4> QED BY <1>5, <4>1, <4>2
    <3>3. CASE i = m + 1
      <4>1. whole[i] = "?"
        <5>1. ~ i > len - n /\ i = len - n
          BY <3>1, <3>3
        <5> QED BY <1>5, <2>2, <5>1
      <4>2. i - m = 1 /\ 1 \in 1..Len(back) /\ ~ i =< m
        BY <1>1, <1>2, <3>1, <3>3
      <4> QED BY <1>3, <1>4, <1>5, <4>1, <4>2
    <3>4. CASE i > m + 1
      <4>1. i \in Nat /\ i =< m + n + 1
        BY <1>1, <1>2, <3>1
      <4>2. i - m \in 1..Len(back) /\ i - m # 1 /\ i - m - 1 = i - (m + 1) /\ ~ i =< m
        BY <1>1, <1>2, <3>1, <3>4, <4>1
      <4>3. whole[i] = u.query[i - (m + 1)]
        BY <1>1, <1>2, <1>5, <2>2, <3>1, <3>4
      <4> QED BY <1>3, <1>4, <1>5, <4>2, <4>3
    <3> QED BY <1>2, <3>1, <3>2, <3>3, <3>4
  <2> QED BY <2>1, <2>2
<1>7. whole = joined
  <2>1. joined = [i \in 1..len |-> joined[i]]
    BY <1>4, <1>5, LenProperties
  <2> QED BY <1>5, <1>6, <2>1
<1> QED BY <1>4, <1>7 DEF whole, joined, front, back

\* What has been sent so far, and of the recording.
Progress ==
  /\ pc \in {"connect", "compose", "head"} => sent = <<>>
  /\ pc \in {"compose", "head", "fields", "multipart", "header", "buffer"} /\ ByTask => read_bytes = 0
  /\ pc = "body" => Total(sent, 0)
  /\ pc = "fields" => Len(sent) - 1 =< call.fields /\ Total(sent, Len(sent) - 1)
  /\ pc = "multipart" => Total(sent, call.fields)
  /\ pc = "header" => Total(sent, call.fields + 1)
  /\ pc = "buffer" => Total(sent, call.fields + 1 + call.file.hdr_size)
  /\ pc = "data" => /\ read_bytes \in Nat /\ read_bytes % PIECE = 0 /\ read_bytes =< call.file.data_size
                    /\ Total(sent, call.fields + 1 + call.file.hdr_size + read_bytes)
  /\ pc = "tail" => Total(sent, call.fields + 1 + call.file.hdr_size + call.file.data_size)
  /\ pc = "response" => Total(sent, IF ByTask THEN ContentLength ELSE call.body)

\* What the call has taken and not given back yet.
Holding ==
  /\ pc = "connect" => held = {"url"}
  /\ pc \in {"compose", "body", "header", "buffer", "response"} => held = {"url", "tls"}
  /\ pc = "head" => held = {"url", "tls"} \cup Texts
  /\ pc \in {"fields", "multipart"} => held = {"url", "tls", "multipart_buf"}
  /\ pc \in {"data", "tail"} => held = {"url", "tls", "read_buf"}

\* The call, its address and its connection are those it was made with.
Calling ==
  pc # "idle" =>
    /\ call \in Client \cup Rest /\ sent \in Seq(Sent)
    /\ url = url_parse(call.uri)
    /\ pc # "connect" => tls = http_tls_conn(url)
    /\ pc \in {"connect", "body"} => ~ ByTask
    /\ pc \in {"fields", "multipart", "header", "buffer", "data", "tail"} => ByTask
    /\ pc \notin {"connect", "compose"} /\ ByTask => announced = ContentLength
    /\ pc \notin {"connect", "compose", "head"} => sent # <<>> /\ sent[1].part.path = url.path

RequestLabels ==
  {"idle", "connect", "compose", "head", "body", "fields", "multipart", "header", "buffer", "data",
   "tail", "response"}
RequestInv == pc \in RequestLabels /\ forgotten \in BOOLEAN /\ Calling /\ Progress /\ Holding /\ GivesBack

\* A call begins.
LEMMA IdleStep ==
  ASSUME pc' = "idle", forgotten' \in BOOLEAN, GivesBack'
  PROVE  RequestInv'
BY DEF RequestInv, RequestLabels, Calling, Progress, Holding

\* The exit of a call that holds its address and its connection.
LEMMA ExitStep ==
  ASSUME NEW keeping, Exit(keeping), keeping = {"url", "tls"}, call' = call
  PROVE  pc' = "idle" /\ GivesBack'
<1>1. pc' = "idle" /\ held' = (IF ByTask THEN {"url"} ELSE {})
  BY DEF Exit
<1>2. ByTask => call # Nothing
  BY DEF ByTask, Nothing
<1> QED BY <1>1, <1>2 DEF GivesBack, ByTask

\* A part is sent and counted, or the call ends.
LEMMA WriteStep ==
  ASSUME sent \in Seq(Sent), NEW part \in HeadPart \cup OtherParts, NEW size \in Nat,
         NEW n \in Nat, Total(sent, n),
         NEW frees, held \ frees = {"url", "tls"}, NEW next,
         Write(part, size, frees, next), call' = call
  PROVE  \/ pc' = "idle" /\ GivesBack'
         \/ /\ pc' = next /\ sent' \in Seq(Sent) /\ sent' # <<>> /\ Len(sent') = Len(sent) + 1
            /\ Total(sent', n + size)
            /\ sent'[1].part = IF sent = <<>> THEN part ELSE sent[1].part
<1>1. CASE Exit(held \ frees)
  BY <1>1, ExitStep
<1>2. CASE \E whole \in BOOLEAN :
             sent' = Append(sent, [part |-> part, size |-> size, whole |-> whole]) /\ pc' = next
  <2>1. PICK whole \in BOOLEAN :
          sent' = Append(sent, [part |-> part, size |-> size, whole |-> whole]) /\ pc' = next
    BY <1>2
  <2> DEFINE x == [part |-> part, size |-> size, whole |-> whole]
  <2>2. x \in Sent /\ x.size = size /\ x.part = part
    BY DEF Sent
  <2>3. sent' = Append(sent, x)
    BY <2>1
  <2> HIDE DEF x
  <2>4. /\ sent' \in Seq(Sent) /\ Len(sent') = Len(sent) + 1 /\ sent'[Len(sent) + 1] = x
        /\ \A i \in 1..Len(sent) : sent'[i] = sent[i]
    BY <2>2, <2>3, AppendProperties
  <2>5. Len(sent) \in Nat /\ (Len(sent) = 0 <=> sent = <<>>) /\ (Len(sent') = 0 <=> sent' = <<>>)
    BY <2>4, EmptySeq
  <2>6. sent'[1].part = IF sent = <<>> THEN part ELSE sent[1].part
    BY <2>2, <2>4, <2>5
  <2>7. Total(sent', n + size)
    BY <2>2, <2>3, TotalAppend
  <2> QED BY <2>1, <2>4, <2>5, <2>6, <2>7
<1> QED BY <1>1, <1>2 DEF Write

\* The beginning of a call.
LEMMA CallStep ==
  ASSUME RequestInv,
         NEW uri \in Uris,
         \/ http_client("GET", uri, 0)
         \/ \E method \in {"POST", "PUT", "DELETE"}, body \in Bodies : http_client(method, uri, body)
         \/ \E fields \in FormFields, file \in Recordings : http_rest_post(uri, fields, file)
  PROVE  RequestInv'
<1>1. ASSUME NEW method \in RequestMethods, NEW body \in Nat, http_client(method, uri, body)
      PROVE  RequestInv'
  <2>1. /\ call' = [by |-> "http_tls_request", method |-> method, uri |-> uri, body |-> body]
        /\ sent' = <<>> /\ forgotten' = forgotten /\ pc = "idle"
        /\ \/ held' = {} /\ pc' = pc
           \/ pc' = "connect" /\ url' = url_parse(uri) /\ held' = {"url"}
    BY <1>1 DEF http_client
  <2>2. call' \in Client /\ ~ ByTask' /\ call'.uri = uri
    BY <2>1 DEF Client, ByTask, RequestMethods
  <2>3. CASE held' = {} /\ pc' = pc
    BY <2>1, <2>2, <2>3, IdleStep DEF GivesBack, RequestInv
  <2>4. CASE pc' = "connect" /\ url' = url_parse(uri) /\ held' = {"url"}
    BY <2>1, <2>2, <2>4 DEF RequestInv, RequestLabels, Calling, Progress, Holding, GivesBack
  <2> QED BY <2>1, <2>3, <2>4
<1>2. ASSUME NEW fields \in FormFields, NEW file \in Recordings, http_rest_post(uri, fields, file)
      PROVE  RequestInv'
  <2>1. /\ call' = [by |-> "http_rest_post", method |-> "POST", uri |-> uri, fields |-> fields,
                    file |-> file]
        /\ url' = url_parse(uri) /\ tls' = http_tls_conn(url') /\ held' = {"url", "tls"}
        /\ sent' = <<>> /\ read_bytes' = 0 /\ pc' = "compose" /\ forgotten' = forgotten
    BY <1>2 DEF http_rest_post
  <2>2. call' \in Rest /\ ByTask' /\ call'.uri = uri
    BY <2>1, RequestAssumption DEF Rest, ByTask, RequestMethods
  <2> QED BY <2>1, <2>2 DEF RequestInv, RequestLabels, Calling, Progress, Holding, GivesBack
<1> QED BY <1>1, <1>2, RequestAssumption DEF RequestMethods

\* The connection.
LEMMA ConnectStep ==
  ASSUME RequestInv, ConnectTo
  PROVE  RequestInv'
<1>1. pc = "connect" /\ UNCHANGED <<call, url, announced, sent, read_bytes>>
  BY DEF ConnectTo
<1>2. CASE tls' = http_tls_conn(url) /\ held' = held \cup {"tls"} /\ pc' = "compose" /\ UNCHANGED forgotten
  <2>1. held' = {"url", "tls"}
    BY <1>1, <1>2 DEF RequestInv, Holding
  <2> QED BY <1>1, <1>2, <2>1
          DEF RequestInv, RequestLabels, Calling, Progress, Holding, GivesBack, ByTask
<1>3. CASE Forgets
  BY <1>3, IdleStep DEF Forgets, GivesBack
<1> QED BY <1>2, <1>3 DEF ConnectTo

\* The head is composed.
LEMMA ComposeStep ==
  ASSUME RequestInv, Compose
  PROVE  RequestInv'
<1>1. /\ pc = "compose" /\ UNCHANGED <<call, url, tls, sent, read_bytes>>
      /\ held = {"url", "tls"} /\ forgotten \in BOOLEAN
  BY DEF Compose, RequestInv, Holding
<1>2. CASE /\ held' = held \cup Texts /\ pc' = "head"
           /\ announced' = IF ByTask THEN ContentLength ELSE 0
           /\ UNCHANGED forgotten
  BY <1>1, <1>2 DEF RequestInv, RequestLabels, Calling, Progress, Holding, GivesBack, ByTask,
                  ContentLength, Texts
<1>3. CASE Exit(held) /\ UNCHANGED forgotten
  BY <1>1, <1>3, ExitStep, IdleStep
<1>4. CASE pc' = "idle" /\ forgotten' = TRUE
  BY <1>4, IdleStep DEF GivesBack
<1> QED BY <1>2, <1>3, <1>4 DEF Compose

\* The head is sent.
LEMMA HeadStep ==
  ASSUME RequestInv, SendHead
  PROVE  RequestInv'
<1> DEFINE part == [method |-> call.method, path |-> url.path, host |-> url.host]
           next == IF ByTask THEN "fields" ELSE "body"
<1>1. /\ pc = "head" /\ UNCHANGED <<call, url, tls, announced, read_bytes, forgotten>>
      /\ forgotten \in BOOLEAN /\ sent = <<>> /\ sent \in Seq(Sent)
      /\ call \in Client \cup Rest /\ url = url_parse(call.uri) /\ tls = http_tls_conn(url)
      /\ ByTask => announced = ContentLength /\ read_bytes = 0
      /\ held = {"url", "tls"} \cup Texts
  BY DEF SendHead, RequestInv, Calling, Progress, Holding
<1>2. held \ Texts = {"url", "tls"} /\ held \ {"send_buf", "header_buf"} =
        (IF ByTask THEN {"url", "tls", "multipart_buf"} ELSE {"url", "tls"})
  BY <1>1 DEF Texts
<1>3. part \in HeadPart /\ part.path = url.path
  <2>1. call.method \in RequestMethods /\ call.uri \in Uri
    BY <1>1, RequestAssumption DEF Client, Rest
  <2>2. url.path \in Seq(Characters) /\ url.host \in STRING
    BY <1>1, <2>1, PathJoined DEF url_parse, Uri
  <2> QED BY <2>1, <2>2 DEF HeadPart
<1>4. Write(part, 0, Texts, next)
  BY DEF SendHead
<1> HIDE DEF part, next
<1>5. \/ pc' = "idle" /\ GivesBack'
      \/ /\ pc' = next /\ sent' \in Seq(Sent) /\ sent' # <<>> /\ Len(sent') = Len(sent) + 1
         /\ Total(sent', 0 + 0) /\ sent'[1].part = part
  BY <1>1, <1>2, <1>3, <1>4, TotalEmpty, WriteStep
<1>6. CASE pc' = "idle" /\ GivesBack'
  BY <1>1, <1>6, IdleStep
<1>7. CASE pc' = next /\ pc' # "idle" /\ Total(sent', 0 + 0) /\ sent' \in Seq(Sent) /\ sent' # <<>>
           /\ sent'[1].part = part /\ Len(sent') = Len(sent) + 1
  <2>1. held' = (IF ByTask THEN {"url", "tls", "multipart_buf"} ELSE {"url", "tls"})
    BY <1>2, <1>7 DEF SendHead
  <2>2. Len(sent') - 1 = 0 /\ Total(sent', 0) /\ 0 + 0 = 0
    BY <1>1, <1>7
  <2>3. Calling'
    BY <1>1, <1>3, <1>7 DEF Calling, next, ByTask, ContentLength
  <2>4. Progress'
    <3>1. ByTask => 0 =< call.fields
      BY <1>1 DEF Rest, Client, ByTask
    <3> QED BY <1>1, <1>7, <2>2, <3>1 DEF Progress, next, ByTask
  <2>5. Holding'
    BY <1>1, <1>7, <2>1 DEF Holding, next, ByTask
  <2> QED BY <1>1, <1>7, <2>3, <2>4, <2>5 DEF RequestInv, RequestLabels, GivesBack, next
<1> QED BY <1>5, <1>6, <1>7 DEF next

\* What is known of a call in the middle of its body, and what it keeps to be known.
InBody ==
  /\ call \in Client \cup Rest /\ sent \in Seq(Sent) /\ sent # <<>>
  /\ url = url_parse(call.uri) /\ tls = http_tls_conn(url) /\ sent[1].part.path = url.path
  /\ ByTask => announced = ContentLength

\* What is known while the body is sent.
LEMMA BodyKnown ==
  ASSUME RequestInv, pc \notin {"idle", "connect", "compose", "head"}
  PROVE  /\ InBody /\ forgotten \in BOOLEAN
         /\ pc = "body" => ~ ByTask
         /\ pc \in {"fields", "multipart", "header", "buffer", "data", "tail"} =>
              /\ ByTask /\ call \in Rest /\ call.fields \in Nat
              /\ call.file.data_size \in Nat /\ call.file.hdr_size \in Nat
              /\ call.file.data_size % PIECE = 0
<1>1. /\ InBody /\ forgotten \in BOOLEAN /\ (pc = "body" => ~ ByTask)
      /\ pc \in {"fields", "multipart", "header", "buffer", "data", "tail"} => ByTask
  BY DEF RequestInv, Calling, InBody
<1>2. ByTask => call \in Rest
  BY <1>1 DEF InBody, Client, Rest, ByTask
<1>3. call \in Rest => /\ call.fields \in Nat /\ call.file \in Recordings
                       /\ call.file.data_size \in Nat /\ call.file.hdr_size \in Nat
                       /\ call.file.data_size % PIECE = 0
  BY RequestAssumption DEF Rest
<1> QED BY <1>1, <1>2, <1>3

\* What a step of the body has to keep.
LEMMA BodyKept ==
  ASSUME InBody, forgotten \in BOOLEAN, UNCHANGED <<call, url, tls, announced, forgotten>>,
         sent' \in Seq(Sent), sent' # <<>>, sent'[1].part = sent[1].part,
         pc' \in {"body", "fields", "multipart", "header", "buffer", "data", "tail", "response"},
         pc' \in {"fields", "multipart", "header", "buffer", "data", "tail"} <=> ByTask /\ pc' # "response",
         Progress', Holding'
  PROVE  RequestInv'
<1>1. Calling'
  BY DEF Calling, InBody, ByTask, ContentLength
<1> QED BY <1>1 DEF RequestInv, RequestLabels, GivesBack

\* The body of a plain request.
LEMMA SendBodyStep ==
  ASSUME RequestInv, SendBody
  PROVE  RequestInv'
<1>1. /\ pc = "body" /\ UNCHANGED <<call, url, tls, announced, read_bytes, forgotten>>
      /\ held = {"url", "tls"} /\ Total(sent, 0) /\ InBody /\ forgotten \in BOOLEAN /\ ~ ByTask
  BY BodyKnown DEF SendBody, RequestInv, Progress, Holding
<1>2. call.body \in Nat /\ sent \in Seq(Sent) /\ sent # <<>>
  BY <1>1 DEF InBody, Client, Rest, ByTask
<1>3. held \ {} = {"url", "tls"}
  BY <1>1
<1>4. ASSUME pc' = "response", sent' \in Seq(Sent), sent' # <<>>, sent'[1].part = sent[1].part,
             Total(sent', call.body)
      PROVE  RequestInv'
  <2>1. held' = held
    BY <1>4 DEF SendBody
  <2>2. Progress' /\ Holding'
    BY <1>1, <1>4, <2>1 DEF Progress, Holding, ByTask
  <2> QED BY <1>1, <1>4, <2>2, BodyKept
<1>5. CASE call.body # 0
  <2>1. Write("post_data", call.body, {}, "response")
    BY <1>5 DEF SendBody
  <2>2. \/ pc' = "idle" /\ GivesBack'
        \/ /\ pc' = "response" /\ sent' \in Seq(Sent) /\ sent' # <<>>
           /\ Total(sent', 0 + call.body) /\ sent'[1].part = sent[1].part
    <3>1. "post_data" \in HeadPart \cup OtherParts
      BY DEF OtherParts
    <3> QED BY <1>1, <1>2, <1>3, <2>1, <3>1, WriteStep
  <2>3. 0 + call.body = call.body
    BY <1>2
  <2> QED BY <1>1, <1>4, <2>2, <2>3, IdleStep
<1>6. CASE call.body = 0
  <2>1. pc' = "response" /\ sent' = sent
    BY <1>6 DEF SendBody
  <2> QED BY <1>1, <1>2, <1>4, <1>6, <2>1
<1> QED BY <1>5, <1>6

\* A form field.
LEMMA SendFieldStep ==
  ASSUME RequestInv, SendField
  PROVE  RequestInv'
<1>1. /\ pc = "fields" /\ UNCHANGED <<call, url, tls, announced, read_bytes, forgotten>>
      /\ held = {"url", "tls", "multipart_buf"} /\ InBody /\ forgotten \in BOOLEAN /\ ByTask
      /\ Len(sent) - 1 =< call.fields /\ Total(sent, Len(sent) - 1)
      /\ call.fields \in Nat /\ read_bytes = 0
  BY BodyKnown DEF SendField, RequestInv, Progress, Holding
<1>2. sent \in Seq(Sent) /\ sent # <<>> /\ Len(sent) - 1 \in Nat
  BY <1>1, EmptySeq DEF InBody
<1>3. held \ {"multipart_buf"} = {"url", "tls"}
  BY <1>1
<1>4. CASE Len(sent) <= call.fields
  <2>1. Write("field", 1, {"multipart_buf"}, "fields")
    BY <1>4 DEF SendField
  <2>2. "field" \in HeadPart \cup OtherParts
    BY DEF OtherParts
  <2>3. \/ pc' = "idle" /\ GivesBack'
        \/ /\ pc' = "fields" /\ sent' \in Seq(Sent) /\ sent' # <<>> /\ Len(sent') = Len(sent) + 1
           /\ Total(sent', Len(sent) - 1 + 1) /\ sent'[1].part = sent[1].part
    BY <1>1, <1>2, <1>3, <2>1, <2>2, WriteStep
  <2>4. CASE pc' = "fields" /\ sent' \in Seq(Sent) /\ sent' # <<>> /\ Len(sent') = Len(sent) + 1
             /\ Total(sent', Len(sent) - 1 + 1) /\ sent'[1].part = sent[1].part
    <3>1. held' = held
      BY <2>4 DEF SendField
    <3>2. Len(sent') - 1 = Len(sent) - 1 + 1 /\ Len(sent') - 1 =< call.fields
      BY <1>2, <1>4, <2>4
    <3>3. Progress' /\ Holding'
      BY <1>1, <2>4, <3>1, <3>2 DEF Progress, Holding
    <3> QED BY <1>1, <2>4, <3>3, BodyKept
  <2> QED BY <1>1, <2>3, <2>4, IdleStep
<1>5. CASE ~ Len(sent) <= call.fields
  <2>1. pc' = "multipart" /\ sent' = sent /\ held' = held
    BY <1>5 DEF SendField
  <2>2. Len(sent) - 1 = call.fields
    BY <1>1, <1>2, <1>5
  <2>3. Progress' /\ Holding'
    BY <1>1, <2>1, <2>2 DEF Progress, Holding
  <2> QED BY <1>1, <1>2, <2>1, <2>3, BodyKept
<1> QED BY <1>4, <1>5

\* The head of the file.
LEMMA SendMultipartStep ==
  ASSUME RequestInv, SendMultipart
  PROVE  RequestInv'
<1>1. /\ pc = "multipart" /\ UNCHANGED <<call, url, tls, announced, read_bytes, forgotten>>
      /\ held = {"url", "tls", "multipart_buf"} /\ InBody /\ forgotten \in BOOLEAN /\ ByTask
      /\ Total(sent, call.fields) /\ call.fields \in Nat /\ read_bytes = 0
  BY BodyKnown DEF SendMultipart, RequestInv, Progress, Holding
<1>2. sent \in Seq(Sent) /\ sent # <<>> /\ held \ {"multipart_buf"} = {"url", "tls"}
  BY <1>1 DEF InBody
<1>3. Write("multipart", 1, {"multipart_buf"}, "header") /\ "multipart" \in HeadPart \cup OtherParts
  BY DEF SendMultipart, OtherParts
<1>4. \/ pc' = "idle" /\ GivesBack'
      \/ /\ pc' = "header" /\ sent' \in Seq(Sent) /\ sent' # <<>>
         /\ Total(sent', call.fields + 1) /\ sent'[1].part = sent[1].part
  BY <1>1, <1>2, <1>3, WriteStep
<1>5. CASE pc' = "header" /\ sent' \in Seq(Sent) /\ sent' # <<>>
           /\ Total(sent', call.fields + 1) /\ sent'[1].part = sent[1].part
  <2>1. held' = {"url", "tls"}
    BY <1>2, <1>5 DEF SendMultipart
  <2>2. Progress' /\ Holding'
    BY <1>1, <1>5, <2>1 DEF Progress, Holding
  <2> QED BY <1>1, <1>5, <2>2, BodyKept
<1> QED BY <1>1, <1>4, <1>5, IdleStep

\* The header of the recording.
LEMMA SendHeaderStep ==
  ASSUME RequestInv, SendHeader
  PROVE  RequestInv'
<1> DEFINE n == call.fields + 1 + call.file.hdr_size
<1>1. /\ pc = "header" /\ UNCHANGED <<call, url, tls, announced, read_bytes, forgotten>>
      /\ held = {"url", "tls"} /\ InBody /\ forgotten \in BOOLEAN /\ ByTask
      /\ Total(sent, call.fields + 1) /\ call.fields + 1 \in Nat /\ call.file.hdr_size \in Nat
      /\ read_bytes = 0
  BY BodyKnown DEF SendHeader, RequestInv, Progress, Holding
<1>2. sent \in Seq(Sent) /\ sent # <<>> /\ held \ {} = {"url", "tls"}
  BY <1>1 DEF InBody
<1>3. ASSUME pc' = "buffer", sent' \in Seq(Sent), sent' # <<>>, sent'[1].part = sent[1].part,
             Total(sent', n)
      PROVE  RequestInv'
  <2>1. held' = held
    BY <1>3 DEF SendHeader
  <2>2. Progress' /\ Holding'
    BY <1>1, <1>3, <2>1 DEF Progress, Holding
  <2> QED BY <1>1, <1>3, <2>2, BodyKept
<1>4. CASE call.file.hdr_size # 0
  <2>1. Write("header", call.file.hdr_size, {}, "buffer") /\ "header" \in HeadPart \cup OtherParts
    BY <1>4 DEF SendHeader, OtherParts
  <2>2. \/ pc' = "idle" /\ GivesBack'
        \/ /\ pc' = "buffer" /\ sent' \in Seq(Sent) /\ sent' # <<>>
           /\ Total(sent', n) /\ sent'[1].part = sent[1].part
    BY <1>1, <1>2, <2>1, WriteStep
  <2> QED BY <1>1, <1>3, <2>2, IdleStep
<1>5. CASE call.file.hdr_size = 0
  <2>1. pc' = "buffer" /\ sent' = sent /\ n = call.fields + 1
    BY <1>1, <1>5 DEF SendHeader
  <2> QED BY <1>1, <1>2, <1>3, <2>1
<1> QED BY <1>4, <1>5

\* A buffer of the recording comes.
LEMMA GetBufferStep ==
  ASSUME RequestInv, GetBuffer
  PROVE  RequestInv'
<1> DEFINE n == call.fields + 1 + call.file.hdr_size
<1>1. /\ pc = "buffer" /\ UNCHANGED <<call, url, tls, announced, sent, read_bytes, forgotten>>
      /\ held = {"url", "tls"} /\ InBody /\ forgotten \in BOOLEAN /\ ByTask
      /\ Total(sent, n) /\ n \in Nat /\ call.file.data_size \in Nat /\ read_bytes = 0
  BY BodyKnown DEF GetBuffer, RequestInv, Progress, Holding
<1>2. sent \in Seq(Sent) /\ sent # <<>>
  BY <1>1 DEF InBody
<1>3. CASE held' = held \cup {"read_buf"} /\ pc' = "data"
  <2>1. read_bytes' = 0 /\ 0 % PIECE = 0 /\ n + 0 = n /\ n' = n /\ 0 =< call.file.data_size
    BY <1>1 DEF PIECE
  <2>2. Total(sent, n + 0)
    BY <1>1, <2>1
  <2>3. Holding'
    BY <1>1, <1>3 DEF Holding
  <2>4. Progress'
    BY <1>1, <1>3, <2>1, <2>2 DEF Progress
  <2> QED BY <1>1, <1>2, <1>3, <2>3, <2>4, BodyKept
<1>4. CASE Exit(held)
  BY <1>1, <1>4, ExitStep, IdleStep
<1> QED BY <1>3, <1>4 DEF GetBuffer

\* It is sent.
LEMMA SendDataStep ==
  ASSUME RequestInv, SendData
  PROVE  RequestInv'
<1> DEFINE n == call.fields + 1 + call.file.hdr_size
<1>1. /\ pc = "data" /\ UNCHANGED <<call, url, tls, announced, forgotten>>
      /\ held = {"url", "tls", "read_buf"} /\ InBody /\ forgotten \in BOOLEAN /\ ByTask
      /\ Total(sent, n + read_bytes) /\ n \in Nat /\ read_bytes \in Nat
      /\ call.file.data_size \in Nat /\ call.file.data_size % PIECE = 0
      /\ read_bytes % PIECE = 0 /\ read_bytes =< call.file.data_size
  BY BodyKnown DEF SendData, RequestInv, Progress, Holding
<1>2. sent \in Seq(Sent) /\ sent # <<>> /\ held \ {"read_buf"} = {"url", "tls"}
  BY <1>1 DEF InBody
<1>3. CASE read_bytes < call.file.data_size
  <2>1. \/ Write("data", PIECE, {"read_buf"}, "data")
        \/ Exit(held \ {"read_buf"})
    BY <1>3 DEF SendData
  <2>2. read_bytes' = read_bytes + PIECE
    BY <1>3 DEF SendData
  <2>3. /\ read_bytes' \in Nat /\ read_bytes' % PIECE = 0 /\ read_bytes' =< call.file.data_size
        /\ n + read_bytes + PIECE = n + read_bytes' /\ PIECE \in Nat /\ n + read_bytes \in Nat
    BY <1>1, <1>3, <2>2 DEF PIECE
  <2>4. CASE Write("data", PIECE, {"read_buf"}, "data")
    <3>1. "data" \in HeadPart \cup OtherParts
      BY DEF OtherParts
    <3>2. \/ pc' = "idle" /\ GivesBack'
          \/ /\ pc' = "data" /\ sent' \in Seq(Sent) /\ sent' # <<>>
             /\ Total(sent', n + read_bytes + PIECE) /\ sent'[1].part = sent[1].part
      BY <1>1, <1>2, <2>3, <2>4, <3>1, WriteStep
    <3>3. CASE pc' = "data" /\ sent' \in Seq(Sent) /\ sent' # <<>>
               /\ Total(sent', n + read_bytes + PIECE) /\ sent'[1].part = sent[1].part
      <4>1. held' = held
        BY <3>3 DEF SendData
      <4>2. Total(sent', n + read_bytes')
        BY <2>3, <3>3
      <4>3. Progress' /\ Holding'
        BY <1>1, <2>3, <3>3, <4>1, <4>2 DEF Progress, Holding
      <4> QED BY <1>1, <3>3, <4>3, BodyKept
    <3> QED BY <1>1, <3>2, <3>3, IdleStep
  <2>5. CASE Exit(held \ {"read_buf"})
    BY <1>1, <1>2, <2>5, ExitStep, IdleStep
  <2> QED BY <2>1, <2>4, <2>5
<1>4. CASE ~ read_bytes < call.file.data_size
  <2>1. pc' = "tail" /\ sent' = sent /\ held' = held /\ read_bytes = call.file.data_size
    BY <1>1, <1>4 DEF SendData
  <2>2. Progress' /\ Holding'
    BY <1>1, <2>1 DEF Progress, Holding
  <2> QED BY <1>1, <1>2, <2>1, <2>2, BodyKept
<1> QED BY <1>3, <1>4

\* The end of the form.
LEMMA SendTailStep ==
  ASSUME RequestInv, SendTail
  PROVE  RequestInv'
<1> DEFINE n == call.fields + 1 + call.file.hdr_size + call.file.data_size
<1>1. /\ pc = "tail" /\ UNCHANGED <<call, url, tls, announced, read_bytes, forgotten>>
      /\ held = {"url", "tls", "read_buf"} /\ InBody /\ forgotten \in BOOLEAN /\ ByTask
      /\ Total(sent, n) /\ n \in Nat /\ n + 1 = ContentLength
  BY BodyKnown DEF SendTail, RequestInv, Progress, Holding, ContentLength
<1>2. sent \in Seq(Sent) /\ sent # <<>> /\ held \ {"read_buf"} = {"url", "tls"}
  BY <1>1 DEF InBody
<1>3. Write("tail", 1, {"read_buf"}, "response") /\ "tail" \in HeadPart \cup OtherParts
  BY DEF SendTail, OtherParts
<1>4. \/ pc' = "idle" /\ GivesBack'
      \/ /\ pc' = "response" /\ sent' \in Seq(Sent) /\ sent' # <<>>
         /\ Total(sent', n + 1) /\ sent'[1].part = sent[1].part
  BY <1>1, <1>2, <1>3, WriteStep
<1>5. CASE pc' = "response" /\ sent' \in Seq(Sent) /\ sent' # <<>>
           /\ Total(sent', n + 1) /\ sent'[1].part = sent[1].part
  <2>1. held' = {"url", "tls"}
    BY <1>2, <1>5 DEF SendTail
  <2>2. Total(sent', ContentLength) /\ ContentLength' = ContentLength /\ ByTask'
    BY <1>1, <1>5 DEF ContentLength, ByTask
  <2>3. Progress' /\ Holding'
    BY <1>5, <2>1, <2>2 DEF Progress, Holding
  <2> QED BY <1>1, <1>5, <2>3, BodyKept
<1> QED BY <1>1, <1>4, <1>5, IdleStep

\* The response.
LEMMA ResponseStep ==
  ASSUME RequestInv, Response
  PROVE  RequestInv'
<1>1. /\ Exit(held) /\ held = {"url", "tls"} /\ call' = call /\ forgotten' \in BOOLEAN
  BY DEF Response, RequestInv, Holding
<1> QED BY <1>1, ExitStep, IdleStep

\* Every step keeps it.
LEMMA RequestStep == ASSUME RequestInv, [RequestNext]_requestVars PROVE RequestInv'
<1>1. CASE UNCHANGED requestVars
  BY <1>1 DEF requestVars, RequestInv, Calling, Progress, Holding, GivesBack, ByTask, Texts,
              ContentLength
<1>2. CASE RequestNext
  BY <1>2, CallStep, ConnectStep, ComposeStep, HeadStep, SendBodyStep, SendFieldStep,
     SendMultipartStep, SendHeaderStep, GetBufferStep, SendDataStep, SendTailStep, ResponseStep
     DEF RequestNext
<1> QED BY <1>1, <1>2

\* At the end of a request all that was to be sent has been sent, to the right place.
LEMMA RequestInvWhole == ASSUME RequestInv PROVE RequestWhole
<1>1. SUFFICES ASSUME pc = "response" PROVE AsksAsMeant
  BY DEF RequestWhole, RequestInv, AsksAsMeant
<1>2. /\ call \in Client \cup Rest /\ call.uri \in Uri
      /\ url = url_parse(call.uri) /\ tls = http_tls_conn(url)
      /\ sent[1].part.path = url.path /\ sent \in Seq(Sent)
      /\ Total(sent, IF ByTask THEN ContentLength ELSE call.body)
      /\ ByTask => announced = ContentLength
  BY <1>1, RequestAssumption DEF RequestInv, Calling, Progress, Client, Rest
<1>3. /\ tls.host = call.uri.host /\ tls.secure = (call.uri.schema = "https")
      /\ tls.port = url_get_port(call.uri) /\ url.path = url_get_path(call.uri)
  BY <1>2 DEF http_tls_conn, url_parse
<1>4. /\ tls.port \in {call.uri.port, IF tls.secure THEN 443 ELSE 80} \ {0}
      /\ call.uri.port # 0 => tls.port = call.uri.port
  <2>1. tls.port = IF call.uri.port # 0 THEN call.uri.port ELSE IF tls.secure THEN 443 ELSE 80
    BY <1>3, Zenon DEF url_get_port
  <2>2. CASE call.uri.port # 0
    BY <2>1, <2>2
  <2>3. CASE call.uri.port = 0
    BY <2>1, <2>3
  <2> QED BY <2>2, <2>3
<1>5. BytesSent = IF ByTask THEN announced ELSE call.body
  BY <1>2, TotalBytes
<1>6. sent[1].part.path = (IF call.uri.path = <<>> THEN <<"/">> ELSE call.uri.path)
                          \o (IF call.uri.query = <<>> THEN <<>> ELSE <<"?">> \o call.uri.query)
  BY <1>2, <1>3, PathJoined
<1> QED BY <1>3, <1>4, <1>5, <1>6 DEF AsksAsMeant

(***************************************************************************)
(* Every request asks the host, the port and the path with the query that  *)
(* were meant, a recording has as many bytes as were announced, and each   *)
(* way out of http_tls_request() and of the REST task but the two that     *)
(* forget gives back what was taken: for every set of addresses, bodies,   *)
(* form fields and recordings, and whatever may fail.                      *)
(***************************************************************************)
THEOREM RequestWholeAlways == RequestSpec => []RequestWhole
<1>1. RequestInit => RequestInv
  BY DEF RequestInit, RequestInv, RequestLabels, Calling, Progress, Holding, GivesBack, Nothing
<1>2. RequestInv /\ [RequestNext]_requestVars => RequestInv'
  BY RequestStep
<1>3. RequestInv => RequestWhole
  BY RequestInvWhole
<1> QED BY <1>1, <1>2, <1>3, PTL DEF RequestSpec

----------------------------------------------------------------------------
(* The motion sensor under imu_task(): MPU6050_initialize() has woken the  *)
(* sensor and set its range to 4 g before a reading is taken, so that a    *)
(* reading scales back to the acceleration of the board; the calibration   *)
(* has added up as many of them as it has counted.                         *)

\* With no transfer lost, MPU6050_initialize() wakes the sensor with its second call and sets 4 g,
\* the range that the readings are scaled with, with its last.
SensorSet ==
  /\ DOMAIN regs = SensorRegisters /\ 3 \notin regs[28] /\ 4 \notin regs[28]
  /\ step \in 2..7 => 6 \notin regs[107]

SensorReady ==
  DOMAIN regs = SensorRegisters /\ 3 \in regs[28] /\ 4 \notin regs[28] /\ 6 \notin regs[107]

Scaled(n) == [x |-> n * board.x, z |-> n * board.z]

\* The calibration has added up what the board was at, as often as it has counted.
Calibrating ==
  /\ caliFlag => taken \in 0..Averaged - 1 /\ sum = Scaled(taken) /\ (step # Running => taken = 0)
  /\ ~caliFlag =>
       /\ step = Running /\ adc = [x |-> Counts(board.x), z |-> Counts(board.z)]
       /\ offset = [x |-> Averaged * board.x, z |-> Averaged * board.z - OneG * Averaged]

ImuInv ==
  /\ half \in {"api", "imu"} /\ failures \in Nat
  /\ half = "imu" =>
       /\ step \in 0..7 \cup {Running} /\ caliFlag \in BOOLEAN
       /\ board.x \in Nat /\ board.z \in Nat /\ board = [x |-> board.x, z |-> board.z]
       /\ failures = 0 =>
            /\ step \in 1..7 => SensorSet
            /\ step = 0 => DOMAIN regs = SensorRegisters
            /\ step = Running => SensorReady
            /\ Calibrating

\* The values that the setters of MPU6050_initialize() are given, bit by bit.
LEMMA InitBits == ByteBits(1) = {0} /\ ByteBits(0) = {}
<1>1. 2^0 = 1 /\ 2^1 = 2 /\ 2^2 = 4 /\ 2^3 = 8 /\ 2^4 = 16 /\ 2^5 = 32 /\ 2^6 = 64 /\ 2^7 = 128
  OBVIOUS
<1>2. Byte = {0, 1, 2, 3, 4, 5, 6, 7}
  BY DEF Byte
<1>3. /\ 1 \div 1 = 1 /\ 1 \div 2 = 0 /\ 1 \div 4 = 0 /\ 1 \div 8 = 0 /\ 1 \div 16 = 0 /\ 1 \div 32 = 0
      /\ 1 \div 64 = 0 /\ 1 \div 128 = 0 /\ 1 % 2 = 1 /\ 0 % 2 = 0
  OBVIOUS
<1>4. /\ 0 \div 1 = 0 /\ 0 \div 2 = 0 /\ 0 \div 4 = 0 /\ 0 \div 8 = 0 /\ 0 \div 16 = 0 /\ 0 \div 32 = 0
      /\ 0 \div 64 = 0 /\ 0 \div 128 = 0
  OBVIOUS
<1>5. ASSUME NEW b \in Byte
      PROVE  (0 \div 2^b) % 2 = 0 /\ ((1 \div 2^b) % 2 = 1 <=> b = 0)
  <2>1. CASE b = 0
    BY <1>1, <1>3, <1>4, <2>1
  <2>2. CASE b = 1
    BY <1>1, <1>3, <1>4, <2>2
  <2>3. CASE b = 2
    BY <1>1, <1>3, <1>4, <2>3
  <2>4. CASE b = 3
    BY <1>1, <1>3, <1>4, <2>4
  <2>5. CASE b = 4
    BY <1>1, <1>3, <1>4, <2>5
  <2>6. CASE b = 5
    BY <1>1, <1>3, <1>4, <2>6
  <2>7. CASE b = 6
    BY <1>1, <1>3, <1>4, <2>7
  <2>8. CASE b = 7
    BY <1>1, <1>3, <1>4, <2>8
  <2> QED BY <1>2, <1>5, <2>1, <2>2, <2>3, <2>4, <2>5, <2>6, <2>7, <2>8
<1>6. {b \in Byte : (1 \div 2^b) % 2 = 1} = {0}
  BY <1>2, <1>5
<1>7. {b \in Byte : (0 \div 2^b) % 2 = 1} = {}
  BY <1>5
<1> QED BY <1>6, <1>7 DEF ByteBits

\* The call that wakes the sensor clears the bit, no call sets it, and the range is bit 3 alone.
LEMMA InitFields ==
  /\ InitCalls[1] = <<<<107, 6, 1>>, 0>>
  /\ InitCalls[2] = <<<<107, 5, 1>>, 0>>
  /\ InitCalls[3] = <<<<25, 7, 8>>, 1>>
  /\ InitCalls[4] = <<<<107, 2, 3>>, 1>>
  /\ InitCalls[5] = <<<<26, 2, 3>>, 2>>
  /\ InitCalls[6] = <<<<27, 4, 2>>, 3>>
  /\ InitCalls[7] = <<<<28, 4, 2>>, 1>>
BY DEF InitCalls, PowerManagement, GyroConfig, GyroRange, AccelConfig, Field, Whole

\* The next write of the initialization.
LEMMA InitializeStep == ASSUME ImuInv, Initialize PROVE ImuInv'
<1> DEFINE f == InitCalls[step][1]
           v == InitCalls[step][2]
<1>1. /\ half = "imu" /\ half' = half /\ failures' = failures /\ board' = board /\ caliFlag' = caliFlag
      /\ sum' = sum /\ taken' = taken /\ adc' = adc /\ offset' = offset /\ step \in 0..7
      /\ step' = IF step = 7 THEN Running ELSE step + 1
  BY DEF Initialize, ImuInv, apiVars, Running
<1>2. SUFFICES ASSUME failures = 0
               PROVE  /\ step' \in 1..7 => SensorSet'
                      /\ step' = Running => SensorReady'
                      /\ Calibrating'
  BY <1>1 DEF ImuInv, Running
<1>3. caliFlag /\ taken = 0 /\ sum = Scaled(0) /\ board.x \in Nat /\ board.z \in Nat /\ Averaged \in Nat \ {0}
  BY <1>1, <1>2, SensorAssumption DEF ImuInv, Calibrating, Running
<1>4. Calibrating'
  BY <1>1, <1>3 DEF Calibrating, Scaled
<1>5. CASE step = 0
  <2>1. regs' = AfterReset /\ step' = 1
    BY <1>1, <1>5 DEF Initialize
  <2>2. DOMAIN regs' = SensorRegisters /\ regs'[28] = {}
    BY <2>1 DEF AfterReset, SensorRegisters
  <2> QED BY <1>4, <2>1, <2>2 DEF SensorSet, Running
<1>6. CASE step \in 1..7
  <2>1. DOMAIN regs = SensorRegisters /\ 3 \notin regs[28] /\ 4 \notin regs[28]
        /\ (step \in 2..7 => 6 \notin regs[107])
    BY <1>1, <1>2, <1>6 DEF ImuInv, SensorSet
  <2>2. regs' = [regs EXCEPT ![f[1]] = PutField(@, f, v)]
    BY <1>1, <1>6 DEF Initialize
  <2>3. CASE step = 7
    <3>1. f = <<28, 4, 2>> /\ v = 1
      BY <2>3, InitFields
    <3>2. /\ DOMAIN regs' = SensorRegisters /\ regs'[28] = PutField(regs[28], <<28, 4, 2>>, 1)
          /\ regs'[107] = regs[107]
      BY <2>1, <2>2, <3>1 DEF SensorRegisters
    <3>3. 3 \in regs'[28] /\ 4 \notin regs'[28]
      BY <3>2, InitBits DEF PutField, BitsOf
    <3> QED BY <1>1, <1>4, <2>1, <2>3, <3>2, <3>3 DEF SensorReady, Running
  <2>4. CASE step \in 1..6
    <3>1. step' = step + 1 /\ step' \in 2..7 /\ step' # Running
      BY <1>1, <2>4 DEF Running
    <3>2. f[1] # 28 /\ f[1] \in SensorRegisters
      BY <2>4, InitFields DEF SensorRegisters
    <3>3. DOMAIN regs' = SensorRegisters /\ regs'[28] = regs[28]
      <4>1. f[1] \in DOMAIN regs /\ 28 \in DOMAIN regs
        BY <2>1, <3>2 DEF SensorRegisters
      <4> QED BY <2>1, <2>2, <3>2, <4>1
    <3>4. 6 \notin regs'[107]
      <4>1. 107 \in DOMAIN regs
        BY <2>1 DEF SensorRegisters
      <4>2. CASE step = 1
        <5>1. regs'[107] = PutField(regs[107], <<107, 6, 1>>, 0)
          BY <2>2, <4>1, <4>2, InitFields
        <5> QED BY <5>1 DEF PutField, BitsOf
      <4>3. CASE step = 2
        <5>1. regs'[107] = PutField(regs[107], <<107, 5, 1>>, 0)
          BY <2>2, <4>1, <4>3, InitFields
        <5>2. 6 \in PutField(regs[107], <<107, 5, 1>>, 0) <=> 6 \in regs[107]
          BY DEF PutField, BitsOf
        <5> QED BY <2>1, <4>3, <5>1, <5>2
      <4>4. CASE step = 4
        <5>1. regs'[107] = PutField(regs[107], <<107, 2, 3>>, 1)
          BY <2>2, <4>1, <4>4, InitFields
        <5>2. 6 \in PutField(regs[107], <<107, 2, 3>>, 1) <=> 6 \in regs[107]
          BY DEF PutField, BitsOf
        <5> QED BY <2>1, <4>4, <5>1, <5>2
      <4>5. CASE step \in {3, 5, 6}
        <5>1. f[1] # 107
          BY <4>5, InitFields
        <5> QED BY <2>1, <2>2, <4>1, <4>5, <5>1
      <4> QED BY <2>4, <4>2, <4>3, <4>4, <4>5
    <3> QED BY <1>4, <2>1, <3>1, <3>3, <3>4 DEF SensorSet
  <2> QED BY <1>6, <2>3, <2>4
<1> QED BY <1>1, <1>5, <1>6

\* A reading of the ready sensor, scaled, is the acceleration again.
LEMMA ReadBack == ASSUME SensorReady, NEW a \in Nat PROVE Counts(a) \in Nat /\ Raw(Counts(a)) = a
<1>1. Counts(a) = (16 * a) \div (2^1 * 4^0)
  BY DEF SensorReady, Counts
<1>2. 2^1 * 4^0 = 2
  OBVIOUS
<1>3. Counts(a) = 8 * a
  BY <1>1, <1>2
<1> QED BY <1>3 DEF Raw, SensorMaxG

\* The board is turned.
LEMMA TurnStep == ASSUME ImuInv, Turn PROVE ImuInv'
<1>1. /\ half = "imu" /\ half' = half /\ board' = board /\ regs' = regs /\ step' = step /\ step = Running
      /\ board.x \in Nat /\ board.z \in Nat /\ board = [x |-> board.x, z |-> board.z]
      /\ failures \in Nat /\ failures' \in {failures, failures + 1} /\ caliFlag' \in BOOLEAN
      /\ Averaged \in Nat \ {0} /\ OneG \in Nat
  BY SensorAssumption DEF ImuInv, Turn, Fails, apiVars
<1>2. SUFFICES ASSUME failures' = 0 PROVE Calibrating' /\ SensorReady'
  BY <1>1 DEF ImuInv, Running
<1>3. /\ failures = 0 /\ SensorReady /\ SensorReady' /\ Calibrating
      /\ adc' = [axis \in DOMAIN board |-> Counts(board[axis])]
  BY <1>1, <1>2 DEF ImuInv, SensorReady, Turn, Fails, Running
<1>4. adc' = [x |-> Counts(board.x), z |-> Counts(board.z)]
  <2> DEFINE bx == board.x
             bz == board.z
  <2>1. board = [x |-> bx, z |-> bz]
    BY <1>1
  <2> HIDE DEF bx, bz
  <2>2. DOMAIN board = {"x", "z"}
    BY <2>1
  <2> QED BY <1>3, <2>2
<1>5. Counts(board.x)' = Counts(board.x) /\ Counts(board.z)' = Counts(board.z)
  BY <1>1 DEF Counts
<1>6. CASE ~caliFlag
  <2>1. caliFlag' = caliFlag /\ offset' = offset
    BY <1>6 DEF Turn
  <2> QED BY <1>1, <1>3, <1>4, <1>5, <1>6, <2>1 DEF Calibrating
<1>7. CASE caliFlag
  <2> DEFINE total == [axis \in DOMAIN sum |-> sum[axis] + Raw(adc'[axis])]
             tx == taken * board.x + board.x
             tz == taken * board.z + board.z
  <2>1. taken \in 0..Averaged - 1 /\ sum = [x |-> taken * board.x, z |-> taken * board.z]
    BY <1>3, <1>7 DEF Calibrating, Scaled
  <2>2. Raw(adc'.x) = board.x /\ Raw(adc'.z) = board.z
    BY <1>1, <1>3, <1>4, ReadBack
  <2>3. total = [x |-> tx, z |-> tz]
    <3> DEFINE sx == taken * board.x
               sz == taken * board.z
    <3>1. sum = [x |-> sx, z |-> sz]
      BY <2>1
    <3> HIDE DEF sx, sz
    <3>2. total = [x |-> sx + board.x, z |-> sz + board.z]
      BY <2>2, <3>1
    <3> QED BY <3>2 DEF sx, sz
  <2>4. tx = (taken + 1) * board.x /\ tz = (taken + 1) * board.z
    BY <1>1, <2>1
  <2>5. IF Calibrated(taken + 1)
        THEN /\ offset' = [total EXCEPT !.z = @ - OneG * Averaged]
             /\ sum' = [x |-> 0, z |-> 0] /\ taken' = 0 /\ caliFlag' = FALSE
        ELSE sum' = total /\ taken' = taken + 1 /\ UNCHANGED <<offset, caliFlag>>
    BY <1>7 DEF Turn
  <2> HIDE DEF total
  <2>6. CASE Calibrated(taken + 1)
    <3>1. taken + 1 = Averaged
      BY <1>1, <2>1, <2>6 DEF Calibrated
    <3>2. total = [x |-> Averaged * board.x, z |-> Averaged * board.z]
      BY <2>3, <2>4, <3>1
    <3>3. offset' = [x |-> Averaged * board.x, z |-> Averaged * board.z - OneG * Averaged] /\ ~caliFlag'
      <4> DEFINE ax == Averaged * board.x
                 az == Averaged * board.z
                 g == OneG * Averaged
      <4>1. total = [x |-> ax, z |-> az] /\ offset' = [total EXCEPT !.z = @ - g] /\ ~caliFlag'
        BY <2>5, <2>6, <3>2
      <4> HIDE DEF ax, az, g
      <4>2. offset' = [x |-> ax, z |-> az - g]
        BY <4>1
      <4> QED BY <4>1, <4>2 DEF ax, az, g
    <3> QED BY <1>1, <1>3, <1>4, <1>5, <3>3 DEF Calibrating
  <2>7. CASE ~Calibrated(taken + 1)
    <3>1. taken + 1 \in 0..Averaged - 1 /\ taken' = taken + 1 /\ caliFlag' /\ sum' = total
      BY <1>1, <1>7, <2>1, <2>5, <2>7 DEF Calibrated
    <3>2. total = [x |-> (taken + 1) * board.x, z |-> (taken + 1) * board.z]
      BY <2>3, <2>4
    <3>3. Scaled(taken)' = [x |-> taken' * board.x, z |-> taken' * board.z]
      BY <1>1 DEF Scaled
    <3>4. sum' = Scaled(taken)'
      BY <3>1, <3>2, <3>3, Zenon
    <3>5. taken' \in (0..Averaged - 1)' /\ step' = Running /\ caliFlag' = TRUE
      BY <1>1, <3>1
    <3> QED BY <1>3, <3>4, <3>5 DEF Calibrating
  <2> QED BY <2>6, <2>7
<1> QED BY <1>3, <1>6, <1>7, <1>1 DEF ImuInv

\* Every step keeps it.
LEMMA ImuStep == ASSUME ImuInv, [SensorNext]_sensorVars PROVE ImuInv'
<1>1. CASE UNCHANGED sensorVars
  BY <1>1 DEF sensorVars, ImuInv, SensorSet, SensorReady, Calibrating, Scaled, Counts
<1>2. CASE half = "api" /\ half' = half /\ failures' \in {failures, failures + 1}
  BY <1>2 DEF ImuInv
<1>3. CASE InitFails
  <2>1. /\ half' = half /\ failures' = failures + 1 /\ step' \in 0..7 \cup {Running}
        /\ caliFlag' = caliFlag /\ board' = board
    BY <1>3 DEF InitFails, Fails, ImuInv, apiVars, Running
  <2> QED BY <2>1 DEF ImuInv
<1>4. ASSUME NEW s \in DOMAIN Settings, NEW v \in SettingValues(Settings[s]),
             Set(s, v) \/ SetUnread(s, v) \/ SetRefused(s, v) \/ SetUnsent(s, v)
      PROVE  ImuInv'
  BY <1>2, <1>4 DEF Set, SetUnread, SetRefused, SetUnsent, Called, Fails
<1>5. CASE SetIntEnabled \/ SetOutputByte \/ SetOffset \/ Trigger \/ Raise \/ Reset
  BY <1>2, <1>5 DEF SetIntEnabled, SetOutputByte, SetOffset, Trigger, Raise, Reset, Called
<1> QED BY <1>1, <1>3, <1>4, <1>5, InitializeStep, TurnStep DEF SensorNext

(***************************************************************************)
(* With no transfer lost, imu_task() sees the acceleration of the board in *)
(* the unit of its scale, and a board that has stayed where it was is at   *)
(* rest and level once it is calibrated: for every number of readings that *)
(* are averaged and every unit of g.                                       *)
(***************************************************************************)
THEOREM LevelledAlways == SensorSpec => []Levelled
<1>1. SensorInit => ImuInv
  <2>1. SUFFICES ASSUME SensorInit, half = "imu"
                 PROVE  /\ board.x \in Nat /\ board.z \in Nat /\ board = [x |-> board.x, z |-> board.z]
                        /\ DOMAIN regs = SensorRegisters /\ Calibrating
    BY DEF SensorInit, ImuInv, Running
  <2>2. board \in [x : {0, 2}, z : {OneG, OneG + 4}] /\ DOMAIN regs = SensorRegisters
    BY <2>1 DEF SensorInit
  <2>3. /\ caliFlag /\ taken = 0 /\ sum = [x |-> 0, z |-> 0] /\ board.x \in Nat /\ board.z \in Nat
        /\ Averaged - 1 \in Nat
    BY <2>1, <2>2, SensorAssumption DEF SensorInit
  <2> QED BY <2>2, <2>3 DEF Calibrating, Scaled
<1>2. ImuInv /\ [SensorNext]_sensorVars => ImuInv'
  BY ImuStep
<1>3. ImuInv => Levelled
  <2>1. SUFFICES ASSUME ImuInv, half = "imu", failures = 0, ~caliFlag
                 PROVE  accRaw = board /\ accb = [x |-> 0, z |-> OneG * Averaged]
    BY DEF Levelled
  <2> DEFINE bx == board.x
             bz == board.z
             ax == Averaged * bx
             az == Averaged * bz
             g == OneG * Averaged
  <2>2. /\ SensorReady /\ adc = [x |-> Counts(bx), z |-> Counts(bz)] /\ bx \in Nat /\ bz \in Nat
        /\ board = [x |-> bx, z |-> bz] /\ offset = [x |-> ax, z |-> az - g]
    BY <2>1 DEF ImuInv, Calibrating, Running
  <2>3. ax \in Nat /\ az \in Nat /\ g \in Nat /\ bx * Averaged = ax /\ bz * Averaged = az
    BY <2>2, SensorAssumption
  <2>4. Raw(Counts(bx)) = bx /\ Raw(Counts(bz)) = bz
    BY <2>2, ReadBack
  <2> HIDE DEF bx, bz, ax, az, g
  <2>5. accRaw = [x |-> bx, z |-> bz]
    BY <2>2, <2>4 DEF accRaw
  <2>6. accb = [x |-> bx * Averaged - ax, z |-> bz * Averaged - (az - g)]
    BY <2>2, <2>5 DEF accb
  <2>7. accb = [x |-> 0, z |-> g]
    BY <2>3, <2>6
  <2> QED BY <2>2, <2>5, <2>7 DEF g
<1> QED BY <1>1, <1>2, <1>3, PTL DEF SensorSpec

----------------------------------------------------------------------------
(* The registers of the motion sensor.                                     *)

\* The setting or status that each bit of a register belongs to, <<>> for the bits
\* that reset something and those that nothing uses.
BitOwner(reg, b) ==
  CASE reg = 54 -> <<<<"Slave0Nack", "Slave1Nack", "Slave2Nack", "Slave3Nack", "Slave4Nack", "LostArbitration",
                     "Slave4IsDone", "PassthroughStatus">>[b + 1]>>
    [] reg = 57 -> (IF b \in 6..7 THEN <<>>
                    ELSE <<<<"DMPInt0Status", "DMPInt1Status", "DMPInt2Status", "DMPInt3Status",
                             "DMPInt4Status", "DMPInt5Status">>[b + 1]>>)
    [] reg = 58 -> <<<<"IntDataReadyStatus", "IntDMPStatus", "IntPLLReadyStatus", "IntI2CMasterStatus",
                       "IntFIFOBufferOverflowStatus", "IntZeroMotionStatus", "IntMotionStatus",
                       "IntFreefallStatus">>[b + 1]>>
    [] reg = 97 -> (IF b = 1 THEN <<>>
                    ELSE <<<<"ZeroMotionDetected", "", "ZPosMotionDetected", "ZNegMotionDetected",
                             "YPosMotionDetected", "YNegMotionDetected", "XPosMotionDetected",
                             "XNegMotionDetected">>[b + 1]>>)
    [] reg = 35 -> <<<<"Slave0FIFO", "Slave1FIFO", "Slave2FIFO", "AccelFIFO", "ZGyroFIFO", "YGyroFIFO",
                       "XGyroFIFO", "TempFIFO">>[b + 1]>>
    [] reg = 55 -> <<<<"ClockOutput", "I2CBypass", "FSyncInterrupt", "FSyncInterruptLevel",
                       "InterruptLatchClear", "InterruptLatch", "InterruptDrive", "InterruptMode">>[b + 1]>>
    [] reg = 56 -> <<<<"IntDataReady", "IntDMP", "IntPLLReady", "IntI2CMaster", "IntFIFOBufferOverflow",
                       "IntZeroMotion", "IntMotion", "IntFreefall">>[b + 1]>>
    [] reg = 103 -> <<<<"Slave0Delay", "Slave1Delay", "Slave2Delay", "Slave3Delay", "Slave4Delay", "", "",
                        "ExternalShadowDelay">>[b + 1]>>
    [] reg = 0 -> (IF b = 0 THEN <<"OTPBankValid">> ELSE <<"XGyroOffsetTC">>)
    [] reg = 1 -> (IF b = 7 THEN <<>> ELSE <<"YGyroOffsetTC">>)
    [] reg = 26 -> (IF b > 2 THEN <<"ExternalFrameSync">> ELSE <<"DLPFMode">>)
    [] reg = 28 -> (CASE b = 7 -> <<"AccelXSelfTest">> [] b = 6 -> <<"AccelYSelfTest">>
                      [] b = 5 -> <<"AccelZSelfTest">> [] b \in 3..4 -> <<"FullScaleAccelRange">>
                      [] OTHER -> <<"DHPFMode">>)
    [] reg = 36 -> (CASE b = 7 -> <<"MultiMaster">> [] b = 6 -> <<"WaitForExternalSensor">>
                      [] b = 5 -> <<"Slave3FIFO">> [] b = 4 -> <<"SlaveReadWriteTransition">>
                      [] OTHER -> <<"MasterClockSpeed">>)
    [] reg \in {37, 40, 43, 46} -> <<"Slave", (reg - 37) \div 3, "Address">>
    [] reg \in {38, 41, 44, 47} -> <<"Slave", (reg - 38) \div 3, "Register">>
    [] reg \in {39, 42, 45, 48} ->
         <<"Slave", (reg - 39) \div 3,
           CASE b = 7 -> "Enabled" [] b = 6 -> "WordByteSwap" [] b = 5 -> "WriteMode"
             [] b = 4 -> "WordGroupOffset" [] OTHER -> "DataLength">>
    [] reg = 52 -> (CASE b = 7 -> <<"Slave4Enabled">> [] b = 6 -> <<"Slave4Interrupt">>
                      [] b = 5 -> <<"Slave4WriteMode">> [] OTHER -> <<"Slave4MasterDelay">>)
    [] reg = 105 -> (CASE b \in 4..5 -> <<"AccelerometerPowerOnDelay">>
                       [] b \in 2..3 -> <<"FreefallDetectionCounterDecrement">>
                       [] OTHER -> <<"MotionDetectionCounterDecrement">>)
    [] reg = 106 -> (CASE b = 7 -> <<"DMP">> [] b = 6 -> <<"FIFO">> [] b = 5 -> <<"I2CMasterMode">>
                       [] OTHER -> <<>>)
    [] reg = 107 -> (CASE b = 6 -> <<"Sleep">> [] b = 5 -> <<"WakeCycle">> [] b = 3 -> <<"TempSensorOff">>
                       [] OTHER -> <<"ClockSource">>)
    [] reg = 108 -> (CASE b \in 6..7 -> <<"WakeFrequency">> [] b = 5 -> <<"StandbyXAccel">>
                       [] b = 4 -> <<"StandbyYAccel">> [] b = 3 -> <<"StandbyZAccel">>
                       [] b = 2 -> <<"StandbyXGyro">> [] b = 1 -> <<"StandbyYGyro">>
                       [] OTHER -> <<"StandbyZGyro">>)
    [] reg = 2 -> <<"ZGyroOffsetTC">>
    [] reg = 3 -> <<"XFineGain">>
    [] reg = 4 -> <<"YFineGain">>
    [] reg = 5 -> <<"ZFineGain">>
    [] reg = 25 -> <<"Rate">>
    [] reg = 27 -> <<"FullScaleGyroRange">>
    [] reg = 29 -> <<"FreefallDetectionThreshold">>
    [] reg = 30 -> <<"FreefallDetectionDuration">>
    [] reg = 31 -> <<"MotionDetectionThreshold">>
    [] reg = 32 -> <<"MotionDetectionDuration">>
    [] reg = 33 -> <<"ZeroMotionDetectionThreshold">>
    [] reg = 34 -> <<"ZeroMotionDetectionDuration">>
    [] reg = 49 -> <<"Slave4Address">>
    [] reg = 50 -> <<"Slave4Register">>
    [] reg = 117 -> <<"DeviceID">>
    [] OTHER -> <<>>

\* A field all whose bits belong to s, and a table of such fields.
IsField(f) == f[1] \in SensorRegisters /\ f[2] \in Byte /\ f[3] \in 1..8 /\ f[3] <= f[2] + 1
BelongsTo(f, s) == IsField(f) /\ \A b \in BitsOf(f) : BitOwner(f[1], b) = s
Owned(g) == \A n \in DOMAIN g : BelongsTo(g[n], <<n>>)

\* Two such tables beside each other are one.
LEMMA TablesJoined == \A f, g : Owned(f) /\ Owned(g) => Owned(Beside(f, g))
BY DEF Owned, Beside

\* A range of bits is a field, and so is one bit, or a register.
LEMMA RangeBelongs ==
  \A reg \in SensorRegisters, top \in Byte, n \in 1..8 : \A s :
    n <= top + 1 /\ (\A b \in (top - n + 1)..top : BitOwner(reg, b) = s)
      => BelongsTo(<<reg, top, n>>, s)
BY DEF BelongsTo, IsField, BitsOf

\* One bit is a field.
LEMMA BitBelongs ==
  \A reg \in SensorRegisters, top \in Byte : \A s :
    BitOwner(reg, top) = s => BelongsTo(Field(reg, top), s)
BY DEF BelongsTo, IsField, BitsOf, Field, Byte

\* A register is a field.
LEMMA WholeBelongs ==
  \A reg \in SensorRegisters : \A s :
    (\A b \in Byte : BitOwner(reg, b) = s) => BelongsTo(Whole(reg), s)
BY DEF BelongsTo, IsField, BitsOf, Whole, Byte

\* A table of single bits.
LEMMA BitsOwned ==
  ASSUME NEW reg \in SensorRegisters, NEW names,
         \A n \in DOMAIN names : names[n] \in Byte /\ BitOwner(reg, names[n]) = <<n>>
  PROVE  Owned(Fields(reg, names))
BY BitBelongs DEF Owned, Fields

\* The names of what the sensor tells.
Tells(n) == n \in DOMAIN StatusFields
Silent(g) == \A n \in DOMAIN g : ~Tells(n)

\* The names of what the sensor tells, one by one.
LEMMA StatusNames ==
  DOMAIN StatusFields =
    {"PassthroughStatus", "Slave4IsDone", "LostArbitration", "Slave4Nack", "Slave3Nack", "Slave2Nack",
     "Slave1Nack", "Slave0Nack"}
    \cup {"IntFreefallStatus", "IntMotionStatus", "IntZeroMotionStatus", "IntFIFOBufferOverflowStatus",
          "IntI2CMasterStatus", "IntDataReadyStatus"}
    \cup {"XNegMotionDetected", "XPosMotionDetected", "YNegMotionDetected", "YPosMotionDetected",
          "ZNegMotionDetected", "ZPosMotionDetected", "ZeroMotionDetected"}
    \cup {"DMPInt5Status", "DMPInt4Status", "DMPInt3Status", "DMPInt2Status", "DMPInt1Status",
          "DMPInt0Status", "IntPLLReadyStatus", "IntDMPStatus"}
BY DEF StatusFields, Beside, Fields, Statuses, InterruptStatuses, MotionStatuses, DmpStatuses

\* Two tables that name no status are one that names none.
LEMMA SilentJoined == \A f, g : Silent(f) /\ Silent(g) => Silent(Beside(f, g))
BY DEF Silent, Beside

\* The tables of the settings.
LEMMA GyroConfigOwned == Owned(GyroConfig)
<1>1. /\ \A b \in Byte : BitOwner(25, b) = <<"Rate">>
      /\ \A b \in (5 - 3 + 1)..5 : BitOwner(26, b) = <<"ExternalFrameSync">>
      /\ \A b \in (2 - 3 + 1)..2 : BitOwner(26, b) = <<"DLPFMode">>
  BY DEF BitOwner, Byte
<1>2. /\ {25, 26} \subseteq SensorRegisters /\ {2, 5} \subseteq Byte /\ {3} \subseteq 1..8
      /\ 3 <= 2 + 1 /\ 3 <= 5 + 1
  BY DEF SensorRegisters, Byte
<1>3. BelongsTo(Whole(25), <<"Rate">>)
  BY <1>1, <1>2, WholeBelongs, ZenonT(40)
<1>4. BelongsTo(<<26, 5, 3>>, <<"ExternalFrameSync">>)
  BY <1>1, <1>2, RangeBelongs, ZenonT(40)
<1>5. BelongsTo(<<26, 2, 3>>, <<"DLPFMode">>)
  BY <1>1, <1>2, RangeBelongs, ZenonT(40)
<1> QED BY <1>3, <1>4, <1>5 DEF Owned, GyroConfig

\* GYRO_CONFIG.
LEMMA GyroRangeOwned == Owned(GyroRange)
<1>1. /\ \A b \in (4 - 2 + 1)..4 : BitOwner(27, b) = <<"FullScaleGyroRange">>
  BY DEF BitOwner, Byte
<1>2. /\ {27} \subseteq SensorRegisters /\ {4} \subseteq Byte /\ {2} \subseteq 1..8
      /\ 2 <= 4 + 1
  BY DEF SensorRegisters, Byte
<1>3. BelongsTo(<<27, 4, 2>>, <<"FullScaleGyroRange">>)
  BY <1>1, <1>2, RangeBelongs, ZenonT(40)
<1> QED BY <1>3 DEF Owned, GyroRange

\* ACCEL_CONFIG.
LEMMA AccelConfigOwned == Owned(AccelConfig)
<1>1. /\ \A b \in (4 - 2 + 1)..4 : BitOwner(28, b) = <<"FullScaleAccelRange">>
      /\ \A b \in (2 - 3 + 1)..2 : BitOwner(28, b) = <<"DHPFMode">>
      /\ BitOwner(28, 7) = <<"AccelXSelfTest">>
      /\ BitOwner(28, 6) = <<"AccelYSelfTest">>
      /\ BitOwner(28, 5) = <<"AccelZSelfTest">>
  BY DEF BitOwner, Byte
<1>2. /\ {28} \subseteq SensorRegisters /\ {2, 4, 5, 6, 7} \subseteq Byte /\ {2, 3} \subseteq 1..8
      /\ 2 <= 4 + 1 /\ 3 <= 2 + 1
  BY DEF SensorRegisters, Byte
<1>3. BelongsTo(<<28, 4, 2>>, <<"FullScaleAccelRange">>)
  BY <1>1, <1>2, RangeBelongs, ZenonT(40)
<1>4. BelongsTo(<<28, 2, 3>>, <<"DHPFMode">>)
  BY <1>1, <1>2, RangeBelongs, ZenonT(40)
<1>5. BelongsTo(Field(28, 7), <<"AccelXSelfTest">>)
  BY <1>1, <1>2, BitBelongs, ZenonT(40)
<1>6. BelongsTo(Field(28, 6), <<"AccelYSelfTest">>)
  BY <1>1, <1>2, BitBelongs, ZenonT(40)
<1>7. BelongsTo(Field(28, 5), <<"AccelZSelfTest">>)
  BY <1>1, <1>2, BitBelongs, ZenonT(40)
<1> QED BY <1>3, <1>4, <1>5, <1>6, <1>7 DEF Owned, AccelConfig

\* FF_THR to MOT_DUR.
LEMMA MotionThresholdsOwned == Owned(MotionThresholds)
<1>1. /\ \A b \in Byte : BitOwner(29, b) = <<"FreefallDetectionThreshold">>
      /\ \A b \in Byte : BitOwner(30, b) = <<"FreefallDetectionDuration">>
      /\ \A b \in Byte : BitOwner(31, b) = <<"MotionDetectionThreshold">>
      /\ \A b \in Byte : BitOwner(32, b) = <<"MotionDetectionDuration">>
  BY DEF BitOwner, Byte
<1>2. /\ {29, 30, 31, 32} \subseteq SensorRegisters
  BY DEF SensorRegisters, Byte
<1>3. BelongsTo(Whole(29), <<"FreefallDetectionThreshold">>)
  BY <1>1, <1>2, WholeBelongs, ZenonT(40)
<1>4. BelongsTo(Whole(30), <<"FreefallDetectionDuration">>)
  BY <1>1, <1>2, WholeBelongs, ZenonT(40)
<1>5. BelongsTo(Whole(31), <<"MotionDetectionThreshold">>)
  BY <1>1, <1>2, WholeBelongs, ZenonT(40)
<1>6. BelongsTo(Whole(32), <<"MotionDetectionDuration">>)
  BY <1>1, <1>2, WholeBelongs, ZenonT(40)
<1> QED BY <1>3, <1>4, <1>5, <1>6 DEF Owned, MotionThresholds

\* ZRMOT_THR and ZRMOT_DUR.
LEMMA ZeroMotionThresholdsOwned == Owned(ZeroMotionThresholds)
<1>1. /\ \A b \in Byte : BitOwner(33, b) = <<"ZeroMotionDetectionThreshold">>
      /\ \A b \in Byte : BitOwner(34, b) = <<"ZeroMotionDetectionDuration">>
  BY DEF BitOwner, Byte
<1>2. /\ {33, 34} \subseteq SensorRegisters
  BY DEF SensorRegisters, Byte
<1>3. BelongsTo(Whole(33), <<"ZeroMotionDetectionThreshold">>)
  BY <1>1, <1>2, WholeBelongs, ZenonT(40)
<1>4. BelongsTo(Whole(34), <<"ZeroMotionDetectionDuration">>)
  BY <1>1, <1>2, WholeBelongs, ZenonT(40)
<1> QED BY <1>3, <1>4 DEF Owned, ZeroMotionThresholds

\* FIFO_EN.
LEMMA FifoEnableOwned == Owned(FifoEnable)
<1> DEFINE names == [TempFIFO |-> 7, XGyroFIFO |-> 6, YGyroFIFO |-> 5, ZGyroFIFO |-> 4,
                     AccelFIFO |-> 3, Slave2FIFO |-> 2, Slave1FIFO |-> 1, Slave0FIFO |-> 0]
<1>1. /\ BitOwner(35, 7) = <<"TempFIFO">>
      /\ BitOwner(35, 6) = <<"XGyroFIFO">>
      /\ BitOwner(35, 5) = <<"YGyroFIFO">>
      /\ BitOwner(35, 4) = <<"ZGyroFIFO">>
      /\ BitOwner(35, 3) = <<"AccelFIFO">>
      /\ BitOwner(35, 2) = <<"Slave2FIFO">>
      /\ BitOwner(35, 1) = <<"Slave1FIFO">>
      /\ BitOwner(35, 0) = <<"Slave0FIFO">>
  BY DEF BitOwner
<1>2. \A n \in DOMAIN names : names[n] \in Byte /\ BitOwner(35, names[n]) = <<n>>
  BY <1>1 DEF Byte
<1> HIDE DEF names
<1>3. 35 \in SensorRegisters
  BY DEF SensorRegisters
<1>4. Owned(Fields(35, names))
  BY <1>2, <1>3, BitsOwned
<1> QED BY <1>4 DEF names, FifoEnable

\* I2C_MST_CTRL.
LEMMA MasterControlOwned == Owned(MasterControl)
<1> DEFINE fields == [MasterClockSpeed |-> <<36, 3, 4>>]
           bits == Fields(36, [MultiMaster |-> 7, WaitForExternalSensor |-> 6, Slave3FIFO |-> 5,
                               SlaveReadWriteTransition |-> 4])
<1>1. Owned(fields)
  <2>1. /\ \A b \in (3 - 4 + 1)..3 : BitOwner(36, b) = <<"MasterClockSpeed">>
    BY DEF BitOwner, Byte
  <2>2. /\ {36} \subseteq SensorRegisters /\ {3} \subseteq Byte /\ {4} \subseteq 1..8
        /\ 4 <= 3 + 1
    BY DEF SensorRegisters, Byte
  <2>3. BelongsTo(<<36, 3, 4>>, <<"MasterClockSpeed">>)
    BY <2>1, <2>2, RangeBelongs, ZenonT(40)
  <2> QED BY <2>3 DEF Owned
<1>2. Owned(bits)
  <2> DEFINE names == [MultiMaster |-> 7, WaitForExternalSensor |-> 6, Slave3FIFO |-> 5,
                       SlaveReadWriteTransition |-> 4]
  <2>1. /\ BitOwner(36, 7) = <<"MultiMaster">>
        /\ BitOwner(36, 6) = <<"WaitForExternalSensor">>
        /\ BitOwner(36, 5) = <<"Slave3FIFO">>
        /\ BitOwner(36, 4) = <<"SlaveReadWriteTransition">>
    BY DEF BitOwner
  <2>2. \A n \in DOMAIN names : names[n] \in Byte /\ BitOwner(36, names[n]) = <<n>>
    BY <2>1 DEF Byte
  <2> HIDE DEF names
  <2>3. 36 \in SensorRegisters
    BY DEF SensorRegisters
  <2>4. Owned(Fields(36, names))
    BY <2>2, <2>3, BitsOwned
  <2> QED BY <2>4 DEF names
<1>3. MasterControl = Beside(fields, bits)
  BY DEF MasterControl
<1> HIDE DEF fields, bits
<1> QED BY <1>1, <1>2, <1>3, TablesJoined

\* The registers of slave 4.
LEMMA Slave4Owned == Owned(Slave4)
<1> DEFINE fields == [Slave4Address |-> Whole(49), Slave4Register |-> Whole(50),
                      Slave4MasterDelay |-> <<52, 4, 5>>]
           bits == Fields(52, [Slave4Enabled |-> 7, Slave4Interrupt |-> 6, Slave4WriteMode |-> 5])
<1>1. Owned(fields)
  <2>1. /\ \A b \in Byte : BitOwner(49, b) = <<"Slave4Address">>
        /\ \A b \in Byte : BitOwner(50, b) = <<"Slave4Register">>
        /\ \A b \in (4 - 5 + 1)..4 : BitOwner(52, b) = <<"Slave4MasterDelay">>
    BY DEF BitOwner, Byte
  <2>2. /\ {49, 50, 52} \subseteq SensorRegisters /\ {4} \subseteq Byte /\ {5} \subseteq 1..8
        /\ 5 <= 4 + 1
    BY DEF SensorRegisters, Byte
  <2>3. BelongsTo(Whole(49), <<"Slave4Address">>)
    BY <2>1, <2>2, WholeBelongs, ZenonT(40)
  <2>4. BelongsTo(Whole(50), <<"Slave4Register">>)
    BY <2>1, <2>2, WholeBelongs, ZenonT(40)
  <2>5. BelongsTo(<<52, 4, 5>>, <<"Slave4MasterDelay">>)
    BY <2>1, <2>2, RangeBelongs, ZenonT(40)
  <2> QED BY <2>3, <2>4, <2>5 DEF Owned
<1>2. Owned(bits)
  <2> DEFINE names == [Slave4Enabled |-> 7, Slave4Interrupt |-> 6, Slave4WriteMode |-> 5]
  <2>1. /\ BitOwner(52, 7) = <<"Slave4Enabled">>
        /\ BitOwner(52, 6) = <<"Slave4Interrupt">>
        /\ BitOwner(52, 5) = <<"Slave4WriteMode">>
    BY DEF BitOwner
  <2>2. \A n \in DOMAIN names : names[n] \in Byte /\ BitOwner(52, names[n]) = <<n>>
    BY <2>1 DEF Byte
  <2> HIDE DEF names
  <2>3. 52 \in SensorRegisters
    BY DEF SensorRegisters
  <2>4. Owned(Fields(52, names))
    BY <2>2, <2>3, BitsOwned
  <2> QED BY <2>4 DEF names
<1>3. Slave4 = Beside(fields, bits)
  BY DEF Slave4
<1> HIDE DEF fields, bits
<1> QED BY <1>1, <1>2, <1>3, TablesJoined

\* I2C_MST_DELAY_CTRL.
LEMMA SlaveDelayOwned == Owned(SlaveDelay)
<1> DEFINE names == [ExternalShadowDelay |-> 7, Slave0Delay |-> 0, Slave1Delay |-> 1,
                     Slave2Delay |-> 2, Slave3Delay |-> 3, Slave4Delay |-> 4]
<1>1. /\ BitOwner(103, 7) = <<"ExternalShadowDelay">>
      /\ BitOwner(103, 0) = <<"Slave0Delay">>
      /\ BitOwner(103, 1) = <<"Slave1Delay">>
      /\ BitOwner(103, 2) = <<"Slave2Delay">>
      /\ BitOwner(103, 3) = <<"Slave3Delay">>
      /\ BitOwner(103, 4) = <<"Slave4Delay">>
  BY DEF BitOwner
<1>2. \A n \in DOMAIN names : names[n] \in Byte /\ BitOwner(103, names[n]) = <<n>>
  BY <1>1 DEF Byte
<1> HIDE DEF names
<1>3. 103 \in SensorRegisters
  BY DEF SensorRegisters
<1>4. Owned(Fields(103, names))
  BY <1>2, <1>3, BitsOwned
<1> QED BY <1>4 DEF names, SlaveDelay

\* INT_PIN_CFG, the pin.
LEMMA InterruptPinOwned == Owned(InterruptPin)
<1> DEFINE names == [InterruptMode |-> 7, InterruptDrive |-> 6, InterruptLatch |-> 5,
                     InterruptLatchClear |-> 4, FSyncInterruptLevel |-> 3, FSyncInterrupt |-> 2]
<1>1. /\ BitOwner(55, 7) = <<"InterruptMode">>
      /\ BitOwner(55, 6) = <<"InterruptDrive">>
      /\ BitOwner(55, 5) = <<"InterruptLatch">>
      /\ BitOwner(55, 4) = <<"InterruptLatchClear">>
      /\ BitOwner(55, 3) = <<"FSyncInterruptLevel">>
      /\ BitOwner(55, 2) = <<"FSyncInterrupt">>
  BY DEF BitOwner
<1>2. \A n \in DOMAIN names : names[n] \in Byte /\ BitOwner(55, names[n]) = <<n>>
  BY <1>1 DEF Byte
<1> HIDE DEF names
<1>3. 55 \in SensorRegisters
  BY DEF SensorRegisters
<1>4. Owned(Fields(55, names))
  BY <1>2, <1>3, BitsOwned
<1> QED BY <1>4 DEF names, InterruptPin

\* INT_PIN_CFG, the bypass.
LEMMA BypassOwned == Owned(Bypass)
<1> DEFINE names == [I2CBypass |-> 1, ClockOutput |-> 0]
<1>1. /\ BitOwner(55, 1) = <<"I2CBypass">>
      /\ BitOwner(55, 0) = <<"ClockOutput">>
  BY DEF BitOwner
<1>2. \A n \in DOMAIN names : names[n] \in Byte /\ BitOwner(55, names[n]) = <<n>>
  BY <1>1 DEF Byte
<1> HIDE DEF names
<1>3. 55 \in SensorRegisters
  BY DEF SensorRegisters
<1>4. Owned(Fields(55, names))
  BY <1>2, <1>3, BitsOwned
<1> QED BY <1>4 DEF names, Bypass

\* INT_ENABLE.
LEMMA InterruptEnableOwned == Owned(InterruptEnable)
<1> DEFINE names == [IntFreefall |-> 7, IntMotion |-> 6, IntZeroMotion |-> 5,
                     IntFIFOBufferOverflow |-> 4, IntI2CMaster |-> 3, IntDataReady |-> 0]
<1>1. /\ BitOwner(56, 7) = <<"IntFreefall">>
      /\ BitOwner(56, 6) = <<"IntMotion">>
      /\ BitOwner(56, 5) = <<"IntZeroMotion">>
      /\ BitOwner(56, 4) = <<"IntFIFOBufferOverflow">>
      /\ BitOwner(56, 3) = <<"IntI2CMaster">>
      /\ BitOwner(56, 0) = <<"IntDataReady">>
  BY DEF BitOwner
<1>2. \A n \in DOMAIN names : names[n] \in Byte /\ BitOwner(56, names[n]) = <<n>>
  BY <1>1 DEF Byte
<1> HIDE DEF names
<1>3. 56 \in SensorRegisters
  BY DEF SensorRegisters
<1>4. Owned(Fields(56, names))
  BY <1>2, <1>3, BitsOwned
<1> QED BY <1>4 DEF names, InterruptEnable

\* MOT_DETECT_CTRL.
LEMMA DetectControlOwned == Owned(DetectControl)
<1>1. /\ \A b \in (5 - 2 + 1)..5 : BitOwner(105, b) = <<"AccelerometerPowerOnDelay">>
      /\ \A b \in (3 - 2 + 1)..3 : BitOwner(105, b) = <<"FreefallDetectionCounterDecrement">>
      /\ \A b \in (1 - 2 + 1)..1 : BitOwner(105, b) = <<"MotionDetectionCounterDecrement">>
  BY DEF BitOwner, Byte
<1>2. /\ {105} \subseteq SensorRegisters /\ {1, 3, 5} \subseteq Byte /\ {2} \subseteq 1..8
      /\ 2 <= 1 + 1 /\ 2 <= 3 + 1 /\ 2 <= 5 + 1
  BY DEF SensorRegisters, Byte
<1>3. BelongsTo(<<105, 5, 2>>, <<"AccelerometerPowerOnDelay">>)
  BY <1>1, <1>2, RangeBelongs, ZenonT(40)
<1>4. BelongsTo(<<105, 3, 2>>, <<"FreefallDetectionCounterDecrement">>)
  BY <1>1, <1>2, RangeBelongs, ZenonT(40)
<1>5. BelongsTo(<<105, 1, 2>>, <<"MotionDetectionCounterDecrement">>)
  BY <1>1, <1>2, RangeBelongs, ZenonT(40)
<1> QED BY <1>3, <1>4, <1>5 DEF Owned, DetectControl

\* USER_CTRL.
LEMMA UserControlOwned == Owned(UserControl)
<1> DEFINE names == [FIFO |-> 6, I2CMasterMode |-> 5]
<1>1. /\ BitOwner(106, 6) = <<"FIFO">>
      /\ BitOwner(106, 5) = <<"I2CMasterMode">>
  BY DEF BitOwner
<1>2. \A n \in DOMAIN names : names[n] \in Byte /\ BitOwner(106, names[n]) = <<n>>
  BY <1>1 DEF Byte
<1> HIDE DEF names
<1>3. 106 \in SensorRegisters
  BY DEF SensorRegisters
<1>4. Owned(Fields(106, names))
  BY <1>2, <1>3, BitsOwned
<1> QED BY <1>4 DEF names, UserControl

\* PWR_MGMT_1.
LEMMA PowerManagementOwned == Owned(PowerManagement)
<1>1. /\ BitOwner(107, 6) = <<"Sleep">>
      /\ BitOwner(107, 5) = <<"WakeCycle">>
      /\ BitOwner(107, 3) = <<"TempSensorOff">>
      /\ \A b \in (2 - 3 + 1)..2 : BitOwner(107, b) = <<"ClockSource">>
  BY DEF BitOwner, Byte
<1>2. /\ {107} \subseteq SensorRegisters /\ {2, 3, 5, 6} \subseteq Byte /\ {3} \subseteq 1..8
      /\ 3 <= 2 + 1
  BY DEF SensorRegisters, Byte
<1>3. BelongsTo(Field(107, 6), <<"Sleep">>)
  BY <1>1, <1>2, BitBelongs, ZenonT(40)
<1>4. BelongsTo(Field(107, 5), <<"WakeCycle">>)
  BY <1>1, <1>2, BitBelongs, ZenonT(40)
<1>5. BelongsTo(Field(107, 3), <<"TempSensorOff">>)
  BY <1>1, <1>2, BitBelongs, ZenonT(40)
<1>6. BelongsTo(<<107, 2, 3>>, <<"ClockSource">>)
  BY <1>1, <1>2, RangeBelongs, ZenonT(40)
<1> QED BY <1>3, <1>4, <1>5, <1>6 DEF Owned, PowerManagement

\* PWR_MGMT_2.
LEMMA StandbyOwned == Owned(Standby)
<1> DEFINE fields == [WakeFrequency |-> <<108, 7, 2>>]
           bits == Fields(108, [StandbyXAccel |-> 5, StandbyYAccel |-> 4, StandbyZAccel |-> 3,
                               StandbyXGyro |-> 2, StandbyYGyro |-> 1, StandbyZGyro |-> 0])
<1>1. Owned(fields)
  <2>1. /\ \A b \in (7 - 2 + 1)..7 : BitOwner(108, b) = <<"WakeFrequency">>
    BY DEF BitOwner, Byte
  <2>2. /\ {108} \subseteq SensorRegisters /\ {7} \subseteq Byte /\ {2} \subseteq 1..8
        /\ 2 <= 7 + 1
    BY DEF SensorRegisters, Byte
  <2>3. BelongsTo(<<108, 7, 2>>, <<"WakeFrequency">>)
    BY <2>1, <2>2, RangeBelongs, ZenonT(40)
  <2> QED BY <2>3 DEF Owned
<1>2. Owned(bits)
  <2> DEFINE names == [StandbyXAccel |-> 5, StandbyYAccel |-> 4, StandbyZAccel |-> 3,
                       StandbyXGyro |-> 2, StandbyYGyro |-> 1, StandbyZGyro |-> 0]
  <2>1. /\ BitOwner(108, 5) = <<"StandbyXAccel">>
        /\ BitOwner(108, 4) = <<"StandbyYAccel">>
        /\ BitOwner(108, 3) = <<"StandbyZAccel">>
        /\ BitOwner(108, 2) = <<"StandbyXGyro">>
        /\ BitOwner(108, 1) = <<"StandbyYGyro">>
        /\ BitOwner(108, 0) = <<"StandbyZGyro">>
    BY DEF BitOwner
  <2>2. \A n \in DOMAIN names : names[n] \in Byte /\ BitOwner(108, names[n]) = <<n>>
    BY <2>1 DEF Byte
  <2> HIDE DEF names
  <2>3. 108 \in SensorRegisters
    BY DEF SensorRegisters
  <2>4. Owned(Fields(108, names))
    BY <2>2, <2>3, BitsOwned
  <2> QED BY <2>4 DEF names
<1>3. Standby = Beside(fields, bits)
  BY DEF Standby
<1> HIDE DEF fields, bits
<1> QED BY <1>1, <1>2, <1>3, TablesJoined

\* WHO_AM_I.
LEMMA DeviceIDOwned == Owned(DeviceID)
<1>1. /\ \A b \in (6 - 6 + 1)..6 : BitOwner(117, b) = <<"DeviceID">>
  BY DEF BitOwner, Byte
<1>2. /\ {117} \subseteq SensorRegisters /\ {6} \subseteq Byte /\ {6} \subseteq 1..8
      /\ 6 <= 6 + 1
  BY DEF SensorRegisters, Byte
<1>3. BelongsTo(<<117, 6, 6>>, <<"DeviceID">>)
  BY <1>1, <1>2, RangeBelongs, ZenonT(40)
<1> QED BY <1>3 DEF Owned, DeviceID

\* The factory trims.
LEMMA OffsetTCOwned == Owned(OffsetTC)
<1>1. /\ BitOwner(0, 0) = <<"OTPBankValid">>
      /\ \A b \in (6 - 6 + 1)..6 : BitOwner(0, b) = <<"XGyroOffsetTC">>
      /\ \A b \in (6 - 6 + 1)..6 : BitOwner(1, b) = <<"YGyroOffsetTC">>
      /\ \A b \in (6 - 6 + 1)..6 : BitOwner(2, b) = <<"ZGyroOffsetTC">>
      /\ \A b \in Byte : BitOwner(3, b) = <<"XFineGain">>
      /\ \A b \in Byte : BitOwner(4, b) = <<"YFineGain">>
      /\ \A b \in Byte : BitOwner(5, b) = <<"ZFineGain">>
  BY DEF BitOwner, Byte
<1>2. /\ {0, 1, 2, 3, 4, 5} \subseteq SensorRegisters /\ {0, 6} \subseteq Byte /\ {6} \subseteq 1..8
      /\ 6 <= 6 + 1
  BY DEF SensorRegisters, Byte
<1>3. BelongsTo(Field(0, 0), <<"OTPBankValid">>)
  BY <1>1, <1>2, BitBelongs, ZenonT(40)
<1>4. BelongsTo(<<0, 6, 6>>, <<"XGyroOffsetTC">>)
  BY <1>1, <1>2, RangeBelongs, ZenonT(40)
<1>5. BelongsTo(<<1, 6, 6>>, <<"YGyroOffsetTC">>)
  BY <1>1, <1>2, RangeBelongs, ZenonT(40)
<1>6. BelongsTo(<<2, 6, 6>>, <<"ZGyroOffsetTC">>)
  BY <1>1, <1>2, RangeBelongs, ZenonT(40)
<1>7. BelongsTo(Whole(3), <<"XFineGain">>)
  BY <1>1, <1>2, WholeBelongs, ZenonT(40)
<1>8. BelongsTo(Whole(4), <<"YFineGain">>)
  BY <1>1, <1>2, WholeBelongs, ZenonT(40)
<1>9. BelongsTo(Whole(5), <<"ZFineGain">>)
  BY <1>1, <1>2, WholeBelongs, ZenonT(40)
<1> QED BY <1>3, <1>4, <1>5, <1>6, <1>7, <1>8, <1>9 DEF Owned, OffsetTC

\* The bits of the DMP.
LEMMA DmpSettingsOwned == Owned(DmpSettings)
<1> DEFINE a == Fields(56, [IntPLLReady |-> 2, IntDMP |-> 1])
           b == Fields(106, [DMP |-> 7])
<1>1. Owned(a)
  <2> DEFINE names == [IntPLLReady |-> 2, IntDMP |-> 1]
  <2>1. /\ BitOwner(56, 2) = <<"IntPLLReady">>
        /\ BitOwner(56, 1) = <<"IntDMP">>
    BY DEF BitOwner
  <2>2. \A n \in DOMAIN names : names[n] \in Byte /\ BitOwner(56, names[n]) = <<n>>
    BY <2>1 DEF Byte
  <2> HIDE DEF names
  <2>3. 56 \in SensorRegisters
    BY DEF SensorRegisters
  <2>4. Owned(Fields(56, names))
    BY <2>2, <2>3, BitsOwned
  <2> QED BY <2>4 DEF names
<1>2. Owned(b)
  <2> DEFINE names == [DMP |-> 7]
  <2>1. /\ BitOwner(106, 7) = <<"DMP">>
    BY DEF BitOwner
  <2>2. \A n \in DOMAIN names : names[n] \in Byte /\ BitOwner(106, names[n]) = <<n>>
    BY <2>1 DEF Byte
  <2> HIDE DEF names
  <2>3. 106 \in SensorRegisters
    BY DEF SensorRegisters
  <2>4. Owned(Fields(106, names))
    BY <2>2, <2>3, BitsOwned
  <2> QED BY <2>4 DEF names
<1>3. DmpSettings = Beside(a, b)
  BY DEF DmpSettings
<1> HIDE DEF a, b
<1> QED BY <1>1, <1>2, <1>3, TablesJoined

\* The table of what the sensor tells.
LEMMA StatusesOwned == Owned(StatusFields)
<1>1. Owned(Statuses)
  <2> DEFINE names == [PassthroughStatus |-> 7, Slave4IsDone |-> 6, LostArbitration |-> 5,
                    Slave4Nack |-> 4, Slave3Nack |-> 3, Slave2Nack |-> 2, Slave1Nack |-> 1,
                    Slave0Nack |-> 0]
  <2>1. /\ BitOwner(54, 7) = <<"PassthroughStatus">>
        /\ BitOwner(54, 6) = <<"Slave4IsDone">>
        /\ BitOwner(54, 5) = <<"LostArbitration">>
        /\ BitOwner(54, 4) = <<"Slave4Nack">>
        /\ BitOwner(54, 3) = <<"Slave3Nack">>
        /\ BitOwner(54, 2) = <<"Slave2Nack">>
        /\ BitOwner(54, 1) = <<"Slave1Nack">>
        /\ BitOwner(54, 0) = <<"Slave0Nack">>
    BY DEF BitOwner
  <2>2. \A n \in DOMAIN names : names[n] \in Byte /\ BitOwner(54, names[n]) = <<n>>
    BY <2>1 DEF Byte
  <2> HIDE DEF names
  <2>3. 54 \in SensorRegisters
    BY DEF SensorRegisters
  <2>4. Owned(Fields(54, names))
    BY <2>2, <2>3, BitsOwned
  <2> QED BY <2>4 DEF names, Statuses
<1>2. Owned(InterruptStatuses)
  <2> DEFINE names == [IntFreefallStatus |-> 7, IntMotionStatus |-> 6, IntZeroMotionStatus |-> 5,
                    IntFIFOBufferOverflowStatus |-> 4, IntI2CMasterStatus |-> 3,
                    IntDataReadyStatus |-> 0]
  <2>1. /\ BitOwner(58, 7) = <<"IntFreefallStatus">>
        /\ BitOwner(58, 6) = <<"IntMotionStatus">>
        /\ BitOwner(58, 5) = <<"IntZeroMotionStatus">>
        /\ BitOwner(58, 4) = <<"IntFIFOBufferOverflowStatus">>
        /\ BitOwner(58, 3) = <<"IntI2CMasterStatus">>
        /\ BitOwner(58, 0) = <<"IntDataReadyStatus">>
    BY DEF BitOwner
  <2>2. \A n \in DOMAIN names : names[n] \in Byte /\ BitOwner(58, names[n]) = <<n>>
    BY <2>1 DEF Byte
  <2> HIDE DEF names
  <2>3. 58 \in SensorRegisters
    BY DEF SensorRegisters
  <2>4. Owned(Fields(58, names))
    BY <2>2, <2>3, BitsOwned
  <2> QED BY <2>4 DEF names, InterruptStatuses
<1>3. Owned(MotionStatuses)
  <2> DEFINE names == [XNegMotionDetected |-> 7, XPosMotionDetected |-> 6, YNegMotionDetected |-> 5,
                    YPosMotionDetected |-> 4, ZNegMotionDetected |-> 3, ZPosMotionDetected |-> 2,
                    ZeroMotionDetected |-> 0]
  <2>1. /\ BitOwner(97, 7) = <<"XNegMotionDetected">>
        /\ BitOwner(97, 6) = <<"XPosMotionDetected">>
        /\ BitOwner(97, 5) = <<"YNegMotionDetected">>
        /\ BitOwner(97, 4) = <<"YPosMotionDetected">>
        /\ BitOwner(97, 3) = <<"ZNegMotionDetected">>
        /\ BitOwner(97, 2) = <<"ZPosMotionDetected">>
        /\ BitOwner(97, 0) = <<"ZeroMotionDetected">>
    BY DEF BitOwner
  <2>2. \A n \in DOMAIN names : names[n] \in Byte /\ BitOwner(97, names[n]) = <<n>>
    BY <2>1 DEF Byte
  <2> HIDE DEF names
  <2>3. 97 \in SensorRegisters
    BY DEF SensorRegisters
  <2>4. Owned(Fields(97, names))
    BY <2>2, <2>3, BitsOwned
  <2> QED BY <2>4 DEF names, MotionStatuses
<1> DEFINE dmp == Fields(57, [DMPInt5Status |-> 5, DMPInt4Status |-> 4, DMPInt3Status |-> 3,
                              DMPInt2Status |-> 2, DMPInt1Status |-> 1, DMPInt0Status |-> 0])
           ready == Fields(58, [IntPLLReadyStatus |-> 2, IntDMPStatus |-> 1])
<1>4. Owned(dmp)
  <2> DEFINE names == [DMPInt5Status |-> 5, DMPInt4Status |-> 4, DMPInt3Status |-> 3,
                    DMPInt2Status |-> 2, DMPInt1Status |-> 1, DMPInt0Status |-> 0]
  <2>1. /\ BitOwner(57, 5) = <<"DMPInt5Status">>
        /\ BitOwner(57, 4) = <<"DMPInt4Status">>
        /\ BitOwner(57, 3) = <<"DMPInt3Status">>
        /\ BitOwner(57, 2) = <<"DMPInt2Status">>
        /\ BitOwner(57, 1) = <<"DMPInt1Status">>
        /\ BitOwner(57, 0) = <<"DMPInt0Status">>
    BY DEF BitOwner
  <2>2. \A n \in DOMAIN names : names[n] \in Byte /\ BitOwner(57, names[n]) = <<n>>
    BY <2>1 DEF Byte
  <2> HIDE DEF names
  <2>3. 57 \in SensorRegisters
    BY DEF SensorRegisters
  <2>4. Owned(Fields(57, names))
    BY <2>2, <2>3, BitsOwned
  <2> QED BY <2>4 DEF names
<1>5. Owned(ready)
  <2> DEFINE names == [IntPLLReadyStatus |-> 2, IntDMPStatus |-> 1]
  <2>1. /\ BitOwner(58, 2) = <<"IntPLLReadyStatus">>
        /\ BitOwner(58, 1) = <<"IntDMPStatus">>
    BY DEF BitOwner
  <2>2. \A n \in DOMAIN names : names[n] \in Byte /\ BitOwner(58, names[n]) = <<n>>
    BY <2>1 DEF Byte
  <2> HIDE DEF names
  <2>3. 58 \in SensorRegisters
    BY DEF SensorRegisters
  <2>4. Owned(Fields(58, names))
    BY <2>2, <2>3, BitsOwned
  <2> QED BY <2>4 DEF names
<1>6. DmpStatuses = Beside(dmp, ready)
  BY DEF DmpStatuses
<1> HIDE DEF dmp, ready
<1>7. Owned(DmpStatuses)
  BY <1>4, <1>5, <1>6, TablesJoined
<1> QED BY <1>1, <1>2, <1>3, <1>7, TablesJoined DEF StatusFields

\* The settings of the slaves.
LEMMA SlavesOwned == \A s \in DOMAIN SlaveSettings : BelongsTo(SlaveSettings[s], s) /\ Len(s) = 3
<1> DEFINE Names == {"Address", "Register", "Enabled", "WordByteSwap", "WriteMode", "WordGroupOffset",
                     "DataLength"}
           Of(num) == Beside(SlaveAddress(num), SlaveControl(num))
<1>1. DOMAIN SlaveAddress(0) \cup DOMAIN SlaveControl(0) = Names
  BY DEF SlaveAddress, SlaveControl, Beside, Fields
<1>2. ASSUME NEW num \in 0..3
      PROVE  /\ Of(num)["Address"] = Whole(37 + 3 * num)
             /\ Of(num)["Register"] = Whole(38 + 3 * num)
             /\ Of(num)["Enabled"] = Field(39 + 3 * num, 7)
             /\ Of(num)["WordByteSwap"] = Field(39 + 3 * num, 6)
             /\ Of(num)["WriteMode"] = Field(39 + 3 * num, 5)
             /\ Of(num)["WordGroupOffset"] = Field(39 + 3 * num, 4)
             /\ Of(num)["DataLength"] = <<39 + 3 * num, 3, 4>>
  BY DEF Beside, SlaveAddress, SlaveControl, Fields
<1> HIDE DEF Of
<1>3. ASSUME NEW num \in 0..3
      PROVE  /\ \A b \in Byte : BitOwner(37 + 3 * num, b) = <<"Slave", num, "Address">>
             /\ \A b \in Byte : BitOwner(38 + 3 * num, b) = <<"Slave", num, "Register">>
             /\ BitOwner(39 + 3 * num, 7) = <<"Slave", num, "Enabled">>
             /\ BitOwner(39 + 3 * num, 6) = <<"Slave", num, "WordByteSwap">>
             /\ BitOwner(39 + 3 * num, 5) = <<"Slave", num, "WriteMode">>
             /\ BitOwner(39 + 3 * num, 4) = <<"Slave", num, "WordGroupOffset">>
             /\ \A b \in (3 - 4 + 1)..3 : BitOwner(39 + 3 * num, b) = <<"Slave", num, "DataLength">>
  <2>1. CASE num = 0
    BY <2>1 DEF BitOwner, Byte
  <2>2. CASE num = 1
    BY <2>2 DEF BitOwner, Byte
  <2>3. CASE num = 2
    BY <2>3 DEF BitOwner, Byte
  <2>4. CASE num = 3
    BY <2>4 DEF BitOwner, Byte
  <2> QED BY <2>1, <2>2, <2>3, <2>4
<1>4. ASSUME NEW num \in 0..3, NEW n \in Names
      PROVE  BelongsTo(Of(num)[n], <<"Slave", num, n>>)
  <2>1. /\ {37 + 3 * num, 38 + 3 * num, 39 + 3 * num} \subseteq SensorRegisters
        /\ {3, 4, 5, 6, 7} \subseteq Byte /\ 4 \in 1..8 /\ 4 <= 3 + 1
    BY DEF SensorRegisters, Byte
  <2>2. CASE n = "Address"
    BY <1>2, <1>3, <2>1, <2>2, WholeBelongs, ZenonT(40)
  <2>3. CASE n = "Register"
    BY <1>2, <1>3, <2>1, <2>3, WholeBelongs, ZenonT(40)
  <2>4. CASE n = "Enabled"
    BY <1>2, <1>3, <2>1, <2>4, BitBelongs, ZenonT(40)
  <2>5. CASE n = "WordByteSwap"
    BY <1>2, <1>3, <2>1, <2>5, BitBelongs, ZenonT(40)
  <2>6. CASE n = "WriteMode"
    BY <1>2, <1>3, <2>1, <2>6, BitBelongs, ZenonT(40)
  <2>7. CASE n = "WordGroupOffset"
    BY <1>2, <1>3, <2>1, <2>7, BitBelongs, ZenonT(40)
  <2>8. CASE n = "DataLength"
    BY <1>2, <1>3, <2>1, <2>8, RangeBelongs, ZenonT(40)
  <2> QED BY <2>2, <2>3, <2>4, <2>5, <2>6, <2>7, <2>8
<1> SUFFICES ASSUME NEW s \in DOMAIN SlaveSettings PROVE BelongsTo(SlaveSettings[s], s) /\ Len(s) = 3
  OBVIOUS
<1>5. s \in {<<"Slave", num, n>> : num \in 0..3, n \in Names} /\ SlaveSettings[s] = Of(s[2])[s[3]]
  BY <1>1 DEF SlaveSettings, Of
<1>6. PICK num \in 0..3, n \in Names : s = <<"Slave", num, n>>
  BY <1>5
<1>7. s[2] = num /\ s[3] = n /\ Len(s) = 3
  BY <1>6
<1> QED BY <1>4, <1>5, <1>6, <1>7

\* All settings by name.
LEMMA NamedOwned == Owned(NamedFields)
<1>1. Owned(SensorFields) /\ Owned(ThresholdFields)
  BY GyroConfigOwned, GyroRangeOwned, AccelConfigOwned, MotionThresholdsOwned,
     ZeroMotionThresholdsOwned, TablesJoined DEF SensorFields, ThresholdFields
<1>2. Owned(MasterFields) /\ Owned(InterruptFields)
  BY FifoEnableOwned, MasterControlOwned, Slave4Owned, SlaveDelayOwned, InterruptPinOwned,
     BypassOwned, InterruptEnableOwned, TablesJoined DEF MasterFields, InterruptFields
<1>3. Owned(PowerFields)
  BY DetectControlOwned, UserControlOwned, PowerManagementOwned, StandbyOwned, TablesJoined
     DEF PowerFields
<1>4. Owned(FactoryFields)
  BY DeviceIDOwned, OffsetTCOwned, DmpSettingsOwned, TablesJoined DEF FactoryFields
<1> QED BY <1>1, <1>2, <1>3, <1>4, TablesJoined DEF NamedFields

\* None of them has the name of something the sensor tells.
LEMMA NamedSilent == Silent(NamedFields)
<1>1. Silent(SensorFields) /\ Silent(ThresholdFields)
  <2>1. Silent(GyroConfig) /\ Silent(GyroRange) /\ Silent(AccelConfig)
    BY StatusNames DEF Silent, Tells, GyroConfig, GyroRange, AccelConfig
  <2>2. Silent(MotionThresholds) /\ Silent(ZeroMotionThresholds)
    BY StatusNames DEF Silent, Tells, MotionThresholds, ZeroMotionThresholds
  <2> QED BY <2>1, <2>2, SilentJoined DEF SensorFields, ThresholdFields
<1>2. Silent(MasterFields)
  <2>1. Silent(FifoEnable) /\ Silent(SlaveDelay)
    BY StatusNames DEF Silent, Tells, FifoEnable, SlaveDelay, Fields
  <2>2. Silent(MasterControl) /\ Silent(Slave4)
    BY StatusNames DEF Silent, Tells, MasterControl, Slave4, Fields, Beside
  <2> QED BY <2>1, <2>2, SilentJoined DEF MasterFields
<1>3. Silent(InterruptFields)
  <2>1. Silent(InterruptPin) /\ Silent(Bypass) /\ Silent(InterruptEnable)
    BY StatusNames DEF Silent, Tells, InterruptPin, Bypass, InterruptEnable, Fields
  <2> QED BY <2>1, SilentJoined DEF InterruptFields
<1>4. Silent(PowerFields)
  <2>1. Silent(DetectControl) /\ Silent(UserControl) /\ Silent(PowerManagement)
    BY StatusNames DEF Silent, Tells, DetectControl, UserControl, PowerManagement, Fields
  <2>2. Silent(Standby)
    BY StatusNames DEF Silent, Tells, Standby, Fields, Beside
  <2> QED BY <2>1, <2>2, SilentJoined DEF PowerFields
<1>5. Silent(FactoryFields)
  <2>1. Silent(DeviceID) /\ Silent(OffsetTC)
    BY StatusNames DEF Silent, Tells, DeviceID, OffsetTC
  <2>2. Silent(DmpSettings)
    BY StatusNames DEF Silent, Tells, DmpSettings, Fields, Beside
  <2> QED BY <2>1, <2>2, SilentJoined DEF FactoryFields
<1> QED BY <1>1, <1>2, <1>3, <1>4, <1>5, SilentJoined DEF NamedFields

\* Every setting has its bits to itself.
LEMMA SettingOwns ==
  \A s \in DOMAIN Settings : /\ BelongsTo(Settings[s], s) /\ s # <<>>
                             /\ \A n \in DOMAIN StatusFields : s # <<n>>
<1> DEFINE named == [s \in {<<n>> : n \in DOMAIN NamedFields} |-> NamedFields[s[1]]]
<1> SUFFICES ASSUME NEW s \in DOMAIN Settings
             PROVE  BelongsTo(Settings[s], s) /\ s # <<>> /\ \A n \in DOMAIN StatusFields : s # <<n>>
  OBVIOUS
<1>1. Settings = Beside(named, SlaveSettings)
  BY DEF Settings
<1>2. CASE s \in DOMAIN named
  <2>1. PICK n \in DOMAIN NamedFields : s = <<n>>
    BY <1>2
  <2>2. s[1] = n /\ s # <<>> /\ \A m : <<m>> = s => m = n
    BY <2>1
  <2>3. named[s] = NamedFields[n]
    BY <1>2, <2>2
  <2>4. Settings[s] = NamedFields[n]
    BY <1>1, <1>2, <2>3 DEF Beside
  <2> QED BY <2>1, <2>2, <2>4, NamedOwned, NamedSilent DEF Owned, Silent, Tells
<1>3. CASE s \notin DOMAIN named
  <2>1. s \in DOMAIN SlaveSettings /\ Settings[s] = SlaveSettings[s]
    BY <1>1, <1>3 DEF Beside
  <2>2. BelongsTo(Settings[s], s) /\ Len(s) = 3
    BY <2>1, SlavesOwned
  <2>3. \A n : Len(<<n>>) = 1
    OBVIOUS
  <2>4. Len(<<>>) = 0
    OBVIOUS
  <2>5. s # <<>>
    BY <2>2, <2>4
  <2>6. \A n : s # <<n>>
    BY <2>2, <2>3
  <2> QED BY <2>2, <2>5, <2>6
<1> QED BY <1>2, <1>3

\* What is read of a field depends on its bits only, and a write to others leaves it.
LEMMA SameRead == \A f, x, y : x \cap BitsOf(f) = y \cap BitsOf(f) => Got(x, f) = Got(y, f)
BY DEF Got, Read, ReadBit

\* Fields of one register that belong to different settings have no bit in common.
LEMMA Apart ==
  \A f, g, s, t : BelongsTo(f, s) /\ BelongsTo(g, t) /\ s # t /\ f[1] = g[1]
                    => BitsOf(f) \cap BitsOf(g) = {}
BY DEF BelongsTo

\* A write leaves what is read of the bits beside it.
LEMMA PutElsewhere ==
  \A f, g, x, v : BitsOf(f) \cap BitsOf(g) = {} => Got(PutField(x, g, v), f) = Got(x, f)
<1> SUFFICES ASSUME NEW f, NEW g, NEW x, NEW v, BitsOf(f) \cap BitsOf(g) = {}
             PROVE  Got(PutField(x, g, v), f) = Got(x, f)
  OBVIOUS
<1>1. PutField(x, g, v) \cap BitsOf(f) = x \cap BitsOf(f)
  BY DEF PutField
<1> QED BY <1>1, SameRead

\* The bits of the values that the setters are given.
LEMMA ByteKnown ==
  /\ ByteBits(0) = {} /\ ByteBits(1) = {0} /\ ByteBits(255) = Byte
  /\ \A n \in 2..8 : 0 % 2^n = 0 /\ 1 % 2^n = 1 /\ ByteBits(255 % 2^n) = 0..n - 1
<1> DEFINE power(b) == 2^b
<1>1. /\ power(0) = 1 /\ power(1) = 2 /\ power(2) = 4 /\ power(3) = 8 /\ power(4) = 16
      /\ power(5) = 32 /\ power(6) = 64 /\ power(7) = 128 /\ power(8) = 256
  OBVIOUS
<1>2. \A v : ByteBits(v) = {b \in Byte : (v \div power(b)) % 2 = 1}
  BY DEF ByteBits
<1> HIDE DEF power
<1>3. \A v : /\ 0 \in ByteBits(v) <=> (v \div 1) % 2 = 1
             /\ 1 \in ByteBits(v) <=> (v \div 2) % 2 = 1
             /\ 2 \in ByteBits(v) <=> (v \div 4) % 2 = 1
             /\ 3 \in ByteBits(v) <=> (v \div 8) % 2 = 1
             /\ 4 \in ByteBits(v) <=> (v \div 16) % 2 = 1
             /\ 5 \in ByteBits(v) <=> (v \div 32) % 2 = 1
             /\ 6 \in ByteBits(v) <=> (v \div 64) % 2 = 1
             /\ 7 \in ByteBits(v) <=> (v \div 128) % 2 = 1
             /\ ByteBits(v) \subseteq Byte
  BY <1>1, <1>2 DEF Byte
<1>4. ByteBits(0) = {} /\ ByteBits(1) = {0} /\ ByteBits(255) = Byte
  BY <1>3 DEF Byte
<1>5. \A n \in 2..8 : 0 % power(n) = 0 /\ 1 % power(n) = 1
  BY <1>1
<1>6. ByteBits(3) = 0..1 /\ ByteBits(7) = 0..2 /\ ByteBits(15) = 0..3
  BY <1>3 DEF Byte
<1>7. ByteBits(31) = 0..4 /\ ByteBits(63) = 0..5 /\ ByteBits(127) = 0..6
  BY <1>3 DEF Byte
<1>8. /\ 255 % power(2) = 3 /\ 255 % power(3) = 7 /\ 255 % power(4) = 15 /\ 255 % power(5) = 31
      /\ 255 % power(6) = 63 /\ 255 % power(7) = 127 /\ 255 % power(8) = 255
  BY <1>1
<1>9. \A n \in 2..8 : ByteBits(255 % power(n)) = 0..n - 1
  <2>1. /\ ByteBits(255 % power(2)) = 0..1 /\ ByteBits(255 % power(3)) = 0..2
        /\ ByteBits(255 % power(4)) = 0..3 /\ ByteBits(255 % power(5)) = 0..4
        /\ ByteBits(255 % power(6)) = 0..5 /\ ByteBits(255 % power(7)) = 0..6
        /\ ByteBits(255 % power(8)) = 0..7
    BY <1>4, <1>6, <1>7, <1>8 DEF Byte
  <2> DEFINE B(n) == ByteBits(255 % power(n))
  <2>2. /\ B(2) = 0..2 - 1 /\ B(3) = 0..3 - 1 /\ B(4) = 0..4 - 1 /\ B(5) = 0..5 - 1
        /\ B(6) = 0..6 - 1 /\ B(7) = 0..7 - 1 /\ B(8) = 0..8 - 1
    BY <2>1
  <2> HIDE DEF B
  <2>3. \A n \in 2..8 : B(n) = 0..n - 1
    <3>1. \A n \in 2..8 : n = 2 \/ n = 3 \/ n = 4 \/ n = 5 \/ n = 6 \/ n = 7 \/ n = 8
      OBVIOUS
    <3> QED BY <2>2, <3>1, Zenon
  <2> QED BY <2>3 DEF B
<1> QED BY <1>4, <1>5, <1>9 DEF power

\* A number below m, counted from j.
LEMMA InRange == \A i, j, m \in Int : 0 <= i /\ i < m => i + j \in j..j + m - 1 /\ i = (i + j) - j
OBVIOUS

\* A getter returns what its setter has written.
LEMMA PutOwn ==
  ASSUME NEW f, IsField(f), NEW v \in {0, 1, 255}, f[3] = 1 => v \in {0, 1}, NEW x
  PROVE  Got(PutField(x, f, v), f) = ByteBits(IF f[3] = 1 THEN v ELSE v % 2^f[3])
<1> DEFINE y == PutField(x, f, v)
<1> PICK n, top, low : n = f[3] /\ top = f[2] /\ low = f[2] - f[3] + 1
  OBVIOUS
<1>1. n \in 1..8 /\ low \in Int /\ low >= 0 /\ BitsOf(f) = low..low + n - 1
  <2>1. top \in Int /\ n \in 1..8 /\ n <= top + 1 /\ BitsOf(f) = low..top
    BY DEF IsField, BitsOf, Byte
  <2>2. low = top - n + 1
    OBVIOUS
  <2>3. low \in Int /\ low >= 0 /\ low + n - 1 = top
    BY <2>1, <2>2
  <2> QED BY <2>1, <2>3
<1>2. CASE n = 1
  <2>1. y \cap BitsOf(f) = {b + low : b \in {b \in {0} : v # 0}} \cap BitsOf(f)
    BY <1>2 DEF PutField
  <2>2. low \in BitsOf(f)
    BY <1>1
  <2>3. y \cap BitsOf(f) = {} <=> v = 0
    BY <1>1, <2>1, <2>2
  <2>4. Got(y, f) = IF y \cap BitsOf(f) # {} THEN {0} ELSE {}
    BY <1>2 DEF Got, ReadBit
  <2> QED BY <1>2, <2>3, <2>4, ByteKnown
<1>3. CASE n # 1
  <2>1. y \cap BitsOf(f) = {b + low : b \in ByteBits(v)} \cap BitsOf(f)
    <3>1. y = (x \ BitsOf(f)) \cup ({b + low : b \in ByteBits(v)} \cap BitsOf(f))
      BY <1>3 DEF PutField
    <3> QED BY <3>1
  <2>2. Got(y, f) = {b - low : b \in y \cap BitsOf(f)}
    BY <1>3 DEF Got, Read
  <2>3. ByteBits(v) \subseteq 0..7
    BY DEF ByteBits, Byte
  <2> HIDE DEF y
  <2>4. Got(y, f) = {b \in ByteBits(v) : b < n}
    <3>1. ASSUME NEW b, b \in ByteBits(v), b < n PROVE b \in Got(y, f)
      <4>1. b \in Int /\ b + low \in BitsOf(f) /\ b = (b + low) - low
        <5>1. b \in Int /\ 0 <= b /\ b < n /\ n \in Int /\ low \in Int
          BY <1>1, <2>3, <3>1
        <5>2. b + low \in low..low + n - 1 /\ b = (b + low) - low
          BY <5>1, InRange
        <5> QED BY <1>1, <5>1, <5>2
      <4>2. b + low \in y \cap BitsOf(f)
        BY <2>1, <3>1, <4>1
      <4> QED BY <2>2, <4>1, <4>2
    <3>2. ASSUME NEW c \in Got(y, f) PROVE c \in ByteBits(v) /\ c < n
      <4>1. PICK d \in y \cap BitsOf(f) : c = d - low
        BY <2>2
      <4>2. PICK b \in ByteBits(v) : d = b + low
        BY <2>1
      <4>3. b \in Int /\ d \in low..low + n - 1
        BY <1>1, <2>3
      <4>4. \A i, j, k, m \in Int : k = i + j /\ k \in j..j + m - 1 => k - j = i /\ i < m
        OBVIOUS
      <4>5. low \in Int /\ n \in Int /\ d \in Int
        BY <1>1, <4>3
      <4>6. c = b /\ b < n
        BY <4>1, <4>2, <4>3, <4>4, <4>5
      <4> QED BY <4>2, <4>6
    <3> QED BY <3>1, <3>2
  <2>5. ByteBits(v % 2^n) = {b \in ByteBits(v) : b < n}
    <3>1. n \in 2..8
      BY <1>1, <1>3
    <3>2. CASE v = 0
      <4>1. ByteBits(v % 2^n) = {} /\ ByteBits(v) = {}
        BY <3>1, <3>2, ByteKnown
      <4> QED BY <4>1
    <3>3. CASE v = 1
      <4>1. ByteBits(v % 2^n) = {0} /\ ByteBits(v) = {0}
        BY <3>1, <3>3, ByteKnown
      <4> QED BY <3>1, <4>1
    <3>4. CASE v = 255
      <4>1. ByteBits(v % 2^n) = 0..n - 1 /\ ByteBits(v) = Byte
        BY <3>1, <3>4, ByteKnown
      <4>2. 0..n - 1 = {b \in 0..7 : b < n}
        BY <3>1
      <4> QED BY <4>1, <4>2 DEF Byte
    <3> QED BY <3>2, <3>3, <3>4
  <2> QED BY <1>3, <2>4, <2>5 DEF y
<1> QED BY <1>2, <1>3

\* The registers of the statuses are theirs alone, and the others that are written as a whole, or
\* reset something, belong to nothing.
StatusRegs == {54, 57, 58, 97}
OpenRegs == {6, 7, 8, 9, 10, 11, 19, 20, 21, 22, 23, 24, 51, 99, 100, 101, 102, 104, 116}

\* A field has a lowest bit.
LEMMA FieldHasBit == \A f : IsField(f) => \E b \in Byte : b \in BitsOf(f)
<1> SUFFICES ASSUME NEW f, IsField(f) PROVE \E b \in Byte : b \in BitsOf(f)
  OBVIOUS
<1> PICK n, top : n = f[3] /\ top = f[2]
  OBVIOUS
<1>1. n \in 1..8 /\ top \in 0..7 /\ BitsOf(f) = (top - n + 1)..top
  BY DEF IsField, BitsOf, Byte
<1>2. top \in (top - n + 1)..top
  BY <1>1
<1> QED BY <1>1, <1>2 DEF Byte

\* No setting has a bit of the registers that are written as a whole.
LEMMA OpenNotOwned == \A f, s : BelongsTo(f, s) /\ s # <<>> => f[1] \notin OpenRegs
<1> SUFFICES ASSUME NEW f, NEW s, BelongsTo(f, s), f[1] \in OpenRegs PROVE s = <<>>
  OBVIOUS
<1>1. PICK b \in Byte : b \in BitsOf(f)
  BY FieldHasBit DEF BelongsTo
<1>2. \A r \in OpenRegs : BitOwner(r, b) = <<>>
  BY DEF OpenRegs, BitOwner
<1> QED BY <1>1, <1>2 DEF BelongsTo

\* A field of a status register is a status.
LEMMA StatusesAside ==
  \A f, s : BelongsTo(f, s) /\ f[1] \in StatusRegs
    => s = <<>> \/ \E n \in DOMAIN StatusFields : s = <<n>>
<1> SUFFICES ASSUME NEW f, NEW s, BelongsTo(f, s), f[1] \in StatusRegs, s # <<>>
             PROVE  \E n \in DOMAIN StatusFields : s = <<n>>
  OBVIOUS
<1>1. PICK b \in Byte : b \in BitsOf(f)
  BY FieldHasBit DEF BelongsTo
<1>2. BitOwner(f[1], b) = s
  BY <1>1 DEF BelongsTo
<1>3. b \in 0..7
  BY DEF Byte
<1>4. CASE f[1] = 54
  <2>1. BitOwner(54, b) \in {<<n>> : n \in DOMAIN StatusFields}
    BY <1>3, StatusNames DEF BitOwner
  <2> QED BY <1>2, <1>4, <2>1
<1>5. CASE f[1] = 57
  <2>1. BitOwner(57, b) \in {<<n>> : n \in DOMAIN StatusFields} \cup {<<>>}
    BY <1>3, StatusNames DEF BitOwner
  <2> QED BY <1>2, <1>5, <2>1
<1>6. CASE f[1] = 58
  <2>1. BitOwner(58, b) \in {<<n>> : n \in DOMAIN StatusFields}
    BY <1>3, StatusNames DEF BitOwner
  <2> QED BY <1>2, <1>6, <2>1
<1>7. CASE f[1] = 97
  <2>1. BitOwner(97, b) \in {<<n>> : n \in DOMAIN StatusFields} \cup {<<>>}
    <3>1. /\ BitOwner(97, 0) = <<"ZeroMotionDetected">> /\ BitOwner(97, 1) = <<>>
          /\ BitOwner(97, 2) = <<"ZPosMotionDetected">> /\ BitOwner(97, 3) = <<"ZNegMotionDetected">>
          /\ BitOwner(97, 4) = <<"YPosMotionDetected">> /\ BitOwner(97, 5) = <<"YNegMotionDetected">>
          /\ BitOwner(97, 6) = <<"XPosMotionDetected">> /\ BitOwner(97, 7) = <<"XNegMotionDetected">>
      BY DEF BitOwner
    <3>2. b = 0 \/ b = 1 \/ b = 2 \/ b = 3 \/ b = 4 \/ b = 5 \/ b = 6 \/ b = 7
      BY <1>3
    <3>3. {"ZeroMotionDetected", "ZPosMotionDetected", "ZNegMotionDetected", "YPosMotionDetected",
           "YNegMotionDetected", "XPosMotionDetected", "XNegMotionDetected"} \subseteq DOMAIN StatusFields
      BY StatusNames
    <3> QED BY <3>1, <3>2, <3>3
  <2> QED BY <1>2, <1>7, <2>1
<1> QED BY <1>4, <1>5, <1>6, <1>7 DEF StatusRegs

\* The statuses are in the status registers.
LEMMA StatusWhere == \A n \in DOMAIN StatusFields : StatusFields[n][1] \in StatusRegs
<1> DEFINE In(g) == \A n \in DOMAIN g : g[n][1] \in StatusRegs
<1>1. \A f, g : In(f) /\ In(g) => In(Beside(f, g))
  BY DEF Beside
<1>2. \A r \in StatusRegs : \A names : In(Fields(r, names))
  BY DEF Fields, Field
<1>3. /\ In(Statuses) /\ In(InterruptStatuses) /\ In(MotionStatuses)
  BY <1>2 DEF Statuses, InterruptStatuses, MotionStatuses, StatusRegs
<1>4. In(DmpStatuses)
  BY <1>1, <1>2 DEF DmpStatuses, StatusRegs
<1> HIDE DEF In
<1>5. In(StatusFields)
  BY <1>1, <1>3, <1>4 DEF StatusFields
<1> QED BY <1>5 DEF In

\* What a reset, or AUX_VDDIO, writes belongs to nothing.
LEMMA ResetsOpen ==
  BelongsTo(AuxVDDIOLevel, <<>>) /\ \A n \in DOMAIN Resets : BelongsTo(Resets[n], <<>>)
<1> DEFINE Open(g) == \A n \in DOMAIN g : BelongsTo(g[n], <<>>)
<1>1. \A f, g : Open(f) /\ Open(g) => Open(Beside(f, g))
  BY DEF Beside
<1>2. ASSUME NEW r \in SensorRegisters, NEW names,
             \A n \in DOMAIN names : names[n] \in Byte /\ BitOwner(r, names[n]) = <<>>
      PROVE  Open(Fields(r, names))
  BY <1>2, BitBelongs DEF Fields
<1>3. {1, 104, 106} \subseteq SensorRegisters /\ 7 \in Byte
  BY DEF SensorRegisters, Byte
<1>4. /\ \A b \in {0, 1, 2} : BitOwner(104, b) = <<>>
      /\ \A b \in {0, 1, 2, 3} : BitOwner(106, b) = <<>> /\ b \in Byte
      /\ BitOwner(1, 7) = <<>>
  BY DEF BitOwner, Byte
<1>5. BelongsTo(AuxVDDIOLevel, <<>>)
  BY <1>3, <1>4, BitBelongs, Zenon DEF AuxVDDIOLevel
<1> DEFINE path == [resetGyroscopePath |-> 2, resetAccelerometerPath |-> 1, resetTemperaturePath |-> 0]
           user == [resetFIFO |-> 2, resetI2CMaster |-> 1, resetSensors |-> 0, resetDMP |-> 3]
<1>6. /\ \A n \in DOMAIN path : path[n] \in Byte /\ BitOwner(104, path[n]) = <<>>
      /\ \A n \in DOMAIN user : user[n] \in Byte /\ BitOwner(106, user[n]) = <<>>
  BY <1>4 DEF Byte
<1>7. PathResets = Fields(104, path) /\ UserResets = Fields(106, user)
  BY DEF PathResets, UserResets
<1> HIDE DEF Open, path, user
<1>8. Open(Fields(104, path)) /\ Open(Fields(106, user))
  BY <1>2, <1>3, <1>6
<1>9. Open(Resets)
  BY <1>1, <1>7, <1>8 DEF Resets
<1> QED BY <1>5, <1>9 DEF Open

----------------------------------------------------------------------------
(* Setters and getters of the motion sensor.                               *)

\* GettersAgree, and what the getters are at their start; imu_task() gives no setting a claim.
SettingsAgree ==
  \A s \in DOMAIN settings \cap DOMAIN Settings :
    Settings[s][1] \notin spoiled => Got(regs[Settings[s][1]], Settings[s]) = settings[s]
StatusesAgree ==
  \A n \in DOMAIN StatusFields :
    Got(regs[StatusFields[n][1]], StatusFields[n]) # {} <=> <<n>> \in DOMAIN settings
TransferInv ==
  /\ half \in {"api", "imu"}
  /\ half = "imu" => DOMAIN settings = {}
  /\ half = "api" => DOMAIN regs = SensorRegisters /\ SettingsAgree /\ StatusesAgree

\* What other fields hold stays when a field is written.
LEMMA OthersLeft ==
  ASSUME DOMAIN regs = SensorRegisters, NEW g, NEW o, BelongsTo(g, o), NEW y,
         \A f : BitsOf(f) \cap BitsOf(g) = {} => Got(y, f) = Got(regs[g[1]], f),
         regs' = [regs EXCEPT ![g[1]] = y]
  PROVE  /\ DOMAIN regs' = SensorRegisters
         /\ \A s \in DOMAIN Settings : s # o =>
              Got(regs'[Settings[s][1]], Settings[s]) = Got(regs[Settings[s][1]], Settings[s])
         /\ \A n \in DOMAIN StatusFields : <<n>> # o =>
              Got(regs'[StatusFields[n][1]], StatusFields[n])
                = Got(regs[StatusFields[n][1]], StatusFields[n])
<1>1. ASSUME NEW f, NEW s, BelongsTo(f, s), s # o PROVE Got(regs'[f[1]], f) = Got(regs[f[1]], f)
  <2>1. f[1] \in SensorRegisters
    BY <1>1 DEF BelongsTo, IsField
  <2>2. CASE f[1] = g[1]
    <3>1. BitsOf(f) \cap BitsOf(g) = {}
      BY <1>1, <2>2, Apart
    <3> QED BY <2>1, <2>2, <3>1
  <2>3. CASE f[1] # g[1]
    BY <2>1, <2>3
  <2> QED BY <2>2, <2>3
<1>2. \A f, s : BelongsTo(f, s) /\ s # o => Got(regs'[f[1]], f) = Got(regs[f[1]], f)
  BY <1>1
<1>3. \A s \in DOMAIN Settings : BelongsTo(Settings[s], s)
  BY SettingOwns
<1>4. \A n \in DOMAIN StatusFields : BelongsTo(StatusFields[n], <<n>>)
  BY StatusesOwned DEF Owned
<1>5. DOMAIN regs' = SensorRegisters
  OBVIOUS
<1>6. ASSUME NEW s \in DOMAIN Settings, s # o
      PROVE  Got(regs'[Settings[s][1]], Settings[s]) = Got(regs[Settings[s][1]], Settings[s])
  BY <1>2, <1>3, <1>6
<1>7. ASSUME NEW n \in DOMAIN StatusFields, <<n>> # o
      PROVE  Got(regs'[StatusFields[n][1]], StatusFields[n]) = Got(regs[StatusFields[n][1]], StatusFields[n])
  BY <1>2, <1>4, <1>7
<1> QED BY <1>5, <1>6, <1>7

\* A setter's call: what it has written is read, the rest as before.
LEMMA SetCall ==
  ASSUME TransferInv, half = "api", NEW s \in DOMAIN Settings, NEW v \in SettingValues(Settings[s]),
         Set(s, v)
  PROVE  TransferInv'
<1> DEFINE f == Settings[s]
           y == PutField(regs[f[1]], f, v)
           kept == ByteBits(IF f[3] = 1 THEN v ELSE v % 2^f[3])
<1>1. BelongsTo(f, s) /\ IsField(f) /\ \A n \in DOMAIN StatusFields : <<n>> # s
  BY SettingOwns DEF BelongsTo
<1>2. /\ regs' = [regs EXCEPT ![f[1]] = y] /\ Keep(s, kept)
      /\ half' = half /\ spoiled' = spoiled
  BY DEF Set
<1>3. DOMAIN regs = SensorRegisters /\ SettingsAgree /\ StatusesAgree
  BY DEF TransferInv
<1>4. Got(y, f) = kept
  <2>1. v \in {0, 1, 255} /\ (f[3] = 1 => v \in {0, 1})
    BY DEF SettingValues
  <2> QED BY <1>1, <2>1, PutOwn
<1>5. \A g : BitsOf(g) \cap BitsOf(f) = {} => Got(y, g) = Got(regs[f[1]], g)
  BY PutElsewhere
<1> HIDE DEF f, y, kept
<1>6. /\ DOMAIN regs' = SensorRegisters
      /\ \A t \in DOMAIN Settings : t # s =>
           Got(regs'[Settings[t][1]], Settings[t]) = Got(regs[Settings[t][1]], Settings[t])
      /\ \A n \in DOMAIN StatusFields : <<n>> # s =>
           Got(regs'[StatusFields[n][1]], StatusFields[n])
             = Got(regs[StatusFields[n][1]], StatusFields[n])
  BY <1>1, <1>2, <1>3, <1>5, OthersLeft
<1>7. /\ DOMAIN settings' = DOMAIN settings \cup {s} /\ settings'[s] = kept
      /\ \A t \in DOMAIN settings : t # s => settings'[t] = settings[t]
  BY <1>2 DEF Keep
<1>8. Got(regs'[f[1]], f) = kept
  BY <1>1, <1>2, <1>3, <1>4 DEF IsField
<1>9. SettingsAgree'
  <2> SUFFICES ASSUME NEW t \in DOMAIN settings' \cap DOMAIN Settings, Settings[t][1] \notin spoiled'
               PROVE  Got(regs'[Settings[t][1]], Settings[t]) = settings'[t]
    BY DEF SettingsAgree
  <2>1. CASE t = s
    BY <1>7, <1>8, <2>1 DEF f
  <2>2. CASE t # s
    BY <1>2, <1>3, <1>6, <1>7, <2>2 DEF SettingsAgree
  <2> QED BY <2>1, <2>2
<1>10. StatusesAgree'
  <2> SUFFICES ASSUME NEW n \in DOMAIN StatusFields
               PROVE  Got(regs'[StatusFields[n][1]], StatusFields[n]) # {} <=> <<n>> \in DOMAIN settings'
    BY DEF StatusesAgree
  <2>1. <<n>> # s
    BY <1>1
  <2> QED BY <1>3, <1>6, <1>7, <2>1 DEF StatusesAgree
<1> QED BY <1>2, <1>6, <1>9, <1>10 DEF TransferInv

\* A setter that wrote without having read spoils its register.
LEMMA UnreadCall ==
  ASSUME TransferInv, half = "api", NEW s \in DOMAIN Settings, NEW v, SetUnread(s, v)
  PROVE  TransferInv'
<1> DEFINE f == Settings[s]
<1>1. PICK y : regs' = [regs EXCEPT ![f[1]] = y]
  BY DEF SetUnread
<1>2. /\ Forget({s}) /\ spoiled' = spoiled \cup {f[1]} /\ half' = half
  BY DEF SetUnread
<1>3. DOMAIN regs = SensorRegisters /\ SettingsAgree /\ StatusesAgree
  BY DEF TransferInv
<1>4. BelongsTo(f, s) /\ s # <<>> /\ \A n \in DOMAIN StatusFields : <<n>> # s
  BY SettingOwns
<1> HIDE DEF f
<1>5. f[1] \notin StatusRegs
  BY <1>4, StatusesAside
<1>6. /\ DOMAIN regs' = SensorRegisters
      /\ \A r \in SensorRegisters : r # f[1] => regs'[r] = regs[r]
  BY <1>1, <1>3
<1>7. /\ DOMAIN settings' = DOMAIN settings \ {s}
      /\ \A t \in DOMAIN settings' : settings'[t] = settings[t]
  BY <1>2 DEF Forget
<1>8. SettingsAgree'
  <2> SUFFICES ASSUME NEW t \in DOMAIN settings' \cap DOMAIN Settings, Settings[t][1] \notin spoiled'
               PROVE  Got(regs'[Settings[t][1]], Settings[t]) = settings'[t]
    BY DEF SettingsAgree
  <2>1. Settings[t][1] \in SensorRegisters
    BY SettingOwns DEF BelongsTo, IsField
  <2>2. regs'[Settings[t][1]] = regs[Settings[t][1]]
    BY <1>2, <1>6, <2>1
  <2> QED BY <1>2, <1>3, <1>7, <2>2 DEF SettingsAgree
<1>9. StatusesAgree'
  <2> SUFFICES ASSUME NEW n \in DOMAIN StatusFields
               PROVE  Got(regs'[StatusFields[n][1]], StatusFields[n]) # {} <=> <<n>> \in DOMAIN settings'
    BY DEF StatusesAgree
  <2>1. <<n>> # s /\ StatusFields[n][1] \in StatusRegs /\ StatusFields[n][1] \in SensorRegisters
    BY <1>4, StatusWhere DEF StatusRegs, SensorRegisters
  <2>2. regs'[StatusFields[n][1]] = regs[StatusFields[n][1]]
    BY <1>5, <1>6, <2>1
  <2> QED BY <1>3, <1>7, <2>1, <2>2 DEF StatusesAgree
<1> QED BY <1>2, <1>6, <1>8, <1>9 DEF TransferInv

\* One that gave up has changed nothing.
LEMMA RefusedCall ==
  ASSUME TransferInv, NEW s, NEW v, SetRefused(s, v)
  PROVE  TransferInv'
BY DEF TransferInv, SettingsAgree, StatusesAgree, SetRefused

\* Of one whose write failed it is not known whether the field is as asked for.
LEMMA UnsentCall ==
  ASSUME TransferInv, half = "api", NEW s \in DOMAIN Settings, NEW v, SetUnsent(s, v)
  PROVE  TransferInv'
<1> DEFINE f == Settings[s]
           y == PutField(regs[f[1]], f, v)
<1>1. /\ regs' = regs \/ regs' = [regs EXCEPT ![f[1]] = y]
      /\ Forget({s}) /\ half' = half /\ spoiled' = spoiled
  BY DEF SetUnsent
<1>2. BelongsTo(f, s) /\ \A n \in DOMAIN StatusFields : <<n>> # s
  BY SettingOwns
<1>3. DOMAIN regs = SensorRegisters /\ SettingsAgree /\ StatusesAgree
  BY DEF TransferInv
<1>4. \A g : BitsOf(g) \cap BitsOf(f) = {} => Got(y, g) = Got(regs[f[1]], g)
  BY PutElsewhere
<1> HIDE DEF f, y
<1>5. /\ DOMAIN regs' = SensorRegisters
      /\ \A t \in DOMAIN Settings : t # s =>
           Got(regs'[Settings[t][1]], Settings[t]) = Got(regs[Settings[t][1]], Settings[t])
      /\ \A n \in DOMAIN StatusFields : <<n>> # s =>
           Got(regs'[StatusFields[n][1]], StatusFields[n])
             = Got(regs[StatusFields[n][1]], StatusFields[n])
  <2>1. CASE regs' = regs
    BY <1>3, <2>1
  <2>2. CASE regs' = [regs EXCEPT ![f[1]] = y]
    BY <1>2, <1>3, <1>4, <2>2, OthersLeft
  <2> QED BY <1>1, <2>1, <2>2
<1>6. /\ DOMAIN settings' = DOMAIN settings \ {s}
      /\ \A t \in DOMAIN settings' : settings'[t] = settings[t]
  BY <1>1 DEF Forget
<1>7. SettingsAgree'
  BY <1>1, <1>3, <1>5, <1>6 DEF SettingsAgree
<1>8. StatusesAgree'
  BY <1>2, <1>3, <1>5, <1>6 DEF StatusesAgree
<1> QED BY <1>1, <1>5, <1>7, <1>8 DEF TransferInv

\* setIntEnabled() writes all settings of its register.
LEMMA IntEnabledCall == ASSUME TransferInv, half = "api", SetIntEnabled PROVE TransferInv'
<1>1. PICK y : regs' = [regs EXCEPT ![56] = y]
  BY DEF SetIntEnabled
<1> DEFINE gone == {s \in DOMAIN settings \cap DOMAIN Settings : Settings[s][1] = 56}
<1>2. Forget(gone) /\ spoiled' = spoiled \ {56} /\ half' = half
  BY DEF SetIntEnabled
<1>3. DOMAIN regs = SensorRegisters /\ SettingsAgree /\ StatusesAgree
  BY DEF TransferInv
<1>4. /\ DOMAIN regs' = SensorRegisters
      /\ \A r \in SensorRegisters : r # 56 => regs'[r] = regs[r]
  BY <1>1, <1>3
<1>5. /\ DOMAIN settings' = DOMAIN settings \ gone
      /\ \A t \in DOMAIN settings' : settings'[t] = settings[t]
  BY <1>2 DEF Forget
<1>6. SettingsAgree'
  <2> SUFFICES ASSUME NEW t \in DOMAIN settings' \cap DOMAIN Settings, Settings[t][1] \notin spoiled'
               PROVE  Got(regs'[Settings[t][1]], Settings[t]) = settings'[t]
    BY DEF SettingsAgree
  <2>1. Settings[t][1] \in SensorRegisters
    BY SettingOwns DEF BelongsTo, IsField
  <2>2. Settings[t][1] # 56
    BY <1>5
  <2>3. regs'[Settings[t][1]] = regs[Settings[t][1]] /\ Settings[t][1] \notin spoiled
    BY <1>2, <1>4, <2>1, <2>2
  <2> QED BY <1>3, <1>5, <2>3 DEF SettingsAgree
<1>7. StatusesAgree'
  <2> SUFFICES ASSUME NEW n \in DOMAIN StatusFields
               PROVE  Got(regs'[StatusFields[n][1]], StatusFields[n]) # {} <=> <<n>> \in DOMAIN settings'
    BY DEF StatusesAgree
  <2>1. StatusFields[n][1] \in StatusRegs /\ \A s \in DOMAIN Settings : s # <<n>>
    BY StatusWhere, SettingOwns
  <2>2. regs'[StatusFields[n][1]] = regs[StatusFields[n][1]]
    BY <1>4, <2>1 DEF StatusRegs, SensorRegisters
  <2> QED BY <1>3, <1>5, <2>1, <2>2 DEF StatusesAgree
<1> QED BY <1>2, <1>4, <1>6, <1>7 DEF TransferInv

\* Registers that no setting is in may be written.
LEMMA OpenWrite ==
  ASSUME TransferInv, half = "api", DOMAIN regs' = SensorRegisters,
         \A r \in SensorRegisters \ OpenRegs : regs'[r] = regs[r],
         UNCHANGED <<half, settings, spoiled>>
  PROVE  TransferInv'
<1>1. SettingsAgree /\ StatusesAgree
  BY DEF TransferInv
<1>2. \A s \in DOMAIN Settings : Settings[s][1] \in SensorRegisters \ OpenRegs
  BY SettingOwns, OpenNotOwned DEF BelongsTo, IsField
<1>3. \A n \in DOMAIN StatusFields : StatusFields[n][1] \in SensorRegisters \ OpenRegs
  BY StatusWhere DEF StatusRegs, SensorRegisters, OpenRegs
<1>4. SettingsAgree'
  BY <1>1, <1>2 DEF SettingsAgree
<1>5. StatusesAgree'
  BY <1>1, <1>3 DEF StatusesAgree
<1> QED BY <1>4, <1>5 DEF TransferInv

\* The slaves' output bytes are in such registers.
LEMMA OutputCall == ASSUME TransferInv, half = "api", SetOutputByte PROVE TransferInv'
<1>1. PICK r \in {51, 99, 100, 101, 102, 116} : regs' = [regs EXCEPT ![r] = Byte]
  BY DEF SetOutputByte
<1>2. r \in OpenRegs /\ DOMAIN regs = SensorRegisters /\ UNCHANGED <<half, settings, spoiled>>
  BY DEF OpenRegs, TransferInv, SetOutputByte
<1>3. DOMAIN regs' = SensorRegisters /\ \A q \in SensorRegisters \ OpenRegs : regs'[q] = regs[q]
  BY <1>1, <1>2
<1> QED BY <1>2, <1>3, OpenWrite

\* So are the offsets.
LEMMA OffsetCall == ASSUME TransferInv, half = "api", SetOffset PROVE TransferInv'
<1>1. PICK n, byte : n \in DOMAIN OffsetWords /\ regs' = setOffset(regs, n, {}, byte)
  BY DEF SetOffset
<1>2. OffsetWords[n] \in OpenRegs /\ OffsetWords[n] + 1 \in OpenRegs
  BY <1>1 DEF OffsetWords, OpenRegs
<1>3. DOMAIN regs = SensorRegisters /\ UNCHANGED <<half, settings, spoiled>>
  BY DEF TransferInv, SetOffset
<1>4. DOMAIN regs' = SensorRegisters /\ \A q \in SensorRegisters \ OpenRegs : regs'[q] = regs[q]
  BY <1>1, <1>2, <1>3 DEF setOffset
<1> QED BY <1>3, <1>4, OpenWrite

\* A bit that resets something is no setting.
LEMMA TriggerCall == ASSUME TransferInv, half = "api", Trigger PROVE TransferInv'
<1>1. PICK f, y : /\ BelongsTo(f, <<>>) /\ regs' = [regs EXCEPT ![f[1]] = y]
                  /\ \A g : BitsOf(g) \cap BitsOf(f) = {} => Got(y, g) = Got(regs[f[1]], g)
  <2>1. CASE \E n \in DOMAIN Resets :
               LET f == Resets[n]
               IN  regs' = [regs EXCEPT ![f[1]] = PutField(PutField(@, f, 1), f, 0)]
    <3> PICK n \in DOMAIN Resets :
               regs' = [regs EXCEPT ![Resets[n][1]] = PutField(PutField(@, Resets[n], 1), Resets[n], 0)]
      BY <2>1
    <3> DEFINE f == Resets[n]
               x == PutField(regs[f[1]], f, 1)
               y == PutField(x, f, 0)
    <3>1. BelongsTo(f, <<>>) /\ regs' = [regs EXCEPT ![f[1]] = y]
      BY ResetsOpen
    <3>2. ASSUME NEW g, BitsOf(g) \cap BitsOf(f) = {} PROVE Got(y, g) = Got(regs[f[1]], g)
      <4>1. Got(x, g) = Got(regs[f[1]], g)
        BY <3>2, PutElsewhere
      <4>2. Got(y, g) = Got(x, g)
        BY <3>2, PutElsewhere
      <4> QED BY <4>1, <4>2
    <3> HIDE DEF f, y
    <3> QED BY <3>1, <3>2
  <2>2. CASE \E v \in {0, 1} : regs' = [regs EXCEPT ![1] = PutField(@, AuxVDDIOLevel, v)]
    <3> PICK v \in {0, 1} : regs' = [regs EXCEPT ![1] = PutField(@, AuxVDDIOLevel, v)]
      BY <2>2
    <3> DEFINE f == AuxVDDIOLevel
               y == PutField(regs[f[1]], f, v)
    <3>1. f[1] = 1
      BY DEF AuxVDDIOLevel, Field
    <3>2. BelongsTo(f, <<>>) /\ regs' = [regs EXCEPT ![f[1]] = y]
      BY <3>1, ResetsOpen
    <3>3. \A g : BitsOf(g) \cap BitsOf(f) = {} => Got(y, g) = Got(regs[f[1]], g)
      BY PutElsewhere
    <3> HIDE DEF f, y
    <3> QED BY <3>2, <3>3
  <2> QED BY <2>1, <2>2 DEF Trigger
<1>2. DOMAIN regs = SensorRegisters /\ SettingsAgree /\ StatusesAgree
  BY DEF TransferInv
<1>3. UNCHANGED <<half, settings, spoiled>>
  BY DEF Trigger
<1>4. /\ \A s \in DOMAIN Settings : s # <<>>
      /\ \A n \in DOMAIN StatusFields : <<n>> # <<>>
  BY SettingOwns
<1>5. /\ DOMAIN regs' = SensorRegisters
      /\ \A t \in DOMAIN Settings : t # <<>> =>
           Got(regs'[Settings[t][1]], Settings[t]) = Got(regs[Settings[t][1]], Settings[t])
      /\ \A n \in DOMAIN StatusFields : <<n>> # <<>> =>
           Got(regs'[StatusFields[n][1]], StatusFields[n])
             = Got(regs[StatusFields[n][1]], StatusFields[n])
  BY <1>1, <1>2, OthersLeft
<1>6. SettingsAgree'
  BY <1>2, <1>3, <1>4, <1>5 DEF SettingsAgree
<1>7. StatusesAgree'
  BY <1>2, <1>3, <1>4, <1>5 DEF StatusesAgree
<1> QED BY <1>3, <1>5, <1>6, <1>7 DEF TransferInv

\* An event sets the bit of its own getter only.
LEMMA StatusCall ==
  ASSUME TransferInv, half = "api", NEW g, NEW s, BelongsTo(g, s), g[3] = 1,
         \A m \in DOMAIN StatusFields : <<m>> = s => StatusFields[m] = g,
         \A t \in DOMAIN Settings : t # s,
         NEW y, Got(y, g) = {0},
         \A f : BitsOf(f) \cap BitsOf(g) = {} => Got(y, f) = Got(regs[g[1]], f),
         regs' = [regs EXCEPT ![g[1]] = y],
         Keep(s, {0}), half' = half, spoiled' = spoiled
  PROVE  TransferInv'
<1>1. DOMAIN regs = SensorRegisters /\ SettingsAgree /\ StatusesAgree
  BY DEF TransferInv
<1>2. IsField(g)
  BY DEF BelongsTo
<1>3. /\ DOMAIN regs' = SensorRegisters
      /\ \A t \in DOMAIN Settings : t # s =>
           Got(regs'[Settings[t][1]], Settings[t]) = Got(regs[Settings[t][1]], Settings[t])
      /\ \A n \in DOMAIN StatusFields : <<n>> # s =>
           Got(regs'[StatusFields[n][1]], StatusFields[n])
             = Got(regs[StatusFields[n][1]], StatusFields[n])
  <2>1. DOMAIN regs = SensorRegisters
    BY <1>1
  <2> QED BY <2>1, OthersLeft, ZenonT(60)
<1>4. /\ DOMAIN settings' = DOMAIN settings \cup {s}
      /\ \A t \in DOMAIN settings : t # s => settings'[t] = settings[t]
  BY DEF Keep
<1>5. Got(regs'[g[1]], g) = {0}
  BY <1>1, <1>2 DEF IsField
<1>6. SettingsAgree'
  BY <1>1, <1>3, <1>4 DEF SettingsAgree
<1>7. StatusesAgree'
  <2> SUFFICES ASSUME NEW m \in DOMAIN StatusFields
               PROVE  Got(regs'[StatusFields[m][1]], StatusFields[m]) # {} <=> <<m>> \in DOMAIN settings'
    BY DEF StatusesAgree
  <2>1. CASE <<m>> = s
    BY <1>4, <1>5, <2>1
  <2>2. CASE <<m>> # s
    BY <1>1, <1>3, <1>4, <2>2 DEF StatusesAgree
  <2> QED BY <2>1, <2>2
<1> QED BY <1>3, <1>6, <1>7 DEF TransferInv

\* A status has one bit.
LEMMA StatusBits == \A m \in DOMAIN StatusFields : StatusFields[m][3] = 1
<1> DEFINE One(g) == \A m \in DOMAIN g : g[m][3] = 1
<1>1. \A g, h : One(g) /\ One(h) => One(Beside(g, h))
  BY DEF Beside
<1>2. \A r, names : One(Fields(r, names))
  BY DEF Fields, Field
<1> HIDE DEF One
<1>3. One(DmpStatuses) /\ One(Statuses) /\ One(InterruptStatuses) /\ One(MotionStatuses)
  BY <1>1, <1>2 DEF DmpStatuses, Statuses, InterruptStatuses, MotionStatuses
<1>4. One(StatusFields)
  BY <1>1, <1>3 DEF StatusFields
<1> QED BY <1>4 DEF One

\* The module raises a status: its getter tells of it, no other getter changes.
LEMMA RaiseCall == ASSUME TransferInv, half = "api", Raise PROVE TransferInv'
<1>1. PICK n \in DOMAIN StatusFields :
        /\ regs' = [regs EXCEPT ![StatusFields[n][1]] = PutField(@, StatusFields[n], 1)]
        /\ Keep(<<n>>, {0})
  BY DEF Raise
<1>2. PICK s, g, y : /\ s = <<n>> /\ g = StatusFields[n]
                     /\ y = PutField(regs[g[1]], g, 1)
  OBVIOUS
<1>3. /\ regs' = [regs EXCEPT ![g[1]] = y] /\ Keep(s, {0})
      /\ half' = half /\ spoiled' = spoiled
  BY <1>1, <1>2 DEF Raise
<1>4. /\ BelongsTo(g, s) /\ g[3] = 1
      /\ \A m \in DOMAIN StatusFields : <<m>> = s => StatusFields[m] = g
  BY <1>2, StatusBits, StatusesOwned DEF Owned
<1>5. \A t \in DOMAIN Settings : t # s
  BY <1>2, SettingOwns
<1>6. Got(y, g) = {0}
  BY <1>2, <1>4, PutOwn, ByteKnown DEF BelongsTo
<1>7. \A f : BitsOf(f) \cap BitsOf(g) = {} => Got(y, f) = Got(regs[g[1]], f)
  BY <1>2, PutElsewhere
<1> QED BY <1>3, <1>4, <1>5, <1>6, <1>7, StatusCall

\* After a reset nothing is set and nothing is told.
LEMMA NothingTold == \A f : Got({}, f) = {}
BY DEF Got, ReadBit, Read

\* A reset puts 0 into every register and forgets every setting.
LEMMA ResetCall == ASSUME TransferInv, half = "api", Reset PROVE TransferInv'
<1>1. regs' = AfterReset /\ half' = half /\ Forget(DOMAIN settings)
  BY DEF Reset
<1>2. DOMAIN settings' = {}
  BY <1>1 DEF Forget
<1>3. DOMAIN regs' = SensorRegisters /\ \A r \in StatusRegs : regs'[r] = {}
  BY <1>1 DEF AfterReset, StatusRegs, SensorRegisters
<1>4. StatusesAgree'
  BY <1>2, <1>3, NothingTold, StatusWhere DEF StatusesAgree
<1> QED BY <1>1, <1>2, <1>3, <1>4 DEF TransferInv, SettingsAgree

\* At the start nothing is set.
LEMMA TransferStart == ASSUME SensorInit PROVE TransferInv
<1>1. DOMAIN settings = {} /\ half \in {"api", "imu"}
  BY DEF SensorInit
<1>2. ASSUME half = "api" PROVE DOMAIN regs = SensorRegisters /\ \A r \in StatusRegs : regs[r] = {}
  <2>1. PICK byte : regs = [r \in SensorRegisters |-> IF r \in StatusRegs THEN {} ELSE byte]
    BY <1>2 DEF SensorInit, StatusRegs
  <2> QED BY <2>1 DEF StatusRegs, SensorRegisters
<1>3. half = "api" => StatusesAgree
  BY <1>1, <1>2, NothingTold, StatusWhere DEF StatusesAgree
<1> QED BY <1>1, <1>2, <1>3 DEF TransferInv, SettingsAgree

\* Every step keeps the agreement.
LEMMA TransferStep == ASSUME TransferInv, [SensorNext]_sensorVars PROVE TransferInv'
<1>1. ASSUME UNCHANGED <<half, regs, settings, spoiled>> PROVE TransferInv'
  BY <1>1 DEF TransferInv, SettingsAgree, StatusesAgree
<1>2. ASSUME half = "imu", UNCHANGED <<half, settings>> PROVE TransferInv'
  BY <1>2 DEF TransferInv
<1>3. ASSUME NEW s \in DOMAIN Settings, NEW v \in SettingValues(Settings[s]),
             Set(s, v) \/ SetUnread(s, v) \/ SetRefused(s, v) \/ SetUnsent(s, v)
      PROVE  TransferInv'
  <2>1. half = "api"
    BY <1>3 DEF Set, SetUnread, SetRefused, SetUnsent, Called
  <2> QED BY <1>3, <2>1, SetCall, UnreadCall, RefusedCall, UnsentCall
<1>4. ASSUME SetIntEnabled \/ SetOutputByte \/ SetOffset \/ Trigger \/ Raise \/ Reset
      PROVE  TransferInv'
  <2>1. half = "api"
    BY <1>4 DEF SetIntEnabled, SetOutputByte, SetOffset, Trigger, Raise, Reset, Called
  <2> QED BY <1>4, <2>1, IntEnabledCall, OutputCall, OffsetCall, TriggerCall, RaiseCall, ResetCall
<1>5. ASSUME Initialize \/ InitFails \/ Turn PROVE TransferInv'
  BY <1>2, <1>5 DEF Initialize, InitFails, Turn, apiVars
<1>6. CASE UNCHANGED sensorVars
  BY <1>1, <1>6 DEF sensorVars
<1> QED BY <1>3, <1>4, <1>5, <1>6 DEF SensorNext

\* The words of a reading are where the getters of the axes look for them.
LEMMA WordsHold == WordsAgree
<1> DEFINE W(at) == [n \in {"ax", "ay", "az", "gx", "gy", "gz"} |-> <<at[n], at[n] + 1>>]
           Places == [ax |-> 59, ay |-> 61, az |-> 63, gx |-> 67, gy |-> 69, gz |-> 71]
<1>1. getMotion6 = W(Places)
  BY DEF getMotion6, Words, Burst
<1>2. getAcceleration = [n \in {"ax", "ay", "az"} |-> <<Places[n], Places[n] + 1>>]
  BY DEF getAcceleration, Words, Burst
<1>3. getRotation = [n \in {"gx", "gy", "gz"} |-> <<Places[n], Places[n] + 1>>]
  BY DEF getRotation, Words, Burst
<1>4. getMotion6 = Beside(getAcceleration, getRotation)
  BY <1>1, <1>2, <1>3 DEF Beside
<1>5. getMotion6 = Beside(AccelerationAxes, RotationAxes)
  BY <1>1 DEF AccelerationAxes, RotationAxes, Beside, Words, Burst
<1>6. \A length \in {1, 2, 4} : \A position \in 0..(24 - length) :
        \A i \in 0..(length - 1) : getExternalSensor(position, length)[i] \in 73..96
  BY DEF getExternalSensor, Burst
<1>7. getTemperature.temperature \notin {getMotion6[n] : n \in DOMAIN getMotion6}
  BY <1>1 DEF getTemperature, Words, Burst
<1> QED BY <1>4, <1>5, <1>6, <1>7 DEF WordsAgree

\* A getter tells what its setter was last given, or what the sensor has put there, for any
\* number of calls in any order and whatever transfers fail: no two settings share a bit, and a
\* register that was written without having been read is the only one in doubt
\* (MPU6050_set...(), MPU6050_get...(), I2C_writeBits()).
THEOREM TransfersAgreeAlways == SensorSpec => []TransfersAgree
<1>1. TransferInv => TransfersAgree
  BY WordsHold DEF TransferInv, TransfersAgree, GettersAgree, SettingsAgree, StatusesAgree
<1> QED BY <1>1, TransferStart, TransferStep, PTL DEF SensorSpec

=============================================================================
