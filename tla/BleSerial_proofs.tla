------------------------- MODULE BleSerial_proofs -------------------------
(***************************************************************************)
(* Proof that the BLE link is transparent and that each UART ends up in    *)
(* its mode, for every size of the buffers, the queues and the writes, and *)
(* for every number of links and bytes: LinkTransparent of BleSerial.      *)
(***************************************************************************)
EXTENDS BleSerial, TLAPS

EventNames == {"connect", "disconnect", "close", "mtu", "search", "registered", "notify",
               "baud", "data"}
Messages == [event : EventNames, data : Seq(Nat)]

\* The types of the variables.
TypeOK ==
  /\ calm \in BOOLEAN /\ load \in [Boards -> Nat]
  /\ up \in BOOLEAN /\ links \in Nat
  /\ adv \in BOOLEAN /\ scan \in BOOLEAN /\ opening \in BOOLEAN
  /\ found \in BOOLEAN /\ registered \in BOOLEAN /\ notif \in BOOLEAN
  /\ conn \in [Boards -> BOOLEAN] /\ send_callback \in [Boards -> BOOLEAN]
  /\ rx \in [Boards -> BOOLEAN] /\ fast \in [Boards -> BOOLEAN]
  /\ step \in [Boards -> {"none", "enable", "enabled", "disable", "disabled"}]
  /\ btq \in [Boards -> Seq(Messages)]
  /\ ring \in [Boards -> Seq(Nat)] /\ events \in [Boards -> Seq(Nat)]
  /\ out \in [Boards -> Seq(Nat)]
  /\ size \in [Boards -> Nat] /\ typed \in [Boards -> Nat]

----------------------------------------------------------------------------
(* The order of the bytes.                                                 *)

Increasing(s) == \A i, j \in 1..Len(s) : i < j => s[i] < s[j]
Below(s, t) == \A i \in 1..Len(s), j \in 1..Len(t) : s[i] < t[j]
UpTo(s, n) == \A i \in 1..Len(s) : s[i] <= n

\* The way of the bytes of one host: those the other host has received come before those in
\* each message of its Bluetooth task, in the order of the queue, these before those in the
\* driver's buffer, and all of them have been sent.
Chain(o, q, r, n) ==
  /\ Increasing(o) /\ Increasing(r) /\ Below(o, r)
  /\ UpTo(o, n) /\ UpTo(r, n)
  /\ \A k \in 1..Len(q) :
       /\ Increasing(q[k].data) /\ UpTo(q[k].data, n)
       /\ Below(o, q[k].data) /\ Below(q[k].data, r)
  /\ \A k, l \in 1..Len(q) : k < l => Below(q[k].data, q[l].data)

OrderInv == \A b \in Boards : Chain(out[Far(b)], btq[Far(b)], ring[b], typed[b])

\* What is known of the bytes on their way, as the lemmas below suppose it.
OnTheWay(o, q, r, n) ==
  o \in Seq(Nat) /\ q \in Seq(Messages) /\ r \in Seq(Nat) /\ n \in Nat /\ Chain(o, q, r, n)

\* A message without bytes joins the queue.
LEMMA ChainEvent ==
  ASSUME NEW o, NEW q, NEW r, NEW n, OnTheWay(o, q, r, n), NEW e \in EventNames
  PROVE  Append(q, Event(e)) \in Seq(Messages) /\ Chain(o, Append(q, Event(e)), r, n)
<1> DEFINE m == Event(e)
           p == Append(q, m)
<1>1. m \in Messages /\ m.data = <<>> /\ Len(m.data) = 0
  BY DEF Event, Messages
<1>2. /\ p \in Seq(Messages) /\ Len(p) = Len(q) + 1
      /\ \A k \in 1..Len(q) : p[k] = q[k]
      /\ p[Len(q) + 1] = m
  BY <1>1 DEF OnTheWay
<1>3. \A k \in 1..Len(p) : k \in 1..Len(q) \/ k = Len(q) + 1
  BY <1>2 DEF OnTheWay
<1> HIDE DEF m, p
<1>4. \A k \in 1..Len(p) : /\ Increasing(p[k].data) /\ UpTo(p[k].data, n)
                           /\ Below(o, p[k].data) /\ Below(p[k].data, r)
  <2> SUFFICES ASSUME NEW k \in 1..Len(p)
               PROVE  /\ Increasing(p[k].data) /\ UpTo(p[k].data, n)
                      /\ Below(o, p[k].data) /\ Below(p[k].data, r)
    OBVIOUS
  <2>1. CASE k \in 1..Len(q)
    BY <1>2, <2>1 DEF OnTheWay, Chain
  <2>2. CASE k = Len(q) + 1
    <3>1. Len(p[k].data) = 0
      BY <1>1, <1>2, <2>2
    <3> QED BY <3>1 DEF Increasing, UpTo, Below
  <2> QED BY <1>3, <2>1, <2>2
<1>5. \A k, l \in 1..Len(p) : k < l => Below(p[k].data, p[l].data)
  <2> SUFFICES ASSUME NEW k \in 1..Len(p), NEW l \in 1..Len(p), k < l
               PROVE  Below(p[k].data, p[l].data)
    OBVIOUS
  <2>1. CASE l \in 1..Len(q)
    <3>1. k \in 1..Len(q)
      BY <1>2, <1>3, <2>1
    <3> QED BY <1>2, <2>1, <3>1 DEF OnTheWay, Chain
  <2>2. CASE l = Len(q) + 1
    <3>1. Len(p[l].data) = 0
      BY <1>1, <1>2, <2>2
    <3> QED BY <3>1 DEF Below
  <2> QED BY <1>3, <2>1, <2>2
<1> QED BY <1>2, <1>4, <1>5 DEF OnTheWay, Chain, m, p

\* The task is done with the message at the head of its queue.
LEMMA ChainTail ==
  ASSUME NEW o, NEW q, NEW r, NEW n, OnTheWay(o, q, r, n), q # <<>>
  PROVE  Tail(q) \in Seq(Messages) /\ Chain(o, Tail(q), r, n)
<1>1. /\ Tail(q) \in Seq(Messages) /\ Len(Tail(q)) = Len(q) - 1
      /\ \A k \in 1..Len(q) - 1 : Tail(q)[k] = q[k + 1] /\ k + 1 \in 1..Len(q)
  BY DEF OnTheWay
<1> QED BY <1>1 DEF OnTheWay, Chain

\* The bytes at the head of the queue go out.
LEMMA ChainDeliver ==
  ASSUME NEW o, NEW q, NEW r, NEW n, OnTheWay(o, q, r, n), q # <<>>
  PROVE  /\ o \o Head(q).data \in Seq(Nat) /\ Tail(q) \in Seq(Messages)
         /\ Chain(o \o Head(q).data, Tail(q), r, n)
<1> DEFINE d == Head(q).data
           s == o \o d
<1>1. /\ Tail(q) \in Seq(Messages) /\ Len(Tail(q)) = Len(q) - 1
      /\ \A k \in 1..Len(q) - 1 : Tail(q)[k] = q[k + 1] /\ k + 1 \in 1..Len(q)
      /\ 1 \in 1..Len(q) /\ d = q[1].data /\ q[1] \in Messages
  BY DEF OnTheWay
<1>2. /\ d \in Seq(Nat) /\ Increasing(d) /\ UpTo(d, n) /\ Below(o, d) /\ Below(d, r)
      /\ \A k \in 1..Len(q) - 1 : Below(d, Tail(q)[k].data)
  BY <1>1 DEF OnTheWay, Chain, Messages
<1>3. o \in Seq(Nat) /\ r \in Seq(Nat) /\ n \in Nat
  BY DEF OnTheWay
<1> HIDE DEF d
<1>4. /\ s \in Seq(Nat) /\ Len(s) = Len(o) + Len(d)
      /\ \A i \in 1..Len(s) : \/ i \in 1..Len(o) /\ s[i] = o[i]
                              \/ i - Len(o) \in 1..Len(d) /\ s[i] = d[i - Len(o)]
  BY <1>2, <1>3
<1> HIDE DEF s
<1>5. Increasing(s)
  <2>1. Increasing(o) /\ Increasing(d) /\ Below(o, d)
    BY <1>2 DEF OnTheWay, Chain
  <2> SUFFICES ASSUME NEW i \in 1..Len(s), NEW j \in 1..Len(s), i < j PROVE s[i] < s[j]
    BY DEF Increasing
  <2>2. Len(o) \in Nat /\ Len(d) \in Nat
    BY <1>2, <1>3
  <2>3. CASE j \in 1..Len(o) /\ s[j] = o[j]
    <3>1. i \in 1..Len(o) /\ s[i] = o[i]
      BY <1>4, <2>2, <2>3
    <3> QED BY <2>1, <2>3, <3>1 DEF Increasing
  <2>4. CASE /\ i \in 1..Len(o) /\ s[i] = o[i]
             /\ j - Len(o) \in 1..Len(d) /\ s[j] = d[j - Len(o)]
    BY <2>1, <2>4 DEF Below
  <2>5. CASE /\ i - Len(o) \in 1..Len(d) /\ s[i] = d[i - Len(o)]
             /\ j - Len(o) \in 1..Len(d) /\ s[j] = d[j - Len(o)]
    <3>1. i - Len(o) < j - Len(o)
      BY <1>4, <2>2
    <3> QED BY <2>1, <2>5, <3>1 DEF Increasing
  <2> QED BY <1>4, <2>3, <2>4, <2>5
<1>6. UpTo(s, n)
  BY <1>2, <1>3, <1>4 DEF OnTheWay, Chain, UpTo
<1>7. ASSUME NEW t, Below(o, t), Below(d, t) PROVE Below(s, t)
  BY <1>4, <1>7 DEF Below
<1>8. Below(s, r) /\ \A k \in 1..Len(Tail(q)) : Below(s, Tail(q)[k].data)
  BY <1>1, <1>2, <1>7 DEF OnTheWay, Chain
<1>9. Chain(o, Tail(q), r, n)
  BY ChainTail
<1> QED BY <1>1, <1>4, <1>5, <1>6, <1>8, <1>9 DEF Chain, s, d

\* The driver's buffer loses bytes at its front, or all of them.
LEMMA ChainDrop ==
  ASSUME NEW o, NEW q, NEW r, NEW n, OnTheWay(o, q, r, n), NEW m \in 0..Len(r)
  PROVE  /\ SubSeq(r, m + 1, Len(r)) \in Seq(Nat)
         /\ Chain(o, q, SubSeq(r, m + 1, Len(r)), n)
<1> DEFINE s == SubSeq(r, m + 1, Len(r))
<1>1. /\ r \in Seq(Nat) /\ q \in Seq(Messages) /\ n \in Nat
  BY DEF OnTheWay
<1>2. /\ s \in Seq(Nat) /\ Len(s) = Len(r) - m
      /\ \A i \in 1..Len(s) : s[i] = r[i + m] /\ i + m \in 1..Len(r)
  BY <1>1
<1> HIDE DEF s
<1>3. Increasing(s) /\ UpTo(s, n)
  <2>1. Increasing(r) /\ UpTo(r, n)
    BY DEF OnTheWay, Chain
  <2>2. Len(r) \in Nat /\ m \in Nat
    BY <1>1
  <2>3. ASSUME NEW i \in 1..Len(s), NEW j \in 1..Len(s), i < j PROVE s[i] < s[j]
    <3>1. i + m < j + m
      BY <1>2, <2>2, <2>3
    <3> QED BY <1>2, <2>1, <3>1 DEF Increasing
  <2>4. UpTo(s, n)
    BY <1>2, <2>1 DEF UpTo
  <2> QED BY <2>3, <2>4 DEF Increasing
<1>4. ASSUME NEW t, Below(t, r) PROVE Below(t, s)
  BY <1>2, <1>4 DEF Below
<1> QED BY <1>2, <1>3, <1>4 DEF OnTheWay, Chain, s

\* A buffer that is emptied.
LEMMA ChainFlush ==
  ASSUME NEW o, NEW q, NEW r, NEW n, OnTheWay(o, q, r, n)
  PROVE  Chain(o, q, <<>>, n)
<1>1. Increasing(<<>>) /\ UpTo(<<>>, n) /\ \A t : Below(t, <<>>)
  BY DEF Increasing, UpTo, Below
<1> QED BY <1>1 DEF OnTheWay, Chain

\* Bytes are read from the front of the buffer and sent to the other board.
LEMMA ChainSend ==
  ASSUME NEW o, NEW q, NEW r, NEW n, OnTheWay(o, q, r, n), NEW m \in 0..Len(r)
  PROVE  /\ Append(q, Write(SubSeq(r, 1, m))) \in Seq(Messages)
         /\ Chain(o, Append(q, Write(SubSeq(r, 1, m))), SubSeq(r, m + 1, Len(r)), n)
<1> DEFINE d == SubSeq(r, 1, m)
           s == SubSeq(r, m + 1, Len(r))
           p == Append(q, Write(d))
<1>1. /\ r \in Seq(Nat) /\ q \in Seq(Messages) /\ n \in Nat /\ o \in Seq(Nat)
  BY DEF OnTheWay
<1>2. /\ d \in Seq(Nat) /\ Len(d) = m
      /\ \A i \in 1..Len(d) : d[i] = r[i] /\ i \in 1..Len(r)
  BY <1>1
<1>3. /\ s \in Seq(Nat) /\ Len(s) = Len(r) - m
      /\ \A i \in 1..Len(s) : s[i] = r[i + m] /\ i + m \in 1..Len(r)
  BY <1>1
<1> HIDE DEF d, s
<1>4. Write(d) \in Messages /\ Write(d).data = d
  BY <1>2 DEF Write, Messages, EventNames
<1>5. /\ p \in Seq(Messages) /\ Len(p) = Len(q) + 1
      /\ \A k \in 1..Len(q) : p[k] = q[k]
      /\ p[Len(q) + 1].data = d
  BY <1>1, <1>4
<1>6. \A k \in 1..Len(p) : k \in 1..Len(q) \/ k = Len(q) + 1
  BY <1>1, <1>5
<1> HIDE DEF p
<1>7. Increasing(d) /\ UpTo(d, n) /\ Below(o, d)
  BY <1>1, <1>2 DEF OnTheWay, Chain, Increasing, UpTo, Below
<1>8. Below(d, s)
  <2> SUFFICES ASSUME NEW i \in 1..Len(d), NEW j \in 1..Len(s) PROVE d[i] < s[j]
    BY DEF Below
  <2>1. i < j + m
    BY <1>1, <1>2, <1>3
  <2> QED BY <1>2, <1>3, <2>1 DEF OnTheWay, Chain, Increasing
<1>9. \A k \in 1..Len(q) : Below(q[k].data, d) /\ Below(q[k].data, s)
  BY <1>2, <1>3 DEF OnTheWay, Chain, Below
<1>10. Chain(o, q, s, n)
  BY ChainDrop DEF s
<1>11. \A k \in 1..Len(p) : /\ Increasing(p[k].data) /\ UpTo(p[k].data, n)
                            /\ Below(o, p[k].data) /\ Below(p[k].data, s)
  BY <1>5, <1>6, <1>7, <1>8, <1>9, <1>10 DEF Chain
<1>12. \A k, l \in 1..Len(p) : k < l => Below(p[k].data, p[l].data)
  <2> SUFFICES ASSUME NEW k \in 1..Len(p), NEW l \in 1..Len(p), k < l
               PROVE  Below(p[k].data, p[l].data)
    OBVIOUS
  <2>1. CASE l \in 1..Len(q)
    <3>1. k \in 1..Len(q)
      BY <1>1, <2>1
    <3> QED BY <1>5, <1>10, <2>1, <3>1 DEF Chain
  <2>2. CASE l = Len(q) + 1
    <3>1. k \in 1..Len(q)
      BY <1>1, <1>5, <2>2
    <3> QED BY <1>5, <1>9, <2>2, <3>1
  <2> QED BY <1>6, <2>1, <2>2
<1> QED BY <1>5, <1>10, <1>11, <1>12 DEF Chain, p, d, s

\* The host sends k bytes, and they get into the buffer, or get lost.
LEMMA ChainReceive ==
  ASSUME NEW o, NEW q, NEW r, NEW n, OnTheWay(o, q, r, n), NEW k \in Nat
  PROVE  /\ Chain(o, q, r, n + k)
         /\ r \o [i \in 1..k |-> n + i] \in Seq(Nat)
         /\ Chain(o, q, r \o [i \in 1..k |-> n + i], n + k)
<1> DEFINE new == [i \in 1..k |-> n + i]
           s == r \o new
<1>1. /\ r \in Seq(Nat) /\ q \in Seq(Messages) /\ n \in Nat /\ o \in Seq(Nat)
  BY DEF OnTheWay
<1>a. ASSUME NEW l \in 1..Len(q) PROVE q[l].data \in Seq(Nat)
  <2>1. q[l] \in Messages
    BY <1>1
  <2> QED BY <2>1 DEF Messages
<1>b. Increasing(r) /\ UpTo(r, n)
  BY DEF OnTheWay, Chain
<1>c. \A l \in 1..Len(r) : r[l] <= n /\ r[l] \in Nat
  BY <1>1, <1>b DEF UpTo
<1>2. new \in Seq(Nat) /\ Len(new) = k /\ \A i \in 1..k : new[i] = n + i
  BY <1>1
<1> HIDE DEF new
<1>3. /\ s \in Seq(Nat) /\ Len(s) = Len(r) + k
      /\ \A i \in 1..Len(s) : \/ i \in 1..Len(r) /\ s[i] = r[i]
                              \/ i - Len(r) \in 1..k /\ s[i] = n + (i - Len(r))
  <2>0. r \in Seq(Nat) /\ new \in Seq(Nat)
    BY <1>1, <1>2
  <2>1. /\ s \in Seq(Nat) /\ Len(s) = Len(r) + Len(new)
        /\ \A i \in 1..Len(s) : \/ i \in 1..Len(r) /\ s[i] = r[i]
                                \/ i - Len(r) \in 1..Len(new) /\ s[i] = new[i - Len(r)]
    BY <2>0
  <2> QED BY <1>2, <2>1
<1> HIDE DEF s
<1>4. ASSUME NEW t \in Seq(Nat), UpTo(t, n) PROVE UpTo(t, n + k)
  BY <1>1, <1>4 DEF UpTo
<1>5. Chain(o, q, r, n + k)
  BY <1>1, <1>a, <1>4 DEF OnTheWay, Chain
<1>6. UpTo(s, n + k)
  <2> SUFFICES ASSUME NEW i \in 1..Len(s) PROVE s[i] <= n + k
    BY DEF UpTo
  <2>1. CASE i \in 1..Len(r) /\ s[i] = r[i]
    BY <1>1, <1>c, <2>1
  <2>2. CASE i - Len(r) \in 1..k /\ s[i] = n + (i - Len(r))
    BY <1>1, <2>2
  <2> QED BY <1>3, <2>1, <2>2
<1>7. Increasing(s)
  <2> SUFFICES ASSUME NEW i \in 1..Len(s), NEW j \in 1..Len(s), i < j PROVE s[i] < s[j]
    BY DEF Increasing
  <2>0. Len(r) \in Nat
    BY <1>1
  <2>1. CASE j \in 1..Len(r) /\ s[j] = r[j]
    <3>1. i \in 1..Len(r) /\ ~(i - Len(r) \in 1..k)
      BY <1>3, <2>0, <2>1
    <3>2. s[i] = r[i]
      BY <1>3, <3>1
    <3> QED BY <1>b, <2>1, <3>1, <3>2 DEF Increasing
  <2>2. CASE j - Len(r) \in 1..k /\ s[j] = n + (j - Len(r))
    <3>1. CASE i \in 1..Len(r) /\ s[i] = r[i]
      BY <1>1, <1>c, <2>2, <3>1
    <3>2. CASE i - Len(r) \in 1..k /\ s[i] = n + (i - Len(r))
      BY <1>1, <1>3, <2>0, <2>2, <3>2
    <3> QED BY <1>3, <3>1, <3>2
  <2> QED BY <1>3, <2>1, <2>2
<1>8. ASSUME NEW t \in Seq(Nat), UpTo(t, n), Below(t, r) PROVE Below(t, s)
  <2> SUFFICES ASSUME NEW i \in 1..Len(t), NEW j \in 1..Len(s) PROVE t[i] < s[j]
    BY DEF Below
  <2>1. t[i] <= n /\ t[i] \in Nat
    BY <1>8 DEF UpTo
  <2>2. \A l \in 1..Len(r) : t[i] < r[l]
    BY <1>8 DEF Below
  <2>3. Len(r) \in Nat
    BY <1>1
  <2>4. CASE j \in 1..Len(r) /\ s[j] = r[j]
    BY <2>2, <2>4
  <2>5. CASE j - Len(r) \in 1..k /\ s[j] = n + (j - Len(r))
    BY <1>1, <2>1, <2>3, <2>5
  <2> QED BY <1>3, <2>4, <2>5
<1> QED BY <1>1, <1>a, <1>3, <1>5, <1>6, <1>7, <1>8 DEF OnTheWay, Chain, s, new

----------------------------------------------------------------------------
(* The queues of the Bluetooth tasks.                                      *)

LinkEvents == {"connect", "disconnect"}
Holds(q, e) == \E i \in 1..Len(q) : q[i].event = e
Quiet(q) == \A i \in 1..Len(q) : q[i].event \notin LinkEvents

\* The last event of the link in a queue is e.
EndsIn(q, e) ==
  \E i \in 1..Len(q) : q[i].event = e /\ \A j \in (i + 1)..Len(q) : q[j].event \notin LinkEvents

\* A queue that gets no message, one, or two.
LEMMA Joins ==
  ASSUME NEW q \in Seq(Messages), NEW m \in Messages, NEW n \in Messages
  PROVE  /\ q \o <<>> = q
         /\ q \o <<m>> = Append(q, m)
         /\ q \o <<m, n>> = Append(Append(q, m), n)
OBVIOUS

\* The messages are of their type.
LEMMA MessageTypes ==
  /\ \A e \in EventNames : Event(e) \in Messages /\ Event(e).event = e
  /\ \A d \in Seq(Nat) : Write(d) \in Messages /\ Write(d).event = "data"
BY DEF Messages, EventNames, Event, Write

\* The head of a queue is taken.
LEMMA QueueTail ==
  ASSUME NEW q \in Seq(Messages), q # <<>>
  PROVE  /\ Tail(q) \in Seq(Messages) /\ Head(q) \in Messages
         /\ Quiet(q) => Quiet(Tail(q))
         /\ \A e : EndsIn(q, e) => \/ EndsIn(Tail(q), e)
                                   \/ Head(q).event = e /\ Quiet(Tail(q))
         /\ \A e : Holds(q, e) => Head(q).event = e \/ Holds(Tail(q), e)
<1>1. /\ Tail(q) \in Seq(Messages) /\ Len(Tail(q)) = Len(q) - 1 /\ Len(q) \in Nat \ {0}
      /\ \A k \in 1..Len(q) - 1 : Tail(q)[k] = q[k + 1]
      /\ Head(q) = q[1] /\ q[1] \in Messages
  OBVIOUS
<1>2. Quiet(q) => Quiet(Tail(q))
  BY <1>1 DEF Quiet
<1>3. ASSUME NEW e, EndsIn(q, e)
      PROVE  EndsIn(Tail(q), e) \/ (Head(q).event = e /\ Quiet(Tail(q)))
  <2>1. PICK i \in 1..Len(q) : /\ q[i].event = e
                               /\ \A j \in (i + 1)..Len(q) : q[j].event \notin LinkEvents
    BY <1>3 DEF EndsIn
  <2>2. CASE i = 1
    BY <1>1, <2>1, <2>2 DEF Quiet
  <2>3. CASE i # 1
    <3>1. i - 1 \in 1..Len(Tail(q)) /\ Tail(q)[i - 1] = q[i]
      BY <1>1, <2>3
    <3>2. \A j \in ((i - 1) + 1)..Len(Tail(q)) : Tail(q)[j].event \notin LinkEvents
      BY <1>1, <2>1
    <3>3. Tail(q)[i - 1].event = e
      BY <2>1, <3>1
    <3> DEFINE w == i - 1
    <3>4. /\ w \in 1..Len(Tail(q)) /\ Tail(q)[w].event = e
          /\ \A j \in (w + 1)..Len(Tail(q)) : Tail(q)[j].event \notin LinkEvents
      BY <3>1, <3>2, <3>3
    <3> HIDE DEF w
    <3> QED BY <3>4 DEF EndsIn
  <2> QED BY <2>2, <2>3
<1>4. ASSUME NEW e, Holds(q, e) PROVE Head(q).event = e \/ Holds(Tail(q), e)
  <2>1. PICK i \in 1..Len(q) : q[i].event = e
    BY <1>4 DEF Holds
  <2>2. i # 1 => i - 1 \in 1..Len(Tail(q)) /\ Tail(q)[i - 1] = q[i]
    BY <1>1
  <2> QED BY <1>1, <2>1, <2>2 DEF Holds
<1> QED BY <1>1, <1>2, <1>3, <1>4

\* A message joins the queue.
LEMMA QueueAppend ==
  ASSUME NEW q \in Seq(Messages), NEW m \in Messages
  PROVE  /\ Append(q, m) \in Seq(Messages) /\ Append(q, m) # <<>>
         /\ q # <<>> => Head(Append(q, m)) = Head(q)
         /\ m.event \notin LinkEvents /\ Quiet(q) => Quiet(Append(q, m))
         /\ \A e : m.event \notin LinkEvents /\ EndsIn(q, e) => EndsIn(Append(q, m), e)
         /\ EndsIn(Append(q, m), m.event)
         /\ \A e : Holds(q, e) => Holds(Append(q, m), e)
         /\ Holds(Append(q, m), m.event)
<1> DEFINE p == Append(q, m)
<1>1. /\ p \in Seq(Messages) /\ Len(p) = Len(q) + 1 /\ Len(q) \in Nat /\ p # <<>>
      /\ \A k \in 1..Len(q) : p[k] = q[k]
      /\ p[Len(q) + 1] = m
  OBVIOUS
<1>7. q # <<>> => Head(p) = Head(q)
  <2>1. q # <<>> => 1 \in 1..Len(q) /\ Head(q) = q[1]
    OBVIOUS
  <2>2. Head(p) = p[1]
    BY <1>1
  <2> QED BY <1>1, <2>1, <2>2
<1> HIDE DEF p
<1>2. m.event \notin LinkEvents /\ Quiet(q) => Quiet(p)
  BY <1>1 DEF Quiet
<1>3. ASSUME NEW e, m.event \notin LinkEvents, EndsIn(q, e) PROVE EndsIn(p, e)
  BY <1>1, <1>3, SMTT(30) DEF EndsIn
<1>4. EndsIn(p, m.event)
  BY <1>1 DEF EndsIn
<1>5. ASSUME NEW e, Holds(q, e) PROVE Holds(p, e)
  BY <1>1, <1>5 DEF Holds
<1>6. Holds(p, m.event)
  BY <1>1 DEF Holds
<1> QED BY <1>1, <1>2, <1>3, <1>4, <1>5, <1>6, <1>7 DEF p

\* The last event of the link is in the queue.
LEMMA EndsHolds ==
  ASSUME NEW q, NEW e, EndsIn(q, e)
  PROVE  Holds(q, e)
BY DEF EndsIn, Holds

----------------------------------------------------------------------------
(* The mode of the UART and the link.                                      *)

\* A UART that is not being switched is in the mode of its board's flag.  While it is, the
\* event of the link that is the reason is still at the head of the queue.
SwitchInv ==
  \A b \in Boards :
    /\ step[b] = "none" => send_callback[b] = conn[b] /\ rx[b] = conn[b]
    /\ step[b] \in {"enable", "enabled"} =>
         btq[b] # <<>> /\ Head(btq[b]).event = "connect" /\ conn[b]
    /\ step[b] = "enabled" => send_callback[b]
    /\ step[b] \in {"disable", "disabled"} =>
         btq[b] # <<>> /\ Head(btq[b]).event = "disconnect" /\ ~conn[b]
    /\ step[b] = "disabled" => ~rx[b]

\* A board's flag is that of the link, or the last event of the link in its queue will make it so.
LinkInv ==
  \A b \in Boards :
    \/ Quiet(btq[b]) /\ conn[b] = up
    \/ EndsIn(btq[b], IF up THEN "connect" ELSE "disconnect")

\* On a link that is up the set-up of the services goes on, from one event to the next, or is
\* complete.
GoesOn(m, s, f, r, n) ==
  \/ \E e \in {"connect", "mtu", "search"} : Holds(m, e)
  \/ f /\ r /\ (Holds(m, "registered") \/ Holds(s, "notify") \/ n)
SetupInv == up => GoesOn(btq["master"], btq["slave"], found, registered, notif)

----------------------------------------------------------------------------
(* The types.                                                              *)

\* A pair of queues, written as a record, is a function of the boards.
LEMMA BoardRecord ==
  ASSUME NEW S, NEW x \in S, NEW y \in S
  PROVE  /\ [master |-> x, slave |-> y] \in [Boards -> S]
         /\ [master |-> x, slave |-> y]["master"] = x
         /\ [master |-> x, slave |-> y]["slave"] = y
BY DEF Boards

\* A handler takes its event from its board's queue, and may send others to itself.
LEMMA NextTakes ==
  ASSUME btq \in [Boards -> Seq(Messages)], NEW b \in Boards, btq[b] # <<>>,
         NEW rest \in Seq(Messages), Next1(b, rest)
  PROVE  /\ btq' \in [Boards -> Seq(Messages)]
         /\ btq'[b] = Tail(btq[b]) \o rest
         /\ \A d \in Boards \ {b} : btq'[d] = btq[d]
<1>1. Tail(btq[b]) \in Seq(Messages)
  OBVIOUS
<1>2. Tail(btq[b]) \o rest \in Seq(Messages)
  BY <1>1
<1> QED BY <1>2 DEF Next1

\* The messages a handler sends to itself.
Replies == {<<>>} \cup {<<Event(e)>> : e \in {"mtu", "search", "registered"}}

\* They are of the type of messages.
LEMMA ReplyTypes == Replies \subseteq Seq(Messages)
<1>1. <<>> \in Seq(Messages)
  OBVIOUS
<1>2. \A m \in Messages : <<m>> \in Seq(Messages)
  OBVIOUS
<1>3. \A e \in {"mtu", "search", "registered"} : Event(e) \in Messages
  BY MessageTypes DEF EventNames
<1> QED BY <1>1, <1>2, <1>3 DEF Replies

\* What a handler that is through with its event has done.
LEMMA ContinueTakes ==
  ASSUME TypeOK, NEW b \in Boards, btq[b] # <<>>, Continue(b)
  PROVE  /\ step' = [step EXCEPT ![b] = "none"]
         /\ adv' \in BOOLEAN
         /\ \E rest \in Replies :
              /\ Next1(b, rest)
              /\ rest = IF Head(btq[b]).event = "connect" /\ b = "master" /\ up
                        THEN <<Event("mtu")>> ELSE <<>>
BY DEF Continue, Replies, TypeOK

\* Each step keeps the types of the queues of messages.
LEMMA QueueTypes ==
  ASSUME TypeOK, SwitchInv, Next
  PROVE  btq' \in [Boards -> Seq(Messages)]
<1>0. /\ "master" \in Boards /\ "slave" \in Boards /\ \A b \in Boards : Far(b) \in Boards
      /\ btq \in [Boards -> Seq(Messages)]
  BY DEF TypeOK, Far, Boards
<1>1. CASE UNCHANGED btq
  BY <1>0, <1>1
<1>2. ASSUME NEW b \in Boards, btq[b] # <<>>, NEW rest \in Replies, Next1(b, rest)
      PROVE  btq' \in [Boards -> Seq(Messages)]
  BY <1>0, <1>2, NextTakes, ReplyTypes
<1>3. ASSUME NEW b \in Boards, NEW m \in Messages, btq' = [btq EXCEPT ![b] = Append(@, m)]
      PROVE  btq' \in [Boards -> Seq(Messages)]
  BY <1>0, <1>3
<1>4. CASE ScanResult
  BY <1>1, <1>4 DEF ScanResult
<1>5. CASE Open
  <2>1. Event("connect") \in Messages
    BY MessageTypes DEF EventNames
  <2>2. [b \in Boards |-> Append(btq[b], Event("connect"))] \in [Boards -> Seq(Messages)]
    BY <1>0, <2>1
  <2> QED BY <1>1, <1>5, <2>2 DEF Open
<1>6. CASE Disconnect
  <2>1. Event("disconnect") \in Messages /\ Event("close") \in Messages
    BY MessageTypes DEF EventNames
  <2>2. btq["master"] \in Seq(Messages) /\ btq["slave"] \in Seq(Messages)
    BY <1>0
  <2>3. /\ btq["master"] \o <<Event("disconnect"), Event("close")>> \in Seq(Messages)
        /\ Append(btq["slave"], Event("disconnect")) \in Seq(Messages)
    BY <2>1, <2>2
  <2> QED BY <1>6, <2>3, BoardRecord DEF Disconnect
<1>7. CASE gattc_btnA_cb
  <2>1. Event("baud") \in Messages
    BY MessageTypes DEF EventNames
  <2> QED BY <1>0, <1>1, <1>3, <1>7, <2>1 DEF gattc_btnA_cb
<1>8. CASE \E b \in Boards : BluetoothTask(b)
  <2> PICK b \in Boards : BluetoothTask(b)
    BY <1>8
  <2>1. <<>> \in Replies /\ \A e \in {"mtu", "search", "registered"} : <<Event(e)>> \in Replies
    BY DEF Replies
  <2>2. CASE HandleConnect(b) \/ HandleDisconnect(b)
    BY <1>1, <2>2 DEF HandleConnect, HandleDisconnect
  <2>3. CASE Switch(b)
    <3>1. UNCHANGED btq \/ Continue(b)
      BY <2>3 DEF Switch, uart_dev_intr_enable, uart_dev_intr_disable
    <3>2. btq[b] # <<>>
      BY <2>3 DEF Switch, uart_dev_intr_enable, uart_dev_intr_disable, SwitchInv
    <3> QED BY <1>1, <1>2, <3>1, <3>2, ContinueTakes
  <2>4. CASE HandleData(b)
    BY <1>2, <2>1, <2>4 DEF HandleData, Got
  <2>5. CASE HandleClose
    BY <1>0, <1>2, <2>1, <2>5 DEF HandleClose, Got
  <2>6. CASE HandleMtu
    BY <1>0, <1>2, <2>1, <2>6 DEF HandleMtu, Got
  <2>7. CASE HandleSearch
    BY <1>0, <1>2, <2>1, <2>7 DEF HandleSearch, Got
  <2>8. CASE HandleRegistered
    <3>1. Event("notify") \in Messages
      BY MessageTypes DEF EventNames
    <3>2. btq["master"] # <<>> /\ btq["master"] \in Seq(Messages) /\ btq["slave"] \in Seq(Messages)
      BY <1>0, <2>8 DEF HandleRegistered, Got
    <3>3. Tail(btq["master"]) \in Seq(Messages)
      BY <3>2
    <3>4. btq["slave"] \o <<>> \in Seq(Messages) /\ btq["slave"] \o <<Event("notify")>> \in Seq(Messages)
      BY <3>1, <3>2
    <3> QED BY <2>8, <3>3, <3>4, BoardRecord DEF HandleRegistered
  <2>9. CASE HandleNotify
    BY <1>0, <1>2, <2>1, <2>9 DEF HandleNotify, Got
  <2>10. CASE HandleBaud
    BY <1>0, <1>2, <2>1, <2>10 DEF HandleBaud, Got
  <2> QED BY <2>2, <2>3, <2>4, <2>5, <2>6, <2>7, <2>8, <2>9, <2>10 DEF BluetoothTask
<1>9. CASE \E b \in Boards : Receive(b)
  BY <1>1, <1>9 DEF Receive
<1>10. CASE \E b \in Boards : uart_task(b)
  <2> PICK b \in Boards : uart_task(b)
    BY <1>10
  <2>1. CASE TakeEvent(b)
    BY <1>1, <2>1 DEF TakeEvent
  <2>2. CASE ReadChunk(b)
    <3> DEFINE n == Least(Chunk, size[b])
               d == SubSeq(ring[b], 1, n)
    <3>1. n \in Nat /\ n <= Len(ring[b]) /\ ring[b] \in Seq(Nat)
      <4>1. n <= Len(ring[b])
        BY <2>2 DEF ReadChunk, Read
      <4> QED BY <4>1, SerialAssumption DEF TypeOK, Least
    <3>2. d \in Seq(Nat)
      BY <3>1
    <3>3. Write(d) \in Messages
      BY <3>2, MessageTypes
    <3>4. UNCHANGED btq \/ btq' = [btq EXCEPT ![Far(b)] = Append(@, Write(d))]
      BY <2>2 DEF ReadChunk, Read, trans_send
    <3> HIDE DEF d
    <3> QED BY <1>0, <1>1, <1>3, <3>3, <3>4
  <2> QED BY <2>1, <2>2 DEF uart_task
<1> QED BY <1>4, <1>5, <1>6, <1>7, <1>8, <1>9, <1>10 DEF Next

\* What a read leaves, takes and sends.
LEMMA ReadTypes ==
  ASSUME TypeOK, NEW b \in Boards, ReadChunk(b)
  PROVE  LET n == Least(Chunk, size[b])
         IN  /\ n \in 1..Len(ring[b]) /\ n <= size[b]
             /\ ring[b] \in Seq(Nat)
             /\ ring' = [ring EXCEPT ![b] = SubSeq(@, n + 1, Len(@))]
             /\ size' = [size EXCEPT ![b] = size[b] - n]
             /\ \/ UNCHANGED btq
                \/ btq' = [btq EXCEPT ![Far(b)] = Append(@, Write(SubSeq(ring[b], 1, n)))]
             /\ UNCHANGED <<air, gatt, mode, events, fast, typed, out>>
<1> DEFINE n == Least(Chunk, size[b])
<1>1. size[b] > 0 /\ Read(b, n, size[b] - n, n)
  BY DEF ReadChunk
<1>2. n <= Len(ring[b])
  BY <1>1 DEF Read
<1>3. n \in Nat /\ n > 0 /\ n <= size[b]
  BY <1>1, SerialAssumption DEF Least, TypeOK
<1>4. ring[b] \in Seq(Nat) /\ Len(ring[b]) \in Nat
  BY DEF TypeOK
<1>5. \/ UNCHANGED btq
      \/ btq' = [btq EXCEPT ![Far(b)] = Append(@, Write(SubSeq(ring[b], 1, n)))]
  BY <1>1 DEF Read, trans_send
<1> HIDE DEF n
<1>6. /\ ring' = [ring EXCEPT ![b] = SubSeq(@, n + 1, Len(@))]
      /\ size' = [size EXCEPT ![b] = size[b] - n]
      /\ UNCHANGED <<air, gatt, mode, events, fast, typed, out>>
  BY <1>1 DEF Read
<1> QED BY <1>2, <1>3, <1>4, <1>5, <1>6 DEF n

\* What the host of a board sends.
LEMMA ReceiveTypes ==
  ASSUME TypeOK, NEW b \in Boards, Receive(b)
  PROVE  \E k \in Nat :
           /\ typed' = [typed EXCEPT ![b] = @ + k]
           /\ \/ ring' = ring
              \/ ring' = [ring EXCEPT ![b] = @ \o [i \in 1..k |-> typed[b] + i]]
           /\ events' \in [Boards -> Seq(Nat)]
           /\ UNCHANGED <<air, gatt, mode, btq, size, fast, out>>
<1>1. PICK k \in 1..load[b] - typed[b] :
        /\ typed' = [typed EXCEPT ![b] = @ + k]
        /\ \/ ring' = ring
           \/ ring' = [ring EXCEPT ![b] = @ \o [i \in 1..k |-> typed[b] + i]]
        /\ \/ events' = events
           \/ \E e \in {k, Room} : events' = [events EXCEPT ![b] = Append(@, e)]
        /\ UNCHANGED <<air, gatt, mode, btq, size, fast, out>>
  BY DEF Receive
<1>2. load[b] \in Nat /\ typed[b] \in Nat
  BY DEF TypeOK
<1>3. k \in Nat
  BY <1>1, <1>2
<1>4. \A e \in Nat : [events EXCEPT ![b] = Append(@, e)] \in [Boards -> Seq(Nat)]
  BY DEF TypeOK
<1>5. events' \in [Boards -> Seq(Nat)]
  <2>1. CASE events' = events
    BY <2>1 DEF TypeOK
  <2>2. ASSUME NEW e \in {k, Room}, events' = [events EXCEPT ![b] = Append(@, e)]
        PROVE  events' \in [Boards -> Seq(Nat)]
    <3>1. e \in Nat
      BY <1>3 DEF Room
    <3> QED BY <1>4, <2>2, <3>1
  <2> QED BY <1>1, <2>1, <2>2
<1> QED BY <1>1, <1>3, <1>5

\* The steps of the UART keep the types of its variables.
LEMMA UartTypes ==
  ASSUME TypeOK, Next
  PROVE  /\ ring' \in [Boards -> Seq(Nat)] /\ events' \in [Boards -> Seq(Nat)]
         /\ size' \in [Boards -> Nat] /\ typed' \in [Boards -> Nat]
         /\ fast' \in [Boards -> BOOLEAN]
<1>0. /\ ring \in [Boards -> Seq(Nat)] /\ events \in [Boards -> Seq(Nat)]
      /\ size \in [Boards -> Nat] /\ typed \in [Boards -> Nat] /\ fast \in [Boards -> BOOLEAN]
      /\ <<>> \in Seq(Nat)
  BY DEF TypeOK
<1>1. ASSUME NEW b \in Boards, uart_dev_baudrate(b)
      PROVE  ring' \in [Boards -> Seq(Nat)] /\ fast' \in [Boards -> BOOLEAN]
  BY <1>0, <1>1 DEF uart_dev_baudrate, Flush
<1>2. CASE UNCHANGED uart
  BY <1>0, <1>2 DEF uart
<1>3. CASE gattc_btnA_cb \/ HandleBaud
  <2>1. "master" \in Boards /\ "slave" \in Boards
    BY DEF Boards
  <2> QED BY <1>0, <1>1, <1>3, <2>1 DEF gattc_btnA_cb, HandleBaud
<1>4. ASSUME NEW b \in Boards, Receive(b)
      PROVE  /\ ring' \in [Boards -> Seq(Nat)] /\ events' \in [Boards -> Seq(Nat)]
             /\ UNCHANGED <<size, fast>> /\ typed' \in [Boards -> Nat]
  <2>1. PICK k \in Nat :
           /\ typed' = [typed EXCEPT ![b] = @ + k]
           /\ \/ ring' = ring
              \/ ring' = [ring EXCEPT ![b] = @ \o [i \in 1..k |-> typed[b] + i]]
           /\ events' \in [Boards -> Seq(Nat)] /\ UNCHANGED <<size, fast>>
    BY <1>4, ReceiveTypes
  <2>2. [i \in 1..k |-> typed[b] + i] \in Seq(Nat)
    BY <1>0
  <2>3. ring[b] \o [i \in 1..k |-> typed[b] + i] \in Seq(Nat)
    BY <1>0, <2>2
  <2>4. typed' \in [Boards -> Nat]
    BY <1>0, <2>1
  <2> QED BY <1>0, <2>1, <2>3, <2>4
<1>5. ASSUME NEW b \in Boards, TakeEvent(b)
      PROVE  /\ ring' \in [Boards -> Seq(Nat)] /\ events' \in [Boards -> Seq(Nat)]
             /\ size' \in [Boards -> Nat] /\ UNCHANGED <<fast, typed>>
  <2>1. events[b] \in Seq(Nat) /\ events[b] # <<>>
    BY <1>0, <1>5 DEF TakeEvent
  <2>2. Head(events[b]) \in Nat /\ Tail(events[b]) \in Seq(Nat)
    BY <2>1
  <2> QED BY <1>0, <1>5, <2>2 DEF TakeEvent, Flush
<1>6. ASSUME NEW b \in Boards, ReadChunk(b)
      PROVE  /\ ring' \in [Boards -> Seq(Nat)] /\ size' \in [Boards -> Nat]
             /\ UNCHANGED <<events, fast, typed>>
  <2> DEFINE n == Least(Chunk, size[b])
  <2>1. /\ n \in 1..Len(ring[b]) /\ n <= size[b]
        /\ ring[b] \in Seq(Nat)
        /\ ring' = [ring EXCEPT ![b] = SubSeq(@, n + 1, Len(@))]
        /\ size' = [size EXCEPT ![b] = size[b] - n]
        /\ UNCHANGED <<events, fast, typed>>
    BY <1>6, ReadTypes
  <2> HIDE DEF n
  <2>2. SubSeq(ring[b], n + 1, Len(ring[b])) \in Seq(Nat) /\ size[b] - n \in Nat
    BY <1>0, <2>1, SMTT(30)
  <2> QED BY <1>0, <2>1, <2>2
<1>7. CASE ScanResult \/ Open \/ Disconnect
  BY <1>2, <1>7 DEF ScanResult, Open, Disconnect
<1>8. CASE \E b \in Boards : BluetoothTask(b) /\ ~HandleBaud
  BY <1>2, <1>8 DEF BluetoothTask, HandleConnect, HandleDisconnect, Switch, HandleData,
     HandleClose, HandleMtu, HandleSearch, HandleRegistered, HandleNotify
<1> QED BY <1>0, <1>3, <1>4, <1>5, <1>6, <1>7, <1>8 DEF Next, uart_task

\* A step keeps the types of the link and of the modes.
LEMMA LinkTypes ==
  ASSUME TypeOK, SwitchInv, Next
  PROVE  /\ up' \in BOOLEAN /\ links' \in Nat
         /\ adv' \in BOOLEAN /\ scan' \in BOOLEAN /\ opening' \in BOOLEAN
         /\ found' \in BOOLEAN /\ registered' \in BOOLEAN /\ notif' \in BOOLEAN
         /\ conn' \in [Boards -> BOOLEAN] /\ send_callback' \in [Boards -> BOOLEAN]
         /\ rx' \in [Boards -> BOOLEAN] /\ UNCHANGED <<calm, load>>
         /\ step' \in [Boards -> {"none", "enable", "enabled", "disable", "disabled"}]
<1> USE DEF TypeOK
<1>0. CASE UNCHANGED <<air, gatt, mode>>
  BY <1>0 DEF air, gatt, mode
<1>1. CASE ScanResult
  BY <1>1 DEF ScanResult, gatt, mode
<1>2. CASE Open
  <2>1. UNCHANGED <<calm, load, scan, found, registered, notif, conn, send_callback, rx, step>>
    BY <1>2 DEF Open, gatt, mode
  <2>2. /\ opening' = FALSE
        /\ \/ UNCHANGED <<up, links, adv>>
           \/ up' = TRUE /\ adv' = FALSE /\ links' = links + 1
    BY <1>2 DEF Open
  <2>3. opening' \in BOOLEAN /\ up' \in BOOLEAN /\ adv' \in BOOLEAN
    BY <2>2
  <2>4. links' \in Nat
    BY <2>2
  <2> QED BY <2>1, <2>3, <2>4
<1>3. CASE Disconnect
  BY <1>3 DEF Disconnect, mode
<1>4. CASE gattc_btnA_cb
  BY <1>0, <1>4 DEF gattc_btnA_cb
<1>5. ASSUME NEW b \in Boards, HandleConnect(b) \/ HandleDisconnect(b)
      PROVE  /\ conn' \in [Boards -> BOOLEAN]
             /\ step' \in [Boards -> {"none", "enable", "enabled", "disable", "disabled"}]
             /\ UNCHANGED <<air, gatt, send_callback, rx>>
  BY <1>5 DEF HandleConnect, HandleDisconnect
<1>6. ASSUME NEW b \in Boards, Switch(b)
      PROVE  /\ adv' \in BOOLEAN /\ send_callback' \in [Boards -> BOOLEAN] /\ rx' \in [Boards -> BOOLEAN]
             /\ step' \in [Boards -> {"none", "enable", "enabled", "disable", "disabled"}]
             /\ UNCHANGED <<calm, load, up, links, scan, opening, gatt, conn>>
  <2>1. step' \in [Boards -> {"none", "enable", "enabled", "disable", "disabled"}]
    BY <1>6 DEF Switch, uart_dev_intr_enable, uart_dev_intr_disable, Continue
  <2>2. adv' \in BOOLEAN
    BY <1>6 DEF Switch, uart_dev_intr_enable, uart_dev_intr_disable, Continue
  <2>3. send_callback' \in [Boards -> BOOLEAN] /\ rx' \in [Boards -> BOOLEAN]
    BY <1>6 DEF Switch, uart_dev_intr_enable, uart_dev_intr_disable
  <2> QED BY <1>6, <2>1, <2>2, <2>3 DEF Switch
<1>7. CASE HandleClose
  BY <1>7 DEF HandleClose, gatt, mode
<1>8. CASE HandleSearch
  BY <1>8 DEF HandleSearch, air, mode
<1>9. CASE HandleNotify
  BY <1>9 DEF HandleNotify, air, mode
<1>10. CASE HandleMtu \/ HandleRegistered \/ HandleBaud \/ \E b \in Boards : HandleData(b)
  BY <1>0, <1>10 DEF HandleMtu, HandleRegistered, HandleBaud, HandleData
<1>11. CASE \E b \in Boards : Receive(b) \/ uart_task(b)
  BY <1>0, <1>11 DEF Receive, uart_task, TakeEvent, ReadChunk, Read
<1>12. ASSUME UNCHANGED <<air, gatt>>
       PROVE  /\ up' \in BOOLEAN /\ links' \in Nat
              /\ adv' \in BOOLEAN /\ scan' \in BOOLEAN /\ opening' \in BOOLEAN
              /\ found' \in BOOLEAN /\ registered' \in BOOLEAN /\ notif' \in BOOLEAN
              /\ UNCHANGED <<calm, load>>
  BY <1>12 DEF air, gatt
<1>13. ASSUME NEW b \in Boards, BluetoothTask(b)
       PROVE  \/ HandleConnect(b) \/ HandleDisconnect(b) \/ Switch(b) \/ HandleData(b)
              \/ HandleClose \/ HandleMtu \/ HandleSearch \/ HandleRegistered \/ HandleNotify
              \/ HandleBaud
  BY <1>13 DEF BluetoothTask
<1>14. CASE \E b \in Boards : HandleConnect(b) \/ HandleDisconnect(b)
  BY <1>5, <1>12, <1>14
<1>15. CASE \E b \in Boards : Switch(b)
  BY <1>6, <1>15 DEF gatt
<1> QED BY <1>1, <1>2, <1>3, <1>4, <1>7, <1>8, <1>9, <1>10, <1>11, <1>13, <1>14, <1>15 DEF Next

----------------------------------------------------------------------------
(* The order of the bytes, step by step.                                   *)

\* A queue that loses its head, or gets messages without bytes, or both.
Moved(q, p) ==
  \/ p = q
  \/ \E e \in EventNames : p = Append(q, Event(e))
  \/ \E e, f \in EventNames : p = Append(Append(q, Event(e)), Event(f))
  \/ q # <<>> /\ p = Tail(q)
  \/ q # <<>> /\ \E e \in EventNames : p = Append(Tail(q), Event(e))

\* The bytes stay in order under such a move.
LEMMA ChainMoved ==
  ASSUME NEW o, NEW q, NEW r, NEW n, OnTheWay(o, q, r, n), NEW p, Moved(q, p)
  PROVE  OnTheWay(o, p, r, n)
<1>1. ASSUME NEW s, OnTheWay(o, s, r, n), NEW e \in EventNames
      PROVE  OnTheWay(o, Append(s, Event(e)), r, n)
  BY <1>1, ChainEvent DEF OnTheWay
<1>2. q # <<>> => OnTheWay(o, Tail(q), r, n)
  BY ChainTail DEF OnTheWay
<1> QED BY <1>1, <1>2 DEF Moved

\* A reply joins a queue, or there is none.
LEMMA Replied ==
  ASSUME NEW q \in Seq(Messages), NEW rest \in Replies
  PROVE  q \o rest = q \/ \E e \in EventNames : q \o rest = Append(q, Event(e))
<1>1. q \o <<>> = q /\ \A m \in Messages : q \o <<m>> = Append(q, m)
  BY Joins
<1>2. CASE rest = <<>>
  BY <1>1, <1>2
<1>3. CASE \E e \in {"mtu", "search", "registered"} : rest = <<Event(e)>>
  BY <1>1, <1>3, MessageTypes DEF EventNames
<1> QED BY <1>2, <1>3 DEF Replies

\* A step that carries no bytes moves the queues.
LEMMA QueuesMove ==
  ASSUME TypeOK, SwitchInv, Next, ~\E b \in Boards : HandleData(b) \/ ReadChunk(b)
  PROVE  \A b \in Boards : Moved(btq[b], btq'[b])
<1>0. /\ "master" \in Boards /\ "slave" \in Boards /\ Boards = {"master", "slave"}
      /\ btq \in [Boards -> Seq(Messages)] /\ "master" # "slave"
  BY DEF TypeOK, Boards
<1>1. CASE UNCHANGED btq
  BY <1>1 DEF Moved
<1>2. ASSUME NEW b \in Boards, btq[b] # <<>>, NEW rest \in Replies, Next1(b, rest)
      PROVE  \A d \in Boards : Moved(btq[d], btq'[d])
  <2>1. btq'[b] = Tail(btq[b]) \o rest /\ \A d \in Boards \ {b} : btq'[d] = btq[d]
    BY <1>0, <1>2, NextTakes, ReplyTypes
  <2>2. Tail(btq[b]) \in Seq(Messages)
    BY <1>0, <1>2
  <2>3. \/ btq'[b] = Tail(btq[b])
        \/ \E e \in EventNames : btq'[b] = Append(Tail(btq[b]), Event(e))
    BY <2>1, <2>2, Replied
  <2> QED BY <1>2, <2>1, <2>3 DEF Moved
<1>3. ASSUME NEW b \in Boards, NEW e \in EventNames, btq' = [btq EXCEPT ![b] = Append(@, Event(e))]
      PROVE  \A d \in Boards : Moved(btq[d], btq'[d])
  <2>1. btq'[b] = Append(btq[b], Event(e)) /\ \A d \in Boards \ {b} : btq'[d] = btq[d]
    BY <1>0, <1>3
  <2> QED BY <2>1 DEF Moved
<1>4. CASE ScanResult
  BY <1>1, <1>4 DEF ScanResult
<1>5. CASE Open
  <2>1. UNCHANGED btq \/ \A b \in Boards : btq'[b] = Append(btq[b], Event("connect"))
    BY <1>5 DEF Open
  <2>2. "connect" \in EventNames
    BY DEF EventNames
  <2> QED BY <1>1, <2>1, <2>2 DEF Moved
<1>6. CASE Disconnect
  <2>1. /\ btq'["master"] = btq["master"] \o <<Event("disconnect"), Event("close")>>
        /\ btq'["slave"] = Append(btq["slave"], Event("disconnect"))
    BY <1>6 DEF Disconnect
  <2>2. /\ "disconnect" \in EventNames /\ "close" \in EventNames
        /\ Event("disconnect") \in Messages /\ Event("close") \in Messages
        /\ btq["master"] \in Seq(Messages)
    BY <1>0, MessageTypes DEF EventNames
  <2>3. btq'["master"] = Append(Append(btq["master"], Event("disconnect")), Event("close"))
    BY <2>1, <2>2, Joins
  <2> QED BY <1>0, <2>1, <2>2, <2>3 DEF Moved
<1>7. CASE gattc_btnA_cb
  <2>1. "baud" \in EventNames
    BY DEF EventNames
  <2> QED BY <1>0, <1>1, <1>3, <1>7, <2>1 DEF gattc_btnA_cb
<1>8. CASE \E b \in Boards : BluetoothTask(b)
  <2> PICK b \in Boards : BluetoothTask(b)
    BY <1>8
  <2>1. <<>> \in Replies /\ \A e \in {"mtu", "search", "registered"} : <<Event(e)>> \in Replies
    BY DEF Replies
  <2>2. CASE HandleConnect(b) \/ HandleDisconnect(b)
    BY <1>1, <2>2 DEF HandleConnect, HandleDisconnect
  <2>3. CASE Switch(b)
    <3>1. UNCHANGED btq \/ Continue(b)
      BY <2>3 DEF Switch, uart_dev_intr_enable, uart_dev_intr_disable
    <3>2. btq[b] # <<>>
      BY <2>3 DEF Switch, uart_dev_intr_enable, uart_dev_intr_disable, SwitchInv
    <3> QED BY <1>1, <1>2, <3>1, <3>2, ContinueTakes
  <2>5. CASE HandleClose
    BY <1>0, <1>2, <2>1, <2>5 DEF HandleClose, Got
  <2>6. CASE HandleMtu
    BY <1>0, <1>2, <2>1, <2>6 DEF HandleMtu, Got
  <2>7. CASE HandleSearch
    BY <1>0, <1>2, <2>1, <2>7 DEF HandleSearch, Got
  <2>8. CASE HandleRegistered
    <3>1. Event("notify") \in Messages /\ "notify" \in EventNames
      BY MessageTypes DEF EventNames
    <3>2. btq["master"] # <<>> /\ btq["slave"] \in Seq(Messages)
      BY <1>0, <2>8 DEF HandleRegistered, Got
    <3>3. btq'["slave"] = btq["slave"] \o <<>> \/ btq'["slave"] = btq["slave"] \o <<Event("notify")>>
      BY <2>8 DEF HandleRegistered
    <3>4. btq'["master"] = Tail(btq["master"])
      BY <2>8 DEF HandleRegistered
    <3>5. btq'["slave"] = btq["slave"] \/ btq'["slave"] = Append(btq["slave"], Event("notify"))
      BY <3>1, <3>2, <3>3, Joins
    <3> QED BY <1>0, <3>1, <3>2, <3>4, <3>5 DEF Moved
  <2>9. CASE HandleNotify
    BY <1>0, <1>2, <2>1, <2>9 DEF HandleNotify, Got
  <2>10. CASE HandleBaud
    BY <1>0, <1>2, <2>1, <2>10 DEF HandleBaud, Got
  <2> QED BY <2>2, <2>3, <2>5, <2>6, <2>7, <2>8, <2>9, <2>10 DEF BluetoothTask
<1>9. CASE \E b \in Boards : Receive(b)
  BY <1>1, <1>9 DEF Receive
<1>10. CASE \E b \in Boards : TakeEvent(b)
  BY <1>1, <1>10 DEF TakeEvent
<1> QED BY <1>4, <1>5, <1>6, <1>7, <1>8, <1>9, <1>10 DEF Next, uart_task

\* A step that carries no bytes and sends none leaves the bytes alone, or empties one board's
\* buffer.
LEMMA BytesStay ==
  ASSUME TypeOK, Next,
         ~\E b \in Boards : HandleData(b) \/ ReadChunk(b) \/ Receive(b)
  PROVE  /\ UNCHANGED <<out, typed>>
         /\ \A b \in Boards : ring'[b] \in {ring[b], <<>>}
<1>1. CASE UNCHANGED <<uart, out>>
  BY <1>1 DEF uart
<1>2. ASSUME NEW b \in Boards, uart_dev_baudrate(b) \/ Flush(b)
      PROVE  \A d \in Boards : ring'[d] \in {ring[d], <<>>}
  BY <1>2 DEF uart_dev_baudrate, Flush, TypeOK
<1>3. CASE gattc_btnA_cb \/ HandleBaud
  <2>1. "master" \in Boards /\ "slave" \in Boards
    BY DEF Boards
  <2> QED BY <1>2, <1>3, <2>1 DEF gattc_btnA_cb, HandleBaud
<1>4. CASE \E b \in Boards : TakeEvent(b)
  BY <1>2, <1>4 DEF TakeEvent
<1>5. CASE ScanResult \/ Open \/ Disconnect
  BY <1>1, <1>5 DEF ScanResult, Open, Disconnect
<1>6. CASE \E b \in Boards : BluetoothTask(b) /\ ~HandleBaud
  BY <1>1, <1>6 DEF BluetoothTask, HandleConnect, HandleDisconnect, Switch,
     HandleClose, HandleMtu, HandleSearch, HandleRegistered, HandleNotify
<1> QED BY <1>3, <1>4, <1>5, <1>6 DEF Next, uart_task

\* Every step keeps the bytes of both hosts in order on their way.
LEMMA OrderStep ==
  ASSUME TypeOK, SwitchInv, OrderInv, Next
  PROVE  OrderInv' /\ out' \in [Boards -> Seq(Nat)]
<1>0. /\ \A b \in Boards : Far(b) \in Boards /\ Far(Far(b)) = b /\ Far(b) # b
      /\ \A b, d \in Boards : d = b \/ d = Far(b)
  BY DEF Far, Boards
<1>1. \A b \in Boards : OnTheWay(out[Far(b)], btq[Far(b)], ring[b], typed[b])
  BY <1>0 DEF OnTheWay, OrderInv, TypeOK
<1> SUFFICES /\ \A b \in Boards : Chain(out'[Far(b)], btq'[Far(b)], ring'[b], typed'[b])
             /\ out' \in [Boards -> Seq(Nat)]
  BY DEF OrderInv
<1>2. CASE ~\E b \in Boards : HandleData(b) \/ ReadChunk(b) \/ Receive(b)
  <2>1. \A b \in Boards : Moved(btq[b], btq'[b])
    BY <1>2, QueuesMove
  <2>2. UNCHANGED <<out, typed>> /\ \A b \in Boards : ring'[b] \in {ring[b], <<>>}
    BY <1>2, BytesStay
  <2>3. ASSUME NEW b \in Boards
        PROVE  Chain(out'[Far(b)], btq'[Far(b)], ring'[b], typed'[b])
    <3>1. OnTheWay(out[Far(b)], btq'[Far(b)], ring[b], typed[b])
      BY <1>0, <1>1, <2>1, ChainMoved
    <3>2. Chain(out[Far(b)], btq'[Far(b)], <<>>, typed[b])
      BY <3>1, ChainFlush
    <3> QED BY <2>2, <3>1, <3>2 DEF OnTheWay
  <2> QED BY <2>2, <2>3 DEF TypeOK
<1>3. ASSUME NEW b \in Boards, HandleData(b)
      PROVE  /\ \A d \in Boards : Chain(out'[Far(d)], btq'[Far(d)], ring'[d], typed'[d])
             /\ out' \in [Boards -> Seq(Nat)]
  <2>1. btq[b] # <<>> /\ Next1(b, <<>>) /\ UNCHANGED <<ring, typed>>
    BY <1>3 DEF HandleData, Got, uart
  <2>2. out' = [out EXCEPT ![b] = out[b] \o Head(btq[b]).data]
    BY <1>3 DEF HandleData
  <2>3. Tail(btq[b]) \in Seq(Messages) /\ Tail(btq[b]) \o <<>> = Tail(btq[b])
    BY <2>1 DEF TypeOK
  <2>4. /\ btq'[b] = Tail(btq[b]) /\ btq'[Far(b)] = btq[Far(b)]
    BY <1>0, <2>1, <2>3 DEF Next1, TypeOK
  <2>5. OnTheWay(out[b], btq[b], ring[Far(b)], typed[Far(b)])
    BY <1>0, <1>1
  <2>6. /\ out[b] \o Head(btq[b]).data \in Seq(Nat)
        /\ Chain(out[b] \o Head(btq[b]).data, Tail(btq[b]), ring[Far(b)], typed[Far(b)])
    BY <2>1, <2>5, ChainDeliver
  <2>7. out' \in [Boards -> Seq(Nat)]
    BY <2>2, <2>6 DEF TypeOK
  <2>8. out'[b] = out[b] \o Head(btq[b]).data /\ out'[Far(b)] = out[Far(b)]
    BY <1>0, <2>2 DEF TypeOK
  <2>9. Chain(out'[b], btq'[b], ring'[Far(b)], typed'[Far(b)])
    BY <2>1, <2>4, <2>6, <2>8
  <2>10. Chain(out'[Far(b)], btq'[Far(b)], ring'[b], typed'[b])
    BY <1>1, <2>1, <2>4, <2>8 DEF OnTheWay
  <2> QED BY <1>0, <2>7, <2>9, <2>10
<1>4. ASSUME NEW b \in Boards, ReadChunk(b)
      PROVE  /\ \A d \in Boards : Chain(out'[Far(d)], btq'[Far(d)], ring'[d], typed'[d])
             /\ out' \in [Boards -> Seq(Nat)]
  <2> DEFINE n == Least(Chunk, size[b])
  <2>1. /\ n \in 1..Len(ring[b]) /\ ring[b] \in Seq(Nat)
        /\ ring' = [ring EXCEPT ![b] = SubSeq(ring[b], n + 1, Len(ring[b]))]
        /\ \/ UNCHANGED btq
           \/ btq' = [btq EXCEPT ![Far(b)] = Append(btq[Far(b)], Write(SubSeq(ring[b], 1, n)))]
        /\ UNCHANGED <<typed, out>>
    BY <1>4, ReadTypes
  <2> HIDE DEF n
  <2>2. n \in 0..Len(ring[b])
    BY <2>1
  <2>3. /\ ring'[b] = SubSeq(ring[b], n + 1, Len(ring[b])) /\ ring'[Far(b)] = ring[Far(b)]
        /\ btq'[b] = btq[b]
        /\ \/ btq'[Far(b)] = btq[Far(b)]
           \/ btq'[Far(b)] = Append(btq[Far(b)], Write(SubSeq(ring[b], 1, n)))
    BY <1>0, <2>1 DEF TypeOK
  <2>4. Chain(out[Far(b)], btq'[Far(b)], ring'[b], typed[b])
    BY <1>1, <2>2, <2>3, ChainDrop, ChainSend
  <2>5. Chain(out[b], btq[b], ring[Far(b)], typed[Far(b)])
    BY <1>0, <1>1 DEF OnTheWay
  <2>6. Chain(out'[Far(b)], btq'[Far(b)], ring'[b], typed'[b])
    BY <2>1, <2>4
  <2>7. Chain(out'[b], btq'[b], ring'[Far(b)], typed'[Far(b)])
    BY <2>1, <2>3, <2>5
  <2> QED BY <1>0, <2>1, <2>6, <2>7 DEF TypeOK
<1>5. ASSUME NEW b \in Boards, Receive(b)
      PROVE  /\ \A d \in Boards : Chain(out'[Far(d)], btq'[Far(d)], ring'[d], typed'[d])
             /\ out' \in [Boards -> Seq(Nat)]
  <2>1. PICK k \in Nat :
           /\ typed' = [typed EXCEPT ![b] = typed[b] + k]
           /\ \/ ring' = ring
              \/ ring' = [ring EXCEPT ![b] = ring[b] \o [i \in 1..k |-> typed[b] + i]]
           /\ UNCHANGED <<btq, out>>
    BY <1>5, ReceiveTypes
  <2>2. /\ typed'[b] = typed[b] + k /\ typed'[Far(b)] = typed[Far(b)]
        /\ ring'[Far(b)] = ring[Far(b)]
        /\ ring'[b] = ring[b] \/ ring'[b] = ring[b] \o [i \in 1..k |-> typed[b] + i]
    BY <1>0, <2>1 DEF TypeOK
  <2>3. Chain(out[Far(b)], btq[Far(b)], ring'[b], typed[b] + k)
    BY <1>1, <2>2, ChainReceive
  <2>4. Chain(out[b], btq[b], ring[Far(b)], typed[Far(b)])
    BY <1>0, <1>1 DEF OnTheWay
  <2>5. Chain(out'[Far(b)], btq'[Far(b)], ring'[b], typed'[b])
    BY <2>1, <2>2, <2>3
  <2>6. Chain(out'[b], btq'[b], ring'[Far(b)], typed'[Far(b)])
    BY <2>1, <2>2, <2>4
  <2> QED BY <1>0, <2>1, <2>5, <2>6 DEF TypeOK
<1> QED BY <1>2, <1>3, <1>4, <1>5

----------------------------------------------------------------------------
(* The mode of the UART and the link, step by step.                        *)

\* A queue that loses no event of the link and gets none.
Carried(q, p) ==
  \/ p = q
  \/ \E m \in Messages : m.event \notin LinkEvents /\ p = Append(q, m)
  \/ q # <<>> /\ Head(q).event \notin LinkEvents /\ p = Tail(q)
  \/ /\ q # <<>> /\ Head(q).event \notin LinkEvents
     /\ \E m \in Messages : m.event \notin LinkEvents /\ p = Append(Tail(q), m)

\* What is known of the events of the link stays true of such a queue.
LEMMA CarriedEvents ==
  ASSUME NEW q \in Seq(Messages), NEW p, Carried(q, p)
  PROVE  /\ Quiet(q) => Quiet(p)
         /\ \A e \in LinkEvents : EndsIn(q, e) => EndsIn(p, e)
         /\ q # <<>> /\ Head(q).event \in LinkEvents => p # <<>> /\ Head(p) = Head(q)
<1>1. CASE p = q
  BY <1>1
<1>2. CASE \E m \in Messages : m.event \notin LinkEvents /\ p = Append(q, m)
  BY <1>2, QueueAppend
<1>3. q # <<>> =>
        /\ Tail(q) \in Seq(Messages) /\ Quiet(q) => Quiet(Tail(q))
        /\ Head(q).event \notin LinkEvents =>
             \A e \in LinkEvents : EndsIn(q, e) => EndsIn(Tail(q), e)
  BY QueueTail
<1>4. CASE q # <<>> /\ Head(q).event \notin LinkEvents /\ p = Tail(q)
  BY <1>3, <1>4, QueueTail
<1>5. CASE /\ q # <<>> /\ Head(q).event \notin LinkEvents
           /\ \E m \in Messages : m.event \notin LinkEvents /\ p = Append(Tail(q), m)
  <2>1. PICK m \in Messages : m.event \notin LinkEvents /\ p = Append(Tail(q), m)
    BY <1>5
  <2>2. Tail(q) \in Seq(Messages)
    BY <1>5, QueueTail
  <2> QED BY <1>3, <1>5, <2>1, <2>2, QueueAppend, QueueTail
<1> QED BY <1>1, <1>2, <1>4, <1>5 DEF Carried

\* A reply is no event of the link.
LEMMA ReplyCarried ==
  ASSUME NEW q \in Seq(Messages), q # <<>>, Head(q).event \notin LinkEvents, NEW rest \in Replies
  PROVE  Carried(q, Tail(q) \o rest)
<1>1. Tail(q) \in Seq(Messages)
  OBVIOUS
<1>2. \/ Tail(q) \o rest = Tail(q)
      \/ \E e \in {"mtu", "search", "registered"} : Tail(q) \o rest = Append(Tail(q), Event(e))
  <2>1. Tail(q) \o <<>> = Tail(q) /\ \A m \in Messages : Tail(q) \o <<m>> = Append(Tail(q), m)
    BY <1>1, Joins
  <2> QED BY <2>1, MessageTypes DEF Replies, EventNames
<1>3. \A e \in {"mtu", "search", "registered"} :
        Event(e) \in Messages /\ Event(e).event \notin LinkEvents
  BY MessageTypes DEF EventNames, LinkEvents
<1> QED BY <1>2, <1>3 DEF Carried

\* A step is one of the link, or it carries the queues and leaves link and modes alone.
LEMMA QueuesCarry ==
  ASSUME TypeOK, Next
  PROVE  \/ /\ UNCHANGED <<up, conn, send_callback, rx, step>>
            /\ \A b \in Boards : Carried(btq[b], btq'[b])
         \/ Disconnect
         \/ /\ UNCHANGED mode /\ up' = TRUE
            /\ \A b \in Boards : btq'[b] = Append(btq[b], Event("connect"))
         \/ \E b \in Boards : HandleConnect(b) \/ HandleDisconnect(b) \/ Switch(b)
<1>0. /\ "master" \in Boards /\ "slave" \in Boards /\ Boards = {"master", "slave"}
      /\ btq \in [Boards -> Seq(Messages)] /\ "master" # "slave"
      /\ \A b \in Boards : Far(b) \in Boards
  BY DEF TypeOK, Boards, Far
<1> DEFINE Leaves == UNCHANGED <<up, conn, send_callback, rx, step>>
           Carries == \A b \in Boards : Carried(btq[b], btq'[b])
<1>1. UNCHANGED <<air, mode>> => Leaves
  BY DEF air, mode
<1>2. UNCHANGED btq => Carries
  BY DEF Carried
<1>3. ASSUME NEW b \in Boards, btq[b] # <<>>, Head(btq[b]).event \notin LinkEvents,
             NEW rest \in Replies, Next1(b, rest)
      PROVE  Carries
  <2>1. btq'[b] = Tail(btq[b]) \o rest /\ \A d \in Boards \ {b} : btq'[d] = btq[d]
    BY <1>0, <1>3, NextTakes, ReplyTypes
  <2>2. Carried(btq[b], btq'[b])
    BY <1>0, <1>3, <2>1, ReplyCarried
  <2> QED BY <2>1, <2>2 DEF Carried
<1>4. ASSUME NEW b \in Boards, NEW m \in Messages, m.event \notin LinkEvents,
             btq' = [btq EXCEPT ![b] = Append(@, m)]
      PROVE  Carries
  <2>1. btq'[b] = Append(btq[b], m) /\ \A d \in Boards \ {b} : btq'[d] = btq[d]
    BY <1>0, <1>4
  <2> QED BY <1>4, <2>1 DEF Carried
<1> HIDE DEF Leaves, Carries
<1>5. CASE ScanResult
  <2>1. UNCHANGED <<up, conn, send_callback, rx, step>> /\ UNCHANGED btq
    BY <1>5 DEF ScanResult, mode
  <2> QED BY <1>2, <2>1 DEF Carries
<1>6. CASE Open
  <2>1. CASE UNCHANGED <<up, btq>>
    <3>1. UNCHANGED <<up, conn, send_callback, rx, step>> /\ UNCHANGED btq
      BY <1>6, <2>1 DEF Open, mode
    <3> QED BY <1>2, <3>1 DEF Carries
  <2>2. CASE up' = TRUE /\ btq' = [b \in Boards |-> Append(btq[b], Event("connect"))]
    BY <1>6, <2>2 DEF Open
  <2> QED BY <1>6, <2>1, <2>2 DEF Open, Leaves, Carries
<1>7. CASE gattc_btnA_cb
  <2>1. Event("baud") \in Messages /\ Event("baud").event \notin LinkEvents
    BY MessageTypes DEF EventNames, LinkEvents
  <2> QED BY <1>0, <1>1, <1>2, <1>4, <1>7, <2>1 DEF gattc_btnA_cb, Leaves, Carries
<1>8. ASSUME NEW b \in Boards, BluetoothTask(b), ~HandleConnect(b), ~HandleDisconnect(b), ~Switch(b)
      PROVE  Leaves /\ Carries
  <2>1. <<>> \in Replies /\ \A e \in {"mtu", "search", "registered"} : <<Event(e)>> \in Replies
    BY DEF Replies
  <2>2. \A d \in Boards, e \in EventNames \ LinkEvents :
          Got(d, e) => btq[d] # <<>> /\ Head(btq[d]).event \notin LinkEvents
    BY DEF Got
  <2>3. {"data", "close", "mtu", "search", "registered", "notify", "baud"} \subseteq EventNames \ LinkEvents
    BY DEF EventNames, LinkEvents
  <2>4. CASE HandleData(b)
    BY <1>1, <1>3, <2>1, <2>2, <2>3, <2>4 DEF HandleData
  <2>5. CASE HandleClose
    BY <1>0, <1>3, <2>1, <2>2, <2>3, <2>5 DEF HandleClose, Leaves, mode
  <2>6. CASE HandleMtu
    BY <1>0, <1>1, <1>3, <2>1, <2>2, <2>3, <2>6 DEF HandleMtu
  <2>7. CASE HandleSearch
    BY <1>0, <1>1, <1>3, <2>1, <2>2, <2>3, <2>7 DEF HandleSearch
  <2>8. CASE HandleRegistered
    <3>1. Event("notify") \in Messages /\ Event("notify").event \notin LinkEvents
      BY MessageTypes DEF EventNames, LinkEvents
    <3>2. /\ btq["master"] # <<>> /\ Head(btq["master"]).event \notin LinkEvents
          /\ btq["slave"] \in Seq(Messages)
      BY <1>0, <2>2, <2>3, <2>8 DEF HandleRegistered
    <3>3. btq'["slave"] = btq["slave"] \o <<>> \/ btq'["slave"] = btq["slave"] \o <<Event("notify")>>
      BY <2>8 DEF HandleRegistered
    <3>4. btq'["master"] = Tail(btq["master"])
      BY <2>8 DEF HandleRegistered
    <3>5. btq'["slave"] = btq["slave"] \/ btq'["slave"] = Append(btq["slave"], Event("notify"))
      BY <3>1, <3>2, <3>3, Joins
    <3>6. Carried(btq["master"], btq'["master"]) /\ Carried(btq["slave"], btq'["slave"])
      BY <3>1, <3>2, <3>4, <3>5 DEF Carried
    <3> QED BY <1>0, <1>1, <2>8, <3>6 DEF HandleRegistered, Carries
  <2>9. CASE HandleNotify
    BY <1>0, <1>1, <1>3, <2>1, <2>2, <2>3, <2>9 DEF HandleNotify
  <2>10. CASE HandleBaud
    BY <1>0, <1>1, <1>3, <2>1, <2>2, <2>3, <2>10 DEF HandleBaud
  <2> QED BY <1>8, <2>4, <2>5, <2>6, <2>7, <2>8, <2>9, <2>10 DEF BluetoothTask
<1>9. CASE \E b \in Boards : Receive(b)
  BY <1>1, <1>2, <1>9 DEF Receive, Leaves, Carries
<1>10. ASSUME NEW b \in Boards, TakeEvent(b) PROVE Leaves /\ Carries
  BY <1>1, <1>2, <1>10 DEF TakeEvent
<1>11. ASSUME NEW b \in Boards, ReadChunk(b) PROVE Leaves /\ Carries
  <2> DEFINE n == Least(Chunk, size[b])
             m == Write(SubSeq(ring[b], 1, n))
  <2>1. /\ n \in 1..Len(ring[b]) /\ ring[b] \in Seq(Nat)
        /\ UNCHANGED btq \/ btq' = [btq EXCEPT ![Far(b)] = Append(@, m)]
        /\ UNCHANGED <<air, mode>>
    BY <1>11, ReadTypes
  <2> HIDE DEF n
  <2>2. SubSeq(ring[b], 1, n) \in Seq(Nat)
    BY <2>1
  <2>3. m \in Messages /\ m.event \notin LinkEvents
    BY <2>2, MessageTypes DEF LinkEvents
  <2> HIDE DEF m
  <2> QED BY <1>0, <1>1, <1>2, <1>4, <2>1, <2>3
<1> QED BY <1>5, <1>6, <1>7, <1>8, <1>9, <1>10, <1>11 DEF Next, uart_task, Leaves, Carries

\* The event that makes the flag of a board that of the link.
Newest == IF up THEN "connect" ELSE "disconnect"

\* Every step keeps each UART in the mode of its board's flag, or on its way there, and the
\* flag that of the link, or its event in the queue.
LEMMA ModeStep ==
  ASSUME TypeOK, SwitchInv, LinkInv, Next
  PROVE  SwitchInv' /\ LinkInv'
<1>0. /\ "master" \in Boards /\ "slave" \in Boards /\ Boards = {"master", "slave"}
      /\ \A b \in Boards : btq[b] \in Seq(Messages) /\ up \in BOOLEAN /\ Newest \in LinkEvents
  BY DEF TypeOK, Boards, Newest, LinkEvents
<1>1. \A b \in Boards : (Quiet(btq[b]) /\ conn[b] = up) \/ EndsIn(btq[b], Newest)
  BY DEF LinkInv, Newest
<1> DEFINE OneOf(b) ==
             /\ step[b] = "none" => send_callback[b] = conn[b] /\ rx[b] = conn[b]
             /\ step[b] \in {"enable", "enabled"} =>
                  btq[b] # <<>> /\ Head(btq[b]).event = "connect" /\ conn[b]
             /\ step[b] = "enabled" => send_callback[b]
             /\ step[b] \in {"disable", "disabled"} =>
                  btq[b] # <<>> /\ Head(btq[b]).event = "disconnect" /\ ~conn[b]
             /\ step[b] = "disabled" => ~rx[b]
<1>2. \A b \in Boards : OneOf(b)
  BY DEF SwitchInv
<1> SUFFICES /\ \A b \in Boards : OneOf(b)'
             /\ \A b \in Boards : (Quiet(btq'[b]) /\ conn'[b] = up') \/ EndsIn(btq'[b], Newest')
  BY DEF SwitchInv, LinkInv, Newest
\* The queue keeps the event at its head, and the UART is not switched.
<1>3. ASSUME NEW b \in Boards, UNCHANGED <<step, conn, send_callback, rx>>,
             btq[b] # <<>> /\ Head(btq[b]).event \in LinkEvents =>
               btq'[b] # <<>> /\ Head(btq'[b]) = Head(btq[b])
      PROVE  OneOf(b)'
  BY <1>2, <1>3 DEF LinkEvents
<1> HIDE DEF OneOf
<1>4. CASE /\ UNCHANGED <<up, conn, send_callback, rx, step>>
           /\ \A b \in Boards : Carried(btq[b], btq'[b])
  <2>1. Newest' = Newest
    BY <1>4 DEF Newest
  <2>2. ASSUME NEW b \in Boards
        PROVE  OneOf(b)' /\ ((Quiet(btq'[b]) /\ conn'[b] = up') \/ EndsIn(btq'[b], Newest'))
    <3>1. /\ Quiet(btq[b]) => Quiet(btq'[b])
          /\ \A e \in LinkEvents : EndsIn(btq[b], e) => EndsIn(btq'[b], e)
          /\ btq[b] # <<>> /\ Head(btq[b]).event \in LinkEvents =>
               btq'[b] # <<>> /\ Head(btq'[b]) = Head(btq[b])
      BY <1>0, <1>4, CarriedEvents
    <3>2. OneOf(b)'
      BY <1>3, <1>4, <3>1
    <3> QED BY <1>0, <1>1, <1>4, <2>1, <3>1, <3>2
  <2> QED BY <2>2
<1>5. ASSUME NEW b \in Boards, NEW e \in LinkEvents, NEW m \in Messages, m.event = e,
             btq'[b] = Append(btq[b], m)
      PROVE  /\ EndsIn(btq'[b], e)
             /\ btq[b] # <<>> => btq'[b] # <<>> /\ Head(btq'[b]) = Head(btq[b])
  BY <1>0, <1>5, QueueAppend
<1>6. CASE /\ UNCHANGED mode /\ up' = TRUE
           /\ \A b \in Boards : btq'[b] = Append(btq[b], Event("connect"))
  <2>1. Newest' = "connect" /\ "connect" \in LinkEvents
    BY <1>6 DEF Newest, LinkEvents
  <2>2. Event("connect") \in Messages /\ Event("connect").event = "connect"
    BY MessageTypes DEF EventNames
  <2>3. \A b \in Boards : /\ EndsIn(btq'[b], "connect")
                          /\ btq[b] # <<>> => btq'[b] # <<>> /\ Head(btq'[b]) = Head(btq[b])
    BY <1>5, <1>6, <2>1, <2>2
  <2>4. \A b \in Boards : OneOf(b)'
    BY <1>3, <1>6, <2>3 DEF mode
  <2> QED BY <2>1, <2>3, <2>4
<1>7. CASE Disconnect
  <2>1. Newest' = "disconnect" /\ "disconnect" \in LinkEvents /\ UNCHANGED mode
    BY <1>7 DEF Disconnect, Newest, LinkEvents
  <2>2. /\ Event("disconnect") \in Messages /\ Event("disconnect").event = "disconnect"
        /\ Event("close") \in Messages /\ Event("close").event = "close"
    BY MessageTypes DEF EventNames
  <2>3. /\ btq'["slave"] = Append(btq["slave"], Event("disconnect"))
        /\ btq'["master"] = btq["master"] \o <<Event("disconnect"), Event("close")>>
    BY <1>7 DEF Disconnect
  <2>4. /\ EndsIn(btq'["slave"], "disconnect")
        /\ btq["slave"] # <<>> => btq'["slave"] # <<>> /\ Head(btq'["slave"]) = Head(btq["slave"])
    BY <1>0, <1>5, <2>1, <2>2, <2>3
  <2> DEFINE q == Append(btq["master"], Event("disconnect"))
  <2>5. btq'["master"] = Append(q, Event("close"))
    BY <1>0, <2>2, <2>3, Joins
  <2>6. /\ q \in Seq(Messages) /\ q # <<>> /\ EndsIn(q, "disconnect")
        /\ btq["master"] # <<>> => Head(q) = Head(btq["master"])
    BY <1>0, <2>2, QueueAppend
  <2> HIDE DEF q
  <2>7. /\ EndsIn(btq'["master"], "disconnect")
        /\ btq["master"] # <<>> => btq'["master"] # <<>> /\ Head(btq'["master"]) = Head(btq["master"])
    BY <2>2, <2>5, <2>6, QueueAppend DEF LinkEvents
  <2>8. \A b \in Boards : OneOf(b)'
    BY <1>0, <1>3, <2>1, <2>4, <2>7 DEF mode
  <2> QED BY <1>0, <2>1, <2>4, <2>7, <2>8
\* An event of the link at the head of a queue has not been handled.
<1>8. ASSUME NEW b \in Boards, btq[b] # <<>>, Head(btq[b]).event \in LinkEvents
      PROVE  EndsIn(btq[b], Newest)
  <2>1. 1 \in 1..Len(btq[b]) /\ Head(btq[b]) = btq[b][1]
    BY <1>0, <1>8
  <2>2. ~Quiet(btq[b])
    BY <1>8, <2>1 DEF Quiet
  <2> QED BY <1>1, <2>2
\* A step of board b leaves the other board alone.
<1>9. ASSUME NEW b \in Boards, NEW d \in Boards, d # b, UNCHANGED up,
             btq'[d] = btq[d], conn'[d] = conn[d], step'[d] = step[d],
             send_callback'[d] = send_callback[d], rx'[d] = rx[d]
      PROVE  OneOf(d)' /\ ((Quiet(btq'[d]) /\ conn'[d] = up') \/ EndsIn(btq'[d], Newest'))
  <2>1. Newest' = Newest
    BY <1>9 DEF Newest
  <2> QED BY <1>1, <1>2, <1>9, <2>1 DEF OneOf
<1>10. ASSUME NEW b \in Boards, HandleConnect(b) \/ HandleDisconnect(b)
       PROVE  \A d \in Boards :
                OneOf(d)' /\ ((Quiet(btq'[d]) /\ conn'[d] = up') \/ EndsIn(btq'[d], Newest'))
  <2>1. btq[b] # <<>> /\ Head(btq[b]).event \in LinkEvents /\ UNCHANGED <<btq, up, send_callback, rx>>
    BY <1>10 DEF HandleConnect, HandleDisconnect, Got, LinkEvents, air
  <2>2. /\ \A d \in Boards \ {b} : conn'[d] = conn[d] /\ step'[d] = step[d]
        /\ \/ Head(btq[b]).event = "connect" /\ conn'[b] = TRUE /\ step'[b] = "enable"
           \/ Head(btq[b]).event = "disconnect" /\ conn'[b] = FALSE /\ step'[b] = "disable"
    BY <1>10 DEF HandleConnect, HandleDisconnect, Got, TypeOK
  <2>3. Newest' = Newest
    BY <2>1 DEF Newest
  <2>4. OneOf(b)'
    BY <2>1, <2>2 DEF OneOf
  <2>5. EndsIn(btq'[b], Newest')
    BY <1>8, <2>1, <2>3
  <2> QED BY <1>9, <2>1, <2>2, <2>4, <2>5
<1>11. ASSUME NEW b \in Boards, Switch(b)
       PROVE  \A d \in Boards :
                OneOf(d)' /\ ((Quiet(btq'[d]) /\ conn'[d] = up') \/ EndsIn(btq'[d], Newest'))
  <2>0. UNCHANGED <<up, conn>> /\ Newest' = Newest
    BY <1>11 DEF Switch, Newest
  <2>1. /\ btq[b] # <<>> /\ Head(btq[b]).event \in LinkEvents
        /\ step[b] \in {"enable", "enabled"} => Head(btq[b]).event = "connect" /\ conn[b]
        /\ step[b] \in {"disable", "disabled"} => Head(btq[b]).event = "disconnect" /\ ~conn[b]
        /\ step[b] = "enabled" => send_callback[b]
        /\ step[b] = "disabled" => ~rx[b]
    BY <1>2, <1>11 DEF OneOf, Switch, uart_dev_intr_enable, uart_dev_intr_disable, LinkEvents
  <2>2. EndsIn(btq[b], Newest)
    BY <1>8, <2>1
  \* Half of the switch, and the other half.
  <2>3. CASE /\ step[b] = "enable" /\ send_callback' = [send_callback EXCEPT ![b] = TRUE]
             /\ step' = [step EXCEPT ![b] = "enabled"] /\ UNCHANGED <<rx, btq>>
    <3>1. step'[b] = "enabled" /\ send_callback'[b]
      BY <2>3 DEF TypeOK
    <3>2. \A d \in Boards \ {b} : step'[d] = step[d] /\ send_callback'[d] = send_callback[d]
      BY <2>3
    <3>3. OneOf(b)'
      BY <2>0, <2>1, <2>3, <3>1 DEF OneOf
    <3> QED BY <1>9, <2>0, <2>2, <2>3, <3>2, <3>3
  <2>4. CASE /\ step[b] = "disable" /\ rx' = [rx EXCEPT ![b] = FALSE]
             /\ step' = [step EXCEPT ![b] = "disabled"] /\ UNCHANGED <<send_callback, btq>>
    <3>1. step'[b] = "disabled" /\ ~rx'[b]
      BY <2>4 DEF TypeOK
    <3>2. \A d \in Boards \ {b} : step'[d] = step[d] /\ rx'[d] = rx[d]
      BY <2>4
    <3>3. OneOf(b)'
      BY <2>0, <2>1, <2>4, <3>1 DEF OneOf
    <3> QED BY <1>9, <2>0, <2>2, <2>4, <3>2, <3>3
  <2>5. CASE /\ Continue(b)
             /\ \/ step[b] = "enabled" /\ rx' = [rx EXCEPT ![b] = TRUE] /\ UNCHANGED send_callback
                \/ /\ step[b] = "disabled" /\ send_callback' = [send_callback EXCEPT ![b] = FALSE]
                   /\ UNCHANGED rx
    <3>1. PICK rest \in Replies : step' = [step EXCEPT ![b] = "none"] /\ Next1(b, rest)
      BY <2>1, <2>5, ContinueTakes
    <3>2. step'[b] = "none" /\ send_callback'[b] = conn'[b] /\ rx'[b] = conn'[b]
      BY <2>0, <2>1, <2>5, <3>1, ZenonT(30) DEF TypeOK
    <3>3. OneOf(b)'
      BY <3>2 DEF OneOf
    <3>4. /\ btq'[b] = Tail(btq[b]) \o rest /\ \A d \in Boards \ {b} : btq'[d] = btq[d]
          /\ Tail(btq[b]) \in Seq(Messages)
      BY <1>0, <2>1, <3>1, NextTakes, ReplyTypes, QueueTail DEF TypeOK
    <3>5. \A d \in Boards \ {b} :
            step'[d] = step[d] /\ send_callback'[d] = send_callback[d] /\ rx'[d] = rx[d]
      BY <2>5, <3>1 DEF TypeOK
    <3>6. \/ btq'[b] = Tail(btq[b])
          \/ \E e \in {"mtu", "search", "registered"} : btq'[b] = Append(Tail(btq[b]), Event(e))
      <4>1. /\ Tail(btq[b]) \o <<>> = Tail(btq[b])
            /\ \A m \in Messages : Tail(btq[b]) \o <<m>> = Append(Tail(btq[b]), m)
        BY <3>4, Joins
      <4> QED BY <3>4, <4>1, MessageTypes DEF Replies, EventNames
    <3>7. /\ Quiet(Tail(btq[b])) => Quiet(btq'[b])
          /\ EndsIn(Tail(btq[b]), Newest) => EndsIn(btq'[b], Newest)
      <4>1. \A e \in {"mtu", "search", "registered"} :
              Event(e) \in Messages /\ Event(e).event \notin LinkEvents
        BY MessageTypes DEF EventNames, LinkEvents
      <4> QED BY <3>4, <3>6, <4>1, QueueAppend
    <3>8. EndsIn(Tail(btq[b]), Newest) \/ (Head(btq[b]).event = Newest /\ Quiet(Tail(btq[b])))
      BY <1>0, <2>1, <2>2, QueueTail
    <3>9. Head(btq[b]).event = Newest => conn[b] = up
      BY <1>0, <2>1, <2>5 DEF Newest, TypeOK
    <3>10. (Quiet(btq'[b]) /\ conn'[b] = up') \/ EndsIn(btq'[b], Newest')
      BY <2>0, <3>7, <3>8, <3>9
    <3> QED BY <1>9, <2>0, <3>3, <3>4, <3>5, <3>10
  <2> QED BY <1>11, <2>3, <2>4, <2>5 DEF Switch, uart_dev_intr_enable, uart_dev_intr_disable
<1> QED BY <1>4, <1>6, <1>7, <1>10, <1>11, QueuesCarry

----------------------------------------------------------------------------
(* The set-up of the services, step by step.                               *)

\* The events on which the set-up goes on.
SetupEvents == {"connect", "mtu", "search", "registered", "notify"}

\* It goes on while the events of the set-up stay in the queues.
LEMMA SetupKept ==
  ASSUME NEW m, NEW s, NEW p, NEW q, NEW f, NEW r, NEW n, GoesOn(m, s, f, r, n),
         \A e \in SetupEvents : Holds(m, e) => Holds(p, e),
         \A e \in SetupEvents : Holds(s, e) => Holds(q, e)
  PROVE  GoesOn(p, q, f, r, n)
BY DEF GoesOn, SetupEvents

\* A board that takes an event of another kind from its queue keeps those of the set-up.
LEMMA TakenKept ==
  ASSUME TypeOK, NEW b \in Boards, btq[b] # <<>>, NEW rest \in Replies, Next1(b, rest)
  PROVE  /\ btq' \in [Boards -> Seq(Messages)]
         /\ \A d \in Boards, e \in SetupEvents :
              Head(btq[b]).event # e /\ Holds(btq[d], e) => Holds(btq'[d], e)
         /\ \A d \in Boards \ {b} : btq'[d] = btq[d]
         /\ rest # <<>> => Holds(btq'[b], rest[1].event)
<1>1. /\ btq \in [Boards -> Seq(Messages)] /\ rest \in Seq(Messages)
      /\ Tail(btq[b]) \in Seq(Messages)
  BY ReplyTypes DEF TypeOK
<1>2. /\ btq' \in [Boards -> Seq(Messages)] /\ btq'[b] = Tail(btq[b]) \o rest
      /\ \A d \in Boards \ {b} : btq'[d] = btq[d]
  BY <1>1, NextTakes
<1>3. \/ rest = <<>> /\ btq'[b] = Tail(btq[b])
      \/ \E e \in {"mtu", "search", "registered"} :
           rest = <<Event(e)>> /\ btq'[b] = Append(Tail(btq[b]), Event(e))
  <2>1. Tail(btq[b]) \o <<>> = Tail(btq[b]) /\ \A m \in Messages : Tail(btq[b]) \o <<m>> = Append(Tail(btq[b]), m)
    BY <1>1, Joins
  <2> QED BY <1>2, <2>1, MessageTypes DEF Replies, EventNames
<1>4. \A e : Head(btq[b]).event # e /\ Holds(btq[b], e) => Holds(Tail(btq[b]), e)
  BY <1>1, QueueTail
<1>5. ASSUME NEW e \in {"mtu", "search", "registered"},
             rest = <<Event(e)>> /\ btq'[b] = Append(Tail(btq[b]), Event(e))
      PROVE  /\ \A f : Holds(Tail(btq[b]), f) => Holds(btq'[b], f)
             /\ Holds(btq'[b], rest[1].event)
  <2>1. Event(e) \in Messages
    BY MessageTypes DEF EventNames
  <2> QED BY <1>1, <1>5, <2>1, QueueAppend
<1>6. \A e \in SetupEvents : Head(btq[b]).event # e /\ Holds(btq[b], e) => Holds(btq'[b], e)
  BY <1>3, <1>4, <1>5
<1> QED BY <1>2, <1>3, <1>5, <1>6

\* A board that is sent a message keeps what it has.
LEMMA SentKept ==
  ASSUME TypeOK, NEW b \in Boards, NEW m \in Messages, btq' = [btq EXCEPT ![b] = Append(@, m)]
  PROVE  \A d \in Boards, e \in SetupEvents : Holds(btq[d], e) => Holds(btq'[d], e)
<1>1. /\ btq'[b] = Append(btq[b], m) /\ \A d \in Boards \ {b} : btq'[d] = btq[d]
      /\ btq[b] \in Seq(Messages)
  BY DEF TypeOK
<1>2. \A e : Holds(btq[b], e) => Holds(btq'[b], e)
  BY <1>1, QueueAppend
<1> QED BY <1>1, <1>2

\* Every step keeps the set-up going.
LEMMA SetupStep ==
  ASSUME TypeOK, SwitchInv, LinkInv, SetupInv, Next
  PROVE  SetupInv'
<1>0. /\ "master" \in Boards /\ "slave" \in Boards /\ Boards = {"master", "slave"}
      /\ "master" # "slave"
      /\ btq \in [Boards -> Seq(Messages)] /\ \A b \in Boards : Far(b) \in Boards
  BY DEF TypeOK, Boards, Far
<1> SUFFICES ASSUME up'
             PROVE  GoesOn(btq'["master"], btq'["slave"], found', registered', notif')
  BY DEF SetupInv
<1> DEFINE Kept == \A d \in Boards, e \in SetupEvents : Holds(btq[d], e) => Holds(btq'[d], e)
<1>1. CASE UNCHANGED <<up, found, registered, notif>> /\ Kept
  BY <1>0, <1>1, SetupKept DEF SetupInv
<1>2. UNCHANGED btq => Kept
  OBVIOUS
<1>3. ASSUME NEW b \in Boards, NEW m \in Messages, btq' = [btq EXCEPT ![b] = Append(@, m)]
      PROVE  Kept
  BY <1>3, SentKept
<1>4. ASSUME NEW b \in Boards, Got(b, "data") \/ Got(b, "close") \/ Got(b, "baud"), Next1(b, <<>>)
      PROVE  Kept
  <2>1. /\ <<>> \in Replies /\ btq[b] # <<>>
        /\ Head(btq[b]).event \notin SetupEvents
    BY <1>4 DEF Replies, Got, SetupEvents
  <2> QED BY <1>4, <2>1, TakenKept
<1> HIDE DEF Kept
<1>5. CASE ScanResult
  <2>1. UNCHANGED <<up, found, registered, notif, btq>>
    BY <1>5 DEF ScanResult, gatt
  <2> QED BY <1>1, <1>2, <2>1
<1>6. CASE Open
  <2>1. UNCHANGED <<found, registered, notif>>
    BY <1>6 DEF Open, gatt
  <2>2. CASE UNCHANGED <<up, btq>>
    BY <1>1, <1>2, <2>1, <2>2
  <2>3. CASE btq' = [b \in Boards |-> Append(btq[b], Event("connect"))]
    <3>1. btq'["master"] = Append(btq["master"], Event("connect")) /\ btq["master"] \in Seq(Messages)
      BY <1>0, <2>3
    <3>2. Event("connect") \in Messages /\ Event("connect").event = "connect"
      BY MessageTypes DEF EventNames
    <3>3. Holds(btq'["master"], "connect")
      BY <3>1, <3>2, QueueAppend
    <3> QED BY <3>3 DEF GoesOn
  <2> QED BY <1>6, <2>2, <2>3 DEF Open
<1>7. CASE Disconnect
  BY <1>7 DEF Disconnect
<1>8. CASE gattc_btnA_cb
  <2>1. Event("baud") \in Messages
    BY MessageTypes DEF EventNames
  <2>2. UNCHANGED <<up, found, registered, notif>>
    BY <1>8 DEF gattc_btnA_cb, air, gatt
  <2>3. Kept
    BY <1>0, <1>2, <1>3, <1>8, <2>1 DEF gattc_btnA_cb
  <2> QED BY <1>1, <2>2, <2>3
<1>9. CASE \E b \in Boards : HandleConnect(b) \/ HandleDisconnect(b)
  <2>1. UNCHANGED <<up, found, registered, notif, btq>>
    BY <1>9 DEF HandleConnect, HandleDisconnect, air, gatt
  <2> QED BY <1>1, <1>2, <2>1
<1>10. ASSUME NEW b \in Boards, Switch(b)
       PROVE  GoesOn(btq'["master"], btq'["slave"], found', registered', notif')
  <2>1. UNCHANGED <<up, found, registered, notif>>
    BY <1>10 DEF Switch, gatt
  <2>2. UNCHANGED btq \/ Continue(b)
    BY <1>10 DEF Switch, uart_dev_intr_enable, uart_dev_intr_disable
  <2>3. btq[b] # <<>> /\ Head(btq[b]).event \in LinkEvents
    BY <1>10 DEF Switch, uart_dev_intr_enable, uart_dev_intr_disable, SwitchInv, LinkEvents
  <2>4. CASE Continue(b)
    <3>1. PICK rest \in Replies :
            /\ Next1(b, rest)
            /\ rest = IF Head(btq[b]).event = "connect" /\ b = "master" /\ up
                      THEN <<Event("mtu")>> ELSE <<>>
      BY <2>3, <2>4, ContinueTakes
    <3>2. CASE Head(btq[b]).event = "connect" /\ b = "master"
      <4>1. rest = <<Event("mtu")>>
        BY <2>1, <3>1, <3>2
      <4>2. rest # <<>> /\ rest[1].event = "mtu"
        BY <4>1, MessageTypes DEF EventNames
      <4>3. Holds(btq'["master"], "mtu")
        BY <2>3, <3>1, <3>2, <4>2, TakenKept
      <4> QED BY <4>3 DEF GoesOn
    <3>3. CASE Head(btq[b]).event = "disconnect"
      <4>1. Kept
        BY <2>3, <3>1, <3>3, TakenKept DEF Kept, SetupEvents
      <4> QED BY <1>1, <2>1, <4>1
    <3>4. CASE b = "slave"
      <4>1. btq'["master"] = btq["master"]
        BY <1>0, <2>3, <3>1, <3>4, TakenKept
      <4>2. Holds(btq["slave"], "notify") => Holds(btq'["slave"], "notify")
        BY <2>3, <3>1, <3>4, TakenKept DEF SetupEvents, LinkEvents
      <4> QED BY <2>1, <4>1, <4>2 DEF GoesOn, SetupInv
    <3> QED BY <1>0, <2>3, <3>2, <3>3, <3>4 DEF LinkEvents
  <2> QED BY <1>1, <1>2, <2>1, <2>2, <2>4
<1>11. CASE (\E b \in Boards : HandleData(b)) \/ HandleClose \/ HandleBaud
  <2>1. UNCHANGED <<up, found, registered, notif>>
    BY <1>11 DEF HandleData, HandleClose, HandleBaud, air, gatt
  <2>2. Kept
    BY <1>0, <1>4, <1>11 DEF HandleData, HandleClose, HandleBaud
  <2> QED BY <1>1, <2>1, <2>2
<1>12. CASE HandleMtu
  <2>1. /\ btq["master"] # <<>> /\ up
        /\ <<Event("search")>> \in Replies /\ Next1("master", <<Event("search")>>)
    BY <1>12 DEF HandleMtu, Got, Replies, air
  <2>2. Event("search").event = "search"
    BY MessageTypes DEF EventNames
  <2>3. <<Event("search")>> # <<>> /\ <<Event("search")>>[1] = Event("search")
    OBVIOUS
  <2>4. Holds(btq'["master"], "search")
    BY <1>0, <2>1, <2>2, <2>3, TakenKept
  <2> QED BY <2>4 DEF GoesOn
<1>13. CASE HandleSearch
  <2>1. /\ btq["master"] # <<>> /\ up /\ found' /\ registered'
        /\ <<Event("registered")>> \in Replies /\ Next1("master", <<Event("registered")>>)
    BY <1>13 DEF HandleSearch, Got, Replies, air
  <2>2. Event("registered").event = "registered"
    BY MessageTypes DEF EventNames
  <2>3. <<Event("registered")>> # <<>> /\ <<Event("registered")>>[1] = Event("registered")
    OBVIOUS
  <2>4. Holds(btq'["master"], "registered")
    BY <1>0, <2>1, <2>2, <2>3, TakenKept
  <2> QED BY <2>1, <2>4 DEF GoesOn
<1>14. CASE HandleRegistered
  <2>1. /\ btq["master"] # <<>> /\ Head(btq["master"]).event = "registered"
        /\ UNCHANGED <<up, found, registered, notif>>
        /\ btq["master"] \in Seq(Messages) /\ btq["slave"] \in Seq(Messages)
        /\ btq'["master"] = Tail(btq["master"])
        /\ btq'["slave"] = btq["slave"] \o (IF conn["master"] /\ up THEN <<Event("notify")>> ELSE <<>>)
    BY <1>0, <1>14 DEF HandleRegistered, Got, air, gatt
  <2>2. \A e \in {"connect", "mtu", "search"} : Holds(btq["master"], e) => Holds(btq'["master"], e)
    BY <2>1, QueueTail
  <2>3. CASE EndsIn(btq["master"], "connect")
    BY <2>2, <2>3, EndsHolds DEF GoesOn
  <2>4. CASE conn["master"] = up
    <3>1. Event("notify") \in Messages /\ Event("notify").event = "notify"
      BY MessageTypes DEF EventNames
    <3>2. btq'["slave"] = Append(btq["slave"], Event("notify"))
      BY <2>1, <2>4, <3>1, Joins
    <3>3. Holds(btq'["slave"], "notify")
      <4>1. Holds(Append(btq["slave"], Event("notify")), Event("notify").event)
        BY <2>1, <3>1, QueueAppend
      <4> QED BY <3>1, <3>2, <4>1
    <3> QED BY <2>1, <2>2, <3>3 DEF GoesOn, SetupInv
  <2> QED BY <1>0, <2>1, <2>3, <2>4 DEF LinkInv
<1>15. CASE HandleNotify
  <2>1. /\ btq["slave"] # <<>> /\ <<>> \in Replies /\ Next1("slave", <<>>)
        /\ notif' = TRUE /\ UNCHANGED <<up, found, registered>>
    BY <1>15 DEF HandleNotify, Got, Replies, air
  <2>2. btq'["master"] = btq["master"]
    BY <1>0, <2>1, TakenKept
  <2> QED BY <2>1, <2>2 DEF GoesOn, SetupInv
<1>16. CASE \E b \in Boards : Receive(b) \/ TakeEvent(b)
  <2>1. UNCHANGED <<up, found, registered, notif, btq>>
    BY <1>16 DEF Receive, TakeEvent, air, gatt
  <2> QED BY <1>1, <1>2, <2>1
<1>17. ASSUME NEW b \in Boards, ReadChunk(b)
       PROVE  GoesOn(btq'["master"], btq'["slave"], found', registered', notif')
  <2> DEFINE n == Least(Chunk, size[b])
             m == Write(SubSeq(ring[b], 1, n))
  <2>1. /\ n \in 1..Len(ring[b]) /\ ring[b] \in Seq(Nat)
        /\ UNCHANGED btq \/ btq' = [btq EXCEPT ![Far(b)] = Append(@, m)]
        /\ UNCHANGED <<up, found, registered, notif>>
    BY <1>17, ReadTypes DEF air, gatt
  <2> HIDE DEF n
  <2>2. SubSeq(ring[b], 1, n) \in Seq(Nat)
    BY <2>1
  <2>3. m \in Messages
    BY <2>2, MessageTypes
  <2> HIDE DEF m
  <2>4. Kept
    BY <1>0, <1>2, <1>3, <2>1, <2>3
  <2> QED BY <1>1, <2>1, <2>4
<1> QED BY <1>5, <1>6, <1>7, <1>8, <1>9, <1>10, <1>11, <1>12, <1>13, <1>14, <1>15, <1>16, <1>17
    DEF Next, BluetoothTask, uart_task

----------------------------------------------------------------------------
(* The theorem.                                                            *)

\* The parts need one another, and each is kept by every step.
LinkInvariant == TypeOK /\ OrderInv /\ SwitchInv /\ LinkInv /\ SetupInv

\* When both boards have been told their role, nothing is on the way and no link is up.
LEMMA LinkInit == Init => LinkInvariant
<1> SUFFICES ASSUME Init PROVE LinkInvariant
  OBVIOUS
<1>1. /\ \A b \in Boards : /\ btq[b] = <<>> /\ ring[b] = <<>> /\ out[b] = <<>> /\ events[b] = <<>>
                           /\ conn[b] = FALSE /\ send_callback[b] = FALSE /\ rx[b] = FALSE
                           /\ step[b] = "none" /\ size[b] = 0 /\ typed[b] = 0
      /\ up = FALSE /\ "master" \in Boards /\ "slave" \in Boards
      /\ \A b \in Boards : Far(b) \in Boards
  BY DEF Init, Boards, Far
<1>2. TypeOK
  <2>1. load \in [Boards -> Nat]
    BY SerialAssumption DEF Init, Boards
  <2>2. /\ calm \in BOOLEAN /\ up \in BOOLEAN /\ links \in Nat
        /\ adv \in BOOLEAN /\ scan \in BOOLEAN /\ opening \in BOOLEAN
        /\ found \in BOOLEAN /\ registered \in BOOLEAN /\ notif \in BOOLEAN
    BY DEF Init
  <2>3. /\ conn \in [Boards -> BOOLEAN] /\ send_callback \in [Boards -> BOOLEAN]
        /\ rx \in [Boards -> BOOLEAN] /\ fast \in [Boards -> BOOLEAN]
        /\ step \in [Boards -> {"none", "enable", "enabled", "disable", "disabled"}]
    BY DEF Init
  <2>4. /\ btq \in [Boards -> Seq(Messages)] /\ ring \in [Boards -> Seq(Nat)]
        /\ events \in [Boards -> Seq(Nat)] /\ out \in [Boards -> Seq(Nat)]
    <3>1. <<>> \in Seq(Messages) /\ <<>> \in Seq(Nat)
      OBVIOUS
    <3> QED BY <3>1 DEF Init
  <2>5. size \in [Boards -> Nat] /\ typed \in [Boards -> Nat]
    BY DEF Init
  <2> QED BY <2>1, <2>2, <2>3, <2>4, <2>5 DEF TypeOK
<1>3. OrderInv
  <2>1. Chain(<<>>, <<>>, <<>>, 0)
    BY DEF Chain, Increasing, Below, UpTo
  <2> QED BY <1>1, <2>1 DEF OrderInv
<1>4. SwitchInv /\ SetupInv
  BY <1>1 DEF SwitchInv, SetupInv
<1>5. LinkInv
  <2>1. Quiet(<<>>)
    BY DEF Quiet
  <2> QED BY <1>1, <2>1 DEF LinkInv
<1> QED BY <1>2, <1>3, <1>4, <1>5 DEF LinkInvariant

\* Every step keeps the invariant.
LEMMA LinkInvariantStep == LinkInvariant /\ [Next]_vars => LinkInvariant'
<1> SUFFICES ASSUME LinkInvariant, [Next]_vars PROVE LinkInvariant'
  OBVIOUS
<1>1. CASE Next
  <2>1. TypeOK /\ OrderInv /\ SwitchInv /\ LinkInv /\ SetupInv
    BY DEF LinkInvariant
  <2>2. OrderInv' /\ out' \in [Boards -> Seq(Nat)]
    BY <1>1, <2>1, OrderStep
  <2>3. SwitchInv' /\ LinkInv'
    BY <1>1, <2>1, ModeStep
  <2>4. SetupInv'
    BY <1>1, <2>1, SetupStep
  <2>5. btq' \in [Boards -> Seq(Messages)]
    BY <1>1, <2>1, QueueTypes
  <2>6. /\ ring' \in [Boards -> Seq(Nat)] /\ events' \in [Boards -> Seq(Nat)]
        /\ size' \in [Boards -> Nat] /\ typed' \in [Boards -> Nat]
        /\ fast' \in [Boards -> BOOLEAN]
    BY <1>1, <2>1, UartTypes
  <2>7. /\ up' \in BOOLEAN /\ links' \in Nat
        /\ adv' \in BOOLEAN /\ scan' \in BOOLEAN /\ opening' \in BOOLEAN
        /\ found' \in BOOLEAN /\ registered' \in BOOLEAN /\ notif' \in BOOLEAN
        /\ conn' \in [Boards -> BOOLEAN] /\ send_callback' \in [Boards -> BOOLEAN]
        /\ rx' \in [Boards -> BOOLEAN] /\ UNCHANGED <<calm, load>>
        /\ step' \in [Boards -> {"none", "enable", "enabled", "disable", "disabled"}]
    BY <1>1, <2>1, LinkTypes
  <2>8. TypeOK'
    BY <2>1, <2>2, <2>5, <2>6, <2>7 DEF TypeOK
  <2> QED BY <2>2, <2>3, <2>4, <2>8 DEF LinkInvariant
<1>2. CASE UNCHANGED vars
  BY <1>2 DEF LinkInvariant, TypeOK, OrderInv, SwitchInv, LinkInv, SetupInv,
     vars, air, gatt, mode, uart
<1> QED BY <1>1, <1>2

\* Whatever the sizes of the buffers and writes, however often the link comes and goes: a host
\* receives the bytes of the other in the order they were sent in and none of them twice, and
\* once the events are handled each UART is in the mode of the link (uartdev.c, gattc.c,
\* gatts_table.c).
THEOREM LinkTransparentAlways == Spec => []LinkTransparent
<1>1. ASSUME LinkInvariant PROVE InOrder
  <2>1. \A b \in Boards : Increasing(out[b]) /\ out[b] \in Seq(Nat)
    <3> SUFFICES ASSUME NEW b \in Boards PROVE Increasing(out[b]) /\ out[b] \in Seq(Nat)
      OBVIOUS
    <3>1. Far(b) \in Boards /\ Far(Far(b)) = b
      BY DEF Far, Boards
    <3>2. Chain(out[b], btq[b], ring[Far(b)], typed[Far(b)])
      BY <1>1, <3>1 DEF LinkInvariant, OrderInv
    <3> QED BY <1>1, <3>2 DEF LinkInvariant, TypeOK, Chain
  <2>2. ASSUME NEW b \in Boards, NEW i \in 1..Len(out[b]) - 1 PROVE out[b][i] < out[b][i + 1]
    <3>1. i \in 1..Len(out[b]) /\ i + 1 \in 1..Len(out[b]) /\ i < i + 1
      BY <2>1, <2>2
    <3> QED BY <2>1, <3>1 DEF Increasing
  <2> QED BY <2>2 DEF InOrder
<1>2. ASSUME LinkInvariant PROVE ModeOfLink
  <2> SUFFICES ASSUME Settled
               PROVE  /\ \A b \in Boards : conn[b] = up /\ send_callback[b] = up /\ rx[b] = up
                      /\ up => Passes("master") /\ Passes("slave")
    BY DEF ModeOfLink
  <2>1. \A b \in Boards : step[b] = "none" /\ btq[b] = <<>>
    BY DEF Settled
  <2>2. \A e : ~EndsIn(<<>>, e) /\ ~Holds(<<>>, e)
    BY DEF EndsIn, Holds
  <2>3. \A b \in Boards : conn[b] = up
    BY <1>2, <2>1, <2>2 DEF LinkInvariant, LinkInv
  <2>4. \A b \in Boards : send_callback[b] = up /\ rx[b] = up
    BY <1>2, <2>1, <2>3 DEF LinkInvariant, SwitchInv
  <2>5. "master" \in Boards /\ "slave" \in Boards
    BY DEF Boards
  <2>6. up => found /\ registered /\ notif
    BY <1>2, <2>1, <2>2, <2>5 DEF LinkInvariant, SetupInv, GoesOn
  <2> QED BY <1>2, <2>3, <2>4, <2>5, <2>6 DEF Passes, LinkInvariant, TypeOK
<1>3. LinkInvariant => LinkTransparent
  BY <1>1, <1>2 DEF LinkTransparent
<1> QED BY LinkInit, LinkInvariantStep, <1>3, PTL DEF Spec
=============================================================================
