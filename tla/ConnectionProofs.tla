-------------------------- MODULE ConnectionProofs --------------------------
(***************************************************************************)
(* Proofs about Connection, for any number of messages and of timeouts:    *)
(* the order of the frames (InOrder) and that the connection is a channel. *)
(***************************************************************************)
EXTENDS Connection, TLAPS

-----------------------------------------------------------------------------
(* Sequences *)

LEMMA SeqMonotone ==
  ASSUME NEW S, NEW T, S \subseteq T
  PROVE  Seq(S) \subseteq Seq(T)
OBVIOUS

\* What a concatenation holds: push() writes a queue behind what was written.
LEMMA ElementsOfConcat ==
  ASSUME NEW S, NEW s \in Seq(S), NEW t \in Seq(S)
  PROVE  Elements(s \o t) = Elements(s) \cup Elements(t)
<1> DEFINE n == Len(s)
<1>1. /\ n \in Nat /\ Len(t) \in Nat /\ Len(s \o t) = n + Len(t)
      /\ \A i \in 1 .. n : (s \o t)[i] = s[i]
      /\ \A i \in 1 .. Len(t) : (s \o t)[n + i] = t[i]
  OBVIOUS
<1>2. Elements(s \o t) \subseteq Elements(s) \cup Elements(t)
  <2>1. SUFFICES ASSUME NEW i \in 1 .. Len(s \o t)
                 PROVE  (s \o t)[i] \in Elements(s) \cup Elements(t)
    BY DEF Elements
  <2>2. CASE i <= n
    BY <1>1, <2>2 DEF Elements
  <2>3. CASE i > n
    <3>1. i - n \in 1 .. Len(t) /\ i = n + (i - n)
      BY <1>1, <2>3
    <3>2. (s \o t)[i] = t[i - n]
      BY <1>1, <3>1
    <3> QED  BY <3>1, <3>2 DEF Elements
  <2> QED  BY <1>1, <2>2, <2>3
<1>3. Elements(s) \subseteq Elements(s \o t)
  BY <1>1 DEF Elements
<1>4. Elements(t) \subseteq Elements(s \o t)
  <2>1. SUFFICES ASSUME NEW i \in 1 .. Len(t) PROVE t[i] \in Elements(s \o t)
    BY DEF Elements
  <2>2. n + i \in 1 .. Len(s \o t) /\ (s \o t)[n + i] = t[i]
    BY <1>1
  <2> QED  BY <2>2 DEF Elements
<1> QED  BY <1>2, <1>3, <1>4

\* Every message of s comes before every message of t.
Before(s, t) ==
  \A a \in Elements(s), b \in Elements(t) :
    a # Undefined /\ b # Undefined => a < b

\* Two sequences in order, the first before the second, are in order together.
LEMMA IncreasingConcat ==
  ASSUME NEW s \in Seq(Nat), NEW t \in Seq(Nat),
         Increasing(s), Increasing(t), Before(s, t)
  PROVE  Increasing(s \o t)
<1> DEFINE n == Len(s)
<1>1. /\ n \in Nat /\ Len(t) \in Nat /\ Len(s \o t) = n + Len(t)
      /\ \A i \in 1 .. n : (s \o t)[i] = s[i]
      /\ \A i \in 1 .. Len(t) : (s \o t)[n + i] = t[i]
  OBVIOUS
<1>2. SUFFICES ASSUME NEW i \in 1 .. Len(s \o t), NEW j \in 1 .. Len(s \o t), i < j,
                      (s \o t)[i] # Undefined, (s \o t)[j] # Undefined
               PROVE  (s \o t)[i] < (s \o t)[j]
  BY DEF Increasing
<1>3. CASE j <= n
  BY <1>1, <1>2, <1>3 DEF Increasing
<1>4. CASE i <= n /\ j > n
  <2>1. j - n \in 1 .. Len(t) /\ j = n + (j - n)
    BY <1>1, <1>4
  <2>2. (s \o t)[j] = t[j - n] /\ (s \o t)[i] = s[i] /\ i \in 1 .. n
    BY <1>1, <1>4, <2>1
  <2>3. s[i] \in Elements(s) /\ t[j - n] \in Elements(t)
    BY <2>1, <2>2 DEF Elements
  <2> QED  BY <1>2, <2>2, <2>3 DEF Before
<1>5. CASE i > n
  <2>1. /\ i - n \in 1 .. Len(t) /\ i = n + (i - n)
        /\ j - n \in 1 .. Len(t) /\ j = n + (j - n)
        /\ i - n < j - n
    BY <1>1, <1>2, <1>5
  <2>2. (s \o t)[i] = t[i - n] /\ (s \o t)[j] = t[j - n]
    BY <1>1, <2>1
  <2> QED  BY <1>2, <2>1, <2>2 DEF Increasing
<1> QED  BY <1>1, <1>3, <1>4, <1>5

\* One more message, or none, behind those sent before.
LEMMA ArgumentFacts ==
  ASSUME NEW m \in Nat
  PROVE  /\ Argument(m) \in Seq(Nat)
         /\ Increasing(Argument(m))
         /\ Elements(Argument(m)) = {m} \ {Undefined}
<1>1. CASE m = Undefined
  BY <1>1 DEF Argument, Increasing, Elements
<1>2. CASE m # Undefined
  <2>1. Argument(m) = <<m>> /\ Len(<<m>>) = 1 /\ <<m>>[1] = m
    BY <1>2 DEF Argument
  <2>2. Elements(<<m>>) = {m}
    BY <2>1 DEF Elements
  <2>3. Increasing(<<m>>)
    BY <2>1 DEF Increasing
  <2>4. <<m>> \in Seq(Nat)
    OBVIOUS
  <2> QED  BY <1>2, <2>1, <2>2, <2>3, <2>4
<1> QED  BY <1>1, <1>2

-----------------------------------------------------------------------------
(* The invariant *)

\* Nothing is written before the socket is open; the queue is in order, behind
\* the frames; and while the socket is not closed every message is in one of
\* the two.  Without the last part a flush could leave a gap.
Unopened == readyState = "connecting" => wire = <<>>
Ordered  == Increasing(messageQueue) /\ Before(wire, messageQueue)
Complete == readyState # "closed" =>
              Message \subseteq Elements(wire) \cup Elements(messageQueue)

IInv == TypeOK /\ Unopened /\ InOrder /\ Ordered /\ Complete

LEMMA ElementsInEntry ==
  ASSUME TypeOK
  PROVE  /\ sent \in Nat
         /\ Entry \subseteq Nat
         /\ messageQueue \in Seq(Nat) /\ Elements(messageQueue) \subseteq Entry
         /\ wire \in Seq(Nat) /\ Elements(wire) \subseteq Entry
<1>1. sent \in Nat /\ Entry \subseteq Nat
  BY BoundsAssumption DEF TypeOK, Entry, Message, Undefined
<1>3. messageQueue \in Seq(Nat) /\ wire \in Seq(Nat)
  BY <1>1, SeqMonotone DEF TypeOK
<1>4. ASSUME NEW s \in Seq(Entry) PROVE Elements(s) \subseteq Entry
  BY <1>4 DEF Elements
<1> QED  BY <1>1, <1>3, <1>4 DEF TypeOK

LEMMA ElementsOfAppend ==
  ASSUME NEW s \in Seq(Nat), NEW m \in Nat
  PROVE  /\ Append(s, m) = s \o <<m>>
         /\ <<m>> \in Seq(Nat)
         /\ Elements(<<m>>) = {m}
         /\ Elements(Append(s, m)) = Elements(s) \cup {m}
         /\ Increasing(<<m>>)
<1>1. <<m>> \in Seq(Nat) /\ Len(<<m>>) = 1 /\ <<m>>[1] = m
  OBVIOUS
<1>2. Append(s, m) = s \o <<m>>
  OBVIOUS
<1>3. Elements(<<m>>) = {m} /\ Increasing(<<m>>)
  BY <1>1 DEF Elements, Increasing
<1>4. Elements(s \o <<m>>) = Elements(s) \cup Elements(<<m>>)
  BY <1>1, ElementsOfConcat
<1> QED  BY <1>1, <1>2, <1>3, <1>4

\* What send() is called with: a new message, or the timer's Undefined.
Called(m) == \/ m = Undefined /\ sent' = sent
             \/ m = sent + 1 /\ sent' = sent + 1

\* The socket is not open yet: the queue grows by m.
LEMMA EnqueueStep ==
  ASSUME IInv, NEW m \in Nat, Called(m), sent' \in 0 .. MaxMessages,
         early' \in 0 .. MaxTimeouts, UNCHANGED <<readyState, wire>>,
         readyState = "connecting", Append(messageQueue, m) = messageQueue',
         timeouts' = 1
  PROVE  IInv'
<1> USE DEF IInv
<1>1. /\ sent \in Nat /\ messageQueue \in Seq(Nat) /\ Entry \subseteq Nat
      /\ Elements(messageQueue) \subseteq Entry /\ wire = <<>>
  BY ElementsInEntry DEF Unopened
<1>2. Entry \subseteq Entry' /\ m \in Entry'
  BY <1>1 DEF Called, Entry, Message, Undefined
<1>3. TypeOK'
  <2>1. Append(messageQueue, m) \in Seq(Entry')
    <3>1. messageQueue \in Seq(Entry')
      BY <1>2, SeqMonotone DEF TypeOK
    <3> QED  BY <1>2, <3>1
  <2>2. wire' \in Seq(Entry')
    BY <1>1
  <2> QED  BY <2>1, <2>2 DEF TypeOK
<1>4. Unopened' /\ InOrder'
  BY DEF Unopened, InOrder
<1>5. Elements(messageQueue') = Elements(messageQueue) \cup {m}
  BY <1>1, ElementsOfAppend
<1>6. Ordered'
  <2>1. Before(messageQueue, <<m>>)
    BY <1>1, ElementsOfAppend DEF Before, Called, Entry, Message, Undefined
  <2>2. Increasing(messageQueue')
    <3>1. <<m>> \in Seq(Nat) /\ Increasing(<<m>>) /\ messageQueue' = messageQueue \o <<m>>
      BY <1>1, ElementsOfAppend
    <3> QED  BY <1>1, <2>1, <3>1, IncreasingConcat DEF Ordered
  <2>3. Before(wire', messageQueue')
    BY <1>1 DEF Before, Elements
  <2> QED  BY <2>2, <2>3 DEF Ordered
<1>7. Complete'
  BY <1>1, <1>5 DEF Complete, Called, Message, Undefined
<1> QED  BY <1>3, <1>4, <1>6, <1>7

\* The socket is open: the queue and m are written.
LEMMA FlushStep ==
  ASSUME IInv, NEW m \in Nat, Called(m), sent' \in Nat, readyState = "open",
         SendNow(m)
  PROVE  /\ wire' \in Seq(Entry') /\ messageQueue' = <<>>
         /\ InOrder'
         /\ Elements(wire') \ {Undefined} = 1 .. sent'
<1> USE DEF IInv
<1> DEFINE behind == messageQueue \o Argument(m)
<1>1. /\ sent \in Nat /\ messageQueue \in Seq(Nat) /\ Entry \subseteq Nat
      /\ wire \in Seq(Nat)
      /\ Elements(messageQueue) \subseteq Entry /\ Elements(wire) \subseteq Entry
  BY ElementsInEntry
<1>2. /\ Argument(m) \in Seq(Nat) /\ Increasing(Argument(m))
      /\ Elements(Argument(m)) = {m} \ {Undefined}
  BY ArgumentFacts
<1>3. wire' = wire \o behind /\ messageQueue' = <<>>
  BY DEF SendNow, push
<1>4. behind \in Seq(Nat) /\ Elements(behind) = Elements(messageQueue) \cup ({m} \ {Undefined})
  BY <1>1, <1>2, ElementsOfConcat
<1>5. Elements(wire') = Elements(wire) \cup Elements(messageQueue) \cup ({m} \ {Undefined})
  <2> HIDE DEF behind
  <2>1. Elements(wire \o behind) = Elements(wire) \cup Elements(behind)
    BY <1>1, <1>4, ElementsOfConcat
  <2> QED  BY <1>3, <1>4, <2>1
<1>6. InOrder'
  <2>1. Before(messageQueue, Argument(m)) /\ Before(wire, Argument(m))
    BY <1>1, <1>2 DEF Before, Called, Entry, Message, Undefined
  <2>2. Increasing(behind)
    BY <1>1, <1>2, <2>1, IncreasingConcat DEF Ordered
  <2>3. Before(wire, behind)
    BY <1>2, <1>4, <2>1 DEF Before, Ordered
  <2> QED  BY <1>1, <1>3, <1>4, <2>2, <2>3, IncreasingConcat DEF InOrder
<1>7. Elements(wire') \ {Undefined} = 1 .. sent'
  BY <1>1, <1>5 DEF Complete, Called, Entry, Message, Undefined
<1>8. wire' \in Seq(Entry')
  <2>1. Entry \subseteq Entry' /\ (m = Undefined \/ m \in Entry')
    BY <1>1 DEF Called, Entry, Message, Undefined
  <2>2. messageQueue \in Seq(Entry') /\ wire \in Seq(Entry')
    BY <2>1, SeqMonotone DEF TypeOK
  <2>3. Argument(m) \in Seq(Entry')
    BY <2>1 DEF Argument
  <2> QED  BY <1>3, <2>2, <2>3
<1> QED  BY <1>3, <1>6, <1>7, <1>8

\* send() in any state of the socket keeps the invariant.
LEMMA SendStep ==
  ASSUME IInv, NEW m \in Nat, Called(m), sent' \in 0 .. MaxMessages,
         early' \in 0 .. MaxTimeouts, UNCHANGED readyState,
         NEW running \in 0 .. 1, send(m, running)
  PROVE  IInv'
<1> USE DEF IInv
<1>1. /\ sent \in Nat /\ sent' \in Nat /\ Entry \subseteq Entry'
      /\ messageQueue \in Seq(Entry') /\ wire \in Seq(Entry')
  <2>1. sent \in Nat /\ sent' \in Nat /\ Entry \subseteq Entry'
    BY BoundsAssumption DEF TypeOK, Called, Entry, Message, Undefined
  <2> QED  BY <2>1, SeqMonotone DEF TypeOK
<1>2. CASE readyState = "connecting"
  <2>1. /\ Append(messageQueue, m) = messageQueue' /\ timeouts' = 1
        /\ UNCHANGED <<readyState, wire>>
    BY <1>2 DEF send, Enqueue
  <2> QED  BY <1>2, <2>1, EnqueueStep
<1>3. CASE readyState = "open"
  <2>1. SendNow(m) /\ timeouts' = running
    BY <1>3 DEF send
  <2>2. /\ wire' \in Seq(Entry') /\ messageQueue' = <<>> /\ InOrder'
        /\ Elements(wire') \ {Undefined} = 1 .. sent'
    BY <1>1, <1>3, <2>1, FlushStep
  <2>3. TypeOK'
    BY <1>3, <2>1, <2>2 DEF TypeOK
  <2>4. Unopened' /\ Complete'
    BY <1>3, <2>2 DEF Unopened, Complete, Message
  <2>5. Ordered'
    BY <2>2 DEF Ordered, Increasing, Before, Elements
  <2> QED  BY <2>2, <2>3, <2>4, <2>5
<1>4. CASE readyState = "closed"
  <2>1. wire' = wire /\ messageQueue' = <<>> /\ timeouts' = running
    BY <1>4 DEF send, SendNow, push
  <2>2. TypeOK'
    BY <1>1, <1>4, <2>1 DEF TypeOK
  <2>3. Unopened' /\ Complete' /\ InOrder'
    BY <1>4, <2>1 DEF Unopened, Complete, InOrder
  <2>4. Ordered'
    BY <2>1 DEF Ordered, Increasing, Before, Elements
  <2> QED  BY <2>2, <2>3, <2>4
<1> QED  BY <1>2, <1>3, <1>4 DEF TypeOK

LEMMA InitOK == Init => IInv
<1> SUFFICES ASSUME Init PROVE IInv
  OBVIOUS
<1> USE DEF Init
<1>1. TypeOK
  BY BoundsAssumption DEF TypeOK
<1>2. Unopened /\ InOrder /\ Ordered /\ Complete
  BY DEF Unopened, InOrder, Ordered, Complete, Increasing, Before, Elements, Message
<1> QED  BY <1>1, <1>2 DEF IInv

LEMMA StepOK == IInv /\ [Next]_vars => IInv'
<1> SUFFICES ASSUME IInv, [Next]_vars PROVE IInv'
  OBVIOUS
<1>1. TypeOK /\ sent \in Nat /\ timeouts \in 0 .. 1
  BY ElementsInEntry DEF IInv, TypeOK
<1>2. CASE Send
  <2>1. /\ sent' = sent + 1 /\ sent' \in Nat /\ sent' \in 0 .. MaxMessages
        /\ early' = early /\ UNCHANGED readyState /\ send(sent', timeouts)
    BY <1>1, <1>2, BoundsAssumption DEF Send, TypeOK
  <2>2. Called(sent') /\ early' \in 0 .. MaxTimeouts
    BY <1>1, <2>1 DEF Called, TypeOK
  <2>3. \A m \in Nat : m = sent' => Called(m) /\ send(m, timeouts)
    BY <2>1, <2>2
  <2> QED  BY <1>1, <2>1, <2>2, <2>3, SendStep
<1>3. CASE Timeout
  <2>1. /\ sent' = sent /\ UNCHANGED readyState /\ timeouts - 1 \in 0 .. 1
        /\ send(Undefined, timeouts - 1) /\ Undefined \in Nat
        /\ early' \in 0 .. MaxTimeouts
    BY <1>1, <1>3, BoundsAssumption DEF Timeout, TypeOK, Undefined
  <2>2. Called(Undefined) /\ sent' \in 0 .. MaxMessages
    BY <1>1, <2>1 DEF Called, TypeOK
  <2> QED  BY <2>1, <2>2, SendStep
<1>4. CASE Open \/ Close \/ UNCHANGED vars
  <2>1. /\ UNCHANGED <<messageQueue, timeouts, wire, sent, early>>
        /\ readyState' \in {"connecting", "open", "closed"}
        /\ readyState' = readyState \/ readyState' = "closed"
           \/ (readyState = "connecting" /\ readyState' = "open")
    BY <1>1, <1>4 DEF Open, Close, vars, TypeOK
  <2>2. TypeOK'
    BY <1>1, <2>1 DEF TypeOK, Entry, Message
  <2>3. Unopened' /\ InOrder' /\ Ordered' /\ Complete'
    BY <2>1 DEF IInv, Unopened, InOrder, Ordered, Complete, Increasing, Before,
                Elements, Message
  <2> QED  BY <2>2, <2>3 DEF IInv
<1> QED  BY <1>2, <1>3, <1>4 DEF Next

\* At most one timer runs, and the counters stay within their bounds.
THEOREM TypeCorrect == Spec => []TypeOK
<1>1. IInv => TypeOK
  BY DEF IInv
<1> QED  BY <1>1, InitOK, StepOK, PTL DEF Spec

\* Frames are written in the order the store sent the messages, none twice.
THEOREM FramesInOrder == Spec => []InOrder
<1>1. IInv => InOrder
  BY DEF IInv
<1> QED  BY <1>1, InitOK, StepOK, PTL DEF Spec

-----------------------------------------------------------------------------
(* The connection is a channel *)

Delivered == Elements(wire) \ {Undefined}

LEMMA DeliverStep ==
  ASSUME IInv, NEW m \in Nat, Called(m), sent' \in Nat, UNCHANGED readyState,
         NEW running, send(m, running)
  PROVE  [Link!Next]_(Link!vars)
<1>1. sent \in Nat /\ Delivered \subseteq 1 .. sent
  BY ElementsInEntry DEF IInv, Delivered, Entry, Message, Undefined
<1>2. CASE readyState = "open"
  <2>1. Elements(wire') \ {Undefined} = 1 .. sent'
    BY <1>2, FlushStep DEF send
  <2>2. sent' \in {sent, sent + 1} /\ sent' \in 0 .. sent'
    BY <1>1 DEF Called
  <2>3. Elements(wire) \ {Undefined} \subseteq 1 .. sent'
    BY <1>1, <2>2 DEF Delivered
  <2>4. Link!Deliver
    BY <1>2, <2>1, <2>2, <2>3 DEF Link!Deliver
  <2> QED  BY <2>4 DEF Link!Next
<1>3. CASE readyState # "open"
  <2>1. wire' = wire
    BY <1>3 DEF send, SendNow, push
  <2>2. Elements(wire') \ {Undefined} = Elements(wire) \ {Undefined}
    BY <2>1
  <2>3. CASE sent' = sent
    BY <2>2, <2>3 DEF Link!vars
  <2>4. CASE sent' = sent + 1
    BY <2>2, <2>4 DEF Link!Next, Link!Accept
  <2> QED  BY <2>3, <2>4 DEF Called
<1> QED  BY <1>2, <1>3

\* Whatever waits in the queue, times out or is cut off, the server is sent
\* everything up to some message, once and in order.
THEOREM Refinement == Spec => IsAChannel
<1>1. Init => Link!Init
  BY DEF Init, Link!Init, Elements
<1>2. IInv /\ [Next]_vars => [Link!Next]_(Link!vars)
  <2> SUFFICES ASSUME IInv, [Next]_vars PROVE [Link!Next]_(Link!vars)
    OBVIOUS
  <2>1. sent \in Nat
    BY ElementsInEntry DEF IInv
  <2>2. CASE Send
    <3>1. /\ sent' = sent + 1 /\ sent' \in Nat /\ Called(sent')
          /\ UNCHANGED readyState /\ send(sent', timeouts)
      BY <2>1, <2>2 DEF Send, Called
    <3> QED  BY <3>1, DeliverStep
  <2>3. CASE Timeout
    <3>1. /\ sent' = sent /\ sent' \in Nat /\ Called(Undefined) /\ Undefined \in Nat
          /\ UNCHANGED readyState /\ send(Undefined, timeouts - 1)
      BY <2>1, <2>3 DEF Timeout, Called, Undefined
    <3> QED  BY <3>1, DeliverStep
  <2>4. CASE Close
    <3>1. Link!Cut
      BY <2>4 DEF Close, Link!Cut
    <3> QED  BY <3>1 DEF Link!Next
  <2>5. CASE Open \/ UNCHANGED vars
    BY <2>5 DEF Open, vars, Link!vars
  <2> QED  BY <2>2, <2>3, <2>4, <2>5 DEF Next
<1> QED  BY <1>1, <1>2, InitOK, StepOK, PTL DEF Spec, IsAChannel, Link!Spec
=============================================================================
