--------------------------- MODULE ConferenceTalk ---------------------------
(***************************************************************************)
(* Offers and answers between the owner and a guest.  Proof of EndsAgree   *)
(* and of JoinConnects: where the last offer is, and who must still answer *)
(* it or offer again.                                                      *)
(***************************************************************************)
EXTENDS ConferenceProofs

-----------------------------------------------------------------------------
(* The messages on their way to a page *)

LastOffer(s, i) ==
  /\ i \in 1 .. Len(s) /\ s[i].type = "offer"
  /\ \A j \in 1 .. Len(s) : s[j].type = "offer" => j <= i

\* The last offer under way, if there is one, is desc.
Told(s, desc) == \A i \in 1 .. Len(s) : LastOffer(s, i) => s[i].desc = desc

AnswerIn(s, g, lines) ==
  \E i \in 1 .. Len(s) : s[i].type = "answer" /\ s[i].from = g /\ s[i].desc.lines = lines

StartIn(s, g) == \E i \in 1 .. Len(s) : s[i].type = "start" /\ s[i].from = g

Written(s) == \A i \in 1 .. Len(s) : s[i].type \in {"offer", "answer"} => s[i].desc # None

\* t is s with messages of M behind it.
Grows(s, t, M) ==
  /\ Len(s) <= Len(t)
  /\ \A i \in 1 .. Len(t) : IF i <= Len(s) THEN t[i] = s[i] ELSE t[i] \in M

LEMMA Grown1 ==
  ASSUME NEW s \in Seq(Message), NEW t \in Seq(Message), NEW M, Grows(s, t, M), NEW g
  PROVE  /\ HasOffer(s) => HasOffer(t)
         /\ (\A m \in M : m.type # "offer") =>
              /\ HasOffer(t) => HasOffer(s)
              /\ \A desc : Told(s, desc) => Told(t, desc)
         /\ \A lines : AnswerIn(s, g, lines) => AnswerIn(t, g, lines)
         /\ StartIn(s, g) => StartIn(t, g)
         /\ (\A m \in M : m.type = "start" => m.from # g) /\ StartIn(t, g) => StartIn(s, g)
         /\ Written(s) /\ (\A m \in M : m.type \in {"offer", "answer"} => m.desc # None) =>
              Written(t)
<1>1. Len(s) \in Nat /\ Len(t) \in Nat
  OBVIOUS
<1>2. \A i \in 1 .. Len(s) : i \in 1 .. Len(t) /\ t[i] = s[i]
  BY <1>1 DEF Grows
<1>3. \A i \in 1 .. Len(t) : (i \in 1 .. Len(s) /\ t[i] = s[i]) \/ t[i] \in M
  BY <1>1 DEF Grows
<1>4. HasOffer(s) => HasOffer(t)
  BY <1>2 DEF HasOffer
<1>5. ASSUME \A m \in M : m.type # "offer"
      PROVE  /\ HasOffer(t) => HasOffer(s)
             /\ \A desc : Told(s, desc) => Told(t, desc)
  <2>1. \A i \in 1 .. Len(t) : t[i].type = "offer" => i \in 1 .. Len(s) /\ t[i] = s[i]
    BY <1>3, <1>5
  <2>2. \A i \in 1 .. Len(t) : LastOffer(t, i) => LastOffer(s, i) /\ t[i] = s[i]
    BY <1>2, <2>1 DEF LastOffer
  <2>3. HasOffer(t) => HasOffer(s)
    BY <2>1 DEF HasOffer
  <2>4. \A desc : Told(s, desc) => Told(t, desc)
    BY <2>1, <2>2 DEF Told, LastOffer
  <2>5. QED
    BY <2>3, <2>4
<1>6. \A lines : AnswerIn(s, g, lines) => AnswerIn(t, g, lines)
  BY <1>2 DEF AnswerIn
<1>7. StartIn(s, g) => StartIn(t, g)
  BY <1>2 DEF StartIn
<1>8. (\A m \in M : m.type = "start" => m.from # g) /\ StartIn(t, g) => StartIn(s, g)
  BY <1>3 DEF StartIn
<1>9. Written(s) /\ (\A m \in M : m.type \in {"offer", "answer"} => m.desc # None) => Written(t)
  BY <1>3 DEF Written
<1>10. QED
  BY <1>4, <1>5, <1>6, <1>7, <1>8, <1>9

LEMMA Shrunk ==
  ASSUME NEW s \in Seq(Message), s # <<>>, NEW g
  PROVE  /\ HasOffer(Tail(s)) => HasOffer(s)
         /\ Head(s).type # "offer" /\ HasOffer(s) => HasOffer(Tail(s))
         /\ \A desc : Told(s, desc) => Told(Tail(s), desc)
         /\ \A desc : Head(s).type = "offer" /\ ~HasOffer(Tail(s)) /\ Told(s, desc) =>
              Head(s).desc = desc
         /\ \A lines : AnswerIn(s, g, lines) =>
              \/ AnswerIn(Tail(s), g, lines)
              \/ Head(s).type = "answer" /\ Head(s).from = g /\ Head(s).desc.lines = lines
         /\ StartIn(Tail(s), g) => StartIn(s, g)
         /\ StartIn(s, g) => \/ StartIn(Tail(s), g)
                             \/ Head(s).type = "start" /\ Head(s).from = g
         /\ Written(s) => Written(Tail(s))
<1> DEFINE t == Tail(s)
           n == Len(s)
<1>1. /\ Head(s) = s[1] /\ n \in Nat /\ n > 0 /\ Len(t) = n - 1
      /\ \A i \in 1 .. n - 1 : t[i] = s[i + 1]
  BY TailFacts
<1> HIDE DEF t
<1>2. \A i \in 1 .. Len(t) : i + 1 \in 1 .. n /\ i + 1 # 1 /\ t[i] = s[i + 1]
  BY <1>1
<1>3. \A i \in 2 .. n : i - 1 \in 1 .. Len(t) /\ t[i - 1] = s[i]
  <2> TAKE i \in 2 .. n
  <2>1. i - 1 \in 1 .. n - 1 /\ (i - 1) + 1 = i
    BY <1>1
  <2>2. QED
    BY <1>1, <2>1
<1>4. \A i \in 1 .. n : i = 1 \/ i \in 2 .. n
  BY <1>1
<1>5. 1 \in 1 .. n
  BY <1>1
<1> HIDE DEF n
<1>6. \A i \in 1 .. Len(t) : LastOffer(t, i) => LastOffer(s, i + 1)
  <2> SUFFICES ASSUME NEW i \in 1 .. Len(t), LastOffer(t, i) PROVE LastOffer(s, i + 1)
    OBVIOUS
  <2>1. ASSUME NEW j \in 1 .. n, s[j].type = "offer" PROVE j <= i + 1
    <3>1. CASE j = 1
      BY <3>1
    <3>2. CASE j \in 2 .. n
      <4>1. j - 1 <= i
        BY <1>3, <2>1, <3>2 DEF LastOffer
      <4>2. QED
        BY <1>1, <3>2, <4>1
    <3>3. QED
      BY <1>4, <3>1, <3>2
  <2>2. QED
    BY <1>2, <2>1 DEF LastOffer, n
<1>7. HasOffer(t) => HasOffer(s)
  BY <1>2 DEF HasOffer, n
<1>8. Head(s).type # "offer" /\ HasOffer(s) => HasOffer(t)
  BY <1>1, <1>3, <1>4 DEF HasOffer, n
<1>9. \A desc : Told(s, desc) => Told(t, desc)
  BY <1>2, <1>6 DEF Told, n
<1>10. Head(s).type = "offer" /\ ~HasOffer(t) => LastOffer(s, 1)
  BY <1>1, <1>3, <1>4, <1>5 DEF HasOffer, LastOffer, n
<1>11. \A desc : Head(s).type = "offer" /\ ~HasOffer(t) /\ Told(s, desc) => Head(s).desc = desc
  BY <1>1, <1>5, <1>10 DEF Told, n
<1>12. \A lines : AnswerIn(s, g, lines) =>
         \/ AnswerIn(t, g, lines)
         \/ Head(s).type = "answer" /\ Head(s).from = g /\ Head(s).desc.lines = lines
  BY <1>1, <1>3, <1>4 DEF AnswerIn, n
<1>13. StartIn(t, g) => StartIn(s, g)
  BY <1>2 DEF StartIn, n
<1>14. StartIn(s, g) => StartIn(t, g) \/ (Head(s).type = "start" /\ Head(s).from = g)
  BY <1>1, <1>3, <1>4 DEF StartIn, n
<1>15. Written(s) => Written(t)
  BY <1>2 DEF Written, n
<1>16. QED
  BY <1>7, <1>8, <1>9, <1>11, <1>12, <1>13, <1>14, <1>15 DEF t

-----------------------------------------------------------------------------
(* The operations in a chain *)

HasKind(c, kind) == \E i \in 1 .. Len(c) : c[i].kind = kind

LastOp(c, kind, i) ==
  /\ i \in 1 .. Len(c) /\ c[i].kind = kind
  /\ \A j \in 1 .. Len(c) : c[j].kind = kind => j <= i

\* The last description that waits to be set as the remote one is desc.
Chained(c, desc) == \A i \in 1 .. Len(c) : LastOp(c, "remote", i) => c[i].desc = desc

\* The last description that waits to be set as the local one has these lines.
Ready(c, lines) == \E i \in 1 .. Len(c) : LastOp(c, "local", i) /\ c[i].desc.lines = lines

RemoteIn(c, lines) == \E i \in 1 .. Len(c) : c[i].kind = "remote" /\ c[i].desc.lines = lines

Spoken(c) == \A i \in 1 .. Len(c) : c[i].kind # "create" => c[i].desc # None

ToOffer(c) == HasKind(c, "create") \/ HasKind(c, "local")

LEMMA ChainGrown ==
  ASSUME NEW c \in Seq(Operation), NEW o \in Operation, NEW t, t = Append(c, o)
  PROVE  /\ \A kind : HasKind(t, kind) <=> HasKind(c, kind) \/ o.kind = kind
         /\ \A desc : o.kind # "remote" /\ Chained(c, desc) => Chained(t, desc)
         /\ o.kind = "remote" => Chained(t, o.desc)
         /\ \A lines : o.kind # "local" /\ Ready(c, lines) => Ready(t, lines)
         /\ o.kind = "local" => Ready(t, o.desc.lines)
         /\ \A lines : RemoteIn(c, lines) => RemoteIn(t, lines)
         /\ o.kind = "remote" => RemoteIn(t, o.desc.lines)
         /\ Spoken(c) /\ (o.kind = "create" \/ o.desc # None) => Spoken(t)
<1> DEFINE n == Len(t)
<1>1. /\ n \in Nat /\ n > 0 /\ t[n] = o /\ Len(c) = n - 1
      /\ \A i \in 1 .. n - 1 : t[i] = c[i]
  BY AppendFacts
<1>2. n \in 1 .. n /\ \A i \in 1 .. n : i <= n /\ (i = n \/ i \in 1 .. n - 1)
  BY <1>1
<1>3. \A i \in 1 .. n - 1 : i \in 1 .. n
  BY <1>1
<1> HIDE DEF n
<1>4. \A kind : HasKind(t, kind) <=> HasKind(c, kind) \/ o.kind = kind
  BY <1>1, <1>2, <1>3 DEF HasKind, n
<1>5. \A kind : o.kind # kind => \A i \in 1 .. n : LastOp(t, kind, i) <=>
         i \in 1 .. n - 1 /\ LastOp(c, kind, i)
  BY <1>1, <1>2, <1>3 DEF LastOp, n
<1>6. LastOp(t, o.kind, n) /\ \A i \in 1 .. n : LastOp(t, o.kind, i) => i = n
  <2>1. LastOp(t, o.kind, n)
    BY <1>1, <1>2 DEF LastOp, n
  <2>2. \A i \in 1 .. n : LastOp(t, o.kind, i) => i = n
    BY <1>1, <1>2 DEF LastOp, n
  <2>3. QED
    BY <2>1, <2>2
<1>7. \A desc : o.kind # "remote" /\ Chained(c, desc) => Chained(t, desc)
  BY <1>1, <1>5 DEF Chained, n
<1>8. o.kind = "remote" => Chained(t, o.desc)
  BY <1>1, <1>6 DEF Chained, n
<1>9. \A lines : o.kind # "local" /\ Ready(c, lines) => Ready(t, lines)
  BY <1>1, <1>3, <1>5 DEF Ready, n
<1>10. o.kind = "local" => Ready(t, o.desc.lines)
  BY <1>1, <1>2, <1>6 DEF Ready, n
<1>11. \A lines : RemoteIn(c, lines) => RemoteIn(t, lines)
  BY <1>1, <1>3 DEF RemoteIn, n
<1>12. o.kind = "remote" => RemoteIn(t, o.desc.lines)
  BY <1>1, <1>2 DEF RemoteIn, n
<1>13. Spoken(c) /\ (o.kind = "create" \/ o.desc # None) => Spoken(t)
  BY <1>1, <1>2 DEF Spoken, n
<1>14. QED
  BY <1>4, <1>7, <1>8, <1>9, <1>10, <1>11, <1>12, <1>13

LEMMA ChainShrunk ==
  ASSUME NEW c \in Seq(Operation), c # <<>>, NEW t, t = Tail(c)
  PROVE  /\ \A kind : HasKind(t, kind) => HasKind(c, kind)
         /\ \A kind : c[1].kind # kind /\ HasKind(c, kind) => HasKind(t, kind)
         /\ \A desc : Chained(c, desc) => Chained(t, desc)
         /\ \A desc : c[1].kind = "remote" /\ ~HasKind(t, "remote") /\ Chained(c, desc) =>
              c[1].desc = desc
         /\ \A lines : Ready(c, lines) =>
              \/ Ready(t, lines)
              \/ c[1].kind = "local" /\ ~HasKind(t, "local") /\ c[1].desc.lines = lines
         /\ \A lines : RemoteIn(c, lines) =>
              RemoteIn(t, lines) \/ (c[1].kind = "remote" /\ c[1].desc.lines = lines)
         /\ Spoken(c) => Spoken(t) /\ (c[1].kind # "create" => c[1].desc # None)
         /\ (\E i \in 2 .. Len(c) : c[i].kind = "local") => HasKind(t, "local")
         /\ HasKind(t, "local") => \E i \in 2 .. Len(c) : c[i].kind = "local"
<1> DEFINE n == Len(c)
<1>1. /\ n \in Nat /\ n > 0 /\ Len(t) = n - 1
      /\ \A i \in 1 .. n - 1 : t[i] = c[i + 1]
  BY TailFacts
<1>2. \A i \in 1 .. Len(t) : i + 1 \in 1 .. n /\ i + 1 \in 2 .. n /\ t[i] = c[i + 1]
  BY <1>1
<1>3. \A i \in 2 .. n : i - 1 \in 1 .. Len(t) /\ t[i - 1] = c[i] /\ i \in Nat
  <2> TAKE i \in 2 .. n
  <2>1. i - 1 \in 1 .. n - 1 /\ (i - 1) + 1 = i /\ i \in Nat
    BY <1>1
  <2>2. QED
    BY <1>1, <2>1
<1>4. \A i \in 1 .. n : i = 1 \/ i \in 2 .. n
  BY <1>1
<1>5. 1 \in 1 .. n
  BY <1>1
<1> HIDE DEF n
<1>6. \A kind : HasKind(t, kind) => HasKind(c, kind)
  BY <1>2 DEF HasKind, n
<1>7. \A kind : c[1].kind # kind /\ HasKind(c, kind) => HasKind(t, kind)
  BY <1>3, <1>4 DEF HasKind, n
<1>8. ASSUME NEW kind, NEW i \in 1 .. Len(t), LastOp(t, kind, i)
      PROVE  LastOp(c, kind, i + 1)
  <2>1. ASSUME NEW j \in 1 .. n, c[j].kind = kind PROVE j <= i + 1
    <3>1. CASE j = 1
      BY <3>1
    <3>2. CASE j \in 2 .. n
      <4>1. j - 1 <= i
        BY <1>3, <1>8, <2>1, <3>2 DEF LastOp
      <4>2. QED
        BY <1>1, <1>3, <3>2, <4>1
    <3>3. QED
      BY <1>4, <3>1, <3>2
  <2>2. QED
    BY <1>2, <1>8, <2>1 DEF LastOp, n
<1>9. ASSUME NEW kind, NEW i \in 1 .. n, LastOp(c, kind, i)
      PROVE  \/ i - 1 \in 1 .. Len(t) /\ LastOp(t, kind, i - 1) /\ t[i - 1] = c[i]
             \/ i = 1 /\ c[1].kind = kind /\ ~HasKind(t, kind)
  <2>1. CASE i = 1
    <3>1. \A j \in 1 .. Len(t) : t[j].kind # kind
      <4> SUFFICES ASSUME NEW j \in 1 .. Len(t), t[j].kind = kind PROVE FALSE
        OBVIOUS
      <4>1. j + 1 <= 1
        BY <1>2, <1>9, <2>1 DEF LastOp, n
      <4>2. QED
        BY <1>1, <4>1
    <3>2. QED
      BY <1>9, <2>1, <3>1 DEF LastOp, HasKind
  <2>2. CASE i \in 2 .. n
    <3>1. i - 1 \in 1 .. Len(t) /\ t[i - 1] = c[i]
      BY <1>3, <2>2
    <3>2. ASSUME NEW j \in 1 .. Len(t), t[j].kind = kind PROVE j <= i - 1
      <4>1. j + 1 <= i
        BY <1>2, <1>9, <3>2 DEF LastOp, n
      <4>2. QED
        BY <1>1, <1>3, <2>2, <4>1
    <3>3. QED
      BY <1>9, <3>1, <3>2 DEF LastOp
  <2>3. QED
    BY <1>4, <2>1, <2>2
<1>10. \A desc : Chained(c, desc) => Chained(t, desc)
  BY <1>2, <1>8 DEF Chained, n
<1>11. c[1].kind = "remote" /\ ~HasKind(t, "remote") => LastOp(c, "remote", 1)
  <2>1. ~HasKind(t, "remote") => \A j \in 2 .. n : c[j].kind # "remote"
    BY <1>3 DEF HasKind
  <2>2. ~HasKind(t, "remote") => \A j \in 1 .. n : c[j].kind = "remote" => j <= 1
    BY <1>4, <2>1
  <2>3. QED
    BY <1>5, <2>2 DEF LastOp, n
<1>12. \A desc : c[1].kind = "remote" /\ ~HasKind(t, "remote") /\ Chained(c, desc) =>
              c[1].desc = desc
  BY <1>5, <1>11 DEF Chained, n
<1>13. \A lines : Ready(c, lines) =>
         \/ Ready(t, lines)
         \/ c[1].kind = "local" /\ ~HasKind(t, "local") /\ c[1].desc.lines = lines
  <2> SUFFICES ASSUME NEW lines, NEW i \in 1 .. n, LastOp(c, "local", i),
                      c[i].desc.lines = lines
               PROVE  \/ Ready(t, lines)
                      \/ c[1].kind = "local" /\ ~HasKind(t, "local") /\ c[1].desc.lines = lines
    BY DEF Ready, n
  <2>1. QED
    BY <1>9 DEF Ready
<1>14. \A lines : RemoteIn(c, lines) =>
         RemoteIn(t, lines) \/ (c[1].kind = "remote" /\ c[1].desc.lines = lines)
  BY <1>3, <1>4 DEF RemoteIn, n
<1>15. Spoken(c) => Spoken(t) /\ (c[1].kind # "create" => c[1].desc # None)
  BY <1>2, <1>5 DEF Spoken, n
<1>16. (\E i \in 2 .. n : c[i].kind = "local") <=> HasKind(t, "local")
  BY <1>2, <1>3 DEF HasKind
<1>17. QED
  BY <1>6, <1>7, <1>10, <1>12, <1>13, <1>14, <1>15, <1>16 DEF n

LEMMA FieldFacts ==
  ASSUME NEW pc \in PC, NEW desc \in Description \cup {None}, NEW t \in Tracks,
         NEW ts \in SUBSET Tracks
  PROVE  /\ SetLocalOffer(pc, desc).remote = pc.remote
         /\ SetRemoteOffer(pc, desc).remote = desc
         /\ SetRemoteOffer(pc, desc).local = pc.local
         /\ SetLocalAnswer(pc, desc).remote = pc.remote
         /\ SetRemoteAnswer(pc, desc).remote = desc
         /\ addTrack(pc, t).remote = pc.remote /\ removeTrack(pc, t).remote = pc.remote
         /\ NewPC(ts).remote = None
BY DEF SetLocalOffer, SetRemoteOffer, SetLocalAnswer, SetRemoteAnswer, addTrack, removeTrack,
       NewPC, PC

\* The ends after an operation of the chain was carried out.
LEMMA DoneFacts ==
  ASSUME NEW pc \in PC, pc.chain # <<>>, NEW desc \in Description \cup {None}, NEW qc
  PROVE  /\ qc = Dequeue(SetLocalOffer(pc, desc)) =>
              /\ qc \in PC /\ qc.sig = "local" /\ qc.local = desc /\ qc.remote = pc.remote
              /\ qc.chain = Tail(pc.chain)
         /\ qc = Dequeue(SetRemoteOffer(pc, desc)) =>
              /\ qc \in PC /\ qc.sig = "remote" /\ qc.remote = desc
              /\ qc.chain = Tail(pc.chain)
         /\ qc = Dequeue(SetLocalAnswer(pc, desc)) =>
              /\ qc \in PC /\ qc.sig = "stable" /\ qc.remote = pc.remote
              /\ qc.chain = Tail(pc.chain)
         /\ qc = Dequeue(SetRemoteAnswer(pc, desc)) =>
              /\ qc \in PC /\ qc.sig = "stable" /\ qc.local = pc.local /\ qc.remote = desc
              /\ qc.chain = Tail(pc.chain)
<1> DEFINE a == SetLocalOffer(pc, desc)
           b == SetRemoteOffer(pc, desc)
           c == SetLocalAnswer(pc, desc)
           d == SetRemoteAnswer(pc, desc)
<1>1. a = SetLocalOffer(pc, desc) /\ b = SetRemoteOffer(pc, desc)
  OBVIOUS
<1>2. c = SetLocalAnswer(pc, desc) /\ d = SetRemoteAnswer(pc, desc)
  OBVIOUS
<1> HIDE DEF a, b, c, d
<1>3. /\ a \in PC /\ a.sig = "local" /\ a.local = desc /\ a.remote = pc.remote
      /\ a.chain = pc.chain
  BY <1>1, SetFacts DEF SetLocalOffer, PC
<1>4. b \in PC /\ b.sig = "remote" /\ b.remote = desc /\ b.chain = pc.chain
  BY <1>1, SetFacts DEF SetRemoteOffer, PC
<1>5. c \in PC /\ c.sig = "stable" /\ c.remote = pc.remote /\ c.chain = pc.chain
  BY <1>2, SetFacts DEF SetLocalAnswer, PC
<1>6. /\ d \in PC /\ d.sig = "stable" /\ d.local = pc.local /\ d.remote = desc
      /\ d.chain = pc.chain
  BY <1>2, SetFacts DEF SetRemoteAnswer, PC
<1>7. ASSUME NEW x \in PC, x.chain = pc.chain
      PROVE  /\ Dequeue(x) \in PC /\ Dequeue(x).sig = x.sig /\ Dequeue(x).local = x.local
             /\ Dequeue(x).remote = x.remote /\ Dequeue(x).chain = Tail(pc.chain)
  BY <1>7, DequeueFacts
<1>8. /\ Dequeue(a) \in PC /\ Dequeue(a).sig = "local" /\ Dequeue(a).local = desc
      /\ Dequeue(a).remote = pc.remote /\ Dequeue(a).chain = Tail(pc.chain)
  BY <1>3, <1>7
<1>9. /\ Dequeue(b) \in PC /\ Dequeue(b).sig = "remote" /\ Dequeue(b).remote = desc
      /\ Dequeue(b).chain = Tail(pc.chain)
  BY <1>4, <1>7
<1>10. /\ Dequeue(c) \in PC /\ Dequeue(c).sig = "stable" /\ Dequeue(c).remote = pc.remote
       /\ Dequeue(c).chain = Tail(pc.chain)
  BY <1>5, <1>7
<1>11. /\ Dequeue(d) \in PC /\ Dequeue(d).sig = "stable" /\ Dequeue(d).local = pc.local
       /\ Dequeue(d).remote = desc /\ Dequeue(d).chain = Tail(pc.chain)
  BY <1>6, <1>7
<1>12. QED
  BY <1>1, <1>2, <1>8, <1>9, <1>10, <1>11

\* A description is created: it waits to be set, behind all there is.
LEMMA CreateFacts ==
  ASSUME NEW pc \in PC, pc.chain # <<>>, NEW desc \in Description \cup {None},
         NEW qc, qc = Create(pc, desc)
  PROVE  /\ qc \in PC /\ qc.sig = pc.sig /\ qc.local = pc.local /\ qc.remote = pc.remote
         /\ \E o \in Operation : /\ o.kind = "local" /\ o.desc = desc
                                 /\ qc.chain = Append(Tail(pc.chain), o)
         /\ Tail(pc.chain) \in Seq(Operation)
<1> DEFINE dc == Dequeue(pc)
           J == Head(pc.chain).job
           o == [kind |-> "local", desc |-> desc, job |-> J]
<1>1. /\ dc \in PC /\ dc.sig = pc.sig /\ dc.local = pc.local /\ dc.remote = pc.remote
      /\ dc.chain = Tail(pc.chain) /\ Head(pc.chain) \in Operation
  BY DequeueFacts
<1>2. J \in Job
  BY <1>1, DescFacts
<1>3. qc = Queue(dc, "local", desc, J)
  BY DEF Create
<1> HIDE DEF dc, J
<1>4. /\ qc \in PC /\ qc.sig = dc.sig /\ qc.local = dc.local /\ qc.remote = dc.remote
      /\ qc.chain = Append(dc.chain, o) /\ dc.chain \in Seq(Operation) /\ o \in Operation
  <2> DEFINE q == Queue(dc, "local", desc, J)
  <2>1. /\ q \in PC /\ q.sig = dc.sig /\ q.remote = dc.remote /\ q.local = dc.local
        /\ q.chain = Append(dc.chain, o) /\ dc.chain \in Seq(Operation) /\ o \in Operation
    BY <1>1, <1>2, QueueFacts
  <2>2. QED
    BY <1>3, <2>1
<1>5. o.kind = "local" /\ o.desc = desc
  OBVIOUS
<1> HIDE DEF o
<1>6. QED
  BY <1>1, <1>4, <1>5

-----------------------------------------------------------------------------
(***************************************************************************)
(* The invariant, over values: oc and gp are the ends of the connection    *)
(* between the owner and g, s and u the messages on their way to g and to  *)
(* the owner, pg and po their pages, and away who stopped.                 *)
(***************************************************************************)
\* What the owner set last is under way, or waits in the guest's chain, or is set.
Tells(oc, gp, s) == oc # None =>
  /\ Told(s, oc.local)
  /\ ~HasOffer(s) /\ gp # None =>
       /\ Chained(gp.chain, oc.local)
       /\ ~HasKind(gp.chain, "remote") => gp.remote = oc.local

\* A guest with an offer is about to answer it, and no other.
Answers(gp) == gp # None =>
  /\ Spoken(gp.chain)
  /\ gp.sig = "remote" =>
       /\ gp.remote # None
       /\ HasKind(gp.chain, "create") \/ Ready(gp.chain, gp.remote.lines)

\* An owner that waits for an answer offers again or is answered.
Awaits(oc, gp, s, u, g) == oc # None /\ oc.sig = "local" =>
  \/ ToOffer(oc.chain) \/ HasOffer(s) \/ gp = None
  \/ HasKind(gp.chain, "remote") \/ gp.sig = "remote"
  \/ AnswerIn(u, g, oc.local.lines) \/ RemoteIn(oc.chain, oc.local.lines)

Begun(oc) == oc # None =>
  /\ Spoken(oc.chain)
  /\ ToOffer(oc.chain) \/ oc.local # None
  /\ oc.sig = "stable" /\ oc.local # None => oc.remote # None

Reached(oc, gp, s, pg, away, g) ==
  oc # None /\ oc.local # None /\ pg = "open" /\ g \notin away => gp # None \/ HasOffer(s)

Fresh(gp, s, u, pg, g) == pg = "new" \/ StartIn(u, g) => gp = None /\ ~HasOffer(s)

Greeted(oc, u, pg, po, away, g) ==
  pg = "open" /\ po = "open" /\ Owner \notin away => oc # None \/ StartIn(u, g)

Talks(oc, gp, s, u, pg, po, away, g) ==
  /\ Tells(oc, gp, s) /\ Answers(gp) /\ Awaits(oc, gp, s, u, g) /\ Begun(oc)
  /\ Reached(oc, gp, s, pg, away, g) /\ Fresh(gp, s, u, pg, g)
  /\ Greeted(oc, u, pg, po, away, g)

\* The messages of u2 and s2 are those of u and s, as far as g is concerned.
Quiet(s, u, s2, u2, g) ==
  /\ HasOffer(s2) <=> HasOffer(s)
  /\ \A desc : Told(s, desc) => Told(s2, desc)
  /\ \A lines : AnswerIn(u, g, lines) => AnswerIn(u2, g, lines)
  /\ StartIn(u2, g) <=> StartIn(u, g)

LEMMA QuietTalk ==
  ASSUME NEW oc, NEW gp, NEW s, NEW u, NEW s2, NEW u2, NEW pg, NEW po, NEW away, NEW away2,
         NEW g, Talks(oc, gp, s, u, pg, po, away, g), Quiet(s, u, s2, u2, g), away \subseteq away2
  PROVE  Talks(oc, gp, s2, u2, pg, po, away2, g)
<1>1. Tells(oc, gp, s2)
  BY DEF Talks, Quiet, Tells
<1>2. Awaits(oc, gp, s2, u2, g)
  BY DEF Talks, Quiet, Awaits
<1>3. Reached(oc, gp, s2, pg, away2, g) /\ Fresh(gp, s2, u2, pg, g)
  BY DEF Talks, Quiet, Reached, Fresh
<1>4. Greeted(oc, u2, pg, po, away2, g)
  BY DEF Talks, Quiet, Greeted
<1>5. QED
  BY <1>1, <1>2, <1>3, <1>4 DEF Talks

LEMMA QuietSame == ASSUME NEW s, NEW u, NEW g PROVE Quiet(s, u, s, u, g)
BY DEF Quiet

\* The owner's end changes only in what it sends.
LEMMA AlikeTalk ==
  ASSUME NEW oc, NEW qc, NEW gp, NEW s, NEW u, NEW pg, NEW po, NEW away, NEW g,
         Talks(oc, gp, s, u, pg, po, away, g), oc # None, qc # None,
         qc.sig = oc.sig, qc.local = oc.local, qc.remote = oc.remote, qc.chain = oc.chain
  PROVE  Talks(qc, gp, s, u, pg, po, away, g)
<1>1. Tells(qc, gp, s)
  BY DEF Talks, Tells
<1>2. Awaits(qc, gp, s, u, g) /\ Begun(qc)
  BY DEF Talks, Awaits, Begun
<1>3. Reached(qc, gp, s, pg, away, g) /\ Greeted(qc, u, pg, po, away, g)
  BY DEF Talks, Reached, Greeted
<1>4. QED
  BY <1>1, <1>2, <1>3 DEF Talks

\* A loop asks for another offer.
LEMMA QueuedTalk ==
  ASSUME NEW oc \in PC, NEW J \in Loops, NEW gp, NEW s, NEW u, NEW pg, NEW po, NEW away, NEW g,
         Talks(oc, gp, s, u, pg, po, away, g), NEW qc,
         qc = Queue(IF J.kind = "drop" THEN removeTrack(oc, J.track) ELSE oc, "create", None, J)
  PROVE  Talks(qc, gp, s, u, pg, po, away, g)
<1> DEFINE rc == IF J.kind = "drop" THEN removeTrack(oc, J.track) ELSE oc
           o == [kind |-> "create", desc |-> None, job |-> J]
<1>1. J \in Job /\ J.track \in Tracks
  BY JobFacts
<1>2. /\ rc \in PC /\ rc.sig = oc.sig /\ rc.local = oc.local /\ rc.remote = oc.remote
      /\ rc.chain = oc.chain
  BY <1>1, TrackFacts, FieldFacts
<1>3. o.kind = "create"
  OBVIOUS
<1>4. qc = Queue(rc, "create", None, J)
  OBVIOUS
<1> HIDE DEF rc
<1>5. /\ qc \in PC /\ qc.sig = oc.sig /\ qc.local = oc.local /\ qc.remote = oc.remote
      /\ qc.chain = Append(oc.chain, o) /\ oc.chain \in Seq(Operation) /\ o \in Operation
  BY <1>1, <1>2, <1>4, QueueFacts
<1> HIDE DEF o
<1>6. oc # None /\ qc # None
  BY <1>5, NoneAssumption
<1>7. ToOffer(qc.chain) /\ (Spoken(oc.chain) => Spoken(qc.chain))
  <2>1. HasKind(qc.chain, "create") /\ (Spoken(oc.chain) => Spoken(qc.chain))
    BY <1>3, <1>5, ChainGrown
  <2>2. QED
    BY <2>1 DEF ToOffer
<1>8. Tells(qc, gp, s)
  BY <1>5, <1>6 DEF Talks, Tells
<1>9. Awaits(qc, gp, s, u, g) /\ Begun(qc)
  BY <1>5, <1>6, <1>7 DEF Talks, Awaits, Begun
<1>10. Reached(qc, gp, s, pg, away, g) /\ Greeted(qc, u, pg, po, away, g)
  BY <1>5, <1>6 DEF Talks, Reached, Greeted
<1>11. QED
  BY <1>8, <1>9, <1>10 DEF Talks

-----------------------------------------------------------------------------
(* What steps send, and to whom *)

\* Only an open page gets messages, and no description is missing.
Mailed(d, pg) ==
  \A p \in Pages : (d[p] # <<>> => pg[p] = "open") /\ Written(d[p])

LEMMA MailAdded ==
  ASSUME NEW d \in Mails, NEW e \in Mails, NEW M, Adds(d, e, M), Mailed(d, page),
         \A m \in M : m.type \in {"offer", "answer"} => m.desc # None,
         \A p \in Pages : ~Open(p) => e[p] = d[p]
  PROVE  Mailed(e, page)
<1> SUFFICES ASSUME NEW p \in Pages
             PROVE  (e[p] # <<>> => page[p] = "open") /\ Written(e[p])
  BY DEF Mailed
<1>1. d[p] \in Seq(Message) /\ e[p] \in Seq(Message) /\ Grows(d[p], e[p], M)
  BY DEF Mails, Adds, Grows
<1> DEFINE s == d[p]
           t == e[p]
<1>a. s \in Seq(Message) /\ t \in Seq(Message) /\ Grows(s, t, M) /\ Written(s)
  BY <1>1 DEF Mailed
<1>2. Written(e[p])
  <2> HIDE DEF s, t
  <2>1. Written(t)
    BY <1>a, Grown1
  <2>2. QED
    BY <2>1 DEF t
<1>3. e[p] # <<>> => page[p] = "open"
  BY DEF Mailed, Open
<1>4. QED
  BY <1>2, <1>3

LEMMA QuietAdded ==
  ASSUME NEW d \in Mails, NEW e \in Mails, NEW M, Adds(d, e, M), NEW g \in Guests,
         \A m \in M : m.type # "offer" /\ (m.type = "start" => m.from # g)
  PROVE  Quiet(d[g], d[Owner], e[g], e[Owner], g)
<1>1. g \in Pages /\ Owner \in Pages
  BY PageFacts
<1>2. /\ d[g] \in Seq(Message) /\ e[g] \in Seq(Message) /\ Grows(d[g], e[g], M)
      /\ d[Owner] \in Seq(Message) /\ e[Owner] \in Seq(Message) /\ Grows(d[Owner], e[Owner], M)
  BY <1>1 DEF Mails, Adds, Grows
<1> DEFINE s == d[g]
           t == e[g]
           u == d[Owner]
           v == e[Owner]
<1>3. /\ s \in Seq(Message) /\ t \in Seq(Message) /\ Grows(s, t, M)
      /\ u \in Seq(Message) /\ v \in Seq(Message) /\ Grows(u, v, M)
  BY <1>2
<1> HIDE DEF s, t, u, v
<1>4. (HasOffer(t) <=> HasOffer(s)) /\ \A desc : Told(s, desc) => Told(t, desc)
  BY <1>3, Grown1
<1>5. /\ \A lines : AnswerIn(u, g, lines) => AnswerIn(v, g, lines)
      /\ StartIn(v, g) <=> StartIn(u, g)
  BY <1>3, Grown1
<1>6. QED
  BY <1>4, <1>5 DEF Quiet, s, t, u, v

LEMMA MailRest ==
  ASSUME down \in Mails, NEW p \in Pages, down[p] # <<>>, NEW pg, Mailed(down, pg)
  PROVE  Mailed(Rest(p), pg)
<1>1. /\ Rest(p)[p] = Tail(down[p]) /\ \A x \in Pages : x # p => Rest(p)[x] = down[x]
      /\ down[p] \in Seq(Message)
  BY DEF Rest, Mails
<1>2. Written(Tail(down[p]))
  BY <1>1, Shrunk DEF Mailed
<1>3. QED
  BY <1>1, <1>2 DEF Mailed

LEMMA QuietRest ==
  ASSUME down \in Mails, NEW p \in Pages, down[p] # <<>>, NEW g \in Guests,
         p = g => Head(down[p]).type # "offer",
         p = Owner /\ Head(down[p]).type \in {"answer", "start"} => Head(down[p]).from # g
  PROVE  Quiet(down[g], down[Owner], Rest(p)[g], Rest(p)[Owner], g)
<1>1. /\ Rest(p)[p] = Tail(down[p]) /\ \A x \in Pages : x # p => Rest(p)[x] = down[x]
      /\ down[p] \in Seq(Message)
  BY DEF Rest, Mails
<1>2. g \in Pages /\ Owner \in Pages /\ g # Owner
  BY PageFacts
<1> DEFINE s == down[p]
           t == Tail(s)
<1>a. s \in Seq(Message) /\ s # <<>>
  BY <1>1
<1>b. /\ HasOffer(t) => HasOffer(s)
      /\ Head(s).type # "offer" /\ HasOffer(s) => HasOffer(t)
      /\ \A desc : Told(s, desc) => Told(t, desc)
      /\ \A lines : AnswerIn(s, g, lines) =>
           AnswerIn(t, g, lines) \/ (Head(s).type = "answer" /\ Head(s).from = g)
      /\ StartIn(t, g) => StartIn(s, g)
      /\ StartIn(s, g) => StartIn(t, g) \/ (Head(s).type = "start" /\ Head(s).from = g)
  <2> HIDE DEF s
  <2> QED  BY <1>a, Shrunk
<1> HIDE DEF t
<1>3. CASE p = g
  <2>1. s = down[g] /\ t = Rest(p)[g] /\ Rest(p)[Owner] = down[Owner]
    BY <1>1, <1>2, <1>3 DEF t
  <2>2. Head(s).type # "offer"
    BY <1>3
  <2> HIDE DEF s
  <2>3. QED
    BY <1>b, <2>1, <2>2 DEF Quiet
<1>4. CASE p = Owner
  <2>1. s = down[Owner] /\ t = Rest(p)[Owner] /\ Rest(p)[g] = down[g]
    BY <1>1, <1>2, <1>4 DEF t
  <2>2. ~(Head(s).type = "answer" /\ Head(s).from = g) /\ ~(Head(s).type = "start" /\ Head(s).from = g)
    BY <1>4
  <2> HIDE DEF s
  <2>3. QED
    BY <1>b, <2>1, <2>2 DEF Quiet
<1>5. CASE p # g /\ p # Owner
  BY <1>1, <1>2, <1>5, QuietSame
<1>6. QED
  BY <1>3, <1>4, <1>5

LEMMA RoomTalk ==
  ASSUME NEW d \in Mails, Mailed(d, page), NEW fs \in SUBSET Tracks,
         NEW e, e = ToRoom(d, Update(fs))
  PROVE  /\ e \in Mails /\ Mailed(e, page)
         /\ \A g \in Guests : Quiet(d[g], d[Owner], e[g], e[Owner], g)
<1> DEFINE m == Update(fs)
<1>1. m \in Message /\ m.type = "update"
  BY MessageFacts
<1> HIDE DEF m
<1>2. e = ToRoom(d, m)
  BY DEF m
<1>3. e \in Mails /\ Adds(d, e, {m})
  BY <1>1, <1>2, AddsRoom
<1>4. \A p \in Pages : ~Open(p) => e[p] = d[p]
  BY <1>2 DEF ToRoom
<1>5. \A n \in {m} : /\ n.type \in {"offer", "answer"} => n.desc # None
                     /\ n.type # "offer" /\ n.type # "start"
  BY <1>1
<1> DEFINE M == {m}
<1>6. /\ Adds(d, e, M)
      /\ \A n \in M : n.type \in {"offer", "answer"} => n.desc # None
      /\ \A g \in Guests : \A n \in M : n.type # "offer" /\ (n.type = "start" => n.from # g)
  BY <1>3, <1>5
<1> HIDE DEF M
<1>7. Mailed(e, page)
  BY <1>3, <1>4, <1>6, MailAdded
<1>8. \A g \in Guests : Quiet(d[g], d[Owner], e[g], e[Owner], g)
  BY <1>3, <1>6, QuietAdded
<1>9. QED
  BY <1>3, <1>7, <1>8

Plain(ms, g) ==
  \A i \in 1 .. Len(ms) : ms[i].type # "offer" /\ (ms[i].type = "start" => ms[i].from # g)

LEMMA SentTalk ==
  ASSUME NEW d \in Mails, Mailed(d, page), NEW p \in Pages, NEW ms \in Seq(Message),
         NEW e, e = To(d, p, ms),
         \A i \in 1 .. Len(ms) : ms[i].type \in {"offer", "answer"} => ms[i].desc # None
  PROVE  /\ e \in Mails /\ Mailed(e, page)
         /\ \A x \in Pages : x # p => e[x] = d[x]
         /\ \A g \in Guests : Plain(ms, g) => Quiet(d[g], d[Owner], e[g], e[Owner], g)
         /\ Open(p) => \A i \in 1 .. Len(ms) : \E j \in 1 .. Len(e[p]) : e[p][j] = ms[i]
<1> DEFINE M == {ms[i] : i \in 1 .. Len(ms)}
<1>1. Adds(d, e, M)
  BY AddsTo
<1>2. /\ e \in Mails
      /\ \A x \in Pages : x # p \/ ~Open(p) => e[x] = d[x]
      /\ Open(p) => /\ Len(e[p]) = Len(d[p]) + Len(ms)
                    /\ \A i \in 1 .. Len(ms) : e[p][Len(d[p]) + i] = ms[i]
  BY ToFacts
<1>3. \A m \in M : m.type \in {"offer", "answer"} => m.desc # None
  OBVIOUS
<1>4. \A g \in Guests :
        Plain(ms, g) => \A m \in M : m.type # "offer" /\ (m.type = "start" => m.from # g)
  BY DEF Plain
<1>6. Len(d[p]) \in Nat /\ Len(ms) \in Nat
  BY DEF Mails
<1>7. ASSUME Open(p), NEW i \in 1 .. Len(ms)
      PROVE  \E j \in 1 .. Len(e[p]) : e[p][j] = ms[i]
  <2>1. Len(d[p]) + i \in 1 .. Len(e[p])
    BY <1>2, <1>6, <1>7
  <2>2. QED
    BY <1>2, <1>7, <2>1
<1> HIDE DEF M
<1>8. Mailed(e, page)
  BY <1>1, <1>2, <1>3, MailAdded
<1>9. \A g \in Guests :
        (\A m \in M : m.type # "offer" /\ (m.type = "start" => m.from # g))
        => Quiet(d[g], d[Owner], e[g], e[Owner], g)
  BY <1>1, <1>2, QuietAdded
<1>10. QED
  BY <1>2, <1>4, <1>7, <1>8, <1>9 DEF M

-----------------------------------------------------------------------------
(* The inductive invariant *)

Held ==
  /\ page[Owner] # "new"
  /\ Mailed(down, page)
  /\ \A g \in Guests : ownerPc[g] # None => page[Owner] = "open"
  /\ \A g \in Guests : guestPc[g] # None => page[g] = "open"

TalksTo(g) ==
  Talks(ownerPc[g], guestPc[g], down[g], down[Owner], page[g], page[Owner], stopped, g)

Talk == Held /\ \A g \in Guests : TalksTo(g)

LEMMA TalkMade ==
  ASSUME page'[Owner] # "new", Mailed(down', page'),
         \A g \in Guests : ownerPc'[g] # None => page'[Owner] = "open",
         \A g \in Guests : guestPc'[g] # None => page'[g] = "open",
         \A g \in Guests : Talks(ownerPc'[g], guestPc'[g], down'[g], down'[Owner], page'[g],
                                 page'[Owner], stopped', g)
  PROVE  Talk'
<1>1. Held'
  BY DEF Held, Mailed, Written
<1>2. ASSUME NEW g \in Guests PROVE TalksTo(g)'
  <2>1. Talks(ownerPc'[g], guestPc'[g], down'[g], down'[Owner], page'[g], page'[Owner], stopped', g)
    OBVIOUS
  <2>2. QED
    BY <2>1 DEF TalksTo, Talks, Tells, Answers, Awaits, Begun, Reached, Fresh, Greeted,
                Told, LastOffer, HasOffer, Chained, LastOp, HasKind, Spoken, Ready, ToOffer,
                AnswerIn, RemoteIn, StartIn
<1>3. QED
  BY <1>1, <1>2 DEF Talk

\* Nobody comes or goes.
LEMMA TalkStep ==
  ASSUME Talk, UNCHANGED <<page, stopped>>, Mailed(down', page),
         \A g \in Guests : ownerPc'[g] # None => ownerPc[g] # None \/ Open(Owner),
         \A g \in Guests : guestPc'[g] # None => guestPc[g] # None \/ Open(g),
         \A g \in Guests : Talks(ownerPc'[g], guestPc'[g], down'[g], down'[Owner], page[g],
                                 page[Owner], stopped, g)
  PROVE  Talk'
BY TalkMade DEF Talk, Held, Open

\* Nothing is said.
LEMMA TalkKept ==
  ASSUME Talk, UNCHANGED <<page, stopped, ownerPc, guestPc>>, Mailed(down', page),
         \A g \in Guests : Quiet(down[g], down[Owner], down'[g], down'[Owner], g)
  PROVE  Talk'
<1>1. ASSUME NEW g \in Guests
      PROVE  Talks(ownerPc[g], guestPc[g], down'[g], down'[Owner], page[g], page[Owner], stopped, g)
  <2>1. Talks(ownerPc[g], guestPc[g], down[g], down[Owner], page[g], page[Owner], stopped, g)
    BY DEF Talk, TalksTo
  <2>2. QED
    BY <2>1, QuietTalk
<1>2. QED
  BY <1>1, TalkStep

\* What the lemmas need of the other invariants.
LEMMA TalkFacts ==
  ASSUME IInv, Talk
  PROVE  /\ down \in Mails /\ Mailed(down, page) /\ peers \in Seq(Guests)
         /\ fakes \in SUBSET Tracks /\ tracks \in SUBSET Tracks
         /\ page \in [Pages -> {"new", "open", "gone"}]
         /\ ownerPc \in [Guests -> {None} \cup PC] /\ guestPc \in [Guests -> {None} \cup PC]
         /\ \A g \in Guests : /\ ownerPc[g] # None => ownerPc[g].sig # "remote"
                              /\ guestPc[g] # None => guestPc[g].sig # "local"
         /\ \A g \in Guests : Talks(ownerPc[g], guestPc[g], down[g], down[Owner], page[g],
                                    page[Owner], stopped, g)
BY DEF IInv, Typed, ServerTypes, PeerTypes, FileTypes, Talk, Held, TalksTo

-----------------------------------------------------------------------------
(* Steps that say nothing to anybody's connection *)

LEMMA TellTalk ==
  ASSUME NEW d \in Mails, Mailed(d, page), NEW fs \in SUBSET Tracks, NEW p \in Pages,
         NEW e, e = To(d, p, <<Update(fs)>>)
  PROVE  /\ e \in Mails /\ Mailed(e, page)
         /\ \A g \in Guests : Quiet(d[g], d[Owner], e[g], e[Owner], g)
<1> DEFINE m == Update(fs)
           ms == <<m>>
<1>1. m \in Message /\ m.type = "update"
  BY MessageFacts
<1>2. e = To(d, p, ms)
  OBVIOUS
<1> HIDE DEF m
<1>3. ms \in Seq(Message) /\ \A i \in 1 .. Len(ms) : ms[i].type = "update"
  BY <1>1
<1>4. \A i \in 1 .. Len(ms) : ms[i].type \in {"offer", "answer"} => ms[i].desc # None
  BY <1>3
<1>5. \A g \in Guests : Plain(ms, g)
  BY <1>3 DEF Plain
<1> HIDE DEF ms
<1>6. ms \in Seq(Message)
  BY <1>3
<1>7. /\ e \in Mails /\ Mailed(e, page)
      /\ \A g \in Guests : Plain(ms, g) => Quiet(d[g], d[Owner], e[g], e[Owner], g)
  BY <1>2, <1>4, <1>6, SentTalk
<1>8. QED
  BY <1>5, <1>7

LEMMA TalkQuiet ==
  ASSUME IInv, Talk, UNCHANGED <<page, stopped, ownerPc, guestPc>>,
         \/ down' = down
         \/ \E fs \in SUBSET Tracks : down' = ToRoom(down, Update(fs))
         \/ \E fs \in SUBSET Tracks, p \in Pages : down' = To(down, p, <<Update(fs)>>)
         \/ \E p \in Pages : /\ Gets(p, "update") \/ Gets(p, "candidate")
                             /\ down' = Rest(p)
  PROVE  Talk'
<1>1. CASE down' = down
  BY <1>1, TalkFacts, TalkKept, QuietSame
<1>2. CASE \E fs \in SUBSET Tracks : down' = ToRoom(down, Update(fs))
  BY <1>2, TalkFacts, RoomTalk, TalkKept
<1>3. ASSUME NEW fs \in SUBSET Tracks, NEW p \in Pages, down' = To(down, p, <<Update(fs)>>)
      PROVE  Talk'
  BY <1>3, TalkFacts, TellTalk, TalkKept
<1>4. ASSUME NEW p \in Pages, Gets(p, "update") \/ Gets(p, "candidate"), down' = Rest(p)
      PROVE  Talk'
  <2>1. down[p] # <<>> /\ Head(down[p]).type \in {"update", "candidate"}
    BY <1>4 DEF Gets
  <2>2. Mailed(Rest(p), page)
    BY <2>1, TalkFacts, MailRest
  <2>3. \A g \in Guests : Quiet(down[g], down[Owner], Rest(p)[g], Rest(p)[Owner], g)
    BY <2>1, TalkFacts, QuietRest
  <2>4. QED
    BY <1>4, <2>2, <2>3, TalkKept
<1>5. QED
  BY <1>1, <1>2, <1>3, <1>4

-----------------------------------------------------------------------------
(* The steps of a guest's page *)

\* Only the end of g, and what is said to it or by it, changes.
LEMMA TalkGuest ==
  ASSUME IInv, Talk, NEW g \in Guests, NEW qc, Open(g),
         guestPc' = [guestPc EXCEPT ![g] = qc],
         UNCHANGED <<page, stopped, ownerPc>>, Mailed(down', page),
         \A h \in Guests : h # g => Quiet(down[h], down[Owner], down'[h], down'[Owner], h),
         Talks(ownerPc[g], qc, down'[g], down'[Owner], page[g], page[Owner], stopped, g)
  PROVE  Talk'
<1>1. guestPc'[g] = qc /\ \A h \in Guests : h # g => guestPc'[h] = guestPc[h]
  BY TalkFacts
<1>2. ASSUME NEW h \in Guests
      PROVE  Talks(ownerPc'[h], guestPc'[h], down'[h], down'[Owner], page[h], page[Owner],
                   stopped, h)
  <2>1. CASE h = g
    BY <1>1, <2>1
  <2>2. CASE h # g
    <3>1. Talks(ownerPc[h], guestPc[h], down[h], down[Owner], page[h], page[Owner], stopped, h)
      BY TalkFacts
    <3>2. Talks(ownerPc[h], guestPc[h], down'[h], down'[Owner], page[h], page[Owner], stopped, h)
      BY <2>2, <3>1, QuietTalk
    <3>3. QED
      BY <1>1, <2>2, <3>2
  <2>3. QED
    BY <2>1, <2>2
<1>3. \A h \in Guests : guestPc'[h] # None => guestPc[h] # None \/ Open(h)
  BY <1>1
<1>4. QED
  BY <1>2, <1>3, TalkStep

LEMMA TalkOffer ==
  ASSUME IInv, Talk, NEW g \in Guests, onOffer(g)
  PROVE  Talk'
<1> DEFINE gp == guestPc[g]
           pc == IF gp = None THEN NewPC({}) ELSE gp
           s == down[g]
           m == Head(s)
           qc == Queue(pc, "remote", m.desc, Reply)
           oc == ownerPc[g]
           u == down[Owner]
           o == [kind |-> "remote", desc |-> m.desc, job |-> Reply]
<1>1. /\ Open(g) /\ s # <<>> /\ down' = Rest(g) /\ m.type = "offer"
      /\ guestPc' = [guestPc EXCEPT ![g] = qc] /\ UNCHANGED <<page, stopped, ownerPc>>
  BY TalkFacts DEF onOffer, Gets, owner, history
<1>2. g \in Pages /\ Owner \in Pages /\ g # Owner
  BY PageFacts
<1>3. /\ s \in Seq(Message) /\ Rest(g)[g] = Tail(s) /\ Rest(g)[Owner] = u /\ Mailed(Rest(g), page)
      /\ m = s[1] /\ m \in Message /\ 1 \in 1 .. Len(s)
  <2>1. down \in Mails /\ s \in Seq(Message) /\ Rest(g)[g] = Tail(s) /\ Rest(g)[Owner] = u
    BY <1>2, TalkFacts DEF Mails, Rest
  <2>2. Mailed(Rest(g), page)
    BY <1>1, <1>2, TalkFacts, MailRest
  <2> HIDE DEF s
  <2>3. m = s[1] /\ m \in Message /\ 1 \in 1 .. Len(s)
    BY <1>1, <2>1, TailFacts
  <2>4. QED
    BY <2>1, <2>2, <2>3
<1>4. m.desc \in Description \cup {None} /\ m.desc # None
  BY <1>1, <1>2, <1>3, TalkFacts DEF Message, Mailed, Written
<1>5. \A h \in Guests : h # g => Quiet(down[h], down[Owner], Rest(g)[h], Rest(g)[Owner], h)
  BY <1>1, <1>2, TalkFacts, QuietRest
<1>6. /\ pc \in PC /\ (gp = None => pc.sig = "stable" /\ pc.chain = <<>>)
      /\ (gp # None => pc = gp)
  BY TalkFacts, NewPCFacts
<1>7. Talks(oc, gp, s, u, page[g], page[Owner], stopped, g)
  BY TalkFacts
<1>8. /\ qc \in PC /\ qc.sig = pc.sig /\ qc.remote = pc.remote
      /\ qc.chain = Append(pc.chain, o) /\ pc.chain \in Seq(Operation) /\ o \in Operation
      /\ o.kind = "remote" /\ o.desc = m.desc
  <2> HIDE DEF pc, m
  <2>1. Reply \in Job
    BY JobFacts
  <2>2. QED
    BY <1>4, <1>6, <2>1, QueueFacts
<1> HIDE DEF qc, pc, o
<1>9. /\ HasKind(qc.chain, "remote") /\ Chained(qc.chain, m.desc)
      /\ HasKind(pc.chain, "create") => HasKind(qc.chain, "create")
      /\ \A lines : Ready(pc.chain, lines) => Ready(qc.chain, lines)
      /\ Spoken(pc.chain) => Spoken(qc.chain)
  <2> DEFINE c == pc.chain
             t == qc.chain
             d == m.desc
  <2>1. /\ c \in Seq(Operation) /\ t = Append(c, o) /\ o \in Operation /\ o.kind = "remote"
        /\ o.desc = d /\ d # None
    BY <1>4, <1>8
  <2> HIDE DEF c, t, d
  <2>2. /\ HasKind(t, "remote") /\ Chained(t, d)
        /\ HasKind(c, "create") => HasKind(t, "create")
        /\ \A lines : Ready(c, lines) => Ready(t, lines)
        /\ Spoken(c) => Spoken(t)
    BY <2>1, ChainGrown
  <2>3. QED
    BY <2>2 DEF c, t, d
<1>10. qc # None
  BY <1>8, NoneAssumption
<1>11. /\ \A desc : Told(s, desc) => Told(Tail(s), desc)
       /\ \A desc : ~HasOffer(Tail(s)) /\ Told(s, desc) => m.desc = desc
  <2> HIDE DEF s
  <2>1. QED
    BY <1>1, <1>3, Shrunk
<1>12. HasOffer(s)
  BY <1>1, <1>3 DEF HasOffer
<1> HIDE DEF s, m, oc, u
<1>13. Tells(oc, qc, Tail(s))
  BY <1>7, <1>9, <1>11 DEF Talks, Tells
<1>14. Answers(qc)
  <2>1. Spoken(pc.chain)
    BY <1>6, <1>7 DEF Talks, Answers, Spoken
  <2>2. CASE gp = None
    BY <1>6, <1>8, <1>9, <2>1, <2>2 DEF Answers
  <2>3. CASE gp # None
    <3>1. qc.sig = gp.sig /\ qc.remote = gp.remote /\ pc = gp
      BY <1>6, <1>8, <2>3
    <3>2. QED
      BY <1>7, <1>9, <2>1, <2>3, <3>1 DEF Talks, Answers
  <2>4. QED
    BY <2>2, <2>3
<1>15. Awaits(oc, qc, Tail(s), u, g) /\ Begun(oc)
  BY <1>7, <1>9 DEF Talks, Awaits
<1>16. Reached(oc, qc, Tail(s), page[g], stopped, g) /\ Fresh(qc, Tail(s), u, page[g], g)
  BY <1>7, <1>10, <1>12 DEF Talks, Reached, Fresh
<1>17. Talks(oc, qc, Tail(s), u, page[g], page[Owner], stopped, g)
  BY <1>7, <1>13, <1>14, <1>15, <1>16 DEF Talks
<1>18. QED
  BY <1>1, <1>3, <1>5, <1>17, TalkGuest DEF oc, u, s

LEMMA TalkTaken ==
  ASSUME IInv, Talk, NEW g \in Guests, OfferTaken(g)
  PROVE  Talk'
<1> DEFINE gp == guestPc[g]
           desc == Head(gp.chain).desc
           dc == Dequeue(SetRemoteOffer(gp, desc))
           qc == Queue(dc, "create", None, Reply)
           oc == ownerPc[g]
           s == down[g]
           u == down[Owner]
           o == [kind |-> "create", desc |-> None, job |-> Reply]
           c == gp.chain
<1>1. /\ gp # None /\ c # <<>> /\ Head(c).kind = "remote" /\ guestPc' = [guestPc EXCEPT ![g] = qc]
      /\ UNCHANGED <<page, stopped, ownerPc, down>>
  BY TalkFacts DEF OfferTaken, Has, Waits, owner
<1>2. gp \in PC /\ Open(g) /\ g \in Pages
  BY <1>1, TalkFacts, PageFacts DEF Talk, Held, Open
<1>3. /\ c \in Seq(Operation) /\ Head(c) = c[1] /\ c[1] \in Operation
      /\ desc \in Description \cup {None} /\ c[1].kind = "remote" /\ c[1].desc = desc
  <2>1. c \in Seq(Operation) /\ Head(c) = c[1] /\ c[1] \in Operation
    BY <1>1, <1>2, DequeueFacts
  <2>2. QED
    BY <1>1, <1>2, <2>1, DescFacts
<1>4. /\ qc \in PC /\ qc.sig = "remote" /\ qc.remote = desc /\ qc.chain = Append(Tail(c), o)
      /\ Tail(c) \in Seq(Operation) /\ o \in Operation /\ o.kind = "create"
  <2>1. dc \in PC /\ dc.sig = "remote" /\ dc.chain = Tail(c) /\ dc.remote = desc
    <3> HIDE DEF gp, desc
    <3> QED  BY <1>1, <1>2, <1>3, DoneFacts
  <2>2. Reply \in Job /\ qc = Queue(dc, "create", None, Reply)
    BY JobFacts
  <2> HIDE DEF dc, qc
  <2>3. /\ qc \in PC /\ qc.sig = dc.sig /\ qc.remote = dc.remote
        /\ qc.chain = Append(dc.chain, o) /\ dc.chain \in Seq(Operation) /\ o \in Operation
    BY <2>1, <2>2, QueueFacts
  <2>4. o.kind = "create"
    OBVIOUS
  <2>5. QED
    BY <2>1, <2>3, <2>4
<1>5. Talks(oc, gp, s, u, page[g], page[Owner], stopped, g)
  BY TalkFacts
<1> HIDE DEF qc, dc, o
<1>6. /\ \A d : Chained(c, d) => Chained(Tail(c), d)
      /\ \A d : ~HasKind(Tail(c), "remote") /\ Chained(c, d) => desc = d
      /\ Spoken(c) => Spoken(Tail(c)) /\ desc # None
  <2> HIDE DEF c, desc
  <2> QED  BY <1>1, <1>3, ChainShrunk
<1>7. /\ HasKind(qc.chain, "create") /\ (HasKind(qc.chain, "remote") <=> HasKind(Tail(c), "remote"))
      /\ \A d : Chained(Tail(c), d) => Chained(qc.chain, d)
      /\ Spoken(Tail(c)) => Spoken(qc.chain)
  <2> HIDE DEF c
  <2> QED  BY <1>4, ChainGrown
<1>8. qc # None
  BY <1>4, NoneAssumption
<1> HIDE DEF s, oc, u
<1>9. Tells(oc, qc, s)
  BY <1>1, <1>4, <1>5, <1>6, <1>7 DEF Talks, Tells
<1>10. Answers(qc)
  BY <1>1, <1>4, <1>5, <1>6, <1>7 DEF Talks, Answers
<1>11. Awaits(oc, qc, s, u, g) /\ Begun(oc)
  BY <1>4, <1>5 DEF Talks, Awaits
<1>12. Reached(oc, qc, s, page[g], stopped, g) /\ Fresh(qc, s, u, page[g], g)
  BY <1>1, <1>5, <1>8 DEF Talks, Reached, Fresh
<1>13. Talks(oc, qc, s, u, page[g], page[Owner], stopped, g)
  BY <1>5, <1>9, <1>10, <1>11, <1>12 DEF Talks
<1>14. Mailed(down, page) /\ \A h \in Guests : Quiet(down[h], down[Owner], down[h], down[Owner], h)
  BY TalkFacts, QuietSame
<1>15. QED
  BY <1>1, <1>2, <1>13, <1>14, TalkGuest DEF oc, u, s

LEMMA TalkAnswerMade ==
  ASSUME IInv, Talk, NEW g \in Guests, AnswerMade(g)
  PROVE  Talk'
<1> DEFINE gp == guestPc[g]
           qc == IF gp.sig = "remote" THEN Create(gp, Answer(gp)) ELSE Dequeue(gp)
           oc == ownerPc[g]
           s == down[g]
           u == down[Owner]
           c == gp.chain
<1>1. /\ gp # None /\ c # <<>> /\ Head(c).kind = "create" /\ guestPc' = [guestPc EXCEPT ![g] = qc]
      /\ UNCHANGED <<page, stopped, ownerPc, down>>
  BY TalkFacts DEF AnswerMade, Has, Waits, owner, history
<1>2. gp \in PC /\ gp.sig # "local" /\ Open(g) /\ g \in Pages
  BY <1>1, TalkFacts, PageFacts DEF Talk, Held, Open
<1>3. c \in Seq(Operation) /\ Tail(c) \in Seq(Operation) /\ Head(c) = c[1] /\ c[1] \in Operation
  BY <1>1, <1>2, DequeueFacts, TailFacts
<1>4. /\ qc \in PC /\ qc.sig = gp.sig /\ qc.remote = gp.remote
      /\ gp.sig = "remote" => \E o \in Operation : /\ o.kind = "local" /\ o.desc = gp.remote
                                                  /\ qc.chain = Append(Tail(c), o)
      /\ gp.sig # "remote" => qc.chain = Tail(c)
  <2>1. CASE gp.sig = "remote"
    <3> DEFINE r == gp.remote
    <3>1. r \in Description \cup {None} /\ qc = Create(gp, r)
      BY <1>2, <2>1 DEF PC, Answer
    <3> HIDE DEF gp, qc, r
    <3>2. /\ qc \in PC /\ qc.sig = gp.sig /\ qc.remote = gp.remote
          /\ \E o \in Operation : /\ o.kind = "local" /\ o.desc = r
                                  /\ qc.chain = Append(Tail(gp.chain), o)
      BY <1>1, <1>2, <3>1, CreateFacts
    <3>3. QED
      BY <2>1, <3>2 DEF r
  <2>2. CASE gp.sig # "remote"
    <3>1. qc = Dequeue(gp)
      BY <2>2
    <3> HIDE DEF gp, qc
    <3>2. QED
      BY <1>1, <1>2, <2>2, <3>1, DequeueFacts
  <2>3. QED
    BY <2>1, <2>2
<1>5. Talks(oc, gp, s, u, page[g], page[Owner], stopped, g)
  BY TalkFacts
<1> HIDE DEF qc
<1>7. /\ \A d : Chained(c, d) => Chained(Tail(c), d)
      /\ HasKind(Tail(c), "remote") <=> HasKind(c, "remote")
      /\ Spoken(c) => Spoken(Tail(c))
  <2>1. c[1].kind = "create"
    BY <1>1, <1>3
  <2> HIDE DEF c
  <2>2. QED
    BY <1>1, <1>3, <2>1, ChainShrunk
<1>8. /\ HasKind(qc.chain, "remote") <=> HasKind(c, "remote")
      /\ \A d : Chained(c, d) => Chained(qc.chain, d)
      /\ gp.sig = "remote" => Ready(qc.chain, gp.remote.lines)
      /\ Spoken(c) /\ (gp.sig = "remote" => gp.remote # None) => Spoken(qc.chain)
  <2>1. CASE gp.sig = "remote"
    <3> DEFINE t == Tail(c)
               v == qc.chain
    <3>1. PICK o \in Operation : o.kind = "local" /\ o.desc = gp.remote /\ v = Append(t, o)
      BY <1>4, <2>1
    <3>2. t \in Seq(Operation)
      BY <1>3
    <3> HIDE DEF t, v
    <3>3. /\ HasKind(v, "remote") <=> HasKind(t, "remote")
          /\ \A d : Chained(t, d) => Chained(v, d)
          /\ Ready(v, o.desc.lines)
          /\ Spoken(t) /\ o.desc # None => Spoken(v)
      BY <3>1, <3>2, ChainGrown
    <3>4. QED
      BY <1>7, <2>1, <3>1, <3>3 DEF t, v
  <2>2. CASE gp.sig # "remote"
    BY <1>4, <1>7, <2>2
  <2>3. QED
    BY <2>1, <2>2
<1>9. qc # None
  BY <1>4, NoneAssumption
<1> HIDE DEF s, oc, u
<1>10. Tells(oc, qc, s)
  BY <1>1, <1>4, <1>5, <1>8 DEF Talks, Tells
<1>11. Answers(qc)
  BY <1>1, <1>4, <1>5, <1>8 DEF Talks, Answers
<1>12. Awaits(oc, qc, s, u, g) /\ Begun(oc)
  BY <1>1, <1>4, <1>5, <1>8 DEF Talks, Awaits
<1>13. Reached(oc, qc, s, page[g], stopped, g) /\ Fresh(qc, s, u, page[g], g)
  BY <1>1, <1>5, <1>9 DEF Talks, Reached, Fresh
<1>14. Talks(oc, qc, s, u, page[g], page[Owner], stopped, g)
  BY <1>5, <1>10, <1>11, <1>12, <1>13 DEF Talks
<1>15. Mailed(down, page) /\ \A h \in Guests : Quiet(down[h], down[Owner], down[h], down[Owner], h)
  BY TalkFacts, QuietSame
<1>16. QED
  BY <1>1, <1>2, <1>14, <1>15, TalkGuest DEF oc, u, s

\* The answer was set, or refused.
LEMMA AnsweredTalk ==
  ASSUME NEW oc, NEW gp, NEW s, NEW u, NEW pg, NEW po, NEW away, NEW g,
         Talks(oc, gp, s, u, pg, po, away, g), gp # None, NEW qc, qc # None,
         NEW c \in Seq(Operation), c # <<>>, c[1].kind = "local", gp.chain = c,
         qc.remote = gp.remote, qc.chain = Tail(c),
         \/ /\ gp.sig = "remote" /\ c[1].desc.lines = gp.remote.lines /\ qc.sig = "stable"
            /\ oc # None => AnswerIn(u, g, c[1].desc.lines)
         \/ /\ ~(gp.sig = "remote" /\ c[1].desc.lines = gp.remote.lines)
               \/ \E i \in 2 .. Len(c) : c[i].kind = "local"
            /\ qc.sig = gp.sig
  PROVE  Talks(oc, qc, s, u, pg, po, away, g)
<1> DEFINE t == Tail(c)
<1>1. /\ HasKind(t, "remote") <=> HasKind(c, "remote")
      /\ HasKind(c, "create") => HasKind(t, "create")
      /\ \A d : Chained(c, d) => Chained(t, d)
      /\ Spoken(c) => Spoken(t)
      /\ \A lines : Ready(c, lines) =>
           Ready(t, lines) \/ (~HasKind(t, "local") /\ c[1].desc.lines = lines)
      /\ (\E i \in 2 .. Len(c) : c[i].kind = "local") => HasKind(t, "local")
  BY ChainShrunk
<1>2. qc.chain = t
  OBVIOUS
<1> HIDE DEF t
<1>3. Tells(oc, qc, s)
  BY <1>1, <1>2 DEF Talks, Tells
<1>4. Answers(qc)
  <2>1. CASE qc.sig # "remote"
    BY <1>1, <1>2, <2>1 DEF Talks, Answers
  <2>2. CASE qc.sig = "remote"
    <3>1. gp.sig = "remote" /\ (c[1].desc.lines # gp.remote.lines \/ HasKind(t, "local"))
      BY <1>1, <2>2
    <3>2. gp.remote # None /\ (HasKind(c, "create") \/ Ready(c, gp.remote.lines)) /\ Spoken(c)
      BY <3>1 DEF Talks, Answers
    <3>3. HasKind(t, "create") \/ Ready(t, gp.remote.lines)
      BY <1>1, <3>1, <3>2
    <3>4. QED
      BY <1>1, <1>2, <3>2, <3>3 DEF Answers
  <2>3. QED
    BY <2>1, <2>2
<1>5. Awaits(oc, qc, s, u, g) /\ Begun(oc)
  <2> SUFFICES ASSUME oc # None, oc.sig = "local", ~ToOffer(oc.chain), ~HasOffer(s),
                      ~HasKind(t, "remote"), qc.sig # "remote"
               PROVE  AnswerIn(u, g, oc.local.lines) \/ RemoteIn(oc.chain, oc.local.lines)
    BY <1>2 DEF Talks, Awaits
  <2>1. gp.remote = oc.local
    BY <1>1 DEF Talks, Tells
  <2>2. CASE gp.sig = "remote"
    BY <2>1, <2>2
  <2>3. CASE gp.sig # "remote"
    BY <1>1, <2>3 DEF Talks, Awaits
  <2>4. QED
    BY <2>2, <2>3
<1>6. Reached(oc, qc, s, pg, away, g) /\ Fresh(qc, s, u, pg, g)
  BY DEF Talks, Reached, Fresh
<1>7. QED
  BY <1>3, <1>4, <1>5, <1>6 DEF Talks

LEMMA TalkAnswerSent ==
  ASSUME IInv, Talk, NEW g \in Guests, AnswerSent(g)
  PROVE  Talk'
<1> DEFINE gp == guestPc[g]
           c == gp.chain
           desc == Head(c).desc
           fits == gp.sig = "remote" /\ desc.lines = gp.remote.lines
           a == Sdp("answer", g, desc)
           b == Candidate(g)
           ms == IF gp.local = None THEN <<a, b>> ELSE <<a>>
           yc == Dequeue(SetLocalAnswer(gp, desc))
           nc == Dequeue(gp)
           oc == ownerPc[g]
<1>1. /\ gp # None /\ c # <<>> /\ Head(c).kind = "local" /\ UNCHANGED <<page, stopped, ownerPc>>
      /\ \/ fits /\ guestPc' = [guestPc EXCEPT ![g] = yc] /\ down' = To(down, Owner, ms)
         \/ /\ ~fits \/ MayBeRefused(gp)
            /\ guestPc' = [guestPc EXCEPT ![g] = nc] /\ down' = down
  BY TalkFacts DEF AnswerSent, Has, Waits, owner, history
<1>2. gp \in PC /\ Open(g) /\ g \in Pages /\ Owner \in Pages /\ g # Owner /\ down \in Mails
  BY <1>1, TalkFacts, PageFacts DEF Talk, Held, Open
<1>3. /\ c \in Seq(Operation) /\ Head(c) = c[1] /\ c[1].kind = "local" /\ c[1].desc = desc
      /\ desc \in Description \cup {None}
  <2>1. c \in Seq(Operation) /\ Head(c) = c[1] /\ c[1] \in Operation
    BY <1>1, <1>2, DequeueFacts
  <2>2. QED
    BY <1>1, <1>2, <2>1, DescFacts
<1>4. Talks(oc, gp, down[g], down[Owner], page[g], page[Owner], stopped, g)
  BY TalkFacts
<1>5. desc # None
  <2>1. Spoken(c) /\ 1 \in 1 .. Len(c)
    BY <1>1, <1>3, <1>4 DEF Talks, Answers
  <2> HIDE DEF c, desc
  <2>2. QED
    BY <1>3, <2>1 DEF Spoken
<1>6. MayBeRefused(gp) => \E i \in 2 .. Len(c) : c[i].kind = "local"
  BY DEF MayBeRefused
<1>7. /\ yc \in PC /\ yc.sig = "stable" /\ yc.remote = gp.remote /\ yc.chain = Tail(c)
      /\ nc \in PC /\ nc.sig = gp.sig /\ nc.remote = gp.remote /\ nc.chain = Tail(c)
  <2>1. nc \in PC /\ nc.sig = gp.sig /\ nc.remote = gp.remote /\ nc.chain = Tail(c)
    <3> HIDE DEF gp
    <3> QED  BY <1>1, <1>2, DequeueFacts
  <2>2. yc \in PC /\ yc.sig = "stable" /\ yc.remote = gp.remote /\ yc.chain = Tail(c)
    <3> HIDE DEF gp, desc
    <3> QED  BY <1>1, <1>2, <1>3, DoneFacts
  <2>3. QED
    BY <2>1, <2>2
<1>8. yc # None /\ nc # None
  BY <1>7, NoneAssumption
<1>9. /\ a \in Message /\ a.type = "answer" /\ a.from = g /\ a.desc = desc
      /\ b \in Message /\ b.type = "candidate"
  BY <1>2, <1>3, MessageFacts DEF Sdp, Blank
<1> HIDE DEF a, b
<1>10. /\ ms \in Seq(Message) /\ 1 \in 1 .. Len(ms) /\ ms[1] = a
       /\ \A i \in 1 .. Len(ms) : ms[i] = a \/ ms[i] = b
  <2>1. /\ <<a, b>> \in Seq(Message) /\ 1 \in 1 .. Len(<<a, b>>) /\ <<a, b>>[1] = a
        /\ \A i \in 1 .. Len(<<a, b>>) : <<a, b>>[i] = a \/ <<a, b>>[i] = b
    BY <1>9
  <2>2. /\ <<a>> \in Seq(Message) /\ 1 \in 1 .. Len(<<a>>) /\ <<a>>[1] = a
        /\ \A i \in 1 .. Len(<<a>>) : <<a>>[i] = a \/ <<a>>[i] = b
    BY <1>9
  <2>3. QED
    BY <2>1, <2>2
<1>11. \A i \in 1 .. Len(ms) : /\ ms[i].type \in {"offer", "answer"} => ms[i].desc # None
                               /\ ms[i].type # "offer" /\ ms[i].type # "start"
  <2> HIDE DEF desc, ms
  <2> QED  BY <1>5, <1>9, <1>10
<1> HIDE DEF gp, c, desc, ms, yc, nc, oc
<1>12. ASSUME fits, guestPc' = [guestPc EXCEPT ![g] = yc], down' = To(down, Owner, ms)
       PROVE  Talk'
  <2>1. /\ Mailed(down', page)
        /\ \A h \in Guests : Quiet(down[h], down[Owner], down'[h], down'[Owner], h)
        /\ Open(Owner) => \A i \in 1 .. Len(ms) : \E j \in 1 .. Len(down'[Owner]) :
                            down'[Owner][j] = ms[i]
    <3> DEFINE d == down
               e == down'
    <3>1. d \in Mails /\ Mailed(d, page) /\ e = To(d, Owner, ms)
      BY <1>2, <1>12, TalkFacts
    <3>2. \A i \in 1 .. Len(ms) : ms[i].type \in {"offer", "answer"} => ms[i].desc # None
      BY <1>11
    <3>3. \A h \in Guests : Plain(ms, h)
      BY <1>11 DEF Plain
    <3> HIDE DEF d, e
    <3>4. Owner \in Pages /\ ms \in Seq(Message)
      BY <1>2, <1>10
    <3>5. Mailed(e, page)
      BY <3>1, <3>2, <3>4, SentTalk
    <3>6. \A h \in Guests : Quiet(d[h], d[Owner], e[h], e[Owner], h)
      BY <3>1, <3>2, <3>3, <3>4, SentTalk
    <3>7. Open(Owner) => \A i \in 1 .. Len(ms) : \E j \in 1 .. Len(e[Owner]) : e[Owner][j] = ms[i]
      BY <3>1, <3>2, <3>4, SentTalk
    <3>8. QED
      BY <3>5, <3>6, <3>7 DEF d, e
  <2>2. oc # None => AnswerIn(down'[Owner], g, desc.lines)
    <3>1. oc # None => Open(Owner)
      BY DEF Talk, Held, Open, oc
    <3>2. QED
      BY <1>9, <1>10, <2>1, <3>1 DEF AnswerIn
  <2>3. Talks(oc, gp, down'[g], down'[Owner], page[g], page[Owner], stopped, g)
    BY <1>4, <2>1, QuietTalk
  <2>4. Talks(oc, yc, down'[g], down'[Owner], page[g], page[Owner], stopped, g)
    <3>1. gp.chain = c
      BY DEF c
    <3>2. QED
      BY <1>1, <1>3, <1>7, <1>8, <1>12, <2>2, <2>3, <3>1, AnsweredTalk
  <2>5. QED
    BY <1>1, <1>2, <1>12, <2>1, <2>4, TalkGuest DEF oc
<1>13. ASSUME ~fits \/ MayBeRefused(gp), guestPc' = [guestPc EXCEPT ![g] = nc], down' = down
       PROVE  Talk'
  <2>1. Mailed(down, page) /\ \A h \in Guests : Quiet(down[h], down[Owner], down[h], down[Owner], h)
    BY TalkFacts, QuietSame
  <2>2. Talks(oc, nc, down[g], down[Owner], page[g], page[Owner], stopped, g)
    <3>1. gp.chain = c
      BY DEF c
    <3>2. QED
      BY <1>1, <1>3, <1>4, <1>6, <1>7, <1>8, <1>13, <3>1, AnsweredTalk
  <2>3. QED
    BY <1>1, <1>2, <1>13, <2>1, <2>2, TalkGuest DEF oc
<1>14. QED
  BY <1>1, <1>12, <1>13

-----------------------------------------------------------------------------
(* Pages come and go *)

LEMMA TalkJoin ==
  ASSUME IInv, Talk, NEW g \in Guests, Join(g)
  PROVE  Talk'
<1> DEFINE m == Start(g)
           ms == <<m>>
           d == down
           e == down'
<1>1. /\ page[g] = "new" /\ page' = [page EXCEPT ![g] = "open"] /\ e = To(d, Owner, ms)
      /\ UNCHANGED <<ownerPc, guestPc, stopped>>
  BY DEF Join, owner, history
<1>2. g \in Pages /\ Owner \in Pages /\ g # Owner /\ d \in Mails /\ Mailed(d, page)
  BY TalkFacts, PageFacts
<1>3. m \in Message /\ m.type = "start" /\ m.from = g
  BY MessageFacts
<1>4. ms \in Seq(Message) /\ Len(ms) = 1 /\ ms[1] = m
  <2> HIDE DEF m
  <2> QED  BY <1>3
<1>5. \A i \in 1 .. Len(ms) : ms[i].type \in {"offer", "answer"} => ms[i].desc # None
  BY <1>3, <1>4
<1>6. \A h \in Guests : h # g => Plain(ms, h)
  BY <1>3, <1>4 DEF Plain
<1> HIDE DEF m, ms, d, e
<1>7. Mailed(e, page) /\ \A x \in Pages : x # Owner => e[x] = d[x]
  BY <1>1, <1>2, <1>4, <1>5, SentTalk
<1>8. \A h \in Guests : h # g => Quiet(d[h], d[Owner], e[h], e[Owner], h)
  BY <1>1, <1>2, <1>4, <1>5, <1>6, SentTalk
<1>9. Open(Owner) => \A i \in 1 .. Len(ms) : \E j \in 1 .. Len(e[Owner]) : e[Owner][j] = ms[i]
  BY <1>1, <1>2, <1>4, <1>5, SentTalk
<1>10. page'[g] = "open" /\ \A x \in Pages : x # g => page'[x] = page[x]
  BY <1>1, <1>2, TalkFacts
<1>11. Mailed(e, page')
  BY <1>7, <1>10 DEF Mailed
<1>12. page'[Owner] # "new" /\ \A h \in Guests : /\ ownerPc'[h] # None => page'[Owner] = "open"
                                                 /\ guestPc'[h] # None => page'[h] = "open"
  BY <1>1, <1>2, <1>10, PageFacts DEF Talk, Held
<1>13. ASSUME NEW h \in Guests
       PROVE  Talks(ownerPc[h], guestPc[h], e[h], e[Owner], page'[h], page'[Owner], stopped, h)
  <2>1. Talks(ownerPc[h], guestPc[h], d[h], d[Owner], page[h], page[Owner], stopped, h)
    BY TalkFacts DEF d
  <2>2. CASE h # g
    <3>1. Talks(ownerPc[h], guestPc[h], e[h], e[Owner], page[h], page[Owner], stopped, h)
      BY <1>8, <2>1, <2>2, QuietTalk
    <3>2. page'[h] = page[h] /\ page'[Owner] = page[Owner]
      BY <1>2, <1>10, <2>2, PageFacts
    <3>3. QED
      BY <3>1, <3>2
  <2>3. CASE h = g
    <3>1. ownerPc[g] = None
      BY <1>1 DEF IInv, Letters, Starts
    <3>2. guestPc[g] = None /\ ~HasOffer(e[g])
      BY <1>1, <1>2, <1>7, <2>1, <2>3 DEF Talks, Fresh
    <3>3. page[Owner] = "open" => StartIn(e[Owner], g)
      <4>1. 1 \in 1 .. Len(ms)
        BY <1>4
      <4>2. QED
        BY <1>3, <1>4, <1>9, <4>1 DEF StartIn, Open, m
    <3>4. page'[Owner] = page[Owner]
      BY <1>2, <1>10
    <3>5. QED
      BY <2>3, <3>1, <3>2, <3>3, <3>4
         DEF Talks, Tells, Answers, Awaits, Begun, Reached, Fresh, Greeted
  <2>4. QED
    BY <2>2, <2>3
<1>14. QED
  BY <1>1, <1>11, <1>12, <1>13, TalkMade DEF e

LEMMA NothingSaid ==
  ASSUME NEW g
  PROVE  /\ ~HasOffer(<<>>) /\ Written(<<>>) /\ ~StartIn(<<>>, g)
         /\ \A desc : Told(<<>>, desc)
<1>1. Len(<<>>) = 0 /\ \A i \in 1 .. 0 : FALSE
  OBVIOUS
<1>2. QED
  BY <1>1 DEF HasOffer, Written, StartIn, Told

LEMMA TalkGone ==
  ASSUME IInv, Talk, NEW p \in Pages, Gone(p)
  PROVE  Talk'
<1> DEFINE e == down'
<1>1. /\ page' = [page EXCEPT ![p] = "gone"] /\ e = [down EXCEPT ![p] = <<>>]
      /\ guestPc' = [g \in Guests |-> IF g = p THEN None ELSE guestPc[g]]
      /\ IF p = Owner THEN ownerPc' = [g \in Guests |-> None] ELSE ownerPc' = ownerPc
      /\ stopped' = stopped
  BY DEF Gone, owner, history
<1>2. down \in Mails /\ Mailed(down, page) /\ Owner \in Pages
  BY TalkFacts, PageFacts
<1>3. /\ page'[p] = "gone" /\ \A x \in Pages : x # p => page'[x] = page[x]
      /\ e[p] = <<>> /\ \A x \in Pages : x # p => e[x] = down[x]
  BY <1>1, <1>2, TalkFacts DEF Mails
<1> HIDE DEF e
<1>4. Mailed(e, page')
  BY <1>2, <1>3, NothingSaid DEF Mailed
<1>5. /\ page'[Owner] # "new"
      /\ \A h \in Guests : /\ ownerPc'[h] # None => page'[Owner] = "open"
                           /\ guestPc'[h] # None => page'[h] = "open"
  <2>1. page'[Owner] # "new"
    BY <1>2, <1>3 DEF Talk, Held
  <2>2. ASSUME NEW h \in Guests, ownerPc'[h] # None PROVE page'[Owner] = "open"
    <3>1. p # Owner
      BY <1>1, <2>2
    <3>2. QED
      BY <1>1, <1>2, <1>3, <2>2, <3>1 DEF Talk, Held
  <2>3. ASSUME NEW h \in Guests, guestPc'[h] # None PROVE page'[h] = "open"
    <3>1. h # p /\ guestPc[h] # None /\ h \in Pages
      BY <1>1, <2>3, PageFacts
    <3>2. QED
      BY <1>3, <3>1 DEF Talk, Held
  <2>4. QED
    BY <2>1, <2>2, <2>3
<1>6. ASSUME NEW h \in Guests
      PROVE  Talks(ownerPc'[h], guestPc'[h], e[h], e[Owner], page'[h], page'[Owner], stopped', h)
  <2>1. Talks(ownerPc[h], guestPc[h], down[h], down[Owner], page[h], page[Owner], stopped, h)
    BY TalkFacts
  <2>2. h \in Pages /\ h # Owner
    BY PageFacts
  <2>3. CASE p = Owner
    <3>1. /\ ownerPc'[h] = None /\ guestPc'[h] = guestPc[h] /\ e[h] = down[h] /\ e[Owner] = <<>>
          /\ page'[h] = page[h] /\ page'[Owner] = "gone"
      BY <1>1, <1>3, <2>2, <2>3
    <3>2. Talks(None, guestPc[h], down[h], <<>>, page[h], "gone", stopped', h)
      BY <2>1, NothingSaid
         DEF Talks, Tells, Answers, Awaits, Begun, Reached, Fresh, Greeted
    <3>3. QED
      BY <3>1, <3>2
  <2>4. CASE p = h
    <3>1. /\ ownerPc'[h] = ownerPc[h] /\ guestPc'[h] = None /\ e[h] = <<>>
          /\ e[Owner] = down[Owner] /\ page'[h] = "gone" /\ page'[Owner] = page[Owner]
      BY <1>1, <1>2, <1>3, <2>2, <2>4
    <3>2. Talks(ownerPc[h], None, <<>>, down[Owner], "gone", page[Owner], stopped', h)
      BY <2>1, NothingSaid
         DEF Talks, Tells, Answers, Awaits, Begun, Reached, Fresh, Greeted
    <3>3. QED
      BY <3>1, <3>2
  <2>5. CASE p # Owner /\ p # h
    <3>1. /\ ownerPc'[h] = ownerPc[h] /\ guestPc'[h] = guestPc[h] /\ e[h] = down[h]
          /\ e[Owner] = down[Owner] /\ page'[h] = page[h] /\ page'[Owner] = page[Owner]
      BY <1>1, <1>2, <1>3, <2>2, <2>5
    <3>2. QED
      BY <1>1, <2>1, <3>1
  <2>6. QED
    BY <2>3, <2>4, <2>5
<1>7. QED
  BY <1>4, <1>5, <1>6, TalkMade DEF e

LEMMA TalkStop ==
  ASSUME IInv, Talk, NEW p \in Pages, stopConference(p)
  PROVE  Talk'
<1>1. /\ stopped' = stopped \cup {p} /\ page' = page /\ down' = down
      /\ guestPc' = [g \in Guests |-> IF g = p THEN None ELSE guestPc[g]]
      /\ IF p = Owner THEN ownerPc' = [g \in Guests |-> None] ELSE ownerPc' = ownerPc
  BY DEF stopConference, owner
<1>2. /\ page[Owner] # "new" /\ Mailed(down, page)
      /\ \A h \in Guests : /\ ownerPc'[h] # None => page[Owner] = "open"
                           /\ guestPc'[h] # None => page[h] = "open"
  <2>1. \A h \in Guests : /\ ownerPc'[h] = ownerPc[h] \/ ownerPc'[h] = None
                          /\ guestPc'[h] = guestPc[h] \/ guestPc'[h] = None
    BY <1>1
  <2>2. QED
    BY <2>1 DEF Talk, Held
<1>3. ASSUME NEW h \in Guests
      PROVE  Talks(ownerPc'[h], guestPc'[h], down[h], down[Owner], page[h], page[Owner], stopped', h)
  <2>1. Talks(ownerPc[h], guestPc[h], down[h], down[Owner], page[h], page[Owner], stopped, h)
    BY TalkFacts
  <2>2. h \in Pages /\ h # Owner
    BY PageFacts
  <2>3. CASE p = Owner
    <3>1. ownerPc'[h] = None /\ guestPc'[h] = guestPc[h] /\ Owner \in stopped'
      BY <1>1, <2>2, <2>3
    <3>2. Talks(None, guestPc[h], down[h], down[Owner], page[h], page[Owner], stopped', h)
      BY <2>1, <3>1 DEF Talks, Tells, Answers, Awaits, Begun, Reached, Fresh, Greeted
    <3>3. QED
      BY <3>1, <3>2
  <2>4. CASE p = h
    <3>1. ownerPc'[h] = ownerPc[h] /\ guestPc'[h] = None /\ h \in stopped' /\ stopped \subseteq stopped'
      BY <1>1, <2>2, <2>4
    <3>2. Talks(ownerPc[h], None, down[h], down[Owner], page[h], page[Owner], stopped', h)
      BY <2>1, <3>1 DEF Talks, Tells, Answers, Awaits, Begun, Reached, Fresh, Greeted
    <3>3. QED
      BY <3>1, <3>2
  <2>5. CASE p # Owner /\ p # h
    <3>1. ownerPc'[h] = ownerPc[h] /\ guestPc'[h] = guestPc[h] /\ stopped \subseteq stopped'
      BY <1>1, <2>5
    <3>2. Talks(ownerPc[h], guestPc[h], down[h], down[Owner], page[h], page[Owner], stopped', h)
      BY <2>1, <3>1, QuietSame, QuietTalk
    <3>3. QED
      BY <3>1, <3>2
  <2>6. QED
    BY <2>3, <2>4, <2>5
<1>4. QED
  BY <1>1, <1>2, <1>3, TalkMade

-----------------------------------------------------------------------------
(***************************************************************************)
(* The steps of the owner's page.  The invariant over the ends of the      *)
(* owner and the messages: a loop changes two ends in one step, and sends  *)
(* twice.                                                                  *)
(***************************************************************************)
Speaks(pcs, d) ==
  /\ Mailed(d, page)
  /\ \A g \in Guests : pcs[g] # None => Open(Owner)
  /\ \A g \in Guests : Talks(pcs[g], guestPc[g], d[g], d[Owner], page[g], page[Owner], stopped, g)

LEMMA SpeaksNow == ASSUME IInv, Talk PROVE Speaks(ownerPc, down)
BY TalkFacts DEF Speaks, Talk, Held, Open

LEMMA SpeaksMade ==
  ASSUME Talk, Speaks(ownerPc', down'), UNCHANGED <<page, stopped, guestPc>>
  PROVE  Talk'
<1>1. \A g \in Guests : guestPc'[g] # None => guestPc[g] # None \/ Open(g)
  OBVIOUS
<1>2. QED
  BY <1>1, TalkStep DEF Speaks

\* One end changes, and one message was handled or some were sent.
LEMMA SpeaksOne ==
  ASSUME NEW pcs, NEW d, Speaks(pcs, d), NEW qpc, NEW e, NEW g \in Guests, Open(Owner),
         Mailed(e, page), \A h \in Guests : h # g => qpc[h] = pcs[h],
         \A h \in Guests : h # g => Quiet(d[h], d[Owner], e[h], e[Owner], h),
         Talks(qpc[g], guestPc[g], e[g], e[Owner], page[g], page[Owner], stopped, g)
  PROVE  Speaks(qpc, e)
<1>1. ASSUME NEW h \in Guests
      PROVE  Talks(qpc[h], guestPc[h], e[h], e[Owner], page[h], page[Owner], stopped, h)
  <2>1. CASE h = g
    BY <2>1
  <2>2. CASE h # g
    <3>1. Talks(pcs[h], guestPc[h], d[h], d[Owner], page[h], page[Owner], stopped, h)
      BY DEF Speaks
    <3>2. Talks(pcs[h], guestPc[h], e[h], e[Owner], page[h], page[Owner], stopped, h)
      BY <2>2, <3>1, QuietTalk
    <3>3. QED
      BY <2>2, <3>2
  <2>3. QED
    BY <2>1, <2>2
<1>2. QED
  BY <1>1 DEF Speaks

LEMMA SpeaksRoom ==
  ASSUME NEW pcs, NEW d \in Mails, Speaks(pcs, d), NEW fs \in SUBSET Tracks,
         NEW e, e = ToRoom(d, Update(fs))
  PROVE  Speaks(pcs, e)
<1>1. Mailed(e, page) /\ \A g \in Guests : Quiet(d[g], d[Owner], e[g], e[Owner], g)
  BY RoomTalk DEF Speaks
<1>2. ASSUME NEW g \in Guests
      PROVE  Talks(pcs[g], guestPc[g], e[g], e[Owner], page[g], page[Owner], stopped, g)
  <2>1. Talks(pcs[g], guestPc[g], d[g], d[Owner], page[g], page[Owner], stopped, g)
    BY DEF Speaks
  <2>2. QED
    BY <1>1, <2>1, QuietTalk
<1>3. QED
  BY <1>1, <1>2 DEF Speaks

LEMMA SpeaksNext ==
  ASSUME NEW pcs \in [Guests -> {None} \cup PC], NEW d, Speaks(pcs, d), NEW J \in Loops,
         NEW g \in Guests, pcs[g] # None, NEW qpc,
         qpc = [pcs EXCEPT ![g] =
           Queue(IF J.kind = "drop" THEN removeTrack(@, J.track) ELSE @, "create", None, J)]
  PROVE  Speaks(qpc, d)
<1> DEFINE oc == pcs[g]
           qc == Queue(IF J.kind = "drop" THEN removeTrack(oc, J.track) ELSE oc, "create", None, J)
           gp == guestPc[g]
           s == d[g]
           u == d[Owner]
           pg == page[g]
           po == page[Owner]
<1>1. qpc[g] = qc /\ (\A h \in Guests : h # g => qpc[h] = pcs[h]) /\ oc \in PC
  OBVIOUS
<1>2. Talks(oc, gp, s, u, pg, po, stopped, g)
  BY DEF Speaks
<1>3. qc = Queue(IF J.kind = "drop" THEN removeTrack(oc, J.track) ELSE oc, "create", None, J)
  OBVIOUS
<1> HIDE DEF oc, qc, gp, s, u, pg, po
<1>4. Talks(qc, gp, s, u, pg, po, stopped, g)
  BY <1>1, <1>2, <1>3, QueuedTalk
<1>5. Talks(qpc[g], guestPc[g], d[g], d[Owner], page[g], page[Owner], stopped, g)
  BY <1>1, <1>4 DEF gp, s, u, pg, po
<1>6. Open(Owner) /\ Mailed(d, page)
  BY DEF Speaks
<1>7. \A h \in Guests : Quiet(d[h], d[Owner], d[h], d[Owner], h)
  BY QuietSame
<1>8. QED
  BY <1>1, <1>5, <1>6, <1>7, SpeaksOne

LEMMA TalkStart ==
  ASSUME IInv, Talk, onStartPeerConnection
  PROVE  Talk'
<1> DEFINE g == Head(down[Owner]).from
           nc == NewPC(tracks)
           qc == Queue(nc, "create", None, Connect)
           o == [kind |-> "create", desc |-> None, job |-> Connect]
           s == down[Owner]
           e == Rest(Owner)
<1>1. /\ Open(Owner) /\ s # <<>> /\ Head(s).type = "start"
      /\ ownerPc' = [ownerPc EXCEPT ![g] = qc] /\ down' = e
      /\ UNCHANGED <<page, stopped, guestPc>>
  BY DEF onStartPeerConnection, Gets, history
<1>2. /\ Owner \in Pages /\ down \in Mails /\ s \in Seq(Message) /\ s[1] = Head(s)
      /\ 1 \in 1 .. Len(s)
  <2>1. Owner \in Pages /\ down \in Mails /\ s \in Seq(Message)
    BY TalkFacts, PageFacts DEF Mails
  <2> HIDE DEF s
  <2>2. QED
    BY <1>1, <2>1
<1>3. g \in Guests /\ StartIn(s, g)
  <2>1. g \in Guests
    BY <1>1, <1>2 DEF IInv, Letters, Starts
  <2>2. QED
    BY <1>1, <1>2, <2>1 DEF StartIn
<1>4. /\ qc \in PC /\ qc.sig = "stable" /\ qc.local = None /\ qc.chain = Append(<<>>, o)
      /\ o \in Operation /\ o.kind = "create"
  <2>1. nc \in PC /\ nc.sig = "stable" /\ nc.local = None /\ nc.chain = <<>>
    BY TalkFacts, NewPCFacts
  <2>2. Connect \in Job
    BY JobFacts
  <2>3. o.kind = "create"
    OBVIOUS
  <2> HIDE DEF nc
  <2>4. /\ qc \in PC /\ qc.sig = nc.sig /\ qc.local = nc.local /\ qc.chain = Append(nc.chain, o)
        /\ o \in Operation
    BY <2>1, <2>2, QueueFacts
  <2>5. QED
    BY <2>1, <2>3, <2>4
<1> HIDE DEF qc, o
<1>5. HasKind(qc.chain, "create") /\ Spoken(qc.chain) /\ qc # None
  <2> DEFINE c == <<>>
             t == qc.chain
  <2>1. c \in Seq(Operation) /\ t = Append(c, o) /\ Spoken(c)
    BY <1>4 DEF Spoken
  <2> HIDE DEF c, t
  <2>2. HasKind(t, "create") /\ Spoken(t)
    BY <1>4, <2>1, ChainGrown
  <2>3. QED
    BY <1>4, <2>2, NoneAssumption DEF t
<1>6. /\ Mailed(e, page) /\ e[g] = down[g]
      /\ \A h \in Guests : h # g => Quiet(down[h], down[Owner], e[h], e[Owner], h)
  <2>1. Mailed(e, page)
    BY <1>1, <1>2, TalkFacts, MailRest
  <2>2. \A h \in Guests : h # Owner /\ h \in Pages
    BY PageFacts
  <2>3. e[g] = down[g]
    BY <1>2, <1>3, <2>2 DEF Rest, Mails
  <2> DEFINE G == g
  <2>4. \A h \in Guests : h # G => Quiet(down[h], down[Owner], Rest(Owner)[h], Rest(Owner)[Owner], h)
    BY <1>1, <1>2, <2>2, QuietRest
  <2>5. QED
    BY <2>1, <2>3, <2>4
<1>7. ownerPc'[g] = qc /\ \A h \in Guests : h # g => ownerPc'[h] = ownerPc[h]
  BY <1>1, <1>3, TalkFacts
<1>8. Speaks(ownerPc, down)
  BY SpeaksNow
<1>9. Talks(ownerPc[g], guestPc[g], down[g], s, page[g], page[Owner], stopped, g)
  BY <1>3, TalkFacts
<1> HIDE DEF g, s, e
<1>10. guestPc[g] = None /\ ~HasOffer(down[g])
  BY <1>3, <1>9 DEF Talks, Fresh
<1>11. Talks(qc, guestPc[g], down[g], e[Owner], page[g], page[Owner], stopped, g)
  <2>1. Told(down[g], qc.local)
    BY <1>10 DEF Told, LastOffer, HasOffer
  <2>2. QED
    BY <1>4, <1>5, <1>10, <2>1
       DEF Talks, Tells, Answers, Awaits, Begun, ToOffer, Reached, Fresh, Greeted
<1>12. Speaks(ownerPc', e)
  <2> DEFINE pcs == ownerPc
             qpc == ownerPc'
             d == down
  <2>1. /\ Speaks(pcs, d) /\ g \in Guests /\ Open(Owner) /\ Mailed(e, page)
        /\ \A h \in Guests : h # g => qpc[h] = pcs[h]
    BY <1>1, <1>3, <1>6, <1>7, <1>8
  <2>2. \A h \in Guests : h # g => Quiet(d[h], d[Owner], e[h], e[Owner], h)
    BY <1>6
  <2>3. Talks(qpc[g], guestPc[g], e[g], e[Owner], page[g], page[Owner], stopped, g)
    BY <1>6, <1>7, <1>11
  <2> HIDE DEF pcs, qpc, d
  <2>4. Speaks(qpc, e)
    BY <2>1, <2>2, <2>3, SpeaksOne
  <2>5. QED
    BY <2>4 DEF qpc
<1>13. QED
  BY <1>1, <1>12, SpeaksMade

\* An answer is taken in.
LEMMA AnswerTalk ==
  ASSUME NEW oc \in PC, NEW gp, NEW s, NEW u \in Seq(Message), u # <<>>, Head(u).type = "answer",
         NEW pg, NEW po, NEW away, NEW g, Talks(oc, gp, s, u, pg, po, away, g),
         NEW desc \in Description \cup {None}, desc # None, desc = Head(u).desc,
         NEW qc, qc = Queue(oc, "remote", desc, Reply)
  PROVE  Talks(qc, gp, s, Tail(u), pg, po, away, g)
<1> DEFINE o == [kind |-> "remote", desc |-> desc, job |-> Reply]
           c == oc.chain
           t == qc.chain
           v == Tail(u)
<1>1. o.kind = "remote" /\ o.desc = desc
  OBVIOUS
<1>2. /\ qc \in PC /\ qc.sig = oc.sig /\ qc.local = oc.local /\ qc.remote = oc.remote
      /\ t = Append(c, o) /\ c \in Seq(Operation) /\ o \in Operation
  <2> DEFINE q == Queue(oc, "remote", desc, Reply)
  <2>1. /\ q \in PC /\ q.sig = oc.sig /\ q.local = oc.local /\ q.remote = oc.remote
        /\ q.chain = Append(oc.chain, o) /\ oc.chain \in Seq(Operation) /\ o \in Operation
    BY JobFacts, QueueFacts
  <2>2. QED
    BY <2>1
<1>3. oc # None /\ qc # None
  BY <1>2, NoneAssumption
<1>4. /\ \A lines : AnswerIn(u, g, lines) => AnswerIn(v, g, lines) \/ desc.lines = lines
      /\ StartIn(v, g) <=> StartIn(u, g)
  BY Shrunk
<1>5. qc.chain = t /\ oc.chain = c
  OBVIOUS
<1> HIDE DEF o, c, t, v
<1>6. /\ \A kind : HasKind(c, kind) => HasKind(t, kind)
      /\ \A lines : RemoteIn(c, lines) => RemoteIn(t, lines)
      /\ RemoteIn(t, desc.lines)
      /\ Spoken(c) => Spoken(t)
  BY <1>1, <1>2, ChainGrown
<1>7. ToOffer(c) => ToOffer(t)
  BY <1>6 DEF ToOffer
<1>8. Tells(qc, gp, s) /\ Answers(gp)
  BY <1>2, <1>3 DEF Talks, Tells
<1>9. Awaits(qc, gp, s, v, g)
  BY <1>2, <1>3, <1>4, <1>5, <1>6, <1>7 DEF Talks, Awaits
<1>10. Begun(qc)
  BY <1>2, <1>3, <1>5, <1>6, <1>7 DEF Talks, Begun
<1>11. Reached(qc, gp, s, pg, away, g) /\ Fresh(gp, s, v, pg, g) /\ Greeted(qc, v, pg, po, away, g)
  BY <1>2, <1>3, <1>4 DEF Talks, Reached, Fresh, Greeted
<1>12. QED
  BY <1>8, <1>9, <1>10, <1>11 DEF Talks, v

LEMMA TalkAnswer ==
  ASSUME IInv, Talk, onAnswer
  PROVE  Talk'
<1> DEFINE g == Head(down[Owner]).from
           s == down[Owner]
           desc == Head(s).desc
           e == Rest(Owner)
<1>1. /\ Open(Owner) /\ s # <<>> /\ Head(s).type = "answer" /\ down' = e
      /\ ownerPc' = [ownerPc EXCEPT ![g] =
           IF @ = None THEN None ELSE Queue(@, "remote", desc, Reply)]
      /\ UNCHANGED <<page, stopped, guestPc>>
  BY DEF onAnswer, Gets, history
<1>2. /\ Owner \in Pages /\ down \in Mails /\ s \in Seq(Message) /\ s[1] = Head(s)
      /\ 1 \in 1 .. Len(s) /\ Head(s) \in Message
  <2>1. Owner \in Pages /\ down \in Mails /\ s \in Seq(Message)
    BY TalkFacts, PageFacts DEF Mails
  <2> HIDE DEF s
  <2>2. QED
    BY <1>1, <2>1
<1>3. desc \in Description \cup {None} /\ desc # None
  <2>1. Written(s)
    BY <1>2, TalkFacts DEF Mailed
  <2> HIDE DEF s
  <2>2. QED
    BY <1>1, <1>2, <2>1 DEF Message, Written
<1>4. Mailed(e, page) /\ e[Owner] = Tail(s) /\ \A x \in Pages : x # Owner => e[x] = down[x]
  <2>1. Mailed(e, page)
    BY <1>1, <1>2, TalkFacts, MailRest
  <2>2. QED
    BY <1>2, <2>1 DEF Rest, Mails
<1>5. \A h \in Guests : h # Owner /\ h \in Pages
  BY PageFacts
<1>6. \A h \in Guests : h # g => Quiet(down[h], down[Owner], e[h], e[Owner], h)
  <2> DEFINE G == g
  <2>1. \A h \in Guests : h # G => Quiet(down[h], down[Owner], Rest(Owner)[h], Rest(Owner)[Owner], h)
    BY <1>1, <1>2, <1>5, QuietRest
  <2>2. QED
    BY <2>1
<1>7. ownerPc \in [Guests -> {None} \cup PC]
  BY TalkFacts
<1>8. \A h \in Guests : /\ h # g => ownerPc'[h] = ownerPc[h]
                        /\ ownerPc[h] = None => ownerPc'[h] = None
                        /\ h = g /\ ownerPc[h] # None =>
                             ownerPc'[h] = Queue(ownerPc[h], "remote", desc, Reply)
  BY <1>1, <1>7
<1>9. ASSUME NEW h \in Guests
      PROVE  Talks(ownerPc'[h], guestPc[h], e[h], e[Owner], page[h], page[Owner], stopped, h)
  <2>1. Talks(ownerPc[h], guestPc[h], down[h], s, page[h], page[Owner], stopped, h)
    BY TalkFacts
  <2>2. CASE h # g
    <3>1. Talks(ownerPc[h], guestPc[h], e[h], e[Owner], page[h], page[Owner], stopped, h)
      BY <1>6, <2>1, <2>2, QuietTalk
    <3>2. QED
      BY <1>8, <2>2, <3>1
  <2>3. CASE ownerPc[h] = None
    <3>1. ownerPc'[h] = None /\ e[h] = down[h] /\ e[Owner] = Tail(s)
      BY <1>4, <1>5, <1>8, <2>3
    <3> HIDE DEF s, e
    <3>2. StartIn(Tail(s), h) <=> StartIn(s, h)
      BY <1>1, <1>2, Shrunk
    <3>3. Talks(None, guestPc[h], down[h], Tail(s), page[h], page[Owner], stopped, h)
      BY <2>1, <2>3, <3>2 DEF Talks, Tells, Answers, Awaits, Begun, Reached, Fresh, Greeted
    <3>4. QED
      BY <3>1, <3>3
  <2>4. CASE h = g /\ ownerPc[h] # None
    <3> DEFINE oc == ownerPc[h]
               qc == Queue(oc, "remote", desc, Reply)
               gp == guestPc[h]
               r == down[h]
    <3>1. ownerPc'[h] = qc /\ e[h] = r /\ e[Owner] = Tail(s) /\ oc \in PC
      BY <1>4, <1>5, <1>7, <1>8, <2>4
    <3>2. Talks(oc, gp, r, s, page[h], page[Owner], stopped, h)
      BY <2>1
    <3>3. qc = Queue(oc, "remote", desc, Reply) /\ desc = Head(s).desc
      OBVIOUS
    <3> HIDE DEF s, e, oc, qc, gp, r, desc, g
    <3>4. Talks(qc, gp, r, Tail(s), page[h], page[Owner], stopped, h)
      BY <1>1, <1>2, <1>3, <3>1, <3>2, <3>3, AnswerTalk
    <3>5. QED
      BY <3>1, <3>4 DEF gp
  <2>5. QED
    BY <2>2, <2>3, <2>4
<1>10. Speaks(ownerPc', e)
  BY <1>1, <1>4, <1>9 DEF Speaks
<1>11. QED
  BY <1>1, <1>10, SpeaksMade

\* One end of the owner changes, and nothing is said.
LEMMA SpeaksSilent ==
  ASSUME IInv, Talk, NEW g \in Guests, ownerPc[g] # None, NEW qc,
         ownerPc' = [ownerPc EXCEPT ![g] = qc], UNCHANGED <<page, stopped, guestPc, down>>,
         Talks(qc, guestPc[g], down[g], down[Owner], page[g], page[Owner], stopped, g)
  PROVE  Talk'
<1>1. ownerPc'[g] = qc /\ \A h \in Guests : h # g => ownerPc'[h] = ownerPc[h]
  BY TalkFacts
<1>2. Speaks(ownerPc, down) /\ Open(Owner) /\ Mailed(down, page)
  BY SpeaksNow DEF Speaks
<1>3. \A h \in Guests : Quiet(down[h], down[Owner], down[h], down[Owner], h)
  BY QuietSame
<1> DEFINE pcs == ownerPc
           qpc == ownerPc'
           d == down
<1>4. /\ Speaks(pcs, d) /\ Open(Owner) /\ Mailed(d, page)
      /\ \A h \in Guests : h # g => qpc[h] = pcs[h]
      /\ \A h \in Guests : h # g => Quiet(d[h], d[Owner], d[h], d[Owner], h)
      /\ Talks(qpc[g], guestPc[g], d[g], d[Owner], page[g], page[Owner], stopped, g)
  BY <1>1, <1>2, <1>3
<1> HIDE DEF pcs, qpc, d
<1>5. Speaks(qpc, d)
  BY <1>4, SpeaksOne
<1>6. QED
  BY <1>5, SpeaksMade DEF qpc, d

LEMMA TalkOfferMade ==
  ASSUME IInv, Talk, NEW g \in Guests, OfferMade(g)
  PROVE  Talk'
<1> DEFINE oc == ownerPc[g]
           c == oc.chain
           desc == Offer(oc)
           qc == Create(oc, desc)
           gp == guestPc[g]
           s == down[g]
           u == down[Owner]
<1>1. /\ oc # None /\ c # <<>> /\ Head(c).kind = "create" /\ ownerPc' = [ownerPc EXCEPT ![g] = qc]
      /\ UNCHANGED <<page, stopped, guestPc, down>>
  BY TalkFacts DEF OfferMade, Has, Waits, history
<1>2. oc \in PC /\ Talks(oc, gp, s, u, page[g], page[Owner], stopped, g)
  BY <1>1, TalkFacts
<1>3. desc \in Description /\ desc # None
  BY <1>2, DescFacts, NoneAssumption
<1>4. qc = Create(oc, desc) /\ c = oc.chain
  OBVIOUS
<1> HIDE DEF oc, desc, qc
<1>5. /\ qc \in PC /\ qc.sig = oc.sig /\ qc.local = oc.local /\ qc.remote = oc.remote
      /\ \E o \in Operation : /\ o.kind = "local" /\ o.desc = desc
                              /\ qc.chain = Append(Tail(c), o)
      /\ Tail(c) \in Seq(Operation)
  BY <1>1, <1>2, <1>3, <1>4, CreateFacts
<1>6. c \in Seq(Operation)
  BY <1>2 DEF PC
<1>7. qc # None
  BY <1>5, NoneAssumption
<1> DEFINE t == Tail(c)
           v == qc.chain
<1>8. Spoken(c) => Spoken(t)
  <2> HIDE DEF c
  <2> QED  BY <1>1, <1>6, ChainShrunk
<1>9. HasKind(v, "local") /\ (Spoken(t) => Spoken(v))
  <2>1. PICK o \in Operation : o.kind = "local" /\ o.desc = desc /\ v = Append(t, o)
    BY <1>5
  <2>2. t \in Seq(Operation)
    BY <1>5
  <2> HIDE DEF t, v
  <2>3. QED
    BY <1>3, <2>1, <2>2, ChainGrown
<1> HIDE DEF t, gp, s, u
<1>10. Tells(qc, gp, s)
  BY <1>1, <1>2, <1>5 DEF Talks, Tells
<1>11. Awaits(qc, gp, s, u, g) /\ Begun(qc)
  BY <1>1, <1>2, <1>5, <1>8, <1>9 DEF Talks, Awaits, Begun, ToOffer
<1>12. Reached(qc, gp, s, page[g], stopped, g) /\ Greeted(qc, u, page[g], page[Owner], stopped, g)
  BY <1>1, <1>2, <1>5, <1>7 DEF Talks, Reached, Greeted
<1>13. Talks(qc, gp, s, u, page[g], page[Owner], stopped, g)
  BY <1>2, <1>10, <1>11, <1>12 DEF Talks
<1>14. QED
  BY <1>1, <1>13, SpeaksSilent DEF gp, s, u, oc

LEMMA TalkApplied ==
  ASSUME IInv, Talk, NEW g \in Guests, AnswerApplied(g)
  PROVE  Talk'
<1> DEFINE oc == ownerPc[g]
           c == oc.chain
           desc == Head(c).desc
           qc == Dequeue(IF AnswerFits(oc, desc) THEN SetRemoteAnswer(oc, desc) ELSE oc)
           gp == guestPc[g]
           s == down[g]
           u == down[Owner]
<1>1. /\ oc # None /\ c # <<>> /\ Head(c).kind = "remote" /\ ownerPc' = [ownerPc EXCEPT ![g] = qc]
      /\ UNCHANGED <<page, stopped, guestPc, down>>
  BY TalkFacts DEF AnswerApplied, Has, Waits, history
<1>2. oc \in PC /\ Talks(oc, gp, s, u, page[g], page[Owner], stopped, g)
  BY <1>1, TalkFacts
<1>3. /\ c \in Seq(Operation) /\ c[1].kind = "remote" /\ c[1].desc = desc
      /\ desc \in Description \cup {None}
  <2>1. c \in Seq(Operation) /\ Head(c) = c[1] /\ c[1] \in Operation
    BY <1>1, <1>2, DequeueFacts
  <2>2. QED
    BY <1>1, <1>2, <2>1, DescFacts
<1>4. c = oc.chain
  OBVIOUS
<1>5. /\ qc \in PC /\ qc.local = oc.local /\ qc.chain = Tail(c)
      /\ AnswerFits(oc, desc) => qc.sig = "stable" /\ qc.remote = desc
      /\ ~AnswerFits(oc, desc) => qc.sig = oc.sig /\ qc.remote = oc.remote
  <2>1. CASE AnswerFits(oc, desc)
    <3>1. qc = Dequeue(SetRemoteAnswer(oc, desc))
      BY <2>1
    <3> HIDE DEF oc, qc, desc
    <3>2. QED
      BY <1>1, <1>2, <1>3, <1>4, <2>1, <3>1, DoneFacts
  <2>2. CASE ~AnswerFits(oc, desc)
    <3>1. qc = Dequeue(oc)
      BY <2>2
    <3> HIDE DEF oc, qc, desc
    <3>2. QED
      BY <1>1, <1>2, <1>4, <2>2, <3>1, DequeueFacts
  <2>3. QED
    BY <2>1, <2>2
<1> DEFINE t == Tail(c)
<1>6. /\ \A lines : RemoteIn(c, lines) => RemoteIn(t, lines) \/ desc.lines = lines
      /\ HasKind(c, "create") => HasKind(t, "create")
      /\ HasKind(c, "local") => HasKind(t, "local")
      /\ Spoken(c) => Spoken(t) /\ desc # None
  <2> HIDE DEF c, desc
  <2> QED  BY <1>1, <1>3, ChainShrunk
<1>7. qc # None /\ qc.chain = t
  BY <1>5, NoneAssumption
<1> HIDE DEF oc, c, desc, qc, t, gp, s, u
<1>8. Tells(qc, gp, s)
  BY <1>1, <1>2, <1>5 DEF Talks, Tells
<1>9. Awaits(qc, gp, s, u, g)
  BY <1>1, <1>2, <1>4, <1>5, <1>6, <1>7 DEF Talks, Awaits, ToOffer, AnswerFits
<1>10. Begun(qc)
  BY <1>1, <1>2, <1>4, <1>5, <1>6, <1>7 DEF Talks, Begun, ToOffer
<1>11. Reached(qc, gp, s, page[g], stopped, g) /\ Greeted(qc, u, page[g], page[Owner], stopped, g)
  BY <1>1, <1>2, <1>5, <1>7 DEF Talks, Reached, Greeted
<1>12. Talks(qc, gp, s, u, page[g], page[Owner], stopped, g)
  BY <1>2, <1>8, <1>9, <1>10, <1>11 DEF Talks
<1>13. QED
  BY <1>1, <1>12, SpeaksSilent DEF gp, s, u, oc

-----------------------------------------------------------------------------
(* An offer is set, or refused, and the loops go on *)

LEMMA OfferedTalk ==
  ASSUME NEW oc, NEW gp, NEW s, NEW u, NEW pg, NEW po, NEW away, NEW g,
         Talks(oc, gp, s, u, pg, po, away, g), oc # None,
         NEW c \in Seq(Operation), c # <<>>, c[1].kind = "local", oc.chain = c,
         NEW qc, qc # None, qc.local = c[1].desc, qc.sig = "local", qc.chain = Tail(c),
         NEW r, pg = "open" => HasOffer(r) /\ Told(r, c[1].desc),
         pg # "open" => ~HasOffer(r) /\ gp = None,
         pg # "new", ~StartIn(u, g)
  PROVE  Talks(qc, gp, r, u, pg, po, away, g)
<1> DEFINE t == Tail(c)
           desc == c[1].desc
<1>1. Spoken(c) => Spoken(t) /\ desc # None
  BY ChainShrunk
<1>2. Spoken(t) /\ desc # None
  BY <1>1 DEF Talks, Begun
<1>3. Told(r, desc)
  BY DEF Told, HasOffer, LastOffer
<1>4. qc.chain = t /\ qc.local = desc
  OBVIOUS
<1> HIDE DEF t, desc
<1>5. Tells(qc, gp, r) /\ Answers(gp)
  BY <1>3, <1>4 DEF Talks, Tells
<1>6. Awaits(qc, gp, r, u, g) /\ Begun(qc)
  BY <1>2, <1>4 DEF Awaits, Begun
<1>7. Reached(qc, gp, r, pg, away, g) /\ Fresh(gp, r, u, pg, g) /\ Greeted(qc, u, pg, po, away, g)
  BY DEF Reached, Fresh, Greeted
<1>8. QED
  BY <1>5, <1>6, <1>7 DEF Talks

LEMMA OutTalk ==
  ASSUME NEW g \in Guests, NEW desc \in Description, NEW d, d \in Mails, d = down,
         Mailed(d, page), NEW e, e = OfferOut(g, desc)
  PROVE  /\ e \in Mails /\ Mailed(e, page) /\ e[Owner] = d[Owner]
         /\ \A h \in Guests : h # g => Quiet(d[h], d[Owner], e[h], e[Owner], h)
         /\ Open(g) => HasOffer(e[g]) /\ Told(e[g], desc)
         /\ ~Open(g) => ~HasOffer(e[g])
<1> DEFINE a == Sdp("offer", Owner, desc)
           b == Candidate(Owner)
           ms == IF ownerPc[g].local = None THEN <<a, b>> ELSE <<a>>
<1>1. g \in Pages /\ Owner \in Pages /\ g # Owner /\ \A h \in Guests : h \in Pages
  BY PageFacts
<1>2. /\ a \in Message /\ a.type = "offer" /\ a.desc = desc
      /\ b \in Message /\ b.type = "candidate" /\ desc # None
  BY <1>1, MessageFacts, NoneAssumption DEF Sdp, Blank
<1>3. e = To(d, g, ms)
  BY DEF OfferOut
<1> HIDE DEF a, b
<1>4. /\ ms \in Seq(Message) /\ Len(ms) \in {1, 2} /\ ms[1] = a /\ (Len(ms) = 2 => ms[2] = b)
  <2>1. <<a, b>> \in Seq(Message) /\ Len(<<a, b>>) = 2 /\ <<a, b>>[1] = a /\ <<a, b>>[2] = b
    BY <1>2
  <2>2. <<a>> \in Seq(Message) /\ Len(<<a>>) = 1 /\ <<a>>[1] = a
    BY <1>2
  <2>3. QED
    BY <2>1, <2>2
<1> HIDE DEF ms
<1>5. \A i \in 1 .. Len(ms) : ms[i].type \in {"offer", "answer"} => ms[i].desc # None
  <2>1. \A i \in 1 .. Len(ms) : i = 1 \/ (i = 2 /\ Len(ms) = 2)
    <3> DEFINE k == Len(ms)
    <3>1. k = 1 \/ k = 2
      BY <1>4
    <3> HIDE DEF k
    <3>2. \A i \in 1 .. k : i = 1 \/ (i = 2 /\ k = 2)
      BY <3>1
    <3>3. QED
      BY <3>2 DEF k
  <2>2. QED
    BY <1>2, <1>4, <2>1
<1>6. e \in Mails /\ Mailed(e, page) /\ \A x \in Pages : x # g => e[x] = d[x]
  BY <1>1, <1>3, <1>4, <1>5, SentTalk
<1>7. \A h \in Guests : h # g => Quiet(d[h], d[Owner], e[h], e[Owner], h)
  BY <1>1, <1>6, QuietSame
<1>8. ASSUME Open(g) PROVE HasOffer(e[g]) /\ Told(e[g], desc)
  <2> DEFINE s == d[g]
             t == e[g]
             n == Len(s)
  <2>1. /\ Len(t) = n + Len(ms) /\ t[n + 1] = ms[1] /\ (Len(ms) = 2 => t[n + 2] = ms[2])
    <3>1. Len(t) = n + Len(ms) /\ \A i \in 1 .. Len(ms) : t[n + i] = ms[i]
      <4> DEFINE f == To(d, g, ms)
      <4>1. Len(f[g]) = Len(d[g]) + Len(ms) /\ \A i \in 1 .. Len(ms) : f[g][Len(d[g]) + i] = ms[i]
        BY <1>1, <1>4, <1>8, ToFacts
      <4>2. QED
        BY <1>3, <4>1
    <3>2. 1 \in 1 .. Len(ms) /\ (Len(ms) = 2 => 2 \in 1 .. Len(ms))
      BY <1>4
    <3>3. QED
      BY <3>1, <3>2
  <2>2. n \in Nat
    BY <1>1 DEF Mails
  <2>a. Len(ms) = 1 \/ Len(ms) = 2
    BY <1>4
  <2> HIDE DEF s, t, n
  <2>3. n + 1 \in 1 .. Len(t) /\ t[n + 1].type = "offer" /\ t[n + 1].desc = desc
    BY <1>2, <1>4, <2>1, <2>2, <2>a
  <2>4. ASSUME NEW i \in 1 .. Len(t), LastOffer(t, i) PROVE t[i].desc = desc
    <3>1. n + 1 <= i /\ t[i].type = "offer"
      BY <2>3, <2>4 DEF LastOffer
    <3>2. i = n + 1 \/ (i = n + 2 /\ Len(ms) = 2)
      <4> DEFINE k == Len(ms)
                 l == Len(t)
      <4>1. i \in 1 .. l /\ l = n + k /\ (k = 1 \/ k = 2) /\ n + 1 <= i
        BY <2>1, <2>a, <3>1
      <4> HIDE DEF k, l
      <4>2. i = n + 1 \/ (i = n + 2 /\ k = 2)
        BY <2>2, <4>1
      <4>3. QED
        BY <4>2 DEF k
    <3>3. QED
      BY <1>2, <1>4, <2>1, <2>3, <3>1, <3>2
  <2>5. HasOffer(t) /\ Told(t, desc)
    BY <2>3, <2>4 DEF HasOffer, Told
  <2>6. QED
    BY <2>5 DEF t
<1>9. ASSUME ~Open(g) PROVE ~HasOffer(e[g])
  <2>1. e[g] = <<>>
    BY <1>1, <1>6, <1>9 DEF Mailed, Open
  <2>2. QED
    BY <2>1, NothingSaid
<1>10. QED
  BY <1>1, <1>6, <1>7, <1>8, <1>9

\* An offer that is not of connectPeer is of a loop that runs.
LEMMA ItsLoop ==
  ASSUME IInv, NEW g \in Guests, Has(ownerPc[g], "local"), Head(ownerPc[g].chain).job # Connect
  PROVE  /\ Head(ownerPc[g].chain).job \in Loops
         /\ todo[Head(ownerPc[g].chain).job] # None
<1> DEFINE s == ownerPc[g].chain
<1>1. ownerPc[g] # None /\ s # <<>> /\ Head(s).kind = "local"
  BY DEF Has, Waits
<1>2. s \in Seq(Operation)
  BY <1>1 DEF IInv, Typed, PeerTypes, PC
<1>3. PICK x \in 1 .. Len(peers) : peers[x] = g
  BY <1>1 DEF IInv, Serving, Star
<1>4. Head(s) = s[1] /\ 1 \in 1 .. Len(s)
  BY <1>1, <1>2
<1>5. 1 \in OffersOf(At(ownerPc, peers, x)) /\ At(ownerPc, peers, x)[1] = Head(s)
  BY <1>1, <1>3, <1>4 DEF OffersOf, At
<1>6. QED
  BY <1>3, <1>5 DEF IInv, Serving, Orderly, InLine

\* The peer a loop takes up is one the owner is connected to.
LEMMA TakenUp ==
  ASSUME IInv, NEW g \in Guests, Has(ownerPc[g], "local"), NEW J, J = Head(ownerPc[g].chain).job,
         J # Connect, todo[J] # <<>>
  PROVE  J \in Loops /\ Head(todo[J]) \in Guests /\ ownerPc[Head(todo[J])] # None
<1> DEFINE s == ownerPc[g].chain
           ids == todo[J]
<1>1. ownerPc[g] # None /\ s # <<>> /\ Head(s).kind = "local"
  BY DEF Has, Waits
<1>2. s \in Seq(Operation)
  BY <1>1 DEF IInv, Typed, PeerTypes, PC
<1>3. PICK x \in 1 .. Len(peers) : peers[x] = g
  BY <1>1 DEF IInv, Serving, Star
<1>4. Head(s) = s[1] /\ 1 \in 1 .. Len(s)
  BY <1>1, <1>2
<1>5. 1 \in OffersOf(At(ownerPc, peers, x)) /\ At(ownerPc, peers, x)[1].job = J
  BY <1>1, <1>3, <1>4 DEF OffersOf, At
<1>6. J \in Loops /\ After(ids, peers, x)
  BY <1>3, <1>5 DEF IInv, Serving, Orderly, InLine
<1>7. /\ ids \in Seq(Guests) /\ ids # <<>> /\ x + Len(ids) <= Len(peers)
      /\ \A k \in 1 .. Len(ids) : ids[k] = peers[x + k]
  BY <1>6 DEF After
<1> HIDE DEF ids
<1>8. /\ Len(ids) \in Nat /\ Len(ids) > 0 /\ 1 \in 1 .. Len(ids) /\ Head(ids) = ids[1]
      /\ ids[1] \in Guests
  BY <1>7
<1>9. x + 1 \in 1 .. Len(peers) /\ ids[1] = peers[x + 1]
  <2>1. Len(peers) \in Nat
    BY DEF IInv, Typed, PeerTypes
  <2>2. QED
    BY <1>7, <1>8, <2>1
<1>10. ownerPc[ids[1]] # None
  BY <1>8, <1>9 DEF IInv, Serving, Star
<1>11. QED
  BY <1>6, <1>8, <1>10 DEF ids

LEMMA TalkOfferApplied ==
  ASSUME IInv, Talk, NEW g \in Guests, OfferApplied(g)
  PROVE  Talk'
<1> DEFINE oc == ownerPc[g]
           c == oc.chain
           desc == Head(c).desc
           J == Head(c).job
           qc == Dequeue(SetLocalOffer(oc, desc))
           pcs == [ownerPc EXCEPT ![g] = qc]
           out == OfferOut(g, desc)
           gp == guestPc[g]
           d == down
<1>1. /\ Has(oc, "local") /\ oc # None /\ c # <<>> /\ Head(c).kind = "local"
      /\ UNCHANGED <<page, stopped, guestPc>>
  BY DEF OfferApplied, Has, Waits, history
<1>2. /\ oc \in PC /\ Talks(oc, gp, d[g], d[Owner], page[g], page[Owner], stopped, g)
      /\ ownerPc \in [Guests -> {None} \cup PC] /\ d \in Mails /\ Mailed(d, page)
      /\ fakes \in SUBSET Tracks /\ Owner \in Pages /\ g \in Pages
  BY <1>1, TalkFacts, PageFacts
<1>3. /\ c \in Seq(Operation) /\ c[1].kind = "local" /\ c[1].desc = desc /\ 1 \in 1 .. Len(c)
      /\ desc \in Description \cup {None}
  <2>1. c \in Seq(Operation) /\ Head(c) = c[1] /\ c[1] \in Operation
    BY <1>1, <1>2, DequeueFacts
  <2>2. 1 \in 1 .. Len(c)
    BY <1>1, <2>1
  <2>3. QED
    BY <1>1, <1>2, <2>1, <2>2, DescFacts
<1>4. desc \in Description
  <2>1. Spoken(c)
    BY <1>1, <1>2 DEF Talks, Begun
  <2> HIDE DEF c, desc
  <2>2. QED
    BY <1>3, <2>1 DEF Spoken
<1>5. c = oc.chain
  OBVIOUS
<1>6. /\ qc \in PC /\ qc # None /\ qc.sig = "local" /\ qc.local = desc /\ qc.chain = Tail(c)
  <2> DEFINE x == qc
  <2>1. x = Dequeue(SetLocalOffer(oc, desc))
    OBVIOUS
  <2> HIDE DEF oc, desc, x
  <2>2. /\ x \in PC /\ x.sig = "local" /\ x.local = desc /\ x.chain = Tail(c)
    BY <1>1, <1>2, <1>3, <1>5, <2>1, DoneFacts
  <2>3. QED
    BY <2>2, NoneAssumption DEF x
<1>7. /\ pcs \in [Guests -> {None} \cup PC] /\ pcs[g] = qc
      /\ \A h \in Guests : h # g => pcs[h] = ownerPc[h]
  <2> HIDE DEF qc
  <2> QED  BY <1>2, <1>6
<1>8. /\ out \in Mails /\ Mailed(out, page) /\ out[Owner] = d[Owner]
      /\ \A h \in Guests : h # g => Quiet(d[h], d[Owner], out[h], out[Owner], h)
      /\ Open(g) => HasOffer(out[g]) /\ Told(out[g], desc)
      /\ ~Open(g) => ~HasOffer(out[g])
  <2> DEFINE e == out
  <2>1. d = down /\ e = OfferOut(g, desc)
    OBVIOUS
  <2> HIDE DEF d, desc, e
  <2>2. /\ e \in Mails /\ Mailed(e, page) /\ e[Owner] = d[Owner]
        /\ \A h \in Guests : h # g => Quiet(d[h], d[Owner], e[h], e[Owner], h)
        /\ Open(g) => HasOffer(e[g]) /\ Told(e[g], desc)
        /\ ~Open(g) => ~HasOffer(e[g])
    BY <1>2, <1>4, <2>1, OutTalk
  <2>3. QED
    BY <2>2 DEF e
<1>9. Open(Owner) /\ (~Open(g) => gp = None)
  BY <1>1 DEF Talk, Held, Open
<1>10. page[g] # "new" /\ ~StartIn(d[Owner], g)
  <2>1. Starts(down, page, ownerPc) /\ ownerPc[g] # None
    BY <1>1 DEF IInv, Letters
  <2>2. QED
    BY <2>1 DEF Starts, StartIn
<1>11. \A job : job = J /\ job # Connect => job \in Loops
  BY <1>1, ItsLoop
<1>12. Speaks(ownerPc, d)
  BY SpeaksNow
<1>13. \/ J = Connect /\ ownerPc' = pcs /\ down' = out
       \/ /\ J # Connect /\ todo[J] # <<>> /\ NextPeer(J, todo[J], pcs) /\ down' = out
       \/ /\ J # Connect /\ ownerPc' = pcs
          /\ \/ down' = out
             \/ fakes' = fakes \ {J.track} /\ down' = ToRoom(out, Update(fakes'))
  BY <1>1, <1>2 DEF OfferApplied, EndLoop
<1>14. J # Connect /\ todo[J] # <<>> =>
         J \in Loops /\ Head(todo[J]) \in Guests /\ ownerPc[Head(todo[J])] # None
  BY <1>1, TakenUp
<1> HIDE DEF oc, c, desc, J, qc, pcs, out, gp, d
<1>15. Talks(qc, gp, out[g], d[Owner], page[g], page[Owner], stopped, g)
  <2> DEFINE r == out[g]
             u == d[Owner]
             pg == page[g]
             po == page[Owner]
             s == d[g]
  <2>1. /\ Talks(oc, gp, s, u, pg, po, stopped, g)
        /\ pg = "open" => HasOffer(r) /\ Told(r, desc)
        /\ pg # "open" => ~HasOffer(r) /\ gp = None
        /\ pg # "new" /\ ~StartIn(u, g)
    BY <1>2, <1>8, <1>9, <1>10 DEF Open
  <2> HIDE DEF r, u, pg, po, s
  <2>2. Talks(qc, gp, r, u, pg, po, stopped, g)
    BY <1>1, <1>3, <1>5, <1>6, <2>1, OfferedTalk
  <2>3. QED
    BY <2>2 DEF r, u, pg, po
<1>16. Speaks(pcs, out)
  <2> DEFINE opc == ownerPc
  <2>1. /\ Speaks(opc, d) /\ \A h \in Guests : h # g => pcs[h] = opc[h]
        /\ Open(Owner) /\ Mailed(out, page)
    BY <1>7, <1>8, <1>9, <1>12
  <2>2. Talks(pcs[g], guestPc[g], out[g], out[Owner], page[g], page[Owner], stopped, g)
    BY <1>7, <1>8, <1>15 DEF gp
  <2> HIDE DEF opc
  <2>3. QED
    BY <1>8, <2>1, <2>2, SpeaksOne
<1>17. CASE ownerPc' = pcs /\ down' = out
  BY <1>1, <1>16, <1>17, SpeaksMade
<1>18. CASE J # Connect /\ todo[J] # <<>> /\ NextPeer(J, todo[J], pcs) /\ down' = out
  <2> DEFINE h == Head(todo[J])
             qpc == ownerPc'
  <2>1. qpc = [pcs EXCEPT ![h] =
          Queue(IF J.kind = "drop" THEN removeTrack(@, J.track) ELSE @, "create", None, J)]
    BY <1>18 DEF NextPeer
  <2>2. J \in Loops /\ h \in Guests /\ pcs[h] # None
    BY <1>6, <1>7, <1>14, <1>18
  <2> HIDE DEF h, qpc
  <2>3. Speaks(qpc, out)
    BY <1>7, <1>16, <2>1, <2>2, SpeaksNext
  <2>4. QED
    BY <1>1, <1>18, <2>3, SpeaksMade DEF qpc
<1>19. CASE /\ ownerPc' = pcs /\ fakes' = fakes \ {J.track} /\ down' = ToRoom(out, Update(fakes'))
  <2> DEFINE fs == fakes'
             e == down'
  <2>1. fs \in SUBSET Tracks /\ e = ToRoom(out, Update(fs))
    BY <1>2, <1>19
  <2> HIDE DEF fs, e
  <2>2. Speaks(pcs, e)
    BY <1>8, <1>16, <2>1, SpeaksRoom
  <2>3. QED
    BY <1>1, <1>19, <2>2, SpeaksMade DEF e
<1>20. QED
  BY <1>13, <1>17, <1>18, <1>19

LEMMA TalkRefused ==
  ASSUME IInv, Talk, NEW g \in Guests, OfferRefused(g)
  PROVE  Talk'
<1> DEFINE oc == ownerPc[g]
           c == oc.chain
           qc == Dequeue(oc)
           gp == guestPc[g]
           s == down[g]
           u == down[Owner]
<1>1. oc # None /\ c # <<>> /\ Head(c).kind = "local" /\ MayBeRefused(oc)
  BY DEF OfferRefused, Has, Waits
<1>2. CASE Gone(Owner)
  BY <1>2, TalkGone, PageFacts
<1>3. ASSUME ownerPc' = [ownerPc EXCEPT ![g] = qc], UNCHANGED <<page, stopped, guestPc, down>>
      PROVE  Talk'
  <2>1. oc \in PC /\ Talks(oc, gp, s, u, page[g], page[Owner], stopped, g)
    BY <1>1, TalkFacts
  <2>2. /\ qc \in PC /\ qc.sig = oc.sig /\ qc.local = oc.local /\ qc.remote = oc.remote
        /\ qc.chain = Tail(c) /\ c \in Seq(Operation) /\ Head(c) = c[1]
    <3> HIDE DEF oc
    <3> QED  BY <1>1, <2>1, DequeueFacts
  <2>3. \E i \in 2 .. Len(c) : c[i].kind = "local"
    BY <1>1 DEF MayBeRefused
  <2>4. c = oc.chain /\ qc # None
    BY <2>2, NoneAssumption
  <2> DEFINE t == Tail(c)
  <2>5. /\ HasKind(t, "local") /\ (Spoken(c) => Spoken(t))
        /\ \A lines : RemoteIn(c, lines) => RemoteIn(t, lines)
    <3> HIDE DEF c
    <3> QED  BY <1>1, <2>2, <2>3, ChainShrunk
  <2>6. qc.chain = t
    BY <2>2
  <2> HIDE DEF oc, c, qc, gp, s, u, t
  <2>7. Tells(qc, gp, s)
    BY <1>1, <2>1, <2>2 DEF Talks, Tells
  <2>8. Awaits(qc, gp, s, u, g) /\ Begun(qc)
    BY <1>1, <2>1, <2>2, <2>4, <2>5, <2>6 DEF Talks, Awaits, Begun, ToOffer
  <2>9. Reached(qc, gp, s, page[g], stopped, g) /\ Greeted(qc, u, page[g], page[Owner], stopped, g)
    BY <1>1, <2>1, <2>2, <2>4 DEF Talks, Reached, Greeted
  <2>10. Talks(qc, gp, s, u, page[g], page[Owner], stopped, g)
    BY <2>1, <2>7, <2>8, <2>9 DEF Talks
  <2>11. QED
    BY <1>1, <1>3, <2>10, SpeaksSilent DEF gp, s, u, oc
<1>4. QED
  BY <1>2, <1>3, TalkFacts DEF OfferRefused, history

LEMMA TalkLoad ==
  ASSUME IInv, Talk, NEW t \in Tracks, onMp3FileLoad(t)
  PROVE  Talk'
<1> DEFINE opc == ownerPc
           pcs == [g \in Guests |-> IF opc[g] = None THEN None ELSE addTrack(opc[g], t)]
           d == down
           e == down'
           fs == fakes'
           qpc == ownerPc'
           J == Load(t)
           h == Head(peers)
<1>1. /\ fs = fakes \cup {t} /\ e = ToRoom(d, Update(fs)) /\ UNCHANGED <<page, stopped, guestPc>>
      /\ \/ peers # <<>> /\ NextPeer(J, peers, pcs)
         \/ qpc = opc
  BY DEF onMp3FileLoad, NextPeer, owner, history
<1>2. /\ d \in Mails /\ fs \in SUBSET Tracks /\ J \in Loops /\ peers \in Seq(Guests)
      /\ opc \in [Guests -> {None} \cup PC] /\ Speaks(opc, d)
  BY <1>1, TalkFacts, JobFacts, SpeaksNow
<1>3. peers # <<>> => h \in Guests /\ opc[h] # None
  <2>1. peers # <<>> => 1 \in 1 .. Len(peers) /\ h = peers[1] /\ h \in Guests
    BY <1>2
  <2>2. QED
    BY <2>1 DEF IInv, Serving, Star
<1>4. ASSUME NEW g \in Guests, opc[g] # None
      PROVE  /\ pcs[g] = addTrack(opc[g], t) /\ pcs[g] \in PC /\ pcs[g] # None
             /\ pcs[g].sig = opc[g].sig /\ pcs[g].local = opc[g].local
             /\ pcs[g].remote = opc[g].remote /\ pcs[g].chain = opc[g].chain
  <2> DEFINE oc == opc[g]
             qc == addTrack(oc, t)
  <2>1. oc \in PC /\ pcs[g] = qc
    BY <1>2, <1>4
  <2> HIDE DEF oc
  <2>2. qc \in PC /\ qc.sig = oc.sig /\ qc.local = oc.local /\ qc.chain = oc.chain
    BY <2>1, TrackFacts
  <2>3. qc.remote = oc.remote
    BY <2>1 DEF addTrack, PC
  <2>4. QED
    BY <2>1, <2>2, <2>3, NoneAssumption DEF oc
<1>5. \A g \in Guests : opc[g] = None => pcs[g] = None
  OBVIOUS
<1>6. pcs \in [Guests -> {None} \cup PC]
  BY <1>4, <1>5
<1> HIDE DEF opc, pcs, d, e, fs, qpc, J, h
<1>7. Speaks(pcs, d)
  <2>1. ASSUME NEW g \in Guests
        PROVE  Talks(pcs[g], guestPc[g], d[g], d[Owner], page[g], page[Owner], stopped, g)
    <3>1. Talks(opc[g], guestPc[g], d[g], d[Owner], page[g], page[Owner], stopped, g)
      BY <1>2 DEF Speaks
    <3>2. CASE opc[g] = None
      BY <1>5, <3>1, <3>2
    <3>3. CASE opc[g] # None
      BY <1>4, <3>1, <3>3, AlikeTalk
    <3>4. QED
      BY <3>2, <3>3
  <2>2. \A g \in Guests : pcs[g] # None => Open(Owner)
    BY <1>2, <1>5 DEF Speaks
  <2>3. QED
    BY <1>2, <2>1, <2>2 DEF Speaks
<1>8. Speaks(pcs, e) /\ Speaks(opc, e)
  BY <1>1, <1>2, <1>7, SpeaksRoom
<1>9. CASE peers # <<>> /\ NextPeer(J, peers, pcs)
  <2>1. qpc = [pcs EXCEPT ![h] =
          Queue(IF J.kind = "drop" THEN removeTrack(@, J.track) ELSE @, "create", None, J)]
    BY <1>9 DEF NextPeer, qpc, h
  <2>2. h \in Guests /\ pcs[h] # None
    BY <1>3, <1>4, <1>9
  <2>3. Speaks(qpc, e)
    BY <1>2, <1>6, <1>8, <2>1, <2>2, SpeaksNext
  <2>4. QED
    BY <1>1, <2>3, SpeaksMade DEF qpc, e
<1>10. CASE qpc = opc
  BY <1>1, <1>8, <1>10, SpeaksMade DEF qpc, e
<1>11. QED
  BY <1>1, <1>9, <1>10

LEMMA TalkDrop ==
  ASSUME IInv, Talk, NEW t \in Tracks, dropClient(t)
  PROVE  Talk'
<1> DEFINE opc == ownerPc
           d == down
           qpc == ownerPc'
           J == Drop(t)
           h == Head(peers)
<1>1. /\ UNCHANGED <<page, stopped, guestPc>>
      /\ \/ peers # <<>> /\ NextPeer(J, peers, opc) /\ down' = down
         \/ ownerPc' = ownerPc /\ fakes' = fakes \ {t} /\ down' = ToRoom(down, Update(fakes'))
  BY DEF dropClient, NextPeer, owner
<1>2. /\ J \in Loops /\ peers \in Seq(Guests) /\ fakes \in SUBSET Tracks
      /\ opc \in [Guests -> {None} \cup PC] /\ Speaks(opc, d)
  BY TalkFacts, JobFacts, SpeaksNow
<1>3. peers # <<>> => h \in Guests /\ opc[h] # None
  <2>1. peers # <<>> => 1 \in 1 .. Len(peers) /\ h = peers[1] /\ h \in Guests
    BY <1>2
  <2>2. QED
    BY <2>1 DEF IInv, Serving, Star
<1> HIDE DEF opc, d, qpc, J, h
<1>4. CASE peers # <<>> /\ NextPeer(J, peers, opc) /\ down' = down
  <2>1. qpc = [opc EXCEPT ![h] =
          Queue(IF J.kind = "drop" THEN removeTrack(@, J.track) ELSE @, "create", None, J)]
    BY <1>4 DEF NextPeer, qpc, h
  <2>2. Speaks(qpc, d)
    BY <1>2, <1>3, <1>4, <2>1, SpeaksNext
  <2>3. Speaks(ownerPc', down')
    BY <1>4, <2>2 DEF qpc, d
  <2>4. QED
    BY <1>1, <2>3, SpeaksMade
<1>5. CASE ownerPc' = ownerPc /\ fakes' = fakes \ {t} /\ down' = ToRoom(down, Update(fakes'))
  <2>1. \E fs \in SUBSET Tracks : down' = ToRoom(down, Update(fs))
    BY <1>2, <1>5
  <2>2. QED
    BY <1>1, <1>5, <2>1, TalkQuiet
<1>6. QED
  BY <1>1, <1>4, <1>5

-----------------------------------------------------------------------------
(* At the start *)

LEMMA SettledTalk ==
  ASSUME NEW sent \in SUBSET Tracks
  PROVE  LET pc == SettledPC(sent)
             desc == [tracks |-> Loaded, lines |-> Loaded]
         IN pc \in PC /\ pc # None /\ pc.sig = "stable" /\ pc.chain = <<>>
            /\ pc.local = desc /\ pc.remote = desc /\ desc # None
<1> DEFINE desc == [tracks |-> Loaded, lines |-> Loaded]
           nc == NewPC(sent)
<1>1. desc \in Description
  BY BoundsAssumption DEF Description
<1>2. nc \in PC
  BY NewPCFacts
<1>3. SettledPC(sent) = [nc EXCEPT !.local = desc, !.remote = desc]
  BY DEF SettledPC
<1> HIDE DEF nc, desc
<1>4. SettledPC(sent).local = desc /\ SettledPC(sent).remote = desc
  BY <1>2, <1>3 DEF PC
<1>5. QED
  BY <1>1, <1>4, SettledFacts, NoneAssumption DEF desc

LEMMA NothingWaits ==
  /\ \A kind : ~HasKind(<<>>, kind)
  /\ \A desc : Chained(<<>>, desc)
  /\ \A lines : ~Ready(<<>>, lines) /\ ~RemoteIn(<<>>, lines)
  /\ Spoken(<<>>)
<1>1. Len(<<>>) = 0 /\ \A i \in 1 .. 0 : FALSE
  OBVIOUS
<1>2. QED
  BY <1>1 DEF HasKind, Chained, Ready, RemoteIn, Spoken

LEMMA TalkFirst == Init => Talk
<1> SUFFICES ASSUME Init PROVE Talk
  OBVIOUS
<1>1. PICK settled \in SUBSET Settlers :
        /\ page = [p \in Pages |-> IF p \in {Owner} \cup settled THEN "open" ELSE "new"]
        /\ down = [p \in Pages |-> <<>>]
        /\ ownerPc = [g \in Guests |-> IF g \in settled THEN SettledPC(Loaded) ELSE None]
        /\ guestPc = [g \in Guests |-> IF g \in settled THEN SettledPC({}) ELSE None]
        /\ stopped = {}
  BY DEF Init
<1>2. settled \in SUBSET Guests /\ Loaded \in SUBSET Tracks
  BY <1>1, BoundsAssumption
<1>3. /\ page[Owner] = "open" /\ \A p \in Pages : down[p] = <<>>
      /\ \A g \in Guests : page[g] = IF g \in settled THEN "open" ELSE "new"
  BY <1>1, <1>2, PageFacts
<1>4. Mailed(down, page)
  BY <1>3, NothingSaid DEF Mailed
<1>5. \A g \in Guests : guestPc[g] # None => g \in settled
  BY <1>1
<1>6. Held
  BY <1>3, <1>4, <1>5 DEF Held
<1>7. ASSUME NEW g \in Guests PROVE TalksTo(g)
  <2>1. down[g] = <<>> /\ down[Owner] = <<>>
    BY <1>3, PageFacts
  <2> DEFINE oc == ownerPc[g]
             gp == guestPc[g]
  <2>2. CASE g \in settled
    <3>1. oc = SettledPC(Loaded) /\ gp = SettledPC({})
      BY <1>1, <2>2
    <3>2. /\ oc # None /\ oc.sig = "stable" /\ oc.chain = <<>> /\ oc.local # None
          /\ gp # None /\ gp.sig = "stable" /\ gp.chain = <<>>
          /\ oc.remote # None /\ gp.remote = oc.local
      BY <1>2, <3>1, SettledTalk
    <3>3. page[g] = "open"
      BY <1>3, <2>2
    <3> HIDE DEF oc, gp
    <3>4. Tells(oc, gp, <<>>) /\ Answers(gp) /\ Awaits(oc, gp, <<>>, <<>>, g) /\ Begun(oc)
      BY <3>2, NothingSaid, NothingWaits DEF Tells, Answers, Awaits, Begun
    <3>5. /\ Reached(oc, gp, <<>>, page[g], stopped, g)
          /\ Fresh(gp, <<>>, <<>>, page[g], g)
          /\ Greeted(oc, <<>>, page[g], page[Owner], stopped, g)
      BY <3>2, <3>3, NothingSaid DEF Reached, Fresh, Greeted
    <3>6. QED
      BY <2>1, <3>4, <3>5 DEF TalksTo, Talks, oc, gp
  <2>3. CASE g \notin settled
    <3>1. oc = None /\ gp = None /\ page[g] = "new"
      BY <1>1, <1>3, <2>3
    <3>2. QED
      BY <2>1, <3>1, NothingSaid
      DEF TalksTo, Talks, Tells, Answers, Awaits, Begun, Reached, Fresh, Greeted
  <2>4. QED
    BY <2>2, <2>3
<1>8. QED
  BY <1>6, <1>7 DEF Talk

-----------------------------------------------------------------------------
(* The steps *)

LEMMA TalkSteps == IInv /\ Notes /\ Talk /\ [Next]_vars => Talk'
<1> SUFFICES ASSUME IInv, Notes, Talk, [Next]_vars PROVE Talk'
  OBVIOUS
<1>1. CASE UNCHANGED vars
  BY <1>1, TalkQuiet DEF vars, server, owner, history
<1>2. CASE Person
  <2>1. ASSUME NEW g \in Guests, Join(g) PROVE Talk'
    BY <2>1, TalkJoin
  <2>2. ASSUME NEW t \in Tracks, ChooseFile(t) PROVE Talk'
    BY <2>2, TalkQuiet DEF ChooseFile, owner
  <2>3. ASSUME NEW t \in Tracks, dropClient(t) PROVE Talk'
    BY <2>3, TalkDrop
  <2>4. ASSUME NEW p \in Pages, Hangup(p) PROVE Talk'
    BY <2>4, TalkGone DEF Hangup
  <2>5. ASSUME NEW p \in Pages, stopConference(p) PROVE Talk'
    BY <2>5, TalkStop
  <2>6. QED
    BY <1>2, <2>1, <2>2, <2>3, <2>4, <2>5 DEF Person
<1>3. CASE Server
  <2>1. UNCHANGED <<page, stopped, ownerPc, guestPc>>
    BY <1>3, ServerSends
  <2>2. CASE down' # down
    <3>1. PICK w \in unsent : down' = To(down, w.to, <<Update(w.fakes)>>)
      BY <1>3, <2>2, ServerSends
    <3>2. w.to \in Pages /\ w.fakes \in SUBSET Tracks
      BY DEF Notes, Write
    <3>3. QED
      BY <2>1, <3>1, <3>2, TalkQuiet
  <2>3. QED
    BY <2>1, <2>2, TalkQuiet
<1>4. CASE OwnerRuns
  <2>1. CASE onStartPeerConnection
    BY <2>1, TalkStart
  <2>2. CASE onAnswer
    BY <2>2, TalkAnswer
  <2>3. ASSUME NEW t \in Tracks, onMp3FileLoad(t) PROVE Talk'
    BY <2>3, TalkLoad
  <2>4. ASSUME NEW g \in Guests, OfferMade(g) PROVE Talk'
    BY <2>4, TalkOfferMade
  <2>5. ASSUME NEW g \in Guests, OfferApplied(g) PROVE Talk'
    BY <2>5, TalkOfferApplied
  <2>6. ASSUME NEW g \in Guests, OfferRefused(g) PROVE Talk'
    BY <2>6, TalkRefused
  <2>7. ASSUME NEW g \in Guests, AnswerApplied(g) PROVE Talk'
    BY <2>7, TalkApplied
  <2>8. QED
    BY <1>4, <2>1, <2>2, <2>3, <2>4, <2>5, <2>6, <2>7 DEF OwnerRuns
<1>5. ASSUME NEW g \in Guests, GuestRuns(g) PROVE Talk'
  BY <1>5, TalkOffer, TalkTaken, TalkAnswerMade, TalkAnswerSent DEF GuestRuns
<1>6. ASSUME NEW p \in Pages, onUpdateRoom(p) PROVE Talk'
  BY <1>6, TalkQuiet DEF onUpdateRoom, owner, history
<1>7. ASSUME NEW p \in Pages, onCandidate(p) PROVE Talk'
  BY <1>7, TalkQuiet DEF onCandidate, owner, history
<1>8. QED
  BY <1>1, <1>2, <1>3, <1>4, <1>5, <1>6, <1>7 DEF Next

LEMMA TalkStays == Spec => []Talk
BY TalkFirst, Invariance, TalkSteps, PTL DEF Spec

-----------------------------------------------------------------------------
(* What it comes to *)

\* Ends whose chains are empty, with nothing between them.
LEMMA Rested ==
  ASSUME NEW oc \in PC, NEW gp \in PC, oc # None, gp # None,
         oc.sig # "remote", gp.sig # "local", oc.chain = <<>>, gp.chain = <<>>,
         NEW s, ~HasOffer(s), NEW u, NEW g, \A lines : ~AnswerIn(u, g, lines),
         Tells(oc, gp, s), Answers(gp), Awaits(oc, gp, s, u, g)
  PROVE  oc.sig = "stable" /\ gp.sig = "stable" /\ gp.remote = oc.local
<1>1. gp.sig # "remote"
  BY NothingWaits DEF Answers
<1>2. oc.sig # "local"
  BY <1>1, NothingWaits DEF Awaits, ToOffer
<1>3. gp.remote = oc.local
  BY NothingWaits DEF Tells
<1>4. QED
  BY <1>1, <1>2, <1>3 DEF PC

\* However the offers of joins, loads and drops overlap on one connection, and
\* whichever of them the browsers refuse: once it comes to rest both ends are
\* stable and the guest holds the offer the owner set last.
THEOREM BothEndsAgree == Spec => []EndsAgree
<1>1. IInv /\ Talk => EndsAgree
  <2> SUFFICES ASSUME IInv, Talk, NEW g \in Guests, Settled(g)
               PROVE  /\ ownerPc[g].sig = "stable" /\ guestPc[g].sig = "stable"
                      /\ guestPc[g].remote = ownerPc[g].local
    BY DEF EndsAgree
  <2> DEFINE oc == ownerPc[g]
             gp == guestPc[g]
             s  == down[g]
             u  == down[Owner]
  <2>1. /\ oc \in PC /\ gp \in PC /\ oc # None /\ gp # None
        /\ oc.sig # "remote" /\ gp.sig # "local" /\ oc.chain = <<>> /\ gp.chain = <<>>
    BY TalkFacts DEF Settled
  <2>2. ~HasOffer(s) /\ \A lines : ~AnswerIn(u, g, lines)
    BY DEF Settled, HasOffer, AnswerIn
  <2>3. Tells(oc, gp, s) /\ Answers(gp) /\ Awaits(oc, gp, s, u, g)
    BY TalkFacts DEF Talks
  <2> HIDE DEF oc, gp, s, u
  <2>4. oc.sig = "stable" /\ gp.sig = "stable" /\ gp.remote = oc.local
    BY <2>1, <2>2, <2>3, Rested
  <2>5. QED
    BY <2>4 DEF oc, gp
<1>2. QED
  BY <1>1, Invariance, TalkStays, PTL

\* No start, offer or answer is lost or refused for good, whatever it crossed:
\* when nothing is under way any more a guest that joined is connected to the
\* owner, and the owner to it, unless one of the two has gone or has stopped.
THEOREM JoinsConnect == Spec => []JoinConnects
<1>1. IInv /\ Talk => JoinConnects
  <2> SUFFICES ASSUME IInv, Talk, AtRest, NEW g \in Guests, page[g] # "new",
                      \A p \in {g, Owner} : page[p] # "gone" /\ p \notin stopped
               PROVE  Connected(ownerPc[g]) /\ Connected(guestPc[g])
    BY DEF JoinConnects
  <2> DEFINE oc == ownerPc[g]
             gp == guestPc[g]
             s  == down[g]
             u  == down[Owner]
             pg == page[g]
             po == page[Owner]
  <2>1. pg = "open" /\ po = "open" /\ g \notin stopped /\ Owner \notin stopped
    BY TalkFacts, PageFacts DEF Talk, Held
  <2>2. s = <<>> /\ u = <<>>
    BY PageFacts DEF AtRest
  <2>3. /\ oc # None => oc \in PC /\ oc.sig # "remote" /\ oc.chain = <<>>
        /\ gp # None => gp \in PC /\ gp.sig # "local" /\ gp.chain = <<>>
    BY TalkFacts DEF AtRest
  <2>4. Talks(oc, gp, s, u, pg, po, stopped, g)
    BY TalkFacts
  <2>5. ~HasOffer(s) /\ ~StartIn(u, g) /\ \A lines : ~AnswerIn(u, g, lines)
    <3>1. Len(<<>>) = 0 /\ \A i \in 1 .. 0 : FALSE
      OBVIOUS
    <3>2. QED
      BY <2>2, <3>1 DEF HasOffer, StartIn, AnswerIn
  <2> HIDE DEF oc, gp, s, u, pg, po
  <2>6. oc # None
    BY <2>1, <2>4, <2>5 DEF Talks, Greeted
  <2>7. oc.local # None
    BY <2>3, <2>4, <2>6, NothingWaits DEF Talks, Begun, ToOffer
  <2>8. gp # None
    BY <2>1, <2>4, <2>5, <2>6, <2>7 DEF Talks, Reached
  <2>9. oc.sig = "stable" /\ gp.sig = "stable" /\ gp.remote = oc.local
    BY <2>3, <2>4, <2>5, <2>6, <2>8, Rested DEF Talks
  <2>10. oc.remote # None
    BY <2>4, <2>6, <2>7, <2>9 DEF Talks, Begun
  <2>11. QED
    BY <2>6, <2>7, <2>8, <2>9, <2>10 DEF Connected, oc, gp
<1>2. QED
  BY <1>1, Invariance, TalkStays, PTL
=============================================================================
