--------------------------- MODULE ConferenceShape ---------------------------
(***************************************************************************)
(* The types of the variables of Conference, for every value of the        *)
(* constants, and what the loops over the peers keep in order on the way.  *)
(***************************************************************************)
EXTENDS Conference, FiniteSetTheorems, TLAPS

-----------------------------------------------------------------------------
(* Sequences *)

LEMMA AppendFacts ==
  ASSUME NEW S, NEW s \in Seq(S), NEW x \in S
  PROVE  /\ Append(s, x) \in Seq(S) /\ Append(s, x) # <<>>
         /\ Len(s) \in Nat /\ Len(Append(s, x)) = Len(s) + 1
         /\ \A i \in 1 .. Len(s) : Append(s, x)[i] = s[i] /\ s[i] \in S
         /\ Append(s, x)[Len(s) + 1] = x
OBVIOUS

LEMMA TailFacts ==
  ASSUME NEW S, NEW s \in Seq(S), s # <<>>
  PROVE  /\ Tail(s) \in Seq(S) /\ Head(s) = s[1] /\ s[1] \in S
         /\ Len(s) \in Nat /\ Len(s) > 0 /\ Len(Tail(s)) = Len(s) - 1
         /\ \A i \in 1 .. Len(s) - 1 : Tail(s)[i] = s[i + 1]
OBVIOUS

LEMMA ExceptFacts ==
  ASSUME NEW S, NEW s \in Seq(S), NEW k \in 1 .. Len(s), NEW x \in S
  PROVE  LET r == [s EXCEPT ![k] = x] IN
         /\ r \in Seq(S) /\ Len(r) = Len(s)
         /\ \A i \in 1 .. Len(s) : r[i] = IF i = k THEN x ELSE s[i]
OBVIOUS

-----------------------------------------------------------------------------
(* Peer connections *)

LEMMA JobFacts ==
  /\ Loops \subseteq Job /\ Connect \in Job /\ Reply \in Job
  /\ Connect \notin Loops /\ Reply \notin Loops /\ Reply # Connect
  /\ \A t \in Tracks : Load(t) \in Loops /\ Drop(t) \in Loops
  /\ \A job \in Loops : job.track \in Tracks
  /\ \A t, u \in Tracks : Load(t) # Drop(u) /\ (Load(t) = Load(u) => t = u)
BY PagesAssumption DEF Loops, Job, Connect, Reply, Load, Drop

\* What the operations change in a record, field by field.
LEMMA NewPCFacts ==
  ASSUME NEW ts \in SUBSET Tracks
  PROVE  /\ NewPC(ts) \in PC /\ NewPC(ts).sig = "stable" /\ NewPC(ts).chain = <<>>
         /\ NewPC(ts).local = None /\ NewPC(ts).sending = ts
BY DEF NewPC, PC

LEMMA TrackFacts ==
  ASSUME NEW pc \in PC, NEW t \in Tracks
  PROVE  /\ addTrack(pc, t) \in PC /\ removeTrack(pc, t) \in PC
         /\ addTrack(pc, t).chain = pc.chain /\ removeTrack(pc, t).chain = pc.chain
         /\ addTrack(pc, t).sig = pc.sig /\ removeTrack(pc, t).sig = pc.sig
         /\ addTrack(pc, t).local = pc.local /\ removeTrack(pc, t).local = pc.local
BY DEF addTrack, removeTrack, PC

LEMMA QueueFacts ==
  ASSUME NEW pc \in PC, NEW kind \in {"create", "local", "remote"},
         NEW desc \in Description \cup {None}, NEW job \in Job
  PROVE  LET q == Queue(pc, kind, desc, job) IN
         /\ q \in PC /\ q.sig = pc.sig /\ q.sending = pc.sending /\ q.local = pc.local
         /\ q.remote = pc.remote
         /\ q.chain = Append(pc.chain, [kind |-> kind, desc |-> desc, job |-> job])
         /\ q.chain \in Seq(Operation) /\ pc.chain \in Seq(Operation)
         /\ [kind |-> kind, desc |-> desc, job |-> job] \in Operation
<1>1. [kind |-> kind, desc |-> desc, job |-> job] \in Operation
  BY DEF Operation
<1>2. Append(pc.chain, [kind |-> kind, desc |-> desc, job |-> job]) \in Seq(Operation)
  BY <1>1 DEF PC
<1>3. QED
  BY <1>1, <1>2 DEF Queue, PC

LEMMA QueueTypes ==
  ASSUME NEW pc \in PC, NEW kind \in {"create", "local", "remote"},
         NEW desc \in Description \cup {None}, NEW job \in Job
  PROVE  Queue(pc, kind, desc, job) \in PC /\ Queue(pc, kind, desc, job).sig = pc.sig
BY QueueFacts

LEMMA DequeueFacts ==
  ASSUME NEW pc \in PC, pc.chain # <<>>
  PROVE  LET q == Dequeue(pc) IN
         /\ q \in PC /\ q.sig = pc.sig /\ q.sending = pc.sending /\ q.local = pc.local
         /\ q.remote = pc.remote
         /\ q.chain = Tail(pc.chain) /\ pc.chain \in Seq(Operation)
         /\ Head(pc.chain) = pc.chain[1] /\ pc.chain[1] \in Operation
<1>1. Tail(pc.chain) \in Seq(Operation) /\ pc.chain \in Seq(Operation)
  BY TailFacts DEF PC
<1>2. Head(pc.chain) = pc.chain[1] /\ pc.chain[1] \in Operation
  BY TailFacts DEF PC
<1>3. QED
  BY <1>1, <1>2 DEF Dequeue, PC

LEMMA SetFacts ==
  ASSUME NEW pc \in PC, NEW desc \in Description \cup {None}
  PROVE  /\ LET q == SetLocalOffer(pc, desc) IN
              /\ q \in PC /\ q.sig = "local" /\ q.chain = pc.chain
              /\ q.sending = pc.sending /\ q.local = desc
         /\ LET q == SetRemoteOffer(pc, desc) IN
              /\ q \in PC /\ q.sig = "remote" /\ q.chain = pc.chain
         /\ LET q == SetLocalAnswer(pc, desc) IN
              /\ q \in PC /\ q.sig = "stable" /\ q.chain = pc.chain
         /\ LET q == SetRemoteAnswer(pc, desc) IN
              /\ q \in PC /\ q.sig = "stable" /\ q.chain = pc.chain
              /\ q.sending = pc.sending /\ q.local = pc.local
BY DEF SetLocalOffer, SetRemoteOffer, SetLocalAnswer, SetRemoteAnswer, PC

LEMMA DescFacts ==
  ASSUME NEW pc \in PC
  PROVE  /\ Offer(pc) \in Description /\ Answer(pc) \in Description \cup {None}
         /\ Offer(pc).tracks = pc.sending
         /\ \A o \in Operation : /\ o.kind \in {"create", "local", "remote"}
                                 /\ o.desc \in Description \cup {None} /\ o.job \in Job
BY DEF Offer, Answer, Description, Operation, PC

-----------------------------------------------------------------------------
(***************************************************************************)
(* The offers that wait in an operations chain.  A chain is first in first *)
(* out, but an offer goes through it twice, to be created and to be set:   *)
(* one that is being set comes out before one that is still to be created. *)
(***************************************************************************)
OffersOf(s) == {i \in 1 .. Len(s) : s[i].kind # "remote"}

Ahead(s, i, j) ==
  \/ s[i].kind = "local" /\ s[j].kind = "create"
  \/ s[i].kind = s[j].kind /\ i < j

\* t holds no offer that s does not hold, and those it holds in the same order.
Keeps(s, t) ==
  \E m \in [OffersOf(t) -> OffersOf(s)] :
    \A i, j \in OffersOf(t) : /\ t[i].job = s[m[i]].job
                              /\ m[i] = m[j] => i = j
                              /\ (Ahead(t, i, j) <=> Ahead(s, m[i], m[j]))

LEMMA KeepsSame == ASSUME NEW s PROVE Keeps(s, s)
<1> DEFINE m == [i \in OffersOf(s) |-> i]
<1>1. m \in [OffersOf(s) -> OffersOf(s)]
  OBVIOUS
<1>2. QED
  BY <1>1 DEF Keeps

LEMMA KeepsTail ==
  ASSUME NEW s \in Seq(Operation), s # <<>>
  PROVE  Keeps(s, Tail(s))
<1> DEFINE t == Tail(s)
           m == [i \in OffersOf(t) |-> i + 1]
<1>1. Len(s) \in Nat /\ Len(t) = Len(s) - 1 /\ \A i \in 1 .. Len(s) - 1 : t[i] = s[i + 1]
  BY TailFacts
<1>2. \A i \in OffersOf(t) : i \in Nat /\ i + 1 \in OffersOf(s) /\ t[i] = s[i + 1]
  BY <1>1 DEF OffersOf
<1>3. m \in [OffersOf(t) -> OffersOf(s)]
  BY <1>2
<1>a. \A i \in OffersOf(t) : m[i] = i + 1
  OBVIOUS
<1> HIDE DEF t, m
<1>4. \A i, j \in OffersOf(t) : /\ t[i].job = s[m[i]].job
                                /\ m[i] = m[j] => i = j
                                /\ (Ahead(t, i, j) <=> Ahead(s, m[i], m[j]))
  BY <1>2, <1>a DEF Ahead
<1>5. QED
  BY <1>3, <1>4 DEF Keeps, t

LEMMA KeepsRemote ==
  ASSUME NEW s \in Seq(Operation), NEW o \in Operation, o.kind = "remote"
  PROVE  Keeps(s, Append(s, o))
<1> DEFINE t == Append(s, o)
           m == [i \in OffersOf(t) |-> i]
<1>1. /\ Len(s) \in Nat /\ Len(t) = Len(s) + 1 /\ t[Len(s) + 1] = o
      /\ \A i \in 1 .. Len(s) : t[i] = s[i]
  BY AppendFacts
<1>2. \A i \in OffersOf(t) : i \in OffersOf(s) /\ t[i] = s[i]
  BY <1>1 DEF OffersOf
<1>3. m \in [OffersOf(t) -> OffersOf(s)]
  BY <1>2
<1>4. QED
  BY <1>2, <1>3 DEF Keeps, Ahead

LEMMA KeepsCreate ==
  ASSUME NEW s \in Seq(Operation), s # <<>>, s[1].kind = "create",
         NEW o \in Operation, o.kind = "local", o.job = s[1].job
  PROVE  Keeps(s, Append(Tail(s), o))
<1> DEFINE u == Tail(s)
           t == Append(u, o)
           n == Len(s)
           m == [i \in OffersOf(t) |-> IF i = n THEN 1 ELSE i + 1]
<1>1. /\ u \in Seq(Operation) /\ n \in Nat /\ n > 0 /\ Len(u) = n - 1
      /\ \A i \in 1 .. n - 1 : u[i] = s[i + 1]
  BY TailFacts
<1>2. Len(t) = n /\ t[n] = o /\ \A i \in 1 .. n - 1 : t[i] = u[i]
  <2>1. /\ Len(t) = Len(u) + 1 /\ t[Len(u) + 1] = o
        /\ \A i \in 1 .. Len(u) : t[i] = u[i]
    BY <1>1, AppendFacts
  <2>2. QED
    BY <1>1, <2>1
<1> HIDE DEF t, u, n
<1>3. \A i \in OffersOf(t) \ {n} :
         i \in 1 .. n - 1 /\ i + 1 \in OffersOf(s) /\ t[i] = s[i + 1]
  BY <1>1, <1>2 DEF OffersOf, n
<1>4. 1 \in OffersOf(s)
  BY <1>1 DEF OffersOf, n
<1>5. m \in [OffersOf(t) -> OffersOf(s)]
  BY <1>3, <1>4
<1>6. \A i, j \in OffersOf(t) : /\ t[i].job = s[m[i]].job
                                /\ m[i] = m[j] => i = j
                                /\ (Ahead(t, i, j) <=> Ahead(s, m[i], m[j]))
  <2> TAKE i, j \in OffersOf(t)
  <2>1. CASE i = n /\ j = n
    BY <1>1, <1>2, <2>1 DEF Ahead
  <2>2. CASE i = n /\ j # n
    BY <1>1, <1>2, <1>3, <2>2 DEF Ahead
  <2>3. CASE i # n /\ j = n
    BY <1>1, <1>2, <1>3, <2>3 DEF Ahead
  <2>4. CASE i # n /\ j # n
    BY <1>1, <1>2, <1>3, <2>4, SMTT(30) DEF Ahead
  <2>5. QED
    BY <2>1, <2>2, <2>3, <2>4
<1>7. QED
  BY <1>5, <1>6 DEF Keeps, t, u

-----------------------------------------------------------------------------
(***************************************************************************)
(* The loops of the owner's page.  Each has one offer under way, on the    *)
(* connection to some peer, and what it has still to serve are the peers   *)
(* after that one up to the last there was when it began.  A loop that     *)
(* began later is behind, and has as many or more to serve.  The operators *)
(* are about values, for a step may change them twice.                     *)
(***************************************************************************)
At(pcs, ps, x) == pcs[ps[x]].chain

\* The owner has a connection to every peer, and each peer once.
Star(pcs, ps) ==
  /\ \A x, y \in 1 .. Len(ps) : ps[x] = ps[y] => x = y
  /\ \A g \in Guests : pcs[g] # None <=> \E x \in 1 .. Len(ps) : ps[x] = g

\* What a loop that is at the peer x has still to serve.
After(rest, ps, x) ==
  /\ rest \in Seq(Guests) /\ x + Len(rest) <= Len(ps)
  /\ \A k \in 1 .. Len(rest) : rest[k] = ps[x + k]

InLine(pcs, td, ps) ==
  \A x \in 1 .. Len(ps) : \A i \in OffersOf(At(pcs, ps, x)) :
    \/ At(pcs, ps, x)[i].job = Connect
    \/ /\ At(pcs, ps, x)[i].job \in Loops
       /\ td[At(pcs, ps, x)[i].job] # None
       /\ After(td[At(pcs, ps, x)[i].job], ps, x)

Once(pcs, ps) ==
  \A x, y \in 1 .. Len(ps) :
    \A i \in OffersOf(At(pcs, ps, x)), j \in OffersOf(At(pcs, ps, y)) :
      At(pcs, ps, x)[i].job \in Loops /\ At(pcs, ps, x)[i].job = At(pcs, ps, y)[j].job
        => x = y /\ i = j

\* The offer of connectPeer is ahead of all others.
First(pcs, ps) ==
  \A x \in 1 .. Len(ps) : \A i, j \in OffersOf(At(pcs, ps, x)) :
    At(pcs, ps, x)[i].job = Connect /\ i # j => Ahead(At(pcs, ps, x), i, j)

Order(pcs, td, ps) ==
  \A x, y \in 1 .. Len(ps) :
    \A i \in OffersOf(At(pcs, ps, x)), j \in OffersOf(At(pcs, ps, y)) :
      /\ At(pcs, ps, x)[i].job \in Loops
      /\ At(pcs, ps, y)[j].job \in Loops
      /\ x > y \/ (x = y /\ Ahead(At(pcs, ps, x), i, j))
      => x + Len(td[At(pcs, ps, x)[i].job]) <= y + Len(td[At(pcs, ps, y)[j].job])

Orderly(pcs, td, ps) ==
  InLine(pcs, td, ps) /\ Once(pcs, ps) /\ First(pcs, ps) /\ Order(pcs, td, ps)

\* Steps that bring no new offer keep the loops in order.
LEMMA KeepsOrderly ==
  ASSUME NEW pcs, NEW qcs, NEW td, NEW ps, Orderly(pcs, td, ps),
         \A x \in 1 .. Len(ps) : Keeps(At(pcs, ps, x), At(qcs, ps, x))
  PROVE  Orderly(qcs, td, ps)
<1>1. PICK m : \A x \in 1 .. Len(ps) :
        /\ m[x] \in [OffersOf(At(qcs, ps, x)) -> OffersOf(At(pcs, ps, x))]
        /\ \A i, j \in OffersOf(At(qcs, ps, x)) :
             /\ At(qcs, ps, x)[i].job = At(pcs, ps, x)[m[x][i]].job
             /\ m[x][i] = m[x][j] => i = j
             /\ (Ahead(At(qcs, ps, x), i, j) <=> Ahead(At(pcs, ps, x), m[x][i], m[x][j]))
  <2> DEFINE Fits(x, f) ==
               /\ f \in [OffersOf(At(qcs, ps, x)) -> OffersOf(At(pcs, ps, x))]
               /\ \A i, j \in OffersOf(At(qcs, ps, x)) :
                    /\ At(qcs, ps, x)[i].job = At(pcs, ps, x)[f[i]].job
                    /\ f[i] = f[j] => i = j
                    /\ (Ahead(At(qcs, ps, x), i, j) <=> Ahead(At(pcs, ps, x), f[i], f[j]))
             m == [x \in 1 .. Len(ps) |-> CHOOSE f : Fits(x, f)]
  <2>1. \A x \in 1 .. Len(ps) : \E f : Fits(x, f)
    BY DEF Keeps
  <2>2. \A x \in 1 .. Len(ps) : Fits(x, m[x])
    <3> HIDE DEF Fits
    <3> QED  BY <2>1
  <2>3. QED
    BY <2>2
<1>2. InLine(qcs, td, ps)
  BY <1>1 DEF Orderly, InLine
<1>3. Once(qcs, ps)
  BY <1>1 DEF Orderly, Once
<1>4. First(qcs, ps)
  BY <1>1 DEF Orderly, First
<1>5. Order(qcs, td, ps)
  <2> SUFFICES ASSUME NEW x \in 1 .. Len(ps), NEW y \in 1 .. Len(ps),
                      NEW i \in OffersOf(At(qcs, ps, x)), NEW j \in OffersOf(At(qcs, ps, y)),
                      At(qcs, ps, x)[i].job \in Loops,
                      At(qcs, ps, y)[j].job \in Loops,
                      x > y \/ (x = y /\ Ahead(At(qcs, ps, x), i, j))
               PROVE  x + Len(td[At(qcs, ps, x)[i].job]) <= y + Len(td[At(qcs, ps, y)[j].job])
    BY DEF Order
  <2>1. /\ m[x][i] \in OffersOf(At(pcs, ps, x)) /\ m[y][j] \in OffersOf(At(pcs, ps, y))
        /\ At(qcs, ps, x)[i].job = At(pcs, ps, x)[m[x][i]].job
        /\ At(qcs, ps, y)[j].job = At(pcs, ps, y)[m[y][j]].job
        /\ x = y /\ Ahead(At(qcs, ps, x), i, j) => Ahead(At(pcs, ps, x), m[x][i], m[y][j])
    BY <1>1
  <2>2. x > y \/ (x = y /\ Ahead(At(pcs, ps, x), m[x][i], m[y][j]))
    BY <2>1
  <2>3. QED
    BY <2>1, <2>2 DEF Orderly, Order
<1>6. QED
  BY <1>2, <1>3, <1>4, <1>5 DEF Orderly

\* A loop that has no offer any more may end.
LEMMA EndOrderly ==
  ASSUME NEW pcs, NEW td, NEW ps, NEW J \in Loops, NEW S, td \in [Loops -> S],
         Orderly(pcs, td, ps),
         \A x \in 1 .. Len(ps) : \A i \in OffersOf(At(pcs, ps, x)) : At(pcs, ps, x)[i].job # J
  PROVE  Orderly(pcs, [td EXCEPT ![J] = None], ps)
<1>1. \A job \in Loops : job # J => [td EXCEPT ![J] = None][job] = td[job]
  OBVIOUS
<1>2. InLine(pcs, [td EXCEPT ![J] = None], ps)
  BY <1>1 DEF Orderly, InLine
<1>3. Order(pcs, [td EXCEPT ![J] = None], ps)
  BY <1>1 DEF Orderly, Order
<1>4. QED
  BY <1>2, <1>3 DEF Orderly

\* t is s and behind its offers another, o, at n.
Behind(s, o, t, n) ==
  /\ OffersOf(t) = OffersOf(s) \cup {n} /\ n \notin OffersOf(s) /\ t[n] = o
  /\ \A i \in OffersOf(s) : t[i] = s[i] /\ Ahead(t, i, n) /\ ~Ahead(t, n, i)
  /\ \A i, j \in OffersOf(s) : Ahead(t, i, j) <=> Ahead(s, i, j)
  /\ ~Ahead(t, n, n)

\* An offer to be created is behind all there are.
LEMMA BehindLemma ==
  ASSUME NEW s \in Seq(Operation), NEW o \in Operation, o.kind = "create",
         NEW t, t = Append(s, o), NEW n, n = Len(s) + 1
  PROVE  Behind(s, o, t, n)
<1>1. /\ n \in Nat /\ Len(t) = n /\ t[n] = o /\ Len(s) = n - 1
      /\ \A i \in 1 .. n - 1 : t[i] = s[i] /\ s[i] \in Operation
  BY AppendFacts
<1>2. \A i \in OffersOf(s) : i \in 1 .. n - 1 /\ t[i] = s[i] /\ s[i].kind \in {"create", "local"}
  BY <1>1 DEF OffersOf, Operation
<1>3. OffersOf(t) = OffersOf(s) \cup {n} /\ n \notin OffersOf(s)
  BY <1>1 DEF OffersOf
<1>4. \A i \in OffersOf(s) : Ahead(t, i, n) /\ ~Ahead(t, n, i)
  BY <1>1, <1>2 DEF Ahead
<1>5. \A i, j \in OffersOf(s) : Ahead(t, i, j) <=> Ahead(s, i, j)
  BY <1>2 DEF Ahead
<1>6. ~Ahead(t, n, n)
  BY <1>1 DEF Ahead
<1>7. QED
  BY <1>1, <1>2, <1>3, <1>4, <1>5, <1>6 DEF Behind

\* A loop takes up a peer: the loops there and beyond it have less to serve, the
\* loops before it more.
LEMMA NextOrderly ==
  ASSUME NEW pcs, NEW qcs, NEW td, NEW ps \in Seq(Guests), NEW J \in Loops,
         NEW x0 \in 1 .. Len(ps), NEW rest \in Seq(Guests), NEW o \in Operation,
         NEW S, td \in [Loops -> S], Orderly(pcs, td, ps), After(rest, ps, x0),
         \A x \in 1 .. Len(ps) : \A i \in OffersOf(At(pcs, ps, x)) : At(pcs, ps, x)[i].job # J,
         \A x \in 1 .. Len(ps) : \A i \in OffersOf(At(pcs, ps, x)) :
           At(pcs, ps, x)[i].job \in Loops =>
             /\ x >= x0 => x + Len(td[At(pcs, ps, x)[i].job]) <= x0 + Len(rest)
             /\ x < x0 => x0 + Len(rest) <= x + Len(td[At(pcs, ps, x)[i].job]),
         At(pcs, ps, x0) \in Seq(Operation), o.kind = "create", o.job = J,
         At(qcs, ps, x0) = Append(At(pcs, ps, x0), o),
         \A x \in 1 .. Len(ps) : x # x0 => At(qcs, ps, x) = At(pcs, ps, x)
  PROVE  Orderly(qcs, [td EXCEPT ![J] = rest], ps)
<1> DEFINE ud == [td EXCEPT ![J] = rest]
           s == At(pcs, ps, x0)
           t == At(qcs, ps, x0)
           n == Len(s) + 1
<1>0. rest # None
  BY PagesAssumption
<1>1. ud[J] = rest /\ \A job \in Loops : job # J => ud[job] = td[job]
  OBVIOUS
<1>2. /\ OffersOf(t) = OffersOf(s) \cup {n} /\ n \notin OffersOf(s) /\ t[n] = o
      /\ \A i \in OffersOf(s) : t[i] = s[i] /\ Ahead(t, i, n) /\ ~Ahead(t, n, i)
      /\ \A i, j \in OffersOf(s) : Ahead(t, i, j) <=> Ahead(s, i, j)
      /\ ~Ahead(t, n, n)
  <2>1. s \in Seq(Operation) /\ t = Append(s, o) /\ n = Len(s) + 1
    OBVIOUS
  <2>2. Behind(s, o, t, n)
    <3> HIDE DEF s, t, n
    <3> QED  BY <2>1, BehindLemma
  <2>3. QED
    BY <2>2 DEF Behind
<1> DEFINE Old(x, i) == i \in OffersOf(At(pcs, ps, x))
<1>3. \A x \in 1 .. Len(ps) : \A i \in OffersOf(At(qcs, ps, x)) :
         \/ x = x0 /\ i = n /\ At(qcs, ps, x)[i].job = J
         \/ /\ Old(x, i) /\ At(qcs, ps, x)[i].job = At(pcs, ps, x)[i].job
            /\ At(qcs, ps, x)[i].job # J
  BY <1>2
<1>4. \A x \in 1 .. Len(ps) : \A i, j \in OffersOf(At(qcs, ps, x)) :
         Old(x, i) /\ Old(x, j) =>
           (Ahead(At(qcs, ps, x), i, j) <=> Ahead(At(pcs, ps, x), i, j))
  BY <1>2
<1>5. InLine(qcs, ud, ps)
  <2> SUFFICES ASSUME NEW x \in 1 .. Len(ps), NEW i \in OffersOf(At(qcs, ps, x)),
                      At(qcs, ps, x)[i].job # Connect
               PROVE  /\ At(qcs, ps, x)[i].job \in Loops
                      /\ ud[At(qcs, ps, x)[i].job] # None
                      /\ After(ud[At(qcs, ps, x)[i].job], ps, x)
    BY DEF InLine
  <2>1. CASE x = x0 /\ i = n /\ At(qcs, ps, x)[i].job = J
    BY <1>0, <1>1, <2>1
  <2>2. CASE Old(x, i) /\ At(qcs, ps, x)[i].job = At(pcs, ps, x)[i].job
             /\ At(qcs, ps, x)[i].job # J
    BY <1>1, <2>2 DEF Orderly, InLine
  <2>3. QED
    BY <1>3, <2>1, <2>2
<1>6. Once(qcs, ps)
  BY <1>3 DEF Orderly, Once
<1>7. First(qcs, ps)
  <2> SUFFICES ASSUME NEW x \in 1 .. Len(ps), NEW i \in OffersOf(At(qcs, ps, x)),
                      NEW j \in OffersOf(At(qcs, ps, x)),
                      At(qcs, ps, x)[i].job = Connect, i # j
               PROVE  Ahead(At(qcs, ps, x), i, j)
    BY DEF First
  <2>1. Old(x, i) /\ At(pcs, ps, x)[i].job = Connect
    BY <1>3, JobFacts
  <2>2. CASE x = x0 /\ j = n
    BY <1>2, <2>1, <2>2
  <2>3. CASE Old(x, j)
    BY <1>4, <2>1, <2>3 DEF Orderly, First
  <2>4. QED
    BY <1>3, <2>2, <2>3
<1>8. Order(qcs, ud, ps)
  <2> SUFFICES ASSUME NEW x \in 1 .. Len(ps), NEW y \in 1 .. Len(ps),
                      NEW i \in OffersOf(At(qcs, ps, x)), NEW j \in OffersOf(At(qcs, ps, y)),
                      At(qcs, ps, x)[i].job \in Loops,
                      At(qcs, ps, y)[j].job \in Loops,
                      x > y \/ (x = y /\ Ahead(At(qcs, ps, x), i, j))
               PROVE  x + Len(ud[At(qcs, ps, x)[i].job]) <= y + Len(ud[At(qcs, ps, y)[j].job])
    BY DEF Order
  <2>1. CASE Old(x, i) /\ Old(y, j)
    <3>1. x > y \/ (x = y /\ Ahead(At(pcs, ps, x), i, j))
      BY <1>4, <2>1
    <3>2. At(qcs, ps, x)[i].job = At(pcs, ps, x)[i].job /\ At(qcs, ps, x)[i].job # J
      BY <1>2, <1>3, <2>1
    <3>3. At(qcs, ps, y)[j].job = At(pcs, ps, y)[j].job /\ At(qcs, ps, y)[j].job # J
      BY <1>2, <1>3, <2>1
    <3>4. QED
      BY <1>1, <2>1, <3>1, <3>2, <3>3 DEF Orderly, Order
  <2>2. CASE x = x0 /\ i = n /\ Old(y, j)
    <3>1. x > y
      BY <1>2, <2>2
    <3>2. At(qcs, ps, y)[j].job = At(pcs, ps, y)[j].job /\ At(qcs, ps, y)[j].job # J
      BY <1>2, <1>3, <2>2
    <3>3. At(qcs, ps, x)[i].job = J
      BY <1>2, <2>2
    <3>4. QED
      BY <1>1, <2>2, <3>1, <3>2, <3>3
  <2>3. CASE y = x0 /\ j = n /\ Old(x, i)
    <3>1. x >= x0
      BY <2>3
    <3>2. At(qcs, ps, x)[i].job = At(pcs, ps, x)[i].job /\ At(qcs, ps, x)[i].job # J
      BY <1>2, <1>3, <2>3
    <3>3. At(qcs, ps, y)[j].job = J
      BY <1>2, <2>3
    <3>4. QED
      BY <1>1, <2>3, <3>1, <3>2, <3>3
  <2>4. CASE x = x0 /\ i = n /\ y = x0 /\ j = n
    BY <1>2, <2>4
  <2>5. QED
    BY <1>3, <2>1, <2>2, <2>3, <2>4
<1>9. QED
  BY <1>5, <1>6, <1>7, <1>8 DEF Orderly

\* A new peer comes last, with the offer of connectPeer.
LEMMA ConnectOrderly ==
  ASSUME NEW pcs, NEW qcs, NEW td, NEW ps \in Seq(Guests), NEW g \in Guests,
         NEW o, o.job = Connect, Orderly(pcs, td, ps),
         At(qcs, Append(ps, g), Len(ps) + 1) = <<o>>,
         \A x \in 1 .. Len(ps) : At(qcs, Append(ps, g), x) = At(pcs, ps, x)
  PROVE  Orderly(qcs, td, Append(ps, g))
<1> DEFINE rs == Append(ps, g)
           n  == Len(ps) + 1
<1>1. /\ n \in Nat /\ Len(ps) = n - 1 /\ Len(rs) = n
      /\ \A x \in 1 .. n - 1 : rs[x] = ps[x]
  BY AppendFacts
<1>2. OffersOf(At(qcs, rs, n)) \subseteq {1} /\ At(qcs, rs, n)[1].job = Connect
  BY DEF OffersOf
<1>3. \A x \in 1 .. n - 1 : At(qcs, rs, x) = At(pcs, ps, x)
  BY <1>1
<1>4. \A x \in 1 .. n : x \in 1 .. n - 1 \/ x = n
  BY <1>1
<1>5. Connect \notin Loops
  BY JobFacts
<1> HIDE DEF rs, n
<1>6. \A x \in 1 .. n : \A i \in OffersOf(At(qcs, rs, x)) :
         At(qcs, rs, x)[i].job # Connect => x \in 1 .. n - 1 /\ i \in OffersOf(At(pcs, ps, x))
  BY <1>2, <1>3, <1>4
<1>7. InLine(qcs, td, rs)
  <2> SUFFICES ASSUME NEW x \in 1 .. n, NEW i \in OffersOf(At(qcs, rs, x)),
                      At(qcs, rs, x)[i].job # Connect
               PROVE  /\ At(qcs, rs, x)[i].job \in Loops
                      /\ td[At(qcs, rs, x)[i].job] # None
                      /\ After(td[At(qcs, rs, x)[i].job], rs, x)
    BY <1>1 DEF InLine
  <2>1. x \in 1 .. n - 1 /\ i \in OffersOf(At(pcs, ps, x)) /\ At(qcs, rs, x) = At(pcs, ps, x)
    BY <1>3, <1>6
  <2>2. /\ At(qcs, rs, x)[i].job \in Loops
        /\ td[At(qcs, rs, x)[i].job] # None
        /\ After(td[At(qcs, rs, x)[i].job], ps, x)
    BY <1>1, <2>1 DEF Orderly, InLine
  <2> DEFINE rest == td[At(qcs, rs, x)[i].job]
  <2> HIDE DEF rest
  <2>3. After(rest, ps, x)
    BY <2>2 DEF rest
  <2>4. rest \in Seq(Guests) /\ Len(rest) \in Nat /\ x + Len(rest) <= n - 1
    BY <1>1, <2>3 DEF After
  <2>5. \A k \in 1 .. Len(rest) : rest[k] = rs[x + k]
    BY <1>1, <2>1, <2>3, <2>4 DEF After
  <2>6. After(rest, rs, x)
    BY <1>1, <2>4, <2>5 DEF After
  <2>7. QED
    BY <2>2, <2>6 DEF rest
<1>8. Once(qcs, rs)
  <2> SUFFICES ASSUME NEW x \in 1 .. n, NEW y \in 1 .. n,
                      NEW i \in OffersOf(At(qcs, rs, x)), NEW j \in OffersOf(At(qcs, rs, y)),
                      At(qcs, rs, x)[i].job \in Loops,
                      At(qcs, rs, x)[i].job = At(qcs, rs, y)[j].job
               PROVE  x = y /\ i = j
    BY <1>1 DEF Once
  <2>1. /\ x \in 1 .. n - 1 /\ i \in OffersOf(At(pcs, ps, x))
        /\ y \in 1 .. n - 1 /\ j \in OffersOf(At(pcs, ps, y))
    BY <1>5, <1>6
  <2>2. QED
    BY <1>1, <1>3, <2>1 DEF Orderly, Once
<1>9. First(qcs, rs)
  <2> SUFFICES ASSUME NEW x \in 1 .. n, NEW i \in OffersOf(At(qcs, rs, x)),
                      NEW j \in OffersOf(At(qcs, rs, x)),
                      At(qcs, rs, x)[i].job = Connect, i # j
               PROVE  Ahead(At(qcs, rs, x), i, j)
    BY <1>1 DEF First
  <2>1. x \in 1 .. n - 1
    BY <1>2, <1>4
  <2>2. QED
    BY <1>1, <1>3, <2>1 DEF Orderly, First
<1>10. Order(qcs, td, rs)
  <2> SUFFICES ASSUME NEW x \in 1 .. n, NEW y \in 1 .. n,
                      NEW i \in OffersOf(At(qcs, rs, x)), NEW j \in OffersOf(At(qcs, rs, y)),
                      At(qcs, rs, x)[i].job \in Loops,
                      At(qcs, rs, y)[j].job \in Loops,
                      x > y \/ (x = y /\ Ahead(At(qcs, rs, x), i, j))
               PROVE  x + Len(td[At(qcs, rs, x)[i].job]) <= y + Len(td[At(qcs, rs, y)[j].job])
    BY <1>1 DEF Order
  <2>1. /\ x \in 1 .. n - 1 /\ i \in OffersOf(At(pcs, ps, x))
        /\ y \in 1 .. n - 1 /\ j \in OffersOf(At(pcs, ps, y))
    BY <1>5, <1>6
  <2>2. QED
    BY <1>1, <1>3, <2>1 DEF Orderly, Order
<1>11. QED
  BY <1>7, <1>8, <1>9, <1>10 DEF Orderly, rs

-----------------------------------------------------------------------------
(***************************************************************************)
(* What the peer at the other end was told.  The offer that was created    *)
(* last tells it what it is sent, unless one is still to be created or     *)
(* some loop has still to serve it.                                        *)
(***************************************************************************)
NoCreate(s) == \A i \in 1 .. Len(s) : s[i].kind # "create"

LastLocal(s, i) ==
  /\ i \in 1 .. Len(s) /\ s[i].kind = "local"
  /\ \A j \in 1 .. Len(s) : s[j].kind = "local" => j <= i

Offered(pc) ==
  /\ \A i \in 1 .. Len(pc.chain) :
       LastLocal(pc.chain, i) => pc.chain[i].desc.tracks = pc.sending
  /\ (\A i \in 1 .. Len(pc.chain) : pc.chain[i].kind # "local") =>
       pc.local.tracks = pc.sending

Waited(td, g) ==
  \E job \in Loops : td[job] # None /\ \E k \in 1 .. Len(td[job]) : td[job][k] = g

Change(pcs, td) ==
  \A g \in Guests : pcs[g] # None /\ NoCreate(pcs[g].chain) /\ ~Waited(td, g) =>
    Offered(pcs[g])

LEMMA OfferedRemote ==
  ASSUME NEW pc \in PC, NEW desc \in Description \cup {None}, Offered(pc)
  PROVE  Offered(Queue(pc, "remote", desc, Reply))
<1> DEFINE q == Queue(pc, "remote", desc, Reply)
           s == pc.chain
           t == q.chain
           o == [kind |-> "remote", desc |-> desc, job |-> Reply]
<1>1. /\ s \in Seq(Operation) /\ o \in Operation /\ t = Append(s, o)
      /\ q.sending = pc.sending /\ q.local = pc.local
  BY QueueFacts, JobFacts
<1>2. o.kind = "remote"
  OBVIOUS
<1> HIDE DEF q, s, t, o
<1>3. /\ Len(s) \in Nat /\ Len(t) = Len(s) + 1 /\ t[Len(s) + 1] = o
      /\ \A i \in 1 .. Len(s) : t[i] = s[i]
  BY <1>1, AppendFacts
<1>4. \A i \in 1 .. Len(t) : t[i].kind = "local" => i \in 1 .. Len(s)
  BY <1>2, <1>3
<1>5. \A i \in 1 .. Len(s) : i \in 1 .. Len(t)
  BY <1>3
<1>6. \A i \in 1 .. Len(t) : LastLocal(t, i) => LastLocal(s, i) /\ t[i] = s[i]
  BY <1>3, <1>4, <1>5 DEF LastLocal
<1>7. QED
  BY <1>1, <1>3, <1>4, <1>5, <1>6 DEF Offered, s, t, q, LastLocal

LEMMA OfferedTail ==
  ASSUME NEW pc \in PC, NEW q \in PC, pc.chain # <<>>, q.chain = Tail(pc.chain),
         q.sending = pc.sending, Offered(pc),
         \/ pc.chain[1].kind = "remote" /\ q.local = pc.local
         \/ pc.chain[1].kind = "local" /\ q.local = pc.chain[1].desc
         \/ MayBeRefused(pc)
  PROVE  Offered(q)
<1> DEFINE s == pc.chain
           t == q.chain
           n == Len(s)
<1>1. s \in Seq(Operation) /\ s # <<>> /\ t = Tail(s)
  BY DEF PC
<1> HIDE DEF s, t
<1>2. /\ n \in Nat /\ n > 0 /\ Len(t) = n - 1
      /\ \A i \in 1 .. n - 1 : t[i] = s[i + 1]
  BY <1>1, TailFacts
<1>3. \A i \in 2 .. n : i - 1 \in 1 .. n - 1 /\ t[i - 1] = s[i]
  <2> TAKE i \in 2 .. n
  <2>1. i - 1 \in 1 .. n - 1 /\ (i - 1) + 1 = i
    BY <1>2
  <2>2. QED
    BY <1>2, <2>1
<1>4. \A i \in 1 .. n - 1 : i + 1 \in 1 .. n
  BY <1>2
<1> HIDE DEF n
<1>5. ASSUME NEW i \in 1 .. Len(t), LastLocal(t, i)
      PROVE  t[i].desc.tracks = q.sending
  <2>1. i + 1 \in 1 .. n /\ s[i + 1] = t[i] /\ t[i].kind = "local"
    BY <1>2, <1>4, <1>5 DEF LastLocal
  <2>2. ASSUME NEW j \in 1 .. n, s[j].kind = "local"
        PROVE  j <= i + 1
    <3>1. CASE j = 1
      BY <1>2, <3>1
    <3>2. CASE j # 1
      <4>1. j \in 2 .. n
        BY <1>2, <3>2
      <4>2. j - 1 <= i
        BY <1>2, <1>3, <1>5, <2>2, <4>1 DEF LastLocal
      <4>3. QED
        BY <1>2, <4>2
    <3>3. QED
      BY <3>1, <3>2
  <2>3. LastLocal(s, i + 1)
    BY <2>1, <2>2 DEF LastLocal, n
  <2>4. QED
    BY <2>1, <2>3 DEF Offered, s, n
<1>6. ASSUME \A i \in 1 .. Len(t) : t[i].kind # "local"
      PROVE  q.local.tracks = q.sending
  <2>1. \A i \in 2 .. n : s[i].kind # "local"
    BY <1>2, <1>3, <1>6
  <2>2. ~MayBeRefused(pc)
    BY <2>1 DEF MayBeRefused, s, n
  <2>3. CASE s[1].kind = "remote" /\ q.local = pc.local
    <3>1. \A i \in 1 .. n : s[i].kind # "local"
      BY <1>2, <2>1, <2>3
    <3>2. QED
      BY <2>3, <3>1 DEF Offered, s, n
  <2>4. CASE s[1].kind = "local" /\ q.local = s[1].desc
    <3>1. LastLocal(s, 1)
      BY <1>2, <2>1, <2>4 DEF LastLocal, n
    <3>2. QED
      BY <1>2, <2>4, <3>1 DEF Offered, s, n
  <2>5. QED
    BY <2>2, <2>3, <2>4 DEF s
<1>7. QED
  BY <1>5, <1>6 DEF Offered, t

LEMMA OfferedMade ==
  ASSUME NEW pc \in PC, pc.chain # <<>>
  PROVE  LET q == Create(pc, Offer(pc))
             o == [kind |-> "local", desc |-> Offer(pc), job |-> pc.chain[1].job]
         IN /\ q \in PC /\ q.sig = pc.sig /\ o \in Operation
            /\ pc.chain \in Seq(Operation)
            /\ q.chain = Append(Tail(pc.chain), o) /\ Offered(q)
<1> DEFINE u == Dequeue(pc)
           o == [kind |-> "local", desc |-> Offer(pc), job |-> pc.chain[1].job]
           q == Create(pc, Offer(pc))
           t == q.chain
           n == Len(u.chain) + 1
<1>1. /\ u \in PC /\ u.sig = pc.sig /\ u.sending = pc.sending /\ u.chain = Tail(pc.chain)
      /\ pc.chain \in Seq(Operation)
      /\ Head(pc.chain) = pc.chain[1] /\ pc.chain[1] \in Operation
  BY DequeueFacts
<1>2. Offer(pc) \in Description /\ Offer(pc).tracks = pc.sending /\ pc.chain[1].job \in Job
  BY <1>1, DescFacts
<1>3. /\ q \in PC /\ q.sig = pc.sig /\ q.sending = pc.sending
      /\ t = Append(u.chain, o) /\ u.chain \in Seq(Operation) /\ o \in Operation
  <2>1. q = Queue(u, "local", Offer(pc), pc.chain[1].job)
    BY <1>1 DEF Create
  <2> DEFINE d == Offer(pc)
             j == pc.chain[1].job
  <2>2. "local" \in {"create", "local", "remote"} /\ d \in Description \cup {None} /\ j \in Job
    BY <1>2
  <2> HIDE DEF d, j, u
  <2>3. LET r == Queue(u, "local", d, j) IN
        /\ r \in PC /\ r.sig = u.sig /\ r.sending = u.sending
        /\ r.chain = Append(u.chain, [kind |-> "local", desc |-> d, job |-> j])
        /\ u.chain \in Seq(Operation)
        /\ [kind |-> "local", desc |-> d, job |-> j] \in Operation
    BY <1>1, <2>2, QueueFacts
  <2> HIDE DEF q
  <2>4. QED
    BY <1>1, <2>1, <2>3 DEF d, j
<1>4. o.kind = "local" /\ o.desc.tracks = pc.sending
  BY <1>2
<1> HIDE DEF u, o, q, t
<1>5. n \in Nat /\ n > 0 /\ Len(t) = n /\ t[n] = o
  BY <1>3, AppendFacts
<1> HIDE DEF n
<1>6. \A i \in 1 .. Len(t) : LastLocal(t, i) => i = n
  BY <1>4, <1>5 DEF LastLocal
<1>7. Offered(q)
  BY <1>3, <1>4, <1>5, <1>6 DEF Offered, t
<1>8. QED
  BY <1>1, <1>3, <1>7 DEF q, o, u, t
=============================================================================
