-------------------------- MODULE ConferenceProofs --------------------------
(***************************************************************************)
(* The theorems about Conference, for any number of guests, files and acts *)
(* of the persons.                                                         *)
(***************************************************************************)
EXTENDS ConferenceShape

-----------------------------------------------------------------------------
(* Messages *)

Mails == [Pages -> Seq(Message)]

LEMMA MessageFacts ==
  /\ \A fs \in SUBSET Tracks :
       Update(fs) \in Message /\ Update(fs).type = "update" /\ Update(fs).fakes = fs
  /\ \A g \in Guests : Start(g) \in Message /\ Start(g).type = "start" /\ Start(g).from = g
  /\ \A p \in Pages : /\ Candidate(p) \in Message /\ Candidate(p).type = "candidate"
                      /\ Candidate(p).from = p
  /\ \A type \in {"offer", "answer"}, p \in Pages, desc \in Description \cup {None} :
       Sdp(type, p, desc) \in Message /\ Sdp(type, p, desc).type = type /\ Sdp(type, p, desc).from = p
BY DEF Message, Blank, Update, Start, Candidate, Sdp, Pages

\* r holds what q holds, and behind it messages of M.
Adds(q, r, M) ==
  \A p \in Pages :
    /\ Len(q[p]) <= Len(r[p])
    /\ \A i \in 1 .. Len(r[p]) :
         IF i <= Len(q[p]) THEN r[p][i] = q[p][i] ELSE r[p][i] \in M

LEMMA ToFacts ==
  ASSUME NEW q \in Mails, NEW p \in Pages, NEW ms \in Seq(Message)
  PROVE  LET r == To(q, p, ms) IN
         /\ r \in Mails
         /\ \A x \in Pages : x # p \/ ~Open(p) => r[x] = q[x]
         /\ Open(p) => /\ Len(r[p]) = Len(q[p]) + Len(ms)
                       /\ \A i \in 1 .. Len(q[p]) : r[p][i] = q[p][i]
                       /\ \A i \in 1 .. Len(ms) : r[p][Len(q[p]) + i] = ms[i]
<1>1. q[p] \in Seq(Message) /\ q[p] \o ms \in Seq(Message)
  BY DEF Mails
<1>2. /\ Len(q[p] \o ms) = Len(q[p]) + Len(ms)
      /\ \A i \in 1 .. Len(q[p]) : (q[p] \o ms)[i] = q[p][i]
      /\ \A i \in 1 .. Len(ms) : (q[p] \o ms)[Len(q[p]) + i] = ms[i]
  BY <1>1
<1>3. QED
  BY <1>1, <1>2 DEF To, Mails

LEMMA AddsTo ==
  ASSUME NEW q \in Mails, NEW p \in Pages, NEW ms \in Seq(Message)
  PROVE  Adds(q, To(q, p, ms), {ms[i] : i \in 1 .. Len(ms)})
<1> DEFINE r == To(q, p, ms)
           M == {ms[i] : i \in 1 .. Len(ms)}
<1>1. /\ r \in Mails
      /\ \A x \in Pages : x # p \/ ~Open(p) => r[x] = q[x]
      /\ Open(p) => /\ Len(r[p]) = Len(q[p]) + Len(ms)
                    /\ \A i \in 1 .. Len(q[p]) : r[p][i] = q[p][i]
                    /\ \A i \in 1 .. Len(ms) : r[p][Len(q[p]) + i] = ms[i]
  BY ToFacts
<1>2. \A x \in Pages : Len(q[x]) \in Nat
  BY DEF Mails
<1>3. Len(ms) \in Nat
  OBVIOUS
<1>4. \A i \in 1 .. Len(ms) : ms[i] \in M
  OBVIOUS
<1> HIDE DEF r, M
<1>5. ASSUME NEW x \in Pages
      PROVE  /\ Len(q[x]) <= Len(r[x])
             /\ \A i \in 1 .. Len(r[x]) : IF i <= Len(q[x]) THEN r[x][i] = q[x][i] ELSE r[x][i] \in M
  <2>1. CASE x # p \/ ~Open(p)
    BY <1>1, <1>2, <2>1
  <2>2. CASE x = p /\ Open(p)
    <3>1. Len(r[x]) = Len(q[x]) + Len(ms) /\ Len(q[x]) \in Nat
      BY <1>1, <1>2, <2>2
    <3>2. ASSUME NEW i \in 1 .. Len(r[x]), ~(i <= Len(q[x]))
          PROVE  r[x][i] \in M
      <4>1. i - Len(q[x]) \in 1 .. Len(ms) /\ Len(q[x]) + (i - Len(q[x])) = i
        BY <1>3, <3>1, <3>2
      <4>2. r[x][i] = ms[i - Len(q[x])]
        BY <1>1, <2>2, <4>1
      <4>3. QED
        BY <1>4, <4>1, <4>2
    <3>3. QED
      BY <1>1, <1>3, <2>2, <3>1, <3>2
  <2>3. QED
    BY <2>1, <2>2
<1>6. QED
  BY <1>5 DEF Adds, r, M

LEMMA AddsRoom ==
  ASSUME NEW q \in Mails, NEW m \in Message
  PROVE  ToRoom(q, m) \in Mails /\ Adds(q, ToRoom(q, m), {m})
<1> DEFINE r == ToRoom(q, m)
<1>1. \A p \in Pages : r[p] = IF p \in members /\ Open(p) THEN Append(q[p], m) ELSE q[p]
  BY DEF ToRoom
<1>2. \A p \in Pages : /\ q[p] \in Seq(Message) /\ Append(q[p], m) \in Seq(Message)
                       /\ Len(q[p]) \in Nat /\ Len(Append(q[p], m)) = Len(q[p]) + 1
                       /\ \A i \in 1 .. Len(q[p]) : Append(q[p], m)[i] = q[p][i]
                       /\ Append(q[p], m)[Len(q[p]) + 1] = m
  BY AppendFacts DEF Mails
<1>3. r \in Mails
  <2>1. \A p \in Pages : r[p] \in Seq(Message)
    BY <1>1, <1>2
  <2>2. r = [p \in Pages |-> r[p]]
    BY DEF ToRoom
  <2> HIDE DEF r
  <2>3. QED
    BY <2>1, <2>2 DEF Mails
<1> HIDE DEF r
<1>4. Adds(q, r, {m})
  <2> SUFFICES ASSUME NEW p \in Pages
               PROVE  /\ Len(q[p]) <= Len(r[p])
                      /\ \A i \in 1 .. Len(r[p]) :
                           IF i <= Len(q[p]) THEN r[p][i] = q[p][i] ELSE r[p][i] \in {m}
    BY DEF Adds
  <2>1. CASE p \in members /\ Open(p)
    <3>1. /\ Len(q[p]) \in Nat /\ Len(r[p]) = Len(q[p]) + 1 /\ r[p][Len(q[p]) + 1] = m
          /\ \A i \in 1 .. Len(q[p]) : r[p][i] = q[p][i]
      BY <1>1, <1>2, <2>1
    <3>2. \A i \in 1 .. Len(r[p]) : i \in 1 .. Len(q[p]) \/ (i = Len(q[p]) + 1 /\ ~(i <= Len(q[p])))
      BY <3>1
    <3>3. QED
      BY <3>1, <3>2
  <2>2. CASE ~(p \in members /\ Open(p))
    BY <1>1, <1>2, <2>2
  <2>3. QED
    BY <2>1, <2>2
<1>5. QED
  BY <1>3, <1>4 DEF r

LEMMA RestFacts ==
  ASSUME down \in Mails, NEW p \in Pages, down[p] # <<>>
  PROVE  /\ Rest(p) \in Mails /\ Head(down[p]) = down[p][1] /\ down[p][1] \in Message
         /\ \A x \in Pages : x # p => Rest(p)[x] = down[x]
         /\ Len(down[p]) \in Nat /\ Len(down[p]) > 0 /\ Len(Rest(p)[p]) = Len(down[p]) - 1
         /\ \A i \in 1 .. Len(down[p]) - 1 : Rest(p)[p][i] = down[p][i + 1]
<1>1. /\ down[p] \in Seq(Message) /\ Tail(down[p]) \in Seq(Message)
      /\ Head(down[p]) = down[p][1] /\ down[p][1] \in Message
      /\ Len(down[p]) \in Nat /\ Len(down[p]) > 0 /\ Len(Tail(down[p])) = Len(down[p]) - 1
      /\ \A i \in 1 .. Len(down[p]) - 1 : Tail(down[p])[i] = down[p][i + 1]
  BY TailFacts DEF Mails
<1>2. QED
  BY <1>1 DEF Rest, Mails

-----------------------------------------------------------------------------
(***************************************************************************)
(* What the messages under way say, over values: some steps send twice.    *)
(***************************************************************************)
Updates(d) ==
  \A p \in Pages : \A i \in 1 .. Len(d[p]) :
    d[p][i].type = "update" => d[p][i].fakes \in SUBSET Tracks

\* The owner is told once of a joiner, and is not connected to it before.
Starts(d, pg, opc) ==
  /\ \A i \in 1 .. Len(d[Owner]) : d[Owner][i].type = "start" =>
       /\ d[Owner][i].from \in Guests /\ pg[d[Owner][i].from] # "new"
       /\ opc[d[Owner][i].from] = None
  /\ \A i, j \in 1 .. Len(d[Owner]) :
       /\ d[Owner][i].type = "start" /\ d[Owner][j].type = "start"
       /\ d[Owner][i].from = d[Owner][j].from
       => i = j
  /\ \A g \in Guests : pg[g] = "new" => opc[g] = None

HasOffer(s) == \E i \in 1 .. Len(s) : s[i].type = "offer"

\* A guest answers what the owner offered.
Replies(d, opc, gpc) ==
  /\ \A i \in 1 .. Len(d[Owner]) : d[Owner][i].type \in {"candidate", "answer"} =>
       d[Owner][i].from \in Guests /\ opc[d[Owner][i].from] # None
  /\ \A g \in Guests : gpc[g] # None \/ HasOffer(d[g]) => opc[g] # None

\* A candidate is behind the first offer.
Candidates(d, gpc, away) ==
  \A g \in Guests \ away : \A i \in 1 .. Len(d[g]) : d[g][i].type = "candidate" =>
    gpc[g] # None \/ \E j \in 1 .. i - 1 : d[g][j].type = "offer"

\* Messages about the room's fake users are no concern of the negotiation.
LEMMA AddsKeeps ==
  ASSUME NEW d \in Mails, NEW r \in Mails, NEW M, Adds(d, r, M),
         \A m \in M : m.type = "update" /\ m.fakes \in SUBSET Tracks,
         NEW pg, NEW opc, NEW gpc, NEW away
  PROVE  /\ Updates(d) => Updates(r)
         /\ Starts(d, pg, opc) => Starts(r, pg, opc)
         /\ Replies(d, opc, gpc) => Replies(r, opc, gpc)
         /\ Candidates(d, gpc, away) => Candidates(r, gpc, away)
<1>1. \A p \in Pages : Len(d[p]) \in Nat /\ Len(r[p]) \in Nat /\ Len(d[p]) <= Len(r[p])
  BY DEF Mails, Adds
<1>2. ASSUME NEW p \in Pages, NEW i \in 1 .. Len(r[p])
      PROVE  \/ i \in 1 .. Len(d[p]) /\ r[p][i] = d[p][i]
             \/ r[p][i].type = "update" /\ r[p][i].fakes \in SUBSET Tracks
  <2>1. CASE i <= Len(d[p])
    BY <1>1, <2>1 DEF Adds
  <2>2. CASE ~(i <= Len(d[p]))
    BY <2>2 DEF Adds
  <2>3. QED
    BY <2>1, <2>2
<1>3. \A p \in Pages : \A i \in 1 .. Len(d[p]) : i \in 1 .. Len(r[p]) /\ r[p][i] = d[p][i]
  <2> TAKE p \in Pages
  <2> TAKE i \in 1 .. Len(d[p])
  <2>1. i \in 1 .. Len(r[p]) /\ i <= Len(d[p])
    BY <1>1
  <2>2. QED
    BY <2>1 DEF Adds
<1>4. Owner \in Pages /\ \A g \in Guests : g \in Pages
  BY DEF Pages
<1>5. Updates(d) => Updates(r)
  BY <1>2 DEF Updates
<1>6. Starts(d, pg, opc) => Starts(r, pg, opc)
  BY <1>2, <1>4 DEF Starts
<1>7. \A g \in Guests : HasOffer(r[g]) => HasOffer(d[g])
  BY <1>2, <1>4 DEF HasOffer
<1>8. Replies(d, opc, gpc) => Replies(r, opc, gpc)
  BY <1>2, <1>4, <1>7 DEF Replies
<1>9. Candidates(d, gpc, away) => Candidates(r, gpc, away)
  <2> SUFFICES ASSUME Candidates(d, gpc, away), NEW g \in Guests \ away,
                      NEW i \in 1 .. Len(r[g]), r[g][i].type = "candidate", gpc[g] = None
               PROVE  \E j \in 1 .. i - 1 : r[g][j].type = "offer"
    BY DEF Candidates
  <2>1. i \in 1 .. Len(d[g]) /\ r[g][i] = d[g][i]
    BY <1>2, <1>4
  <2>2. PICK j \in 1 .. i - 1 : d[g][j].type = "offer"
    BY <2>1 DEF Candidates
  <2>3. j \in 1 .. Len(d[g])
    BY <1>1, <1>4, <2>1
  <2>4. QED
    BY <1>3, <1>4, <2>2, <2>3
<1>10. QED
  BY <1>5, <1>6, <1>8, <1>9

\* Nor are the messages that were handled, but for the offer of a candidate.
LEMMA RestKeeps ==
  ASSUME down \in Mails, NEW p \in Pages, down[p] # <<>>,
         NEW pg, NEW opc, NEW gpc, NEW away
  PROVE  /\ Updates(down) => Updates(Rest(p))
         /\ Starts(down, pg, opc) => Starts(Rest(p), pg, opc)
         /\ Replies(down, opc, gpc) => Replies(Rest(p), opc, gpc)
         /\ Candidates(down, gpc, away) /\ (Head(down[p]).type # "offer" \/ gpc[p] # None) =>
              Candidates(Rest(p), gpc, away)
<1> DEFINE r == Rest(p)
           n == Len(down[p])
<1>1. /\ Head(down[p]) = down[p][1] /\ n \in Nat /\ n > 0 /\ Len(r[p]) = n - 1
      /\ \A x \in Pages : x # p => r[x] = down[x]
      /\ \A i \in 1 .. n - 1 : r[p][i] = down[p][i + 1]
  BY RestFacts
<1>2. Owner \in Pages /\ \A g \in Guests : g \in Pages
  BY DEF Pages
<1> HIDE DEF r, n
<1> DEFINE o(x, i) == IF x = p THEN i + 1 ELSE i
<1>3. \A x \in Pages : \A i \in 1 .. Len(r[x]) :
        /\ i \in Nat /\ o(x, i) \in 1 .. Len(down[x]) /\ r[x][i] = down[x][o(x, i)]
  <2> TAKE x \in Pages
  <2>1. CASE x = p
    BY <1>1, <2>1 DEF n
  <2>2. CASE x # p
    BY <1>1, <2>2
  <2>3. QED
    BY <2>1, <2>2
<1>4. \A x \in Pages : \A i, j \in 1 .. Len(r[x]) : o(x, i) = o(x, j) => i = j
  OBVIOUS
<1>5. Updates(down) => Updates(r)
  BY <1>3 DEF Updates
<1>6. Starts(down, pg, opc) => Starts(r, pg, opc)
  <2> HIDE DEF o
  <2> SUFFICES ASSUME Starts(down, pg, opc) PROVE Starts(r, pg, opc)
    OBVIOUS
  <2>1. \A i \in 1 .. Len(r[Owner]) : r[Owner][i].type = "start" =>
          /\ r[Owner][i].from \in Guests /\ pg[r[Owner][i].from] # "new"
          /\ opc[r[Owner][i].from] = None
    BY <1>2, <1>3 DEF Starts
  <2>2. ASSUME NEW i \in 1 .. Len(r[Owner]), NEW j \in 1 .. Len(r[Owner]),
               r[Owner][i].type = "start", r[Owner][j].type = "start",
               r[Owner][i].from = r[Owner][j].from
        PROVE  i = j
    <3>1. o(Owner, i) = o(Owner, j)
      BY <1>2, <1>3, <2>2, SMTT(30) DEF Starts
    <3>2. QED
      BY <1>2, <1>4, <3>1
  <2>3. QED
    BY <2>1, <2>2 DEF Starts
<1>7. Replies(down, opc, gpc) => Replies(r, opc, gpc)
  <2> HIDE DEF o
  <2>1. \A g \in Guests : HasOffer(r[g]) => HasOffer(down[g])
    BY <1>2, <1>3 DEF HasOffer
  <2>2. QED
    BY <1>2, <1>3, <2>1 DEF Replies
<1>8. ASSUME Candidates(down, gpc, away), Head(down[p]).type # "offer" \/ gpc[p] # None
      PROVE  Candidates(r, gpc, away)
  <2> SUFFICES ASSUME NEW g \in Guests \ away,
                      NEW i \in 1 .. Len(r[g]), r[g][i].type = "candidate", gpc[g] = None
               PROVE  \E j \in 1 .. i - 1 : r[g][j].type = "offer"
    BY DEF Candidates
  <2>1. CASE g # p
    <3>1. r[g] = down[g]
      BY <1>1, <1>2, <2>1
    <3>2. i \in 1 .. Len(down[g]) /\ down[g][i].type = "candidate"
      BY <3>1
    <3>3. \E j \in 1 .. i - 1 : down[g][j].type = "offer"
      BY <1>8, <3>2 DEF Candidates
    <3>4. QED
      BY <3>1, <3>3
  <2>2. CASE g = p
    <3>1. i + 1 \in 1 .. n /\ down[g][i + 1] = r[g][i] /\ i \in 1 .. n - 1
      BY <1>1, <2>2
    <3>2. PICK j \in 1 .. (i + 1) - 1 : down[g][j].type = "offer"
      BY <1>8, <2>2, <3>1 DEF Candidates, n
    <3>3. j # 1
      BY <1>1, <1>8, <2>2, <3>2
    <3>4. j - 1 \in 1 .. i - 1 /\ j - 1 \in 1 .. n - 1 /\ (j - 1) + 1 = j
      BY <1>1, <3>1, <3>2, <3>3
    <3>5. r[g][j - 1] = down[g][j]
      BY <1>1, <2>2, <3>4
    <3>6. QED
      BY <3>2, <3>4, <3>5
  <2>3. QED
    BY <2>1, <2>2
<1>9. QED
  BY <1>5, <1>6, <1>7, <1>8 DEF r

\* They only depend on who has a peer connection.
LEMMA SwapKeeps ==
  ASSUME NEW d, NEW pg, NEW opc, NEW qpc, NEW gpc, NEW away,
         \A g \in Guests : opc[g] = None <=> qpc[g] = None
  PROVE  /\ Starts(d, pg, opc) => Starts(d, pg, qpc)
         /\ Replies(d, opc, gpc) => Replies(d, qpc, gpc)
         /\ Replies(d, gpc, opc) => Replies(d, gpc, qpc)
         /\ Candidates(d, opc, away) => Candidates(d, qpc, away)
<1>1. Starts(d, pg, opc) => Starts(d, pg, qpc)
  BY DEF Starts
<1>2. Replies(d, opc, gpc) => Replies(d, qpc, gpc)
  BY DEF Replies
<1>3. Replies(d, gpc, opc) => Replies(d, gpc, qpc)
  BY DEF Replies
<1>4. Candidates(d, opc, away) => Candidates(d, qpc, away)
  BY DEF Candidates
<1>5. QED
  BY <1>1, <1>2, <1>3, <1>4

-----------------------------------------------------------------------------
(* The inductive invariant *)

ServerTypes ==
  /\ page \in [Pages -> {"new", "open", "gone"}]
  /\ members \in SUBSET Pages
  /\ fakes \in SUBSET Tracks
  /\ announcing \in SUBSET Guests
  /\ down \in Mails

PageTypes ==
  /\ room \in [Pages -> (SUBSET Tracks) \cup {None}]
  /\ streams \in [Guests -> SUBSET Tracks]

PeerTypes ==
  /\ ownerPc \in [Guests -> {None} \cup PC] /\ guestPc \in [Guests -> {None} \cup PC]
  /\ \A g \in Guests : ownerPc[g] # None => ownerPc[g].sig # "remote"
  /\ \A g \in Guests : guestPc[g] # None => guestPc[g].sig # "local"
  /\ peers \in Seq(Guests)

FileTypes ==
  /\ tracks \in SUBSET Tracks
  /\ decoding \in SUBSET Tracks
  /\ todo \in [Loops -> Seq(Guests) \cup {None}]
  /\ arrays \in Seq(SUBSET Tracks)
  /\ acts \in 0 .. MaxActs
  /\ fakeUsers \in 1 .. Len(arrays)
  /\ captured \in [Loops -> 1 .. Len(arrays)]

HistoryTypes ==
  /\ stopped \in SUBSET Pages
  /\ early \in SUBSET Guests
  /\ cutShort \in SUBSET Tracks
  /\ clashed \in SUBSET Tracks

Typed == ServerTypes /\ PageTypes /\ PeerTypes /\ FileTypes /\ HistoryTypes

\* A file is loaded once, and every drop adds an array.
Files ==
  /\ Len(arrays) <= acts + 1
  /\ \A t \in decoding :
       todo[Load(t)] = None /\ \A i \in 1 .. Len(arrays) : t \notin arrays[i]
  /\ \A t \in Tracks : todo[Load(t)] # None => \E i \in 1 .. Len(arrays) : t \in arrays[i]

Serving == Star(ownerPc, peers) /\ Orderly(ownerPc, todo, peers) /\ Change(ownerPc, todo)

Letters ==
  /\ Updates(down)
  /\ Starts(down, page, ownerPc)
  /\ Open(Owner) /\ Owner \notin stopped => Replies(down, ownerPc, guestPc)
  /\ Candidates(down, guestPc, stopped)

IInv == Typed /\ Files /\ Serving /\ Letters /\ SilentWithoutRoom

\* What is to be written, and the history of the steps that few others look at.
Notes ==
  /\ unsent \in SUBSET Write
  /\ misled \in [Guests -> SUBSET Tracks]
  /\ kept \in SUBSET Tracks

\* The counter of acts may only grow.
Counts == acts' \in 0 .. MaxActs /\ acts <= acts'

LEMMA TypedLemma == IInv /\ Notes => TypeOK
<1> SUFFICES ASSUME IInv, Notes PROVE TypeOK
  OBVIOUS
<1>1. Len(arrays) <= MaxActs + 1
  <2>1. Len(arrays) \in Nat /\ acts \in Nat /\ acts <= MaxActs /\ Len(arrays) <= acts + 1
    BY BoundsAssumption DEF IInv, Typed, FileTypes, Files
  <2>2. QED
    BY <2>1, BoundsAssumption
<1>2. QED
  BY <1>1 DEF IInv, Typed, ServerTypes, PageTypes, PeerTypes, FileTypes, HistoryTypes, Notes,
              TypeOK, Mails

LEMMA PageFacts == Owner \in Pages /\ Guests \subseteq Pages /\ \A g \in Guests : g # Owner
BY PagesAssumption DEF Pages

LEMMA OneMessage ==
  ASSUME NEW m \in Message
  PROVE  /\ <<m>> \in Seq(Message) /\ {<<m>>[i] : i \in 1 .. Len(<<m>>)} = {m}
         /\ Len(<<m>>) = 1 /\ <<m>>[1] = m
OBVIOUS

\* The parts of Serving of the next state, put together.
LEMMA ServingMade ==
  ASSUME Star(ownerPc', peers'), Orderly(ownerPc', todo', peers'), Change(ownerPc', todo')
  PROVE  Serving'
<1>1. Star(ownerPc, peers)'
  BY DEF Star
<1>2. InLine(ownerPc, todo, peers)' /\ Once(ownerPc, peers)'
  BY DEF Orderly, InLine, Once, At
<1>3. First(ownerPc, peers)' /\ Order(ownerPc, todo, peers)'
  BY DEF Orderly, First, Order, At
<1>4. Change(ownerPc, todo)'
  BY DEF Change, Waited
<1>5. QED
  BY <1>1, <1>2, <1>3, <1>4 DEF Serving, Orderly

LEMMA ServingKept ==
  ASSUME Serving, UNCHANGED <<ownerPc, todo, peers>>
  PROVE  Serving'
BY DEF Serving, Star, Orderly, InLine, Once, First, Order, At, Change, Waited

LEMMA FilesKept ==
  ASSUME Typed, Files, Counts, UNCHANGED <<arrays, todo, decoding>>
  PROVE  Files'
BY DEF Typed, FileTypes, Files, Counts

LEMMA LettersKept ==
  ASSUME Typed, Letters, UNCHANGED <<page, stopped>>,
         \A g \in Guests : ownerPc[g] = None <=> ownerPc'[g] = None,
         \A g \in Guests : guestPc[g] = None <=> guestPc'[g] = None,
         \/ down' = down
         \/ /\ down' \in Mails
            /\ \E M : /\ Adds(down, down', M)
                      /\ \A m \in M : m.type = "update" /\ m.fakes \in SUBSET Tracks
         \/ \E p \in Pages : /\ down[p] # <<>> /\ down' = Rest(p)
                             /\ Head(down[p]).type # "offer"
  PROVE  Letters'
<1>1. down \in Mails
  BY DEF Typed, ServerTypes
<1>2. /\ Updates(down')
      /\ Starts(down', page, ownerPc)
      /\ Replies(down, ownerPc, guestPc) => Replies(down', ownerPc, guestPc)
      /\ Candidates(down', guestPc, stopped)
  <2>1. CASE down' = down
    BY <2>1 DEF Letters
  <2>2. ASSUME down' \in Mails, NEW M, Adds(down, down', M),
               \A m \in M : m.type = "update" /\ m.fakes \in SUBSET Tracks
        PROVE  <1>2!:
    BY <1>1, <2>2, AddsKeeps DEF Letters
  <2>3. ASSUME NEW p \in Pages, down[p] # <<>>, down' = Rest(p), Head(down[p]).type # "offer"
        PROVE  <1>2!:
    BY <1>1, <2>3, RestKeeps DEF Letters
  <2>4. QED
    BY <2>1, <2>2, <2>3
<1>3. /\ Starts(down', page, ownerPc')
      /\ Replies(down, ownerPc, guestPc) => Replies(down', ownerPc', guestPc')
      /\ Candidates(down', guestPc', stopped)
  <2>1. Starts(down', page, ownerPc')
    BY <1>2, SwapKeeps
  <2>2. Replies(down', ownerPc, guestPc) => Replies(down', ownerPc', guestPc)
    BY SwapKeeps
  <2>3. Replies(down', ownerPc', guestPc) => Replies(down', ownerPc', guestPc')
    BY SwapKeeps
  <2>4. Candidates(down', guestPc', stopped)
    BY <1>2, SwapKeeps
  <2>5. QED
    BY <1>2, <2>1, <2>2, <2>3, <2>4
<1>4. QED
  BY <1>2, <1>3 DEF Letters, Updates, Open, Starts, Replies, HasOffer, Candidates

-----------------------------------------------------------------------------
(* The steps of the guests' pages *)

LEMMA UpdateStep ==
  ASSUME IInv, Counts, NEW p \in Pages, onUpdateRoom(p)
  PROVE  IInv'
<1>1. /\ down \in Mails /\ down[p] # <<>> /\ down' = Rest(p)
      /\ Head(down[p]).type = "update" /\ room' = [room EXCEPT ![p] = Head(down[p]).fakes]
      /\ UNCHANGED <<page, members, fakes, announcing, ownerPc, peers, guestPc, streams,
                     tracks, decoding, arrays, captured, todo, fakeUsers, stopped, early,
                     cutShort, clashed>>
  BY DEF onUpdateRoom, Gets, IInv, Typed, ServerTypes, server, owner, files, history
<1>2. /\ Rest(p) \in Mails /\ Head(down[p]) = down[p][1] /\ 1 \in 1 .. Len(down[p])
  BY <1>1, RestFacts
<1>3. Head(down[p]).fakes \in SUBSET Tracks /\ Head(down[p]).fakes # None
  BY <1>1, <1>2, PagesAssumption DEF IInv, Letters, Updates
<1>4. Typed'
  BY <1>1, <1>2, <1>3 DEF IInv, Counts, Typed, ServerTypes, PageTypes, PeerTypes, FileTypes,
                          HistoryTypes
<1>5. Files' /\ Serving'
  BY <1>1, FilesKept, ServingKept DEF IInv
<1>6. Letters'
  BY <1>1, LettersKept DEF IInv
<1>7. SilentWithoutRoom'
  BY <1>1, <1>3 DEF IInv, Typed, PageTypes, SilentWithoutRoom
<1>8. QED
  BY <1>4, <1>5, <1>6, <1>7 DEF IInv

LEMMA CandidateStep ==
  ASSUME IInv, Counts, NEW p \in Pages, onCandidate(p)
  PROVE  IInv'
<1>1. /\ down \in Mails /\ down[p] # <<>> /\ down' = Rest(p) /\ Head(down[p]).type = "candidate"
      /\ UNCHANGED <<page, members, fakes, announcing, room, ownerPc, peers, guestPc, streams,
                     tracks, decoding, arrays, captured, todo, fakeUsers, stopped, early,
                     cutShort, clashed>>
  BY DEF onCandidate, Gets, IInv, Typed, ServerTypes, server, owner, files, history
<1>2. Rest(p) \in Mails
  BY <1>1, RestFacts
<1>3. Typed'
  BY <1>1, <1>2 DEF IInv, Counts, Typed, ServerTypes, PageTypes, PeerTypes, FileTypes,
                    HistoryTypes
<1>4. Files' /\ Serving'
  BY <1>1, FilesKept, ServingKept DEF IInv
<1>5. Letters'
  BY <1>1, LettersKept DEF IInv
<1>6. SilentWithoutRoom'
  BY <1>1 DEF IInv, SilentWithoutRoom
<1>7. QED
  BY <1>3, <1>4, <1>5, <1>6 DEF IInv

LEMMA OfferStep ==
  ASSUME IInv, Counts, NEW g \in Guests, onOffer(g)
  PROVE  IInv'
<1> DEFINE pc == IF guestPc[g] = None THEN NewPC({}) ELSE guestPc[g]
           qc == Queue(pc, "remote", Head(down[g]).desc, Reply)
<1>1. /\ down \in Mails /\ down[g] # <<>> /\ down' = Rest(g) /\ Head(down[g]).type = "offer"
      /\ guestPc' = [guestPc EXCEPT ![g] = qc]
      /\ UNCHANGED <<page, members, fakes, announcing, room, ownerPc, peers, streams, tracks,
                     decoding, arrays, captured, todo, fakeUsers, stopped, early, cutShort,
                     clashed>>
  BY DEF onOffer, Gets, IInv, Typed, ServerTypes, server, owner, files, history
<1>2. /\ Rest(g) \in Mails /\ Head(down[g]) = down[g][1] /\ 1 \in 1 .. Len(down[g])
      /\ Head(down[g]) \in Message /\ g \in Pages
  BY <1>1, RestFacts, PageFacts
<1>3. pc \in PC /\ pc.sig # "local"
  BY NewPCFacts DEF IInv, Typed, PeerTypes
<1>4. Head(down[g]).desc \in Description \cup {None}
  BY <1>2 DEF Message
<1>5. qc \in PC /\ qc.sig # "local" /\ qc # None
  <2> HIDE DEF pc
  <2>1. qc \in PC /\ qc.sig = pc.sig
    BY <1>3, <1>4, QueueFacts, JobFacts
  <2>2. QED
    BY <1>3, <2>1, NoneAssumption
<1> HIDE DEF qc
<1>6. /\ guestPc \in [Guests -> {None} \cup PC] /\ guestPc'[g] = qc
      /\ \A h \in Guests : h # g => guestPc'[h] = guestPc[h]
  BY <1>1 DEF IInv, Typed, PeerTypes
<1>7. Typed'
  <2>1. PeerTypes'
    BY <1>1, <1>5, <1>6 DEF IInv, Typed, PeerTypes
  <2>2. QED
    BY <1>1, <1>2, <2>1 DEF IInv, Counts, Typed, ServerTypes, PageTypes, FileTypes, HistoryTypes
<1>8. Files' /\ Serving'
  BY <1>1, FilesKept, ServingKept DEF IInv
<1>9. Letters'
  <2>1. Updates(Rest(g)) /\ Starts(Rest(g), page, ownerPc)
    BY <1>1, <1>2, RestKeeps DEF IInv, Letters
  <2>2. Replies(down, ownerPc, guestPc) => Replies(Rest(g), ownerPc, guestPc')
    <3> SUFFICES ASSUME Replies(down, ownerPc, guestPc)
                 PROVE  Replies(Rest(g), ownerPc, guestPc')
      OBVIOUS
    <3>1. Replies(Rest(g), ownerPc, guestPc)
      BY <1>1, <1>2, RestKeeps
    <3>2. ownerPc[g] # None
      BY <1>1, <1>2 DEF Replies, HasOffer
    <3>3. QED
      BY <1>6, <3>1, <3>2 DEF Replies
  <2>3. Candidates(down, guestPc', stopped)
    BY <1>5, <1>6 DEF IInv, Letters, Candidates
  <2>4. Candidates(Rest(g), guestPc', stopped)
    BY <1>1, <1>2, <1>5, <1>6, <2>3, RestKeeps
  <2>5. QED
    BY <1>1, <2>1, <2>2, <2>4 DEF IInv, Letters, Updates, Open, Starts, Replies, HasOffer,
                                  Candidates
<1>10. SilentWithoutRoom'
  BY <1>1 DEF IInv, SilentWithoutRoom
<1>11. QED
  BY <1>7, <1>8, <1>9, <1>10 DEF IInv

LEMMA OfferTakenStep ==
  ASSUME IInv, Counts, NEW g \in Guests, OfferTaken(g)
  PROVE  IInv'
<1> DEFINE desc == Head(guestPc[g].chain).desc
           rc == SetRemoteOffer(guestPc[g], desc)
           dc == Dequeue(rc)
           qc == Queue(dc, "create", None, Reply)
<1>1. /\ guestPc[g] # None /\ guestPc[g].chain # <<>>
      /\ guestPc' = [guestPc EXCEPT ![g] = qc]
      /\ streams' = [streams EXCEPT ![g] = Streams(g, desc)]
      /\ early' \in {early, early \cup {g}}
      /\ UNCHANGED <<page, members, fakes, announcing, down, room, ownerPc, peers, tracks,
                     decoding, arrays, captured, todo, fakeUsers, stopped, cutShort, clashed>>
  BY DEF OfferTaken, Has, Waits, IInv, Typed, PeerTypes, server, owner, files
<1>2. guestPc[g] \in PC
  BY <1>1 DEF IInv, Typed, PeerTypes
<1>3. desc \in Description \cup {None}
  <2>1. Head(guestPc[g].chain) = guestPc[g].chain[1] /\ guestPc[g].chain[1] \in Operation
    BY <1>1, <1>2, DequeueFacts
  <2>2. QED
    BY <1>2, <2>1, DescFacts
<1>4. qc \in PC /\ qc.sig = "remote" /\ qc # None
  <2>1. rc \in PC /\ rc.sig = "remote" /\ rc.chain # <<>>
    BY <1>1, <1>2, <1>3, SetFacts
  <2> HIDE DEF rc
  <2>2. dc \in PC /\ dc.sig = "remote"
    BY <2>1, DequeueFacts
  <2> HIDE DEF dc
  <2>3. qc \in PC /\ qc.sig = "remote"
    BY <2>2, QueueTypes, JobFacts DEF qc
  <2>4. QED
    BY <2>3, NoneAssumption
<1> HIDE DEF qc, rc, dc
<1>5. /\ guestPc \in [Guests -> {None} \cup PC] /\ guestPc'[g] = qc
      /\ \A h \in Guests : h # g => guestPc'[h] = guestPc[h]
  BY <1>1 DEF IInv, Typed, PeerTypes
<1>6. Typed'
  <2>1. PeerTypes'
    BY <1>1, <1>4, <1>5 DEF IInv, Typed, PeerTypes
  <2>2. Users(g) \subseteq Tracks /\ streams[g] \subseteq Tracks
    BY PageFacts DEF IInv, Typed, PageTypes, Users
  <2>3. PageTypes'
    BY <1>1, <2>2 DEF IInv, Typed, PageTypes, Streams
  <2>4. HistoryTypes'
    BY <1>1 DEF IInv, Typed, HistoryTypes
  <2>5. QED
    BY <1>1, <2>1, <2>3, <2>4 DEF IInv, Counts, Typed, ServerTypes, FileTypes
<1>7. Files' /\ Serving'
  BY <1>1, FilesKept, ServingKept DEF IInv
<1>8. Letters'
  BY <1>1, <1>4, <1>5, LettersKept DEF IInv
<1>9. SilentWithoutRoom'
  <2>1. room[g] = None => Streams(g, desc) = {}
    BY DEF IInv, SilentWithoutRoom, Streams, Users
  <2>2. QED
    BY <1>1, <2>1 DEF IInv, Typed, PageTypes, SilentWithoutRoom
<1>10. QED
  BY <1>6, <1>7, <1>8, <1>9 DEF IInv

LEMMA AnswerMadeStep ==
  ASSUME IInv, Counts, NEW g \in Guests, AnswerMade(g)
  PROVE  IInv'
<1> DEFINE pc == guestPc[g]
           qc == IF pc.sig = "remote" THEN Create(pc, Answer(pc)) ELSE Dequeue(pc)
<1>1. /\ pc # None /\ pc.chain # <<>> /\ guestPc' = [guestPc EXCEPT ![g] = qc]
      /\ UNCHANGED <<page, members, fakes, announcing, down, room, ownerPc, peers, streams,
                     tracks, decoding, arrays, captured, todo, fakeUsers, stopped, early,
                     cutShort, clashed>>
  BY DEF AnswerMade, Has, Waits, IInv, Typed, PeerTypes, server, owner, files, history
<1>2. pc \in PC /\ pc.sig # "local"
  BY <1>1 DEF IInv, Typed, PeerTypes
<1>3. qc \in PC /\ qc.sig # "local" /\ qc # None
  <2> HIDE DEF pc
  <2> DEFINE dc == Dequeue(pc)
  <2>1. dc \in PC /\ dc.sig = pc.sig /\ Head(pc.chain) \in Operation
    BY <1>1, <1>2, DequeueFacts
  <2>2. Head(pc.chain).job \in Job /\ Answer(pc) \in Description \cup {None}
    BY <1>2, <2>1, DescFacts
  <2>3. Create(pc, Answer(pc)) = Queue(dc, "local", Answer(pc), Head(pc.chain).job)
    BY DEF Create
  <2> HIDE DEF dc
  <2>4. Create(pc, Answer(pc)) \in PC /\ Create(pc, Answer(pc)).sig = pc.sig
    BY <2>1, <2>2, <2>3, QueueTypes
  <2>5. qc \in PC /\ qc.sig # "local"
    BY <1>2, <2>1, <2>4 DEF dc
  <2>6. QED
    BY <2>5, NoneAssumption
<1> HIDE DEF qc
<1>4. /\ guestPc \in [Guests -> {None} \cup PC] /\ guestPc'[g] = qc
      /\ \A h \in Guests : h # g => guestPc'[h] = guestPc[h]
  BY <1>1 DEF IInv, Typed, PeerTypes
<1>5. Typed'
  <2>1. PeerTypes'
    BY <1>1, <1>3, <1>4 DEF IInv, Typed, PeerTypes
  <2>2. QED
    BY <1>1, <2>1 DEF IInv, Counts, Typed, ServerTypes, PageTypes, FileTypes, HistoryTypes
<1>6. Files' /\ Serving'
  BY <1>1, FilesKept, ServingKept DEF IInv
<1>7. Letters'
  BY <1>1, <1>3, <1>4, LettersKept DEF IInv
<1>8. SilentWithoutRoom'
  BY <1>1 DEF IInv, SilentWithoutRoom
<1>9. QED
  BY <1>5, <1>6, <1>7, <1>8 DEF IInv

\* What is said to the owner alone.
LEMMA ToOwnerKeeps ==
  ASSUME NEW d \in Mails, NEW r \in Mails, NEW M, Adds(d, r, M),
         \A x \in Pages : x # Owner => r[x] = d[x],
         NEW pg, NEW opc, NEW gpc, NEW away, NEW g \in Guests,
         \A m \in M : m.type \in {"answer", "candidate", "start"} /\ m.from = g
  PROVE  /\ Updates(d) => Updates(r)
         /\ Starts(d, pg, opc) /\ (\A m \in M : m.type # "start") => Starts(r, pg, opc)
         /\ Replies(d, opc, gpc) /\ (opc[g] # None \/ \A m \in M : m.type = "start") =>
              Replies(r, opc, gpc)
         /\ Candidates(d, gpc, away) => Candidates(r, gpc, away)
<1>1. \A p \in Pages : Len(d[p]) \in Nat /\ Len(r[p]) \in Nat /\ Len(d[p]) <= Len(r[p])
  BY DEF Mails, Adds
<1>2. ASSUME NEW p \in Pages, NEW i \in 1 .. Len(r[p])
      PROVE  \/ i \in 1 .. Len(d[p]) /\ r[p][i] = d[p][i]
             \/ r[p][i] \in M
  <2>1. CASE i <= Len(d[p])
    BY <1>1, <2>1 DEF Adds
  <2>2. CASE ~(i <= Len(d[p]))
    BY <2>2 DEF Adds
  <2>3. QED
    BY <2>1, <2>2
<1>3. Updates(d) => Updates(r)
  <2> SUFFICES ASSUME Updates(d), NEW p \in Pages, NEW i \in 1 .. Len(r[p]),
                      r[p][i].type = "update"
               PROVE  r[p][i].fakes \in SUBSET Tracks
    BY DEF Updates
  <2>1. r[p][i] \notin M
    OBVIOUS
  <2>2. QED
    BY <1>2, <2>1 DEF Updates
<1>4. Starts(d, pg, opc) /\ (\A m \in M : m.type # "start") => Starts(r, pg, opc)
  BY <1>2, PageFacts, SMTT(30) DEF Starts
<1>5. \A h \in Guests : r[h] = d[h]
  BY PageFacts
<1>6. Replies(d, opc, gpc) /\ (opc[g] # None \/ \A m \in M : m.type = "start") =>
        Replies(r, opc, gpc)
  BY <1>2, <1>5, PageFacts DEF Replies
<1>7. Candidates(d, gpc, away) => Candidates(r, gpc, away)
  BY <1>5 DEF Candidates
<1>8. QED
  BY <1>3, <1>4, <1>6, <1>7

LEMMA AnswerSentStep ==
  ASSUME IInv, Counts, NEW g \in Guests, AnswerSent(g)
  PROVE  IInv'
<1> DEFINE pc == guestPc[g]
           desc == Head(pc.chain).desc
           ms == IF pc.local = None THEN <<Sdp("answer", g, desc), Candidate(g)>>
                                    ELSE <<Sdp("answer", g, desc)>>
<1>1. /\ pc # None /\ pc.chain # <<>>
      /\ \/ /\ guestPc' = [guestPc EXCEPT ![g] = Dequeue(SetLocalAnswer(pc, desc))]
            /\ down' = To(down, Owner, ms)
         \/ guestPc' = [guestPc EXCEPT ![g] = Dequeue(pc)] /\ down' = down
      /\ UNCHANGED <<page, members, fakes, announcing, room, ownerPc, peers, streams,
                     tracks, decoding, arrays, captured, todo, fakeUsers, stopped, early,
                     cutShort, clashed>>
  BY DEF AnswerSent, Has, Waits, IInv, Typed, PeerTypes, server, owner, files, history
<1>2. pc \in PC /\ pc.sig # "local"
  BY <1>1 DEF IInv, Typed, PeerTypes
<1>3. desc \in Description \cup {None}
  <2>1. Head(pc.chain) = pc.chain[1] /\ pc.chain[1] \in Operation
    BY <1>1, <1>2, DequeueFacts
  <2>2. QED
    BY <1>2, <2>1, DescFacts
<1>4. /\ Dequeue(pc) \in PC /\ Dequeue(pc).sig # "local"
      /\ Dequeue(SetLocalAnswer(pc, desc)) \in PC
      /\ Dequeue(SetLocalAnswer(pc, desc)).sig # "local"
  <2>1. Dequeue(pc) \in PC /\ Dequeue(pc).sig # "local"
    BY <1>1, <1>2, DequeueFacts
  <2> DEFINE ac == SetLocalAnswer(pc, desc)
  <2>2. ac \in PC /\ ac.sig = "stable" /\ ac.chain # <<>>
    BY <1>1, <1>2, <1>3, SetFacts
  <2> HIDE DEF ac
  <2>3. Dequeue(ac) \in PC /\ Dequeue(ac).sig # "local"
    BY <2>2, DequeueFacts
  <2>4. QED
    BY <2>1, <2>3 DEF ac
<1>5. PICK qc \in PC : qc.sig # "local" /\ guestPc' = [guestPc EXCEPT ![g] = qc]
  BY <1>1, <1>4
<1>6. /\ guestPc \in [Guests -> {None} \cup PC] /\ guestPc'[g] = qc /\ qc # None
      /\ \A h \in Guests : h # g => guestPc'[h] = guestPc[h]
  BY <1>5, NoneAssumption DEF IInv, Typed, PeerTypes
<1>7. \A h \in Guests : guestPc[h] = None <=> guestPc'[h] = None
  BY <1>1, <1>6
<1>8. down \in Mails /\ g \in Pages /\ Owner \in Pages
  BY PageFacts DEF IInv, Typed, ServerTypes
<1>9. ms \in Seq(Message) /\ \A i \in 1 .. Len(ms) : ms[i].type \in {"answer", "candidate"} /\ ms[i].from = g
  <2> DEFINE a == Sdp("answer", g, desc)
             c == Candidate(g)
  <2>1. /\ a \in Message /\ a.type = "answer" /\ a.from = g
        /\ c \in Message /\ c.type = "candidate" /\ c.from = g
    BY <1>3, <1>8, MessageFacts
  <2> HIDE DEF a, c
  <2>2. /\ <<a, c>> \in Seq(Message) /\ <<a>> \in Seq(Message)
        /\ \A i \in 1 .. Len(<<a, c>>) : <<a, c>>[i] = a \/ <<a, c>>[i] = c
        /\ \A i \in 1 .. Len(<<a>>) : <<a>>[i] = a
    BY <2>1
  <2>3. ms = <<a, c>> \/ ms = <<a>>
    BY DEF a, c
  <2>4. QED
    BY <2>1, <2>2, <2>3
<1> HIDE DEF ms, desc
<1>10. down' \in Mails
  BY <1>1, <1>8, <1>9, ToFacts
<1>11. Typed'
  <2>1. PeerTypes'
    BY <1>1, <1>5, <1>6 DEF IInv, Typed, PeerTypes
  <2>2. QED
    BY <1>1, <1>10, <2>1 DEF IInv, Counts, Typed, ServerTypes, PageTypes, FileTypes, HistoryTypes
<1>12. Files' /\ Serving'
  BY <1>1, FilesKept, ServingKept DEF IInv
<1>13. Letters'
  <2>1. CASE down' = down
    BY <1>1, <1>7, <2>1, LettersKept DEF IInv
  <2>2. CASE down' = To(down, Owner, ms)
    <3> DEFINE M == {ms[i] : i \in 1 .. Len(ms)}
    <3>1. /\ Adds(down, down', M) /\ \A x \in Pages : x # Owner => down'[x] = down[x]
          /\ \A m \in M : m.type \in {"answer", "candidate", "start"} /\ m.from = g
          /\ \A m \in M : m.type # "start"
      BY <1>8, <1>9, <2>2, AddsTo, ToFacts
    <3> HIDE DEF M
    <3>2. /\ Updates(down') /\ Starts(down', page, ownerPc) /\ Candidates(down', guestPc, stopped)
          /\ Replies(down, ownerPc, guestPc) /\ ownerPc[g] # None => Replies(down', ownerPc, guestPc)
      BY <1>8, <1>10, <3>1, ToOwnerKeeps DEF IInv, Letters
    <3>3. Replies(down, ownerPc, guestPc) => ownerPc[g] # None
      BY <1>1 DEF Replies
    <3>4. Candidates(down', guestPc', stopped)
      BY <1>7, <3>2, SwapKeeps
    <3>5. Replies(down', ownerPc, guestPc) => Replies(down', ownerPc, guestPc')
      BY <1>7, SwapKeeps
    <3>6. QED
      BY <1>1, <3>2, <3>3, <3>4, <3>5 DEF IInv, Letters, Updates, Open, Starts, Replies,
                                          HasOffer, Candidates
  <2>3. QED
    BY <1>1, <2>1, <2>2
<1>14. SilentWithoutRoom'
  BY <1>1 DEF IInv, SilentWithoutRoom
<1>15. QED
  BY <1>11, <1>12, <1>13, <1>14 DEF IInv

-----------------------------------------------------------------------------
(* The steps of the server *)

LEMMA JoinStep ==
  ASSUME IInv, Counts, NEW g \in Guests, Join(g)
  PROVE  IInv'
<1>1. /\ page[g] = "new" /\ page' = [page EXCEPT ![g] = "open"]
      /\ members' = members \cup {g} /\ announcing' \in {announcing, announcing \cup {g}}
      /\ down' = To(down, Owner, <<Start(g)>>)
      /\ UNCHANGED <<fakes, room, ownerPc, peers, guestPc, streams, tracks, decoding, arrays,
                     captured, todo, fakeUsers, stopped, early, cutShort, clashed>>
  BY DEF Join, owner, files, history
<1>2. /\ down \in Mails /\ g \in Pages /\ Owner \in Pages /\ g # Owner
      /\ page \in [Pages -> {"new", "open", "gone"}]
  BY PageFacts DEF IInv, Typed, ServerTypes
<1>3. Start(g) \in Message /\ Start(g).type = "start" /\ Start(g).from = g
  BY MessageFacts
<1> DEFINE m == Start(g)
<1> HIDE DEF m
<1>4. /\ <<m>> \in Seq(Message) /\ {<<m>>[i] : i \in 1 .. Len(<<m>>)} = {m}
      /\ Len(<<m>>) = 1 /\ <<m>>[1] = m /\ m.type = "start" /\ m.from = g
  BY <1>3, OneMessage DEF m
<1>5. /\ down' \in Mails /\ Adds(down, down', {m})
      /\ \A x \in Pages : x # Owner => down'[x] = down[x]
      /\ Len(down'[Owner]) <= Len(down[Owner]) + 1
  <2> DEFINE ms == <<m>>
  <2>1. down' = To(down, Owner, ms) /\ ms \in Seq(Message) /\ Len(ms) = 1
    BY <1>1, <1>4 DEF m
  <2>2. Adds(down, down', {m})
    BY <1>2, <1>4, <2>1, AddsTo
  <2> HIDE DEF ms
  <2>3. /\ down' \in Mails /\ \A x \in Pages : x # Owner => down'[x] = down[x]
        /\ (Open(Owner) => Len(down'[Owner]) = Len(down[Owner]) + 1)
        /\ (~Open(Owner) => down'[Owner] = down[Owner])
    <3>1. LET r == To(down, Owner, ms) IN
          /\ r \in Mails
          /\ \A x \in Pages : x # Owner \/ ~Open(Owner) => r[x] = down[x]
          /\ Open(Owner) => Len(r[Owner]) = Len(down[Owner]) + Len(ms)
      BY <1>2, <2>1, ToFacts
    <3>2. QED
      BY <1>2, <2>1, <3>1
  <2>4. Len(down[Owner]) \in Nat
    BY <1>2 DEF Mails
  <2>5. QED
    BY <2>2, <2>3, <2>4
<1>6. Typed'
  <2>1. ServerTypes'
    BY <1>1, <1>2, <1>5 DEF IInv, Typed, ServerTypes
  <2>2. QED
    BY <1>1, <2>1 DEF IInv, Counts, Typed, PeerTypes, PageTypes, FileTypes, HistoryTypes
<1>7. Files' /\ Serving'
  BY <1>1, FilesKept, ServingKept DEF IInv
<1>8. Letters'
  <2>1. /\ Updates(down') /\ Candidates(down', guestPc, stopped)
        /\ Replies(down, ownerPc, guestPc) => Replies(down', ownerPc, guestPc)
    <3>1. /\ \A n \in {m} : n.type \in {"answer", "candidate", "start"} /\ n.from = g
          /\ \A n \in {m} : n.type = "start"
      BY <1>4
    <3>2. Updates(down) /\ Candidates(down, guestPc, stopped)
      BY DEF IInv, Letters
    <3>3. QED
      <4> DEFINE M == {m}
      <4>1. /\ Adds(down, down', M)
            /\ \A n \in M : n.type \in {"answer", "candidate", "start"} /\ n.from = g
            /\ \A n \in M : n.type = "start"
        BY <1>5, <3>1
      <4> HIDE DEF M
      <4>2. QED
        BY <1>2, <1>5, <3>2, <4>1, ToOwnerKeeps
  <2>2. Starts(down', page', ownerPc)
    <3>1. Starts(down, page, ownerPc)
      BY DEF IInv, Letters
    <3>2. /\ ownerPc[g] = None /\ page'[g] = "open"
          /\ \A p \in Pages : page'[p] = "new" => page[p] = "new"
          /\ \A p \in Pages : page[p] # "new" => page'[p] # "new"
      BY <1>1, <1>2, <3>1 DEF Starts
    <3>3. Len(down[Owner]) \in Nat /\ Len(down'[Owner]) \in Nat
      BY <1>2, <1>5 DEF Mails
    <3>4. ASSUME NEW i \in 1 .. Len(down'[Owner])
          PROVE  \/ i \in 1 .. Len(down[Owner]) /\ down'[Owner][i] = down[Owner][i]
                 \/ i = Len(down[Owner]) + 1 /\ down'[Owner][i] = m
      <4>1. CASE i <= Len(down[Owner])
        BY <1>2, <1>5, <3>3, <4>1 DEF Adds
      <4>2. CASE ~(i <= Len(down[Owner]))
        BY <1>2, <1>5, <3>3, <4>2 DEF Adds
      <4>3. QED
        BY <4>1, <4>2
    <3>5. \A i \in 1 .. Len(down[Owner]) : down[Owner][i].type = "start" =>
            down[Owner][i].from # g /\ down[Owner][i].from \in Pages
      BY <1>1, <3>1, PageFacts DEF Starts
    <3>6. \A i \in 1 .. Len(down'[Owner]) : down'[Owner][i].type = "start" =>
            /\ down'[Owner][i].from \in Guests /\ page'[down'[Owner][i].from] # "new"
            /\ ownerPc[down'[Owner][i].from] = None
      <4> TAKE i \in 1 .. Len(down'[Owner])
      <4>1. CASE i \in 1 .. Len(down[Owner]) /\ down'[Owner][i] = down[Owner][i]
        BY <3>1, <3>2, <3>5, <4>1 DEF Starts
      <4>2. CASE down'[Owner][i] = m
        BY <1>4, <3>2, <4>2
      <4>3. QED
        BY <3>4, <4>1, <4>2
    <3>7. ASSUME NEW i \in 1 .. Len(down'[Owner]), NEW j \in 1 .. Len(down'[Owner]),
                 down'[Owner][i].type = "start", down'[Owner][j].type = "start",
                 down'[Owner][i].from = down'[Owner][j].from
          PROVE  i = j
      <4>1. CASE i \in 1 .. Len(down[Owner]) /\ down'[Owner][i] = down[Owner][i]
        BY <1>4, <3>1, <3>4, <3>5, <3>7, <4>1 DEF Starts
      <4>2. CASE i = Len(down[Owner]) + 1 /\ down'[Owner][i] = m
        BY <1>4, <3>4, <3>5, <3>7, <4>2
      <4>3. QED
        BY <3>4, <4>1, <4>2
    <3>8. \A h \in Guests : page'[h] = "new" => ownerPc[h] = None
      BY <3>1, <3>2, PageFacts DEF Starts
    <3>9. QED
      BY <3>6, <3>7, <3>8 DEF Starts
  <2>3. Open(Owner)' => Open(Owner)
    BY <1>1, <1>2 DEF Open
  <2>4. QED
    BY <1>1, <2>1, <2>2, <2>3 DEF IInv, Letters, Updates, Starts, Replies, HasOffer, Candidates
<1>9. SilentWithoutRoom'
  BY <1>1 DEF IInv, SilentWithoutRoom
<1>10. QED
  BY <1>6, <1>7, <1>8, <1>9 DEF IInv

\* What a step of the server sends, and to whom.
LEMMA ServerSends ==
  ASSUME Server
  PROVE  /\ announcing' \subseteq announcing /\ members' \subseteq members
         /\ \/ down' = down
            \/ \E w \in unsent : /\ down' = To(down, w.to, <<Update(w.fakes)>>)
                                 /\ members' = members
         /\ UNCHANGED <<page, fakes, room, ownerPc, peers, guestPc, streams, tracks, decoding,
                        arrays, captured, todo, fakeUsers, stopped, early, kept, cutShort,
                        clashed>>
<1>1. CASE \E g \in Guests : Announce(g)
  BY <1>1 DEF Announce, owner, files, history
<1>2. CASE \E p \in Pages : LeaveRoom(p)
  BY <1>2 DEF LeaveRoom, owner, files, history
<1>3. CASE \E w \in unsent : SendUpdate(w)
  BY <1>3 DEF SendUpdate, owner, files
<1>4. QED
  BY <1>1, <1>2, <1>3 DEF Server

LEMMA TellStep ==
  ASSUME IInv, Notes, Counts, Server
  PROVE  IInv'
<1>1. /\ announcing' \subseteq announcing /\ members' \subseteq members
      /\ UNCHANGED <<page, fakes, room, ownerPc, peers, guestPc, streams, tracks, decoding,
                     arrays, captured, todo, fakeUsers, stopped, early, cutShort, clashed>>
  BY ServerSends
<1>2. down \in Mails
  BY DEF IInv, Typed, ServerTypes
<1>3. /\ down' \in Mails
      /\ \E M : /\ Adds(down, down', M)
                /\ \A m \in M : m.type = "update" /\ m.fakes \in SUBSET Tracks
  <2>1. CASE down' = down
    <3>1. Adds(down, down', {})
      BY <1>2, <2>1 DEF Adds, Mails
    <3>2. QED
      BY <1>2, <2>1, <3>1
  <2>2. CASE down' # down
    <3>1. PICK w \in unsent : down' = To(down, w.to, <<Update(w.fakes)>>)
      BY <2>2, ServerSends
    <3>2. w.to \in Pages /\ w.fakes \in SUBSET Tracks
      BY DEF Notes, Write
    <3> DEFINE m == Update(w.fakes)
    <3>3. m \in Message /\ m.type = "update" /\ m.fakes \in SUBSET Tracks
      BY <3>2, MessageFacts
    <3>4. down' = To(down, w.to, <<m>>)
      BY <3>1
    <3> HIDE DEF m
    <3>5. <<m>> \in Seq(Message) /\ {<<m>>[i] : i \in 1 .. Len(<<m>>)} = {m}
      BY <3>3, OneMessage
    <3>6. down' \in Mails
      BY <1>2, <3>2, <3>4, <3>5, ToFacts
    <3>7. Adds(down, down', {m})
      BY <1>2, <3>2, <3>4, <3>5, AddsTo
    <3>8. QED
      BY <3>3, <3>6, <3>7
  <2>3. QED
    BY <2>1, <2>2
<1>4. down' \in Mails
  BY <1>3
<1>5. Typed'
  BY <1>1, <1>4 DEF IInv, Counts, Typed, ServerTypes, PageTypes, PeerTypes, FileTypes,
                    HistoryTypes
<1>6. Files' /\ Serving'
  BY <1>1, FilesKept, ServingKept DEF IInv
<1>7. Letters'
  BY <1>1, <1>3, <1>4, LettersKept DEF IInv
<1>8. SilentWithoutRoom'
  BY <1>1 DEF IInv, SilentWithoutRoom
<1>9. QED
  BY <1>5, <1>6, <1>7, <1>8 DEF IInv

-----------------------------------------------------------------------------
(* What the loops keep when one connection of the owner changes *)

LEMMA OneFacts ==
  ASSUME NEW opc \in [Guests -> {None} \cup PC], NEW g \in Guests, NEW qc \in PC,
         NEW qpc, qpc = [opc EXCEPT ![g] = qc]
  PROVE  /\ qpc \in [Guests -> {None} \cup PC] /\ qpc[g] = qc /\ qc # None
         /\ \A h \in Guests : h # g => qpc[h] = opc[h]
BY NoneAssumption

LEMMA StarOne ==
  ASSUME NEW opc \in [Guests -> {None} \cup PC], NEW g \in Guests, NEW qc \in PC,
         NEW qpc, qpc = [opc EXCEPT ![g] = qc], NEW ps, Star(opc, ps), opc[g] # None
  PROVE  Star(qpc, ps)
<1>1. \A h \in Guests : qpc[h] = None <=> opc[h] = None
  BY OneFacts
<1>2. QED
  BY <1>1 DEF Star

LEMMA OrderlyOne ==
  ASSUME NEW opc \in [Guests -> {None} \cup PC], NEW g \in Guests, NEW qc \in PC,
         NEW qpc, qpc = [opc EXCEPT ![g] = qc], NEW ps \in Seq(Guests), NEW td,
         Orderly(opc, td, ps), Keeps(opc[g].chain, qc.chain)
  PROVE  Orderly(qpc, td, ps)
<1>1. qpc[g] = qc /\ \A h \in Guests : h # g => qpc[h] = opc[h]
  BY OneFacts
<1>2. \A x \in 1 .. Len(ps) : Keeps(At(opc, ps, x), At(qpc, ps, x))
  <2> TAKE x \in 1 .. Len(ps)
  <2>1. ps[x] \in Guests
    OBVIOUS
  <2>2. CASE ps[x] = g
    BY <1>1, <2>2 DEF At
  <2>3. CASE ps[x] # g
    <3>1. At(qpc, ps, x) = At(opc, ps, x)
      BY <1>1, <2>1, <2>3 DEF At
    <3>2. QED
      BY <3>1, KeepsSame
  <2>4. QED
    BY <2>2, <2>3
<1>3. QED
  BY <1>2, KeepsOrderly

LEMMA ChangeOne ==
  ASSUME NEW opc \in [Guests -> {None} \cup PC], NEW g \in Guests, NEW qc \in PC,
         NEW qpc, qpc = [opc EXCEPT ![g] = qc], NEW td, Change(opc, td), opc[g] # None,
         \/ Offered(qc)
         \/ NoCreate(qc.chain) => NoCreate(opc[g].chain) /\ (Offered(opc[g]) => Offered(qc))
  PROVE  Change(qpc, td)
<1>1. qpc[g] = qc /\ \A h \in Guests : h # g => qpc[h] = opc[h]
  BY OneFacts
<1>2. SUFFICES ASSUME NEW h \in Guests, qpc[h] # None, NoCreate(qpc[h].chain), ~Waited(td, h)
               PROVE  Offered(qpc[h])
  BY DEF Change
<1>3. CASE h = g
  BY <1>1, <1>2, <1>3 DEF Change
<1>4. CASE h # g
  BY <1>1, <1>2, <1>4 DEF Change
<1>5. QED
  BY <1>3, <1>4

LEMMA NoCreateTail ==
  ASSUME NEW s \in Seq(Operation), s # <<>>, s[1].kind # "create", NoCreate(Tail(s))
  PROVE  NoCreate(s)
<1>1. /\ Len(s) \in Nat /\ Len(s) > 0 /\ Len(Tail(s)) = Len(s) - 1
      /\ \A i \in 1 .. Len(s) - 1 : Tail(s)[i] = s[i + 1]
  BY TailFacts
<1>2. SUFFICES ASSUME NEW i \in 1 .. Len(s) PROVE s[i].kind # "create"
  BY DEF NoCreate
<1>3. CASE i = 1
  BY <1>3
<1>4. CASE i # 1
  <2>1. i - 1 \in 1 .. Len(s) - 1 /\ (i - 1) + 1 = i
    BY <1>1, <1>4
  <2>2. QED
    BY <1>1, <2>1 DEF NoCreate
<1>5. QED
  BY <1>3, <1>4

LEMMA NoCreateAppend ==
  ASSUME NEW s \in Seq(Operation), NEW o \in Operation, NoCreate(Append(s, o))
  PROVE  NoCreate(s)
BY AppendFacts DEF NoCreate

-----------------------------------------------------------------------------
(* The steps of the owner's page that concern one connection *)

\* The parts of the invariant when one connection changes and nothing else.
LEMMA OneStep ==
  ASSUME IInv, Counts, NEW g \in Guests, ownerPc[g] # None, NEW qc \in PC,
         qc.sig # "remote",
         ownerPc' = [ownerPc EXCEPT ![g] = qc], Keeps(ownerPc[g].chain, qc.chain),
         \/ Offered(qc)
         \/ NoCreate(qc.chain) =>
              NoCreate(ownerPc[g].chain) /\ (Offered(ownerPc[g]) => Offered(qc)),
         UNCHANGED <<page, members, fakes, announcing, room, peers, guestPc, streams, tracks,
                     decoding, arrays, captured, todo, fakeUsers, stopped, early, cutShort,
                     clashed>>,
         \/ down' = down
         \/ \E p \in Pages : /\ down[p] # <<>> /\ down' = Rest(p)
                             /\ Head(down[p]).type # "offer"
  PROVE  IInv'
<1>1. /\ ownerPc \in [Guests -> {None} \cup PC] /\ peers \in Seq(Guests) /\ down \in Mails
  BY DEF IInv, Typed, ServerTypes, PeerTypes
<1>2. /\ ownerPc' \in [Guests -> {None} \cup PC] /\ ownerPc'[g] = qc /\ qc # None
      /\ \A h \in Guests : h # g => ownerPc'[h] = ownerPc[h]
  BY <1>1, OneFacts
<1>3. down' \in Mails
  BY <1>1, RestFacts
<1>4. Typed'
  <2>1. PeerTypes'
    BY <1>2 DEF IInv, Typed, PeerTypes
  <2>2. QED
    BY <1>3, <2>1 DEF IInv, Counts, Typed, ServerTypes, PageTypes, FileTypes, HistoryTypes
<1>5. Files'
  BY FilesKept DEF IInv
<1>6. Serving'
  <2>1. Star(ownerPc, peers) /\ Orderly(ownerPc, todo, peers) /\ Change(ownerPc, todo)
    BY DEF IInv, Serving
  <2>2. Star(ownerPc', peers)
    BY <1>1, <2>1, StarOne
  <2>3. Orderly(ownerPc', todo, peers)
    BY <1>1, <2>1, OrderlyOne
  <2>4. Change(ownerPc', todo)
    BY <1>1, <2>1, ChangeOne
  <2>5. QED
    BY <2>2, <2>3, <2>4, ServingMade
<1>7. Letters'
  BY <1>2, LettersKept DEF IInv
<1>8. SilentWithoutRoom'
  BY DEF IInv, SilentWithoutRoom
<1>9. QED
  BY <1>4, <1>5, <1>6, <1>7, <1>8 DEF IInv

LEMMA AnswerStep ==
  ASSUME IInv, Counts, onAnswer
  PROVE  IInv'
<1> DEFINE g == Head(down[Owner]).from
           desc == Head(down[Owner]).desc
           qc == Queue(ownerPc[g], "remote", desc, Reply)
<1>1. /\ down[Owner] # <<>> /\ down' = Rest(Owner) /\ Head(down[Owner]).type = "answer"
      /\ ownerPc' = [ownerPc EXCEPT ![g] = IF ownerPc[g] = None THEN None ELSE qc]
      /\ UNCHANGED <<page, members, fakes, announcing, room, peers, guestPc, streams, tracks,
                     decoding, arrays, captured, todo, fakeUsers, stopped, early, cutShort,
                     clashed>>
  BY DEF onAnswer, Gets, IInv, Typed, PeerTypes, server, files, history
<1>2. /\ down \in Mails /\ Owner \in Pages /\ ownerPc \in [Guests -> {None} \cup PC]
  BY PageFacts DEF IInv, Typed, ServerTypes, PeerTypes
<1>3. /\ Rest(Owner) \in Mails /\ Head(down[Owner]) \in Message
  BY <1>1, <1>2, RestFacts
<1>4. desc \in Description \cup {None}
  BY <1>3 DEF Message
<1> HIDE DEF g, desc
<1>5. CASE g \in Guests /\ ownerPc[g] # None
  <2> DEFINE pc == ownerPc[g]
             o == [kind |-> "remote", desc |-> desc, job |-> Reply]
  <2>1. pc \in PC /\ pc.sig # "remote"
    BY <1>5 DEF IInv, Typed, PeerTypes
  <2> HIDE DEF pc
  <2>2. /\ qc \in PC /\ qc.sig = pc.sig /\ qc.chain = Append(pc.chain, o)
        /\ pc.chain \in Seq(Operation) /\ o \in Operation
    <3>1. qc = Queue(pc, "remote", desc, Reply)
      BY DEF pc
    <3> HIDE DEF qc
    <3>2. QED
      BY <1>4, <2>1, <3>1, QueueFacts, JobFacts
  <2>3. o.kind = "remote"
    OBVIOUS
  <2>4. Offered(pc) => Offered(qc)
    BY <1>4, <2>1, OfferedRemote DEF pc
  <2> HIDE DEF o, qc
  <2>5. Keeps(pc.chain, qc.chain) /\ (NoCreate(qc.chain) => NoCreate(pc.chain))
    BY <2>2, <2>3, KeepsRemote, NoCreateAppend
  <2>6. ownerPc' = [ownerPc EXCEPT ![g] = qc]
    BY <1>1, <1>5
  <2>7. QED
    BY <1>1, <1>2, <1>5, <2>1, <2>2, <2>4, <2>5, <2>6, OneStep DEF pc
<1>6. CASE ~(g \in Guests /\ ownerPc[g] # None)
  <2>1. ownerPc' = ownerPc
    BY <1>1, <1>2, <1>6
  <2>2. Typed'
    BY <1>1, <1>3, <2>1 DEF IInv, Counts, Typed, ServerTypes, PageTypes, PeerTypes, FileTypes,
                            HistoryTypes
  <2>3. Files' /\ Serving'
    BY <1>1, <2>1, FilesKept, ServingKept DEF IInv
  <2>4. Letters'
    BY <1>1, <1>2, <2>1, LettersKept DEF IInv
  <2>5. SilentWithoutRoom'
    BY <1>1 DEF IInv, SilentWithoutRoom
  <2>6. QED
    BY <2>2, <2>3, <2>4, <2>5 DEF IInv
<1>7. QED
  BY <1>5, <1>6

LEMMA OfferMadeStep ==
  ASSUME IInv, Counts, NEW g \in Guests, OfferMade(g)
  PROVE  IInv'
<1> DEFINE pc == ownerPc[g]
           o == [kind |-> "local", desc |-> Offer(pc), job |-> pc.chain[1].job]
           qc == Create(pc, Offer(pc))
<1>1. /\ pc # None /\ pc.chain # <<>> /\ Head(pc.chain).kind = "create"
      /\ ownerPc' = [ownerPc EXCEPT ![g] = qc] /\ down' = down
      /\ UNCHANGED <<page, members, fakes, announcing, room, peers, guestPc, streams, tracks,
                     decoding, arrays, captured, todo, fakeUsers, stopped, early, cutShort,
                     clashed>>
  BY DEF OfferMade, Has, Waits, IInv, Typed, PeerTypes, server, files, history
<1>2. pc \in PC /\ pc.sig # "remote"
  BY <1>1 DEF IInv, Typed, PeerTypes
<1>3. /\ qc \in PC /\ qc.sig = pc.sig /\ o \in Operation /\ pc.chain \in Seq(Operation)
      /\ qc.chain = Append(Tail(pc.chain), o) /\ Offered(qc)
  <2> HIDE DEF pc
  <2>1. QED
    BY <1>1, <1>2, OfferedMade
<1>4. o.kind = "local" /\ o.job = pc.chain[1].job
  OBVIOUS
<1> HIDE DEF o, qc
<1>5. Keeps(pc.chain, qc.chain)
  <2>1. pc.chain[1].kind = "create"
    BY <1>1, <1>3, TailFacts
  <2>2. QED
    BY <1>1, <1>3, <1>4, <2>1, KeepsCreate
<1>6. QED
  BY <1>1, <1>2, <1>3, <1>5, OneStep

LEMMA AnswerAppliedStep ==
  ASSUME IInv, Counts, NEW g \in Guests, AnswerApplied(g)
  PROVE  IInv'
<1> DEFINE pc == ownerPc[g]
           desc == Head(pc.chain).desc
           rc == IF AnswerFits(pc, desc) THEN SetRemoteAnswer(pc, desc) ELSE pc
           qc == Dequeue(rc)
<1>1. /\ pc # None /\ pc.chain # <<>> /\ Head(pc.chain).kind = "remote"
      /\ ownerPc' = [ownerPc EXCEPT ![g] = qc] /\ down' = down
      /\ UNCHANGED <<page, members, fakes, announcing, room, peers, guestPc, streams, tracks,
                     decoding, arrays, captured, todo, fakeUsers, stopped, early, cutShort,
                     clashed>>
  BY DEF AnswerApplied, Has, Waits, IInv, Typed, PeerTypes, server, files, history
<1>2. pc \in PC /\ pc.sig # "remote"
  BY <1>1 DEF IInv, Typed, PeerTypes
<1>3. /\ pc.chain \in Seq(Operation) /\ Head(pc.chain) = pc.chain[1]
      /\ pc.chain[1] \in Operation /\ desc \in Description \cup {None}
  <2>1. /\ pc.chain \in Seq(Operation) /\ Head(pc.chain) = pc.chain[1]
        /\ pc.chain[1] \in Operation
    BY <1>1, <1>2, DequeueFacts
  <2>2. QED
    BY <1>2, <2>1, DescFacts
<1>4. /\ rc \in PC /\ rc.sig # "remote" /\ rc.chain = pc.chain /\ rc.sending = pc.sending
      /\ rc.local = pc.local
  BY <1>2, <1>3, SetFacts
<1> HIDE DEF rc, desc
<1>5. /\ qc \in PC /\ qc.sig = rc.sig /\ qc.chain = Tail(pc.chain)
      /\ qc.sending = pc.sending /\ qc.local = pc.local
  BY <1>1, <1>4, DequeueFacts
<1> HIDE DEF qc
<1>6. /\ Keeps(pc.chain, qc.chain) /\ (NoCreate(qc.chain) => NoCreate(pc.chain))
      /\ (Offered(pc) => Offered(qc))
  BY <1>1, <1>2, <1>3, <1>5, KeepsTail, NoCreateTail, OfferedTail
<1>7. QED
  BY <1>1, <1>2, <1>4, <1>5, <1>6, OneStep

LEMMA StartStep ==
  ASSUME IInv, Counts, onStartPeerConnection
  PROVE  IInv'
<1> DEFINE g == Head(down[Owner]).from
           nc == NewPC(tracks)
           o == [kind |-> "create", desc |-> None, job |-> Connect]
           qc == Queue(nc, "create", None, Connect)
           ps == Append(peers, g)
<1>1. /\ down[Owner] # <<>> /\ down' = Rest(Owner) /\ Head(down[Owner]).type = "start"
      /\ ownerPc' = [ownerPc EXCEPT ![g] = qc] /\ peers' = ps
      /\ UNCHANGED <<page, members, fakes, announcing, room, guestPc, streams, tracks,
                     decoding, arrays, captured, todo, fakeUsers, stopped, early, cutShort,
                     clashed>>
  BY DEF onStartPeerConnection, Gets, IInv, Typed, PeerTypes, server, files, history
<1>2. /\ down \in Mails /\ Owner \in Pages /\ ownerPc \in [Guests -> {None} \cup PC]
      /\ peers \in Seq(Guests) /\ tracks \in SUBSET Tracks
      /\ Star(ownerPc, peers) /\ Orderly(ownerPc, todo, peers) /\ Change(ownerPc, todo)
  BY PageFacts DEF IInv, Typed, ServerTypes, PeerTypes, FileTypes, Serving
<1>3. /\ Rest(Owner) \in Mails /\ Head(down[Owner]) = down[Owner][1]
      /\ Len(down[Owner]) \in Nat /\ Len(down[Owner]) > 0
      /\ Len(Rest(Owner)[Owner]) = Len(down[Owner]) - 1
      /\ \A i \in 1 .. Len(down[Owner]) - 1 : Rest(Owner)[Owner][i] = down[Owner][i + 1]
  BY <1>1, <1>2, RestFacts
<1>4. g \in Guests /\ page[g] # "new" /\ ownerPc[g] = None
  BY <1>1, <1>3 DEF IInv, Letters, Starts
<1>5. qc \in PC /\ qc.sig = "stable" /\ qc.chain = <<o>>
  <2>1. nc \in PC /\ nc.sig = "stable" /\ nc.chain = <<>>
    BY <1>2, NewPCFacts
  <2> HIDE DEF nc
  <2>2. qc \in PC /\ qc.sig = nc.sig /\ qc.chain = Append(nc.chain, o)
    BY <2>1, QueueFacts, JobFacts
  <2>3. QED
    BY <2>1, <2>2
<1>6. o.kind = "create" /\ o.job = Connect
  OBVIOUS
<1> HIDE DEF g, qc, o
<1>7. /\ ownerPc' \in [Guests -> {None} \cup PC] /\ ownerPc'[g] = qc /\ qc # None
      /\ \A h \in Guests : h # g => ownerPc'[h] = ownerPc[h]
  BY <1>1, <1>2, <1>4, <1>5, OneFacts
<1>8. /\ ps \in Seq(Guests) /\ Len(peers) \in Nat /\ Len(ps) = Len(peers) + 1
      /\ \A i \in 1 .. Len(peers) : ps[i] = peers[i] /\ peers[i] \in Guests
      /\ ps[Len(peers) + 1] = g
  BY <1>2, <1>4, AppendFacts
<1>9. \A x \in 1 .. Len(peers) : peers[x] # g
  BY <1>2, <1>4 DEF Star
<1> HIDE DEF ps
<1>10. Typed'
  <2>1. PeerTypes'
    BY <1>1, <1>5, <1>7, <1>8 DEF IInv, Typed, PeerTypes
  <2>2. QED
    BY <1>1, <1>3, <2>1 DEF IInv, Counts, Typed, ServerTypes, PageTypes, FileTypes, HistoryTypes
<1>11. Files'
  BY <1>1, FilesKept DEF IInv
<1>12. Serving'
  <2>1. Star(ownerPc', ps)
    <3>1. \A x \in 1 .. Len(ps) : x \in 1 .. Len(peers) \/ x = Len(peers) + 1
      BY <1>8
    <3>2. \A x, y \in 1 .. Len(ps) : ps[x] = ps[y] => x = y
      BY <1>2, <1>8, <1>9, <3>1 DEF Star
    <3>3. ASSUME NEW h \in Guests
          PROVE  ownerPc'[h] # None <=> \E x \in 1 .. Len(ps) : ps[x] = h
      <4>1. CASE h = g
        BY <1>7, <1>8, <4>1
      <4>2. CASE h # g
        <5>1. (\E x \in 1 .. Len(ps) : ps[x] = h) <=> \E x \in 1 .. Len(peers) : peers[x] = h
          BY <1>8, <3>1, <4>2
        <5>2. QED
          BY <1>2, <1>7, <4>2, <5>1 DEF Star
      <4>3. QED
        BY <4>1, <4>2
    <3>4. QED
      BY <3>2, <3>3 DEF Star
  <2>2. Orderly(ownerPc', todo, ps)
    <3>1. At(ownerPc', Append(peers, g), Len(peers) + 1) = <<o>>
      BY <1>5, <1>7, <1>8 DEF At, ps
    <3>2. \A x \in 1 .. Len(peers) : At(ownerPc', Append(peers, g), x) = At(ownerPc, peers, x)
      BY <1>7, <1>8, <1>9 DEF At, ps
    <3>3. QED
      BY <1>2, <1>4, <1>6, <3>1, <3>2, ConnectOrderly DEF ps
  <2>3. Change(ownerPc', todo)
    <3>1. ~NoCreate(qc.chain)
      BY <1>5, <1>6 DEF NoCreate
    <3>2. QED
      BY <1>2, <1>7, <3>1 DEF Change
  <2>4. QED
    BY <1>1, <2>1, <2>2, <2>3, ServingMade DEF ps
<1>13. Letters'
  <2>1. /\ Updates(Rest(Owner)) /\ Starts(Rest(Owner), page, ownerPc)
        /\ Candidates(Rest(Owner), guestPc, stopped)
        /\ Replies(down, ownerPc, guestPc) => Replies(Rest(Owner), ownerPc, guestPc)
    BY <1>1, <1>2, RestKeeps DEF IInv, Letters
  <2>2. Starts(Rest(Owner), page, ownerPc')
    <3>1. ASSUME NEW i \in 1 .. Len(Rest(Owner)[Owner]), Rest(Owner)[Owner][i].type = "start"
          PROVE  Rest(Owner)[Owner][i].from # g
      <4>1. /\ i + 1 \in 1 .. Len(down[Owner]) /\ 1 \in 1 .. Len(down[Owner]) /\ i + 1 # 1
            /\ Rest(Owner)[Owner][i] = down[Owner][i + 1]
        BY <1>3
      <4>2. down[Owner][1].type = "start" /\ down[Owner][1].from = g
        BY <1>1, <1>3 DEF g
      <4>3. QED
        BY <3>1, <4>1, <4>2 DEF IInv, Letters, Starts
    <3>2. QED
      BY <1>4, <1>7, <2>1, <3>1 DEF Starts
  <2>3. Replies(Rest(Owner), ownerPc, guestPc) => Replies(Rest(Owner), ownerPc', guestPc)
    BY <1>7 DEF Replies
  <2>4. QED
    BY <1>1, <2>1, <2>2, <2>3 DEF IInv, Letters, Updates, Open, Starts, Replies, HasOffer,
                                  Candidates
<1>14. SilentWithoutRoom'
  BY <1>1 DEF IInv, SilentWithoutRoom
<1>15. QED
  BY <1>10, <1>11, <1>12, <1>13, <1>14 DEF IInv

-----------------------------------------------------------------------------
(* Files are chosen, pages go, conferences are stopped *)

LEMMA ChooseStep ==
  ASSUME IInv, Counts, NEW t \in Tracks, ChooseFile(t)
  PROVE  IInv'
<1>1. /\ \A i \in 1 .. Len(arrays) : t \notin arrays[i]
      /\ decoding' = decoding \cup {t} /\ captured' = [captured EXCEPT ![Load(t)] = fakeUsers]
      /\ clashed' \in {clashed, Clashing \cup {t}}
      /\ UNCHANGED <<page, members, fakes, announcing, down, room, ownerPc, peers, guestPc,
                     streams, tracks, arrays, todo, fakeUsers, stopped, early, cutShort>>
  BY DEF ChooseFile, server, owner
<1>2. Typed'
  BY <1>1 DEF Clashing, IInv, Counts, Typed, ServerTypes, PageTypes, PeerTypes, FileTypes, HistoryTypes
<1>3. Files'
  BY <1>1, SMTT(30) DEF IInv, Typed, FileTypes, Files, Counts
<1>4. Serving'
  BY <1>1, ServingKept DEF IInv
<1>5. Letters'
  BY <1>1, LettersKept DEF IInv
<1>6. SilentWithoutRoom'
  BY <1>1 DEF IInv, SilentWithoutRoom
<1>7. QED
  BY <1>2, <1>3, <1>4, <1>5, <1>6 DEF IInv

\* An owner without peers serves nobody.
LEMMA NobodyServed ==
  ASSUME ownerPc' = [g \in Guests |-> None], peers' = <<>>
  PROVE  Serving'
<1>1. Len(peers') = 0 /\ \A g \in Guests : ownerPc'[g] = None
  OBVIOUS
<1>2. QED
  BY <1>1 DEF Serving, Star, Orderly, InLine, Once, First, Order, Change

LEMMA GoneStep ==
  ASSUME IInv, Counts, NEW p \in Pages, Gone(p)
  PROVE  IInv'
<1>1. /\ page' = [page EXCEPT ![p] = "gone"] /\ down' = [down EXCEPT ![p] = <<>>]
      /\ room' = [room EXCEPT ![p] = None]
      /\ guestPc' = [g \in Guests |-> IF g = p THEN None ELSE guestPc[g]]
      /\ streams' = [g \in Guests |-> IF g = p THEN {} ELSE streams[g]]
      /\ UNCHANGED <<members, fakes, announcing, arrays, captured, fakeUsers, stopped, early,
                     cutShort, clashed>>
  BY DEF Gone, server, history
<1>2. p = Owner => /\ ownerPc' = [g \in Guests |-> None] /\ peers' = <<>>
                   /\ tracks' = {} /\ decoding' = {} /\ todo' = [job \in Loops |-> None]
  BY DEF Gone
<1>3. p # Owner => UNCHANGED <<ownerPc, peers, tracks, decoding, todo>>
  BY DEF Gone, owner
<1>4. /\ down \in Mails /\ page \in [Pages -> {"new", "open", "gone"}]
      /\ ownerPc \in [Guests -> {None} \cup PC] /\ guestPc \in [Guests -> {None} \cup PC]
  BY DEF IInv, Typed, ServerTypes, PeerTypes
<1>5. /\ down' \in Mails /\ Len(down'[p]) = 0 /\ \A x \in Pages : x # p => down'[x] = down[x]
  BY <1>1, <1>4 DEF Mails
<1>6. Typed'
  <2>1. ServerTypes' /\ PageTypes' /\ HistoryTypes'
    BY <1>1, <1>5 DEF IInv, Typed, ServerTypes, PageTypes, HistoryTypes
  <2>2. CASE p = Owner
    BY <1>1, <1>2, <2>1, <2>2 DEF IInv, Typed, Counts, PeerTypes, FileTypes
  <2>3. CASE p # Owner
    BY <1>1, <1>3, <2>1, <2>3 DEF IInv, Typed, Counts, PeerTypes, FileTypes
  <2>4. QED
    BY <2>2, <2>3
<1>7. Files'
  <2>1. CASE p = Owner
    <3>1. \A t \in Tracks : todo'[Load(t)] = None
      BY <1>2, <2>1, JobFacts
    <3>2. QED
      BY <1>1, <1>2, <2>1, <3>1 DEF IInv, Typed, FileTypes, Files, Counts
  <2>2. CASE p # Owner
    BY <1>1, <1>3, <2>2, FilesKept DEF IInv
  <2>3. QED
    BY <2>1, <2>2
<1>8. Serving'
  BY <1>2, <1>3, NobodyServed, ServingKept DEF IInv
<1>9. Letters'
  <2>1. /\ Updates(down) /\ Starts(down, page, ownerPc) /\ Candidates(down, guestPc, stopped)
        /\ (Open(Owner) /\ Owner \notin stopped => Replies(down, ownerPc, guestPc))
    BY DEF IInv, Letters
  <2>2. Updates(down')
    BY <1>5, <2>1 DEF Updates
  <2>3. Starts(down', page', ownerPc')
    <3>1. \A x \in Pages : page'[x] = "new" => x # p /\ page[x] = "new"
      BY <1>1, <1>4
    <3>2. CASE p = Owner
      BY <1>2, <1>5, <3>2 DEF Starts
    <3>3. CASE p # Owner
      BY <1>1, <1>3, <1>4, <1>5, <2>1, <3>1, <3>3, PageFacts DEF Starts
    <3>4. QED
      BY <3>2, <3>3
  <2>4. Open(Owner)' => p # Owner /\ Open(Owner)
    BY <1>1, <1>4, PageFacts DEF Open
  <2>5. p # Owner /\ Replies(down, ownerPc, guestPc) => Replies(down', ownerPc', guestPc')
    <3>1. \A g \in Guests : g = p => guestPc'[g] = None /\ ~HasOffer(down'[g])
      BY <1>1, <1>5 DEF HasOffer
    <3>2. \A g \in Guests : g # p => guestPc'[g] = guestPc[g] /\ down'[g] = down[g]
      BY <1>1, <1>5, PageFacts
    <3>3. QED
      BY <1>3, <1>5, <3>1, <3>2, PageFacts DEF Replies
  <2>6. Candidates(down', guestPc', stopped)
    <3>1. \A g \in Guests : g # p => guestPc'[g] = guestPc[g] /\ down'[g] = down[g]
      BY <1>1, <1>5, PageFacts
    <3>2. QED
      BY <1>5, <2>1, <3>1 DEF Candidates
  <2>7. QED
    BY <1>1, <2>1, <2>2, <2>3, <2>4, <2>5, <2>6
       DEF Letters, Updates, Starts, Replies, HasOffer, Candidates
<1>10. SilentWithoutRoom'
  BY <1>1, PageFacts DEF IInv, Typed, PageTypes, SilentWithoutRoom
<1>11. QED
  BY <1>6, <1>7, <1>8, <1>9, <1>10 DEF IInv

LEMMA StopStep ==
  ASSUME IInv, Counts, NEW p \in Pages, stopConference(p)
  PROVE  IInv'
<1>1. /\ stopped' = stopped \cup {p} /\ room' = [room EXCEPT ![p] = None]
      /\ guestPc' = [g \in Guests |-> IF g = p THEN None ELSE guestPc[g]]
      /\ streams' = [g \in Guests |-> IF g = p THEN {} ELSE streams[g]]
      /\ UNCHANGED <<page, members, fakes, announcing, down, decoding, arrays, captured,
                     fakeUsers, early, clashed>>
  BY DEF stopConference, Silenced, server, files
<1>2. p = Owner => /\ ownerPc' = [g \in Guests |-> None] /\ peers' = <<>>
                   /\ tracks' = {} /\ todo' = [job \in Loops |-> None]
                   /\ cutShort' = cutShort \cup Running("load") \cup Running("drop")
  BY DEF stopConference
<1>3. p # Owner => UNCHANGED <<ownerPc, peers, tracks, todo, cutShort>>
  BY DEF stopConference, owner
<1>4. \A kind : Running(kind) \subseteq Tracks
  BY JobFacts DEF Running
<1>5. Typed'
  <2>1. ServerTypes' /\ PageTypes'
    BY <1>1 DEF IInv, Typed, ServerTypes, PageTypes
  <2>2. CASE p = Owner
    <3>1. PeerTypes' /\ FileTypes'
      BY <1>1, <1>2, <2>2 DEF IInv, Typed, Counts, PeerTypes, FileTypes
    <3>2. HistoryTypes'
      BY <1>1, <1>2, <1>4, <2>2 DEF IInv, Typed, HistoryTypes
    <3>3. QED
      BY <2>1, <3>1, <3>2 DEF Typed
  <2>3. CASE p # Owner
    BY <1>1, <1>3, <2>1, <2>3 DEF IInv, Typed, Counts, PeerTypes, FileTypes, HistoryTypes
  <2>4. QED
    BY <2>2, <2>3
<1>6. Files'
  <2>1. CASE p = Owner
    <3>1. \A t \in Tracks : todo'[Load(t)] = None
      BY <1>2, <2>1, JobFacts
    <3>2. QED
      BY <1>1, <1>2, <2>1, <3>1 DEF IInv, Typed, FileTypes, Files, Counts
  <2>2. CASE p # Owner
    BY <1>1, <1>3, <2>2, FilesKept DEF IInv
  <2>3. QED
    BY <2>1, <2>2
<1>7. Serving'
  BY <1>2, <1>3, NobodyServed, ServingKept DEF IInv
<1>8. Letters'
  <2>1. /\ Updates(down) /\ Starts(down, page, ownerPc) /\ Candidates(down, guestPc, stopped)
        /\ (Open(Owner) /\ Owner \notin stopped => Replies(down, ownerPc, guestPc))
    BY DEF IInv, Letters
  <2>2. Starts(down, page, ownerPc')
    BY <1>2, <1>3, <2>1 DEF Starts
  <2>3. Owner \notin stopped' => p # Owner /\ Owner \notin stopped
    BY <1>1
  <2>4. p # Owner /\ Replies(down, ownerPc, guestPc) => Replies(down, ownerPc', guestPc')
    BY <1>1, <1>3 DEF Replies
  <2>5. Candidates(down, guestPc', stopped')
    BY <1>1, <2>1 DEF Candidates
  <2>6. QED
    BY <1>1, <2>1, <2>2, <2>3, <2>4, <2>5
       DEF Letters, Updates, Starts, Replies, HasOffer, Candidates, Open
<1>9. SilentWithoutRoom'
  BY <1>1, PageFacts DEF IInv, Typed, PageTypes, SilentWithoutRoom
<1>10. QED
  BY <1>5, <1>6, <1>7, <1>8, <1>9 DEF IInv

-----------------------------------------------------------------------------
(* The loops over the peers *)

\* The loop J is to take up the peer x0: it has no offer under way, those that
\* have offers from there on have less to serve, and those before have more.
Free(pcs, td, ps, J, x0, n) ==
  \A x \in 1 .. Len(ps) : \A i \in OffersOf(At(pcs, ps, x)) :
    /\ At(pcs, ps, x)[i].job # J
    /\ At(pcs, ps, x)[i].job \in Loops =>
         /\ x >= x0 => x + Len(td[At(pcs, ps, x)[i].job]) <= x0 + n
         /\ x < x0 => x0 + n <= x + Len(td[At(pcs, ps, x)[i].job])

LEMMA QueuedFacts ==
  ASSUME NEW pc \in PC, pc.sig # "remote", NEW J \in Loops,
         NEW qc, qc = Queue(IF J.kind = "drop" THEN removeTrack(pc, J.track) ELSE pc,
                            "create", None, J)
  PROVE  /\ qc \in PC /\ qc.sig # "remote"
         /\ \E o \in Operation : /\ o.kind = "create" /\ o.job = J
                                 /\ qc.chain = Append(pc.chain, o)
<1> DEFINE uc == IF J.kind = "drop" THEN removeTrack(pc, J.track) ELSE pc
           o == [kind |-> "create", desc |-> None, job |-> J]
<1>1. J \in Job /\ J.track \in Tracks
  BY JobFacts
<1>2. uc \in PC /\ uc.sig # "remote" /\ uc.chain = pc.chain
  BY <1>1, TrackFacts
<1>3. qc = Queue(uc, "create", None, J)
  OBVIOUS
<1>4. o.kind = "create" /\ o.job = J
  OBVIOUS
<1> HIDE DEF uc
<1>5. qc \in PC /\ qc.sig = uc.sig /\ o \in Operation /\ qc.chain = Append(uc.chain, o)
  BY <1>1, <1>2, <1>3, QueueFacts
<1> HIDE DEF o
<1>6. QED
  BY <1>2, <1>4, <1>5

\* The owner only offers.
Offering(pcs) == \A h \in Guests : pcs[h] # None => pcs[h].sig # "remote"

\* Every peer but g was offered the last change, or is still waited for.
Covered(pcs, g, td) ==
  \A h \in Guests :
    h # g /\ pcs[h] # None /\ NoCreate(pcs[h].chain) /\ ~Waited(td, h) => Offered(pcs[h])

\* What is left when g was served.
Served(pcs, qcs, td, ps) ==
  /\ qcs \in [Guests -> {None} \cup PC] /\ td \in [Loops -> Seq(Guests) \cup {None}]
  /\ Offering(qcs) /\ \A h \in Guests : qcs[h] = None <=> pcs[h] = None
  /\ Star(qcs, ps) /\ Orderly(qcs, td, ps) /\ Change(qcs, td)

LEMMA NextServing ==
  ASSUME NEW pcs \in [Guests -> {None} \cup PC], NEW td \in [Loops -> Seq(Guests) \cup {None}],
         NEW ps \in Seq(Guests), Star(pcs, ps), Orderly(pcs, td, ps), Offering(pcs),
         NEW J \in Loops, NEW x0 \in 1 .. Len(ps), NEW rest \in Seq(Guests),
         After(rest, ps, x0), Free(pcs, td, ps, J, x0, Len(rest)),
         NEW ud, ud = [td EXCEPT ![J] = rest],
         NEW g, g = ps[x0], NEW qc \in PC, qc.sig # "remote",
         NEW o \in Operation, o.kind = "create", o.job = J, qc.chain = Append(pcs[g].chain, o),
         NEW qcs, qcs = [pcs EXCEPT ![g] = qc], Covered(pcs, g, ud)
  PROVE  Served(pcs, qcs, ud, ps)
<1>1. g \in Guests
  OBVIOUS
<1>2. pcs[g] # None /\ pcs[g] \in PC
  <2>1. pcs[g] # None
    BY <1>1 DEF Star
  <2>2. QED
    BY <1>1, <2>1
<1>3. /\ qcs \in [Guests -> {None} \cup PC] /\ qcs[g] = qc /\ qc # None
      /\ \A h \in Guests : h # g => qcs[h] = pcs[h]
  BY <1>1, OneFacts
<1>4. pcs[g].chain \in Seq(Operation)
  BY <1>2 DEF PC
<1>5. ud \in [Loops -> Seq(Guests) \cup {None}]
  OBVIOUS
<1>6. Star(qcs, ps)
  BY <1>1, <1>2, StarOne
<1>7. Orderly(qcs, ud, ps)
  <2>1. At(pcs, ps, x0) = pcs[g].chain /\ At(qcs, ps, x0) = Append(At(pcs, ps, x0), o)
    BY <1>3 DEF At
  <2>2. ASSUME NEW x \in 1 .. Len(ps), x # x0
        PROVE  At(qcs, ps, x) = At(pcs, ps, x)
    <3>1. ps[x] # g /\ ps[x] \in Guests
      BY <2>2 DEF Star
    <3>2. QED
      BY <1>3, <3>1 DEF At
  <2>3. \A x \in 1 .. Len(ps) : \A i \in OffersOf(At(pcs, ps, x)) : At(pcs, ps, x)[i].job # J
    BY DEF Free
  <2>4. \A x \in 1 .. Len(ps) : \A i \in OffersOf(At(pcs, ps, x)) :
          At(pcs, ps, x)[i].job \in Loops =>
            /\ x >= x0 => x + Len(td[At(pcs, ps, x)[i].job]) <= x0 + Len(rest)
            /\ x < x0 => x0 + Len(rest) <= x + Len(td[At(pcs, ps, x)[i].job])
    BY DEF Free
  <2>5. Orderly(qcs, [td EXCEPT ![J] = rest], ps)
    BY <1>4, <2>1, <2>2, <2>3, <2>4, NextOrderly
  <2>6. QED
    BY <2>5
<1>8. Change(qcs, ud)
  <2>1. SUFFICES ASSUME NEW h \in Guests, qcs[h] # None, NoCreate(qcs[h].chain), ~Waited(ud, h)
                 PROVE  Offered(qcs[h])
    BY DEF Change
  <2>2. ~NoCreate(qc.chain)
    <3>1. LET n == Len(pcs[g].chain) + 1 IN n \in 1 .. Len(qc.chain) /\ qc.chain[n] = o
      BY <1>4, AppendFacts
    <3>2. QED
      BY <3>1 DEF NoCreate
  <2>3. h # g
    BY <1>3, <2>1, <2>2
  <2>4. QED
    BY <1>3, <2>1, <2>3 DEF Covered
<1>9. Offering(qcs) /\ \A h \in Guests : qcs[h] = None <=> pcs[h] = None
  BY <1>2, <1>3 DEF Offering
<1>10. QED
  BY <1>3, <1>5, <1>6, <1>7, <1>8, <1>9 DEF Served

\* The loop J begins at the first peer.
LEMMA BeginServing ==
  ASSUME NEW pcs \in [Guests -> {None} \cup PC], NEW td \in [Loops -> Seq(Guests) \cup {None}],
         NEW ps \in Seq(Guests), Star(pcs, ps), Orderly(pcs, td, ps), ps # <<>>,
         NEW J \in Loops, td[J] = None,
         NEW ud, ud = [td EXCEPT ![J] = Tail(ps)]
  PROVE  /\ 1 \in 1 .. Len(ps) /\ Head(ps) = ps[1] /\ After(Tail(ps), ps, 1)
         /\ Free(pcs, td, ps, J, 1, Len(Tail(ps)))
         /\ \A h \in Guests : h # Head(ps) /\ pcs[h] # None => Waited(ud, h)
<1> DEFINE rest == Tail(ps)
           n == Len(ps)
<1>1. /\ rest \in Seq(Guests) /\ Head(ps) = ps[1] /\ n \in Nat /\ n > 0 /\ Len(rest) = n - 1
      /\ \A i \in 1 .. n - 1 : rest[i] = ps[i + 1]
  BY TailFacts
<1>2. ud[J] = rest /\ rest # None
  BY <1>1, PagesAssumption
<1> HIDE DEF rest, n
<1>3. After(rest, ps, 1)
  <2>1. \A k \in 1 .. Len(rest) : rest[k] = ps[1 + k]
    BY <1>1
  <2>2. QED
    BY <1>1, <2>1 DEF After, n
<1>4. Free(pcs, td, ps, J, 1, Len(rest))
  <2> SUFFICES ASSUME NEW x \in 1 .. Len(ps), NEW i \in OffersOf(At(pcs, ps, x))
               PROVE  /\ At(pcs, ps, x)[i].job # J
                      /\ At(pcs, ps, x)[i].job \in Loops =>
                           /\ x >= 1 => x + Len(td[At(pcs, ps, x)[i].job]) <= 1 + Len(rest)
                           /\ x < 1 => 1 + Len(rest) <= x + Len(td[At(pcs, ps, x)[i].job])
    BY DEF Free
  <2> DEFINE K == At(pcs, ps, x)[i].job
  <2>1. K = Connect \/ (K \in Loops /\ td[K] # None /\ After(td[K], ps, x))
    BY DEF Orderly, InLine
  <2>2. K # J
    BY <2>1, JobFacts
  <2>3. K \in Loops => x + Len(td[K]) <= Len(ps)
    BY <2>1, JobFacts DEF After
  <2> HIDE DEF K
  <2>4. x >= 1 /\ ~(x < 1)
    OBVIOUS
  <2>5. 1 + Len(rest) = Len(ps)
    BY <1>1 DEF n
  <2>6. QED
    BY <2>2, <2>3, <2>4, <2>5 DEF K
<1>5. ASSUME NEW h \in Guests, h # Head(ps), pcs[h] # None
      PROVE  Waited(ud, h)
  <2>1. PICK x \in 1 .. n : ps[x] = h
    BY <1>5 DEF Star, n
  <2>2. x - 1 \in 1 .. n - 1 /\ (x - 1) + 1 = x
    BY <1>1, <1>5, <2>1
  <2>3. x - 1 \in 1 .. Len(ud[J]) /\ ud[J][x - 1] = h
    BY <1>1, <1>2, <2>1, <2>2
  <2>4. QED
    BY <1>2, <2>3 DEF Waited
<1>6. 1 \in 1 .. n
  BY <1>1
<1>7. \A h \in Guests : h # Head(ps) /\ pcs[h] # None => Waited(ud, h)
  BY <1>5
<1>8. QED
  BY <1>1, <1>3, <1>4, <1>6, <1>7 DEF rest, n

LEMMA BeginStep ==
  ASSUME Typed, NEW pcs \in [Guests -> {None} \cup PC],
         Star(pcs, peers), Orderly(pcs, todo, peers), Offering(pcs),
         NEW J \in Loops, todo[J] = None, NextPeer(J, peers, pcs)
  PROVE  /\ ownerPc' \in [Guests -> {None} \cup PC]
         /\ todo' \in [Loops -> Seq(Guests) \cup {None}]
         /\ \A job \in Loops : job # J => todo'[job] = todo[job]
         /\ Offering(ownerPc') /\ \A h \in Guests : ownerPc'[h] = None <=> pcs[h] = None
         /\ Star(ownerPc', peers) /\ Orderly(ownerPc', todo', peers) /\ Change(ownerPc', todo')
<1> DEFINE g == Head(peers)
           rest == Tail(peers)
           qc == Queue(IF J.kind = "drop" THEN removeTrack(pcs[g], J.track) ELSE pcs[g],
                       "create", None, J)
<1>1. /\ peers # <<>> /\ todo' = [todo EXCEPT ![J] = rest] /\ ownerPc' = [pcs EXCEPT ![g] = qc]
  BY DEF NextPeer
<1>2. peers \in Seq(Guests) /\ todo \in [Loops -> Seq(Guests) \cup {None}]
  BY DEF Typed, PeerTypes, FileTypes
<1>3. rest \in Seq(Guests)
  BY <1>1, <1>2, TailFacts
<1>4. /\ 1 \in 1 .. Len(peers) /\ g = peers[1] /\ After(rest, peers, 1)
      /\ Free(pcs, todo, peers, J, 1, Len(rest))
      /\ \A h \in Guests : h # g /\ pcs[h] # None => Waited(todo', h)
  BY <1>1, <1>2, BeginServing
<1>5. g \in Guests
  BY <1>2, <1>4
<1>6. pcs[g] # None /\ pcs[g] \in PC /\ pcs[g].sig # "remote"
  <2>1. pcs[g] # None
    BY <1>4, <1>5 DEF Star
  <2>2. QED
    BY <1>5, <2>1 DEF Offering
<1> HIDE DEF g, rest
<1>7. /\ qc \in PC /\ qc.sig # "remote"
      /\ \E o \in Operation : /\ o.kind = "create" /\ o.job = J
                              /\ qc.chain = Append(pcs[g].chain, o)
  <2> DEFINE pc == pcs[g]
  <2>1. qc = Queue(IF J.kind = "drop" THEN removeTrack(pc, J.track) ELSE pc, "create", None, J)
    OBVIOUS
  <2>2. pc \in PC /\ pc.sig # "remote"
    BY <1>6
  <2> HIDE DEF pc, qc
  <2>3. /\ qc \in PC /\ qc.sig # "remote"
        /\ \E o \in Operation : /\ o.kind = "create" /\ o.job = J
                                /\ qc.chain = Append(pc.chain, o)
    BY <2>1, <2>2, QueuedFacts
  <2>4. QED
    BY <2>3 DEF pc
<1> HIDE DEF qc
<1>8. PICK o \in Operation : /\ o.kind = "create" /\ o.job = J
                             /\ qc.chain = Append(pcs[g].chain, o)
  BY <1>7
<1>9. /\ ownerPc' \in [Guests -> {None} \cup PC]
      /\ todo' \in [Loops -> Seq(Guests) \cup {None}]
      /\ Offering(ownerPc') /\ \A h \in Guests : ownerPc'[h] = None <=> pcs[h] = None
      /\ Star(ownerPc', peers) /\ Orderly(ownerPc', todo', peers) /\ Change(ownerPc', todo')
  <2> DEFINE ud == todo'
             qcs == ownerPc'
  <2>1. ud = [todo EXCEPT ![J] = rest] /\ qcs = [pcs EXCEPT ![g] = qc]
    BY <1>1
  <2>2. Covered(pcs, g, ud)
    BY <1>4 DEF Covered
  <2> HIDE DEF ud, qcs
  <2>3. Served(pcs, qcs, ud, peers)
    <3>1. PICK x0 \in 1 .. Len(peers) : /\ g = peers[x0] /\ After(rest, peers, x0)
                                        /\ Free(pcs, todo, peers, J, x0, Len(rest))
      BY <1>4
    <3>2. QED
      BY <1>2, <1>3, <1>7, <1>8, <2>1, <2>2, <3>1, NextServing
  <2>4. QED
    BY <2>3 DEF ud, qcs, Served
<1>10. \A job \in Loops : job # J => todo'[job] = todo[job]
  BY <1>1, <1>2
<1>11. QED
  BY <1>9, <1>10

LEMMA LoadStep ==
  ASSUME IInv, Counts, NEW t \in Tracks, onMp3FileLoad(t)
  PROVE  IInv'
<1> DEFINE pcs == [g \in Guests |-> IF ownerPc[g] = None THEN None ELSE addTrack(ownerPc[g], t)]
           c == captured[Load(t)]
<1>1. /\ t \in decoding /\ decoding' = decoding \ {t}
      /\ arrays' = [arrays EXCEPT ![c] = @ \cup {t}]
      /\ fakes' = fakes \cup {t} /\ down' = ToRoom(down, Update(fakes')) /\ tracks' = {t}
      /\ peers' = peers
      /\ UNCHANGED <<page, members, announcing, room, guestPc, streams, captured, stopped,
                     early, cutShort, clashed>>
  BY DEF onMp3FileLoad, Pushed, history
<1>2. \/ NextPeer(Load(t), peers, pcs) /\ fakeUsers' = fakeUsers
      \/ peers = <<>> /\ fakeUsers' = c /\ UNCHANGED <<ownerPc, todo>>
  BY DEF onMp3FileLoad, owner
<1>3. /\ Load(t) \in Loops /\ todo[Load(t)] = None
      /\ \A u \in Tracks : Load(u) \in Loops /\ (Load(t) = Load(u) => t = u)
  BY <1>1, JobFacts DEF IInv, Files
<1>4. /\ ownerPc \in [Guests -> {None} \cup PC] /\ peers \in Seq(Guests) /\ down \in Mails
      /\ todo \in [Loops -> Seq(Guests) \cup {None}] /\ fakes \in SUBSET Tracks
      /\ arrays \in Seq(SUBSET Tracks) /\ captured \in [Loops -> 1 .. Len(arrays)]
      /\ decoding \in SUBSET Tracks
      /\ \A h \in Guests : ownerPc[h] # None => ownerPc[h].sig # "remote"
  BY DEF IInv, Typed, ServerTypes, PeerTypes, FileTypes
<1>5. c \in 1 .. Len(arrays)
  BY <1>3, <1>4
<1> HIDE DEF c
<1>6. /\ ownerPc' \in [Guests -> {None} \cup PC]
      /\ todo' \in [Loops -> Seq(Guests) \cup {None}]
      /\ \A job \in Loops : job # Load(t) => todo'[job] = todo[job]
      /\ Offering(ownerPc') /\ \A h \in Guests : ownerPc'[h] = None <=> ownerPc[h] = None
      /\ Star(ownerPc', peers) /\ Orderly(ownerPc', todo', peers) /\ Change(ownerPc', todo')
      /\ fakeUsers' \in {fakeUsers, c}
  <2>1. CASE NextPeer(Load(t), peers, pcs) /\ fakeUsers' = fakeUsers
    <3>1. ASSUME NEW h \in Guests
          PROVE  /\ pcs[h] \in {None} \cup PC /\ (pcs[h] = None <=> ownerPc[h] = None)
                 /\ pcs[h] # None => pcs[h].sig # "remote" /\ pcs[h].chain = ownerPc[h].chain
      <4>1. CASE ownerPc[h] = None
        BY <4>1
      <4>2. CASE ownerPc[h] # None
        <5>1. pcs[h] = addTrack(ownerPc[h], t) /\ ownerPc[h] \in PC
          BY <1>4, <4>2
        <5>2. QED
          BY <1>4, <4>2, <5>1, TrackFacts, NoneAssumption
      <4>3. QED
        BY <4>1, <4>2
    <3>2. pcs \in [Guests -> {None} \cup PC]
      BY <3>1
    <3> HIDE DEF pcs
    <3>3. Star(pcs, peers)
      BY <3>1 DEF IInv, Serving, Star
    <3>4. Orderly(pcs, todo, peers)
      <4>1. ASSUME NEW x \in 1 .. Len(peers)
            PROVE  At(pcs, peers, x) = At(ownerPc, peers, x)
        <5>1. peers[x] \in Guests /\ ownerPc[peers[x]] # None
          BY <1>4 DEF IInv, Serving, Star
        <5>2. QED
          BY <3>1, <5>1 DEF At
      <4>2. \A x \in 1 .. Len(peers) : Keeps(At(ownerPc, peers, x), At(pcs, peers, x))
        BY <4>1, KeepsSame
      <4>3. QED
        BY <4>2, KeepsOrderly DEF IInv, Serving
    <3>5. Offering(pcs)
      BY <3>1 DEF Offering
    <3>6. QED
      BY <1>3, <2>1, <3>1, <3>2, <3>3, <3>4, <3>5, BeginStep DEF IInv
  <2>2. CASE peers = <<>> /\ fakeUsers' = c /\ UNCHANGED <<ownerPc, todo>>
    BY <1>4, <2>2 DEF IInv, Serving, Offering
  <2>3. QED
    BY <1>2, <2>1, <2>2
<1> HIDE DEF pcs
<1>7. /\ arrays' \in Seq(SUBSET Tracks) /\ Len(arrays') = Len(arrays)
      /\ \A i \in 1 .. Len(arrays) : arrays'[i] = IF i = c THEN arrays[i] \cup {t} ELSE arrays[i]
  <2> DEFINE x == arrays[c] \cup {t}
             S == SUBSET Tracks
  <2>1. x \in S /\ arrays \in Seq(S) /\ arrays' = [arrays EXCEPT ![c] = x]
    BY <1>1, <1>4, <1>5
  <2> HIDE DEF x, S
  <2>2. /\ arrays' \in Seq(S) /\ Len(arrays') = Len(arrays)
        /\ \A i \in 1 .. Len(arrays) : arrays'[i] = IF i = c THEN x ELSE arrays[i]
    BY <1>5, <2>1, ExceptFacts
  <2>3. QED
    BY <2>2 DEF x, S
<1>8. fakes' \in SUBSET Tracks
  BY <1>1, <1>4
<1>9. /\ down' \in Mails
      /\ \E M : /\ Adds(down, down', M)
                /\ \A m \in M : m.type = "update" /\ m.fakes \in SUBSET Tracks
  <2> DEFINE m == Update(fakes')
  <2>1. m \in Message /\ m.type = "update" /\ m.fakes \in SUBSET Tracks
    BY <1>8, MessageFacts
  <2>2. down' = ToRoom(down, m)
    BY <1>1
  <2> HIDE DEF m
  <2>3. down' \in Mails /\ Adds(down, down', {m})
    BY <1>4, <2>1, <2>2, AddsRoom
  <2>4. QED
    BY <2>1, <2>3
<1>10. Typed'
  <2>1. ServerTypes' /\ PageTypes' /\ HistoryTypes'
    BY <1>1, <1>8, <1>9 DEF IInv, Typed, ServerTypes, PageTypes, HistoryTypes
  <2>2. PeerTypes'
    BY <1>1, <1>6 DEF IInv, Typed, PeerTypes, Offering
  <2>3. FileTypes'
    BY <1>1, <1>5, <1>6, <1>7 DEF IInv, Typed, Counts, FileTypes
  <2>4. QED
    BY <2>1, <2>2, <2>3 DEF Typed
<1>11. Files'
  <2>1. Len(arrays') <= acts' + 1
    BY <1>7 DEF IInv, Typed, FileTypes, Files, Counts
  <2>2. ASSUME NEW u \in decoding'
        PROVE  todo'[Load(u)] = None /\ \A i \in 1 .. Len(arrays') : u \notin arrays'[i]
    BY <1>1, <1>3, <1>4, <1>6, <1>7 DEF IInv, Files
  <2>3. ASSUME NEW u \in Tracks, todo'[Load(u)] # None
        PROVE  \E i \in 1 .. Len(arrays') : u \in arrays'[i]
    <3>1. CASE u = t
      BY <1>5, <1>7, <3>1
    <3>2. CASE u # t
      <4>1. PICK i \in 1 .. Len(arrays) : u \in arrays[i]
        BY <1>3, <1>6, <2>3, <3>2 DEF IInv, Files
      <4>2. QED
        BY <1>7, <4>1
    <3>3. QED
      BY <3>1, <3>2
  <2>4. QED
    BY <2>1, <2>2, <2>3 DEF Files
<1>12. Serving'
  BY <1>1, <1>6, ServingMade
<1>13. Letters'
  BY <1>1, <1>6, <1>9, LettersKept DEF IInv
<1>14. SilentWithoutRoom'
  BY <1>1 DEF IInv, SilentWithoutRoom
<1>15. QED
  BY <1>10, <1>11, <1>12, <1>13, <1>14 DEF IInv

LEMMA DropStep ==
  ASSUME IInv, acts' \in 0 .. MaxActs, acts' = acts + 1, NEW t \in Tracks, dropClient(t)
  PROVE  IInv'
<1>1. /\ todo[Drop(t)] = None
      /\ arrays' = Append(arrays, arrays[fakeUsers] \ {t})
      /\ captured' = [captured EXCEPT ![Drop(t)] = fakeUsers] /\ peers' = peers
      /\ UNCHANGED <<page, members, announcing, room, guestPc, streams, decoding, stopped,
                     early, cutShort>>
      /\ clashed' \in {clashed, Clashing}
  BY DEF dropClient
<1>2. \/ /\ NextPeer(Drop(t), peers, ownerPc) /\ tracks' = tracks \ {t}
         /\ fakeUsers' = Len(arrays') /\ UNCHANGED <<fakes, down>>
      \/ /\ fakes' = fakes \ {t} /\ down' = ToRoom(down, Update(fakes'))
         /\ UNCHANGED <<ownerPc, todo, tracks, fakeUsers>>
  BY DEF dropClient, owner
<1>3. /\ Drop(t) \in Loops /\ \A u \in Tracks : Load(u) \in Loops /\ Load(u) # Drop(t)
  BY JobFacts
<1>4. /\ ownerPc \in [Guests -> {None} \cup PC] /\ peers \in Seq(Guests) /\ down \in Mails
      /\ todo \in [Loops -> Seq(Guests) \cup {None}] /\ fakes \in SUBSET Tracks
      /\ arrays \in Seq(SUBSET Tracks) /\ captured \in [Loops -> 1 .. Len(arrays)]
      /\ decoding \in SUBSET Tracks /\ tracks \in SUBSET Tracks
      /\ fakeUsers \in 1 .. Len(arrays) /\ acts \in 0 .. MaxActs
      /\ \A h \in Guests : ownerPc[h] # None => ownerPc[h].sig # "remote"
  BY DEF IInv, Typed, ServerTypes, PeerTypes, FileTypes
<1>5. /\ ownerPc' \in [Guests -> {None} \cup PC]
      /\ todo' \in [Loops -> Seq(Guests) \cup {None}]
      /\ \A job \in Loops : job # Drop(t) => todo'[job] = todo[job]
      /\ Offering(ownerPc') /\ \A h \in Guests : ownerPc'[h] = None <=> ownerPc[h] = None
      /\ Star(ownerPc', peers) /\ Orderly(ownerPc', todo', peers) /\ Change(ownerPc', todo')
  <2>1. CASE NextPeer(Drop(t), peers, ownerPc)
    <3>1. Offering(ownerPc)
      BY <1>4 DEF Offering
    <3>2. QED
      BY <1>1, <1>3, <1>4, <2>1, <3>1, BeginStep DEF IInv, Serving
  <2>2. CASE UNCHANGED <<ownerPc, todo>>
    BY <1>4, <2>2 DEF IInv, Serving, Offering
  <2>3. QED
    BY <1>2, <2>1, <2>2
<1>6. arrays[fakeUsers] \ {t} \in SUBSET Tracks /\ arrays[fakeUsers] \ {t} \subseteq arrays[fakeUsers]
  BY <1>4
<1>7. /\ arrays' \in Seq(SUBSET Tracks) /\ Len(arrays) \in Nat /\ Len(arrays') = Len(arrays) + 1
      /\ \A i \in 1 .. Len(arrays) : arrays'[i] = arrays[i]
      /\ arrays'[Len(arrays) + 1] = arrays[fakeUsers] \ {t}
  <2> DEFINE x == arrays[fakeUsers] \ {t}
             S == SUBSET Tracks
  <2>1. x \in S /\ arrays \in Seq(S) /\ arrays' = Append(arrays, x)
    BY <1>1, <1>4, <1>6
  <2> HIDE DEF x, S
  <2>2. /\ arrays' \in Seq(S) /\ Len(arrays) \in Nat /\ Len(arrays') = Len(arrays) + 1
        /\ \A i \in 1 .. Len(arrays) : arrays'[i] = arrays[i]
        /\ arrays'[Len(arrays) + 1] = x
    BY <2>1, AppendFacts
  <2>3. QED
    BY <2>2 DEF x, S
<1>8. /\ tracks' \in SUBSET Tracks /\ fakes' \in SUBSET Tracks /\ fakeUsers' \in 1 .. Len(arrays')
      /\ captured' \in [Loops -> 1 .. Len(arrays')]
  <2>1. tracks' \in SUBSET Tracks /\ fakes' \in SUBSET Tracks
    BY <1>2, <1>4
  <2>2. \A i \in 1 .. Len(arrays) : i \in 1 .. Len(arrays')
    BY <1>7
  <2>3. Len(arrays') \in 1 .. Len(arrays')
    BY <1>7
  <2>4. QED
    BY <1>1, <1>2, <1>4, <2>1, <2>2, <2>3
<1>9. /\ down' \in Mails
      /\ \/ down' = down
         \/ \E M : /\ Adds(down, down', M)
                   /\ \A m \in M : m.type = "update" /\ m.fakes \in SUBSET Tracks
  <2>1. CASE down' = down
    BY <1>4, <2>1
  <2>2. CASE down' = ToRoom(down, Update(fakes'))
    <3> DEFINE m == Update(fakes')
    <3>1. m \in Message /\ m.type = "update" /\ m.fakes \in SUBSET Tracks
      BY <1>8, MessageFacts
    <3>2. down' = ToRoom(down, m)
      BY <2>2
    <3> HIDE DEF m
    <3>3. down' \in Mails /\ Adds(down, down', {m})
      BY <1>4, <3>1, <3>2, AddsRoom
    <3>4. QED
      BY <3>1, <3>3
  <2>3. QED
    BY <1>2, <2>1, <2>2
<1>10. Typed'
  <2>1. ServerTypes' /\ PageTypes' /\ HistoryTypes'
    BY <1>1, <1>8, <1>9 DEF Clashing, IInv, Typed, ServerTypes, PageTypes, HistoryTypes
  <2>2. PeerTypes'
    BY <1>1, <1>5 DEF IInv, Typed, PeerTypes, Offering
  <2>3. FileTypes'
    BY <1>1, <1>4, <1>5, <1>7, <1>8 DEF FileTypes
  <2>4. QED
    BY <2>1, <2>2, <2>3 DEF Typed
<1>11. Files'
  <2>1. Len(arrays') <= acts' + 1
    BY <1>4, <1>7 DEF IInv, Files
  <2>2. ASSUME NEW u \in decoding'
        PROVE  todo'[Load(u)] = None /\ \A i \in 1 .. Len(arrays') : u \notin arrays'[i]
    <3>1. u \in Tracks /\ todo[Load(u)] = None /\ \A i \in 1 .. Len(arrays) : u \notin arrays[i]
      BY <1>1, <1>4 DEF IInv, Files
    <3>2. todo'[Load(u)] = None
      BY <1>3, <1>5, <3>1
    <3>3. \A i \in 1 .. Len(arrays') : i \in 1 .. Len(arrays) \/ i = Len(arrays) + 1
      BY <1>7
    <3>4. \A i \in 1 .. Len(arrays') : u \notin arrays'[i]
      BY <1>4, <1>6, <1>7, <3>1, <3>3
    <3>5. QED
      BY <3>2, <3>4
  <2>3. ASSUME NEW u \in Tracks, todo'[Load(u)] # None
        PROVE  \E i \in 1 .. Len(arrays') : u \in arrays'[i]
    <3>1. PICK i \in 1 .. Len(arrays) : u \in arrays[i]
      BY <1>3, <1>5, <2>3 DEF IInv, Files
    <3>2. QED
      BY <1>7, <3>1
  <2>4. QED
    BY <2>1, <2>2, <2>3 DEF Files
<1>12. Serving'
  BY <1>1, <1>5, ServingMade
<1>13. Letters'
  BY <1>1, <1>5, <1>9, LettersKept DEF IInv
<1>14. SilentWithoutRoom'
  BY <1>1 DEF IInv, SilentWithoutRoom
<1>15. QED
  BY <1>10, <1>11, <1>12, <1>13, <1>14 DEF IInv

-----------------------------------------------------------------------------
(* An offer of a loop comes out of its chain *)

LEMMA TailOffers ==
  ASSUME NEW s \in Seq(Operation), s # <<>>, s[1].kind = "local"
  PROVE  /\ 1 \in OffersOf(s)
         /\ \A i \in OffersOf(Tail(s)) :
              i \in Nat /\ i + 1 # 1 /\ i + 1 \in OffersOf(s) /\ Tail(s)[i] = s[i + 1]
              /\ Ahead(s, 1, i + 1)
<1>1. /\ Len(s) \in Nat /\ Len(s) > 0 /\ Len(Tail(s)) = Len(s) - 1
      /\ \A i \in 1 .. Len(s) - 1 : Tail(s)[i] = s[i + 1]
  BY TailFacts
<1>2. 1 \in OffersOf(s)
  BY <1>1 DEF OffersOf
<1>3. ASSUME NEW i \in OffersOf(Tail(s))
      PROVE  /\ i \in Nat /\ i + 1 # 1 /\ i + 1 \in OffersOf(s) /\ Tail(s)[i] = s[i + 1]
             /\ Ahead(s, 1, i + 1)
  <2>1. i \in 1 .. Len(s) - 1 /\ Tail(s)[i].kind # "remote" /\ Tail(s)[i] = s[i + 1]
    BY <1>1 DEF OffersOf
  <2>2. i \in Nat /\ i + 1 \in 1 .. Len(s) /\ 1 < i + 1
    BY <1>1, <2>1
  <2>3. s[i + 1].kind \in {"create", "local"}
    <3>1. s[i + 1] \in Operation
      BY <2>2
    <3>2. QED
      BY <2>1, <3>1 DEF Operation
  <2>4. QED
    BY <2>1, <2>2, <2>3 DEF OffersOf, Ahead
<1>4. QED
  BY <1>2, <1>3

\* The connection to the peer x0 had the operations s, and the first came out.
Popped(pcs, qcs, ps, x0, s) ==
  /\ s \in Seq(Operation) /\ s # <<>>
  /\ At(pcs, ps, x0) = s /\ At(qcs, ps, x0) = Tail(s)
  /\ \A x \in 1 .. Len(ps) : x # x0 => At(qcs, ps, x) = At(pcs, ps, x)

\* The loop J is at the peer x0, and may take up the next.
Moves(qcs, td, ps, J, x0) ==
  /\ J \in Loops /\ td[J] # None /\ After(td[J], ps, x0)
  /\ Free(qcs, td, ps, J, x0 + 1, Len(td[J]) - 1)

LEMMA OneOn == \A a, n \in Int : (a + 1) + (n - 1) = a + n
OBVIOUS

LEMMA HeadFree ==
  ASSUME NEW pcs, NEW qcs, NEW td, NEW ps \in Seq(Guests), Orderly(pcs, td, ps),
         NEW x0 \in 1 .. Len(ps), NEW s, Popped(pcs, qcs, ps, x0, s),
         s[1].kind = "local", s[1].job # Connect
  PROVE  Moves(qcs, td, ps, s[1].job, x0)
<1> DEFINE J == s[1].job
<1>0. /\ s \in Seq(Operation) /\ s # <<>> /\ J # Connect /\ J = s[1].job
      /\ s = At(pcs, ps, x0) /\ At(qcs, ps, x0) = Tail(s)
      /\ \A x \in 1 .. Len(ps) : x # x0 => At(qcs, ps, x) = At(pcs, ps, x)
  BY DEF Popped
<1> HIDE DEF J
<1>1. /\ 1 \in OffersOf(s)
      /\ \A i \in OffersOf(Tail(s)) :
           i \in Nat /\ i + 1 # 1 /\ i + 1 \in OffersOf(s) /\ Tail(s)[i] = s[i + 1]
           /\ Ahead(s, 1, i + 1)
  BY <1>0, TailOffers
<1>2. J \in Loops /\ td[J] # None /\ After(td[J], ps, x0)
  BY <1>0, <1>1 DEF Orderly, InLine
<1>3. Len(td[J]) \in Nat /\ x0 \in Int
  BY <1>2 DEF After
<1>a. PICK n \in Nat : n = Len(td[J])
  BY <1>3
<1>4. ASSUME NEW x \in 1 .. Len(ps), NEW i \in OffersOf(At(qcs, ps, x)),
             NEW K, K = At(qcs, ps, x)[i].job
      PROVE  /\ K # J
             /\ K \in Loops =>
                  /\ x >= x0 + 1 => x + Len(td[K]) <= (x0 + 1) + (n - 1)
                  /\ x < x0 + 1 => (x0 + 1) + (n - 1) <= x + Len(td[K])
  <2>1. CASE x = x0
    <3>1. i + 1 \in OffersOf(s) /\ K = s[i + 1].job /\ Ahead(s, 1, i + 1) /\ i + 1 # 1
      BY <1>0, <1>1, <1>4, <2>1
    <3>2. K # J
      BY <1>0, <1>1, <1>2, <3>1 DEF Orderly, Once
    <3>3. K \in Loops => /\ x0 + Len(td[J]) <= x0 + Len(td[K])
                         /\ Len(td[K]) \in Nat
      <4>1. K \in Loops => x0 + Len(td[J]) <= x0 + Len(td[K])
        BY <1>0, <1>1, <1>2, <3>1 DEF Orderly, Order
      <4>2. K \in Loops => After(td[K], ps, x0)
        BY <1>0, <3>1, JobFacts DEF Orderly, InLine
      <4>3. QED
        BY <4>1, <4>2 DEF After
    <3>4. ~(x >= x0 + 1) /\ x \in Nat
      BY <2>1
    <3>5. (x0 + 1) + (n - 1) = x + n
      BY <1>3, <2>1, OneOn
    <3>6. K \in Loops => x + n <= x + Len(td[K])
      BY <1>a, <2>1, <3>3
    <3>7. QED
      BY <3>2, <3>4, <3>5, <3>6
  <2>2. CASE x # x0
    <3>1. i \in OffersOf(At(pcs, ps, x)) /\ K = At(pcs, ps, x)[i].job
      BY <1>0, <1>4, <2>2
    <3>2. K # J
      BY <1>0, <1>1, <1>2, <2>2, <3>1 DEF Orderly, Once
    <3>3. K \in Loops => Len(td[K]) \in Nat
      <4>1. K \in Loops => After(td[K], ps, x)
        BY <1>0, <3>1, JobFacts DEF Orderly, InLine
      <4>2. QED
        BY <4>1 DEF After
    <3>4. K \in Loops /\ x > x0 => x + Len(td[K]) <= x0 + n
      BY <1>a, <1>0, <1>1, <1>2, <3>1 DEF Orderly, Order
    <3>5. K \in Loops /\ x0 > x => x0 + n <= x + Len(td[K])
      BY <1>a, <1>0, <1>1, <1>2, <3>1 DEF Orderly, Order
    <3>6. (x0 + 1) + (n - 1) = x0 + n
      BY <1>3, OneOn
    <3>7. (x >= x0 + 1 => x > x0) /\ (x < x0 + 1 => x0 > x)
      BY <2>2
    <3>8. QED
      BY <3>2, <3>4, <3>5, <3>6, <3>7
  <2>3. QED
    BY <2>1, <2>2
<1>5. QED
  BY <1>2, <1>a, <1>4 DEF Free, Moves, J

\* What is left when the offer for J came out of the chain of g.
Passed(pcs, qcs, td, ps, g, J) ==
  /\ qcs \in [Guests -> {None} \cup PC] /\ Offering(qcs)
  /\ \A h \in Guests : qcs[h] = None <=> pcs[h] = None
  /\ Star(qcs, ps) /\ Orderly(qcs, td, ps)
  /\ \E x0 \in 1 .. Len(ps) : ps[x0] = g /\ (J # Connect => Moves(qcs, td, ps, J, x0))

\* The peer g has an offer that is set or refused, and the chain goes on.
LEMMA HeadServed ==
  ASSUME NEW pcs \in [Guests -> {None} \cup PC], NEW td \in [Loops -> Seq(Guests) \cup {None}],
         NEW ps \in Seq(Guests), Star(pcs, ps), Orderly(pcs, td, ps), Offering(pcs),
         NEW g \in Guests, NEW pc \in PC, pc = pcs[g], pc.chain # <<>>,
         pc.chain[1].kind = "local",
         NEW qc \in PC, qc.chain = Tail(pc.chain), qc.sig # "remote",
         NEW qcs, qcs = [pcs EXCEPT ![g] = qc]
  PROVE  Passed(pcs, qcs, td, ps, g, pc.chain[1].job)
<1> DEFINE s == pc.chain
<1>1. s \in Seq(Operation) /\ s # <<>> /\ s[1].kind = "local"
  BY DEF PC
<1>2. /\ qcs \in [Guests -> {None} \cup PC] /\ qcs[g] = qc /\ qc # None /\ pc # None
      /\ \A h \in Guests : h # g => qcs[h] = pcs[h]
  BY OneFacts, NoneAssumption
<1>3. Offering(qcs) /\ \A h \in Guests : qcs[h] = None <=> pcs[h] = None
  BY <1>2 DEF Offering
<1>4. Star(qcs, ps)
  BY <1>2, StarOne
<1>5. Orderly(qcs, td, ps)
  <2>1. Keeps(pcs[g].chain, qc.chain)
    BY <1>1, KeepsTail
  <2>2. QED
    BY <2>1, OrderlyOne
<1>6. PICK x0 \in 1 .. Len(ps) : ps[x0] = g
  BY <1>2 DEF Star
<1>7. At(pcs, ps, x0) = s /\ At(qcs, ps, x0) = Tail(s)
  BY <1>2, <1>6 DEF At
<1>8. ASSUME NEW x \in 1 .. Len(ps), x # x0
      PROVE  At(qcs, ps, x) = At(pcs, ps, x)
  <2>1. ps[x] # g /\ ps[x] \in Guests
    BY <1>6, <1>8 DEF Star
  <2>2. QED
    BY <1>2, <2>1 DEF At
<1> HIDE DEF s
<1>9. s[1].job # Connect => Moves(qcs, td, ps, s[1].job, x0)
  <2>1. Popped(pcs, qcs, ps, x0, s)
    BY <1>1, <1>7, <1>8 DEF Popped
  <2>2. QED
    BY <1>1, <2>1, HeadFree
<1>10. QED
  BY <1>2, <1>3, <1>4, <1>5, <1>6, <1>9 DEF s, Passed

\* NextPeer, over values.
TakesUp(J, pcs, td, qcs, ud) ==
  /\ td[J] # <<>> /\ ud = [td EXCEPT ![J] = Tail(td[J])]
  /\ LET h == Head(td[J]) IN
     qcs = [pcs EXCEPT ![h] = Queue(IF J.kind = "drop" THEN removeTrack(pcs[h], J.track)
                                                        ELSE pcs[h], "create", None, J)]

\* The loop at the peer x0 takes up the next one.
LEMMA OnServing ==
  ASSUME NEW pcs \in [Guests -> {None} \cup PC], NEW td \in [Loops -> Seq(Guests) \cup {None}],
         NEW ps \in Seq(Guests), Star(pcs, ps), Orderly(pcs, td, ps), Offering(pcs),
         Change(pcs, td), NEW J, NEW x0 \in 1 .. Len(ps), Moves(pcs, td, ps, J, x0),
         NEW qcs, NEW ud, TakesUp(J, pcs, td, qcs, ud)
  PROVE  Served(pcs, qcs, ud, ps)
<1> DEFINE ids == td[J]
           h == Head(ids)
           rest == Tail(ids)
           pc == pcs[h]
           qc == Queue(IF J.kind = "drop" THEN removeTrack(pc, J.track) ELSE pc, "create", None, J)
<1>1. /\ J \in Loops /\ ids # None /\ ids # <<>> /\ After(ids, ps, x0)
      /\ Free(pcs, td, ps, J, x0 + 1, Len(ids) - 1)
  BY DEF Moves, TakesUp
<1>2. ids \in Seq(Guests) /\ x0 + Len(ids) <= Len(ps) /\ \A k \in 1 .. Len(ids) : ids[k] = ps[x0 + k]
  BY <1>1 DEF After
<1>3. ud = [td EXCEPT ![J] = rest] /\ h = Head(ids) /\ qcs = [pcs EXCEPT ![h] = qc]
  BY DEF TakesUp
<1> HIDE DEF ids, h, rest
<1>4. /\ rest \in Seq(Guests) /\ h = ids[1] /\ Len(ids) \in Nat /\ Len(ids) > 0
      /\ Len(rest) = Len(ids) - 1 /\ \A k \in 1 .. Len(ids) - 1 : rest[k] = ids[k + 1]
  <2>1. rest = Tail(ids)
    BY DEF rest
  <2>2. QED
    BY <1>1, <1>2, <1>3, <2>1, TailFacts
<1>5. PICK y \in 1 .. Len(ps) : y = x0 + 1
  BY <1>2, <1>4
<1>6. h = ps[y]
  <2>1. 1 \in 1 .. Len(ids)
    BY <1>4
  <2>2. QED
    BY <1>2, <1>4, <1>5, <2>1
<1>7. After(rest, ps, y)
  <2>1. y + Len(rest) <= Len(ps)
    BY <1>2, <1>4, <1>5
  <2>2. ASSUME NEW k \in 1 .. Len(rest)
        PROVE  rest[k] = ps[y + k]
    <3>1. k \in 1 .. Len(ids) - 1 /\ k + 1 \in 1 .. Len(ids) /\ x0 + (k + 1) = y + k
      BY <1>4, <1>5
    <3>2. QED
      BY <1>2, <1>4, <3>1
  <2>3. QED
    BY <1>4, <2>1, <2>2 DEF After
<1>8. Free(pcs, td, ps, J, y, Len(rest))
  BY <1>1, <1>4, <1>5
<1>9. h \in Guests
  BY <1>6
<1>10. pc # None /\ pc \in PC /\ pc.sig # "remote"
  <2>1. pc # None
    BY <1>6, <1>9 DEF Star
  <2>2. QED
    BY <1>9, <2>1 DEF Offering
<1> HIDE DEF pc
<1>11. /\ qc \in PC /\ qc.sig # "remote"
       /\ \E o \in Operation : /\ o.kind = "create" /\ o.job = J
                               /\ qc.chain = Append(pc.chain, o)
  BY <1>1, <1>10, QueuedFacts
<1> HIDE DEF qc
<1>12. PICK o \in Operation : /\ o.kind = "create" /\ o.job = J
                              /\ qc.chain = Append(pcs[h].chain, o)
  BY <1>11 DEF pc
<1>13. Covered(pcs, h, ud)
  <2>1. ASSUME NEW k \in Guests, k # h, Waited(td, k)
        PROVE  Waited(ud, k)
    <3>1. PICK job \in Loops : td[job] # None /\ \E i \in 1 .. Len(td[job]) : td[job][i] = k
      BY <2>1 DEF Waited
    <3>2. CASE job # J
      <4>1. ud[job] = td[job]
        BY <1>3, <3>2
      <4>2. QED
        BY <3>1, <4>1 DEF Waited
    <3>3. CASE job = J
      <4>1. PICK i \in 1 .. Len(ids) : ids[i] = k
        BY <3>1, <3>3 DEF ids
      <4>2. i - 1 \in 1 .. Len(ids) - 1 /\ (i - 1) + 1 = i
        BY <1>4, <2>1, <4>1
      <4>3. ud[J] = rest /\ rest # None
        BY <1>1, <1>3, <1>4, PagesAssumption
      <4>4. i - 1 \in 1 .. Len(ud[J]) /\ ud[J][i - 1] = k
        BY <1>4, <4>1, <4>2, <4>3
      <4>5. QED
        BY <1>1, <4>3, <4>4 DEF Waited
    <3>4. QED
      BY <3>2, <3>3
  <2>2. QED
    BY <2>1 DEF Covered, Change
<1>14. J \in Loops /\ rest \in Seq(Guests) /\ qc \in PC /\ qc.sig # "remote"
  BY <1>1, <1>4, <1>11
<1>15. QED
  BY <1>3, <1>6, <1>7, <1>8, <1>12, <1>13, <1>14, NextServing

\* The loop at the peer x0 has served them all.
LEMMA EndServing ==
  ASSUME NEW pcs, NEW td \in [Loops -> Seq(Guests) \cup {None}], NEW ps \in Seq(Guests),
         Orderly(pcs, td, ps), NEW J, NEW x0, Moves(pcs, td, ps, J, x0),
         NEW ud, ud = [td EXCEPT ![J] = None]
  PROVE  /\ ud \in [Loops -> Seq(Guests) \cup {None}] /\ Orderly(pcs, ud, ps)
         /\ Change(pcs, td) /\ td[J] = <<>> => Change(pcs, ud)
<1>1. J \in Loops
  BY DEF Moves
<1>2. \A x \in 1 .. Len(ps) : \A i \in OffersOf(At(pcs, ps, x)) : At(pcs, ps, x)[i].job # J
  BY DEF Moves, Free
<1>3. Orderly(pcs, ud, ps)
  BY <1>1, <1>2, EndOrderly
<1>4. ASSUME td[J] = <<>>, NEW h \in Guests, Waited(td, h)
      PROVE  Waited(ud, h)
  <2>1. PICK job \in Loops : td[job] # None /\ \E i \in 1 .. Len(td[job]) : td[job][i] = h
    BY <1>4 DEF Waited
  <2>2. job # J
    BY <1>4, <2>1
  <2>3. ud[job] = td[job]
    BY <2>2
  <2>4. QED
    BY <2>1, <2>3 DEF Waited
<1>5. Change(pcs, td) /\ td[J] = <<>> => Change(pcs, ud)
  BY <1>4 DEF Change
<1>6. ud \in [Loops -> Seq(Guests) \cup {None}]
  OBVIOUS
<1>7. QED
  BY <1>3, <1>5, <1>6

\* What the owner says to a guest: an offer, and behind it candidates.
LEMMA ToGuestKeeps ==
  ASSUME NEW d \in Mails, NEW g \in Guests, NEW ms \in Seq(Message), Len(ms) > 0,
         ms[1].type = "offer",
         \A i \in 1 .. Len(ms) : ms[i].type \in {"offer", "candidate"},
         NEW r, r = To(d, g, ms), NEW pg, NEW opc, NEW gpc, NEW away
  PROVE  /\ r \in Mails
         /\ Updates(d) => Updates(r)
         /\ Starts(d, pg, opc) => Starts(r, pg, opc)
         /\ Replies(d, opc, gpc) /\ opc[g] # None => Replies(r, opc, gpc)
         /\ Candidates(d, gpc, away) => Candidates(r, gpc, away)
<1>1. g \in Pages /\ g # Owner /\ Owner \in Pages /\ Guests \subseteq Pages
  BY PageFacts
<1>2. /\ r \in Mails
      /\ \A x \in Pages : x # g \/ ~Open(g) => r[x] = d[x]
      /\ Open(g) => /\ Len(r[g]) = Len(d[g]) + Len(ms)
                    /\ \A i \in 1 .. Len(d[g]) : r[g][i] = d[g][i]
                    /\ \A i \in 1 .. Len(ms) : r[g][Len(d[g]) + i] = ms[i]
  BY <1>1, ToFacts
<1>3. Len(d[g]) \in Nat /\ Len(r[g]) \in Nat /\ Len(ms) \in Nat
  BY <1>1, <1>2 DEF Mails
<1>4. ASSUME NEW i \in 1 .. Len(r[g])
      PROVE  \/ i \in 1 .. Len(d[g]) /\ r[g][i] = d[g][i]
             \/ /\ r[g][i].type \in {"offer", "candidate"} /\ Open(g) /\ i > Len(d[g])
                /\ i # Len(d[g]) + 1 => /\ Len(d[g]) + 1 \in 1 .. i - 1
                                        /\ r[g][Len(d[g]) + 1].type = "offer"
                /\ i = Len(d[g]) + 1 => r[g][i].type = "offer"
  <2>1. CASE ~Open(g)
    BY <1>1, <1>2, <2>1
  <2>2. CASE Open(g) /\ i <= Len(d[g])
    BY <1>2, <1>3, <2>2
  <2>3. CASE Open(g) /\ ~(i <= Len(d[g]))
    <3>1. /\ i - Len(d[g]) \in 1 .. Len(ms) /\ 1 \in 1 .. Len(ms)
          /\ Len(d[g]) + (i - Len(d[g])) = i
      BY <1>2, <1>3, <2>3
    <3>2. r[g][i] = ms[i - Len(d[g])] /\ r[g][Len(d[g]) + 1] = ms[1]
      BY <1>2, <2>3, <3>1
    <3>3. i # Len(d[g]) + 1 => Len(d[g]) + 1 \in 1 .. i - 1
      BY <1>3, <2>3
    <3>4. QED
      BY <1>3, <2>3, <3>1, <3>2, <3>3
  <2>4. QED
    BY <2>1, <2>2, <2>3
<1>5. \A x \in Pages : x # g => r[x] = d[x]
  BY <1>2
<1>6. Updates(d) => Updates(r)
  <2> SUFFICES ASSUME Updates(d), NEW x \in Pages, NEW i \in 1 .. Len(r[x]),
                      r[x][i].type = "update"
               PROVE  r[x][i].fakes \in SUBSET Tracks
    BY DEF Updates
  <2>1. CASE x = g
    BY <1>1, <1>4, <2>1 DEF Updates
  <2>2. CASE x # g
    BY <1>5, <2>2 DEF Updates
  <2>3. QED
    BY <2>1, <2>2
<1>7. r[Owner] = d[Owner]
  BY <1>1, <1>5
<1>8. Starts(d, pg, opc) => Starts(r, pg, opc)
  BY <1>7 DEF Starts
<1>9. Replies(d, opc, gpc) /\ opc[g] # None => Replies(r, opc, gpc)
  <2>1. \A h \in Guests : h # g => r[h] = d[h]
    BY <1>1, <1>5
  <2>2. QED
    BY <1>7, <2>1 DEF Replies
<1>10. Candidates(d, gpc, away) => Candidates(r, gpc, away)
  <2> SUFFICES ASSUME Candidates(d, gpc, away), NEW h \in Guests \ away,
                      NEW i \in 1 .. Len(r[h]), r[h][i].type = "candidate", gpc[h] = None
               PROVE  \E j \in 1 .. i - 1 : r[h][j].type = "offer"
    BY DEF Candidates
  <2>1. CASE h # g
    <3>1. r[h] = d[h]
      BY <1>1, <1>5, <2>1
    <3>2. QED
      BY <3>1 DEF Candidates
  <2>2. CASE h = g /\ i \in 1 .. Len(d[g]) /\ r[g][i] = d[g][i]
    <3>1. PICK j \in 1 .. i - 1 : d[g][j].type = "offer"
      BY <2>2 DEF Candidates
    <3>2. j \in 1 .. Len(d[g])
      BY <1>3, <2>2
    <3>3. r[g][j] = d[g][j]
      BY <1>1, <1>2, <3>2
    <3>4. QED
      BY <2>2, <3>1, <3>3
  <2>3. CASE h = g /\ ~(i \in 1 .. Len(d[g]) /\ r[g][i] = d[g][i])
    <3>1. i # Len(d[g]) + 1 /\ Len(d[g]) + 1 \in 1 .. i - 1 /\ r[g][Len(d[g]) + 1].type = "offer"
      BY <1>4, <2>3
    <3>2. QED
      BY <2>3, <3>1
  <2>4. QED
    BY <2>1, <2>2, <2>3
<1>11. QED
  BY <1>2, <1>6, <1>8, <1>9, <1>10

LEMMA OutFacts ==
  ASSUME NEW g \in Guests, NEW desc \in Description \cup {None}, NEW d, d = OfferOut(g, desc)
  PROVE  \E ms \in Seq(Message) :
           /\ Len(ms) > 0 /\ ms[1].type = "offer"
           /\ \A i \in 1 .. Len(ms) : ms[i].type \in {"offer", "candidate"}
           /\ d = To(down, g, ms)
<1> DEFINE a == Sdp("offer", Owner, desc)
           c == Candidate(Owner)
<1>1. /\ a \in Message /\ a.type = "offer" /\ c \in Message /\ c.type = "candidate"
  BY PageFacts, MessageFacts
<1>2. d = To(down, g, <<a, c>>) \/ d = To(down, g, <<a>>)
  BY DEF OfferOut
<1> HIDE DEF a, c
<1>3. /\ <<a, c>> \in Seq(Message) /\ Len(<<a, c>>) > 0 /\ <<a, c>>[1].type = "offer"
      /\ \A i \in 1 .. Len(<<a, c>>) : <<a, c>>[i].type \in {"offer", "candidate"}
  BY <1>1
<1>4. /\ <<a>> \in Seq(Message) /\ Len(<<a>>) > 0 /\ <<a>>[1].type = "offer"
      /\ \A i \in 1 .. Len(<<a>>) : <<a>>[i].type \in {"offer", "candidate"}
  BY <1>1
<1>5. QED
  BY <1>2, <1>3, <1>4

\* A loop that moves on or ends makes no other begin.
LEMMA FilesFewer ==
  ASSUME Typed, Files, Counts, UNCHANGED <<arrays, decoding>>,
         \A job \in Loops : todo[job] = None => todo'[job] = None
  PROVE  Files'
<1>1. Len(arrays) <= acts' + 1
  BY DEF Typed, FileTypes, Files, Counts
<1>2. \A t \in Tracks : Load(t) \in Loops
  BY JobFacts
<1>3. \A t \in decoding : t \in Tracks
  BY DEF Typed, FileTypes
<1>4. QED
  BY <1>1, <1>2, <1>3 DEF Files

LEMMA OfferAppliedStep ==
  ASSUME IInv, Counts, NEW g \in Guests, OfferApplied(g)
  PROVE  IInv'
<1> DEFINE pc == ownerPc[g]
           op == Head(pc.chain)
           J == op.job
           lc == SetLocalOffer(pc, op.desc)
           qc == Dequeue(lc)
           pcs == [ownerPc EXCEPT ![g] = qc]
           out == OfferOut(g, op.desc)
<1>1. /\ pc # None /\ pc.chain # <<>> /\ op.kind = "local" /\ peers' = peers
      /\ UNCHANGED <<page, members, announcing, room, guestPc, streams, tracks, decoding,
                     arrays, stopped, early, cutShort, clashed>>
  BY DEF OfferApplied, Has, Waits, history
<1>2. \/ /\ J = Connect /\ ownerPc' = pcs /\ down' = out
         /\ UNCHANGED <<fakes, todo, fakeUsers, captured>>
      \/ /\ J # Connect /\ TakesUp(J, pcs, todo, ownerPc', todo') /\ down' = out
         /\ UNCHANGED <<fakes, fakeUsers, captured>>
      \/ /\ J # Connect /\ todo[J] = <<>> /\ ownerPc' = pcs
         /\ todo' = [todo EXCEPT ![J] = None] /\ fakeUsers' = captured[J]
         /\ captured' = [captured EXCEPT ![J] = 1]
         /\ fakes' \subseteq fakes /\ down' \in {out, ToRoom(out, Update(fakes'))}
  <2>1. ownerPc \in [Guests -> {None} \cup PC]
    BY DEF IInv, Typed, PeerTypes
  <2>2. QED
    BY <2>1 DEF OfferApplied, NextPeer, TakesUp, EndLoop
<1>3. pc \in PC /\ pc.sig # "remote"
  BY <1>1 DEF IInv, Typed, PeerTypes
<1>4. /\ op = pc.chain[1] /\ op.desc \in Description \cup {None}
  <2>1. op = pc.chain[1] /\ pc.chain[1] \in Operation
    BY <1>1, <1>3, DequeueFacts
  <2>2. QED
    BY <1>3, <2>1, DescFacts
<1>5. /\ qc \in PC /\ qc.sig # "remote" /\ qc.chain = Tail(pc.chain)
      /\ qc.sending = pc.sending /\ qc.local = op.desc
  <2>1. /\ lc \in PC /\ lc.sig = "local" /\ lc.chain = pc.chain
        /\ lc.sending = pc.sending /\ lc.local = op.desc
    BY <1>3, <1>4, SetFacts
  <2> HIDE DEF lc
  <2>2. QED
    BY <1>1, <2>1, DequeueFacts
<1> HIDE DEF lc, qc
<1>6. /\ ownerPc \in [Guests -> {None} \cup PC] /\ peers \in Seq(Guests) /\ down \in Mails
      /\ todo \in [Loops -> Seq(Guests) \cup {None}] /\ fakes \in SUBSET Tracks
      /\ arrays \in Seq(SUBSET Tracks) /\ captured \in [Loops -> 1 .. Len(arrays)]
      /\ Star(ownerPc, peers) /\ Orderly(ownerPc, todo, peers) /\ Change(ownerPc, todo)
      /\ Offering(ownerPc)
  BY DEF IInv, Typed, ServerTypes, PeerTypes, FileTypes, Serving, Offering
<1>7. pcs = [ownerPc EXCEPT ![g] = qc] /\ pc = ownerPc[g]
  OBVIOUS
<1>8. pc.chain \in Seq(Operation) /\ pc.chain[1].kind = "local" /\ pc.chain[1].job = J
  BY <1>1, <1>3, <1>4 DEF PC
<1> HIDE DEF pcs, op, pc, J, out
<1>9. /\ pcs \in [Guests -> {None} \cup PC] /\ Offering(pcs)
      /\ \A h \in Guests : pcs[h] = None <=> ownerPc[h] = None
      /\ Star(pcs, peers) /\ Orderly(pcs, todo, peers)
      /\ \E x0 \in 1 .. Len(peers) : J # Connect => Moves(pcs, todo, peers, J, x0)
  <2>1. Passed(ownerPc, pcs, todo, peers, g, pc.chain[1].job)
    BY <1>1, <1>3, <1>5, <1>6, <1>7, <1>8, HeadServed
  <2>2. QED
    BY <1>8, <2>1 DEF Passed
<1>10. Change(pcs, todo)
  <2>1. Offered(pc) => Offered(qc)
    BY <1>1, <1>3, <1>4, <1>5, <1>8, OfferedTail
  <2>2. NoCreate(qc.chain) => NoCreate(pc.chain)
    BY <1>1, <1>5, <1>8, NoCreateTail
  <2>3. QED
    BY <1>1, <1>5, <1>6, <1>7, <2>1, <2>2, ChangeOne
<1>11. PICK x0 \in 1 .. Len(peers) : J # Connect => Moves(pcs, todo, peers, J, x0)
  BY <1>9
<1>12. /\ ownerPc' \in [Guests -> {None} \cup PC]
       /\ todo' \in [Loops -> Seq(Guests) \cup {None}]
       /\ Offering(ownerPc') /\ \A h \in Guests : ownerPc'[h] = None <=> ownerPc[h] = None
       /\ Star(ownerPc', peers) /\ Orderly(ownerPc', todo', peers) /\ Change(ownerPc', todo')
       /\ \A job \in Loops : todo[job] = None => todo'[job] = None
  <2>1. CASE J = Connect /\ ownerPc' = pcs /\ todo' = todo
    BY <1>6, <1>9, <1>10, <2>1
  <2>2. CASE J # Connect /\ TakesUp(J, pcs, todo, ownerPc', todo')
    <3>1. Moves(pcs, todo, peers, J, x0)
      BY <1>11, <2>2
    <3> DEFINE qcs == ownerPc'
               ud == todo'
    <3>2. TakesUp(J, pcs, todo, qcs, ud)
      BY <2>2
    <3> HIDE DEF qcs, ud
    <3>3. Served(pcs, qcs, ud, peers)
      BY <1>6, <1>9, <1>10, <3>1, <3>2, OnServing
    <3>4. \A job \in Loops : todo[job] = None => ud[job] = None
      BY <1>6, <3>1, <3>2 DEF Moves, TakesUp
    <3>5. QED
      BY <1>9, <3>3, <3>4 DEF Served, qcs, ud
  <2>3. CASE J # Connect /\ todo[J] = <<>> /\ ownerPc' = pcs /\ todo' = [todo EXCEPT ![J] = None]
    <3>1. Moves(pcs, todo, peers, J, x0)
      BY <1>11, <2>3
    <3>2. /\ todo' \in [Loops -> Seq(Guests) \cup {None}] /\ Orderly(pcs, todo', peers)
          /\ Change(pcs, todo')
      BY <1>6, <1>9, <1>10, <2>3, <3>1, EndServing
    <3>3. \A job \in Loops : todo[job] = None => todo'[job] = None
      BY <1>6, <2>3
    <3>4. QED
      BY <1>9, <2>3, <3>2, <3>3
  <2>4. QED
    BY <1>2, <2>1, <2>2, <2>3
<1>13. /\ fakes' \in SUBSET Tracks /\ fakeUsers' \in 1 .. Len(arrays)
       /\ captured' \in [Loops -> 1 .. Len(arrays)]
  <2>1. fakeUsers \in 1 .. Len(arrays) /\ Len(arrays) \in Nat
    BY <1>6 DEF IInv, Typed, FileTypes
  <2>2. J # Connect => J \in Loops
    BY <1>11 DEF Moves
  <2>3. 1 \in 1 .. Len(arrays)
    BY <2>1
  <2>4. fakes' \in SUBSET Tracks
    BY <1>2, <1>6
  <2>5. fakeUsers' \in 1 .. Len(arrays)
    BY <1>2, <1>6, <2>1, <2>2
  <2>6. captured' \in [Loops -> 1 .. Len(arrays)]
    BY <1>2, <1>6, <2>2, <2>3
  <2>7. QED
    BY <2>4, <2>5, <2>6
<1>14. PICK ms \in Seq(Message) :
         /\ Len(ms) > 0 /\ ms[1].type = "offer"
         /\ \A i \in 1 .. Len(ms) : ms[i].type \in {"offer", "candidate"}
         /\ out = To(down, g, ms)
  <2>1. PICK desc \in Description \cup {None} : desc = op.desc
    BY <1>4
  <2>2. out = OfferOut(g, desc)
    BY <2>1 DEF out
  <2> HIDE DEF out
  <2>3. QED
    BY ONLY <2>2, OutFacts
<1>15. /\ out \in Mails
       /\ Updates(down) => Updates(out)
       /\ Starts(down, page, ownerPc) => Starts(out, page, ownerPc)
       /\ Replies(down, ownerPc, guestPc) => Replies(out, ownerPc, guestPc)
       /\ Candidates(down, guestPc, stopped) => Candidates(out, guestPc, stopped)
  <2>1. ownerPc[g] # None
    BY <1>1 DEF pc
  <2>2. QED
    BY <1>6, <1>14, <2>1, ToGuestKeeps
<1>16. /\ down' \in Mails
       /\ Updates(out) => Updates(down')
       /\ Starts(out, page, ownerPc) => Starts(down', page, ownerPc)
       /\ Replies(out, ownerPc, guestPc) => Replies(down', ownerPc, guestPc)
       /\ Candidates(out, guestPc, stopped) => Candidates(down', guestPc, stopped)
  <2>1. CASE down' = out
    BY <1>15, <2>1
  <2>2. CASE down' = ToRoom(out, Update(fakes'))
    <3> DEFINE m == Update(fakes')
    <3>1. m \in Message /\ m.type = "update" /\ m.fakes \in SUBSET Tracks
      BY <1>13, MessageFacts
    <3>2. down' = ToRoom(out, m)
      BY <2>2
    <3> HIDE DEF m
    <3>3. down' \in Mails /\ Adds(out, down', {m})
      BY <1>15, <3>1, <3>2, AddsRoom
    <3>4. PICK M : M = {m}
      OBVIOUS
    <3>5. Adds(out, down', M) /\ \A n \in M : n.type = "update" /\ n.fakes \in SUBSET Tracks
      BY <3>1, <3>3, <3>4
    <3>6. QED
      BY <1>15, <3>3, <3>5, AddsKeeps
  <2>3. QED
    BY <1>2, <2>1, <2>2
<1>17. Typed'
  <2>1. ServerTypes' /\ PageTypes' /\ HistoryTypes'
    BY <1>1, <1>13, <1>16 DEF IInv, Typed, ServerTypes, PageTypes, HistoryTypes
  <2>2. PeerTypes'
    BY <1>1, <1>12 DEF IInv, Typed, PeerTypes, Offering
  <2>3. FileTypes'
    BY <1>1, <1>12, <1>13 DEF IInv, Typed, Counts, FileTypes
  <2>4. QED
    BY <2>1, <2>2, <2>3 DEF Typed
<1>18. Files'
  BY <1>1, <1>12, FilesFewer DEF IInv
<1>19. Serving'
  BY <1>1, <1>12, ServingMade
<1>20. Letters'
  <2>1. /\ Updates(down') /\ Starts(down', page, ownerPc)
        /\ Candidates(down', guestPc, stopped)
        /\ (Open(Owner) /\ Owner \notin stopped => Replies(down', ownerPc, guestPc))
    BY <1>15, <1>16 DEF IInv, Letters
  <2>2. /\ Starts(down', page, ownerPc')
        /\ Replies(down', ownerPc, guestPc) => Replies(down', ownerPc', guestPc)
    BY <1>12, <2>1, SwapKeeps
  <2>3. QED
    BY <1>1, <2>1, <2>2 DEF Letters, Updates, Open, Starts, Replies, HasOffer, Candidates
<1>21. SilentWithoutRoom'
  BY <1>1 DEF IInv, SilentWithoutRoom
<1>22. QED
  BY <1>17, <1>18, <1>19, <1>20, <1>21 DEF IInv

\* Whoever waits for a loop that is cut short waits for another: the offer that
\* was created behind it goes on to the same peers.
Follows(pcs, qcs, ps, x0, s, J) ==
  /\ s \in Seq(Operation) /\ s # <<>> /\ s = At(pcs, ps, x0) /\ At(qcs, ps, x0) = Tail(s)
  /\ s[1].kind = "local" /\ J = s[1].job /\ J # Connect
  /\ \E i \in 2 .. Len(s) : s[i].kind = "local"

LEMMA AnotherServes ==
  ASSUME NEW pcs, NEW td \in [Loops -> Seq(Guests) \cup {None}], NEW ps \in Seq(Guests),
         Orderly(pcs, td, ps), NEW x0 \in 1 .. Len(ps), NEW s, NEW J, NEW qcs,
         Follows(pcs, qcs, ps, x0, s, J), Moves(qcs, td, ps, J, x0),
         NEW ud, ud = [td EXCEPT ![J] = None],
         NEW h, Waited(td, h)
  PROVE  Waited(ud, h)
<1>0. /\ s \in Seq(Operation) /\ s # <<>> /\ s = At(pcs, ps, x0) /\ At(qcs, ps, x0) = Tail(s)
      /\ s[1].kind = "local" /\ J = s[1].job /\ J # Connect
      /\ \E i \in 2 .. Len(s) : s[i].kind = "local"
  BY DEF Follows
<1>1. PICK job \in Loops : td[job] # None /\ \E k \in 1 .. Len(td[job]) : td[job][k] = h
  BY DEF Waited
<1>2. CASE job # J
  <2>1. ud[job] = td[job]
    BY <1>2
  <2>2. QED
    BY <1>1, <2>1 DEF Waited
<1>3. CASE job = J
  <2>1. PICK i \in 2 .. Len(s) : s[i].kind = "local"
    BY <1>0
  <2>2. /\ Len(s) \in Nat /\ Len(Tail(s)) = Len(s) - 1
        /\ \A j \in 1 .. Len(s) - 1 : Tail(s)[j] = s[j + 1]
    BY <1>0, TailFacts
  <2>3. i \in Nat /\ i > 1 /\ i - 1 \in 1 .. Len(s) - 1 /\ (i - 1) + 1 = i
    BY <2>1, <2>2
  <2>4. i - 1 \in OffersOf(At(qcs, ps, x0)) /\ At(qcs, ps, x0)[i - 1] = s[i]
    BY <1>0, <2>1, <2>2, <2>3 DEF OffersOf
  <2>5. i \in OffersOf(At(pcs, ps, x0)) /\ 1 \in OffersOf(At(pcs, ps, x0)) /\ i # 1
    BY <1>0, <2>1, <2>2, <2>3 DEF OffersOf
  <2>6. PICK K : K = s[i].job
    OBVIOUS
  <2>7. K # Connect
    <3>1. ~Ahead(s, i, 1)
      BY <1>0, <2>1, <2>3 DEF Ahead
    <3>2. QED
      BY <1>0, <2>5, <2>6, <3>1 DEF Orderly, First
  <2>8. K \in Loops /\ td[K] # None /\ After(td[K], ps, x0)
    BY <1>0, <2>5, <2>6, <2>7 DEF Orderly, InLine
  <2>9. After(td[J], ps, x0)
    BY DEF Moves
  <2>10. PICK n \in Nat : n = Len(td[J])
    BY <2>9 DEF After
  <2>11. PICK m \in Nat : m = Len(td[K])
    BY <2>8 DEF After
  <2>12. K # J /\ (x0 < x0 + 1 => (x0 + 1) + (n - 1) <= x0 + m)
    BY <2>4, <2>6, <2>8, <2>10, <2>11 DEF Moves, Free
  <2>13. n <= m
    <3>1. x0 \in Int
      OBVIOUS
    <3>2. (x0 + 1) + (n - 1) = x0 + n /\ x0 < x0 + 1
      BY <3>1, OneOn
    <3>3. x0 + n <= x0 + m
      BY <2>12, <3>2
    <3>4. QED
      BY <3>1, <3>3
  <2>14. PICK k \in 1 .. n : td[J][k] = h
    BY <1>1, <1>3, <2>10
  <2>15. k \in 1 .. m /\ td[J][k] = ps[x0 + k] /\ td[K][k] = ps[x0 + k]
    BY <2>8, <2>9, <2>10, <2>11, <2>13, <2>14 DEF After
  <2>16. ud[K] = td[K]
    BY <2>8, <2>12
  <2>17. QED
    BY <2>8, <2>11, <2>14, <2>15, <2>16 DEF Waited
<1>4. QED
  BY <1>2, <1>3

LEMMA OfferRefusedStep ==
  ASSUME IInv, Counts, NEW g \in Guests, OfferRefused(g)
  PROVE  IInv'
<1> DEFINE pc == ownerPc[g]
           op == Head(pc.chain)
           J == op.job
           qc == Dequeue(pc)
<1>1. pc # None /\ pc.chain # <<>> /\ op.kind = "local" /\ MayBeRefused(pc)
  BY DEF OfferRefused, Has, Waits
<1>2. CASE J = Connect /\ Gone(Owner)
  BY <1>2, GoneStep, PageFacts
<1>3. ASSUME J # Connect, ownerPc' = [ownerPc EXCEPT ![g] = qc],
             todo' = [todo EXCEPT ![J] = None], cutShort' = cutShort \cup {J.track},
             UNCHANGED <<page, members, fakes, announcing, down, room, peers, guestPc, streams,
                         tracks, decoding, arrays, captured, fakeUsers, stopped, early, clashed>>
      PROVE  IInv'
  <2>1. pc \in PC /\ pc.sig # "remote"
    BY <1>1 DEF IInv, Typed, PeerTypes
  <2>2. /\ qc \in PC /\ qc.sig = pc.sig /\ qc.sending = pc.sending /\ qc.chain = Tail(pc.chain)
        /\ pc.chain \in Seq(Operation) /\ op = pc.chain[1] /\ pc.chain[1] \in Operation
    BY <1>1, <2>1, DequeueFacts
  <2>3. /\ ownerPc \in [Guests -> {None} \cup PC] /\ peers \in Seq(Guests)
        /\ todo \in [Loops -> Seq(Guests) \cup {None}]
        /\ Star(ownerPc, peers) /\ Orderly(ownerPc, todo, peers) /\ Change(ownerPc, todo)
        /\ Offering(ownerPc)
    BY DEF IInv, Typed, PeerTypes, FileTypes, Serving, Offering
  <2>4. pc = ownerPc[g] /\ pc.chain[1].kind = "local" /\ pc.chain[1].job = J
    BY <1>1, <2>2
  <2> HIDE DEF pc, op, J, qc
  <2> DEFINE pcs == ownerPc'
             ud == todo'
  <2>5. pcs = [ownerPc EXCEPT ![g] = qc] /\ ud = [todo EXCEPT ![J] = None]
    BY <1>3
  <2> HIDE DEF pcs, ud
  <2>6. Passed(ownerPc, pcs, todo, peers, g, pc.chain[1].job)
    BY <1>1, <2>1, <2>2, <2>3, <2>4, <2>5, HeadServed
  <2>7. /\ pcs \in [Guests -> {None} \cup PC] /\ Offering(pcs)
        /\ \A h \in Guests : pcs[h] = None <=> ownerPc[h] = None
        /\ Star(pcs, peers) /\ Orderly(pcs, todo, peers)
    BY <2>6 DEF Passed
  <2>8. PICK x0 \in 1 .. Len(peers) : peers[x0] = g /\ Moves(pcs, todo, peers, J, x0)
    BY <1>3, <2>4, <2>6 DEF Passed
  <2>9. ud \in [Loops -> Seq(Guests) \cup {None}] /\ Orderly(pcs, ud, peers)
    BY <2>3, <2>5, <2>7, <2>8, EndServing
  <2>10. Change(pcs, ud)
    <3>1. Change(pcs, todo)
      <4>1. Offered(pc) => Offered(qc)
        BY <1>1, <2>1, <2>2, OfferedTail
      <4>2. NoCreate(qc.chain) => NoCreate(pc.chain)
        BY <1>1, <2>2, <2>4, NoCreateTail
      <4>3. QED
        BY <1>1, <2>2, <2>3, <2>4, <2>5, <4>1, <4>2, ChangeOne
    <3>2. pcs[g] = qc
      BY <2>2, <2>3, <2>5, OneFacts
    <3>3. \E i \in 2 .. Len(pc.chain) : pc.chain[i].kind = "local"
      BY <1>1 DEF MayBeRefused
    <3>4. pc.chain = At(ownerPc, peers, x0) /\ At(pcs, peers, x0) = Tail(pc.chain)
      BY <2>2, <2>4, <2>8, <3>2 DEF At
    <3>6. Follows(ownerPc, pcs, peers, x0, pc.chain, J)
      BY <1>1, <1>3, <2>2, <2>4, <3>3, <3>4 DEF Follows
    <3>7. \A h \in Guests : Waited(todo, h) => Waited(ud, h)
      BY <2>3, <2>5, <2>8, <3>6, AnotherServes
    <3>8. QED
      BY <3>1, <3>7 DEF Change
  <2>11. J \in Loops /\ J.track \in Tracks
    BY <2>8, JobFacts DEF Moves
  <2>12. \A job \in Loops : todo[job] = None => todo'[job] = None
    BY <1>3, <2>3
  <2>13. Typed'
    <3>1. PeerTypes'
      BY <1>3, <2>7 DEF IInv, Typed, PeerTypes, Offering, pcs
    <3>2. FileTypes'
      BY <1>3, <2>9 DEF IInv, Typed, Counts, FileTypes, ud
    <3>3. HistoryTypes'
      BY <1>3, <2>11 DEF IInv, Typed, HistoryTypes
    <3>4. ServerTypes' /\ PageTypes'
      BY <1>3 DEF IInv, Typed, ServerTypes, PageTypes
    <3>5. QED
      BY <3>1, <3>2, <3>3, <3>4 DEF Typed
  <2>14. Files'
    BY <1>3, <2>12, FilesFewer DEF IInv
  <2>15. Serving'
    <3>1. /\ Star(ownerPc', peers) /\ Orderly(ownerPc', todo', peers)
          /\ Change(ownerPc', todo')
      BY <2>7, <2>9, <2>10 DEF pcs, ud
    <3>2. QED
      BY <1>3, <3>1, ServingMade
  <2>16. Letters'
    BY <1>3, <2>7, LettersKept DEF IInv, pcs
  <2>17. SilentWithoutRoom'
    BY <1>3 DEF IInv, SilentWithoutRoom
  <2>18. QED
    BY <2>13, <2>14, <2>15, <2>16, <2>17 DEF IInv
<1>4. QED
  BY <1>2, <1>3 DEF OfferRefused, server, files

-----------------------------------------------------------------------------
(* The invariant holds at first, and every step keeps it *)

\* SetToSeqs lists every element, and each once.
LEMMA ListFacts ==
  ASSUME NEW S \in SUBSET Guests, NEW ps \in SetToSeqs(S)
  PROVE  /\ ps \in Seq(Guests)
         /\ \A x, y \in 1 .. Len(ps) : ps[x] = ps[y] => x = y
         /\ \A g \in Guests : g \in S <=> \E x \in 1 .. Len(ps) : ps[x] = g
<1> DEFINE n == Cardinality(S)
           D == 1 .. n
<1>1. IsFiniteSet(S) /\ n \in Nat
  BY PagesAssumption, FS_Subset, FS_CardinalityType
<1>2. ps \in [D -> S] /\ \A i, j \in D : i # j => ps[i] # ps[j]
  BY DEF SetToSeqs
<1> HIDE DEF n
<1>3. ps \in Seq(Guests) /\ Len(ps) = n
  <2>1. ps \in [1 .. n -> Guests] /\ n \in Nat
    BY <1>1, <1>2 DEF n
  <2>2. ps \in Seq(Guests)
    BY <2>1
  <2>3. QED
    BY <2>1, <2>2
<1>4. Cardinality(D) = n
  BY <1>1, FS_Interval
<1>5. ps \in Injection(D, S)
  BY <1>2 DEF Injection, IsInjective
<1>6. ps \in Surjection(D, S)
  BY <1>1, <1>4, <1>5, FS_Injection DEF n
<1>7. QED
  BY <1>2, <1>3, <1>6 DEF Surjection

LEMMA SettledFacts ==
  ASSUME NEW sent \in SUBSET Tracks
  PROVE  LET pc == SettledPC(sent) IN
         /\ pc \in PC /\ pc.sig = "stable" /\ pc.chain = <<>> /\ pc.sending = sent
         /\ pc.local.tracks = Loaded /\ pc # None
<1> DEFINE desc == [tracks |-> Loaded, lines |-> Loaded]
           nc == NewPC(sent)
<1>1. desc \in Description /\ desc.tracks = Loaded
  BY BoundsAssumption DEF Description
<1>2. nc \in PC /\ nc.sig = "stable" /\ nc.chain = <<>> /\ nc.sending = sent
  BY NewPCFacts
<1>3. SettledPC(sent) = [nc EXCEPT !.local = desc, !.remote = desc]
  BY DEF SettledPC
<1> HIDE DEF nc, desc
<1>4. LET pc == SettledPC(sent) IN
      /\ pc \in PC /\ pc.sig = "stable" /\ pc.chain = <<>> /\ pc.sending = sent
      /\ pc.local.tracks = Loaded
  BY <1>1, <1>2, <1>3 DEF PC
<1>5. QED
  BY <1>4, NoneAssumption

LEMMA Initially == Init => IInv
<1> SUFFICES ASSUME Init PROVE IInv
  OBVIOUS
<1>1. PICK settled \in SUBSET Settlers :
        /\ page = [p \in Pages |-> IF p \in {Owner} \cup settled THEN "open" ELSE "new"]
        /\ members = {Owner} \cup settled /\ fakes = Loaded /\ announcing = {}
        /\ down = [p \in Pages |-> <<>>]
        /\ room = [p \in Pages |-> IF p \in {Owner} \cup settled THEN Loaded ELSE None]
        /\ ownerPc = [g \in Guests |-> IF g \in settled THEN SettledPC(Loaded) ELSE None]
        /\ peers \in SetToSeqs(settled)
        /\ guestPc = [g \in Guests |-> IF g \in settled THEN SettledPC({}) ELSE None]
        /\ streams = [g \in Guests |-> IF g \in settled THEN Loaded ELSE {}]
        /\ tracks = Loaded /\ decoding = {} /\ todo = [job \in Loops |-> None]
        /\ arrays = <<Loaded>> /\ fakeUsers = 1 /\ captured = [job \in Loops |-> 1]
        /\ acts = 0 /\ stopped = {} /\ early = {} /\ cutShort = {} /\ clashed = {}
  BY DEF Init
<1>2. settled \in SUBSET Guests /\ Loaded \in SUBSET Tracks /\ MaxActs \in Nat
  BY BoundsAssumption
<1>3. /\ peers \in Seq(Guests)
      /\ \A x, y \in 1 .. Len(peers) : peers[x] = peers[y] => x = y
      /\ \A g \in Guests : g \in settled <=> \E x \in 1 .. Len(peers) : peers[x] = g
  BY <1>1, <1>2, ListFacts
<1>4. /\ SettledPC(Loaded) \in PC /\ SettledPC(Loaded).sig = "stable"
      /\ SettledPC(Loaded).chain = <<>> /\ SettledPC(Loaded) # None
      /\ SettledPC(Loaded).sending = Loaded /\ SettledPC(Loaded).local.tracks = Loaded
      /\ SettledPC({}) \in PC /\ SettledPC({}).sig = "stable" /\ SettledPC({}) # None
  BY <1>2, SettledFacts
<1>5. <<Loaded>> \in Seq(SUBSET Tracks) /\ Len(<<Loaded>>) = 1 /\ 1 \in 1 .. Len(<<Loaded>>)
  BY <1>2
<1>6. down \in Mails /\ \A p \in Pages : Len(down[p]) = 0
  BY <1>1 DEF Mails
<1>7. Typed
  <2>1. ServerTypes
    BY <1>1, <1>2, <1>6, PageFacts DEF ServerTypes
  <2>2. PageTypes
    BY <1>1, <1>2 DEF PageTypes
  <2>3. PeerTypes
    BY <1>1, <1>3, <1>4 DEF PeerTypes
  <2>4. FileTypes
    BY <1>1, <1>2, <1>5 DEF FileTypes
  <2>5. HistoryTypes
    BY <1>1 DEF HistoryTypes
  <2>6. QED
    BY <2>1, <2>2, <2>3, <2>4, <2>5 DEF Typed
<1>8. Files
  BY <1>1, <1>5, JobFacts DEF Files
<1>9. Serving
  <2>1. \A g \in Guests : ownerPc[g] # None <=> g \in settled
    BY <1>1, <1>4
  <2>2. Star(ownerPc, peers)
    BY <1>3, <2>1 DEF Star
  <2>3. ASSUME NEW x \in 1 .. Len(peers)
        PROVE  OffersOf(At(ownerPc, peers, x)) = {}
    <3>1. peers[x] \in Guests /\ ownerPc[peers[x]] = SettledPC(Loaded)
      BY <1>1, <1>3
    <3>2. Len(At(ownerPc, peers, x)) = 0
      BY <1>4, <3>1 DEF At
    <3>3. QED
      BY <3>2 DEF OffersOf
  <2>4. Orderly(ownerPc, todo, peers)
    BY <2>3 DEF Orderly, InLine, Once, First, Order
  <2>5. Change(ownerPc, todo)
    <3>1. ASSUME NEW g \in Guests, ownerPc[g] # None
          PROVE  Offered(ownerPc[g])
      <4>1. ownerPc[g] = SettledPC(Loaded)
        BY <1>1, <3>1
      <4>2. Len(ownerPc[g].chain) = 0 /\ ownerPc[g].local.tracks = ownerPc[g].sending
        BY <1>4, <4>1
      <4>3. QED
        BY <4>2 DEF Offered
    <3>2. QED
      BY <3>1 DEF Change
  <2>6. QED
    BY <2>2, <2>4, <2>5 DEF Serving
<1>10. Letters
  <2>1. \A g \in Guests : page[g] = "new" => ownerPc[g] = None
    BY <1>1, PageFacts
  <2>2. \A g \in Guests : ~HasOffer(down[g])
    BY <1>6, PageFacts DEF HasOffer
  <2>3. \A g \in Guests : guestPc[g] # None => ownerPc[g] # None
    BY <1>1, <1>4
  <2>4. Starts(down, page, ownerPc)
    BY <1>6, <2>1, PageFacts DEF Starts
  <2>5. Replies(down, ownerPc, guestPc)
    BY <1>6, <2>2, <2>3, PageFacts DEF Replies
  <2>6. Updates(down) /\ Candidates(down, guestPc, stopped)
    BY <1>6, PageFacts DEF Updates, Candidates
  <2>7. QED
    BY <2>4, <2>5, <2>6 DEF Letters
<1>11. SilentWithoutRoom
  BY <1>1, <1>2, PagesAssumption, PageFacts DEF SilentWithoutRoom
<1>12. QED
  BY <1>7, <1>8, <1>9, <1>10, <1>11 DEF IInv

LEMMA Stutters ==
  ASSUME IInv, UNCHANGED vars
  PROVE  IInv'
<1>1. UNCHANGED <<page, members, fakes, announcing, down, room, ownerPc, peers, guestPc, streams,
                  tracks, decoding, arrays, captured, todo, fakeUsers, acts, stopped, early,
                  cutShort, clashed>>
  BY DEF vars, server, owner, files, history
<1>2. Counts
  BY <1>1 DEF Counts, IInv, Typed, FileTypes
<1>3. Typed'
  BY <1>1 DEF IInv, Typed, ServerTypes, PageTypes, PeerTypes, FileTypes, HistoryTypes
<1>4. Files' /\ Serving' /\ Letters'
  BY <1>1, <1>2, FilesKept, ServingKept, LettersKept DEF IInv
<1>5. SilentWithoutRoom'
  BY <1>1 DEF IInv, SilentWithoutRoom
<1>6. QED
  BY <1>3, <1>4, <1>5 DEF IInv

LEMMA Steps == IInv /\ Notes /\ [Next]_vars => IInv'
<1> SUFFICES ASSUME IInv, Notes, [Next]_vars PROVE IInv'
  OBVIOUS
<1>1. acts \in 0 .. MaxActs /\ MaxActs \in Nat
  BY BoundsAssumption DEF IInv, Typed, FileTypes
<1>2. CASE UNCHANGED vars
  BY <1>2, Stutters
<1>3. CASE Person
  <2>1. Counts /\ acts' \in 0 .. MaxActs /\ acts' = acts + 1
    BY <1>1, <1>3 DEF Person, Counts
  <2>2. ASSUME NEW g \in Guests, Join(g) PROVE IInv'
    BY <2>1, <2>2, JoinStep
  <2>3. ASSUME NEW t \in Tracks, ChooseFile(t) PROVE IInv'
    BY <2>1, <2>3, ChooseStep
  <2>4. ASSUME NEW t \in Tracks, dropClient(t) PROVE IInv'
    BY <2>1, <2>4, DropStep
  <2>5. ASSUME NEW p \in Pages, Hangup(p) PROVE IInv'
    BY <2>1, <2>5, GoneStep DEF Hangup
  <2>6. ASSUME NEW p \in Pages, stopConference(p) PROVE IInv'
    BY <2>1, <2>6, StopStep
  <2>7. QED
    BY <1>3, <2>2, <2>3, <2>4, <2>5, <2>6 DEF Person
<1>4. ASSUME UNCHANGED acts, Server PROVE IInv'
  <2>1. Counts
    BY <1>1, <1>4 DEF Counts
  <2>2. QED
    BY <1>4, <2>1, TellStep
<1>5. ASSUME UNCHANGED acts, OwnerRuns PROVE IInv'
  <2>1. Counts
    BY <1>1, <1>5 DEF Counts
  <2>2. ASSUME onStartPeerConnection \/ onAnswer PROVE IInv'
    BY <2>1, <2>2, StartStep, AnswerStep
  <2>3. ASSUME NEW t \in Tracks, onMp3FileLoad(t) PROVE IInv'
    BY <2>1, <2>3, LoadStep
  <2>4. ASSUME NEW g \in Guests, OfferMade(g) \/ AnswerApplied(g) PROVE IInv'
    BY <2>1, <2>4, OfferMadeStep, AnswerAppliedStep
  <2>5. ASSUME NEW g \in Guests, OfferApplied(g) \/ OfferRefused(g) PROVE IInv'
    BY <2>1, <2>5, OfferAppliedStep, OfferRefusedStep
  <2>6. QED
    BY <1>5, <2>2, <2>3, <2>4, <2>5 DEF OwnerRuns
<1>6. ASSUME UNCHANGED acts, NEW g \in Guests, GuestRuns(g) PROVE IInv'
  <2>1. Counts
    BY <1>1, <1>6 DEF Counts
  <2>2. QED
    BY <1>6, <2>1, OfferStep, OfferTakenStep, AnswerMadeStep, AnswerSentStep DEF GuestRuns
<1>7. ASSUME UNCHANGED acts, NEW p \in Pages, onUpdateRoom(p) \/ onCandidate(p) PROVE IInv'
  <2>1. Counts
    BY <1>1, <1>7 DEF Counts
  <2>2. QED
    BY <1>7, <2>1, UpdateStep, CandidateStep
<1>8. QED
  BY <1>2, <1>3, <1>4, <1>5, <1>6, <1>7 DEF Next

LEMMA NotesFirst == Init => Notes
BY DEF Init, Notes

LEMMA NotesSteps == IInv /\ Notes /\ [Next]_vars => Notes'
<1> SUFFICES ASSUME IInv, Notes, [Next]_vars PROVE Notes'
  OBVIOUS
<1> USE DEF Notes
<1>1. fakes \in SUBSET Tracks /\ members \in SUBSET Pages /\ Guests \subseteq Pages
  BY PageFacts DEF IInv, Typed, ServerTypes
<1>2. ASSUME NEW p \in Pages, NEW to \in SUBSET Pages PROVE Writes(p, to) \subseteq Write
  BY <1>1, <1>2 DEF Writes, Write
<1>3. CASE UNCHANGED vars
  BY <1>3 DEF vars, server, history
<1>4. CASE Person
  <2>1. ASSUME NEW g \in Guests, Join(g) PROVE Notes'
    BY <2>1 DEF Join, history
  <2>2. ASSUME NEW t \in Tracks, ChooseFile(t) PROVE Notes'
    BY <2>2 DEF ChooseFile, server
  <2>3. ASSUME NEW t \in Tracks, dropClient(t) PROVE Notes'
    BY <2>3 DEF dropClient
  <2>4. ASSUME NEW p \in Pages, Hangup(p) PROVE Notes'
    BY <2>4 DEF Hangup, Gone, server, history
  <2>5. ASSUME NEW p \in Pages, stopConference(p) PROVE Notes'
    BY <2>5 DEF stopConference, server
  <2>6. QED
    BY <1>4, <2>1, <2>2, <2>3, <2>4, <2>5 DEF Person
<1>5. CASE Server
  <2>1. ASSUME NEW g \in Guests, Announce(g) PROVE Notes'
    BY <1>1, <1>2, <2>1 DEF Announce, history
  <2>2. ASSUME NEW p \in Pages, LeaveRoom(p) PROVE Notes'
    BY <1>1, <1>2, <2>2 DEF LeaveRoom, history
  <2>3. ASSUME NEW w \in unsent, SendUpdate(w) PROVE Notes'
    <3>1. OutOfDate(w.fakes) \subseteq Tracks
      BY <1>1 DEF OutOfDate, Write
    <3>2. QED
      BY <2>3, <3>1 DEF SendUpdate
  <2>4. QED
    BY <1>5, <2>1, <2>2, <2>3 DEF Server
<1>6. CASE OwnerRuns
  <2>1. ASSUME onStartPeerConnection \/ onAnswer PROVE Notes'
    BY <2>1 DEF onStartPeerConnection, onAnswer, server, history
  <2>2. ASSUME NEW t \in Tracks, onMp3FileLoad(t) PROVE Notes'
    BY <2>2 DEF onMp3FileLoad, history
  <2>3. ASSUME NEW g \in Guests, OfferMade(g) \/ AnswerApplied(g) PROVE Notes'
    BY <2>3 DEF OfferMade, AnswerApplied, server, history
  <2>4. ASSUME NEW g \in Guests, OfferApplied(g) PROVE Notes'
    BY <2>4 DEF OfferApplied, history
  <2>5. ASSUME NEW g \in Guests, OfferRefused(g) PROVE Notes'
    BY <2>5 DEF OfferRefused, Gone, server, history
  <2>6. QED
    BY <1>6, <2>1, <2>2, <2>3, <2>4, <2>5 DEF OwnerRuns
<1>7. ASSUME NEW g \in Guests, GuestRuns(g) PROVE Notes'
  BY <1>7 DEF GuestRuns, onOffer, OfferTaken, AnswerMade, AnswerSent, server, history
<1>8. ASSUME NEW p \in Pages, onUpdateRoom(p) \/ onCandidate(p) PROVE Notes'
  BY <1>8 DEF onUpdateRoom, onCandidate, server, history
<1>9. QED
  BY <1>3, <1>4, <1>5, <1>6, <1>7, <1>8 DEF Next

LEMMA Invariance == Spec => [](IInv /\ Notes)
BY Initially, Steps, NotesFirst, NotesSteps, PTL DEF Spec

-----------------------------------------------------------------------------
(* Theorems *)

\* Every variable keeps its type: the owner only offers and a guest only answers,
\* the messages under way are well-formed, and each drop adds one array at most.
THEOREM TypeCorrect == Spec => []TypeOK
BY Invariance, TypedLemma, PTL

\* A guest without a room plays nothing: stopConference and a reload let every
\* track go, and ontrack takes none while the room is away.
THEOREM Silent == Spec => []SilentWithoutRoom
<1>1. IInv => SilentWithoutRoom
  BY DEF IInv
<1>2. QED
  BY <1>1, Invariance, PTL

\* No candidate comes to a guest before its first offer, and no answer or
\* candidate to the owner for a guest it is not connected to, unless a person
\* stopped the conference.
THEOREM NothingIsLost == Spec => []MessageFindsPeer
<1>1. IInv => MessageFindsPeer
  <2> SUFFICES ASSUME IInv PROVE MessageFindsPeer
    OBVIOUS
  <2>1. down \in Mails
    BY DEF IInv, Typed, ServerTypes
  <2>2. ASSUME NEW p \in Pages, down[p] # <<>>
        PROVE  Head(down[p]) = down[p][1] /\ 1 \in 1 .. Len(down[p])
    BY <2>1, <2>2, RestFacts
  <2>3. ASSUME NEW g \in Guests \ stopped, Gets(g, "candidate")
        PROVE  guestPc[g] # None
    <3>1. down[g][1].type = "candidate" /\ 1 \in 1 .. Len(down[g])
      BY <2>2, <2>3, PageFacts DEF Gets
    <3>2. guestPc[g] # None \/ \E j \in 1 .. 1 - 1 : down[g][j].type = "offer"
      BY <3>1 DEF IInv, Letters, Candidates
    <3>3. QED
      BY <3>2
  <2>4. ASSUME Owner \notin stopped, Gets(Owner, "candidate") \/ Gets(Owner, "answer")
        PROVE  ownerPc[Head(down[Owner]).from] # None
    <3>1. /\ down[Owner][1].type \in {"candidate", "answer"} /\ 1 \in 1 .. Len(down[Owner])
          /\ Head(down[Owner]) = down[Owner][1] /\ Open(Owner)
      BY <2>2, <2>4, PageFacts DEF Gets
    <3>2. QED
      BY <2>4, <3>1 DEF IInv, Letters, Replies
  <2>5. QED
    BY <2>3, <2>4 DEF MessageFindsPeer
<1>2. QED
  BY <1>1, Invariance, PTL

\* When no loop runs and a connection is at rest, its last offer has exactly the
\* tracks it is to be sent, although a loop may be cut short by a refused offer.
LEMMA SendsWhatItOffered ==
  ASSUME IInv, NEW g \in Guests, ownerPc[g] # None, ownerPc[g].chain = <<>>,
         \A job \in Loops : todo[job] = None
  PROVE  ownerPc[g].sending = ownerPc[g].local.tracks
<1>1. NoCreate(ownerPc[g].chain) /\ ~Waited(todo, g)
  BY DEF NoCreate, Waited
<1>2. Offered(ownerPc[g])
  BY <1>1 DEF IInv, Serving, Change
<1>3. QED
  BY <1>2 DEF Offered
=============================================================================
