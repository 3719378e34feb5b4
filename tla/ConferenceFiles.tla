-------------------------- MODULE ConferenceFiles --------------------------
(***************************************************************************)
(* The fake users: the arrays of files that the owner keeps, and what is   *)
(* heard of them.  Proof of Removable: every load and every drop keeps the *)
(* array it found and stores it when it ends, and Buttons says what the    *)
(* arrays hold that may still be stored.  Proof of PlaysWhatIsSent: Plays  *)
(* says what offers and room updates on their way to a guest will find.    *)
(* Proof of EveryChangeIsOffered: by Spent, a part of Plays, a file that   *)
(* went from the room is sent to nobody.                                   *)
(***************************************************************************)
EXTENDS ConferenceTalk

\* A load has pushed its file to the array it kept.
PushedTo == \A t \in Tracks : todo[Load(t)] # None => t \in arrays[captured[Load(t)]]

\* A load that clashes with none keeps the array that all others keep.
SameArray ==
  \A t \in Tracks \ clashed : Load(t) \in UnderWay =>
    \A job \in UnderWay : captured[job] = captured[Load(t)]

\* A fake user that is neither loaded nor dropped is in the array shown and in
\* every array that may take its place.
InEvery ==
  \A t \in fakes \ (clashed \cup cutShort) :
    Load(t) \notin UnderWay /\ todo[Drop(t)] = None =>
      t \in arrays[fakeUsers] /\ \A job \in UnderWay : t \in arrays[captured[job]]

InSome == \A t \in fakes : \E i \in 1 .. Len(arrays) : t \in arrays[i]

Buttons == PushedTo /\ InSome /\ (Open(Owner) => SameArray /\ InEvery)

\* The types of what the steps change.
LEMMA Known ==
  ASSUME IInv
  PROVE  /\ decoding \in SUBSET Tracks /\ fakes \in SUBSET Tracks
         /\ todo \in [Loops -> Seq(Guests) \cup {None}]
         /\ arrays \in Seq(SUBSET Tracks)
         /\ fakeUsers \in 1 .. Len(arrays)
         /\ captured \in [Loops -> 1 .. Len(arrays)]
         /\ page \in [Pages -> {"new", "open", "gone"}]
         /\ peers \in Seq(Guests)
BY DEF IInv, Typed, ServerTypes, PeerTypes, FileTypes

\* What is under way, and that a drop is under way only as a loop.
LEMMA Ways ==
  ASSUME IInv
  PROVE  /\ UnderWay \subseteq Loops
         /\ \A job \in Loops : todo[job] # None => job \in UnderWay
         /\ \A t \in Tracks : Load(t) \in UnderWay <=> t \in decoding \/ todo[Load(t)] # None
         /\ \A t \in Tracks : Drop(t) \in UnderWay <=> todo[Drop(t)] # None
         /\ \A job \in UnderWay : todo[job] = None => \E t \in decoding : job = Load(t)
         /\ \A t \in decoding : todo[Load(t)] = None
BY Known, JobFacts DEF UnderWay, IInv, Files

LEMMA JobKinds ==
  ASSUME NEW job \in Loops
  PROVE  \/ job.kind = "load" /\ job = Load(job.track)
         \/ job.kind = "drop" /\ job = Drop(job.track)
BY DEF Loops, Load, Drop

\* Most steps leave the files alone.
LEMMA ButtonsKept ==
  ASSUME Buttons, Open(Owner)' => Open(Owner),
         UNCHANGED <<fakes, decoding, todo, arrays, captured, fakeUsers, clashed, cutShort>>
  PROVE  Buttons'
BY DEF Buttons, PushedTo, SameArray, InEvery, InSome, UnderWay, Open

\* Arrays may only grow.
Grown == /\ Len(arrays') \in Nat /\ Len(arrays) <= Len(arrays')
         /\ \A i \in 1 .. Len(arrays) : arrays[i] \subseteq arrays'[i]

-----------------------------------------------------------------------------
LEMMA ButtonsChoose ==
  ASSUME IInv, Buttons, NEW t \in Tracks, ChooseFile(t)
  PROVE  Buttons'
<1>1. /\ \A i \in 1 .. Len(arrays) : t \notin arrays[i]
      /\ Open(Owner) /\ decoding' = decoding \cup {t}
      /\ captured' = [captured EXCEPT ![Load(t)] = fakeUsers]
      /\ clashed' = IF AtOdds = {} THEN clashed ELSE Clashing \cup {t}
      /\ UNCHANGED <<page, fakes, arrays, todo, fakeUsers, cutShort>>
  BY DEF ChooseFile, server
<1>2. todo[Load(t)] = None
  BY <1>1, JobFacts, Known DEF Buttons, PushedTo
<1>3. UnderWay' = UnderWay \cup {Load(t)}
  BY <1>1 DEF UnderWay
<1>4. /\ captured'[Load(t)] = fakeUsers
      /\ \A job \in Loops : job # Load(t) => captured'[job] = captured[job]
  BY <1>1, JobFacts, Known
<1>5. PushedTo'
  BY <1>1, <1>2, <1>4, JobFacts DEF Buttons, PushedTo
<1>6. SameArray'
  <2> SUFFICES ASSUME NEW u \in Tracks \ clashed', Load(u) \in UnderWay',
                      NEW job \in UnderWay'
               PROVE  captured'[job] = captured'[Load(u)]
    BY DEF SameArray
  <2>1. UnderWay \subseteq Loops /\ Load(u) \in Loops
    BY Ways, JobFacts
  <2>2. CASE AtOdds = {}
    BY <1>3, <1>4, <2>1, <2>2 DEF AtOdds
  <2>3. CASE AtOdds # {}
    <3>1. u \notin Clashing /\ u # t
      BY <1>1, <2>3
    <3>2. Load(u) \in UnderWay /\ Load(u) # Load(t)
      BY <1>3, <3>1, JobFacts
    <3>3. captured[Load(u)] = fakeUsers
      BY <3>1, <3>2 DEF Clashing, AtOdds
    <3>4. u \notin clashed
      BY <3>1 DEF Clashing
    <3>5. \A j \in UnderWay : captured[j] = captured[Load(u)]
      BY <1>1, <3>2, <3>4 DEF Buttons, SameArray
    <3>6. QED
      BY <1>3, <1>4, <2>1, <3>2, <3>3, <3>5
  <2>4. QED
    BY <2>2, <2>3
<1>7. InEvery'
  <2> SUFFICES ASSUME NEW u \in fakes' \ (clashed' \cup cutShort'),
                      Load(u) \notin UnderWay', todo'[Drop(u)] = None
               PROVE  /\ u \in arrays'[fakeUsers']
                      /\ \A job \in UnderWay' : u \in arrays'[captured'[job]]
    BY DEF InEvery
  <2>1. u \in fakes \ (clashed \cup cutShort) /\ Load(u) \notin UnderWay
    BY <1>1, <1>3 DEF Clashing
  <2>2. u \in arrays[fakeUsers] /\ \A job \in UnderWay : u \in arrays[captured[job]]
    BY <1>1, <2>1 DEF Buttons, InEvery
  <2>3. QED
    BY <1>1, <1>3, <1>4, <2>2, Ways
<1>8. QED
  BY <1>1, <1>5, <1>6, <1>7 DEF Buttons, InSome

LEMMA ButtonsGone ==
  ASSUME IInv, Buttons, NEW p \in Pages, Gone(p)
  PROVE  Buttons'
<1>1. /\ page' = [page EXCEPT ![p] = "gone"]
      /\ UNCHANGED <<fakes, arrays, captured, fakeUsers, clashed, cutShort>>
  BY DEF Gone, server, history
<1>2. CASE p = Owner
  <2>1. todo' = [job \in Loops |-> None] /\ page'[Owner] = "gone"
    BY <1>1, <1>2, Known, PageFacts DEF Gone
  <2>2. QED
    BY <1>1, <2>1, JobFacts DEF Buttons, PushedTo, InSome, Open
<1>3. CASE p # Owner
  <2>1. UNCHANGED <<todo, decoding>> /\ page'[Owner] = page[Owner]
    BY <1>1, <1>3, Known, PageFacts DEF Gone
  <2>2. QED
    BY <1>1, <2>1, ButtonsKept DEF Open
<1>4. QED
  BY <1>2, <1>3

LEMMA ButtonsStop ==
  ASSUME IInv, Buttons, NEW p \in Pages, stopConference(p)
  PROVE  Buttons'
<1>1. UNCHANGED <<page, fakes, decoding, arrays, captured, fakeUsers, clashed>>
  BY DEF stopConference, server, files
<1>2. CASE p = Owner
  <2>1. /\ Open(Owner) /\ todo' = [job \in Loops |-> None]
        /\ cutShort' = cutShort \cup Running("load") \cup Running("drop")
    BY <1>2 DEF stopConference
  <2>2. \A job \in UnderWay' : job \in UnderWay
    BY <1>1, <2>1, JobFacts DEF UnderWay
  <2>3. PushedTo'
    BY <2>1, JobFacts DEF PushedTo
  <2>4. SameArray'
    BY <1>1, <2>1, <2>2 DEF Buttons, SameArray
  <2>5. InEvery'
    <3> SUFFICES ASSUME NEW u \in fakes \ (clashed \cup cutShort'), Load(u) \notin UnderWay'
                 PROVE  /\ u \in arrays[fakeUsers]
                        /\ \A job \in UnderWay' : u \in arrays[captured[job]]
      BY <1>1 DEF InEvery
    <3>1. u \in Tracks /\ Load(u) \in Loops /\ Drop(u) \in Loops
      BY Known, JobFacts
    <3>2. todo[Load(u)] = None /\ todo[Drop(u)] = None
      <4>1. u \notin Running("load") /\ u \notin Running("drop")
        BY <2>1
      <4>2. QED
        BY <3>1, <4>1 DEF Running, Load, Drop
    <3>3. Load(u) \notin UnderWay
      BY <1>1, <3>1, <3>2, Ways DEF UnderWay
    <3>4. QED
      BY <2>1, <2>2, <3>2, <3>3 DEF Buttons, InEvery
  <2>6. QED
    BY <1>1, <2>3, <2>4, <2>5 DEF Buttons, InSome
<1>3. CASE p # Owner
  BY <1>1, <1>3, ButtonsKept DEF stopConference, Open
<1>4. QED
  BY <1>2, <1>3

-----------------------------------------------------------------------------
\* A file that is pushed is in the array it was pushed to.
LEMMA PushFacts ==
  ASSUME IInv, NEW t \in Tracks, arrays' = Pushed(t)
  PROVE  Grown /\ t \in arrays'[captured[Load(t)]]
<1>1. captured[Load(t)] \in 1 .. Len(arrays)
  BY Known, JobFacts
<1> DEFINE n == captured[Load(t)]
           S == SUBSET Tracks
           x == arrays[n] \cup {t}
<1>2. arrays \in Seq(S) /\ n \in 1 .. Len(arrays) /\ x \in S
  BY <1>1, Known
<1>3. arrays' = [arrays EXCEPT ![n] = x]
  BY DEF Pushed
<1> HIDE DEF n, S
<1>4. Len(arrays') = Len(arrays) /\ Len(arrays) \in Nat
  BY <1>2, <1>3
<1>5. \A i \in 1 .. Len(arrays) : arrays'[i] = IF i = n THEN x ELSE arrays[i]
  BY <1>2, <1>3
<1>6. QED
  BY <1>2, <1>4, <1>5 DEF Grown, n

LEMMA ButtonsLoad ==
  ASSUME IInv, Buttons, NEW t \in Tracks, onMp3FileLoad(t)
  PROVE  Buttons'
<1>1. /\ t \in decoding /\ decoding' = decoding \ {t} /\ arrays' = Pushed(t)
      /\ fakes' = fakes \cup {t}
      /\ UNCHANGED <<page, captured, clashed, cutShort>>
  BY DEF onMp3FileLoad, history
<1>2. \/ /\ todo' = [todo EXCEPT ![Load(t)] = Tail(peers)] /\ peers # <<>>
         /\ UNCHANGED fakeUsers
      \/ fakeUsers' = captured[Load(t)] /\ UNCHANGED todo
  BY DEF onMp3FileLoad, NextPeer
<1>3. Grown /\ t \in arrays'[captured[Load(t)]]
  BY <1>1, PushFacts
<1>4. /\ \A job \in Loops : captured[job] \in 1 .. Len(arrays)
      /\ fakeUsers \in 1 .. Len(arrays) /\ UnderWay \subseteq Loops
      /\ Load(t) \in Loops /\ Load(t) \in UnderWay /\ todo[Load(t)] = None
  BY <1>1, Known, Ways, JobFacts
<1>5. PushedTo'
  BY <1>1, <1>2, <1>3, <1>4, Known, JobFacts DEF Buttons, PushedTo, Grown
<1>6. InSome'
  <2>1. \A u \in fakes : \E i \in 1 .. Len(arrays') : u \in arrays'[i]
    BY <1>3 DEF Buttons, InSome, Grown
  <2>2. \E i \in 1 .. Len(arrays') : t \in arrays'[i]
    BY <1>3, <1>4 DEF Grown
  <2>3. QED
    BY <1>1, <2>1, <2>2 DEF InSome
<1>7. UnderWay' \subseteq UnderWay
  BY <1>1, <1>2, <1>4, Known DEF UnderWay
<1>8. \A u \in Tracks : u # t /\ Load(u) \notin UnderWay' => Load(u) \notin UnderWay
  BY <1>1, <1>2, Known, JobFacts DEF UnderWay
<1>9. Open(Owner)' => SameArray'
  BY <1>1, <1>7 DEF Buttons, SameArray, Open
<1>10. ASSUME Open(Owner)' PROVE InEvery'
  <2> SUFFICES ASSUME NEW u \in fakes' \ (clashed \cup cutShort),
                      Load(u) \notin UnderWay', todo'[Drop(u)] = None
               PROVE  /\ u \in arrays'[fakeUsers']
                      /\ \A job \in UnderWay' : u \in arrays'[captured[job]]
    BY <1>1 DEF InEvery
  <2>1. CASE u = t
    <3>1. UNCHANGED todo /\ fakeUsers' = captured[Load(t)]
      <4>1. ~(todo' = [todo EXCEPT ![Load(t)] = Tail(peers)] /\ peers # <<>>)
        <5>1. peers # <<>> => Tail(peers) # None
          <6>1. None \notin Seq(Guests)
            BY PagesAssumption
          <6>2. peers # <<>> => Tail(peers) \in Seq(Guests)
            BY Known
          <6>3. QED
            BY <6>1, <6>2
        <5>2. Load(t) \notin UnderWay' => todo'[Load(t)] = None
          BY <1>4 DEF UnderWay
        <5>3. QED
          BY <1>4, <2>1, <5>1, <5>2, Known
      <4>2. QED
        BY <1>2, <4>1
    <3>2. \A job \in UnderWay : captured[job] = captured[Load(t)]
      BY <1>1, <1>4, <1>10, <2>1 DEF Buttons, SameArray, Open
    <3>3. QED
      BY <1>3, <1>7, <2>1, <3>1, <3>2
  <2>2. CASE u # t
    <3>1. u \in fakes /\ u \in Tracks /\ Load(u) \notin UnderWay
      BY <1>1, <1>8, <2>2, Known
    <3>2. todo[Drop(u)] = None
      BY <1>2, <3>1, Known, JobFacts
    <3>3. u \in arrays[fakeUsers] /\ \A job \in UnderWay : u \in arrays[captured[job]]
      BY <1>1, <1>10, <3>1, <3>2 DEF Buttons, InEvery, Open
    <3>4. fakeUsers' \in {fakeUsers, captured[Load(t)]}
      BY <1>2
    <3>5. QED
      BY <1>3, <1>4, <1>7, <3>3, <3>4 DEF Grown
  <2>3. QED
    BY <2>1, <2>2
<1>11. QED
  BY <1>5, <1>6, <1>9, <1>10 DEF Buttons

LEMMA ButtonsDrop ==
  ASSUME IInv, Buttons, NEW t \in Tracks, dropClient(t)
  PROVE  Buttons'
<1>1. /\ Open(Owner) /\ todo[Drop(t)] = None
      /\ arrays' = Append(arrays, arrays[fakeUsers] \ {t})
      /\ captured' = [captured EXCEPT ![Drop(t)] = fakeUsers]
      /\ UNCHANGED <<page, decoding, cutShort>>
  BY DEF dropClient
<1>2. \/ /\ todo' = [todo EXCEPT ![Drop(t)] = Tail(peers)] /\ peers # <<>>
         /\ fakeUsers' = Len(arrays') /\ clashed' = Clashing /\ UNCHANGED fakes
      \/ fakes' = fakes \ {t} /\ UNCHANGED <<todo, fakeUsers, clashed>>
  BY DEF dropClient, NextPeer, owner
<1>3. /\ Grown /\ Len(arrays') \in 1 .. Len(arrays')
      /\ arrays'[Len(arrays')] = arrays[fakeUsers] \ {t}
  <2> DEFINE S == SUBSET Tracks
             x == arrays[fakeUsers] \ {t}
  <2>1. arrays \in Seq(S) /\ x \in S
    BY Known
  <2>2. arrays' = Append(arrays, x)
    BY <1>1
  <2> HIDE DEF S, x
  <2>3. /\ Len(arrays) \in Nat /\ Len(arrays') = Len(arrays) + 1
        /\ \A i \in 1 .. Len(arrays) : arrays'[i] = arrays[i]
        /\ arrays'[Len(arrays) + 1] = x
    BY <2>1, <2>2, AppendFacts
  <2>4. QED
    BY <2>3 DEF Grown, x
<1>4. /\ \A job \in Loops : captured[job] \in 1 .. Len(arrays)
      /\ fakeUsers \in 1 .. Len(arrays) /\ UnderWay \subseteq Loops
      /\ Drop(t) \in Loops /\ Drop(t) \notin UnderWay
      /\ \A u \in Tracks : Load(u) \in Loops /\ Load(u) # Drop(t)
  BY <1>1, Known, Ways, JobFacts
<1>5. /\ captured'[Drop(t)] = fakeUsers
      /\ \A job \in Loops : job # Drop(t) => captured'[job] = captured[job] /\ todo'[job] = todo[job]
  BY <1>1, <1>2, <1>4, Known
<1>6. PushedTo'
  BY <1>3, <1>4, <1>5 DEF Buttons, PushedTo, Grown
<1>7. InSome'
  BY <1>2, <1>3 DEF Buttons, InSome, Grown
<1>8. CASE fakes' = fakes \ {t} /\ UNCHANGED <<todo, fakeUsers, clashed>>
  <2>1. UnderWay' = UnderWay
    BY <1>1, <1>8 DEF UnderWay
  <2>2. SameArray'
    BY <1>1, <1>4, <1>5, <1>8, <2>1 DEF Buttons, SameArray
  <2>3. InEvery'
    BY <1>1, <1>3, <1>4, <1>5, <1>8, <2>1 DEF Buttons, InEvery, Grown
  <2>4. QED
    BY <1>6, <1>7, <2>2, <2>3 DEF Buttons
<1>9. CASE /\ todo' = [todo EXCEPT ![Drop(t)] = Tail(peers)] /\ peers # <<>>
           /\ fakeUsers' = Len(arrays') /\ clashed' = Clashing /\ UNCHANGED fakes
  <2>1. todo'[Drop(t)] # None
    <3>1. None \notin Seq(Guests)
      BY PagesAssumption
    <3>2. Tail(peers) \in Seq(Guests)
      BY <1>9, Known
    <3>3. QED
      BY <1>4, <1>9, <3>1, <3>2, Known
  <2>2. UnderWay' = UnderWay \cup {Drop(t)}
    BY <1>1, <1>4, <1>5, <2>1 DEF UnderWay
  <2>3. SameArray'
    <3> SUFFICES ASSUME NEW u \in Tracks \ Clashing, Load(u) \in UnderWay',
                        NEW job \in UnderWay'
                 PROVE  captured'[job] = captured'[Load(u)]
      BY <1>9 DEF SameArray
    <3>1. Load(u) \in UnderWay /\ u \notin clashed
      BY <1>4, <2>2 DEF Clashing
    <3>2. captured[Load(u)] = fakeUsers
      BY <3>1 DEF Clashing, AtOdds
    <3>3. \A j \in UnderWay : captured[j] = captured[Load(u)]
      BY <1>1, <3>1 DEF Buttons, SameArray
    <3>4. QED
      BY <1>4, <1>5, <2>2, <3>2, <3>3
  <2>4. InEvery'
    <3> SUFFICES ASSUME NEW u \in fakes \ (Clashing \cup cutShort), Load(u) \notin UnderWay',
                        todo'[Drop(u)] = None
                 PROVE  /\ u \in arrays'[Len(arrays')]
                        /\ \A job \in UnderWay' : u \in arrays'[captured'[job]]
      BY <1>1, <1>9 DEF InEvery
    <3>1. u # t /\ u \in Tracks /\ Drop(u) \in Loops
      BY <2>1, Known, JobFacts
    <3>2. Load(u) \notin UnderWay /\ todo[Drop(u)] = None /\ u \notin clashed
      BY <1>5, <2>1, <2>2, <3>1 DEF Clashing
    <3>3. u \in arrays[fakeUsers] /\ \A job \in UnderWay : u \in arrays[captured[job]]
      BY <1>1, <3>2 DEF Buttons, InEvery
    <3>4. QED
      BY <1>3, <1>4, <1>5, <2>2, <3>1, <3>3 DEF Grown
  <2>5. QED
    BY <1>6, <1>7, <2>3, <2>4 DEF Buttons
<1>10. QED
  BY <1>2, <1>8, <1>9

-----------------------------------------------------------------------------
LEMMA ButtonsApplied ==
  ASSUME IInv, Buttons, NEW g \in Guests, OfferApplied(g)
  PROVE  Buttons'
<1> DEFINE J == Head(ownerPc[g].chain).job
<1>1. /\ Has(ownerPc[g], "local")
      /\ UNCHANGED <<page, decoding, arrays, clashed, cutShort>>
  BY DEF OfferApplied, history
<1>2. \/ J = Connect /\ UNCHANGED <<fakes, todo, fakeUsers, captured>>
      \/ /\ J # Connect /\ todo[J] # <<>> /\ todo' = [todo EXCEPT ![J] = Tail(todo[J])]
         /\ UNCHANGED <<fakes, fakeUsers, captured>>
      \/ /\ J # Connect /\ todo' = [todo EXCEPT ![J] = None] /\ fakeUsers' = captured[J]
         /\ captured' = [captured EXCEPT ![J] = 1]
         /\ fakes' = IF J.kind = "drop" THEN fakes \ {J.track} ELSE fakes
  BY DEF OfferApplied, NextPeer, EndLoop
<1>3. J # Connect => J \in Loops /\ todo[J] # None
  BY <1>1, ItsLoop
<1> HIDE DEF J
<1>4. CASE J = Connect /\ UNCHANGED <<fakes, todo, fakeUsers, captured>>
  BY <1>1, <1>4, ButtonsKept DEF Open
<1>5. CASE /\ J # Connect /\ todo[J] # <<>> /\ todo' = [todo EXCEPT ![J] = Tail(todo[J])]
           /\ UNCHANGED <<fakes, fakeUsers, captured>>
  <2>1. todo[J] \in Seq(Guests)
    BY <1>3, <1>5, Known
  <2>2. Tail(todo[J]) # None
    <3>1. Tail(todo[J]) \in Seq(Guests)
      BY <1>5, <2>1
    <3>2. QED
      BY <3>1, PagesAssumption
  <2>3. \A job \in Loops : todo'[job] = None <=> todo[job] = None
    BY <1>3, <1>5, <2>2, Known
  <2>4. UnderWay' = UnderWay
    BY <1>1, <2>3 DEF UnderWay
  <2>5. \A t \in Tracks : /\ todo'[Load(t)] = None <=> todo[Load(t)] = None
                          /\ todo'[Drop(t)] = None <=> todo[Drop(t)] = None
    BY <2>3, JobFacts
  <2>6. PushedTo' /\ InSome'
    BY <1>1, <1>5, <2>5 DEF Buttons, PushedTo, InSome
  <2>7. Open(Owner)' => SameArray' /\ InEvery'
    BY <1>1, <1>5, <2>4, <2>5, Known DEF Buttons, SameArray, InEvery, Open
  <2>8. QED
    BY <2>6, <2>7 DEF Buttons
<1>6. CASE /\ J # Connect /\ todo' = [todo EXCEPT ![J] = None] /\ fakeUsers' = captured[J]
           /\ captured' = [captured EXCEPT ![J] = 1]
           /\ fakes' = IF J.kind = "drop" THEN fakes \ {J.track} ELSE fakes
  <2>1. /\ J \in UnderWay /\ J \in Loops /\ UnderWay \subseteq Loops
        /\ \A t \in decoding : Load(t) # J
    BY <1>3, <1>6, Ways
  <2>2. UnderWay' = UnderWay \ {J}
    BY <1>1, <1>6, <2>1, Known DEF UnderWay
  <2>3. /\ \A job \in Loops : job # J => captured'[job] = captured[job] /\ todo'[job] = todo[job]
        /\ todo'[J] = None /\ fakes' \subseteq fakes
    BY <1>6, <2>1, Known
  <2>4. PushedTo' /\ InSome'
    BY <1>1, <2>3, JobFacts DEF Buttons, PushedTo, InSome
  <2>5. ASSUME Open(Owner)' PROVE SameArray'
    <3>1. SameArray
      BY <1>1, <2>5 DEF Buttons, Open
    <3>2. QED
      BY <1>1, <2>1, <2>2, <2>3, <3>1 DEF SameArray
  <2>6. ASSUME Open(Owner)' PROVE InEvery'
    <3> SUFFICES ASSUME NEW u \in fakes' \ (clashed \cup cutShort), Load(u) \notin UnderWay',
                        todo'[Drop(u)] = None
                 PROVE  /\ u \in arrays[captured[J]]
                        /\ \A job \in UnderWay' : u \in arrays[captured'[job]]
      BY <1>1, <1>6 DEF InEvery
    <3>1. u \in fakes /\ u \in Tracks /\ SameArray /\ InEvery /\ PushedTo
      BY <1>1, <2>3, <2>6, Known DEF Buttons, Open
    <3>2. CASE J = Load(u)
      <4>1. \A job \in UnderWay : captured[job] = captured[J]
        BY <2>1, <3>1, <3>2 DEF SameArray
      <4>2. u \in arrays[captured[J]]
        BY <1>3, <1>6, <3>1, <3>2 DEF PushedTo
      <4>3. QED
        BY <2>1, <2>2, <2>3, <4>1, <4>2
    <3>3. CASE J # Load(u)
      <4>1. Load(u) \notin UnderWay
        BY <2>2, <3>3
      <4>2. J # Drop(u)
        <5>1. J = Drop(u) => J.kind = "drop" /\ J.track = u
          BY DEF Drop
        <5>2. QED
          BY <1>6, <5>1
      <4>3. todo[Drop(u)] = None
        BY <2>3, <3>1, <4>2, JobFacts
      <4>4. QED
        BY <2>1, <2>2, <2>3, <3>1, <4>1, <4>3 DEF InEvery
    <3>4. QED
      BY <3>2, <3>3
  <2>7. QED
    BY <2>4, <2>5, <2>6 DEF Buttons
<1>7. QED
  BY <1>2, <1>4, <1>5, <1>6

LEMMA ButtonsRefused ==
  ASSUME IInv, Buttons, NEW g \in Guests, OfferRefused(g)
  PROVE  Buttons'
<1> DEFINE J == Head(ownerPc[g].chain).job
<1>1. Has(ownerPc[g], "local")
  BY DEF OfferRefused
<1>2. \/ Gone(Owner)
      \/ /\ J # Connect /\ todo' = [todo EXCEPT ![J] = None]
         /\ cutShort' = cutShort \cup {J.track}
         /\ UNCHANGED <<page, fakes, decoding, arrays, captured, fakeUsers, clashed>>
  BY DEF OfferRefused, files, server
<1>3. J # Connect => J \in Loops /\ todo[J] # None
  BY <1>1, ItsLoop
<1> HIDE DEF J
<1>4. CASE Gone(Owner)
  BY <1>4, ButtonsGone, PageFacts
<1>5. CASE /\ J # Connect /\ todo' = [todo EXCEPT ![J] = None]
           /\ cutShort' = cutShort \cup {J.track}
           /\ UNCHANGED <<page, fakes, decoding, arrays, captured, fakeUsers, clashed>>
  <2>1. \A job \in Loops : job # J => todo'[job] = todo[job]
    BY <1>3, <1>5, Known
  <2>2. todo'[J] = None /\ J \in Loops
    BY <1>3, <1>5, Known
  <2>3. UnderWay' \subseteq UnderWay
    BY <1>5, <2>1, <2>2 DEF UnderWay
  <2>4. PushedTo' /\ InSome'
    BY <1>5, <2>1, <2>2, JobFacts DEF Buttons, PushedTo, InSome
  <2>5. Open(Owner)' => SameArray'
    BY <1>5, <2>3 DEF Buttons, SameArray, Open
  <2>6. ASSUME Open(Owner)' PROVE InEvery'
    <3> SUFFICES ASSUME NEW u \in fakes \ (clashed \cup cutShort'), Load(u) \notin UnderWay',
                        todo'[Drop(u)] = None
                 PROVE  /\ u \in arrays[fakeUsers]
                        /\ \A job \in UnderWay' : u \in arrays[captured[job]]
      BY <1>5 DEF InEvery
    <3>1. u \in Tracks /\ Load(u) \in Loops /\ Drop(u) \in Loops /\ J.track # u
      BY <1>5, Known, JobFacts
    <3>2. J # Load(u) /\ J # Drop(u)
      BY <3>1 DEF Load, Drop
    <3>3. todo[Drop(u)] = None /\ Load(u) \notin UnderWay
      BY <1>5, <2>1, <3>1, <3>2 DEF UnderWay
    <3>4. QED
      BY <1>5, <2>3, <2>6, <3>3 DEF Buttons, InEvery, Open
  <2>7. QED
    BY <2>4, <2>5, <2>6 DEF Buttons
<1>6. QED
  BY <1>2, <1>4, <1>5

-----------------------------------------------------------------------------
LEMMA ButtonsFirst == Init => Buttons
<1> SUFFICES ASSUME Init PROVE Buttons
  OBVIOUS
<1>1. /\ fakes = Loaded /\ decoding = {} /\ todo = [job \in Loops |-> None]
      /\ arrays = <<Loaded>> /\ fakeUsers = 1
  BY DEF Init
<1>2. UnderWay = {}
  BY <1>1 DEF UnderWay
<1>3. arrays[1] = Loaded /\ 1 \in 1 .. Len(arrays)
  BY <1>1
<1>4. QED
  BY <1>1, <1>2, <1>3, JobFacts DEF Buttons, PushedTo, SameArray, InEvery, InSome

\* The steps that leave the files alone.
FilesStay ==
  /\ Open(Owner)' => Open(Owner)
  /\ UNCHANGED <<fakes, decoding, todo, arrays, captured, fakeUsers, clashed, cutShort>>

LEMMA PersonStays == ASSUME IInv, NEW g \in Guests, Join(g) PROVE FilesStay
<1>1. page' = [page EXCEPT ![g] = "open"] /\ g # Owner
  BY PageFacts DEF Join
<1>2. page'[Owner] = page[Owner]
  BY <1>1, Known
<1>3. QED
  BY <1>2 DEF Join, FilesStay, files, history, Open

LEMMA ServerStays == ASSUME Server PROVE FilesStay
BY ServerSends DEF FilesStay, Open

LEMMA OwnerStays ==
  ASSUME \/ onStartPeerConnection \/ onAnswer
         \/ \E g \in Guests : OfferMade(g) \/ AnswerApplied(g)
  PROVE  FilesStay
BY DEF onStartPeerConnection, onAnswer, OfferMade, AnswerApplied, FilesStay, server, files,
       history, Open

LEMMA GuestStays == ASSUME NEW g \in Guests, GuestRuns(g) PROVE FilesStay
BY DEF GuestRuns, onOffer, OfferTaken, AnswerMade, AnswerSent, FilesStay, server, files,
       history, Open

LEMMA PageStays ==
  ASSUME NEW p \in Pages, onUpdateRoom(p) \/ onCandidate(p) PROVE FilesStay
BY DEF onUpdateRoom, onCandidate, FilesStay, server, files, history, Open

LEMMA StaysKept == ASSUME Buttons, FilesStay PROVE Buttons'
BY ButtonsKept DEF FilesStay

LEMMA ButtonsSteps == IInv /\ Buttons /\ [Next]_vars => Buttons'
<1> SUFFICES ASSUME IInv, Buttons, [Next]_vars PROVE Buttons'
  OBVIOUS
<1>1. CASE UNCHANGED vars
  BY <1>1, ButtonsKept DEF vars, server, files, history, Open
<1>2. CASE Person
  <2>1. ASSUME NEW g \in Guests, Join(g) PROVE Buttons'
    BY <2>1, PersonStays, StaysKept
  <2>2. ASSUME NEW t \in Tracks, ChooseFile(t) \/ dropClient(t) PROVE Buttons'
    BY <2>2, ButtonsChoose, ButtonsDrop
  <2>3. ASSUME NEW p \in Pages, Hangup(p) \/ stopConference(p) PROVE Buttons'
    BY <2>3, ButtonsGone, ButtonsStop DEF Hangup
  <2>4. QED
    BY <1>2, <2>1, <2>2, <2>3 DEF Person
<1>3. CASE Server
  BY <1>3, ServerStays, StaysKept
<1>4. CASE OwnerRuns
  <2>1. CASE \/ onStartPeerConnection \/ onAnswer
             \/ \E g \in Guests : OfferMade(g) \/ AnswerApplied(g)
    BY <2>1, OwnerStays, StaysKept
  <2>2. ASSUME NEW t \in Tracks, onMp3FileLoad(t) PROVE Buttons'
    BY <2>2, ButtonsLoad
  <2>3. ASSUME NEW g \in Guests, OfferApplied(g) \/ OfferRefused(g) PROVE Buttons'
    BY <2>3, ButtonsApplied, ButtonsRefused
  <2>4. QED
    BY <1>4, <2>1, <2>2, <2>3 DEF OwnerRuns
<1>5. ASSUME NEW g \in Guests, GuestRuns(g) PROVE Buttons'
  BY <1>5, GuestStays, StaysKept
<1>6. ASSUME NEW p \in Pages, onUpdateRoom(p) \/ onCandidate(p) PROVE Buttons'
  BY <1>6, PageStays, StaysKept
<1>7. QED
  BY <1>1, <1>2, <1>3, <1>4, <1>5, <1>6 DEF Next

\* Whatever loads and drops overlap, and in whatever order they end: when none is
\* under way every fake user has its X button, but for the files in whose load
\* another of them kept another array and those whose loop was cut short.
THEOREM ButtonsStay == Spec => []Removable
<1>1. Spec => []Buttons
  BY ButtonsFirst, Invariance, ButtonsSteps, PTL DEF Spec
<1>2. IInv /\ Buttons => Removable
  <2> SUFFICES ASSUME IInv, Buttons, Open(Owner), \A job \in Loops : todo[job] = None,
                      NEW t \in fakes \ (clashed \cup cutShort)
               PROVE  t \in arrays[fakeUsers]
    BY DEF Removable
  <2>1. t \in Tracks /\ Load(t) \in Loops /\ Drop(t) \in Loops
    BY Known, JobFacts
  <2>2. t \notin decoding
    BY DEF IInv, Files, Buttons, InSome
  <2>3. Load(t) \notin UnderWay
    BY <2>1, <2>2, Ways
  <2>4. QED
    BY <2>1, <2>3 DEF Buttons, InEvery
<1>3. QED
  BY <1>1, <1>2, Invariance, PTL

-----------------------------------------------------------------------------
(***************************************************************************)
(* What a guest plays.  The offer of a track is behind the room update     *)
(* that says whether it is a fake user, and ontrack looks it up in the     *)
(* room of the moment the offer is set, when later updates may have come.  *)
(* The operators are about values: s are the messages on their way to a    *)
(* guest g, r its room, gp its end of the connection, oc the owner's end,  *)
(* st its streams, fk the fake users, e the guests of early, pg its page,  *)
(* w what g was misled about, arr the arrays there have been.              *)
(***************************************************************************)
Stored(arr, t) == \E i \in 1 .. Len(arr) : t \in arr[i]

Carries(m, t) == m.type = "offer" /\ t \in m.desc.tracks

\* The update or the room says of t what is the case.
News(m, t, fk)  == m.type = "update" /\ (t \in m.fakes <=> t \in fk)
Stale(m, t, fk) == m.type = "update" /\ ~(t \in m.fakes <=> t \in fk)
Right(r, t, fk) == r = None \/ (t \in r <=> t \in fk)

\* Whoever handles the i-th message has a room that is right about t by then.
Before(s, r, t, fk, i) ==
  /\ \A j \in 1 .. Len(s) : Stale(s[j], t, fk) =>
       \E k \in 1 .. Len(s) : j < k /\ k < i /\ News(s[k], t, fk)
  /\ Right(r, t, fk) \/ \E k \in 1 .. Len(s) : k < i /\ News(s[k], t, fk)

\* An offer of t under way finds such a room; and so does whatever comes next.
InTime(s, r, t, fk) ==
  \A i \in 1 .. Len(s) : Carries(s[i], t) => Before(s, r, t, fk, i)

Latest(s, r, t, fk) == Before(s, r, t, fk, Len(s) + 1)

Waiting(gp, t) ==
  gp # None /\ \E i \in 1 .. Len(gp.chain) :
                 gp.chain[i].kind = "remote" /\ t \in gp.chain[i].desc.tracks

Hears(gp, t) == gp # None /\ gp.remote # None /\ t \in gp.remote.tracks

Played(s, r, gp, st, e, g, t, fk) ==
  /\ InTime(s, r, t, fk)
  /\ Waiting(gp, t) => Right(r, t, fk) /\ \A j \in 1 .. Len(s) : ~Stale(s[j], t, fk)
  /\ g \notin e /\ Hears(gp, t) => (t \in st <=> t \in fk)

Unheard(s, gp, t) ==
  /\ \A i \in 1 .. Len(s) : ~Carries(s[i], t)
  /\ ~Waiting(gp, t) /\ ~Hears(gp, t)

\* Nothing the owner sends, or will send until the senders change, has t.
Lacks(c, t) == \A i \in 1 .. Len(c) : c[i].kind = "local" => t \notin c[i].desc.tracks

Clean(oc, t) == oc # None =>
  /\ t \notin oc.sending /\ Lacks(oc.chain, t)
  /\ oc.local # None => t \notin oc.local.tracks

Watch(oc, s, r, gp, st, fk, e, pg, arr, w, g) ==
  /\ pg # "open" => r = None
  /\ \A t \in st : Hears(gp, t)
  /\ \A t \in Tracks \ w :
       /\ pg = "open" => Latest(s, r, t, fk)
       /\ t \in fk \/ ~Clean(oc, t) => Played(s, r, gp, st, e, g, t, fk)
  /\ \A t \in Tracks : ~Stored(arr, t) => Unheard(s, gp, t)

LEMMA UnheardPlayed ==
  ASSUME NEW s, NEW r, NEW gp, NEW st, NEW e, NEW g, NEW t, NEW fk, Unheard(s, gp, t)
  PROVE  Played(s, r, gp, st, e, g, t, fk)
BY DEF Unheard, Played, InTime

\* The owner's end changes, and arrays are added or grow.
LEMMA WatchLess ==
  ASSUME NEW oc, NEW s, NEW r, NEW gp, NEW st, NEW fk, NEW e, NEW pg, NEW arr, NEW w, NEW g,
         Watch(oc, s, r, gp, st, fk, e, pg, arr, w, g),
         NEW qc, \A t \in Tracks \ fk : Clean(oc, t) => Clean(qc, t),
         NEW brr, \A t \in Tracks : Stored(arr, t) => Stored(brr, t)
  PROVE  Watch(qc, s, r, gp, st, fk, e, pg, brr, w, g)
BY DEF Watch

\* A page that is not open, or has just been opened, or stopped.
LEMMA WatchAway ==
  ASSUME NEW oc, NEW fk, NEW e, NEW pg, NEW arr, NEW w, NEW g
  PROVE  Watch(oc, <<>>, None, None, {}, fk, e, pg, arr, w, g)
<1>1. Len(<<>>) = 0 /\ \A i \in 1 .. 0 : FALSE
  OBVIOUS
<1>2. \A t \in Tracks : Latest(<<>>, None, t, fk)
  BY <1>1 DEF Latest, Before, Right
<1>3. \A t \in Tracks : Unheard(<<>>, None, t)
  BY <1>1 DEF Unheard, Waiting, Hears
<1>4. QED
  BY <1>2, <1>3, UnheardPlayed DEF Watch

LEMMA WatchStop ==
  ASSUME NEW oc, NEW s, NEW r, NEW gp, NEW st, NEW fk, NEW e, NEW arr, NEW w, NEW g,
         Watch(oc, s, r, gp, st, fk, e, "open", arr, w, g)
  PROVE  Watch(oc, s, None, None, {}, fk, e, "open", arr, w, g)
<1>1. \A t \in Tracks : Latest(s, r, t, fk) => Latest(s, None, t, fk)
  BY DEF Latest, Before, Right
<1>2. \A t \in Tracks : ~Waiting(None, t) /\ ~Hears(None, t)
  BY DEF Waiting, Hears
<1>3. \A t \in Tracks : InTime(s, r, t, fk) => InTime(s, None, t, fk)
  BY DEF InTime, Before, Right
<1>4. \A t \in Tracks : Played(s, r, gp, st, e, g, t, fk) => Played(s, None, None, {}, e, g, t, fk)
  BY <1>2, <1>3 DEF Played
<1>5. \A t \in Tracks : Unheard(s, gp, t) => Unheard(s, None, t)
  BY <1>2 DEF Unheard
<1>6. QED
  BY <1>1, <1>4, <1>5 DEF Watch

\* An update says of every track but those of v which of fs it is.
TellsOf(m, fs, v) == m.type = "update" => \A t \in Tracks \ v : t \in m.fakes <=> t \in fs

\* A message is sent to an open page, perhaps about other fake users, perhaps
\* misleading it.
LEMMA WatchSent ==
  ASSUME NEW oc, NEW s \in Seq(Message), NEW r, NEW gp, NEW st, NEW fk, NEW e, NEW arr, NEW w,
         NEW g, Watch(oc, s, r, gp, st, fk, e, "open", arr, w, g),
         NEW m \in Message, NEW u, u = Append(s, m), NEW fs, NEW v, \A t \in w : t \in v,
         TellsOf(m, fs, v), m.type # "update" => fs = fk,
         m.type = "offer" => \A t \in Tracks : ~Stored(arr, t) => t \notin m.desc.tracks,
         \A t \in Tracks : \/ t \in fk <=> t \in fs
                           \/ t \notin fs /\ Clean(oc, t)
                           \/ Unheard(s, gp, t)
  PROVE  Watch(oc, u, r, gp, st, fs, e, "open", arr, v, g)
<1> DEFINE n == Len(u)
<1>1. /\ n \in Nat /\ n > 0 /\ u[n] = m /\ Len(s) = n - 1
      /\ \A i \in 1 .. n - 1 : u[i] = s[i]
  BY AppendFacts
<1>2. /\ \A i \in 1 .. n : i <= n /\ (i = n \/ i \in 1 .. n - 1)
      /\ \A i \in 1 .. n - 1 : i \in 1 .. n /\ i < n
      /\ n \in 1 .. n /\ n < n + 1
  BY <1>1
<1> HIDE DEF n
<1>3. ASSUME NEW t \in Tracks \ v
      PROVE  m.type = "update" => News(m, t, fs) /\ ~Stale(m, t, fs)
  BY DEF News, Stale, TellsOf
<1>4. ASSUME NEW t \in Tracks, ~Stored(arr, t)
      PROVE  Unheard(u, gp, t)
  <2>1. Unheard(s, gp, t) /\ ~Carries(m, t)
    BY <1>4 DEF Watch, Carries
  <2>2. QED
    BY <1>1, <1>2, <2>1 DEF Unheard, n
<1>5. ASSUME NEW t \in Tracks \ v, t \in fk <=> t \in fs, NEW i \in 1 .. n,
             Before(s, r, t, fk, i)
      PROVE  Before(u, r, t, fs, i)
  <2>1. \A x : (News(x, t, fk) <=> News(x, t, fs)) /\ (Stale(x, t, fk) <=> Stale(x, t, fs))
    BY <1>5 DEF News, Stale
  <2>2. Right(r, t, fk) <=> Right(r, t, fs)
    BY <1>5 DEF Right
  <2>3. ~Stale(m, t, fs)
    BY <1>3 DEF Stale
  <2>4. /\ \A j \in 1 .. n - 1 : Stale(s[j], t, fs) =>
             \E k \in 1 .. n - 1 : j < k /\ k < i /\ News(s[k], t, fs)
        /\ Right(r, t, fs) \/ \E k \in 1 .. n - 1 : k < i /\ News(s[k], t, fs)
    BY <1>1, <1>5, <2>1, <2>2 DEF Before
  <2>5. QED
    BY <1>1, <1>2, <2>3, <2>4 DEF Before, n
<1>6. ASSUME NEW t \in Tracks \ v, t \in fk <=> t \in fs, t \in fk \/ ~Clean(oc, t)
      PROVE  Played(u, r, gp, st, e, g, t, fs)
  <2>1. Played(s, r, gp, st, e, g, t, fk) /\ Latest(s, r, t, fk)
    BY <1>6 DEF Watch
  <2>2. ASSUME NEW i \in 1 .. n, Carries(u[i], t) PROVE Before(s, r, t, fk, i)
    <3>1. CASE i = n
      BY <1>1, <2>1, <3>1 DEF Latest
    <3>2. CASE i \in 1 .. n - 1
      BY <1>1, <2>1, <2>2, <3>2 DEF Played, InTime
    <3>3. QED
      BY <1>2, <3>1, <3>2
  <2>3. InTime(u, r, t, fs)
    BY <1>5, <1>6, <2>2 DEF InTime, n
  <2>4. Waiting(gp, t) => Right(r, t, fs) /\ \A j \in 1 .. n : ~Stale(u[j], t, fs)
    <3>1. \A x : Stale(x, t, fk) <=> Stale(x, t, fs)
      BY <1>6 DEF Stale
    <3>2. Right(r, t, fk) <=> Right(r, t, fs)
      BY <1>6 DEF Right
    <3>3. ~Stale(m, t, fs)
      BY <1>3 DEF Stale
    <3>4. QED
      BY <1>1, <1>2, <2>1, <3>1, <3>2, <3>3 DEF Played
  <2>5. QED
    BY <1>6, <2>1, <2>3, <2>4 DEF Played, n
<1>7. ASSUME NEW t \in Tracks \ v
      PROVE  Latest(u, r, t, fs)
  <2>1. CASE m.type = "update"
    <3>1. News(m, t, fs) /\ ~Stale(m, t, fs)
      BY <1>3, <2>1
    <3>2. QED
      BY <1>1, <1>2, <3>1 DEF Latest, Before, n
  <2>2. CASE m.type # "update"
    <3>1. fs = fk /\ Before(s, r, t, fk, n)
      BY <1>1, <2>2 DEF Watch, Latest
    <3>2. Before(u, r, t, fs, n)
      BY <1>2, <1>5, <3>1
    <3>3. \A k \in 1 .. n : k < n => k < n + 1
      BY <1>1
    <3>4. QED
      BY <3>2, <3>3 DEF Latest, Before, n
  <2>3. QED
    BY <2>1, <2>2
<1>8. ASSUME NEW t \in Tracks \ v, t \in fs \/ ~Clean(oc, t), ~(t \in fk <=> t \in fs)
      PROVE  Played(u, r, gp, st, e, g, t, fs)
  <2>1. Unheard(s, gp, t) /\ m.type = "update"
    BY <1>8
  <2>2. Unheard(u, gp, t)
    BY <1>1, <1>2, <2>1 DEF Unheard, Carries, n
  <2>3. QED
    BY <2>2, UnheardPlayed
<1>9. \A t \in st : Hears(gp, t)
  BY DEF Watch
<1>10. \A t \in Tracks \ v : t \in fs \/ ~Clean(oc, t) => Played(u, r, gp, st, e, g, t, fs)
  BY <1>6, <1>8
<1>11. QED
  BY <1>4, <1>7, <1>9, <1>10 DEF Watch

\* A message is handled: it gives the room another state, or an offer to the
\* connection, or nothing of this.
LEMMA WatchRest ==
  ASSUME NEW oc, NEW s \in Seq(Message), s # <<>>, NEW r, NEW gp, NEW st, NEW fk, NEW e,
         NEW pg, pg = "open", NEW arr, NEW w, NEW g, Watch(oc, s, r, gp, st, fk, e, pg, arr, w, g),
         NEW q, IF Head(s).type = "update" THEN q = Head(s).fakes ELSE q = r,
         NEW np, \A t \in Tracks : Waiting(np, t) => Waiting(gp, t) \/ Carries(Head(s), t),
         \A t \in Tracks : Hears(np, t) <=> Hears(gp, t), st \in SUBSET Tracks
  PROVE  Watch(oc, Tail(s), q, np, st, fk, e, pg, arr, w, g)
<1> DEFINE u == Tail(s)
           n == Len(s)
<1>1. /\ Head(s) = s[1] /\ n \in Nat /\ n > 0 /\ Len(u) = n - 1
      /\ \A i \in 1 .. n - 1 : u[i] = s[i + 1]
  BY TailFacts
<1> HIDE DEF u
<1>2. \A i \in 1 .. Len(u) : i + 1 \in 1 .. n /\ i + 1 # 1 /\ i < i + 1 /\ u[i] = s[i + 1]
  BY <1>1
<1>3. \A i \in 1 .. n : i = 1 \/ (i - 1 \in 1 .. Len(u) /\ u[i - 1] = s[i] /\ (i - 1) + 1 = i)
  <2> TAKE i \in 1 .. n
  <2>1. i = 1 \/ (i - 1 \in 1 .. n - 1 /\ (i - 1) + 1 = i)
    BY <1>1
  <2>2. QED
    BY <1>1, <2>1
<1>4. 1 \in 1 .. n /\ \A i \in 1 .. n : 1 <= i
  BY <1>1
<1>5. ASSUME NEW t \in Tracks, NEW i \in 1 .. n, Before(s, r, t, fk, i + 1)
      PROVE  Before(u, q, t, fk, i)
  <2>1. /\ \A j \in 1 .. n : Stale(s[j], t, fk) =>
             \E k \in 1 .. n : j < k /\ k < i + 1 /\ News(s[k], t, fk)
        /\ Right(r, t, fk) \/ \E k \in 1 .. n : k < i + 1 /\ News(s[k], t, fk)
    BY <1>5 DEF Before
  <2>2. Stale(s[1], t, fk) \/ Right(q, t, fk) \/ (~Right(r, t, fk) /\ s[1].type # "update")
    BY <1>1 DEF Stale, Right
  <2>3. ASSUME NEW j \in 0 .. Len(u), NEW k \in 1 .. n, j + 1 < k, k < i + 1, News(s[k], t, fk)
        PROVE  \E l \in 1 .. Len(u) : j < l /\ l < i /\ News(u[l], t, fk)
    <3>1. k # 1
      BY <1>1, <2>3
    <3>2. k - 1 \in 1 .. Len(u) /\ u[k - 1] = s[k]
      BY <1>3, <3>1
    <3>3. j < k - 1 /\ k - 1 < i
      BY <1>1, <2>3
    <3>4. QED
      BY <2>3, <3>2, <3>3
  <2>4. ASSUME NEW j \in 1 .. Len(u), Stale(u[j], t, fk)
        PROVE  \E k \in 1 .. Len(u) : j < k /\ k < i /\ News(u[k], t, fk)
    <3>1. j + 1 \in 1 .. n /\ Stale(s[j + 1], t, fk)
      BY <1>2, <2>4
    <3>2. PICK k \in 1 .. n : j + 1 < k /\ k < i + 1 /\ News(s[k], t, fk)
      BY <2>1, <3>1
    <3>3. j \in 0 .. Len(u)
      BY <1>1
    <3>4. QED
      BY <2>3, <3>2, <3>3
  <2>5. ASSUME ~Right(q, t, fk)
        PROVE  \E k \in 1 .. Len(u) : k < i /\ News(u[k], t, fk)
    <3>1. \E k \in 1 .. n : 1 < k /\ k < i + 1 /\ News(s[k], t, fk)
      <4>1. CASE Stale(s[1], t, fk)
        BY <1>4, <2>1, <4>1
      <4>2. CASE ~Right(r, t, fk) /\ s[1].type # "update"
        <5>1. PICK k \in 1 .. n : k < i + 1 /\ News(s[k], t, fk)
          BY <2>1, <4>2
        <5>2. k # 1
          BY <4>2, <5>1 DEF News
        <5>3. 1 < k
          BY <1>1, <5>2
        <5>4. QED
          BY <5>1, <5>3
      <4>3. QED
        BY <2>2, <2>5, <4>1, <4>2
    <3>2. PICK k \in 1 .. n : 1 < k /\ k < i + 1 /\ News(s[k], t, fk)
      BY <3>1
    <3>3. 0 \in 0 .. Len(u) /\ 0 + 1 < k
      BY <1>1, <3>2
    <3>4. \E l \in 1 .. Len(u) : 0 < l /\ l < i /\ News(u[l], t, fk)
      BY <2>3, <3>2, <3>3
    <3>5. QED
      BY <3>4
  <2>6. QED
    BY <2>4, <2>5 DEF Before
<1>6. ASSUME NEW t \in Tracks, Unheard(s, gp, t)
      PROVE  Unheard(u, np, t)
  <2>1. ~Carries(Head(s), t)
    BY <1>1, <1>4, <1>6 DEF Unheard, n
  <2>2. \A i \in 1 .. Len(u) : ~Carries(u[i], t)
    BY <1>2, <1>6 DEF Unheard, n
  <2>3. QED
    BY <1>6, <2>1, <2>2 DEF Unheard
<1>7. ASSUME NEW t \in Tracks, Played(s, r, gp, st, e, g, t, fk)
      PROVE  Played(u, q, np, st, e, g, t, fk)
  <2>1. InTime(s, r, t, fk)
    BY <1>7 DEF Played
  <2>2. Stale(s[1], t, fk) \/ Right(q, t, fk) \/ (~Right(r, t, fk) /\ s[1].type # "update")
    BY <1>1 DEF Stale, Right
  <2>4. ASSUME NEW i \in 1 .. Len(u), Carries(u[i], t)
        PROVE  Before(u, q, t, fk, i)
    <3>1. i + 1 \in 1 .. n /\ Carries(s[i + 1], t) /\ i \in 1 .. n
      BY <1>1, <1>2, <2>4
    <3>2. Before(s, r, t, fk, i + 1)
      BY <2>1, <3>1 DEF InTime, n
    <3>3. QED
      BY <1>5, <3>1, <3>2
  <2>5. InTime(u, q, t, fk)
    BY <2>4 DEF InTime
  <2>6. ASSUME Waiting(np, t)
        PROVE  Right(q, t, fk) /\ \A j \in 1 .. Len(u) : ~Stale(u[j], t, fk)
    <3>1. CASE Waiting(gp, t)
      <4>1. Right(r, t, fk) /\ \A j \in 1 .. n : ~Stale(s[j], t, fk)
        BY <1>7, <3>1 DEF Played, n
      <4>2. Right(q, t, fk)
        BY <1>4, <2>2, <4>1
      <4>3. QED
        BY <1>2, <4>1, <4>2
    <3>2. CASE Carries(s[1], t)
      <4>1. q = r /\ s[1].type = "offer"
        BY <1>1, <3>2 DEF Carries
      <4>2. \A k \in 1 .. n : ~(k < 1)
        BY <1>1
      <4>3. (\A j \in 1 .. n : ~Stale(s[j], t, fk)) /\ Right(r, t, fk)
        BY <1>4, <2>1, <3>2, <4>2 DEF InTime, Before, n
      <4>4. QED
        BY <1>2, <4>1, <4>3
    <3>3. QED
      BY <1>1, <2>6, <3>1, <3>2
  <2>7. QED
    BY <1>7, <2>5, <2>6 DEF Played
<1>8. \A t \in st : Hears(np, t)
  BY DEF Watch
<1>9. ASSUME NEW t \in Tracks, Latest(s, r, t, fk)
      PROVE  Latest(u, q, t, fk)
  <2>1. n \in 1 .. n /\ Len(u) + 1 = n /\ Before(s, r, t, fk, n + 1)
    BY <1>1, <1>9 DEF Latest
  <2>2. QED
    BY <1>5, <2>1 DEF Latest
<1>10. QED
  BY <1>6, <1>7, <1>8, <1>9 DEF Watch, u

\* The guest's end changes, but for what it hears.
LEMMA WatchGuest ==
  ASSUME NEW oc, NEW s, NEW r, NEW gp, NEW st \in SUBSET Tracks, NEW fk, NEW e, NEW pg, NEW arr,
         NEW w, NEW g, Watch(oc, s, r, gp, st, fk, e, pg, arr, w, g),
         NEW np, \A t \in Tracks : Waiting(np, t) => Waiting(gp, t),
         \A t \in Tracks : Hears(np, t) <=> Hears(gp, t), NEW f, g \in e => g \in f
  PROVE  Watch(oc, s, r, np, st, fk, f, pg, arr, w, g)
<1>1. \A t \in Tracks : Unheard(s, gp, t) => Unheard(s, np, t)
  BY DEF Unheard
<1>2. \A t \in Tracks : Played(s, r, gp, st, e, g, t, fk) => Played(s, r, np, st, f, g, t, fk)
  BY DEF Played
<1>3. QED
  BY <1>1, <1>2 DEF Watch

\* An offer of the tracks ts is set: what becomes of the connection gp and of
\* the streams st of a page with the room r.
Takes(r, gp, st, ts, np, su, e, f, g) ==
  /\ \A t \in ts : t \in Tracks /\ Waiting(gp, t)
  /\ \A t \in Tracks : Waiting(np, t) => Waiting(gp, t)
  /\ \A t \in Tracks : Hears(np, t) <=> t \in ts
  /\ g \in e => g \in f
  /\ \A t \in ts : ~Hears(gp, t) /\ r = None => g \in f
  /\ \A t \in Tracks : t \in su <=> \/ t \in st /\ ~(Hears(gp, t) /\ t \notin ts)
                                    \/ t \in ts /\ ~Hears(gp, t) /\ r # None /\ t \in r

\* An offer is set, and ontrack and onmute run.
LEMMA WatchTaken ==
  ASSUME NEW oc, NEW s, NEW r, NEW gp, NEW st \in SUBSET Tracks, NEW fk, NEW e, NEW pg, NEW arr,
         NEW w, NEW g, Watch(oc, s, r, gp, st, fk, e, pg, arr, w, g),
         NEW ts, NEW np, NEW su \in SUBSET Tracks, NEW f, Takes(r, gp, st, ts, np, su, e, f, g)
  PROVE  Watch(oc, s, r, np, su, fk, f, pg, arr, w, g)
<1> USE DEF Takes
<1>1. \A t \in su : Hears(np, t)
  BY DEF Watch
<1>2. ASSUME NEW t \in Tracks, Unheard(s, gp, t)
      PROVE  Unheard(s, np, t)
  BY <1>2 DEF Unheard
<1>3. ASSUME NEW t \in Tracks, Played(s, r, gp, st, e, g, t, fk)
      PROVE  Played(s, r, np, su, f, g, t, fk)
  <2>1. ASSUME g \notin f, t \in ts PROVE t \in su <=> t \in fk
    <3>1. Right(r, t, fk) /\ Waiting(gp, t)
      BY <1>3, <2>1 DEF Played
    <3>2. CASE Hears(gp, t)
      BY <1>3, <2>1, <3>2 DEF Played
    <3>3. CASE ~Hears(gp, t)
      <4>1. t \notin st /\ r # None
        BY <2>1, <3>3 DEF Watch
      <4>2. QED
        BY <2>1, <3>1, <3>3, <4>1 DEF Right
    <3>4. QED
      BY <3>2, <3>3
  <2>2. QED
    BY <1>3, <2>1 DEF Played
<1>4. QED
  BY <1>1, <1>2, <1>3 DEF Watch

-----------------------------------------------------------------------------
(***************************************************************************)
(* What the owner sends.  A track that is being dropped is not offered any *)
(* more, or the offer of the drop is under way (Going), or the loop has    *)
(* still to serve that peer.                                               *)
(***************************************************************************)
Pending(c, t) ==
  \E p \in 1 .. Len(c) :
    /\ c[p].kind # "remote" /\ c[p].job = Drop(t)
    /\ \A q \in p .. Len(c) : c[q].kind = "local" => t \notin c[q].desc.tracks

Going(oc, t) == oc # None /\ t \notin oc.sending /\ Pending(oc.chain, t)

Becomes(oc, qc, t) ==
  /\ Clean(oc, t) => Clean(qc, t)
  /\ Going(oc, t) => Going(qc, t) \/ Clean(qc, t)

LEMMA PendingAppend ==
  ASSUME NEW c \in Seq(Operation), NEW o \in Operation, NEW d, d = Append(c, o), NEW t,
         o.kind = "local" => t \notin o.desc.tracks
  PROVE  /\ Lacks(c, t) => Lacks(d, t)
         /\ Pending(c, t) => Pending(d, t)
         /\ o.kind # "remote" /\ o.job = Drop(t) => Pending(d, t)
<1>1. /\ Len(c) \in Nat /\ Len(d) = Len(c) + 1 /\ d[Len(c) + 1] = o
      /\ \A i \in 1 .. Len(c) : d[i] = c[i]
  BY AppendFacts
<1> DEFINE n == Len(d)
<1>2. /\ n \in Nat /\ n \in 1 .. n /\ d[n] = o
      /\ \A i \in 1 .. n : i = n \/ (i \in 1 .. Len(c) /\ d[i] = c[i])
      /\ \A i \in 1 .. Len(c) : i \in 1 .. n
  BY <1>1
<1>3. Lacks(c, t) => Lacks(d, t)
  BY <1>2 DEF Lacks
<1>4. ASSUME Pending(c, t) PROVE Pending(d, t)
  <2>1. PICK p \in 1 .. Len(c) :
          /\ c[p].kind # "remote" /\ c[p].job = Drop(t)
          /\ \A q \in p .. Len(c) : c[q].kind = "local" => t \notin c[q].desc.tracks
    BY <1>4 DEF Pending
  <2>2. \A q \in p .. n : q \in 1 .. n /\ (q = n \/ q \in p .. Len(c))
    BY <1>1
  <2>3. \A q \in p .. n : d[q].kind = "local" => t \notin d[q].desc.tracks
    BY <1>1, <1>2, <2>1, <2>2
  <2>4. QED
    BY <1>1, <1>2, <2>1, <2>3 DEF Pending
<1>5. ASSUME o.kind # "remote", o.job = Drop(t) PROVE Pending(d, t)
  <2>1. \A q \in n .. n : q = n
    BY <1>2
  <2>2. QED
    BY <1>2, <1>5, <2>1 DEF Pending
<1>6. QED
  BY <1>3, <1>4, <1>5

LEMMA PendingTail ==
  ASSUME NEW c \in Seq(Operation), c # <<>>, NEW d, d = Tail(c), NEW t
  PROVE  /\ Lacks(c, t) => Lacks(d, t)
         /\ Pending(c, t) =>
              Pending(d, t) \/ (c[1].kind # "remote" /\ c[1].job = Drop(t) /\ Lacks(c, t))
<1>1. /\ Len(c) \in Nat /\ Len(c) > 0 /\ Len(d) = Len(c) - 1
      /\ \A i \in 1 .. Len(c) - 1 : d[i] = c[i + 1]
  BY TailFacts
<1>2. \A i \in 1 .. Len(d) : i + 1 \in 1 .. Len(c) /\ d[i] = c[i + 1]
  BY <1>1
<1>3. Lacks(c, t) => Lacks(d, t)
  BY <1>2 DEF Lacks
<1>4. ASSUME Pending(c, t)
      PROVE  Pending(d, t) \/ (c[1].kind # "remote" /\ c[1].job = Drop(t) /\ Lacks(c, t))
  <2>1. PICK p \in 1 .. Len(c) :
          /\ c[p].kind # "remote" /\ c[p].job = Drop(t)
          /\ \A q \in p .. Len(c) : c[q].kind = "local" => t \notin c[q].desc.tracks
    BY <1>4 DEF Pending
  <2>2. CASE p = 1
    BY <2>1, <2>2 DEF Lacks
  <2>3. CASE p # 1
    <3>1. p - 1 \in 1 .. Len(d) /\ (p - 1) + 1 = p
      BY <1>1, <2>3
    <3>2. d[p - 1] = c[p]
      BY <1>2, <3>1
    <3>3. \A q \in p - 1 .. Len(d) : q \in 1 .. Len(d) /\ q + 1 \in p .. Len(c)
      BY <1>1, <3>1
    <3>4. \A q \in p - 1 .. Len(d) : d[q].kind = "local" => t \notin d[q].desc.tracks
      BY <1>2, <2>1, <3>3
    <3>5. QED
      BY <2>1, <3>1, <3>2, <3>4 DEF Pending
  <2>4. QED
    BY <2>2, <2>3
<1>5. QED
  BY <1>3, <1>4

\* Something is queued that is no offer yet, and perhaps a track was taken away.
LEMMA BecomesQueue ==
  ASSUME NEW oc, oc # None, NEW qc, qc # None, oc.chain \in Seq(Operation), NEW o \in Operation,
         o.kind # "local", qc.chain = Append(oc.chain, o), qc.local = oc.local, NEW t,
         t \in qc.sending => t \in oc.sending
  PROVE  /\ Becomes(oc, qc, t)
         /\ o.kind # "remote" /\ o.job = Drop(t) /\ t \notin qc.sending => Going(qc, t)
<1> DEFINE c == oc.chain
           d == qc.chain
<1>1. /\ Lacks(c, t) => Lacks(d, t)
      /\ Pending(c, t) => Pending(d, t)
      /\ o.kind # "remote" /\ o.job = Drop(t) => Pending(d, t)
  <2>1. c \in Seq(Operation) /\ d = Append(c, o)
    OBVIOUS
  <2> HIDE DEF c, d
  <2>2. QED
    BY <2>1, PendingAppend
<1>2. QED
  BY <1>1 DEF Becomes, Clean, Going

\* The offer at the head of the chain was created.
LEMMA BecomesMade ==
  ASSUME NEW oc, oc # None, NEW qc, qc # None, oc.chain \in Seq(Operation), oc.chain # <<>>,
         NEW o \in Operation, o.kind = "local", o.job = oc.chain[1].job,
         o.desc.tracks = oc.sending, qc.chain = Append(Tail(oc.chain), o), qc.local = oc.local,
         qc.sending = oc.sending, NEW t
  PROVE  Becomes(oc, qc, t)
<1> DEFINE c == oc.chain
           b == Tail(c)
           d == qc.chain
<1>1. b \in Seq(Operation)
  BY TailFacts
<1>2. ASSUME t \notin oc.sending
      PROVE  /\ Lacks(c, t) => Lacks(d, t)
             /\ Pending(c, t) => Pending(d, t)
  <2>1. c \in Seq(Operation) /\ c # <<>> /\ b = Tail(c) /\ d = Append(b, o) /\ o.job = c[1].job
        /\ b \in Seq(Operation)
    BY <1>1
  <2>2. o.kind = "local" => t \notin o.desc.tracks
    BY <1>2
  <2> HIDE DEF c, b, d
  <2>3. /\ Lacks(c, t) => Lacks(b, t)
        /\ Pending(c, t) =>
              Pending(b, t) \/ (c[1].kind # "remote" /\ c[1].job = Drop(t) /\ Lacks(c, t))
    BY <2>1, PendingTail
  <2>4. /\ Lacks(b, t) => Lacks(d, t)
        /\ Pending(b, t) => Pending(d, t)
        /\ o.kind # "remote" /\ o.job = Drop(t) => Pending(d, t)
    BY <2>1, <2>2, PendingAppend
  <2>5. QED
    BY <2>1, <2>3, <2>4
<1>3. QED
  BY <1>2 DEF Becomes, Clean, Going

\* The operation at the head of the chain is done.
LEMMA BecomesDone ==
  ASSUME NEW oc, oc # None, NEW qc, qc # None, oc.chain \in Seq(Operation), oc.chain # <<>>,
         qc.chain = Tail(oc.chain), qc.sending = oc.sending,
         qc.local = oc.local \/ (oc.chain[1].kind = "local" /\ qc.local = oc.chain[1].desc),
         NEW t
  PROVE  /\ Clean(oc, t) => Clean(qc, t)
         /\ Going(oc, t) => \/ Going(qc, t)
                            \/ /\ oc.chain[1].kind # "remote" /\ oc.chain[1].job = Drop(t)
                               /\ oc.chain[1].kind = "local" /\ qc.local = oc.chain[1].desc =>
                                    Clean(qc, t)
<1> DEFINE c == oc.chain
           d == qc.chain
<1>1. /\ Lacks(c, t) => Lacks(d, t)
      /\ Pending(c, t) =>
            Pending(d, t) \/ (c[1].kind # "remote" /\ c[1].job = Drop(t) /\ Lacks(c, t))
  <2>1. c \in Seq(Operation) /\ c # <<>> /\ d = Tail(c)
    OBVIOUS
  <2> HIDE DEF c, d
  <2>2. QED
    BY <2>1, PendingTail
<1>2. Lacks(c, t) /\ c[1].kind = "local" => t \notin c[1].desc.tracks
  <2>1. c \in Seq(Operation) /\ c # <<>>
    OBVIOUS
  <2>2. 1 \in 1 .. Len(c)
    BY <2>1
  <2>3. QED
    BY <2>2 DEF Lacks
<1>3. QED
  BY <1>1, <1>2 DEF Clean, Going

Awaited(rest, g) == \E i \in 1 .. Len(rest) : rest[i] = g

\* The owner offers no track of a file that is not loaded yet, and while one is
\* dropped every peer is told, or will be.
Stock(pcs, td, tr, arr) ==
  \A t \in Tracks :
    /\ ~Stored(arr, t) =>
         t \notin tr /\ td[Drop(t)] = None /\ \A g \in Guests : Clean(pcs[g], t)
    /\ td[Drop(t)] # None =>
         /\ t \notin tr
         /\ \A g \in Guests : Clean(pcs[g], t) \/ Going(pcs[g], t) \/ Awaited(td[Drop(t)], g)

LEMMA StockBecomes ==
  ASSUME NEW pcs, NEW td, NEW tr, NEW arr, Stock(pcs, td, tr, arr),
         NEW qcs, \A g \in Guests, t \in Tracks : Becomes(pcs[g], qcs[g], t),
         NEW sr, \A t \in sr : t \in tr,
         NEW brr, \A t \in Tracks : Stored(arr, t) => Stored(brr, t)
  PROVE  Stock(qcs, td, sr, brr)
BY DEF Stock, Becomes

LEMMA BecomesSame == ASSUME NEW oc, NEW t PROVE Becomes(oc, oc, t)
BY DEF Becomes

\* Another offer is asked for by the loop J.
LEMMA BecomesAsked ==
  ASSUME NEW oc \in PC, NEW J \in Loops, NEW qc,
         qc = Queue(IF J.kind = "drop" THEN removeTrack(oc, J.track) ELSE oc, "create", None, J)
  PROVE  \A t \in Tracks : Becomes(oc, qc, t) /\ (J = Drop(t) => Going(qc, t))
<1> DEFINE rc == IF J.kind = "drop" THEN removeTrack(oc, J.track) ELSE oc
           o == [kind |-> "create", desc |-> None, job |-> J]
<1>1. J \in Job /\ J.track \in Tracks
  BY JobFacts
<1>2. /\ rc \in PC /\ rc.local = oc.local /\ rc.chain = oc.chain
      /\ rc.sending = IF J.kind = "drop" THEN oc.sending \ {J.track} ELSE oc.sending
  <2>1. removeTrack(oc, J.track).sending = oc.sending \ {J.track}
    BY DEF removeTrack, PC
  <2>2. QED
    BY <1>1, <2>1, TrackFacts
<1>3. o.kind = "create" /\ o.job = J
  OBVIOUS
<1>4. qc = Queue(rc, "create", None, J)
  OBVIOUS
<1> HIDE DEF rc
<1>5. /\ qc \in PC /\ qc.sending = rc.sending /\ qc.local = rc.local
      /\ qc.chain = Append(rc.chain, o) /\ rc.chain \in Seq(Operation) /\ o \in Operation
  BY <1>1, <1>2, <1>4, QueueFacts
<1> HIDE DEF o
<1>6. oc # None /\ qc # None
  BY <1>5, NoneAssumption
<1>7. ASSUME NEW t \in Tracks
      PROVE  Becomes(oc, qc, t) /\ (J = Drop(t) => Going(qc, t))
  <2>1. t \in qc.sending => t \in oc.sending
    BY <1>2, <1>5
  <2>2. J = Drop(t) => t \notin qc.sending
    <3>1. J = Drop(t) => J.kind = "drop" /\ J.track = t
      BY DEF Drop
    <3>2. QED
      BY <1>2, <1>5, <3>1
  <2>3. /\ oc.chain \in Seq(Operation) /\ qc.chain = Append(oc.chain, o) /\ qc.local = oc.local
        /\ o.kind # "local" /\ o.kind # "remote"
    BY <1>2, <1>3, <1>5
  <2>4. /\ Becomes(oc, qc, t)
        /\ o.kind # "remote" /\ o.job = Drop(t) /\ t \notin qc.sending => Going(qc, t)
    BY <1>5, <1>6, <2>1, <2>3, BecomesQueue
  <2>5. QED
    BY <1>3, <2>2, <2>3, <2>4
<1>8. QED
  BY <1>7

\* When J is a drop, its track goes to nobody who is not among ids.
Owed(J, ids, pcs, tr, arr) ==
  \A t \in Tracks : J = Drop(t) =>
    /\ t \notin tr /\ Stored(arr, t)
    /\ \A g \in Guests : Clean(pcs[g], t) \/ Going(pcs[g], t) \/ Awaited(ids, g)

\* The loop J takes up the first of ids.
LEMMA StockTaken ==
  ASSUME NEW pcs \in [Guests -> {None} \cup PC], NEW td \in [Loops -> Seq(Guests) \cup {None}],
         NEW tr, NEW arr, Stock(pcs, td, tr, arr), NEW J \in Loops,
         NEW ids \in Seq(Guests), ids # <<>>, NEW h \in Guests, h = Head(ids), pcs[h] # None,
         Owed(J, ids, pcs, tr, arr),
         NEW ud, ud = [td EXCEPT ![J] = Tail(ids)],
         NEW qcs, qcs = [pcs EXCEPT ![h] =
           Queue(IF J.kind = "drop" THEN removeTrack(@, J.track) ELSE @, "create", None, J)]
  PROVE  /\ Stock(qcs, ud, tr, arr)
         /\ \A g \in Guests, t \in Tracks : Becomes(pcs[g], qcs[g], t)
<1> DEFINE oc == pcs[h]
           qc == qcs[h]
<1>0. \A t \in Tracks : J = Drop(t) =>
        /\ t \notin tr /\ Stored(arr, t)
        /\ \A g \in Guests : Clean(pcs[g], t) \/ Going(pcs[g], t) \/ Awaited(ids, g)
  BY DEF Owed
<1>1. /\ oc \in PC /\ \A g \in Guests : g # h => qcs[g] = pcs[g]
      /\ qc = Queue(IF J.kind = "drop" THEN removeTrack(oc, J.track) ELSE oc, "create", None, J)
  OBVIOUS
<1> HIDE DEF oc, qc
<1>2. \A t \in Tracks : Becomes(oc, qc, t) /\ (J = Drop(t) => Going(qc, t))
  BY <1>1, BecomesAsked
<1>3. \A g \in Guests, t \in Tracks : Becomes(pcs[g], qcs[g], t)
  BY <1>1, <1>2, BecomesSame DEF oc, qc
<1>4. /\ ud[J] = Tail(ids) /\ \A job \in Loops : job # J => ud[job] = td[job]
  OBVIOUS
<1>5. \A t \in Tracks : Drop(t) \in Loops
  BY JobFacts
<1>6. ASSUME NEW t \in Tracks, ~Stored(arr, t)
      PROVE  t \notin tr /\ ud[Drop(t)] = None /\ \A g \in Guests : Clean(qcs[g], t)
  <2>1. t \notin tr /\ td[Drop(t)] = None /\ \A g \in Guests : Clean(pcs[g], t)
    BY <1>6 DEF Stock
  <2>2. QED
    BY <1>0, <1>3, <1>4, <1>5, <1>6, <2>1 DEF Becomes
<1>7. ASSUME NEW t \in Tracks, ud[Drop(t)] # None
      PROVE  /\ t \notin tr
             /\ \A g \in Guests : Clean(qcs[g], t) \/ Going(qcs[g], t) \/ Awaited(ud[Drop(t)], g)
  <2>1. CASE J # Drop(t)
    <3>1. td[Drop(t)] # None /\ ud[Drop(t)] = td[Drop(t)]
      BY <1>4, <1>5, <1>7, <2>1
    <3>2. QED
      BY <1>3, <3>1 DEF Stock, Becomes
  <2>2. CASE J = Drop(t)
    <3>1. ASSUME NEW g \in Guests
          PROVE  Clean(qcs[g], t) \/ Going(qcs[g], t) \/ Awaited(Tail(ids), g)
      <4>1. CASE g = h
        BY <1>2, <2>2, <4>1 DEF qc
      <4>2. CASE g # h
        <5>1. Awaited(ids, g) => Awaited(Tail(ids), g)
          <6>1. SUFFICES ASSUME NEW i \in 1 .. Len(ids), ids[i] = g
                         PROVE  \E k \in 1 .. Len(Tail(ids)) : Tail(ids)[k] = g
            BY DEF Awaited
          <6>2. /\ Head(ids) = ids[1] /\ Len(ids) \in Nat /\ Len(Tail(ids)) = Len(ids) - 1
                /\ \A k \in 1 .. Len(ids) - 1 : Tail(ids)[k] = ids[k + 1]
            BY TailFacts
          <6>3. i # 1
            BY <4>2, <6>1, <6>2
          <6>4. i - 1 \in 1 .. Len(ids) - 1 /\ (i - 1) + 1 = i
            BY <6>2, <6>3
          <6>5. Tail(ids)[i - 1] = g /\ i - 1 \in 1 .. Len(Tail(ids))
            BY <6>1, <6>2, <6>4
          <6>6. QED
            BY <6>5
        <5>2. QED
          BY <1>0, <1>3, <2>2, <5>1 DEF Becomes
      <4>3. QED
        BY <4>1, <4>2
    <3>2. QED
      BY <1>0, <1>4, <2>2, <3>1
  <2>3. QED
    BY <2>1, <2>2
<1>8. QED
  BY <1>3, <1>6, <1>7 DEF Stock

\* A loop ends, or is cut short.
LEMMA StockEnded ==
  ASSUME NEW pcs, NEW S, NEW td \in [Loops -> S], NEW tr, NEW arr, NEW J \in Loops,
         \A t \in Tracks :
           /\ ~Stored(arr, t) =>
                t \notin tr /\ td[Drop(t)] = None /\ \A g \in Guests : Clean(pcs[g], t)
           /\ td[Drop(t)] # None /\ Drop(t) # J =>
                /\ t \notin tr
                /\ \A g \in Guests :
                     Clean(pcs[g], t) \/ Going(pcs[g], t) \/ Awaited(td[Drop(t)], g),
         NEW ud, ud = [td EXCEPT ![J] = None]
  PROVE  Stock(pcs, ud, tr, arr)
<1>1. \A t \in Tracks : Drop(t) \in Loops
  BY JobFacts
<1>2. ud[J] = None /\ \A job \in Loops : job # J => ud[job] = td[job]
  OBVIOUS
<1>3. QED
  BY <1>1, <1>2 DEF Stock

-----------------------------------------------------------------------------
(* The inductive invariant *)

\* What the guests see, with the owner's ends, the messages, the fake users and
\* the arrays given, for a step may change them twice.
Sees(pcs, d, fk, arr) ==
  \A g \in Guests :
    Watch(pcs[g], d[g], room[g], guestPc[g], streams[g], fk, early, page[g], arr, misled[g], g)

Joined == \A g \in Guests : Open(g) => g \in members

\* A file that went from the room is not sent any more, nor will be, unless it was
\* dropped while there was no peer; fk are the others.
Spent(pcs, tr, fk) ==
  \A t \in Tracks \ fk : t \notin tr /\ \A g \in Guests : Clean(pcs[g], t)

Plays == /\ Stock(ownerPc, todo, tracks, arrays) /\ Spent(ownerPc, tracks, fakes \cup kept)
         /\ Joined /\ Sees(ownerPc, down, fakes, arrays)

LEMMA SpentBecomes ==
  ASSUME NEW pcs, NEW tr, NEW fk, Spent(pcs, tr, fk),
         NEW qcs, \A g \in Guests, t \in Tracks : Becomes(pcs[g], qcs[g], t),
         NEW sr, \A t \in sr : t \in tr, NEW gk, \A t \in fk : t \in gk
  PROVE  Spent(qcs, sr, gk)
BY DEF Spent, Becomes

LEMMA SpentNone ==
  ASSUME NEW pcs, \A g \in Guests : pcs[g] = None, NEW fk
  PROVE  Spent(pcs, {}, fk)
BY DEF Spent, Clean

LEMMA PlaysMade ==
  ASSUME Stock(ownerPc', todo', tracks', arrays'), Spent(ownerPc', tracks', fakes' \cup kept'),
         \A g \in Guests : page'[g] = "open" => g \in members',
         \A g \in Guests : Watch(ownerPc'[g], down'[g], room'[g], guestPc'[g], streams'[g], fakes',
                                 early', page'[g], arrays', misled'[g], g)
  PROVE  Plays'
<1>1. Joined'
  BY DEF Joined, Open
<1>2. Stock(ownerPc, todo, tracks, arrays)'
  BY DEF Stock, Stored, Clean, Lacks, Going, Pending, Awaited
<1>3. ASSUME NEW g \in Guests
      PROVE  Watch(ownerPc[g], down[g], room[g], guestPc[g], streams[g], fakes, early, page[g],
                   arrays, misled[g], g)'
  <2>1. Watch(ownerPc'[g], down'[g], room'[g], guestPc'[g], streams'[g], fakes', early', page'[g],
              arrays', misled'[g], g)
    OBVIOUS
  <2>2. QED
    BY <2>1 DEF Watch, Latest, Clean, Lacks, Played, InTime, Before, Carries, Stale, News, Right,
                Waiting, Hears, Unheard, Stored
<1>4. Spent(ownerPc, tracks, fakes \cup kept)'
  BY DEF Spent, Clean, Lacks
<1>5. QED
  BY <1>1, <1>2, <1>3, <1>4 DEF Plays, Sees

\* A step of the owner's page leaves the pages of the guests alone.
LEMMA PlaysOwner ==
  ASSUME Plays, Stock(ownerPc', todo', tracks', arrays'), Spent(ownerPc', tracks', fakes' \cup kept'),
         Sees(ownerPc', down', fakes', arrays'),
         UNCHANGED <<page, members, room, guestPc, streams, early, misled>>
  PROVE  Plays'
<1>1. \A g \in Guests : page'[g] = "open" => g \in members'
  BY DEF Plays, Joined, Open
<1>2. \A g \in Guests : Watch(ownerPc'[g], down'[g], room'[g], guestPc'[g], streams'[g], fakes',
                              early', page'[g], arrays', misled'[g], g)
  BY DEF Sees
<1>3. QED
  BY <1>1, <1>2, PlaysMade

LEMMA SeesLess ==
  ASSUME NEW pcs, NEW d, NEW fk, NEW arr, Sees(pcs, d, fk, arr),
         NEW qcs, \A g \in Guests, t \in Tracks \ fk : Clean(pcs[g], t) => Clean(qcs[g], t),
         NEW e, \A g \in Guests : e[g] = d[g],
         NEW brr, \A t \in Tracks : Stored(arr, t) => Stored(brr, t)
  PROVE  Sees(qcs, e, fk, brr)
<1> SUFFICES ASSUME NEW g \in Guests
             PROVE  Watch(qcs[g], e[g], room[g], guestPc[g], streams[g], fk, early, page[g], brr,
                          misled[g], g)
  BY DEF Sees
<1> DEFINE oc == pcs[g]
           qc == qcs[g]
           s == d[g]
           r == room[g]
           gp == guestPc[g]
           st == streams[g]
           pg == page[g]
           f == early
           w == misled[g]
<1>1. Watch(oc, s, r, gp, st, fk, f, pg, arr, w, g)
  BY DEF Sees
<1>2. \A t \in Tracks \ fk : Clean(oc, t) => Clean(qc, t)
  OBVIOUS
<1>3. e[g] = s
  OBVIOUS
<1> HIDE DEF oc, qc, s, r, gp, st, pg, f, w
<1>4. Watch(qc, s, r, gp, st, fk, f, pg, brr, w, g)
  BY <1>1, <1>2, WatchLess
<1>5. QED
  BY <1>3, <1>4 DEF oc, qc, s, r, gp, st, pg, f, w

LEMMA Untouched ==
  ASSUME NEW pcs, NEW d, NEW fk, NEW arr, Sees(pcs, d, fk, arr), Mailed(d, page), Talk,
         NEW g \in Guests, ~Open(g)
  PROVE  d[g] = <<>> /\ room[g] = None /\ guestPc[g] = None /\ streams[g] = {}
<1>1. d[g] = <<>>
  BY PageFacts DEF Mailed, Open
<1>2. guestPc[g] = None
  BY DEF Talk, Held, Open
<1>3. room[g] = None /\ \A t \in streams[g] : Hears(guestPc[g], t)
  BY DEF Sees, Watch, Open
<1>4. QED
  BY <1>1, <1>2, <1>3 DEF Hears

\* The room is told of its fake users, who may be others than before.
LEMMA SeesRoom ==
  ASSUME NEW pcs, NEW d \in Mails, NEW fk, NEW arr, Sees(pcs, d, fk, arr), Mailed(d, page), Talk,
         Joined, NEW fs \in SUBSET Tracks, NEW e, e = ToRoom(d, Update(fs)),
         \A g \in Guests, t \in Tracks : \/ t \in fk <=> t \in fs
                                         \/ t \notin fs /\ Clean(pcs[g], t)
                                         \/ Unheard(d[g], guestPc[g], t)
  PROVE  Sees(pcs, e, fs, arr)
<1> SUFFICES ASSUME NEW g \in Guests
             PROVE  Watch(pcs[g], e[g], room[g], guestPc[g], streams[g], fs, early, page[g], arr,
                          misled[g], g)
  BY DEF Sees
<1>1. g \in Pages
  BY PageFacts
<1>2. CASE ~Open(g)
  <2>1. e[g] = <<>> /\ room[g] = None /\ guestPc[g] = None /\ streams[g] = {}
    BY <1>1, <1>2, Untouched DEF ToRoom
  <2>2. QED
    BY <2>1, WatchAway
<1>3. CASE Open(g)
  <2> DEFINE oc == pcs[g]
             s == d[g]
             u == e[g]
             r == room[g]
             gp == guestPc[g]
             st == streams[g]
             f == early
             w == misled[g]
             m == Update(fs)
  <2>1. s \in Seq(Message) /\ u = Append(s, m) /\ page[g] = "open"
    BY <1>1, <1>3 DEF Mails, ToRoom, Plays, Joined, Open
  <2>2. m \in Message /\ m.type = "update" /\ m.fakes = fs
    BY MessageFacts
  <2>3. Watch(oc, s, r, gp, st, fk, f, "open", arr, w, g)
    BY <2>1 DEF Sees
  <2>4. \A t \in Tracks : \/ t \in fk <=> t \in fs
                          \/ t \notin fs /\ Clean(oc, t)
                          \/ Unheard(s, gp, t)
    OBVIOUS
  <2> HIDE DEF oc, s, u, r, gp, st, f, m, w
  <2>5. TellsOf(m, fs, w) /\ m.type # "offer"
    BY <2>2 DEF TellsOf
  <2>6. Watch(oc, u, r, gp, st, fs, f, "open", arr, w, g)
    BY <2>1, <2>2, <2>3, <2>4, <2>5, WatchSent
  <2>7. QED
    BY <2>1, <2>6 DEF oc, u, r, gp, st, f, w
<1>4. QED
  BY <1>2, <1>3

\* An offer is sent, perhaps with a candidate behind it.
LEMMA SeesOut ==
  ASSUME NEW pcs, NEW d \in Mails, d = down, NEW fk, NEW arr, Sees(pcs, d, fk, arr),
         Mailed(d, page), Talk, NEW h \in Guests, NEW desc \in Description,
         \A t \in Tracks : ~Stored(arr, t) => t \notin desc.tracks,
         NEW e, e = OfferOut(h, desc)
  PROVE  Sees(pcs, e, fk, arr)
<1> DEFINE a == Sdp("offer", Owner, desc)
           b == Candidate(Owner)
           sent == d[h] \o (IF ownerPc[h].local = None THEN <<a, b>> ELSE <<a>>)
<1>1. h \in Pages /\ \A g \in Guests : g \in Pages
  BY PageFacts
<1>2. e = [d EXCEPT ![h] = IF Open(h) THEN sent ELSE d[h]]
  BY DEF OfferOut, To
<1>3. \A g \in Guests : g # h \/ ~Open(h) => e[g] = d[g]
  BY <1>1, <1>2 DEF Mails
<1> SUFFICES ASSUME NEW g \in Guests
             PROVE  Watch(pcs[g], e[g], room[g], guestPc[g], streams[g], fk, early, page[g], arr,
                          misled[g], g)
  BY DEF Sees
<1>4. CASE g # h \/ ~Open(h)
  BY <1>3, <1>4 DEF Sees
<1>5. CASE g = h /\ Open(h)
  <2> DEFINE oc == pcs[h]
             s == d[h]
             v == Append(s, a)
             x == Append(v, b)
             r == room[h]
             gp == guestPc[h]
             st == streams[h]
             f == early
             w == misled[h]
  <2>1. s \in Seq(Message) /\ page[h] = "open"
    BY <1>1, <1>5 DEF Mails, Open
  <2>2. /\ a \in Message /\ a.type = "offer" /\ a.desc = desc
        /\ b \in Message /\ b.type = "candidate"
    BY PageFacts, MessageFacts DEF Sdp, Blank
  <2>3. e[h] = v \/ e[h] = x
    <3>1. e[h] = sent
      BY <1>1, <1>2, <1>5 DEF Mails
    <3> HIDE DEF a, b
    <3>2. s \o <<a>> = v
      BY <2>1, <2>2
    <3>3. s \o <<a, b>> = x
      BY <2>1, <2>2
    <3>4. sent = s \o <<a, b>> \/ sent = s \o <<a>>
      OBVIOUS
    <3>5. QED
      BY <3>1, <3>2, <3>3, <3>4
  <2>4. Watch(oc, s, r, gp, st, fk, f, "open", arr, w, h)
    BY <2>1 DEF Sees
  <2>5. a.type = "offer" => \A t \in Tracks : ~Stored(arr, t) => t \notin a.desc.tracks
    BY <2>2
  <2> HIDE DEF oc, s, r, gp, st, f, a, b, v, w
  <2>6. v = Append(s, a)
    BY DEF v
  <2>7. /\ \A t \in Tracks : t \in fk <=> t \in fk
        /\ \A t \in w : t \in w
        /\ TellsOf(a, fk, w) /\ TellsOf(b, fk, w)
    BY <2>2 DEF TellsOf
  <2>8. Watch(oc, v, r, gp, st, fk, f, "open", arr, w, h)
    BY <2>1, <2>2, <2>4, <2>5, <2>6, <2>7, WatchSent
  <2>9. v \in Seq(Message) /\ x = Append(v, b)
    BY <2>1, <2>2, <2>6
  <2> HIDE DEF x
  <2>10. Watch(oc, x, r, gp, st, fk, f, "open", arr, w, h)
    BY <2>2, <2>7, <2>8, <2>9, WatchSent
  <2>11. QED
    BY <1>5, <2>1, <2>3, <2>8, <2>10 DEF oc, r, gp, st, f, w
<1>6. QED
  BY <1>4, <1>5

-----------------------------------------------------------------------------
(* The steps of a guest's page *)

LEMMA WaitingGrown ==
  ASSUME NEW gp, gp # None, gp.chain \in Seq(Operation), NEW o \in Operation, NEW np,
         np.chain = Append(gp.chain, o), NEW t, Waiting(np, t)
  PROVE  Waiting(gp, t) \/ (o.kind = "remote" /\ t \in o.desc.tracks)
<1> DEFINE c == gp.chain
           d == np.chain
<1>1. c \in Seq(Operation) /\ d = Append(c, o)
  OBVIOUS
<1>2. PICK i \in 1 .. Len(d) : d[i].kind = "remote" /\ t \in d[i].desc.tracks
  BY DEF Waiting
<1>3. gp.chain = c
  OBVIOUS
<1> HIDE DEF c, d
<1>4. /\ Len(c) \in Nat /\ Len(d) = Len(c) + 1 /\ d[Len(c) + 1] = o
      /\ \A k \in 1 .. Len(c) : d[k] = c[k]
  BY <1>1, AppendFacts
<1>5. i \in 1 .. Len(c) \/ i = Len(c) + 1
  BY <1>4
<1>6. QED
  BY <1>2, <1>3, <1>4, <1>5 DEF Waiting

LEMMA WaitingShrunk ==
  ASSUME NEW gp, gp # None, gp.chain \in Seq(Operation), gp.chain # <<>>, NEW np,
         np.chain = Tail(gp.chain), NEW t, Waiting(np, t)
  PROVE  Waiting(gp, t)
<1> DEFINE c == gp.chain
           d == np.chain
<1>1. c \in Seq(Operation) /\ c # <<>> /\ d = Tail(c)
  OBVIOUS
<1>2. PICK i \in 1 .. Len(d) : d[i].kind = "remote" /\ t \in d[i].desc.tracks
  BY DEF Waiting
<1>3. gp.chain = c
  OBVIOUS
<1> HIDE DEF c, d
<1>4. /\ Len(c) \in Nat /\ Len(d) = Len(c) - 1 /\ \A k \in 1 .. Len(c) - 1 : d[k] = c[k + 1]
  BY <1>1, TailFacts
<1>5. i + 1 \in 1 .. Len(c) /\ d[i] = c[i + 1]
  BY <1>4
<1>6. QED
  BY <1>2, <1>3, <1>5 DEF Waiting

\* What a guest sees, in a step that leaves the owner and the server alone.
Same(h) == /\ down'[h] = down[h] /\ room'[h] = room[h] /\ guestPc'[h] = guestPc[h]
           /\ streams'[h] = streams[h]

LEMMA PlaysGuest ==
  ASSUME IInv, Plays, UNCHANGED <<ownerPc, todo, tracks, arrays, fakes, page, members, misled, kept>>,
         \A h \in Guests : h \in early => h \in early',
         \A h \in Guests :
           \/ Same(h)
           \/ Watch(ownerPc[h], down'[h], room'[h], guestPc'[h], streams'[h], fakes, early',
                    page[h], arrays, misled[h], h)
  PROVE  Plays'
<1>1. /\ Stock(ownerPc', todo', tracks', arrays') /\ Spent(ownerPc', tracks', fakes' \cup kept')
      /\ \A h \in Guests : page'[h] = "open" => h \in members'
  BY DEF Plays, Joined, Open
<1>2. ASSUME NEW h \in Guests
      PROVE  Watch(ownerPc[h], down'[h], room'[h], guestPc'[h], streams'[h], fakes, early',
                   page[h], arrays, misled[h], h)
  <2>1. CASE Same(h)
    <3> DEFINE oc == ownerPc[h]
               s == down[h]
               r == room[h]
               gp == guestPc[h]
               st == streams[h]
               pg == page[h]
               e == early
               w == misled[h]
               f == early'
    <3>1. Watch(oc, s, r, gp, st, fakes, e, pg, arrays, w, h) /\ st \in SUBSET Tracks
      BY DEF Plays, Sees, IInv, Typed, PageTypes
    <3>2. h \in e => h \in f
      OBVIOUS
    <3>3. /\ \A t \in Tracks : Waiting(gp, t) => Waiting(gp, t)
          /\ \A t \in Tracks : Hears(gp, t) <=> Hears(gp, t)
      OBVIOUS
    <3> HIDE DEF oc, s, r, gp, st, pg, e, f, w
    <3>4. Watch(oc, s, r, gp, st, fakes, f, pg, arrays, w, h)
      BY <3>1, <3>2, <3>3, WatchGuest
    <3>5. QED
      BY <2>1, <3>4 DEF Same, oc, s, r, gp, st, pg, f, w
  <2>2. QED
    BY <2>1
<1>3. \A h \in Guests : Watch(ownerPc'[h], down'[h], room'[h], guestPc'[h], streams'[h], fakes',
                              early', page'[h], arrays', misled'[h], h)
  BY <1>2
<1>4. QED
  BY <1>1, <1>3, PlaysMade

\* A message is handled that is no offer.
LEMMA PlaysRest ==
  ASSUME IInv, Talk, Plays, NEW p \in Pages, Gets(p, "update") \/ Gets(p, "candidate"),
         down' = Rest(p),
         room' = IF Head(down[p]).type = "update"
                 THEN [room EXCEPT ![p] = Head(down[p]).fakes] ELSE room,
         UNCHANGED <<ownerPc, todo, tracks, arrays, fakes, page, members, guestPc, streams, early,
                     misled, kept>>
  PROVE  Plays'
<1>1. /\ Open(p) /\ down[p] # <<>> /\ Head(down[p]).type \in {"update", "candidate"}
      /\ down \in Mails /\ room \in [Pages -> (SUBSET Tracks) \cup {None}]
  BY TalkFacts DEF Gets, IInv, Typed, PageTypes
<1>2. /\ down'[p] = Tail(down[p]) /\ \A h \in Pages : h # p => down'[h] = down[h]
      /\ room'[p] = IF Head(down[p]).type = "update" THEN Head(down[p]).fakes ELSE room[p]
      /\ \A h \in Pages : h # p => room'[h] = room[h]
  BY <1>1 DEF Rest, Mails
<1>3. \A h \in Guests : h # p => Same(h)
  BY <1>2, PageFacts DEF Same
<1>4. ASSUME p \in Guests
      PROVE  Watch(ownerPc[p], down'[p], room'[p], guestPc'[p], streams'[p], fakes, early',
                   page[p], arrays, misled[p], p)
  <2> DEFINE oc == ownerPc[p]
             s == down[p]
             r == room[p]
             gp == guestPc[p]
             st == streams[p]
             pg == page[p]
             q == room'[p]
             e == early
             w == misled[p]
  <2>1. /\ Watch(oc, s, r, gp, st, fakes, e, pg, arrays, w, p) /\ st \in SUBSET Tracks /\ pg = "open"
        /\ s \in Seq(Message) /\ s # <<>>
    BY <1>1, <1>4 DEF Plays, Sees, IInv, Typed, PageTypes, Mails, Open
  <2>2. IF Head(s).type = "update" THEN q = Head(s).fakes ELSE q = r
    BY <1>2
  <2>3. /\ \A t \in Tracks : Waiting(gp, t) => Waiting(gp, t) \/ Carries(Head(s), t)
        /\ \A t \in Tracks : Hears(gp, t) <=> Hears(gp, t)
    OBVIOUS
  <2> HIDE DEF oc, s, r, gp, st, pg, q, e, w
  <2>4. Watch(oc, Tail(s), q, gp, st, fakes, e, pg, arrays, w, p)
    BY <2>1, <2>2, <2>3, WatchRest
  <2>5. QED
    BY <1>2, <2>4 DEF oc, s, r, gp, st, pg, q, e, w
<1>5. QED
  BY <1>3, <1>4, PlaysGuest

LEMMA PlaysOffer ==
  ASSUME IInv, Talk, Plays, NEW g \in Guests, onOffer(g)
  PROVE  Plays'
<1> DEFINE gp == guestPc[g]
           pc == IF gp = None THEN NewPC({}) ELSE gp
           s == down[g]
           m == Head(s)
           np == Queue(pc, "remote", m.desc, Reply)
           o == [kind |-> "remote", desc |-> m.desc, job |-> Reply]
           oc == ownerPc[g]
           r == room[g]
           st == streams[g]
           pg == page[g]
           e == early
           w == misled[g]
<1>1. /\ Open(g) /\ s # <<>> /\ down' = Rest(g) /\ m.type = "offer"
      /\ guestPc' = [guestPc EXCEPT ![g] = np]
      /\ UNCHANGED <<ownerPc, todo, tracks, arrays, fakes, page, members, room, streams, early,
                     misled, kept>>
  BY DEF onOffer, Gets, owner, history, server, files
<1>2. g \in Pages /\ down \in Mails /\ guestPc \in [Guests -> {None} \cup PC]
  BY TalkFacts, PageFacts
<1>3. /\ down'[g] = Tail(s) /\ \A h \in Pages : h # g => down'[h] = down[h]
      /\ guestPc'[g] = np /\ \A h \in Guests : h # g => guestPc'[h] = guestPc[h]
      /\ s \in Seq(Message)
  BY <1>1, <1>2 DEF Rest, Mails
<1>4. \A h \in Guests : h # g => Same(h)
  BY <1>1, <1>3, PageFacts DEF Same
<1>5. m.desc \in Description \cup {None}
  <2> HIDE DEF s
  <2>1. m \in Message
    BY <1>1, <1>3
  <2>2. QED
    BY <2>1 DEF Message
<1>6. /\ pc \in PC /\ pc # None /\ (gp = None => pc.chain = <<>> /\ pc.remote = None)
      /\ (gp # None => pc = gp)
  BY <1>2, NewPCFacts, FieldFacts, NoneAssumption DEF NewPC
<1>7. /\ np # None /\ np.remote = pc.remote /\ np.chain = Append(pc.chain, o)
      /\ pc.chain \in Seq(Operation) /\ o \in Operation /\ o.kind = "remote" /\ o.desc = m.desc
  <2> HIDE DEF pc, m
  <2>1. Reply \in Job
    BY JobFacts
  <2>2. np \in PC
    BY <1>5, <1>6, <2>1, QueueFacts
  <2>3. QED
    BY <1>5, <1>6, <2>1, <2>2, QueueFacts, NoneAssumption
<1> HIDE DEF np, pc, o
<1>8. \A t \in Tracks : Waiting(np, t) => Waiting(gp, t) \/ Carries(m, t)
  <2> SUFFICES ASSUME NEW t \in Tracks, Waiting(np, t) PROVE Waiting(gp, t) \/ Carries(m, t)
    OBVIOUS
  <2>1. Waiting(pc, t) \/ (o.kind = "remote" /\ t \in o.desc.tracks)
    BY <1>6, <1>7, WaitingGrown
  <2>2. gp = None => ~Waiting(pc, t)
    BY <1>6 DEF Waiting
  <2>3. QED
    BY <1>1, <1>6, <1>7, <2>1, <2>2 DEF Carries
<1>9. \A t \in Tracks : Hears(np, t) <=> Hears(gp, t)
  BY <1>6, <1>7 DEF Hears
<1>10. /\ Watch(oc, s, r, gp, st, fakes, e, pg, arrays, w, g) /\ st \in SUBSET Tracks /\ pg = "open"
  BY <1>1 DEF Plays, Sees, IInv, Typed, PageTypes, Open
<1>11. IF Head(s).type = "update" THEN r = Head(s).fakes ELSE r = r
  BY <1>1
<1>12. \A t \in Tracks : Waiting(np, t) => Waiting(gp, t) \/ Carries(Head(s), t)
  BY <1>8
<1> HIDE DEF m, s, gp, oc, r, st, pg, e, w
<1>13. Watch(oc, Tail(s), r, np, st, fakes, e, pg, arrays, w, g)
  BY <1>1, <1>3, <1>9, <1>10, <1>11, <1>12, WatchRest
<1>14. Watch(ownerPc[g], down'[g], room'[g], guestPc'[g], streams'[g], fakes, early', page[g],
             arrays, misled[g], g)
  BY <1>1, <1>3, <1>13 DEF oc, r, st, pg, e, w
<1>15. \A h \in Guests : h \in early => h \in early'
  BY <1>1
<1>16. QED
  BY <1>1, <1>4, <1>14, <1>15, PlaysGuest

\* The end of g changes, and its streams.
LEMMA PlaysEnd ==
  ASSUME IInv, Talk, Plays, NEW g \in Guests, NEW np, guestPc' = [guestPc EXCEPT ![g] = np],
         \A h \in Guests : down'[h] = down[h],
         \A h \in Guests : h # g => streams'[h] = streams[h],
         \A h \in Guests : h \in early => h \in early',
         UNCHANGED <<ownerPc, todo, tracks, arrays, fakes, page, members, room, misled, kept>>,
         Watch(ownerPc[g], down[g], room[g], np, streams'[g], fakes, early', page[g], arrays,
               misled[g], g)
  PROVE  Plays'
<1>1. guestPc'[g] = np /\ \A h \in Guests : h # g => guestPc'[h] = guestPc[h]
  BY TalkFacts
<1>2. \A h \in Guests : h # g => Same(h)
  BY <1>1, PageFacts DEF Same
<1>3. Watch(ownerPc[g], down'[g], room'[g], guestPc'[g], streams'[g], fakes, early', page[g],
            arrays, misled[g], g)
  BY <1>1
<1>4. QED
  BY <1>2, <1>3, PlaysGuest

LEMMA PlaysTaken ==
  ASSUME IInv, Talk, Plays, NEW g \in Guests, OfferTaken(g)
  PROVE  Plays'
<1> DEFINE gp == guestPc[g]
           c == gp.chain
           desc == Head(c).desc
           ts == desc.tracks
           dc == Dequeue(SetRemoteOffer(gp, desc))
           np == Queue(dc, "create", None, Reply)
           o == [kind |-> "create", desc |-> None, job |-> Reply]
           oc == ownerPc[g]
           s == down[g]
           r == room[g]
           st == streams[g]
           su == streams'[g]
           pg == page[g]
           e == early
           w == misled[g]
           f == early'
<1>1. /\ gp # None /\ c # <<>> /\ Head(c).kind = "remote" /\ guestPc' = [guestPc EXCEPT ![g] = np]
      /\ streams' = [streams EXCEPT ![g] = Streams(g, desc)]
      /\ early' = IF r = None /\ Arrive(g, desc) # {} THEN early \cup {g} ELSE early
      /\ UNCHANGED <<ownerPc, todo, tracks, arrays, fakes, page, members, room, down, misled, kept>>
  BY DEF OfferTaken, Has, Waits, owner, server, files
<1>2. gp \in PC /\ st \in SUBSET Tracks /\ streams \in [Guests -> SUBSET Tracks]
  BY <1>1, TalkFacts DEF IInv, Typed, PageTypes
<1>3. /\ c \in Seq(Operation) /\ Head(c) = c[1] /\ c[1] \in Operation /\ 1 \in 1 .. Len(c)
      /\ desc \in Description
  <2>1. c \in Seq(Operation) /\ Head(c) = c[1] /\ c[1] \in Operation /\ 1 \in 1 .. Len(c)
    BY <1>1, <1>2, DequeueFacts
  <2>2. desc \in Description \cup {None}
    BY <1>1, <1>2, <2>1, DescFacts
  <2>3. Spoken(c)
    BY <1>1, TalkFacts DEF Talks, Answers
  <2> HIDE DEF c
  <2>4. QED
    BY <1>1, <2>1, <2>2, <2>3 DEF Spoken
<1>4. ts \in SUBSET Tracks /\ \A t \in ts : t \in Tracks /\ Waiting(gp, t)
  <2>1. ts \in SUBSET Tracks
    BY <1>3 DEF Description
  <2>2. QED
    BY <1>1, <1>3, <2>1 DEF Waiting
<1>5. /\ dc \in PC /\ dc # None /\ dc.chain = Tail(c) /\ dc.remote = desc /\ Tail(c) \in Seq(Operation)
  <2>1. dc \in PC /\ dc.chain = Tail(c) /\ dc.remote = desc
    <3> HIDE DEF gp, desc
    <3> QED  BY <1>1, <1>2, <1>3, DoneFacts
  <2> HIDE DEF c, dc
  <2>2. QED
    BY <1>1, <1>3, <2>1, NoneAssumption
<1>6. /\ np \in PC /\ np.remote = desc /\ np.chain = Append(Tail(c), o) /\ o \in Operation
      /\ o.kind # "remote"
  <2>1. Reply \in Job /\ o.kind # "remote"
    BY JobFacts
  <2> HIDE DEF dc, desc, c
  <2>2. /\ np \in PC /\ np.remote = dc.remote /\ np.chain = Append(dc.chain, o) /\ o \in Operation
    BY <1>5, <2>1, QueueFacts
  <2>3. QED
    BY <1>5, <2>1, <2>2
<1>7. c = gp.chain /\ ts = desc.tracks
  OBVIOUS
<1>8. su = (st \ (Heard(g) \ ts)) \cup ((ts \ Heard(g)) \cap Users(g))
  BY <1>1, <1>2 DEF Streams, Arrive
<1>9. \A t \in Tracks : t \in Heard(g) <=> Hears(gp, t)
  BY <1>1 DEF Heard, Hears
<1>10. \A t : t \in Users(g) <=> r # None /\ t \in r
  BY DEF Users
<1>11. Arrive(g, desc) = ts \ Heard(g)
  BY DEF Arrive
<1>12. Watch(oc, s, r, gp, st, fakes, e, pg, arrays, w, g)
  BY DEF Plays, Sees
<1>13. \A h \in Guests : h \in early => h \in early'
  BY <1>1
<1> HIDE DEF gp, c, desc, ts, dc, np, o, oc, s, r, st, su, pg
<1>14. \A t \in Tracks : Waiting(np, t) => Waiting(gp, t)
  <2> SUFFICES ASSUME NEW t \in Tracks, Waiting(np, t) PROVE Waiting(gp, t)
    OBVIOUS
  <2>1. Waiting(dc, t)
    BY <1>5, <1>6, WaitingGrown
  <2>2. QED
    BY <1>1, <1>3, <1>5, <1>7, <2>1, WaitingShrunk
<1>15. \A t \in Tracks : Hears(np, t) <=> t \in ts
  BY <1>3, <1>6, <1>7, NoneAssumption DEF Hears
<1>16. \A t \in ts : ~Hears(gp, t) /\ r = None => g \in f
  BY <1>1, <1>4, <1>9, <1>11
<1>17. /\ su \in SUBSET Tracks
       /\ \A t \in Tracks : t \in su <=> \/ t \in st /\ ~(Hears(gp, t) /\ t \notin ts)
                                         \/ t \in ts /\ ~Hears(gp, t) /\ r # None /\ t \in r
  BY <1>2, <1>4, <1>8, <1>9, <1>10
<1>18. g \in e => g \in f
  BY <1>13
<1> HIDE DEF e, f, w
<1>19. Watch(oc, s, r, np, su, fakes, f, pg, arrays, w, g)
  <2>1. Takes(r, gp, st, ts, np, su, e, f, g)
    BY <1>4, <1>14, <1>15, <1>16, <1>17, <1>18 DEF Takes
  <2>2. QED
    BY <1>2, <1>12, <1>17, <2>1, WatchTaken
<1>20. /\ \A h \in Guests : down'[h] = down[h]
       /\ \A h \in Guests : h # g => streams'[h] = streams[h]
  BY <1>1, <1>2
<1>21. Watch(ownerPc[g], down[g], room[g], np, streams'[g], fakes, early', page[g], arrays,
             misled[g], g)
  BY <1>19 DEF oc, s, r, su, f, pg, w
<1>22. QED
  BY <1>1, <1>13, <1>20, <1>21, PlaysEnd

\* An answer is made or sent, or fails: the guest hears what it heard.
LEMMA PlaysReply ==
  ASSUME IInv, Talk, Plays, NEW g \in Guests, guestPc[g] # None, guestPc[g].chain # <<>>, NEW np,
         np.remote = guestPc[g].remote, np # None,
         \/ np.chain = Tail(guestPc[g].chain)
         \/ \E o \in Operation : o.kind = "local" /\ np.chain = Append(Tail(guestPc[g].chain), o),
         guestPc' = [guestPc EXCEPT ![g] = np], \A h \in Guests : down'[h] = down[h],
         UNCHANGED <<ownerPc, todo, tracks, arrays, fakes, page, members, room, streams, early,
                     misled, kept>>
  PROVE  Plays'
<1> DEFINE gp == guestPc[g]
           c == gp.chain
           mid == [gp EXCEPT !.chain = Tail(c)]
           oc == ownerPc[g]
           s == down[g]
           r == room[g]
           st == streams[g]
           pg == page[g]
           e == early
           w == misled[g]
<1>1. gp \in PC /\ c \in Seq(Operation) /\ c # <<>> /\ Tail(c) \in Seq(Operation)
  <2>1. gp \in PC
    BY TalkFacts
  <2>2. c \in Seq(Operation)
    BY <2>1 DEF PC
  <2> HIDE DEF c
  <2>3. QED
    BY <2>1, <2>2 DEF c
<1>2. mid.chain = Tail(c) /\ mid \in PC /\ gp # None /\ c = gp.chain
  BY <1>1 DEF PC
<1>3. mid # None
  BY <1>2, NoneAssumption
<1>4. \/ np.chain = Tail(c)
      \/ \E o \in Operation : o.kind = "local" /\ np.chain = Append(Tail(c), o)
  OBVIOUS
<1>5. Watch(oc, s, r, gp, st, fakes, e, pg, arrays, w, g) /\ st \in SUBSET Tracks
  BY DEF Plays, Sees, IInv, Typed, PageTypes
<1>6. \A t \in Tracks : Hears(np, t) <=> Hears(gp, t)
  BY DEF Hears
<1> HIDE DEF gp, c, mid, oc, s, r, st, pg, e, w
<1>7. \A t \in Tracks : Waiting(np, t) => Waiting(gp, t)
  <2> SUFFICES ASSUME NEW t \in Tracks, Waiting(np, t) PROVE Waiting(gp, t)
    OBVIOUS
  <2>1. CASE np.chain = Tail(c)
    BY <1>1, <1>2, <2>1, WaitingShrunk
  <2>2. CASE \E o \in Operation : o.kind = "local" /\ np.chain = Append(Tail(c), o)
    <3>1. PICK o \in Operation : o.kind = "local" /\ np.chain = Append(Tail(c), o)
      BY <2>2
    <3>2. np.chain = Append(mid.chain, o) /\ mid.chain \in Seq(Operation)
      BY <1>1, <1>2, <3>1
    <3>3. Waiting(mid, t)
      BY <1>3, <3>1, <3>2, WaitingGrown
    <3>4. QED
      BY <1>1, <1>2, <3>3, WaitingShrunk
  <2>3. QED
    BY <1>4, <2>1, <2>2
<1>8. Watch(oc, s, r, np, st, fakes, e, pg, arrays, w, g)
  BY <1>5, <1>6, <1>7, WatchGuest
<1>9. Watch(ownerPc[g], down[g], room[g], np, streams'[g], fakes, early', page[g], arrays,
            misled[g], g)
  BY <1>8 DEF oc, s, r, st, pg, e, w
<1>10. QED
  BY <1>9, PlaysEnd

LEMMA PlaysAnswerMade ==
  ASSUME IInv, Talk, Plays, NEW g \in Guests, AnswerMade(g)
  PROVE  Plays'
<1> DEFINE gp == guestPc[g]
           np == IF gp.sig = "remote" THEN Create(gp, Answer(gp)) ELSE Dequeue(gp)
<1>1. /\ gp # None /\ gp.chain # <<>> /\ guestPc' = [guestPc EXCEPT ![g] = np]
      /\ UNCHANGED <<down, ownerPc, todo, tracks, arrays, fakes, page, members, room, streams,
                     early, misled, kept>>
  BY TalkFacts DEF AnswerMade, Has, Waits, owner, server, files, history
<1>2. gp \in PC
  BY <1>1, TalkFacts
<1>3. /\ np \in PC /\ np.remote = gp.remote
      /\ \/ np.chain = Tail(gp.chain)
         \/ \E o \in Operation : o.kind = "local" /\ np.chain = Append(Tail(gp.chain), o)
  <2>1. CASE gp.sig = "remote"
    <3> DEFINE desc == Answer(gp)
               qc == Create(gp, desc)
    <3>1. desc \in Description \cup {None} /\ qc = Create(gp, desc) /\ np = qc
      BY <1>2, <2>1, DescFacts
    <3> HIDE DEF gp, desc, qc, np
    <3>2. /\ qc \in PC /\ qc.remote = gp.remote
          /\ \E o \in Operation : o.kind = "local" /\ qc.chain = Append(Tail(gp.chain), o)
      BY <1>1, <1>2, <3>1, CreateFacts
    <3>3. QED
      BY <3>1, <3>2
  <2>2. CASE gp.sig # "remote"
    <3>1. np = Dequeue(gp)
      BY <2>2
    <3> HIDE DEF gp, np
    <3>2. QED
      BY <1>1, <1>2, <3>1, DequeueFacts
  <2>3. QED
    BY <2>1, <2>2
<1>4. np # None
  BY <1>3, NoneAssumption
<1> HIDE DEF np
<1>5. QED
  BY <1>1, <1>3, <1>4, PlaysReply

LEMMA PlaysAnswerSent ==
  ASSUME IInv, Talk, Plays, NEW g \in Guests, AnswerSent(g)
  PROVE  Plays'
<1> DEFINE gp == guestPc[g]
           desc == Head(gp.chain).desc
           yc == Dequeue(SetLocalAnswer(gp, desc))
           nc == Dequeue(gp)
           np == guestPc'[g]
<1>1. /\ gp # None /\ gp.chain # <<>>
      /\ guestPc' = [guestPc EXCEPT ![g] = yc] \/ guestPc' = [guestPc EXCEPT ![g] = nc]
      /\ down' = down \/ \E ms : down' = To(down, Owner, ms)
      /\ UNCHANGED <<ownerPc, todo, tracks, arrays, fakes, page, members, room, streams, early,
                     misled, kept>>
  BY TalkFacts DEF AnswerSent, Has, Waits, owner, server, files, history
<1>2. gp \in PC /\ down \in Mails /\ guestPc \in [Guests -> {None} \cup PC]
  BY <1>1, TalkFacts
<1>3. \A h \in Guests : down'[h] = down[h]
  BY <1>1, <1>2, PageFacts DEF To, Mails
<1>4. guestPc' = [guestPc EXCEPT ![g] = np] /\ (np = yc \/ np = nc)
  BY <1>1, <1>2
<1>5. desc \in Description \cup {None}
  <2>1. Head(gp.chain) \in Operation
    BY <1>1, <1>2, DequeueFacts
  <2>2. QED
    BY <1>2, <2>1, DescFacts
<1>6. /\ yc \in PC /\ yc.remote = gp.remote /\ yc.chain = Tail(gp.chain)
      /\ nc \in PC /\ nc.remote = gp.remote /\ nc.chain = Tail(gp.chain)
  <2> HIDE DEF gp, desc
  <2> QED  BY <1>1, <1>2, <1>5, DequeueFacts, DoneFacts
<1>7. np # None /\ np.remote = gp.remote /\ np.chain = Tail(gp.chain)
  BY <1>4, <1>6, NoneAssumption
<1> HIDE DEF np
<1>8. QED
  BY <1>1, <1>3, <1>4, <1>7, PlaysReply

-----------------------------------------------------------------------------
(* Pages come and go, and the server tells of it *)

LEMMA PlaysJoin ==
  ASSUME IInv, Talk, Plays, NEW g \in Guests, Join(g)
  PROVE  Plays'
<1>1. /\ page[g] = "new" /\ page' = [page EXCEPT ![g] = "open"] /\ members' = members \cup {g}
      /\ down' = To(down, Owner, <<Start(g)>>)
      /\ UNCHANGED <<ownerPc, todo, tracks, arrays, fakes, guestPc, room, streams, early, misled, kept>>
  BY DEF Join, owner, files, history
<1>2. g \in Pages /\ down \in Mails /\ page \in [Pages -> {"new", "open", "gone"}] /\ Mailed(down, page)
  BY TalkFacts, PageFacts
<1>3. \A h \in Guests : down'[h] = down[h]
  BY <1>1, <1>2, PageFacts DEF To, Mails
<1>4. page'[g] = "open" /\ \A h \in Guests : h # g => page'[h] = page[h]
  BY <1>1, <1>2, PageFacts
<1>5. \A h \in Guests : page'[h] = "open" => h \in members'
  BY <1>1, <1>4 DEF Plays, Joined, Open
<1>6. down[g] = <<>> /\ room[g] = None /\ guestPc[g] = None /\ streams[g] = {}
  BY <1>1, <1>2, Untouched DEF Plays, Open
<1>7. ASSUME NEW h \in Guests
      PROVE  Watch(ownerPc'[h], down'[h], room'[h], guestPc'[h], streams'[h], fakes', early',
                   page'[h], arrays', misled'[h], h)
  <2>1. CASE h = g
    <3>1. down'[h] = <<>> /\ room'[h] = None /\ guestPc'[h] = None /\ streams'[h] = {}
      BY <1>1, <1>3, <1>6, <2>1
    <3>2. QED
      BY <3>1, WatchAway
  <2>2. CASE h # g
    <3>1. Watch(ownerPc[h], down[h], room[h], guestPc[h], streams[h], fakes, early, page[h],
                arrays, misled[h], h)
      BY DEF Plays, Sees
    <3>2. /\ page'[h] = page[h] /\ down'[h] = down[h]
          /\ UNCHANGED <<ownerPc, room, guestPc, streams, fakes, early, misled, arrays>>
      BY <1>1, <1>3, <1>4, <2>2
    <3>3. QED
      BY <3>1, <3>2
  <2>3. QED
    BY <2>1, <2>2
<1>8. Stock(ownerPc', todo', tracks', arrays') /\ Spent(ownerPc', tracks', fakes' \cup kept')
  BY <1>1 DEF Plays
<1>9. QED
  BY <1>5, <1>7, <1>8, PlaysMade

LEMMA PlaysKept ==
  ASSUME IInv, Plays,
         UNCHANGED <<ownerPc, todo, tracks, arrays, fakes, page, members, down, room, guestPc,
                     streams, early, misled, kept>>
  PROVE  Plays'
BY PlaysGuest DEF Same

\* One write of a loop of the server: about what changed since its data was made
\* the guest is misled.
LEMMA PlaysTold ==
  ASSUME IInv, Notes, Talk, Plays, NEW x \in unsent, SendUpdate(x)
  PROVE  Plays'
<1> DEFINE p == x.to
           m == Update(x.fakes)
<1>1. /\ down' = To(down, p, <<m>>)
      /\ UNCHANGED <<page, members, ownerPc, todo, tracks, arrays, fakes, guestPc, room, streams,
                     early, kept>>
      /\ \A g \in Guests : misled'[g] = IF g = p THEN misled[g] \cup OutOfDate(x.fakes) ELSE misled[g]
  BY DEF SendUpdate, owner, files, Notes
<1>2. p \in Pages /\ x.fakes \in SUBSET Tracks /\ down \in Mails /\ Mailed(down, page)
  BY TalkFacts DEF Notes, Write
<1>3. /\ m \in Message /\ m.type = "update" /\ m.fakes = x.fakes
  BY <1>2, MessageFacts
<1>4. ASSUME NEW g \in Guests, g # p \/ ~Open(g)
      PROVE  down'[g] = down[g]
  BY <1>1, <1>2, <1>4, PageFacts DEF To, Mails
<1>5. ASSUME NEW g \in Guests
      PROVE  Watch(ownerPc'[g], down'[g], room'[g], guestPc'[g], streams'[g], fakes', early',
                   page'[g], arrays', misled'[g], g)
  <2> DEFINE oc == ownerPc[g]
             s == down[g]
             u == down'[g]
             r == room[g]
             gp == guestPc[g]
             st == streams[g]
             f == early
             w == misled[g]
             v == misled'[g]
             fk == fakes
  <2>1. Watch(oc, s, r, gp, st, fk, f, page[g], arrays, w, g)
    BY DEF Plays, Sees
  <2>2. CASE g # p
    BY <1>1, <1>4, <2>1, <2>2
  <2>3. CASE ~Open(g)
    <3>1. down'[g] = <<>> /\ room[g] = None /\ guestPc[g] = None /\ streams[g] = {}
      BY <1>2, <1>4, <2>3, Untouched DEF Plays
    <3>2. QED
      BY <1>1, <3>1, WatchAway
  <2>4. CASE g = p /\ Open(g)
    <3>1. s \in Seq(Message) /\ u = Append(s, m) /\ page[g] = "open"
      BY <1>1, <1>2, <2>4 DEF Mails, To, Open
    <3>2. (\A t \in w : t \in v) /\ \A t \in Tracks \ v : t \in m.fakes <=> t \in fk
      BY <1>1, <1>3, <2>4 DEF OutOfDate
    <3> HIDE DEF oc, s, u, r, gp, st, f, m, w, v, fk
    <3>3. TellsOf(m, fk, v) /\ m.type # "offer"
      BY <1>3, <3>2 DEF TellsOf
    <3>4. \A t \in Tracks : t \in fk <=> t \in fk
      OBVIOUS
    <3>5. Watch(oc, u, r, gp, st, fk, f, "open", arrays, v, g)
      BY <1>3, <2>1, <3>1, <3>2, <3>3, <3>4, WatchSent
    <3>6. QED
      BY <1>1, <3>1, <3>5 DEF oc, u, r, gp, st, f, v, fk
  <2>5. QED
    BY <2>2, <2>3, <2>4
<1>6. \A g \in Guests : page'[g] = "open" => g \in members'
  BY <1>1 DEF Plays, Joined, Open
<1>7. Stock(ownerPc', todo', tracks', arrays') /\ Spent(ownerPc', tracks', fakes' \cup kept')
  BY <1>1 DEF Plays
<1>8. QED
  BY <1>5, <1>6, <1>7, PlaysMade

LEMMA PlaysServer ==
  ASSUME IInv, Notes, Talk, Plays, Server
  PROVE  Plays'
<1>1. ASSUME NEW g \in Guests, Announce(g) PROVE Plays'
  BY <1>1, PlaysKept DEF Announce, owner, files, history
<1>2. ASSUME NEW p \in Pages, LeaveRoom(p) PROVE Plays'
  <2>1. \A g \in Guests : page'[g] = "open" => g \in members'
    BY <1>2 DEF LeaveRoom, Plays, Joined, Open
  <2>2. /\ UNCHANGED <<ownerPc, todo, tracks, arrays, fakes, page, down, room, guestPc, streams,
                       early, misled, kept>>
    BY <1>2 DEF LeaveRoom, owner, files, history
  <2>3. Stock(ownerPc', todo', tracks', arrays') /\ Spent(ownerPc', tracks', fakes' \cup kept')
    BY <2>2 DEF Plays
  <2>4. \A g \in Guests :
          Watch(ownerPc'[g], down'[g], room'[g], guestPc'[g], streams'[g], fakes', early',
                page'[g], arrays', misled'[g], g)
    BY <2>2 DEF Plays, Sees
  <2>5. QED
    BY <2>1, <2>3, <2>4, PlaysMade
<1>3. ASSUME NEW x \in unsent, SendUpdate(x) PROVE Plays'
  BY <1>3, PlaysTold
<1>4. QED
  BY <1>1, <1>2, <1>3 DEF Server

LEMMA StockNone ==
  ASSUME NEW pcs, \A g \in Guests : pcs[g] = None, NEW td, \A job \in Loops : td[job] = None,
         NEW arr
  PROVE  Stock(pcs, td, {}, arr)
BY JobFacts DEF Stock, Clean

\* The owner's page goes, or stops.
LEMMA PlaysNone ==
  ASSUME Plays, \A g \in Guests : ownerPc'[g] = None, \A job \in Loops : todo'[job] = None,
         tracks' = {}, \A g \in Guests : Same(g) /\ page'[g] = page[g],
         UNCHANGED <<members, arrays, fakes, early, misled, kept>>
  PROVE  Plays'
<1>1. Stock(ownerPc', todo', tracks', arrays') /\ Spent(ownerPc', tracks', fakes' \cup kept')
  BY StockNone, SpentNone
<1>2. \A g \in Guests : page'[g] = "open" => g \in members'
  BY DEF Plays, Joined, Open
<1>3. ASSUME NEW g \in Guests
      PROVE  Watch(ownerPc'[g], down'[g], room'[g], guestPc'[g], streams'[g], fakes', early',
                   page'[g], arrays', misled'[g], g)
  <2> DEFINE oc == ownerPc[g]
             s == down[g]
             r == room[g]
             gp == guestPc[g]
             st == streams[g]
             pg == page[g]
             e == early
             w == misled[g]
  <2>1. Watch(oc, s, r, gp, st, fakes, e, pg, arrays, w, g)
    BY DEF Plays, Sees
  <2>2. \A t \in Tracks \ fakes : Clean(oc, t) => Clean(None, t)
    BY DEF Clean
  <2> HIDE DEF oc, s, r, gp, st, pg, e, w
  <2>3. Watch(None, s, r, gp, st, fakes, e, pg, arrays, w, g)
    BY <2>1, <2>2, WatchLess
  <2>4. QED
    BY <2>3 DEF Same, s, r, gp, st, pg, e, w
<1>4. QED
  BY <1>1, <1>2, <1>3, PlaysMade

LEMMA PlaysGone ==
  ASSUME IInv, Talk, Plays, NEW p \in Pages, Gone(p)
  PROVE  Plays'
<1>1. /\ page' = [page EXCEPT ![p] = "gone"] /\ down' = [down EXCEPT ![p] = <<>>]
      /\ room' = [room EXCEPT ![p] = None]
      /\ guestPc' = [g \in Guests |-> IF g = p THEN None ELSE guestPc[g]]
      /\ streams' = [g \in Guests |-> IF g = p THEN {} ELSE streams[g]]
      /\ UNCHANGED <<members, arrays, fakes, early, misled, kept>>
      /\ IF p = Owner
         THEN /\ ownerPc' = [g \in Guests |-> None] /\ tracks' = {}
              /\ todo' = [job \in Loops |-> None]
         ELSE UNCHANGED <<ownerPc, tracks, todo>>
  BY DEF Gone, server, owner, history
<1>2. /\ down \in Mails /\ page \in [Pages -> {"new", "open", "gone"}]
      /\ room \in [Pages -> (SUBSET Tracks) \cup {None}]
  BY TalkFacts DEF IInv, Typed, PageTypes
<1>3. \A g \in Guests : g # p => Same(g) /\ page'[g] = page[g]
  BY <1>1, <1>2, PageFacts DEF Same, Mails
<1>4. CASE p = Owner
  BY <1>1, <1>3, <1>4, PageFacts, PlaysNone
<1>5. CASE p # Owner
  <2>1. ASSUME NEW g \in Guests
        PROVE  /\ Watch(ownerPc'[g], down'[g], room'[g], guestPc'[g], streams'[g], fakes', early',
                        page'[g], arrays', misled'[g], g)
               /\ page'[g] = "open" => g \in members'
    <3>1. CASE g = p
      <4>1. /\ page'[g] = "gone" /\ down'[g] = <<>> /\ room'[g] = None /\ guestPc'[g] = None
            /\ streams'[g] = {}
        BY <1>1, <1>2, <3>1 DEF Mails
      <4>2. QED
        BY <4>1, WatchAway
    <3>2. CASE g # p
      BY <1>1, <1>3, <1>5, <3>2 DEF Plays, Sees, Joined, Same, Open
    <3>3. QED
      BY <3>1, <3>2
  <2>2. Stock(ownerPc', todo', tracks', arrays') /\ Spent(ownerPc', tracks', fakes' \cup kept')
    BY <1>1, <1>5 DEF Plays
  <2>3. QED
    BY <2>1, <2>2, PlaysMade
<1>6. QED
  BY <1>4, <1>5

LEMMA PlaysStop ==
  ASSUME IInv, Talk, Plays, NEW p \in Pages, stopConference(p)
  PROVE  Plays'
<1>1. /\ Open(p) /\ room' = [room EXCEPT ![p] = None]
      /\ guestPc' = [g \in Guests |-> IF g = p THEN None ELSE guestPc[g]]
      /\ streams' = [g \in Guests |-> IF g = p THEN {} ELSE streams[g]]
      /\ UNCHANGED <<page, down, members, arrays, fakes, early, misled, kept>>
      /\ IF p = Owner
         THEN /\ ownerPc' = [g \in Guests |-> None] /\ tracks' = {}
              /\ todo' = [job \in Loops |-> None]
         ELSE UNCHANGED <<ownerPc, tracks, todo>>
  BY DEF stopConference, server, owner, files, Silenced
<1>2. room \in [Pages -> (SUBSET Tracks) \cup {None}]
  BY DEF IInv, Typed, PageTypes
<1>3. \A g \in Guests : g # p => Same(g) /\ page'[g] = page[g]
  BY <1>1, <1>2, PageFacts DEF Same
<1>4. CASE p = Owner
  BY <1>1, <1>3, <1>4, PageFacts, PlaysNone
<1>5. CASE p # Owner
  <2>1. ASSUME NEW g \in Guests
        PROVE  /\ Watch(ownerPc'[g], down'[g], room'[g], guestPc'[g], streams'[g], fakes', early',
                        page'[g], arrays', misled'[g], g)
               /\ page'[g] = "open" => g \in members'
    <3>1. CASE g = p
      <4> DEFINE oc == ownerPc[g]
                 s == down[g]
                 r == room[g]
                 gp == guestPc[g]
                 st == streams[g]
                 e == early
                 w == misled[g]
      <4>1. Watch(oc, s, r, gp, st, fakes, e, "open", arrays, w, g)
        BY <1>1, <3>1 DEF Plays, Sees, Open
      <4>2. room'[g] = None /\ guestPc'[g] = None /\ streams'[g] = {} /\ page'[g] = "open"
        BY <1>1, <1>2, <3>1 DEF Open
      <4> HIDE DEF oc, s, r, gp, st, e, w
      <4>3. Watch(oc, s, None, None, {}, fakes, e, "open", arrays, w, g)
        BY <4>1, WatchStop
      <4>4. QED
        BY <1>1, <1>5, <3>1, <4>2, <4>3 DEF Plays, Joined, oc, s, e, w
    <3>2. CASE g # p
      BY <1>1, <1>3, <1>5, <3>2 DEF Plays, Sees, Joined, Same, Open
    <3>3. QED
      BY <3>1, <3>2
  <2>2. Stock(ownerPc', todo', tracks', arrays') /\ Spent(ownerPc', tracks', fakes' \cup kept')
    BY <1>1, <1>5 DEF Plays
  <2>3. QED
    BY <2>1, <2>2, PlaysMade
<1>6. QED
  BY <1>4, <1>5

-----------------------------------------------------------------------------
(* The owner's page: one connection changes *)

LEMMA PlaysOne ==
  ASSUME Plays, ownerPc \in [Guests -> {None} \cup PC], NEW g \in Guests, NEW qc,
         ownerPc' = [ownerPc EXCEPT ![g] = qc], \A t \in Tracks : Becomes(ownerPc[g], qc, t),
         \A h \in Guests : down'[h] = down[h],
         UNCHANGED <<todo, tracks, arrays, fakes, page, members, room, guestPc, streams, early,
                     misled, kept>>
  PROVE  Plays'
<1> DEFINE pcs == ownerPc
           qcs == ownerPc'
           d == down
           e == down'
<1>1. \A h \in Guests, t \in Tracks : Becomes(pcs[h], qcs[h], t)
  BY BecomesSame
<1>2. /\ Stock(pcs, todo, tracks, arrays) /\ Sees(pcs, d, fakes, arrays)
      /\ Spent(pcs, tracks, fakes \cup kept)
  BY DEF Plays
<1>3. \A h \in Guests : e[h] = d[h]
  OBVIOUS
<1> HIDE DEF pcs, qcs, d, e
<1>4. Stock(qcs, todo, tracks, arrays)
  BY <1>1, <1>2, StockBecomes
<1>5. Sees(qcs, e, fakes, arrays)
  BY <1>1, <1>2, <1>3, SeesLess DEF Becomes
<1>6. Spent(qcs, tracks, fakes \cup kept)
  BY <1>1, <1>2, SpentBecomes
<1>7. QED
  BY <1>4, <1>5, <1>6, PlaysOwner DEF qcs, e

LEMMA PlaysOfferAnswered ==
  ASSUME IInv, Talk, Plays, onAnswer
  PROVE  Plays'
<1> DEFINE g == Head(down[Owner]).from
           s == down[Owner]
           desc == Head(s).desc
           oc == ownerPc[g]
           qc == IF oc = None THEN None ELSE Queue(oc, "remote", desc, Reply)
<1>1. /\ s # <<>> /\ Head(s).type = "answer" /\ down' = Rest(Owner)
      /\ ownerPc' = [ownerPc EXCEPT ![g] = qc]
      /\ UNCHANGED <<todo, tracks, arrays, fakes, page, members, room, guestPc, streams, early,
                     misled, kept>>
  BY DEF onAnswer, Gets, server, files, history
<1>2. /\ Owner \in Pages /\ down \in Mails /\ ownerPc \in [Guests -> {None} \cup PC]
      /\ s \in Seq(Message)
  BY TalkFacts, PageFacts DEF Mails
<1>3. Head(s) \in Message /\ desc \in Description \cup {None}
  <2>1. Head(s) \in Message
    <3> HIDE DEF s
    <3> QED  BY <1>1, <1>2
  <2> HIDE DEF s
  <2>2. QED
    BY <2>1 DEF Message
<1>4. \A h \in Guests : down'[h] = down[h]
  BY <1>1, <1>2, PageFacts DEF Rest, Mails
<1>5. CASE g \notin Guests
  <2>1. ownerPc' = ownerPc
    <3> HIDE DEF g, qc
    <3> QED  BY <1>1, <1>2, <1>5
  <2>2. QED
    BY <1>1, <1>4, <2>1, PlaysGuest DEF Same
<1>6. CASE g \in Guests
  <2>1. CASE oc = None
    <3>1. qc = oc
      BY <2>1
    <3> HIDE DEF g, qc
    <3>2. QED
      BY <1>1, <1>2, <1>4, <1>6, <3>1, BecomesSame, PlaysOne
  <2>2. CASE oc # None
    <3> DEFINE o == [kind |-> "remote", desc |-> desc, job |-> Reply]
    <3>1. oc \in PC /\ qc = Queue(oc, "remote", desc, Reply)
      BY <1>2, <1>6, <2>2
    <3>2. o.kind = "remote"
      OBVIOUS
    <3>3. /\ qc \in PC /\ qc.sending = oc.sending /\ qc.local = oc.local
          /\ qc.chain = Append(oc.chain, o) /\ oc.chain \in Seq(Operation) /\ o \in Operation
      <4> DEFINE q == Queue(oc, "remote", desc, Reply)
      <4>1. /\ q \in PC /\ q.sending = oc.sending /\ q.local = oc.local
            /\ q.chain = Append(oc.chain, o) /\ oc.chain \in Seq(Operation) /\ o \in Operation
        <5> HIDE DEF oc, desc
        <5> QED  BY <1>3, <3>1, JobFacts, QueueFacts
      <4> HIDE DEF q, o, qc, oc
      <4>2. QED
        BY <3>1, <4>1 DEF q
    <3> HIDE DEF oc, qc, o
    <3>4. qc # None
      BY <3>3, NoneAssumption
    <3>5. \A t \in Tracks : Becomes(oc, qc, t)
      BY <2>2, <3>2, <3>3, <3>4, BecomesQueue
    <3> HIDE DEF g
    <3>6. QED
      BY <1>1, <1>2, <1>4, <1>6, <3>5, PlaysOne DEF oc
  <2>3. QED
    BY <2>1, <2>2
<1>7. QED
  BY <1>5, <1>6

LEMMA PlaysOfferMade ==
  ASSUME IInv, Talk, Plays, NEW g \in Guests, OfferMade(g)
  PROVE  Plays'
<1> DEFINE oc == ownerPc[g]
           desc == Offer(oc)
           qc == Create(oc, desc)
           o == [kind |-> "local", desc |-> desc, job |-> oc.chain[1].job]
<1>1. /\ oc # None /\ oc.chain # <<>> /\ ownerPc' = [ownerPc EXCEPT ![g] = qc]
      /\ UNCHANGED <<down, todo, tracks, arrays, fakes, page, members, room, guestPc, streams,
                     early, misled, kept>>
  BY DEF OfferMade, Has, Waits, server, files, history
<1>2. oc \in PC /\ ownerPc \in [Guests -> {None} \cup PC]
  BY <1>1, TalkFacts
<1>3. desc \in Description \cup {None} /\ desc.tracks = oc.sending
  BY <1>2, DescFacts
<1>4. o \in Operation /\ qc.chain = Append(Tail(oc.chain), o) /\ oc.chain \in Seq(Operation)
  <2> HIDE DEF oc
  <2> QED  BY <1>1, <1>2, OfferedMade
<1>5. o.kind = "local" /\ o.job = oc.chain[1].job /\ o.desc.tracks = oc.sending
  BY <1>3
<1>6. qc \in PC /\ qc.local = oc.local
  <2> DEFINE q == qc
  <2>1. q = Create(oc, desc)
    OBVIOUS
  <2> HIDE DEF oc, desc, q
  <2>2. q \in PC /\ q.local = oc.local
    BY <1>1, <1>2, <1>3, <2>1, CreateFacts
  <2>3. QED
    BY <2>2 DEF q
<1>7. qc.sending = oc.sending
  BY <1>2 DEF Create, Queue, Dequeue, PC
<1> HIDE DEF oc, desc, qc, o
<1>8. qc # None
  BY <1>6, NoneAssumption
<1>9. \A t \in Tracks : Becomes(oc, qc, t)
  BY <1>1, <1>4, <1>5, <1>6, <1>7, <1>8, BecomesMade
<1>10. QED
  BY <1>1, <1>2, <1>9, PlaysOne DEF oc

LEMMA PlaysApplied ==
  ASSUME IInv, Talk, Plays, NEW g \in Guests, AnswerApplied(g)
  PROVE  Plays'
<1> DEFINE oc == ownerPc[g]
           c == oc.chain
           desc == Head(c).desc
           sc == SetRemoteAnswer(oc, desc)
           ac == Dequeue(sc)
           nc == Dequeue(oc)
           qc == Dequeue(IF AnswerFits(oc, desc) THEN sc ELSE oc)
<1>1. /\ oc # None /\ c # <<>> /\ Head(c).kind = "remote" /\ ownerPc' = [ownerPc EXCEPT ![g] = qc]
      /\ UNCHANGED <<down, todo, tracks, arrays, fakes, page, members, room, guestPc, streams,
                     early, misled, kept>>
  BY DEF AnswerApplied, Has, Waits, server, files, history
<1>2. oc \in PC /\ ownerPc \in [Guests -> {None} \cup PC] /\ c = oc.chain
  BY <1>1, TalkFacts
<1>3. c \in Seq(Operation) /\ c[1].kind = "remote" /\ desc \in Description \cup {None}
  <2>1. c \in Seq(Operation) /\ Head(c) = c[1] /\ c[1] \in Operation
    BY <1>1, <1>2, DequeueFacts
  <2>2. QED
    BY <1>1, <1>2, <2>1, DescFacts
<1>4. qc = ac \/ qc = nc
  OBVIOUS
<1>5. /\ sc \in PC /\ sc.chain = c /\ sc.sending = oc.sending /\ sc.local = oc.local
  <2> HIDE DEF oc, c, desc
  <2> QED  BY <1>2, <1>3, SetFacts
<1>6. /\ nc \in PC /\ nc.sending = oc.sending /\ nc.local = oc.local /\ nc.chain = Tail(c)
  <2> HIDE DEF oc, c
  <2> QED  BY <1>1, <1>2, DequeueFacts
<1>7. /\ ac \in PC /\ ac.sending = oc.sending /\ ac.local = oc.local /\ ac.chain = Tail(c)
  <2> HIDE DEF oc, c, sc
  <2> QED  BY <1>1, <1>2, <1>5, DequeueFacts
<1> HIDE DEF oc, c, desc, qc, ac, nc
<1>8. /\ qc \in PC /\ qc.sending = oc.sending /\ qc.local = oc.local /\ qc.chain = Tail(c)
      /\ qc # None
  BY <1>4, <1>6, <1>7, NoneAssumption
<1>9. ASSUME NEW t \in Tracks PROVE Becomes(oc, qc, t)
  <2>1. /\ Clean(oc, t) => Clean(qc, t)
        /\ Going(oc, t) => \/ Going(qc, t)
                           \/ /\ c[1].kind # "remote" /\ c[1].job = Drop(t)
                              /\ c[1].kind = "local" /\ qc.local = c[1].desc => Clean(qc, t)
    BY <1>1, <1>2, <1>3, <1>8, BecomesDone
  <2>2. QED
    BY <1>3, <2>1 DEF Becomes
<1>10. QED
  BY <1>1, <1>2, <1>9, PlaysOne DEF oc

\* A guest that was offered nothing may be offered anything.
LEMMA WatchFirst ==
  ASSUME NEW oc, NEW s, NEW r, NEW gp, NEW st, NEW fk, NEW e, NEW pg, NEW arr, NEW w, NEW g,
         Watch(oc, s, r, gp, st, fk, e, pg, arr, w, g), \A t \in Tracks : Unheard(s, gp, t), NEW qc
  PROVE  Watch(qc, s, r, gp, st, fk, e, pg, arr, w, g)
BY UnheardPlayed DEF Watch

LEMMA PlaysStart ==
  ASSUME IInv, Talk, Plays, onStartPeerConnection
  PROVE  Plays'
<1> DEFINE g == Head(down[Owner]).from
           nc == NewPC(tracks)
           qc == Queue(nc, "create", None, Connect)
           o == [kind |-> "create", desc |-> None, job |-> Connect]
           s == down[Owner]
<1>1. /\ s # <<>> /\ Head(s).type = "start"
      /\ ownerPc' = [ownerPc EXCEPT ![g] = qc] /\ down' = Rest(Owner)
      /\ UNCHANGED <<todo, tracks, arrays, fakes, page, members, room, guestPc, streams, early,
                     misled, kept>>
  BY DEF onStartPeerConnection, Gets, server, files, history
<1>2. /\ Owner \in Pages /\ down \in Mails /\ s \in Seq(Message) /\ s[1] = Head(s)
      /\ 1 \in 1 .. Len(s) /\ ownerPc \in [Guests -> {None} \cup PC]
  <2>1. Owner \in Pages /\ down \in Mails /\ s \in Seq(Message) /\ ownerPc \in [Guests -> {None} \cup PC]
    BY TalkFacts, PageFacts DEF Mails
  <2> HIDE DEF s
  <2>2. QED
    BY <1>1, <2>1
<1>3. g \in Guests /\ StartIn(s, g) /\ ownerPc[g] = None
  <2>1. g \in Guests /\ ownerPc[g] = None
    BY <1>1, <1>2 DEF IInv, Letters, Starts
  <2>2. QED
    BY <1>1, <1>2, <2>1 DEF StartIn
<1>4. /\ qc \in PC /\ qc.sending = tracks /\ qc.local = None /\ qc.chain = Append(<<>>, o)
      /\ o \in Operation
  <2>1. nc \in PC /\ nc.sending = tracks /\ nc.local = None /\ nc.chain = <<>>
    BY TalkFacts, NewPCFacts
  <2>2. Connect \in Job
    BY JobFacts
  <2> HIDE DEF nc
  <2>3. /\ qc \in PC /\ qc.sending = nc.sending /\ qc.local = nc.local
        /\ qc.chain = Append(nc.chain, o) /\ o \in Operation
    BY <2>1, <2>2, QueueFacts
  <2>4. QED
    BY <2>1, <2>3
<1>5. o.kind = "create"
  OBVIOUS
<1>6. \A h \in Guests : down'[h] = down[h]
  BY <1>1, <1>2, PageFacts DEF Rest, Mails
<1>7. ownerPc'[g] = qc /\ \A h \in Guests : h # g => ownerPc'[h] = ownerPc[h]
  BY <1>1, <1>2, <1>3
<1>8. Talks(ownerPc[g], guestPc[g], down[g], s, page[g], page[Owner], stopped, g)
  BY <1>3, TalkFacts
<1> HIDE DEF g, s, qc, o
<1>9. guestPc[g] = None /\ ~HasOffer(down[g])
  BY <1>3, <1>8 DEF Talks, Fresh
<1>10. \A t \in Tracks : Unheard(down[g], guestPc[g], t)
  BY <1>9 DEF Unheard, HasOffer, Carries, Waiting, Hears
<1>11. ASSUME NEW t \in Tracks, t \notin tracks PROVE Clean(qc, t)
  <2> DEFINE c == qc.chain
             e == <<>>
  <2>1. e \in Seq(Operation) /\ c = Append(e, o) /\ Lacks(e, t)
    BY <1>4 DEF Lacks
  <2> HIDE DEF c, e
  <2>2. Lacks(c, t)
    BY <1>4, <1>5, <2>1, PendingAppend
  <2>3. QED
    BY <1>4, <1>11, <2>2 DEF Clean, c
<1>12. ASSUME NEW h \in Guests
       PROVE  Watch(ownerPc'[h], down'[h], room'[h], guestPc'[h], streams'[h], fakes', early',
                    page'[h], arrays', misled'[h], h)
  <2>1. Watch(ownerPc[h], down[h], room[h], guestPc[h], streams[h], fakes, early, page[h], arrays,
              misled[h], h)
    BY DEF Plays, Sees
  <2>2. /\ down'[h] = down[h]
        /\ UNCHANGED <<room, guestPc, streams, fakes, early, misled, page, arrays>>
    BY <1>1, <1>6
  <2>3. CASE h = g
    <3>1. Watch(qc, down[h], room[h], guestPc[h], streams[h], fakes, early, page[h], arrays,
                misled[h], h)
      BY <1>10, <2>1, <2>3, WatchFirst
    <3>2. QED
      BY <1>7, <2>2, <2>3, <3>1
  <2>4. CASE h # g
    BY <1>7, <2>1, <2>2, <2>4
  <2>5. QED
    BY <2>3, <2>4
<1>13. Stock(ownerPc', todo', tracks', arrays') /\ Spent(ownerPc', tracks', fakes' \cup kept')
  <2>1. Stock(ownerPc, todo, tracks, arrays) /\ Spent(ownerPc, tracks, fakes \cup kept)
    BY DEF Plays
  <2>2. Stock(ownerPc', todo, tracks, arrays)
    BY <1>7, <1>11, <2>1 DEF Stock
  <2>3. Spent(ownerPc', tracks, fakes \cup kept)
    BY <1>7, <1>11, <2>1 DEF Spent
  <2>4. QED
    BY <1>1, <2>2, <2>3
<1>14. \A h \in Guests : page'[h] = "open" => h \in members'
  BY <1>1 DEF Plays, Joined, Open
<1>15. QED
  BY <1>12, <1>13, <1>14, PlaysMade

-----------------------------------------------------------------------------
(* An offer of the owner is set, or refused, and the loops go on *)

\* The offer at the head of the chain of g comes out.
Out(g, qc) ==
  /\ qc \in PC /\ qc.sig # "remote" /\ qc.chain = Tail(ownerPc[g].chain)
  /\ qc.sending = ownerPc[g].sending
  /\ qc.local \in {ownerPc[g].local, ownerPc[g].chain[1].desc}

\* Unless it was the offer of a drop, each end becomes what it was to become;
\* after that of a drop has been set, nobody is sent its track.
Emptied(g, qc, pcs) ==
  /\ pcs \in [Guests -> {None} \cup PC] /\ pcs[g] = qc
  /\ \A h \in Guests : /\ h # g => pcs[h] = ownerPc[h]
                       /\ pcs[h] = None <=> ownerPc[h] = None
  /\ \A h \in Guests, t \in Tracks :
       /\ Clean(ownerPc[h], t) => Clean(pcs[h], t)
       /\ Going(ownerPc[h], t) =>
            \/ Going(pcs[h], t)
            \/ /\ h = g /\ ownerPc[g].chain[1].job = Drop(t)
               /\ qc.local = ownerPc[g].chain[1].desc => Clean(pcs[h], t)

LEMMA OutFor ==
  ASSUME IInv, Plays, NEW g \in Guests, Has(ownerPc[g], "local"), NEW qc, Out(g, qc),
         NEW pcs, pcs = [ownerPc EXCEPT ![g] = qc]
  PROVE  Emptied(g, qc, pcs)
<1> DEFINE oc == ownerPc[g]
           c == oc.chain
<1>1. oc # None /\ c # <<>> /\ Head(c).kind = "local"
  BY DEF Has, Waits
<1>2. ownerPc \in [Guests -> {None} \cup PC] /\ oc \in PC
  BY <1>1 DEF IInv, Typed, PeerTypes
<1>3. c \in Seq(Operation) /\ c[1].kind = "local"
  <2>1. c \in Seq(Operation) /\ Head(c) = c[1]
    <3> HIDE DEF oc
    <3> QED  BY <1>1, <1>2, DequeueFacts
  <2>2. QED
    BY <1>1, <2>1
<1>4. qc # None
  BY NoneAssumption DEF Out
<1>5. /\ pcs \in [Guests -> {None} \cup PC] /\ pcs[g] = qc
      /\ \A h \in Guests : h # g => pcs[h] = ownerPc[h]
  BY <1>2 DEF Out
<1>6. /\ qc.chain = Tail(c) /\ qc.sending = oc.sending
      /\ qc.local = oc.local \/ (c[1].kind = "local" /\ qc.local = c[1].desc)
  BY <1>3 DEF Out
<1>7. c = oc.chain
  OBVIOUS
<1> HIDE DEF oc, c
<1>8. ASSUME NEW t \in Tracks
      PROVE  /\ Clean(oc, t) => Clean(qc, t)
             /\ Going(oc, t) => \/ Going(qc, t)
                                \/ /\ c[1].kind # "remote" /\ c[1].job = Drop(t)
                                   /\ c[1].kind = "local" /\ qc.local = c[1].desc => Clean(qc, t)
  BY <1>1, <1>3, <1>4, <1>6, <1>7, BecomesDone
<1>9. ASSUME NEW h \in Guests, NEW t \in Tracks
      PROVE  /\ Clean(ownerPc[h], t) => Clean(pcs[h], t)
             /\ Going(ownerPc[h], t) =>
                   \/ Going(pcs[h], t)
                   \/ /\ h = g /\ ownerPc[g].chain[1].job = Drop(t)
                      /\ qc.local = ownerPc[g].chain[1].desc => Clean(pcs[h], t)
  <2>1. CASE h # g
    BY <1>5, <2>1
  <2>2. CASE h = g
    BY <1>3, <1>5, <1>8, <2>2 DEF oc, c
  <2>3. QED
    BY <2>1, <2>2
<1>10. QED
  BY <1>1, <1>4, <1>5, <1>9 DEF oc, Emptied

\* Then no peer has another offer of that drop.
LEMMA NoneGoing ==
  ASSUME NEW pcs, NEW qcs, NEW td, NEW ps, NEW g, NEW t \in Tracks,
         Passed(pcs, qcs, td, ps, g, Drop(t)), NEW h \in Guests
  PROVE  ~Going(qcs[h], t)
<1>1. PICK x0 \in 1 .. Len(ps) : Moves(qcs, td, ps, Drop(t), x0)
  BY JobFacts DEF Passed
<1>2. \A x \in 1 .. Len(ps) : \A i \in OffersOf(At(qcs, ps, x)) : At(qcs, ps, x)[i].job # Drop(t)
  BY <1>1 DEF Moves, Free
<1>3. SUFFICES ASSUME Going(qcs[h], t) PROVE FALSE
  OBVIOUS
<1>4. PICK x \in 1 .. Len(ps) : ps[x] = h
  BY <1>3 DEF Going, Passed, Star
<1>5. PICK p \in 1 .. Len(qcs[h].chain) :
        qcs[h].chain[p].kind # "remote" /\ qcs[h].chain[p].job = Drop(t)
  BY <1>3 DEF Going, Pending
<1>6. p \in OffersOf(At(qcs, ps, x)) /\ At(qcs, ps, x)[p].job = Drop(t)
  BY <1>4, <1>5 DEF OffersOf, At
<1>7. QED
  BY <1>2, <1>6

LEMMA PlaysOfferApplied ==
  ASSUME IInv, Talk, Plays, NEW g \in Guests, OfferApplied(g)
  PROVE  Plays'
<1> DEFINE oc == ownerPc[g]
           c == oc.chain
           desc == Head(c).desc
           J == Head(c).job
           sc == SetLocalOffer(oc, desc)
           qc == Dequeue(sc)
           pcs == [ownerPc EXCEPT ![g] = qc]
           out == OfferOut(g, desc)
<1>1. /\ Has(oc, "local") /\ oc # None /\ c # <<>> /\ Head(c).kind = "local"
      /\ UNCHANGED <<tracks, arrays, page, members, room, guestPc, streams, early, misled, kept>>
  BY DEF OfferApplied, Has, Waits, history
<1>2. /\ oc \in PC /\ Talks(oc, guestPc[g], down[g], down[Owner], page[g], page[Owner], stopped, g)
      /\ ownerPc \in [Guests -> {None} \cup PC] /\ down \in Mails /\ Mailed(down, page)
      /\ fakes \in SUBSET Tracks /\ peers \in Seq(Guests)
  BY <1>1, TalkFacts
<1>3. /\ c \in Seq(Operation) /\ c[1] = Head(c) /\ c[1].kind = "local" /\ c[1].desc = desc
      /\ c[1].job = J /\ 1 \in 1 .. Len(c) /\ desc \in Description \cup {None}
  <2>1. c \in Seq(Operation) /\ Head(c) = c[1] /\ c[1] \in Operation
    BY <1>1, <1>2, DequeueFacts
  <2>2. 1 \in 1 .. Len(c)
    BY <1>1, <2>1
  <2>3. QED
    BY <1>1, <1>2, <2>1, <2>2, DescFacts
<1>4. desc \in Description
  <2>1. Spoken(c)
    BY <1>1, <1>2 DEF Talks, Begun
  <2> HIDE DEF c, desc
  <2>2. QED
    BY <1>3, <2>1 DEF Spoken
<1>5. sc \in PC /\ sc.sig = "local" /\ sc.chain = c /\ sc.sending = oc.sending /\ sc.local = desc
  <2> HIDE DEF oc, desc
  <2> QED  BY <1>2, <1>3, SetFacts
<1>6. /\ qc \in PC /\ qc.sig = "local" /\ qc.chain = Tail(c) /\ qc.sending = oc.sending
      /\ qc.local = desc
  <2> HIDE DEF oc, c, sc
  <2> QED  BY <1>1, <1>5, DequeueFacts
<1>7. todo \in [Loops -> Seq(Guests) \cup {None}]
  BY Known
<1>8. \/ J = Connect /\ ownerPc' = pcs /\ down' = out /\ UNCHANGED <<fakes, todo>>
      \/ /\ J # Connect /\ todo[J] # <<>> /\ NextPeer(J, todo[J], pcs) /\ down' = out
         /\ UNCHANGED fakes
      \/ J # Connect /\ todo[J] = <<>> /\ ownerPc' = pcs /\ EndLoop(J, out)
  BY <1>1 DEF OfferApplied
<1>9. J # Connect => J \in Loops /\ todo[J] # None
  BY <1>1, ItsLoop
<1>10. J # Connect /\ todo[J] # <<>> => Head(todo[J]) \in Guests /\ ownerPc[Head(todo[J])] # None
  BY <1>1, TakenUp
<1>11. /\ Stock(ownerPc, todo, tracks, arrays) /\ Joined /\ Sees(ownerPc, down, fakes, arrays)
       /\ Spent(ownerPc, tracks, fakes \cup kept)
  BY DEF Plays
<1>12. /\ out \in Mails /\ Mailed(out, page)
  <2> DEFINE d == down
             e == out
  <2>1. d = down /\ e = OfferOut(g, desc)
    OBVIOUS
  <2> HIDE DEF d, desc, e
  <2>2. e \in Mails /\ Mailed(e, page)
    BY <1>2, <1>4, <2>1, OutTalk DEF d
  <2>3. QED
    BY <2>2 DEF e
<1>13. \A t \in Tracks : ~Stored(arrays, t) => t \notin desc.tracks
  <2>1. \A t \in Tracks : ~Stored(arrays, t) => Clean(oc, t)
    BY <1>11 DEF Stock
  <2>2. QED
    BY <1>1, <1>3, <2>1 DEF Clean, Lacks
<1> HIDE DEF qc, J, desc, out
<1>14. Out(g, qc)
  BY <1>3, <1>6 DEF Out
<1>15. /\ pcs \in [Guests -> {None} \cup PC] /\ pcs[g] = qc
       /\ \A h \in Guests : pcs[h] = None <=> ownerPc[h] = None
       /\ \A h \in Guests, t \in Tracks : Becomes(ownerPc[h], pcs[h], t)
  <2> DEFINE p == pcs
  <2>1. p = [ownerPc EXCEPT ![g] = qc] /\ Has(ownerPc[g], "local")
    BY <1>1
  <2> HIDE DEF p, oc, c
  <2>2. Emptied(g, qc, p)
    BY <1>14, <2>1, OutFor
  <2>3. \A h \in Guests, t \in Tracks : Becomes(ownerPc[h], p[h], t)
    BY <1>3, <1>6, <2>2 DEF Becomes, Emptied, oc, c
  <2>4. QED
    BY <2>2, <2>3 DEF p, Emptied
<1>16. J # Connect => Passed(ownerPc, pcs, todo, peers, g, J)
  <2> DEFINE opc == ownerPc
             p == pcs
  <2>1. /\ Star(opc, peers) /\ Orderly(opc, todo, peers) /\ oc = opc[g]
        /\ p = [opc EXCEPT ![g] = qc] /\ opc \in [Guests -> {None} \cup PC]
        /\ Offering(opc) /\ oc.chain # <<>> /\ oc.chain[1].kind = "local" /\ oc.chain[1].job = J
        /\ qc \in PC /\ qc.chain = Tail(oc.chain) /\ qc.sig # "remote"
    BY <1>1, <1>2, <1>3, <1>6, TalkFacts DEF IInv, Serving, Offering
  <2> HIDE DEF opc, p, oc
  <2>2. Passed(opc, p, todo, peers, g, oc.chain[1].job)
    BY <1>2, <1>7, <2>1, HeadServed
  <2>3. QED
    BY <2>1, <2>2 DEF opc, p
<1> HIDE DEF pcs
<1>17. Stock(pcs, todo, tracks, arrays)
  <2> DEFINE opc == ownerPc
  <2>1. Stock(opc, todo, tracks, arrays) /\ \A h \in Guests, t \in Tracks : Becomes(opc[h], pcs[h], t)
    BY <1>11, <1>15
  <2> HIDE DEF opc
  <2>2. QED
    BY <2>1, StockBecomes
<1>18. Sees(pcs, out, fakes, arrays)
  <2> DEFINE opc == ownerPc
             d == down
  <2>1. /\ Sees(opc, d, fakes, arrays) /\ \A h \in Guests, t \in Tracks : Becomes(opc[h], pcs[h], t)
        /\ d = down /\ d \in Mails /\ Mailed(d, page)
    BY <1>2, <1>11, <1>15
  <2> HIDE DEF opc, d
  <2>2. Sees(pcs, d, fakes, arrays)
    BY <2>1, SeesLess DEF Becomes
  <2>3. out = OfferOut(g, desc)
    BY DEF out
  <2>4. QED
    BY <1>4, <1>13, <2>1, <2>2, <2>3, SeesOut
<1>spent. Spent(pcs, tracks, fakes \cup kept)
  <2> DEFINE opc == ownerPc
             fk == fakes \cup kept
  <2>1. Spent(opc, tracks, fk) /\ \A h \in Guests, t \in Tracks : Becomes(opc[h], pcs[h], t)
    BY <1>11, <1>15
  <2> HIDE DEF opc, fk
  <2>2. Spent(pcs, tracks, fk)
    BY <2>1, SpentBecomes
  <2>3. QED
    BY <2>2 DEF fk
<1>19. CASE ownerPc' = pcs /\ down' = out /\ UNCHANGED <<fakes, todo>>
  BY <1>1, <1>17, <1>18, <1>spent, <1>19, PlaysOwner
<1>20. CASE /\ J # Connect /\ todo[J] # <<>> /\ NextPeer(J, todo[J], pcs) /\ down' = out
            /\ UNCHANGED fakes
  <2> DEFINE ids == todo[J]
             h == Head(ids)
             qcs == ownerPc'
             ud == todo'
             td == todo
  <2>1. /\ ud = [td EXCEPT ![J] = Tail(ids)]
        /\ qcs = [pcs EXCEPT ![h] =
             Queue(IF J.kind = "drop" THEN removeTrack(@, J.track) ELSE @, "create", None, J)]
        /\ J \in Loops /\ ids \in Seq(Guests) /\ ids # <<>> /\ h \in Guests /\ pcs[h] # None
        /\ td \in [Loops -> Seq(Guests) \cup {None}] /\ h = Head(ids)
    BY <1>7, <1>9, <1>10, <1>15, <1>20 DEF NextPeer
  <2>2. Owed(J, ids, pcs, tracks, arrays)
    BY <1>9, <1>17, <1>20 DEF Stock, Owed
  <2>3. Stock(pcs, td, tracks, arrays) /\ pcs \in [Guests -> {None} \cup PC]
    BY <1>15, <1>17
  <2> HIDE DEF ids, h, qcs, ud, td
  <2>4. /\ Stock(qcs, ud, tracks, arrays)
        /\ \A q \in Guests, t \in Tracks : Becomes(pcs[q], qcs[q], t)
    BY <2>1, <2>2, <2>3, StockTaken
  <2>5. Sees(qcs, out, fakes, arrays)
    BY <1>18, <2>4, SeesLess DEF Becomes
  <2>6. Spent(qcs, tracks, fakes \cup kept)
    <3> DEFINE fk == fakes \cup kept
    <3>1. Spent(pcs, tracks, fk)
      BY <1>spent
    <3> HIDE DEF fk
    <3>2. Spent(qcs, tracks, fk)
      BY <2>4, <3>1, SpentBecomes
    <3>3. QED
      BY <3>2 DEF fk
  <2>7. QED
    BY <1>1, <1>20, <2>4, <2>5, <2>6, PlaysOwner DEF qcs, ud
<1>21. CASE J # Connect /\ todo[J] = <<>> /\ ownerPc' = pcs /\ EndLoop(J, out)
  <2>1. Stock(pcs, todo', tracks, arrays)
    <3> DEFINE S == Seq(Guests) \cup {None}
               td == todo
               ud == todo'
    <3>1. td \in [Loops -> S] /\ J \in Loops /\ ud = [td EXCEPT ![J] = None]
      BY <1>7, <1>9, <1>21 DEF EndLoop
    <3>2. \A t \in Tracks :
           /\ ~Stored(arrays, t) =>
                t \notin tracks /\ td[Drop(t)] = None /\ \A q \in Guests : Clean(pcs[q], t)
           /\ td[Drop(t)] # None /\ Drop(t) # J =>
                /\ t \notin tracks
                /\ \A q \in Guests : Clean(pcs[q], t) \/ Going(pcs[q], t) \/ Awaited(td[Drop(t)], q)
      BY <1>17 DEF Stock
    <3> HIDE DEF S, td, ud
    <3>3. Stock(pcs, ud, tracks, arrays)
      BY <3>1, <3>2, StockEnded
    <3>4. QED
      BY <3>3 DEF ud
  <2>2. Sees(pcs, down', fakes', arrays) /\ Spent(pcs, tracks, fakes' \cup kept)
    <3>1. CASE J.kind # "drop"
      BY <1>18, <1>spent, <1>21, <3>1 DEF EndLoop
    <3>2. CASE J.kind = "drop"
      <4> DEFINE t == J.track
                 fs == fakes \ {t}
                 e == ToRoom(out, Update(fs))
      <4>1. down' = e /\ fakes' = fs
        BY <1>21, <3>2 DEF EndLoop
      <4>2. J = Drop(t) /\ t \in Tracks
        BY <1>9, <1>21, <3>2, JobKinds, JobFacts
      <4>3. ASSUME NEW q \in Guests PROVE Clean(pcs[q], t)
        <5>1. ~Going(pcs[q], t)
          BY <1>16, <1>21, <4>2, NoneGoing
        <5>2. ~Awaited(todo[Drop(t)], q)
          <6>1. Len(<<>>) = 0 /\ \A i \in 1 .. 0 : FALSE
            OBVIOUS
          <6>2. QED
            BY <1>21, <4>2, <6>1 DEF Awaited
        <5>3. todo[Drop(t)] # None
          BY <1>9, <1>21, <4>2
        <5>4. QED
          BY <1>17, <4>2, <5>1, <5>2, <5>3 DEF Stock
      <4>4. \A q \in Guests, u \in Tracks : \/ u \in fakes <=> u \in fs
                                            \/ u \notin fs /\ Clean(pcs[q], u)
                                            \/ Unheard(out[q], guestPc[q], u)
        BY <4>3
      <4>5. fs \in SUBSET Tracks /\ e = ToRoom(out, Update(fs))
        BY <1>2
      <4> HIDE DEF fs, e
      <4>6. Sees(pcs, e, fs, arrays)
        BY <1>11, <1>12, <1>18, <4>4, <4>5, SeesRoom
      <4>7. Spent(pcs, tracks, fs \cup kept)
        <5>1. todo[Drop(t)] # None
          BY <1>9, <1>21, <4>2
        <5>2. t \notin tracks
          BY <1>17, <4>2, <5>1 DEF Stock
        <5>3. \A u \in Tracks \ (fs \cup kept) : u \notin fakes \cup kept \/ u = t
          BY DEF fs
        <5>4. QED
          BY <1>spent, <4>3, <5>2, <5>3 DEF Spent
      <4>8. QED
        BY <4>1, <4>6, <4>7
    <3>3. QED
      BY <3>1, <3>2
  <2>3. QED
    BY <1>1, <1>21, <2>1, <2>2, PlaysOwner
<1>22. QED
  BY <1>8, <1>19, <1>20, <1>21

LEMMA PlaysRefused ==
  ASSUME IInv, Talk, Plays, NEW g \in Guests, OfferRefused(g)
  PROVE  Plays'
<1> DEFINE oc == ownerPc[g]
           c == oc.chain
           J == Head(c).job
           qc == Dequeue(oc)
           pcs == [ownerPc EXCEPT ![g] = qc]
<1>1. /\ Has(oc, "local") /\ oc # None /\ c # <<>>
      /\ \/ Gone(Owner)
         \/ /\ J # Connect /\ ownerPc' = pcs /\ todo' = [todo EXCEPT ![J] = None]
            /\ UNCHANGED <<tracks, arrays, fakes, page, members, down, room, guestPc, streams,
                           early, misled, kept>>
  BY DEF OfferRefused, Has, Waits, server, files
<1>2. CASE Gone(Owner)
  BY <1>2, PageFacts, PlaysGone
<1>3. CASE /\ J # Connect /\ ownerPc' = pcs /\ todo' = [todo EXCEPT ![J] = None]
           /\ UNCHANGED <<tracks, arrays, fakes, page, members, down, room, guestPc, streams,
                          early, misled, kept>>
  <2>1. oc \in PC /\ oc.sig # "remote" /\ c = oc.chain
    BY <1>1, TalkFacts
  <2>2. J \in Loops
    BY <1>1, <1>3, ItsLoop
  <2>3. /\ qc \in PC /\ qc.sig = oc.sig /\ qc.sending = oc.sending /\ qc.local = oc.local
        /\ qc.chain = Tail(c) /\ Head(c) = c[1]
    <3> HIDE DEF oc, c
    <3> QED  BY <1>1, <2>1, DequeueFacts
  <2>4. Out(g, qc)
    BY <2>1, <2>3 DEF Out
  <2>5. Emptied(g, qc, pcs)
    <3> DEFINE p == pcs
    <3>1. p = [ownerPc EXCEPT ![g] = qc] /\ Has(ownerPc[g], "local")
      BY <1>1
    <3> HIDE DEF p, oc, c, qc
    <3>2. Emptied(g, qc, p)
      BY <2>4, <3>1, OutFor
    <3>3. QED
      BY <3>2 DEF p
  <2> DEFINE S == Seq(Guests) \cup {None}
             td == todo
             ud == todo'
             tr == tracks
             arr == arrays
  <2>6. ownerPc[g].chain[1].job = J
    BY <2>3
  <2>7. \A t \in Tracks :
           /\ ~Stored(arr, t) =>
                t \notin tr /\ td[Drop(t)] = None /\ \A h \in Guests : Clean(pcs[h], t)
           /\ td[Drop(t)] # None /\ Drop(t) # J =>
                /\ t \notin tr
                /\ \A h \in Guests : Clean(pcs[h], t) \/ Going(pcs[h], t) \/ Awaited(td[Drop(t)], h)
    <3> HIDE DEF pcs, J
    <3> QED  BY <2>5, <2>6 DEF Plays, Stock, Emptied
  <2>8. td \in [Loops -> S] /\ ud = [td EXCEPT ![J] = None]
    BY <1>3, Known
  <2> HIDE DEF J, pcs, qc, oc, c, S, td, ud, tr, arr
  <2>9. Stock(pcs, ud, tr, arr)
    BY <2>2, <2>7, <2>8, StockEnded
  <2>10. Sees(pcs, down, fakes, arr)
    <3> DEFINE opc == ownerPc
               d == down
    <3>1. Sees(opc, d, fakes, arr)
      BY DEF Plays, arr
    <3>2. \A h \in Guests, t \in Tracks \ fakes : Clean(opc[h], t) => Clean(pcs[h], t)
      BY <2>5 DEF Emptied
    <3>3. \A h \in Guests : d[h] = d[h]
      OBVIOUS
    <3> HIDE DEF opc, d
    <3>4. Sees(pcs, d, fakes, arr)
      BY <3>1, <3>2, <3>3, SeesLess
    <3>5. QED
      BY <3>4 DEF d
  <2>11. Spent(pcs, tr, fakes \cup kept)
    BY <2>5 DEF Plays, Spent, Emptied, tr
  <2>12. QED
    BY <1>3, <2>9, <2>10, <2>11, PlaysOwner DEF ud, tr, arr
<1>4. QED
  BY <1>1, <1>2, <1>3

-----------------------------------------------------------------------------
(* Files are loaded and dropped *)

\* The first peer of a loop that begins.
LEMMA FirstPeer ==
  ASSUME IInv
  PROVE  /\ peers # <<>> => Head(peers) \in Guests /\ ownerPc[Head(peers)] # None
         /\ \A g \in Guests : ownerPc[g] # None => Awaited(peers, g)
         /\ peers = <<>> => \A g \in Guests : ownerPc[g] = None
<1>1. peers \in Seq(Guests) /\ Star(ownerPc, peers)
  BY Known DEF IInv, Serving
<1>2. \A g \in Guests : ownerPc[g] # None => Awaited(peers, g)
  BY <1>1 DEF Star, Awaited
<1>3. peers # <<>> => 1 \in 1 .. Len(peers) /\ Head(peers) = peers[1] /\ Head(peers) \in Guests
  BY <1>1
<1>4. Len(<<>>) = 0 /\ \A i \in 1 .. 0 : FALSE
  OBVIOUS
<1>5. QED
  BY <1>1, <1>2, <1>3, <1>4 DEF Star, Awaited

LEMMA BecomesAdded ==
  ASSUME NEW oc \in PC, NEW t \in Tracks, NEW u, u # t
  PROVE  Becomes(oc, addTrack(oc, t), u)
<1> DEFINE qc == addTrack(oc, t)
<1>1. qc \in PC /\ qc.chain = oc.chain /\ qc.local = oc.local
  BY TrackFacts
<1>2. u \in qc.sending => u \in oc.sending
  BY DEF addTrack, PC
<1>3. oc # None /\ qc # None
  BY <1>1, NoneAssumption
<1> HIDE DEF qc
<1>4. Becomes(oc, qc, u)
  BY <1>1, <1>2, <1>3 DEF Becomes, Clean, Going
<1>5. QED
  BY <1>4 DEF qc

LEMMA PlaysLoad ==
  ASSUME IInv, Talk, Plays, NEW t \in Tracks, onMp3FileLoad(t)
  PROVE  Plays'
<1> DEFINE opc == ownerPc
           pcs == [g \in Guests |-> IF opc[g] = None THEN None ELSE addTrack(opc[g], t)]
           d == down
           e == down'
           fk == fakes
           fs == fakes'
           qcs == ownerPc'
           td == todo
           ud == todo'
           arr == arrays
           brr == arrays'
           J == Load(t)
           h == Head(peers)
<1>1. /\ t \in decoding /\ brr = Pushed(t) /\ fs = fk \cup {t} /\ e = ToRoom(d, Update(fs))
      /\ tracks' = {t}
      /\ \/ peers # <<>> /\ NextPeer(J, peers, pcs)
         \/ peers = <<>> /\ qcs = opc /\ ud = td
      /\ UNCHANGED <<page, members, room, guestPc, streams, early, misled, kept>>
  BY DEF onMp3FileLoad, NextPeer, owner, history
<1>2. /\ d \in Mails /\ Mailed(d, page) /\ fs \in SUBSET Tracks /\ J \in Loops
      /\ peers \in Seq(Guests) /\ opc \in [Guests -> {None} \cup PC]
      /\ td \in [Loops -> Seq(Guests) \cup {None}]
  BY <1>1, TalkFacts, JobFacts, Known
<1>3. ~Stored(arr, t)
  BY <1>1 DEF IInv, Files, Stored
<1>4. Stored(brr, t) /\ \A u \in Tracks : Stored(arr, u) => Stored(brr, u)
  <2>1. Grown /\ t \in brr[captured[J]] /\ captured[J] \in 1 .. Len(arr) /\ Len(arr) \in Nat
    BY <1>1, <1>2, Known, PushFacts
  <2>2. \A i \in 1 .. Len(arr) : i \in 1 .. Len(brr)
    BY <2>1 DEF Grown
  <2>3. QED
    BY <2>1, <2>2 DEF Stored, Grown
<1>5. /\ Stock(opc, td, tracks, arr) /\ Joined /\ Sees(opc, d, fk, arr)
      /\ Spent(opc, tracks, fk \cup kept)
  BY DEF Plays
<1>6. td[Drop(t)] = None /\ \A g \in Guests : Unheard(d[g], guestPc[g], t)
  BY <1>3, <1>5 DEF Stock, Sees, Watch
<1>7. ASSUME NEW g \in Guests
      PROVE  /\ pcs[g] = None <=> opc[g] = None
             /\ pcs[g] \in {None} \cup PC
             /\ \A u \in Tracks : u # t => Becomes(opc[g], pcs[g], u)
  <2> DEFINE oc == opc[g]
             qc == pcs[g]
  <2>1. CASE oc = None
    <3>1. qc = oc
      BY <2>1
    <3> HIDE DEF qc, oc
    <3>2. QED
      BY <2>1, <3>1, BecomesSame DEF qc, oc
  <2>2. CASE oc # None
    <3>1. oc \in PC /\ qc = addTrack(oc, t)
      BY <1>2, <2>2
    <3> HIDE DEF qc, oc
    <3>2. qc \in PC /\ qc # None /\ \A u \in Tracks : u # t => Becomes(oc, qc, u)
      BY <3>1, BecomesAdded, TrackFacts, NoneAssumption
    <3>3. QED
      BY <2>2, <3>2 DEF qc, oc
  <2>3. QED
    BY <2>1, <2>2
<1>8. pcs \in [Guests -> {None} \cup PC]
  <2>1. \A g \in Guests : pcs[g] \in {None} \cup PC
    BY <1>7
  <2>2. QED
    BY <2>1
<1>9. /\ peers # <<>> => h \in Guests /\ opc[h] # None
      /\ peers = <<>> => \A g \in Guests : opc[g] = None
  BY FirstPeer
<1> HIDE DEF opc, pcs, d, e, fk, fs, qcs, td, ud, arr, brr, h
<1>10. Sees(opc, e, fs, arr)
  <2>1. \A g \in Guests, u \in Tracks : \/ u \in fk <=> u \in fs
                                        \/ u \notin fs /\ Clean(opc[g], u)
                                        \/ Unheard(d[g], guestPc[g], u)
    BY <1>1, <1>6
  <2>2. QED
    BY <1>1, <1>2, <1>5, <2>1, SeesRoom
<1>11. Sees(pcs, e, fs, brr) /\ Sees(opc, e, fs, brr)
  <2>1. \A g \in Guests, u \in Tracks \ fs : Clean(opc[g], u) => Clean(pcs[g], u)
    BY <1>1, <1>7 DEF Becomes
  <2>2. \A g \in Guests : e[g] = e[g]
    OBVIOUS
  <2>3. \A g \in Guests, u \in Tracks \ fs : Clean(opc[g], u) => Clean(opc[g], u)
    OBVIOUS
  <2>4. Sees(pcs, e, fs, brr)
    BY <1>4, <1>10, <2>1, <2>2, SeesLess
  <2>5. Sees(opc, e, fs, brr)
    BY <1>4, <1>10, <2>2, <2>3, SeesLess
  <2>6. QED
    BY <2>4, <2>5
<1>12. Stock(pcs, td, {t}, brr)
  <2>1. ASSUME NEW u \in Tracks, ~Stored(brr, u)
        PROVE  u \notin {t} /\ td[Drop(u)] = None /\ \A g \in Guests : Clean(pcs[g], u)
    <3>1. u # t /\ ~Stored(arr, u)
      BY <1>4, <2>1
    <3>2. QED
      BY <1>5, <1>7, <3>1 DEF Stock, Becomes
  <2>2. ASSUME NEW u \in Tracks, td[Drop(u)] # None
        PROVE  /\ u \notin {t}
               /\ \A g \in Guests : Clean(pcs[g], u) \/ Going(pcs[g], u) \/ Awaited(td[Drop(u)], g)
    <3>1. u # t
      BY <1>6, <2>2
    <3>2. QED
      BY <1>5, <1>7, <2>2, <3>1 DEF Stock, Becomes
  <2>3. QED
    BY <2>1, <2>2 DEF Stock
<1>spent. Spent(pcs, {t}, fs \cup kept)
  BY <1>1, <1>5, <1>7 DEF Spent, Becomes
<1>13. CASE peers # <<>> /\ NextPeer(J, peers, pcs)
  <2>1. /\ ud = [td EXCEPT ![J] = Tail(peers)]
        /\ qcs = [pcs EXCEPT ![h] =
             Queue(IF J.kind = "drop" THEN removeTrack(@, J.track) ELSE @, "create", None, J)]
        /\ h = Head(peers) /\ h \in Guests /\ pcs[h] # None
    BY <1>7, <1>9, <1>13 DEF NextPeer, ud, td, qcs, h
  <2>2. Owed(J, peers, pcs, {t}, brr)
    BY JobFacts DEF Owed
  <2> HIDE DEF J
  <2>3. /\ Stock(qcs, ud, {t}, brr)
        /\ \A g \in Guests, u \in Tracks : Becomes(pcs[g], qcs[g], u)
    BY <1>2, <1>8, <1>12, <1>13, <2>1, <2>2, StockTaken
  <2>4. Sees(qcs, e, fs, brr)
    <3>1. \A g \in Guests, u \in Tracks \ fs : Clean(pcs[g], u) => Clean(qcs[g], u)
      BY <2>3 DEF Becomes
    <3>2. (\A g \in Guests : e[g] = e[g]) /\ \A u \in Tracks : Stored(brr, u) => Stored(brr, u)
      OBVIOUS
    <3>3. QED
      BY <1>11, <3>1, <3>2, SeesLess
  <2>5. Spent(qcs, {t}, fs \cup kept)
    <3> DEFINE gk == fs \cup kept
               tr == {t}
    <3>1. Spent(pcs, tr, gk) /\ (\A u \in tr : u \in tr) /\ \A u \in gk : u \in gk
      BY <1>spent
    <3> HIDE DEF gk, tr
    <3>2. Spent(qcs, tr, gk)
      BY <2>3, <3>1, SpentBecomes
    <3>3. QED
      BY <3>2 DEF gk, tr
  <2>6. QED
    BY <1>1, <2>3, <2>4, <2>5, PlaysOwner DEF qcs, ud, brr, e, fs
<1>14. CASE peers = <<>> /\ qcs = opc /\ ud = td
  <2>1. \A g \in Guests, u \in Tracks : Clean(opc[g], u)
    BY <1>9, <1>14 DEF Clean
  <2>2. Stock(opc, td, {t}, brr)
    BY <1>12, <2>1 DEF Stock
  <2>3. Spent(opc, {t}, fs \cup kept)
    BY <1>1, <1>5, <2>1 DEF Spent
  <2>4. QED
    BY <1>1, <1>11, <1>14, <2>2, <2>3, PlaysOwner DEF qcs, ud, brr, e, fs
<1>15. QED
  BY <1>1, <1>13, <1>14

LEMMA PlaysDrop ==
  ASSUME IInv, Talk, Plays, NEW t \in Tracks, dropClient(t)
  PROVE  Plays'
<1> DEFINE opc == ownerPc
           d == down
           e == down'
           fk == fakes
           fs == fakes'
           qcs == ownerPc'
           td == todo
           ud == todo'
           arr == arrays
           brr == arrays'
           J == Drop(t)
           h == Head(peers)
           tr == tracks \ {t}
<1>1. /\ t \in arr[fakeUsers] /\ brr = Append(arr, arr[fakeUsers] \ {t})
      /\ \/ /\ peers # <<>> /\ NextPeer(J, peers, opc) /\ tracks' = tr
            /\ fs = fk /\ e = d /\ kept' = kept
         \/ /\ peers = <<>> /\ fs = fk \ {t} /\ e = ToRoom(d, Update(fs))
            /\ qcs = opc /\ ud = td /\ tracks' = tracks /\ kept' = kept \cup {t}
      /\ UNCHANGED <<page, members, room, guestPc, streams, early, misled>>
  BY DEF dropClient, NextPeer, owner
<1>2. /\ d \in Mails /\ Mailed(d, page) /\ fk \in SUBSET Tracks /\ fs \in SUBSET Tracks
      /\ J \in Loops /\ peers \in Seq(Guests) /\ opc \in [Guests -> {None} \cup PC]
      /\ td \in [Loops -> Seq(Guests) \cup {None}]
  BY <1>1, TalkFacts, JobFacts, Known
<1>3. Stored(arr, t) /\ \A u \in Tracks : Stored(arr, u) => Stored(brr, u)
  <2> DEFINE S == SUBSET Tracks
             x == arr[fakeUsers] \ {t}
  <2>1. arr \in Seq(S) /\ fakeUsers \in 1 .. Len(arr)
    BY Known
  <2> HIDE DEF arr, brr
  <2>2. x \in S
    BY <2>1
  <2>3. brr = Append(arr, x)
    BY <1>1
  <2> HIDE DEF S, x
  <2>4. /\ Len(arr) \in Nat /\ Len(brr) = Len(arr) + 1
        /\ \A i \in 1 .. Len(arr) : brr[i] = arr[i]
    BY <2>1, <2>2, <2>3, AppendFacts
  <2>5. \A i \in 1 .. Len(arr) : i \in 1 .. Len(brr)
    BY <2>4
  <2>6. QED
    BY <1>1, <2>1, <2>4, <2>5 DEF Stored
<1>4. /\ Stock(opc, td, tracks, arr) /\ Joined /\ Sees(opc, d, fk, arr)
      /\ Spent(opc, tracks, fk \cup kept)
  BY DEF Plays
<1>5. /\ peers # <<>> => h \in Guests /\ opc[h] # None
      /\ \A g \in Guests : opc[g] # None => Awaited(peers, g)
      /\ peers = <<>> => \A g \in Guests : opc[g] = None
  BY FirstPeer
<1> HIDE DEF opc, d, e, fk, fs, qcs, td, ud, arr, brr, h
<1>6. Stock(opc, td, tracks, brr) /\ Stock(opc, td, tr, brr)
  <2>1. \A g \in Guests, u \in Tracks : Becomes(opc[g], opc[g], u)
    BY BecomesSame
  <2>2. (\A u \in tracks : u \in tracks) /\ \A u \in tr : u \in tracks
    OBVIOUS
  <2> HIDE DEF tr
  <2>3. Stock(opc, td, tracks, brr)
    BY <1>3, <1>4, <2>1, <2>2, StockBecomes
  <2>4. Stock(opc, td, tr, brr)
    BY <1>3, <1>4, <2>1, <2>2, StockBecomes
  <2>5. QED
    BY <2>3, <2>4
<1>7. t \notin tr /\ \A u \in tr : u \in tracks
  OBVIOUS
<1> HIDE DEF tr
<1>8. CASE /\ peers # <<>> /\ NextPeer(J, peers, opc) /\ tracks' = tr /\ fs = fk /\ e = d
           /\ kept' = kept
  <2>1. /\ ud = [td EXCEPT ![J] = Tail(peers)]
        /\ qcs = [opc EXCEPT ![h] =
             Queue(IF J.kind = "drop" THEN removeTrack(@, J.track) ELSE @, "create", None, J)]
        /\ h = Head(peers) /\ h \in Guests /\ opc[h] # None
    BY <1>5, <1>8 DEF NextPeer, ud, td, qcs, h
  <2>2. Owed(J, peers, opc, tr, brr)
    <3>1. ASSUME NEW u \in Tracks, J = Drop(u) PROVE u = t
      BY <3>1 DEF Drop
    <3>2. \A g \in Guests, u \in Tracks : Clean(opc[g], u) \/ Awaited(peers, g)
      BY <1>5 DEF Clean
    <3>3. QED
      BY <1>3, <1>7, <3>1, <3>2 DEF Owed
  <2> HIDE DEF J
  <2>3. /\ Stock(qcs, ud, tr, brr)
        /\ \A g \in Guests, u \in Tracks : Becomes(opc[g], qcs[g], u)
    BY <1>2, <1>6, <1>8, <2>1, <2>2, StockTaken
  <2>4. Sees(qcs, d, fk, brr)
    <3>1. \A g \in Guests, u \in Tracks \ fk : Clean(opc[g], u) => Clean(qcs[g], u)
      BY <2>3 DEF Becomes
    <3>2. \A g \in Guests : d[g] = d[g]
      OBVIOUS
    <3>3. QED
      BY <1>3, <1>4, <3>1, <3>2, SeesLess
  <2>5. Spent(qcs, tr, fk \cup kept)
    <3> DEFINE gk == fk \cup kept
    <3>1. Spent(opc, tracks, gk) /\ \A u \in gk : u \in gk
      BY <1>4
    <3> HIDE DEF gk
    <3>2. Spent(qcs, tr, gk)
      BY <1>7, <2>3, <3>1, SpentBecomes
    <3>3. QED
      BY <3>2 DEF gk
  <2>6. QED
    BY <1>1, <1>8, <2>3, <2>4, <2>5, PlaysOwner DEF qcs, ud, brr, e, fs
<1>9. CASE /\ peers = <<>> /\ fs = fk \ {t} /\ e = ToRoom(d, Update(fs))
           /\ qcs = opc /\ ud = td /\ tracks' = tracks /\ kept' = kept \cup {t}
  <2>1. \A g \in Guests : Clean(opc[g], t)
    BY <1>5, <1>9 DEF Clean
  <2>2. \A g \in Guests, u \in Tracks : \/ u \in fk <=> u \in fs
                                        \/ u \notin fs /\ Clean(opc[g], u)
                                        \/ Unheard(d[g], guestPc[g], u)
    BY <1>9, <2>1
  <2>3. Sees(opc, e, fs, arr)
    BY <1>2, <1>4, <1>9, <2>2, SeesRoom
  <2>4. /\ \A g \in Guests, u \in Tracks \ fs : Clean(opc[g], u) => Clean(opc[g], u)
        /\ \A g \in Guests : e[g] = e[g]
    OBVIOUS
  <2>5. Sees(opc, e, fs, brr)
    BY <1>3, <2>3, <2>4, SeesLess
  <2>6. Spent(opc, tracks, fs \cup kept')
    BY <1>4, <1>9 DEF Spent
  <2>7. QED
    BY <1>1, <1>6, <1>9, <2>5, <2>6, PlaysOwner DEF qcs, ud, brr, e, fs
<1>10. QED
  BY <1>1, <1>8, <1>9

-----------------------------------------------------------------------------
LEMMA PlaysFirst == Init => Plays
<1> SUFFICES ASSUME Init PROVE Plays
  OBVIOUS
<1>1. PICK settled \in SUBSET Settlers :
        /\ page = [p \in Pages |-> IF p \in {Owner} \cup settled THEN "open" ELSE "new"]
        /\ members = {Owner} \cup settled
        /\ down = [p \in Pages |-> <<>>]
        /\ room = [p \in Pages |-> IF p \in {Owner} \cup settled THEN Loaded ELSE None]
        /\ ownerPc = [g \in Guests |-> IF g \in settled THEN SettledPC(Loaded) ELSE None]
        /\ guestPc = [g \in Guests |-> IF g \in settled THEN SettledPC({}) ELSE None]
        /\ streams = [g \in Guests |-> IF g \in settled THEN Loaded ELSE {}]
  BY DEF Init
<1>2. /\ fakes = Loaded /\ tracks = Loaded /\ todo = [job \in Loops |-> None]
      /\ arrays = <<Loaded>> /\ kept = {}
  BY DEF Init
<1>3. settled \in SUBSET Guests /\ Loaded \in SUBSET Tracks
  BY <1>1, BoundsAssumption
<1>4. \A t \in Tracks : Stored(arrays, t) <=> t \in Loaded
  <2>1. Len(<<Loaded>>) = 1 /\ <<Loaded>>[1] = Loaded /\ \A i \in 1 .. 1 : i = 1
    OBVIOUS
  <2>2. QED
    BY <1>2, <2>1 DEF Stored
<1>5. Len(<<>>) = 0 /\ \A i \in 1 .. 0 : FALSE
  OBVIOUS
<1>6. ASSUME NEW g \in Guests
      PROVE  /\ g \in settled =>
                  /\ ownerPc[g] = SettledPC(Loaded) /\ guestPc[g] = SettledPC({})
                  /\ page[g] = "open" /\ room[g] = Loaded /\ streams[g] = Loaded
             /\ g \notin settled =>
                  /\ ownerPc[g] = None /\ guestPc[g] = None
                  /\ page[g] = "new" /\ room[g] = None /\ streams[g] = {}
             /\ down[g] = <<>>
  BY <1>1, <1>3, PageFacts
<1> DEFINE desc == [tracks |-> Loaded, lines |-> Loaded]
<1>7. \A sent \in SUBSET Tracks :
        /\ SettledPC(sent) # None /\ SettledPC(sent).chain = <<>> /\ SettledPC(sent).sending = sent
        /\ SettledPC(sent).local.tracks = Loaded /\ SettledPC(sent).remote = desc
  BY SettledFacts, SettledTalk
<1>8. desc # None /\ desc.tracks = Loaded
  BY <1>3, SettledTalk
<1> HIDE DEF desc
<1>9. ASSUME NEW g \in Guests, NEW t \in Tracks, t \notin Loaded PROVE Clean(ownerPc[g], t)
  BY <1>3, <1>5, <1>6, <1>7, <1>9 DEF Clean, Lacks
<1>10. Stock(ownerPc, todo, tracks, arrays)
  <2>1. \A t \in Tracks : todo[Drop(t)] = None
    BY <1>2, JobFacts
  <2>2. QED
    BY <1>2, <1>4, <1>9, <2>1 DEF Stock
<1>11. Joined
  BY <1>1, <1>6 DEF Joined, Open
<1>12. ASSUME NEW g \in Guests
       PROVE  Watch(ownerPc[g], down[g], room[g], guestPc[g], streams[g], fakes, early, page[g],
                    arrays, misled[g], g)
  <2>1. CASE g \notin settled
    <3>1. down[g] = <<>> /\ room[g] = None /\ guestPc[g] = None /\ streams[g] = {}
      BY <1>6, <2>1
    <3>2. QED
      BY <3>1, WatchAway
  <2>2. CASE g \in settled
    <3> DEFINE gp == guestPc[g]
    <3>1. /\ down[g] = <<>> /\ room[g] = Loaded /\ streams[g] = Loaded /\ page[g] = "open"
          /\ gp # None /\ gp.chain = <<>> /\ gp.remote = desc
      BY <1>6, <1>7, <2>2
    <3> HIDE DEF gp
    <3>2. \A t : Hears(gp, t) <=> t \in Loaded
      BY <1>8, <3>1 DEF Hears
    <3>3. \A t : ~Waiting(gp, t)
      BY <1>5, <3>1 DEF Waiting
    <3>4. \A t : Latest(<<>>, Loaded, t, Loaded)
      BY <1>5 DEF Latest, Before, Right
    <3>5. \A t : InTime(<<>>, Loaded, t, Loaded)
      BY <1>5 DEF InTime
    <3>6. \A t \in Tracks : Played(<<>>, Loaded, gp, Loaded, early, g, t, Loaded)
      BY <3>3, <3>5 DEF Played
    <3>7. \A t \in Tracks : t \notin Loaded => Unheard(<<>>, gp, t)
      BY <1>5, <3>2, <3>3 DEF Unheard
    <3>8. Watch(ownerPc[g], <<>>, Loaded, gp, Loaded, Loaded, early, "open", arrays, misled[g], g)
      BY <1>4, <3>2, <3>4, <3>6, <3>7 DEF Watch
    <3>9. QED
      BY <1>2, <3>1, <3>8 DEF gp
  <2>3. QED
    BY <2>1, <2>2
<1>13. Spent(ownerPc, tracks, fakes \cup kept)
  BY <1>2, <1>9 DEF Spent
<1>14. QED
  BY <1>10, <1>11, <1>12, <1>13 DEF Plays, Sees

LEMMA PlaysSteps == IInv /\ Notes /\ Talk /\ Plays /\ [Next]_vars => Plays'
<1> SUFFICES ASSUME IInv, Notes, Talk, Plays, [Next]_vars PROVE Plays'
  OBVIOUS
<1>1. CASE UNCHANGED vars
  BY <1>1, PlaysKept DEF vars, server, owner, files, history
<1>2. CASE Person
  <2>1. ASSUME NEW g \in Guests, Join(g) PROVE Plays'
    BY <2>1, PlaysJoin
  <2>2. ASSUME NEW t \in Tracks, ChooseFile(t) PROVE Plays'
    BY <2>2, PlaysKept DEF ChooseFile, server, owner
  <2>3. ASSUME NEW t \in Tracks, dropClient(t) PROVE Plays'
    BY <2>3, PlaysDrop
  <2>4. ASSUME NEW p \in Pages, Hangup(p) PROVE Plays'
    BY <2>4, PlaysGone DEF Hangup
  <2>5. ASSUME NEW p \in Pages, stopConference(p) PROVE Plays'
    BY <2>5, PlaysStop
  <2>6. QED
    BY <1>2, <2>1, <2>2, <2>3, <2>4, <2>5 DEF Person
<1>3. CASE Server
  BY <1>3, PlaysServer
<1>4. CASE OwnerRuns
  <2>1. CASE onStartPeerConnection
    BY <2>1, PlaysStart
  <2>2. CASE onAnswer
    BY <2>2, PlaysOfferAnswered
  <2>3. ASSUME NEW t \in Tracks, onMp3FileLoad(t) PROVE Plays'
    BY <2>3, PlaysLoad
  <2>4. ASSUME NEW g \in Guests, OfferMade(g) PROVE Plays'
    BY <2>4, PlaysOfferMade
  <2>5. ASSUME NEW g \in Guests, OfferApplied(g) PROVE Plays'
    BY <2>5, PlaysOfferApplied
  <2>6. ASSUME NEW g \in Guests, OfferRefused(g) PROVE Plays'
    BY <2>6, PlaysRefused
  <2>7. ASSUME NEW g \in Guests, AnswerApplied(g) PROVE Plays'
    BY <2>7, PlaysApplied
  <2>8. QED
    BY <1>4, <2>1, <2>2, <2>3, <2>4, <2>5, <2>6, <2>7 DEF OwnerRuns
<1>5. ASSUME NEW g \in Guests, GuestRuns(g) PROVE Plays'
  BY <1>5, PlaysOffer, PlaysTaken, PlaysAnswerMade, PlaysAnswerSent DEF GuestRuns
<1>6. ASSUME NEW p \in Pages, onUpdateRoom(p) PROVE Plays'
  <2>1. Head(down[p]).type = "update"
    BY <1>6 DEF onUpdateRoom, Gets
  <2>2. QED
    BY <1>6, <2>1, PlaysRest DEF onUpdateRoom, server, owner, files, history
<1>7. ASSUME NEW p \in Pages, onCandidate(p) PROVE Plays'
  <2>1. Head(down[p]).type # "update"
    BY <1>7 DEF onCandidate, Gets
  <2>2. QED
    BY <1>7, <2>1, PlaysRest DEF onCandidate, server, owner, files, history
<1>8. QED
  BY <1>1, <1>2, <1>3, <1>4, <1>5, <1>6, <1>7 DEF Next

\* Whatever joins, loads, drops and stops overlap, a guest plays exactly what it
\* is sent of the fake users of the room: the message about a fake user arrives
\* before its track is offered, and its track is not sent any more when the
\* message comes that it has gone.  Not so for a guest that was offered a track
\* before it had the room, nor for the files of which it was told in data of a
\* join or a leave that was out of date.
THEOREM GuestsPlayWhatIsSent == Spec => []PlaysWhatIsSent
<1>1. Spec => []Plays
  BY PlaysFirst, Invariance, TalkStays, PlaysSteps, PTL DEF Spec
<1>2. IInv /\ Talk /\ Plays /\ EndsAgree => PlaysWhatIsSent
  <2> SUFFICES ASSUME IInv, Talk, Plays, EndsAgree, NEW g \in Guests \ early, Settled(g)
               PROVE  streams[g] \ misled[g] =
                        (guestPc[g].remote.tracks \cap fakes) \ misled[g]
    BY DEF PlaysWhatIsSent
  <2> DEFINE oc == ownerPc[g]
             gp == guestPc[g]
             st == streams[g]
             s  == down[g]
             u  == down[Owner]
             pg == page[g]
             po == page[Owner]
             w  == misled[g]
  <2>1. oc # None /\ gp # None /\ gp.remote = oc.local /\ oc.chain = <<>>
    BY DEF EndsAgree, Settled
  <2>2. Watch(oc, s, room[g], gp, st, fakes, early, pg, arrays, w, g)
    BY DEF Plays, Sees
  <2>3. Talks(oc, gp, s, u, pg, po, stopped, g)
    BY TalkFacts
  <2>4. st \in SUBSET Tracks /\ fakes \in SUBSET Tracks
    BY DEF IInv, Typed, PeerTypes, ServerTypes, FileTypes, PageTypes
  <2> HIDE DEF oc, gp, st, s, u, pg, po, w
  <2>5. oc.local # None
    BY <2>1, <2>3, NothingWaits DEF Talks, Begun, ToOffer
  <2>6. \A t : Hears(gp, t) <=> t \in gp.remote.tracks
    BY <2>1, <2>5 DEF Hears
  <2>7. \A t \in st : t \in gp.remote.tracks
    BY <2>2, <2>6 DEF Watch
  <2>8. \A t \in Tracks \ w : t \in gp.remote.tracks => (t \in st <=> t \in fakes)
    BY <2>1, <2>2, <2>5, <2>6 DEF Watch, Clean, Played
  <2>9. st \ w = (gp.remote.tracks \cap fakes) \ w
    BY <2>4, <2>7, <2>8
  <2>10. QED
    BY <2>9 DEF gp, st, w
<1>3. QED
  BY <1>1, <1>2, Invariance, TalkStays, BothEndsAgree, PTL

\* When no load and no drop runs any more, every peer has been offered just what
\* it is sent, whatever cut a loop short; and a file that went from the room is
\* not among that: the drop that took it away had come to every peer of that
\* moment, and to those that joined meanwhile.
THEOREM ChangesAreOffered == Spec => []EveryChangeIsOffered
<1>1. Spec => []Plays
  BY PlaysFirst, Invariance, TalkStays, PlaysSteps, PTL DEF Spec
<1>2. IInv /\ Talk /\ Plays => EveryChangeIsOffered
  <2> SUFFICES ASSUME IInv, Talk, Plays, NEW g \in Guests, ownerPc[g] # None,
                      ownerPc[g].chain = <<>>, \A job \in Loops : todo[job] = None
               PROVE  /\ ownerPc[g].sending = ownerPc[g].local.tracks
                      /\ ownerPc[g].local.tracks \subseteq fakes \cup kept
    BY DEF EveryChangeIsOffered
  <2> DEFINE oc == ownerPc[g]
             fk == fakes \cup kept
  <2>1. oc.sending = oc.local.tracks
    BY SendsWhatItOffered
  <2>2. oc \in PC
    BY TalkFacts
  <2>3. \A t \in Tracks \ fk : Clean(oc, t)
    BY DEF Plays, Spent
  <2>4. oc # None
    OBVIOUS
  <2> HIDE DEF oc, fk
  <2>5. oc.sending \in SUBSET Tracks
    BY <2>2 DEF PC
  <2>6. oc.sending \subseteq fk
    BY <2>3, <2>4, <2>5 DEF Clean
  <2>7. QED
    BY <2>1, <2>6 DEF oc, fk
<1>3. QED
  BY <1>1, <1>2, Invariance, TalkStays, PTL
=============================================================================
