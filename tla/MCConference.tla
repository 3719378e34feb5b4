---------------------------- MODULE MCConference ----------------------------
(* The instance of Conference for TLC. *)
EXTENDS Conference, TLC

Symmetry == Permutations(Settlers) \cup Permutations(Tracks \ Loaded)

\* Bound: two acts, and a third one where there is one guest, which is a load or
\* a drop.
OneGuest ==
  /\ Len(peers) = 1
  /\ \A g \in Guests : page[g] = IF g = peers[1] THEN "open" ELSE "new"
MayAct  == acts < 2 \/ (OneGuest /\ stopped = {} /\ Open(Owner))
FewActs == IF MayAct THEN TRUE ELSE UNCHANGED acts
OfFiles == acts = 2 /\ acts' = 3 => UNCHANGED <<page, stopped>>

\* The other guests come last: this loses nothing, for guests are alike.
InTurn == \A g \in Guests \ Settlers :
            page[g] = "new" /\ page'[g] # "new" => \A h \in Settlers : page[h] # "new"

\* Bound: of the writes of a loop one is late, whichever it is, while a load or
\* a drop may still change the fake users or the guest it is for has no room.
Crowded == Guests \subseteq members
Late    == {w \in unsent : /\ ~Crowded /\ w.to \in Guests /\ Open(w.to)
                           /\ \/ acts < 2 \/ room[w.to] = None
                              \/ decoding # {} \/ \E job \in Loops : todo[job] # None}

\* Bound: where all three guests are in the room no write is late, and those who
\* were connected first answer an offer at once.
Hurried == {g \in Settlers : Crowded /\ guestPc[g] # None /\ guestPc[g].chain # <<>>}

MCNext ==
  IF Cardinality(unsent) > 1 \/ unsent # Late
  THEN UNCHANGED acts /\ \E w \in unsent : SendUpdate(w)
  ELSE IF Hurried # {}
  THEN UNCHANGED acts /\ \E g \in Hurried : OfferTaken(g) \/ AnswerMade(g) \/ AnswerSent(g)
  ELSE FewActs /\ Next /\ OfFiles /\ InTurn

MCSpec == Init /\ [][MCNext]_vars
=============================================================================
