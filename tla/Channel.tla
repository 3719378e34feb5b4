------------------------------ MODULE Channel ------------------------------
(***************************************************************************)
(* What a page may expect of its websocket: messages arrive in the order   *)
(* they were sent, each once and none left out, until the channel is cut;  *)
(* what has not arrived by then never does.  A message is its number in    *)
(* the order of sending, so what has arrived is always 1 .. n.             *)
(***************************************************************************)
EXTENDS Naturals

VARIABLES
  accepted,   \* number of messages handed to the channel
  delivered,  \* the messages that came out at the other end
  cut         \* TRUE when the channel is gone

vars == <<accepted, delivered, cut>>

Init ==
  /\ accepted = 0
  /\ delivered = {}
  /\ cut = FALSE

Accept ==
  /\ accepted' = accepted + 1
  /\ UNCHANGED <<delivered, cut>>

\* Several messages at once, the one just accepted perhaps among them.
Deliver ==
  /\ ~cut
  /\ accepted' \in {accepted, accepted + 1}
  /\ \E n \in 0 .. accepted' : delivered \subseteq 1 .. n /\ delivered' = 1 .. n
  /\ UNCHANGED cut

Cut ==
  /\ cut' = TRUE
  /\ UNCHANGED <<accepted, delivered>>

Next == Accept \/ Deliver \/ Cut

Spec == Init /\ [][Next]_vars
=============================================================================
