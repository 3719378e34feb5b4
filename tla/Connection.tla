----------------------------- MODULE Connection -----------------------------
(***************************************************************************)
(* The sending half of a page's websocket: Connection of                   *)
(* static/src/connection.js.                                               *)
(*                                                                         *)
(* A page is single-threaded: each step is one task of its event loop.     *)
(* Messages handed to send() before the socket is open wait in a queue     *)
(* that a timer flushes.  The timer calls send() without an argument, and  *)
(* when the socket is still not open that `undefined' is queued like any   *)
(* message, to be written later as an empty frame.                         *)
(*                                                                         *)
(* A message is its number in the order of the calls of send(); Undefined  *)
(* is the argument of the timer.                                           *)
(***************************************************************************)
EXTENDS Integers, Sequences

CONSTANTS
  MaxMessages,  \* bound: messages the page sends
  MaxTimeouts   \* bound: times the timer runs out before the socket opens

ASSUME BoundsAssumption == MaxMessages \in Nat /\ MaxTimeouts \in Nat

VARIABLES
  readyState,    \* of the socket; "closed" stands for CLOSING and CLOSED
  messageQueue,  \* Connection.messageQueue
  timeouts,      \* timers started and not yet run out or cleared
  wire,          \* the frames written while the socket was open
  sent,          \* messages handed to send() so far
  early          \* times the timer has run out before the socket opened

vars == <<readyState, messageQueue, timeouts, wire, sent, early>>

Undefined == 0
Message   == 1 .. sent
Entry     == Message \cup {Undefined}

\* At most one timer runs: send() clears the one it started before.
TypeOK ==
  /\ readyState \in {"connecting", "open", "closed"}
  /\ messageQueue \in Seq(Entry)
  /\ timeouts \in 0 .. 1
  /\ wire \in Seq(Entry)
  /\ sent \in 0 .. MaxMessages
  /\ early \in 0 .. MaxTimeouts

\* Store.init calls connect() before it sends anything.
Init ==
  /\ readyState = "connecting"
  /\ messageQueue = <<>>
  /\ timeouts = 0
  /\ wire = <<>>
  /\ sent = 0
  /\ early = 0

\* push(): the socket writes a frame when it is open and discards it silently
\* when it is closing or closed.
push(entries) == wire' = IF readyState = "open" THEN wire \o entries ELSE wire

Argument(message) == IF message = Undefined THEN <<>> ELSE <<message>>

\* readyState is 1, 2 or 3: the queue first, then the message if there is one.
\* Slip: the message first.
SendMessageFirst(message) ==
  /\ push(Argument(message) \o messageQueue)
  /\ messageQueue' = <<>>

SendNow(message) ==
  /\ push(messageQueue \o Argument(message))
  /\ messageQueue' = <<>>

\* readyState is 0: the message is queued and the timer started anew.  `running'
\* is the number of timers that have not run out.
\* Slips: only the last message is kept; clearTimeout is forgotten; the timer is
\* started for messages alone.
EnqueueLast(message, running) ==
  /\ messageQueue' = <<message>>
  /\ timeouts' = 1

EnqueueNoClear(message, running) ==
  /\ messageQueue' = Append(messageQueue, message)
  /\ timeouts' = running + 1

EnqueueOnce(message, running) ==
  /\ messageQueue' = Append(messageQueue, message)
  /\ timeouts' = IF message = Undefined THEN running ELSE 1

Enqueue(message, running) ==
  /\ messageQueue' = Append(messageQueue, message)
  /\ timeouts' = 1

send(message, running) ==
  \/ /\ readyState # "connecting"
     /\ SendNow(message)
     /\ timeouts' = running
  \/ /\ readyState = "connecting"
     /\ Enqueue(message, running)
     /\ UNCHANGED wire

\* The store sends a message.
Send ==
  /\ sent < MaxMessages
  /\ sent' = sent + 1
  /\ send(sent', timeouts)
  /\ UNCHANGED <<readyState, early>>

\* The timer runs out: setTimeout(this.send, CONNECT_TIMEOUT).
Timeout ==
  /\ timeouts > 0
  /\ readyState = "connecting" => early < MaxTimeouts
  /\ early' = IF readyState = "connecting" THEN early + 1 ELSE early
  /\ send(Undefined, timeouts - 1)
  /\ UNCHANGED <<readyState, sent>>

\* Environment: the handshake succeeds; the socket closes, or never opened.
Open ==
  /\ readyState = "connecting"
  /\ readyState' = "open"
  /\ UNCHANGED <<messageQueue, timeouts, wire, sent, early>>

Close ==
  /\ readyState # "closed"
  /\ readyState' = "closed"
  /\ UNCHANGED <<messageQueue, timeouts, wire, sent, early>>

Next == Send \/ Timeout \/ Open \/ Close

Spec == Init /\ [][Next]_vars

\* The browser runs a timer that is due, and an attempt to connect ends.  An open
\* socket may stay open for ever.
Settled == Open \/ (readyState = "connecting" /\ Close)

FairSpec == Spec /\ WF_vars(Timeout) /\ WF_vars(Settled)

-----------------------------------------------------------------------------
Elements(s) == {s[i] : i \in 1 .. Len(s)}

Increasing(s) ==
  \A i, j \in 1 .. Len(s) :
    i < j /\ s[i] # Undefined /\ s[j] # Undefined => s[i] < s[j]

\* Frames are written in the order the store sent the messages and none is
\* written twice, whether a message waited in the queue or not: a JOIN_ROOM that
\* waits for the socket stays ahead of what is sent once it is open.
InOrder == Increasing(wire)

\* Seen from the page the connection is a channel: nothing that was queued is
\* skipped, and what the server is sent is always everything up to some message.
Link == INSTANCE Channel
  WITH accepted <- sent,
       delivered <- Elements(wire) \ {Undefined},
       cut <- readyState = "closed"

IsAChannel == Link!Spec

\* A message that had to wait is written without anything else being sent: the
\* timer is always running while the queue is not empty.  Only a socket that
\* closes leaves messages unwritten.
QueueIsFlushed ==
  \A m \in 1 .. MaxMessages :
    m \in Elements(messageQueue) ~> m \in Elements(wire) \/ readyState = "closed"
=============================================================================
