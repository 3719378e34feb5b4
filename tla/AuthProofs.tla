----------------------------- MODULE AuthProofs -----------------------------
(***************************************************************************)
(* Theorems about Auth, for any number of tabs, accounts and logins and any *)
(* lifetime of tokens.  The steps are summarised once (Served, Clicked),    *)
(* and the inductive invariant IInv is proved from the summaries.           *)
(***************************************************************************)
EXTENDS Auth, TLAPS

\* A token that says nothing false.
Honest(token) ==
  /\ token.kind = "session" => token.user \in proved \cup {Blank}
  /\ token.kind = "handshake" => token.state \in drawn
  /\ token.exp <= now + Lifetime

InFlight(t) == step[t] \in {"sent", "answered"}

\* A request for a login carries an account the person proved.
Asked ==
  \A t \in Tabs :
    /\ request[t].to = "local" =>
         request[t].user \in Users /\ (request[t].typed => request[t].user \in proved)
    /\ request[t].to = "callback" => request[t].user \in proved \cup {None}

\* What the answers to the requests of a tab may hold.
Told ==
  \A t \in Tabs : step[t] = "answered" =>
    /\ request[t].to = "user" =>
         /\ ~answer[t].sets
         /\ answer[t].status = "ok" =>
              IsSession(request[t].token) /\ answer[t].user = request[t].token.user
    /\ request[t].to \notin {"callback", "local"} => ~IsSession(answer[t].token)
    /\ request[t].to = "logout" => answer[t].sets

\* After a logout nothing that is under way brings a session back.
Gone == signedOut => ~IsSession(cookie) /\ \A t \in Tabs : ~MaySignIn(t)

\* Nothing of the document before is left when a page asks who its user is.
Alone ==
  \A t \in Tabs : InFlight(t) /\ request[t].to = "user" =>
                   socket[t] = NoCall /\ rooms[t] = NoCall

IsOf(token, user) == IsSession(token) /\ token.user = user

\* A page that is loading, or has loaded, undisturbed by the other tabs.
Settled(t) ==
  ~stirred[t] =>
    /\ InFlight(t) /\ request[t].to = "user" => request[t].token = cookie
    /\ step[t] = "home" =>
         /\ IsOf(cookie, page[t])
         /\ socket[t].at = "sent" => IsOf(socket[t].token, page[t])
         /\ socket[t].reply.status = "ok" => socket[t].reply.user = page[t]
         /\ rooms[t].at = "sent" => IsOf(rooms[t].token, page[t])
         /\ rooms[t].reply.sets => IsOf(rooms[t].reply.token, page[t])

Shown == \A t \in Tabs : Settled(t)

IInv == TypeOK /\ SessionIsEarned /\ Asked /\ Told /\ Gone /\ Alone /\ Shown

-----------------------------------------------------------------------------
(* Tokens and answers *)

LEMMA EarnedIsHonest ==
  SessionIsEarned <=>
    /\ cookie # None => Honest(cookie)
    /\ \A t \in Tabs : /\ request[t].token # None => Honest(request[t].token)
                       /\ answer[t].token # None => Honest(answer[t].token)
                       /\ socket[t].token # None => Honest(socket[t].token)
                       /\ rooms[t].token # None => Honest(rooms[t].token)
                       /\ rooms[t].reply.token # None => Honest(rooms[t].reply.token)
BY DEF SessionIsEarned, Tokens, Honest

\* The tokens the server makes are well formed.
LEMMA SessionType ==
  ASSUME TypeOK, NEW user \in Accounts
  PROVE  /\ Session(user) \in Token
         /\ Session(user) # None
         /\ Session(user).user = user /\ IsSession(Session(user))
         /\ user \in proved \cup {Blank} => Honest(Session(user))
<1>1. now + Lifetime \in Nat /\ now + Lifetime <= now + Lifetime
  BY TimeAssumption DEF TypeOK
<1>2. Session(user) \in Token
  BY <1>1 DEF Session, Token
<1>3. Session(user) # None
  BY <1>2, NoneAssumption
<1> QED
  BY <1>1, <1>2, <1>3 DEF Session, IsSession, Honest

LEMMA HandshakeType ==
  ASSUME TypeOK, NEW state \in States
  PROVE  /\ Handshake(state) \in Token
         /\ Handshake(state) # None
         /\ Handshake(state).kind = "handshake" /\ Handshake(state).state = state
         /\ Handshake(state).exp = now + Lifetime
         /\ ~IsSession(Handshake(state))
<1>1. now + Lifetime \in Nat
  BY TimeAssumption DEF TypeOK
<1>2. Handshake(state) \in Token
  BY <1>1 DEF Handshake, Token
<1> QED
  BY <1>2, NoneAssumption DEF Handshake, IsSession

LEMMA ReplyType ==
  ASSUME NEW status \in {"ok", "denied", "nothing", "dead"}
  PROVE  /\ Reply(status) \in Answer
         /\ Reply(status).sets = FALSE /\ Reply(status).token = None
         /\ Reply(status).status = status
         /\ Clean(Reply(status)) \in Answer
         /\ Clean(Reply(status)).token = None /\ Clean(Reply(status)).sets
         /\ Clean(Reply(status)).status = status
         /\ \A token \in Token :
              /\ Setting(Reply(status), token) \in Answer
              /\ Setting(Reply(status), token).token = token
              /\ Setting(Reply(status), token).status = status
         /\ \A user \in Accounts :
              /\ [Reply(status) EXCEPT !.user = user] \in Answer
              /\ [Reply(status) EXCEPT !.user = user].sets = FALSE
              /\ [Reply(status) EXCEPT !.user = user].token = None
              /\ [Reply(status) EXCEPT !.user = user].user = user
              /\ [Reply(status) EXCEPT !.user = user].status = status
BY DEF Reply, Clean, Setting, Answer

\* The stages of a call.
LEMMA CallType ==
  /\ NoCall \in Call /\ NoCall.at = "none" /\ NoCall.token = None
  /\ NoCall.reply.status = "nothing" /\ NoCall.reply.token = None /\ ~NoCall.reply.sets
  /\ \A token \in Token \cup {None} :
       /\ Sent(token) \in Call /\ Sent(token).at = "sent" /\ Sent(token).token = token
       /\ Sent(token).reply = NoCall.reply
  /\ \A reply \in Answer :
       /\ Answered(reply) \in Call /\ Answered(reply).at = "answered"
       /\ Answered(reply).token = None /\ Answered(reply).reply = reply
<1>1. Reply("nothing") \in Answer
  BY ReplyType
<1>2. NoCall \in Call
  BY <1>1 DEF NoCall, Call
<1>3. /\ NoCall.at = "none" /\ NoCall.token = None
      /\ NoCall.reply.status = "nothing" /\ NoCall.reply.token = None /\ ~NoCall.reply.sets
  BY ReplyType DEF NoCall
<1>4. ASSUME NEW token \in Token \cup {None}
      PROVE  /\ Sent(token) \in Call /\ Sent(token).at = "sent" /\ Sent(token).token = token
             /\ Sent(token).reply = NoCall.reply
  BY <1>1 DEF Sent, NoCall, Call
<1>5. ASSUME NEW reply \in Answer
      PROVE  /\ Answered(reply) \in Call /\ Answered(reply).at = "answered"
             /\ Answered(reply).token = None /\ Answered(reply).reply = reply
  BY <1>1 DEF Answered, NoCall, Call
<1> QED
  BY <1>2, <1>3, <1>4, <1>5

\* What the answer to the request of tab t may hold when it is made.
Proper(t, reply) ==
  /\ request[t].to = "user" =>
       /\ ~reply.sets
       /\ reply.status = "ok" =>
            IsSession(request[t].token) /\ reply.user = request[t].token.user
  /\ request[t].to \notin {"callback", "local"} => ~IsSession(reply.token)
  /\ request[t].to = "logout" => reply.sets

\* Every handler makes a proper answer, the tokens of which are honest.
LEMMA Served ==
  ASSUME IInv, NEW t \in Tabs, ServePage(t)
  PROVE  /\ step[t] = "sent"
         /\ \E reply \in Answer : /\ Answers(t, reply)
                                  /\ Proper(t, reply)
                                  /\ reply.token # None => Honest(reply.token)'
         /\ UNCHANGED <<now, cookie, clicks, history>>
         /\ drawn \subseteq drawn' /\ drawn' \subseteq States
<1> USE DEF IInv
<1>1. CASE loginHandler(t)
  <2>1. PICK state \in States \ drawn :
          /\ drawn' = drawn \cup {state}
          /\ Answers(t, Setting([Reply("ok") EXCEPT !.state = state], Handshake(state)))
    BY <1>1 DEF loginHandler
  <2>2. PICK reply \in Answer : reply = Setting([Reply("ok") EXCEPT !.state = state],
                                               Handshake(state))
    BY HandshakeType DEF Reply, Setting, Answer
  <2>3. reply.token = Handshake(state)
    BY <2>2 DEF Reply, Setting
  <2>4. Proper(t, reply)
    BY <1>1, <2>3, HandshakeType DEF loginHandler, Handles, Proper
  <2>5. Honest(reply.token)'
    <3>1. now' = now /\ state \in drawn' /\ now + Lifetime <= now + Lifetime
      BY <1>1, <2>1, TimeAssumption DEF loginHandler, TypeOK
    <3> QED
      BY <2>3, <3>1, HandshakeType DEF Honest
  <2>6. step[t] = "sent" /\ UNCHANGED <<now, cookie, clicks, history>>
    BY <1>1 DEF loginHandler, Handles
  <2>7. drawn \subseteq drawn' /\ drawn' \subseteq States
    BY <2>1 DEF TypeOK
  <2> QED
    BY <2>1, <2>2, <2>4, <2>5, <2>6, <2>7
<1>2. ASSUME UNCHANGED <<world, history>>, NEW reply \in Answer, Answers(t, reply),
             step[t] = "sent", Proper(t, reply), reply.token # None => Honest(reply.token)
      PROVE  /\ step[t] = "sent"
             /\ \E re \in Answer : /\ Answers(t, re)
                                   /\ Proper(t, re)
                                   /\ re.token # None => Honest(re.token)'
             /\ UNCHANGED <<now, cookie, clicks, history>>
             /\ drawn \subseteq drawn' /\ drawn' \subseteq States
  BY <1>2 DEF world, history, Honest, TypeOK
<1>3. CASE authHandler(t)
  <2>1. /\ Handles(t, "callback")
        /\ UNCHANGED <<world, history>>
    BY <1>3 DEF authHandler
  <2>2. step[t] = "sent" /\ request[t].to = "callback"
    BY <2>1 DEF Handles
  <2>3. CASE Answers(t, Reply("denied")) \/ Answers(t, Reply("nothing"))
    BY <1>2, <2>1, <2>2, <2>3, ReplyType DEF Proper
  <2>4. CASE \E profile \in Profile(request[t].user) :
               Answers(t, IF profile.status = "ok"
                          THEN Setting(Reply("ok"), Session(profile.user))
                          ELSE Reply(profile.status))
    <3>1. PICK profile \in Profile(request[t].user) :
               Answers(t, IF profile.status = "ok"
                          THEN Setting(Reply("ok"), Session(profile.user))
                          ELSE Reply(profile.status))
      BY <2>4
    <3>2. request[t].user \in proved \cup {None} /\ proved \subseteq Users
      BY <2>2 DEF Asked, TypeOK
    <3>3. \/ profile.status = "ok" /\ profile.user \in proved \cup {Blank}
          \/ profile.status \in {"dead", "nothing"}
      BY <3>1, <3>2 DEF Profile
    <3>4. CASE profile.status = "ok"
      <4>1. Answers(t, Setting(Reply("ok"), Session(profile.user)))
        BY <3>1, <3>4
      <4>2. profile.user \in Accounts /\ profile.user \in proved \cup {Blank}
        BY <3>2, <3>3, <3>4 DEF Accounts
      <4>3. /\ Session(profile.user) \in Token
            /\ Honest(Session(profile.user))
        BY <4>2, SessionType
      <4>4. /\ Setting(Reply("ok"), Session(profile.user)) \in Answer
            /\ Setting(Reply("ok"), Session(profile.user)).token = Session(profile.user)
        BY <4>3, ReplyType
      <4>5. Proper(t, Setting(Reply("ok"), Session(profile.user)))
        BY <2>2 DEF Proper
      <4> QED
        BY <1>2, <2>1, <2>2, <4>1, <4>3, <4>4, <4>5
    <3>5. CASE profile.status \in {"dead", "nothing"}
      <4>1. Answers(t, Reply(profile.status))
        BY <3>1, <3>5
      <4> QED
        BY <1>2, <2>1, <2>2, <3>5, <4>1, ReplyType DEF Proper
    <3> QED
      BY <3>3, <3>4, <3>5
  <2> QED
    BY <1>3, <2>3, <2>4 DEF authHandler
<1>4. CASE localLogin(t)
  <2>1. step[t] = "sent" /\ request[t].to = "local" /\ UNCHANGED <<world, history>>
    BY <1>4 DEF localLogin, Handles
  <2>2. CASE request[t].typed
    <3>1. Answers(t, Setting(Reply("ok"), Session(request[t].user)))
      BY <1>4, <2>2 DEF localLogin
    <3>2. request[t].user \in Accounts /\ request[t].user \in proved \cup {Blank}
      BY <2>1, <2>2 DEF Asked, Accounts
    <3>3. Session(request[t].user) \in Token /\ Honest(Session(request[t].user))
      BY <3>2, SessionType
    <3>4. /\ Setting(Reply("ok"), Session(request[t].user)) \in Answer
          /\ Setting(Reply("ok"), Session(request[t].user)).token = Session(request[t].user)
      BY <3>3, ReplyType
    <3>5. Proper(t, Setting(Reply("ok"), Session(request[t].user)))
      BY <2>1 DEF Proper
    <3> QED
      BY <1>2, <2>1, <3>1, <3>3, <3>4, <3>5
  <2>3. CASE ~request[t].typed
    <3>1. Answers(t, Reply("denied"))
      BY <1>4, <2>3 DEF localLogin
    <3> QED
      BY <1>2, <2>1, <3>1, ReplyType DEF Proper
  <2> QED
    BY <2>2, <2>3
<1>5. CASE logoutHandler(t)
  <2>1. /\ step[t] = "sent" /\ request[t].to = "logout" /\ UNCHANGED <<world, history>>
        /\ Answers(t, Clean(Reply("ok")))
    BY <1>5 DEF logoutHandler, Handles
  <2> QED
    BY <1>2, <2>1, ReplyType DEF Proper, IsSession
<1>6. ASSUME NEW user \in Accounts, step[t] = "sent", UNCHANGED <<world, history>>,
             request[t].to = "user",
             IsSession(request[t].token), user = request[t].token.user,
             Answers(t, [Reply("ok") EXCEPT !.user = user])
      PROVE  /\ step[t] = "sent"
             /\ \E re \in Answer : /\ Answers(t, re)
                                   /\ Proper(t, re)
                                   /\ re.token # None => Honest(re.token)'
             /\ UNCHANGED <<now, cookie, clicks, history>>
             /\ drawn \subseteq drawn' /\ drawn' \subseteq States
  <2>1. Proper(t, [Reply("ok") EXCEPT !.user = user])
    BY <1>6, ReplyType DEF Proper, IsSession
  <2> QED
    BY <1>2, <1>6, <2>1, ReplyType
<1>7. request[t].token \in Token \cup {None}
  BY DEF TypeOK, Request
<1>8. IsSession(request[t].token) => request[t].token.user \in Accounts
  BY <1>7 DEF IsSession, Token
<1>9. CASE userHandler(t)
  <2>1. step[t] = "sent" /\ request[t].to = "user" /\ UNCHANGED <<world, history>>
    BY <1>9 DEF userHandler, Handles
  <2>2. \/ Answers(t, Reply("denied")) \/ Answers(t, Reply("dead"))
        \/ /\ request[t].token # None /\ ~IsHandshake(request[t].token)
           /\ Answers(t, [Reply("ok") EXCEPT !.user = request[t].token.user])
    BY <1>9 DEF userHandler
  <2>3. request[t].token # None /\ ~IsHandshake(request[t].token) => IsSession(request[t].token)
    BY <1>7 DEF IsSession, IsHandshake, Token
  <2>4. CASE Answers(t, Reply("denied")) \/ Answers(t, Reply("dead"))
    BY <1>2, <2>1, <2>4, ReplyType DEF Proper, IsSession
  <2> QED
    BY <1>6, <1>8, <2>1, <2>2, <2>3, <2>4
<1> QED
  BY <1>1, <1>3, <1>4, <1>5, <1>9 DEF ServePage

\* Every click that leaves a page for a handler sends a request that was asked for.
LEMMA Clicked ==
  ASSUME IInv, NEW t \in Tabs, Person(t), ~Abandon(t), ~Visit(t)
  PROVE  /\ ~InFlight(t)
         /\ \E r \in Request : /\ Navigate(t, r)
                               /\ r.to \in {"login", "local", "logout", "callback"}
                               /\ r.to = "local" => r.user \in Users /\ (r.typed => r.user \in proved')
                               /\ r.to = "callback" => r.user \in proved' \cup {None}
                               /\ signedOut' => signedOut /\ r.to \notin {"callback", "local"}
         /\ clicks' \in 0 .. MaxClicks
         /\ proved \subseteq proved' /\ proved' \subseteq Users
         /\ signedOut' \in BOOLEAN
<1> USE DEF IInv
<1>1. Click => clicks' \in 0 .. MaxClicks
  BY TimeAssumption DEF Click, TypeOK
<1>3. CASE Login(t)
  <2>1. [NoRequest EXCEPT !.to = "login"] \in Request
    BY DEF NoRequest, Request, Paths
  <2>2. [NoRequest EXCEPT !.to = "login"].to = "login"
    BY DEF NoRequest
  <2> QED
    BY <1>1, <1>3, <2>1, <2>2 DEF Login, InFlight, TypeOK
<1>4. CASE Logout(t)
  <2>1. [NoRequest EXCEPT !.to = "logout"] \in Request
    BY DEF NoRequest, Request, Paths
  <2>2. [NoRequest EXCEPT !.to = "logout"].to = "logout"
    BY DEF NoRequest
  <2> QED
    BY <1>1, <1>4, <2>1, <2>2 DEF Logout, InFlight, TypeOK
<1>5. CASE LoginLocally(t)
  <2>1. PICK user \in Users, typed \in BOOLEAN :
          /\ Navigate(t, [NoRequest EXCEPT !.to = "local", !.user = user, !.typed = typed])
          /\ proved' = IF typed THEN proved \cup {user} ELSE proved
    BY <1>5 DEF LoginLocally
  <2>2. PICK r \in Request :
          r = [NoRequest EXCEPT !.to = "local", !.user = user, !.typed = typed]
    BY DEF NoRequest, Request, Paths
  <2>3. r.to = "local" /\ r.user = user /\ r.typed = typed
    BY <2>2 DEF NoRequest
  <2>4. step[t] = "login" /\ Click /\ signedOut' = FALSE
    BY <1>5 DEF LoginLocally
  <2>5. Navigate(t, r)
    BY <2>1, <2>2
  <2>6. /\ proved \subseteq proved' /\ proved' \subseteq Users
        /\ r.typed => r.user \in proved'
    BY <2>1, <2>3 DEF TypeOK
  <2> QED
    BY <1>1, <2>3, <2>4, <2>5, <2>6 DEF InFlight
<1>6. CASE Return(t)
  <2>1. PICK user \in Users \cup {None} :
          /\ Navigate(t, [NoRequest EXCEPT !.to = "callback", !.user = user,
                                           !.state = answer[t].state])
          /\ proved' = IF user = None THEN proved ELSE proved \cup {user}
    BY <1>6 DEF Return
  <2>2. answer[t].state \in States \cup {None}
    BY DEF TypeOK, Answer
  <2>3. PICK r \in Request :
          r = [NoRequest EXCEPT !.to = "callback", !.user = user, !.state = answer[t].state]
    BY <2>2 DEF NoRequest, Request, Paths
  <2>4. r.to = "callback" /\ r.user = user
    BY <2>3 DEF NoRequest
  <2>5. step[t] = "provider" /\ Click /\ signedOut' = FALSE
    BY <1>6 DEF Return
  <2>6. Navigate(t, r)
    BY <2>1, <2>3
  <2>7. /\ proved \subseteq proved' /\ proved' \subseteq Users
        /\ r.user \in proved' \cup {None}
    BY <2>1, <2>4 DEF TypeOK
  <2> QED
    BY <1>1, <2>4, <2>5, <2>6, <2>7 DEF InFlight
<1>7. CASE Again(t)
  <2>1. request[t] \in Request
    BY DEF TypeOK
  <2> QED
    BY <1>1, <1>7, <2>1 DEF Again, InFlight, TypeOK, Asked
<1> QED
  BY <1>3, <1>4, <1>5, <1>6, <1>7 DEF Person

-----------------------------------------------------------------------------
(* IInv holds initially and is preserved by every step. *)

LEMMA IInvInit == Init => IInv
<1> SUFFICES ASSUME Init PROVE IInv
  OBVIOUS
<1>1. /\ NoRequest \in Request /\ NoRequest.to = None /\ NoRequest.token = None
      /\ Reply("nothing") \in Answer /\ Reply("nothing").token = None
  BY ReplyType DEF NoRequest, Request
<1>2. TypeOK
  <2>1. now \in 0 .. MaxTime /\ clicks \in 0 .. MaxClicks
    BY TimeAssumption DEF Init
  <2>2. step \in [Tabs -> {"empty", "login", "home", "provider", "sent", "answered", "loading"}]
    BY DEF Init
  <2>3. request \in [Tabs -> Request] /\ answer \in [Tabs -> Answer]
    BY <1>1 DEF Init
  <2>4. /\ page \in [Tabs -> Accounts \cup {None}]
        /\ socket \in [Tabs -> Call] /\ rooms \in [Tabs -> Call]
    BY CallType DEF Init
  <2>5. stirred \in [Tabs -> BOOLEAN] /\ signedOut \in BOOLEAN
    BY DEF Init
  <2> QED
    BY <2>1, <2>2, <2>3, <2>4, <2>5 DEF Init, TypeOK
<1>3. SessionIsEarned
  BY <1>1, CallType, EarnedIsHonest DEF Init
<1>4. None \notin Paths
  BY NoneAssumption
<1>5. Asked
  BY <1>1, <1>4 DEF Init, Asked, Paths
<1>6. Told /\ Gone /\ Alone /\ Shown
  BY DEF Init, Told, Gone, Alone, Shown, Settled, InFlight
<1> QED
  BY <1>2, <1>3, <1>5, <1>6 DEF IInv

\* Tokens stay honest while the clock goes on and more is proved and drawn.
LEMMA HonestStays ==
  ASSUME TypeOK, now' \in Nat, now <= now', proved \subseteq proved', drawn \subseteq drawn',
         NEW token \in Token, Honest(token)
  PROVE  Honest(token)'
<1>1. token.exp \in Nat
  BY DEF Token
<1> QED
  BY <1>1, TimeAssumption DEF Honest, TypeOK

\* The tokens there are after a step.
KeepsTo(S) == Tokens' \subseteq S

\* SessionIsEarned when no token but old ones and an honest one is left.
LEMMA EarnedWith ==
  ASSUME IInv, now' \in Nat, now <= now', proved \subseteq proved', drawn \subseteq drawn',
         NEW fresh \in Token \cup {None}, fresh # None => Honest(fresh)',
         KeepsTo({None, fresh} \cup Tokens)
  PROVE  SessionIsEarned'
<1> USE DEF IInv
<1>1. ASSUME NEW token \in Tokens, token # None
      PROVE  token \in Token /\ Honest(token)
  <2>1. Honest(token)
    BY <1>1 DEF SessionIsEarned, Honest
  <2>2. Tokens \subseteq Token \cup {None}
    BY DEF Tokens, TypeOK, Request, Answer, Call
  <2> QED
    BY <1>1, <2>1, <2>2
<1>2. \A token \in Token : Honest(token) => Honest(token)'
  BY HonestStays
<1>3. \A token \in {None, fresh} \cup Tokens : token # None => Honest(token)'
  BY <1>1, <1>2
<1>4. \A token \in Tokens' : token # None => Honest(token)'
  BY <1>3 DEF KeepsTo
<1> QED
  BY <1>4 DEF SessionIsEarned, Honest

LEMMA EarnedStays ==
  ASSUME IInv, now' \in Nat, now <= now', proved \subseteq proved', drawn \subseteq drawn',
         LET old == {None} \cup Tokens
         IN /\ cookie' \in old
            /\ \A t \in Tabs : /\ request'[t].token \in old /\ answer'[t].token \in old
                               /\ socket'[t].token \in old /\ rooms'[t].token \in old
                               /\ rooms'[t].reply.token \in old
  PROVE  SessionIsEarned'
<1>1. KeepsTo({None, None} \cup Tokens)
  BY DEF KeepsTo, Tokens
<1> QED
  BY <1>1, EarnedWith

LEMMA ServePageStep == ASSUME IInv, NEW t \in Tabs, ServePage(t) PROVE IInv'
<1> USE DEF IInv
<1>1. /\ step[t] = "sent"
      /\ UNCHANGED <<now, cookie, clicks, history>>
      /\ drawn \subseteq drawn' /\ drawn' \subseteq States
  BY Served
<1>2. PICK reply \in Answer : /\ Answers(t, reply)
                              /\ Proper(t, reply)
                              /\ reply.token # None => Honest(reply.token)'
  BY Served
<1>3. /\ answer' = [answer EXCEPT ![t] = reply]
      /\ step' = [step EXCEPT ![t] = "answered"]
      /\ UNCHANGED <<request, page, socket, rooms>>
  BY <1>2 DEF Answers, behind
<1>4. /\ \A d \in Tabs \ {t} : step'[d] = step[d] /\ answer'[d] = answer[d]
      /\ step'[t] = "answered" /\ answer'[t] = reply
      /\ now' = now /\ now \in Nat /\ signedOut' = signedOut /\ stirred' = stirred
      /\ proved' = proved
  BY <1>1, <1>3 DEF TypeOK, history
<1>5. TypeOK'
  BY <1>1, <1>3, <1>4 DEF TypeOK
<1>6. SessionIsEarned'
  <2>1. reply.token \in Token \cup {None}
    BY DEF Answer
  <2>2. /\ \A d \in Tabs : answer'[d].token \in {None, reply.token} \cup Tokens
        /\ \A d \in Tabs : request'[d] = request[d]
    BY <1>3, <1>4 DEF Tokens
  <2>3. KeepsTo({None, reply.token} \cup Tokens)
    BY <1>1, <1>3, <2>2 DEF KeepsTo, Tokens
  <2> QED
    BY <1>1, <1>2, <1>4, <2>1, <2>3, EarnedWith
<1>7. Asked'
  BY <1>3, <1>4 DEF Asked
<1>8. Told'
  BY <1>2, <1>3, <1>4 DEF Told, Proper, IsSession
<1>9. Gone'
  <2>1. signedOut => request[t].to \notin {"callback", "local"}
    BY <1>1 DEF Gone, MaySignIn
  <2> QED
    BY <1>1, <1>2, <1>3, <1>4, <2>1 DEF Gone, MaySignIn, Proper, IsSession
<1>10. Alone' /\ Shown'
  BY <1>1, <1>3, <1>4 DEF Alone, Shown, Settled, InFlight, IsOf, IsSession
<1> QED
  BY <1>5, <1>6, <1>7, <1>8, <1>9, <1>10

\* What ValidateToken and the middleware make of a token.
LEMMA CallServed ==
  ASSUME IInv, NEW t \in Tabs
  PROVE  /\ ValidateToken(t) => \E reply \in Answer :
              /\ socket' = [socket EXCEPT ![t] = Answered(reply)]
              /\ reply.token = None
              /\ reply.status = "ok" => IsOf(socket[t].token, reply.user)
         /\ getRooms(t) => \E reply \in Answer :
              /\ rooms' = [rooms EXCEPT ![t] = Answered(reply)]
              /\ reply.token # None => Honest(reply.token)
              /\ IsSession(reply.token) => IsSession(rooms[t].token)
              /\ reply.sets => \A user : IsOf(rooms[t].token, user) => IsOf(reply.token, user)
<1> USE DEF IInv
<1>1. socket[t].token \in Token \cup {None} /\ rooms[t].token \in Token \cup {None}
  BY DEF TypeOK, Call
<1>2. ASSUME ValidateToken(t)
      PROVE  \E reply \in Answer :
              /\ socket' = [socket EXCEPT ![t] = Answered(reply)]
              /\ reply.token = None
              /\ reply.status = "ok" => IsOf(socket[t].token, reply.user)
  <2> DEFINE token == socket[t].token
  <2>1. CASE IsSession(token) /\ ~IsExpired(token)
    <3>1. socket' = [socket EXCEPT ![t] = Answered([Reply("ok") EXCEPT !.user = token.user])]
      BY <1>2, <2>1 DEF ValidateToken
    <3>2. token.user \in Accounts
      BY <1>1, <2>1 DEF IsSession, Token
    <3>3. /\ [Reply("ok") EXCEPT !.user = token.user] \in Answer
          /\ [Reply("ok") EXCEPT !.user = token.user].token = None
          /\ [Reply("ok") EXCEPT !.user = token.user].user = token.user
      BY <3>2, ReplyType
    <3> QED
      BY <2>1, <3>1, <3>3 DEF IsOf
  <2>2. CASE ~(IsSession(token) /\ ~IsExpired(token))
    <3>1. socket' = [socket EXCEPT ![t] = Answered(Reply("dead"))]
      BY <1>2, <2>2 DEF ValidateToken
    <3> QED
      BY <3>1, ReplyType
  <2> QED
    BY <2>1, <2>2
<1>3. ASSUME getRooms(t)
      PROVE  \E reply \in Answer :
              /\ rooms' = [rooms EXCEPT ![t] = Answered(reply)]
              /\ reply.token # None => Honest(reply.token)
              /\ IsSession(reply.token) => IsSession(rooms[t].token)
              /\ reply.sets => \A user : IsOf(rooms[t].token, user) => IsOf(reply.token, user)
  <2> DEFINE token == rooms[t].token
             fresh == Session(token.user)
  <2>1. CASE IsSession(token) /\ IsExpired(token)
    <3>1. rooms' = [rooms EXCEPT ![t] = Answered(refreshExpiredToken(token))]
      BY <1>3, <2>1 DEF getRooms
    <3>2. token # None /\ token.kind = "session" /\ token.user \in Accounts
      BY <1>1, <2>1 DEF IsSession, Token
    <3>3. token.user \in proved \cup {Blank}
      BY <3>2, EarnedIsHonest DEF Honest
    <3>4. /\ fresh \in Token /\ Honest(fresh) /\ IsSession(fresh)
          /\ fresh.user = token.user
      BY <3>2, <3>3, SessionType
    <3>5. /\ refreshExpiredToken(token) \in Answer
          /\ refreshExpiredToken(token).token = fresh
      BY <3>4, ReplyType DEF refreshExpiredToken
    <3> QED
      BY <2>1, <3>1, <3>4, <3>5 DEF IsOf
  <2>2. CASE ~(IsSession(token) /\ IsExpired(token))
    <3>1. PICK status \in {"denied", "ok"} :
             rooms' = [rooms EXCEPT ![t] = Answered(Reply(status))]
      BY <1>3, <2>2 DEF getRooms
    <3>2. Reply(status) \in Answer /\ ~Reply(status).sets /\ Reply(status).token = None
      <4>1. status \in {"ok", "denied", "nothing", "dead"}
        OBVIOUS
      <4> QED
        BY <4>1, ReplyType
    <3>3. ~IsSession(Reply(status).token)
      BY <3>2 DEF IsSession
    <3> QED
      BY <3>1, <3>2, <3>3
  <2> QED
    BY <2>1, <2>2
<1> QED
  BY <1>2, <1>3

LEMMA ValidateStep == ASSUME IInv, NEW t \in Tabs, ValidateToken(t) PROVE IInv'
<1> USE DEF IInv
<1>1. PICK reply \in Answer :
        /\ socket' = [socket EXCEPT ![t] = Answered(reply)]
        /\ reply.token = None
        /\ reply.status = "ok" => IsOf(socket[t].token, reply.user)
  BY CallServed
<1>2. /\ socket[t].at = "sent"
      /\ UNCHANGED <<now, cookie, drawn, clicks, step, request, answer, page, rooms,
                     proved, stirred, signedOut>>
  BY DEF ValidateToken, world, history
<1>3. /\ Answered(reply) \in Call /\ Answered(reply).at = "answered"
      /\ Answered(reply).token = None /\ Answered(reply).reply = reply
  BY CallType
<1>4. /\ \A d \in Tabs \ {t} : socket'[d] = socket[d]
      /\ socket'[t] = Answered(reply)
  BY <1>1 DEF TypeOK
<1>5. TypeOK'
  BY <1>1, <1>2, <1>3 DEF TypeOK
<1>6. SessionIsEarned'
  BY <1>2, <1>3, <1>4, EarnedStays DEF Tokens, TypeOK
<1>7. Asked' /\ Told' /\ Gone'
  BY <1>2 DEF Asked, Told, Gone, MaySignIn, IsSession
<1>8. Alone'
  BY <1>2, <1>4, CallType DEF Alone, InFlight
<1>9. Shown'
  BY <1>1, <1>2, <1>3, <1>4 DEF Shown, Settled, InFlight, IsOf, IsSession
<1> QED
  BY <1>5, <1>6, <1>7, <1>8, <1>9

LEMMA RoomsStep == ASSUME IInv, NEW t \in Tabs, getRooms(t) PROVE IInv'
<1> USE DEF IInv
<1>1. PICK reply \in Answer :
        /\ rooms' = [rooms EXCEPT ![t] = Answered(reply)]
        /\ reply.token # None => Honest(reply.token)
        /\ IsSession(reply.token) => IsSession(rooms[t].token)
        /\ reply.sets => \A user : IsOf(rooms[t].token, user) => IsOf(reply.token, user)
  BY CallServed
<1>2. /\ rooms[t].at = "sent"
      /\ UNCHANGED <<now, cookie, drawn, clicks, step, request, answer, page, socket,
                     proved, stirred, signedOut>>
  BY DEF getRooms, world, history
<1>3. /\ Answered(reply) \in Call /\ Answered(reply).at = "answered"
      /\ Answered(reply).token = None /\ Answered(reply).reply = reply
  BY CallType
<1>4. /\ \A d \in Tabs \ {t} : rooms'[d] = rooms[d]
      /\ rooms'[t] = Answered(reply)
  BY <1>1 DEF TypeOK
<1>5. TypeOK'
  BY <1>1, <1>2, <1>3 DEF TypeOK
<1>6. SessionIsEarned'
  <2>1. reply.token \in Token \cup {None}
    BY DEF Answer
  <2>2. reply.token # None => Honest(reply.token)'
    BY <1>1, <1>2 DEF Honest
  <2>3. \A d \in Tabs : /\ rooms'[d].token \in {None} \cup Tokens
                        /\ rooms'[d].reply.token \in {None, reply.token} \cup Tokens
    BY <1>3, <1>4 DEF Tokens
  <2>4. KeepsTo({None, reply.token} \cup Tokens)
    BY <1>2, <2>3 DEF KeepsTo, Tokens
  <2>5. now' \in Nat /\ now <= now' /\ proved \subseteq proved' /\ drawn \subseteq drawn'
    BY <1>2 DEF TypeOK
  <2> QED
    BY <2>1, <2>2, <2>4, <2>5, EarnedWith
<1>7. Asked' /\ Told'
  BY <1>2 DEF Asked, Told, IsSession
<1>8. Gone'
  BY <1>1, <1>2, <1>3, <1>4 DEF Gone, MaySignIn, IsSession
<1>9. Alone'
  BY <1>2, <1>4, CallType DEF Alone, InFlight
<1>10. Shown'
  BY <1>1, <1>2, <1>3, <1>4 DEF Shown, Settled, InFlight, IsOf, IsSession
<1> QED
  BY <1>5, <1>6, <1>7, <1>8, <1>9, <1>10

LEMMA ServeStep == ASSUME IInv, NEW t \in Tabs, Serve(t) PROVE IInv'
BY ServePageStep, ValidateStep, RoomsStep DEF Serve

\* The person leaves a page for another.
LEMMA LeaveStep ==
  ASSUME IInv, NEW t \in Tabs, NEW q \in Request, NEW what \in {"sent", "loading"},
         Leave(t, q), step' = [step EXCEPT ![t] = what], q.token \in {None, cookie},
         q.to \in {"index", "login", "local", "logout", "callback"},
         q.to = "local" => q.user \in Users /\ (q.typed => q.user \in proved'),
         q.to = "callback" => q.user \in proved' \cup {None},
         signedOut' => signedOut /\ q.to \notin {"callback", "local"},
         clicks' \in 0 .. MaxClicks, proved \subseteq proved', proved' \subseteq Users,
         signedOut' \in BOOLEAN
  PROVE  IInv'
<1> USE DEF IInv
<1>1. /\ request' = [request EXCEPT ![t] = q]
      /\ page' = [page EXCEPT ![t] = None]
      /\ stirred' = [stirred EXCEPT ![t] = FALSE]
      /\ UNCHANGED <<answer, socket, rooms, now, cookie, drawn>>
  BY DEF Leave, behind
<1>2. /\ \A d \in Tabs \ {t} : /\ step'[d] = step[d] /\ request'[d] = request[d]
                               /\ page'[d] = page[d] /\ stirred'[d] = stirred[d]
      /\ step'[t] = what /\ request'[t] = q
  BY <1>1 DEF TypeOK
<1>3. TypeOK'
  BY <1>1 DEF TypeOK
<1>4. SessionIsEarned'
  BY <1>1, <1>2, EarnedStays DEF Tokens, TypeOK
<1>5. Asked'
  BY <1>2 DEF Asked
<1>6. Told'
  BY <1>1, <1>2 DEF Told, IsSession
<1>7. Gone'
  BY <1>1, <1>2 DEF Gone, MaySignIn, IsSession
<1>8. Alone' /\ Shown'
  BY <1>1, <1>2 DEF Alone, Shown, Settled, InFlight, IsOf, IsSession
<1> QED
  BY <1>3, <1>4, <1>5, <1>6, <1>7, <1>8

LEMMA PersonStep == ASSUME IInv, NEW t \in Tabs, Person(t) PROVE IInv'
<1>1. CASE Abandon(t)
  <2> USE DEF IInv
  <2>1. /\ step' = [step EXCEPT ![t] = "empty"]
        /\ request' = [request EXCEPT ![t] = NoRequest]
        /\ UNCHANGED <<now, cookie, drawn, answer, page, socket, rooms, proved, stirred,
                       signedOut>>
        /\ clicks < MaxClicks /\ clicks' = clicks + 1
    BY <1>1 DEF Abandon, Click, behind, history
  <2>2. /\ NoRequest \in Request /\ NoRequest.to = None /\ NoRequest.token = None
        /\ None \notin Paths
    BY NoneAssumption DEF NoRequest, Request
  <2>3. /\ \A d \in Tabs \ {t} : step'[d] = step[d] /\ request'[d] = request[d]
        /\ step'[t] = "empty" /\ request'[t] = NoRequest
    BY <2>1 DEF TypeOK
  <2>4. TypeOK'
    BY <2>1, <2>2, TimeAssumption DEF TypeOK
  <2>5. SessionIsEarned'
    BY <2>1, <2>2, <2>3, EarnedStays DEF TypeOK, Tokens
  <2>6. Asked'
    BY <2>1, <2>2, <2>3 DEF Asked, Paths
  <2>7. Told' /\ Gone' /\ Alone' /\ Shown'
    BY <2>1, <2>3 DEF Told, Gone, MaySignIn, Alone, Shown, Settled, InFlight, IsOf, IsSession
  <2> QED
    BY <2>4, <2>5, <2>6, <2>7
<1>2. CASE Visit(t)
  <2> DEFINE q == [NoRequest EXCEPT !.to = "index"]
  <2>1. q \in Request /\ q.to = "index" /\ q.token = None
    <3>1. q \in Request
      BY DEF NoRequest, Request, Paths
    <3>2. q.to = "index" /\ q.token = None
      BY DEF NoRequest
    <3> QED
      BY <3>1, <3>2
  <2> HIDE DEF q
  <2>2. /\ Leave(t, q) /\ step' = [step EXCEPT ![t] = "loading"]
        /\ clicks' \in 0 .. MaxClicks /\ proved' = proved /\ signedOut' = signedOut
    BY <1>2, TimeAssumption DEF q, Visit, Click, IInv, TypeOK
  <2>3. proved \subseteq Users /\ signedOut \in BOOLEAN
    BY DEF IInv, TypeOK
  <2> QED
    BY <2>1, <2>2, <2>3, LeaveStep
<1>3. CASE ~Abandon(t) /\ ~Visit(t)
  <2>1. PICK r \in Request : /\ Navigate(t, r)
                             /\ r.to \in {"login", "local", "logout", "callback"}
                             /\ r.to = "local" => r.user \in Users /\ (r.typed => r.user \in proved')
                             /\ r.to = "callback" => r.user \in proved' \cup {None}
                             /\ signedOut' => signedOut /\ r.to \notin {"callback", "local"}
    BY <1>3, Clicked
  <2>2. /\ clicks' \in 0 .. MaxClicks
        /\ proved \subseteq proved' /\ proved' \subseteq Users /\ signedOut' \in BOOLEAN
    BY <1>3, Clicked
  <2>3. PICK q \in Request : /\ q = [r EXCEPT !.token = cookie]
                             /\ q.to = r.to /\ q.user = r.user /\ q.typed = r.typed
                             /\ q.token = cookie
    <3>1. cookie \in Token \cup {None}
      BY DEF IInv, TypeOK
    <3>2. [r EXCEPT !.token = cookie] \in Request
      BY <3>1 DEF Request
    <3>3. /\ [r EXCEPT !.token = cookie].to = r.to
          /\ [r EXCEPT !.token = cookie].user = r.user
          /\ [r EXCEPT !.token = cookie].typed = r.typed
          /\ [r EXCEPT !.token = cookie].token = cookie
      BY DEF Request
    <3> QED
      BY <3>2, <3>3
  <2>4. Leave(t, q) /\ step' = [step EXCEPT ![t] = "sent"]
    BY <2>1, <2>3 DEF Navigate
  <2> QED
    BY <2>1, <2>2, <2>3, <2>4, LeaveStep
<1> QED
  BY <1>1, <1>2, <1>3

\* A step that only takes calls away and shows another page, or none, in tab t.
LEMMA CutStep ==
  ASSUME IInv, NEW t \in Tabs, UNCHANGED <<world, history, request, answer>>,
         NEW what \in {step[t], "login", "empty"}, step' = [step EXCEPT ![t] = what],
         NEW seen \in {page[t], None}, page' = [page EXCEPT ![t] = seen],
         seen = page[t] \/ what # "home",
         NEW ws \in {socket[t], NoCall}, socket' = [socket EXCEPT ![t] = ws],
         NEW rs \in {rooms[t], NoCall}, rooms' = [rooms EXCEPT ![t] = rs]
  PROVE  IInv'
<1> USE DEF IInv
<1>1. UNCHANGED <<now, cookie, drawn, clicks, proved, stirred, signedOut>>
  BY DEF world, history
<1>2. /\ \A d \in Tabs \ {t} : /\ step'[d] = step[d] /\ page'[d] = page[d]
                               /\ socket'[d] = socket[d] /\ rooms'[d] = rooms[d]
      /\ step'[t] = what /\ page'[t] = seen /\ socket'[t] = ws /\ rooms'[t] = rs
  BY DEF TypeOK
<1>3. TypeOK'
  BY <1>1, CallType DEF TypeOK
<1>4. SessionIsEarned'
  BY <1>1, <1>2, CallType, EarnedStays DEF TypeOK, Tokens
<1>5. Asked'
  BY <1>1 DEF Asked
<1>6. Told'
  BY <1>2 DEF Told, IsSession
<1>7. Gone'
  BY <1>1, <1>2, CallType DEF Gone, MaySignIn, IsSession
<1>8. Alone'
  BY <1>2 DEF Alone, InFlight
<1>9. Shown'
  <2>1. ASSUME NEW d \in Tabs, d # t PROVE Settled(d)'
    BY <1>1, <1>2, <2>1 DEF Shown, Settled, InFlight, IsOf, IsSession
  <2>2. Settled(t)'
    BY <1>1, <1>2, CallType DEF Shown, Settled, InFlight, IsOf, IsSession
  <2> QED
    BY <2>1, <2>2 DEF Shown
<1> QED
  BY <1>3, <1>4, <1>5, <1>6, <1>7, <1>8, <1>9

LEMMA ClosesStep == ASSUME IInv, NEW t \in Tabs, Closes(t) PROVE IInv'
<1>1. /\ UNCHANGED <<world, history, request, answer>> /\ rooms' = rooms
      /\ socket' = [socket EXCEPT ![t] = NoCall] /\ page' = [page EXCEPT ![t] = None]
      /\ step' = IF step[t] = "home" THEN [step EXCEPT ![t] = "login"] ELSE step
  BY DEF Closes
<1>2. rooms' = [rooms EXCEPT ![t] = rooms[t]] /\ step = [step EXCEPT ![t] = step[t]]
  BY <1>1 DEF IInv, TypeOK
<1>3. CASE step[t] = "home"
  BY <1>1, <1>2, <1>3, CutStep
<1>4. CASE step[t] # "home"
  <2>1. step' = [step EXCEPT ![t] = step[t]]
    BY <1>1, <1>2, <1>4
  <2> QED
    BY <1>1, <1>2, <1>4, <2>1, CutStep
<1> QED
  BY <1>3, <1>4

LEMMA LoseStep == ASSUME IInv, NEW t \in Tabs, Losses(t) PROVE IInv'
<1>1. /\ page = [page EXCEPT ![t] = page[t]] /\ step = [step EXCEPT ![t] = step[t]]
      /\ socket = [socket EXCEPT ![t] = socket[t]] /\ rooms = [rooms EXCEPT ![t] = rooms[t]]
  BY DEF IInv, TypeOK
<1>2. CASE Lose(t)
  <2>1. CASE step[t] # "loading" /\ request[t].to = "user"
    <3>1. /\ UNCHANGED <<world, history, request, answer, page, socket, rooms>>
          /\ step' = [step EXCEPT ![t] = "login"]
      BY <1>2, <2>1 DEF Lose, behind
    <3> QED
      BY <1>1, <3>1, CutStep
  <2>2. CASE ~(step[t] # "loading" /\ request[t].to = "user")
    <3>1. /\ UNCHANGED <<world, history, request, answer, page>>
          /\ step' = [step EXCEPT ![t] = "empty"]
          /\ socket' = [socket EXCEPT ![t] = NoCall] /\ rooms' = [rooms EXCEPT ![t] = NoCall]
      BY <1>2, <2>2 DEF Lose, Shows, Ends
    <3> QED
      BY <1>1, <3>1, CutStep
  <2> QED
    BY <2>1, <2>2
<1>3. CASE LoseSocket(t)
  BY <1>3, ClosesStep DEF LoseSocket
<1>4. CASE LoseRooms(t)
  <2>1. /\ UNCHANGED <<world, history, request, answer, page, step, socket>>
        /\ rooms' = [rooms EXCEPT ![t] = NoCall]
    BY <1>4 DEF LoseRooms
  <2> QED
    BY <1>1, <2>1, CutStep
<1> QED
  BY <1>2, <1>3, <1>4 DEF Losses

LEMMA RestartStep == ASSUME IInv, Restart PROVE IInv'
<1> USE DEF IInv
<1>1. /\ NoRequest \in Request /\ NoRequest.to = None /\ NoRequest.token = None
      /\ Reply("nothing") \in Answer /\ Reply("nothing").token = None
  BY ReplyType DEF NoRequest, Request
<1>2. /\ cookie' = None /\ now' = now /\ drawn' = drawn /\ proved' = proved
      /\ signedOut' = signedOut
      /\ step' = [t \in Tabs |-> "empty"]
      /\ request' = [t \in Tabs |-> NoRequest]
      /\ answer' = [t \in Tabs |-> Reply("nothing")]
      /\ page' = [t \in Tabs |-> None]
      /\ socket' = [t \in Tabs |-> NoCall]
      /\ rooms' = [t \in Tabs |-> NoCall]
      /\ stirred' = [t \in Tabs |-> FALSE]
  BY DEF Restart
<1>3. TypeOK'
  <2>1. clicks' \in 0 .. MaxClicks
    BY TimeAssumption DEF Restart, Click, TypeOK
  <2>2. /\ socket' \in [Tabs -> Call] /\ rooms' \in [Tabs -> Call]
        /\ stirred' \in [Tabs -> BOOLEAN]
    BY <1>2, CallType
  <2>3. /\ step' \in [Tabs -> {"empty", "login", "home", "provider", "sent", "answered", "loading"}]
        /\ request' \in [Tabs -> Request]
        /\ answer' \in [Tabs -> Answer]
        /\ page' \in [Tabs -> Accounts \cup {None}]
    BY <1>1, <1>2
  <2> QED
    BY <1>2, <2>1, <2>2, <2>3 DEF TypeOK
<1>4. SessionIsEarned'
  BY <1>1, <1>2, CallType DEF SessionIsEarned, Tokens
<1>5. Asked'
  <2>1. None \notin Paths
    BY NoneAssumption
  <2> QED
    BY <1>1, <1>2, <2>1 DEF Asked, Paths
<1>6. Told' /\ Alone' /\ Shown'
  BY <1>2 DEF Told, Alone, Shown, Settled, InFlight
<1>7. Gone'
  BY <1>2, CallType DEF Gone, MaySignIn, IsSession
<1> QED
  BY <1>3, <1>4, <1>5, <1>6, <1>7

LEMMA TickStep == ASSUME IInv, Tick PROVE IInv'
<1> USE DEF IInv
<1>1. TypeOK'
  BY TimeAssumption DEF Tick, TypeOK, tab, behind, history
<1>2. SessionIsEarned'
  <2>1. /\ now' = now + 1 /\ now \in Nat
        /\ UNCHANGED <<cookie, drawn, proved, request, answer, socket, rooms>>
    BY DEF Tick, TypeOK, tab, behind, history
  <2> QED
    BY <2>1, EarnedStays DEF Tokens
<1>3. Asked' /\ Told' /\ Gone' /\ Alone' /\ Shown'
  BY DEF Tick, Asked, Told, Gone, MaySignIn, Alone, Shown, Settled, InFlight, IsOf,
         IsSession, tab, behind, history
<1> QED
  BY <1>1, <1>2, <1>3

\* What arrives is what the cookie held or the reply brought; only a reply that
\* sets the cookie changes it, and then the other tabs are stirred.
LEMMA JarType ==
  ASSUME TypeOK, NEW t \in Tabs, NEW reply \in Answer, Stirs(t, reply), cookie' = Jar(reply)
  PROVE  /\ cookie' \in Token \cup {None} /\ cookie' \in {cookie, reply.token}
         /\ ~reply.sets => cookie' = cookie
         /\ reply.sets => cookie' = reply.token
         /\ stirred' \in [Tabs -> BOOLEAN]
         /\ \A d \in Tabs : ~stirred'[d] => ~stirred[d]
         /\ \A d \in Tabs \ {t} : ~stirred'[d] => cookie' = cookie
BY DEF Jar, Stirs, TypeOK, Answer

\* An answer that leaves the page behind arrives in tab t.
LEMMA TurnStep ==
  ASSUME IInv, NEW t \in Tabs, step[t] = "answered",
         request[t].to \in {"login", "callback", "local", "logout"},
         cookie' = Jar(answer[t]), Stirs(t, answer[t]),
         UNCHANGED <<now, drawn, clicks, proved>>,
         Redirects(t) \/ Shows(t),
         signedOut' \in BOOLEAN,
         signedOut' => \/ signedOut
                       \/ request[t].to = "logout" /\ \A d \in Tabs : ~MaySignIn(d)
  PROVE  IInv'
<1> USE DEF IInv
<1>1. PICK what \in {"empty", "loading"}, ws \in {socket[t], NoCall}, rs \in {rooms[t], NoCall} :
        /\ step' = [step EXCEPT ![t] = what]
        /\ socket' = [socket EXCEPT ![t] = ws]
        /\ rooms' = [rooms EXCEPT ![t] = rs]
        /\ UNCHANGED <<request, answer, page>>
  <2>1. socket = [socket EXCEPT ![t] = socket[t]] /\ rooms = [rooms EXCEPT ![t] = rooms[t]]
    BY DEF TypeOK
  <2> QED
    BY <2>1 DEF Redirects, Shows, Ends, behind
<1>2. /\ \A d \in Tabs \ {t} : /\ step'[d] = step[d]
                               /\ socket'[d] = socket[d] /\ rooms'[d] = rooms[d]
      /\ step'[t] = what /\ socket'[t] = ws /\ rooms'[t] = rs
  BY <1>1 DEF TypeOK
<1>3. answer[t] \in Answer
  BY DEF TypeOK
<1>4. /\ cookie' \in Token \cup {None} /\ cookie' \in {cookie, answer[t].token}
      /\ ~answer[t].sets => cookie' = cookie
      /\ answer[t].sets => cookie' = answer[t].token
      /\ stirred' \in [Tabs -> BOOLEAN]
      /\ \A d \in Tabs : ~stirred'[d] => ~stirred[d]
      /\ \A d \in Tabs \ {t} : ~stirred'[d] => cookie' = cookie
  BY <1>3, JarType
<1>5. TypeOK'
  BY <1>1, <1>4, CallType DEF TypeOK
<1>6. SessionIsEarned'
  BY <1>1, <1>2, <1>4, CallType, EarnedStays DEF TypeOK, Tokens
<1>7. Asked'
  BY <1>1 DEF Asked
<1>8. Told'
  BY <1>1, <1>2 DEF Told, IsSession
<1>9. Gone'
  <2> SUFFICES ASSUME signedOut' PROVE ~IsSession(cookie') /\ \A d \in Tabs : ~MaySignIn(d)'
    BY DEF Gone, IsSession, MaySignIn
  <2>1. \A d \in Tabs : ~MaySignIn(d)
    BY DEF Gone
  <2>2. ~IsSession(answer[t].token)
    BY <2>1 DEF MaySignIn
  <2>3. ~IsSession(cookie')
    <3>1. CASE signedOut
      BY <1>4, <2>2, <3>1 DEF Gone
    <3>2. CASE request[t].to = "logout"
      BY <1>4, <2>2, <3>2 DEF Told
    <3> QED
      BY <3>1, <3>2
  <2>4. \A d \in Tabs : ~MaySignIn(d)'
    BY <1>1, <1>2, <2>1, CallType DEF MaySignIn, IsSession
  <2> QED
    BY <2>3, <2>4
<1>10. Alone'
  BY <1>1, <1>2 DEF Alone, InFlight
<1>11. Shown'
  BY <1>1, <1>2, <1>4 DEF Shown, Settled, InFlight, IsOf, IsSession
<1> QED
  BY <1>5, <1>6, <1>7, <1>8, <1>9, <1>10, <1>11

LEMMA LoadStep == ASSUME IInv, NEW t \in Tabs, Load(t) PROVE IInv'
<1> USE DEF IInv
<1>1. PICK what \in {"provider", "sent"}, q \in Request :
        /\ step' = [step EXCEPT ![t] = what]
        /\ request' = [request EXCEPT ![t] = q]
        /\ what = "provider" => q = request[t]
        /\ what = "sent" => q.to = "user" /\ q.token = cookie
        /\ q.token \in {request[t].token, cookie}
        /\ stirred' \in [Tabs -> BOOLEAN] /\ \A d \in Tabs \ {t} : stirred'[d] = stirred[d]
  <2>1. CASE request[t].to = "login"
    <3>1. request[t] \in Request /\ request = [request EXCEPT ![t] = request[t]]
      BY DEF TypeOK
    <3>2. step' = [step EXCEPT ![t] = "provider"] /\ UNCHANGED <<request, stirred>>
      BY <2>1 DEF Load
    <3> QED
      BY <3>1, <3>2 DEF TypeOK
  <2>2. CASE request[t].to # "login"
    <3>1. PICK q \in Request : /\ q = [NoRequest EXCEPT !.to = "user", !.token = cookie]
                               /\ q.to = "user" /\ q.token = cookie
      <4>1. cookie \in Token \cup {None}
        BY DEF TypeOK
      <4>2. [NoRequest EXCEPT !.to = "user", !.token = cookie] \in Request
        BY <4>1 DEF NoRequest, Request, Paths
      <4>3. /\ [NoRequest EXCEPT !.to = "user", !.token = cookie].to = "user"
            /\ [NoRequest EXCEPT !.to = "user", !.token = cookie].token = cookie
        BY DEF NoRequest
      <4> QED
        BY <4>2, <4>3
    <3>2. /\ step' = [step EXCEPT ![t] = "sent"]
          /\ request' = [request EXCEPT ![t] = q]
          /\ stirred' = [stirred EXCEPT ![t] = FALSE]
      BY <2>2, <3>1 DEF Load
    <3> QED
      BY <3>1, <3>2 DEF TypeOK
  <2> QED
    BY <2>1, <2>2
<1>2. /\ socket' = [socket EXCEPT ![t] = NoCall]
      /\ rooms' = [rooms EXCEPT ![t] = NoCall]
      /\ UNCHANGED <<now, cookie, drawn, clicks, answer, page, proved, signedOut>>
      /\ step[t] = "loading"
  BY DEF Load, Ends, world
<1>3. /\ \A d \in Tabs \ {t} : /\ step'[d] = step[d] /\ request'[d] = request[d]
                               /\ socket'[d] = socket[d] /\ rooms'[d] = rooms[d]
      /\ step'[t] = what /\ request'[t] = q /\ socket'[t] = NoCall /\ rooms'[t] = NoCall
  BY <1>1, <1>2 DEF TypeOK
<1>4. TypeOK'
  BY <1>1, <1>2, CallType DEF TypeOK
<1>5. SessionIsEarned'
  BY <1>1, <1>2, <1>3, CallType, EarnedStays DEF TypeOK, Tokens
<1>6. Asked'
  BY <1>1, <1>2, <1>3 DEF Asked
<1>7. Told'
  BY <1>2, <1>3 DEF Told, IsSession
<1>8. Gone'
  BY <1>1, <1>2, <1>3, CallType DEF Gone, MaySignIn, IsSession
<1>9. Alone'
  BY <1>3 DEF Alone, InFlight
<1>10. Shown'
  BY <1>1, <1>2, <1>3 DEF Shown, Settled, InFlight, IsOf, IsSession
<1> QED
  BY <1>4, <1>5, <1>6, <1>7, <1>8, <1>9, <1>10

LEMMA OnUserStep == ASSUME IInv, NEW t \in Tabs, OnUser(t) PROVE IInv'
<1> USE DEF IInv
<1>1. /\ step[t] = "answered" /\ request[t].to = "user"
      /\ cookie' = Jar(answer[t]) /\ Stirs(t, answer[t])
      /\ UNCHANGED <<now, drawn, clicks, proved, request, answer, rooms, signedOut>>
  BY DEF OnUser, Arrives
<1>2. ~answer[t].sets /\ cookie' = cookie /\ stirred' = stirred
  BY <1>1 DEF Told, Jar, Stirs
<1>3. CASE answer[t].status = "ok"
  <2>1. /\ step' = [step EXCEPT ![t] = "home"]
        /\ page' = [page EXCEPT ![t] = answer[t].user]
        /\ socket' = [socket EXCEPT ![t] = Sent(cookie)]
    BY <1>3 DEF OnUser
  <2>2. /\ cookie \in Token \cup {None}
        /\ Sent(cookie) \in Call /\ Sent(cookie).at = "sent" /\ Sent(cookie).token = cookie
        /\ Sent(cookie).reply = NoCall.reply
    BY CallType DEF TypeOK
  <2>3. /\ \A d \in Tabs \ {t} : /\ step'[d] = step[d] /\ page'[d] = page[d]
                                 /\ socket'[d] = socket[d]
        /\ step'[t] = "home" /\ page'[t] = answer[t].user /\ socket'[t] = Sent(cookie)
    BY <2>1 DEF TypeOK
  <2>4. answer[t].user \in Accounts \cup {None}
    BY DEF TypeOK, Answer
  <2>5. TypeOK'
    BY <1>1, <1>2, <2>1, <2>2, <2>4 DEF TypeOK
  <2>6. SessionIsEarned'
    BY <1>1, <1>2, <2>2, <2>3, EarnedStays DEF TypeOK, Tokens
  <2>7. Asked' /\ Told'
    BY <1>1, <2>3 DEF Asked, Told, IsSession
  <2>8. Gone'
    BY <1>1, <1>2, <2>3 DEF Gone, MaySignIn, IsSession
  <2>9. Alone'
    BY <1>1, <2>3 DEF Alone, InFlight
  <2>10. Shown'
    <3>1. ~stirred[t] => IsOf(cookie, answer[t].user)
      BY <1>1, <1>3 DEF Shown, Settled, Told, InFlight, IsOf
    <3>2. rooms[t] = NoCall
      BY <1>1 DEF Alone, InFlight
    <3>3. Settled(t)'
      BY <1>1, <1>2, <2>2, <2>3, <3>1, <3>2, CallType DEF Settled, InFlight, IsOf, IsSession
    <3>4. ASSUME NEW d \in Tabs, d # t PROVE Settled(d)'
      BY <1>1, <1>2, <2>3, <3>4 DEF Shown, Settled, InFlight, IsOf, IsSession
    <3> QED
      BY <3>3, <3>4 DEF Shown
  <2> QED
    BY <2>5, <2>6, <2>7, <2>8, <2>9, <2>10
<1>4. CASE answer[t].status # "ok"
  <2>1. /\ step' = [step EXCEPT ![t] = "login"] /\ UNCHANGED <<page, socket>>
    BY <1>4 DEF OnUser
  <2>2. /\ page = [page EXCEPT ![t] = page[t]] /\ rooms = [rooms EXCEPT ![t] = rooms[t]]
        /\ socket = [socket EXCEPT ![t] = socket[t]]
    BY DEF TypeOK
  <2>3. UNCHANGED <<world, history, request, answer>>
    BY <1>1, <1>2 DEF world, history
  <2> QED
    BY <1>1, <2>1, <2>2, <2>3, CutStep
<1> QED
  BY <1>3, <1>4

LEMMA OnOpenStep == ASSUME IInv, NEW t \in Tabs, OnOpen(t) PROVE IInv'
<1> USE DEF IInv
<1> DEFINE ws == [socket[t] EXCEPT !.at = "open"]
<1>1. /\ socket[t].at = "answered"
      /\ socket' = [socket EXCEPT ![t] = ws]
      /\ rooms' = [rooms EXCEPT ![t] = Sent(cookie)]
      /\ UNCHANGED <<now, cookie, drawn, clicks, step, request, answer, page, proved,
                     stirred, signedOut>>
  BY DEF OnOpen, world, history, TypeOK
<1>2. ws \in Call /\ ws.at = "open" /\ ws.token = socket[t].token /\ ws.reply = socket[t].reply
  <2>1. socket[t] \in Call
    BY DEF TypeOK
  <2> QED
    BY <2>1 DEF Call
<1> HIDE DEF ws
<1>3. /\ cookie \in Token \cup {None}
      /\ Sent(cookie) \in Call /\ Sent(cookie).at = "sent" /\ Sent(cookie).token = cookie
      /\ Sent(cookie).reply = NoCall.reply
  BY CallType DEF TypeOK
<1>4. /\ \A d \in Tabs \ {t} : socket'[d] = socket[d] /\ rooms'[d] = rooms[d]
      /\ socket'[t] = ws /\ rooms'[t] = Sent(cookie)
  BY <1>1, <1>2 DEF TypeOK
<1>5. TypeOK'
  <2>1. socket' \in [Tabs -> Call] /\ rooms' \in [Tabs -> Call]
    BY <1>1, <1>2, <1>3 DEF TypeOK
  <2> QED
    BY <1>1, <2>1 DEF TypeOK
<1>6. SessionIsEarned'
  BY <1>1, <1>2, <1>3, <1>4, CallType, EarnedStays DEF TypeOK, Tokens
<1>7. Asked' /\ Told'
  BY <1>1 DEF Asked, Told, IsSession
<1>8. Gone'
  BY <1>1, <1>3, <1>4, CallType DEF Gone, MaySignIn, IsSession
<1>9. Alone'
  BY <1>1, <1>4, CallType DEF Alone, InFlight
<1>10. Shown'
  BY <1>1, <1>2, <1>3, <1>4, CallType DEF Shown, Settled, InFlight, IsOf, IsSession
<1> QED
  BY <1>5, <1>6, <1>7, <1>8, <1>9, <1>10

LEMMA OnRoomsStep == ASSUME IInv, NEW t \in Tabs, OnRooms(t) PROVE IInv'
<1> USE DEF IInv
<1> DEFINE reply == rooms[t].reply
<1>1. /\ rooms[t].at = "answered"
      /\ cookie' = Jar(reply) /\ Stirs(t, reply)
      /\ rooms' = [rooms EXCEPT ![t] = NoCall]
      /\ UNCHANGED <<now, drawn, clicks, step, request, answer, page, socket, proved,
                     signedOut>>
  BY DEF OnRooms
<1>2. reply \in Answer
  BY DEF TypeOK, Call
<1>3. /\ cookie' \in Token \cup {None} /\ cookie' \in {cookie, reply.token}
      /\ ~reply.sets => cookie' = cookie
      /\ reply.sets => cookie' = reply.token
      /\ stirred' \in [Tabs -> BOOLEAN]
      /\ \A d \in Tabs : ~stirred'[d] => ~stirred[d]
      /\ \A d \in Tabs \ {t} : ~stirred'[d] => cookie' = cookie
  BY <1>1, <1>2, JarType
<1>4. /\ \A d \in Tabs \ {t} : rooms'[d] = rooms[d]
      /\ rooms'[t] = NoCall
  BY <1>1 DEF TypeOK
<1>5. TypeOK'
  BY <1>1, <1>3, CallType DEF TypeOK
<1>6. SessionIsEarned'
  BY <1>1, <1>3, <1>4, CallType, EarnedStays DEF TypeOK, Tokens
<1>7. Asked' /\ Told'
  BY <1>1 DEF Asked, Told, IsSession
<1>8. Gone'
  BY <1>1, <1>3, <1>4, CallType DEF Gone, MaySignIn, IsSession
<1>9. Alone'
  BY <1>1, <1>4 DEF Alone, InFlight
<1>10. Shown'
  <2>1. ASSUME NEW d \in Tabs, d # t PROVE Settled(d)'
    BY <1>1, <1>3, <1>4, <2>1 DEF Shown, Settled, InFlight, IsOf, IsSession
  <2>2. step[t] = "home" /\ ~stirred[t] => IsOf(cookie', page[t])
    BY <1>3 DEF Shown, Settled, IsOf
  <2>3. ~(InFlight(t) /\ request[t].to = "user")
    BY <1>1, CallType DEF Alone
  <2>4. Settled(t)'
    BY <1>1, <1>3, <1>4, <2>2, <2>3, CallType DEF Shown, Settled, InFlight, IsOf, IsSession
  <2> QED
    BY <2>1, <2>4 DEF Shown
<1> QED
  BY <1>5, <1>6, <1>7, <1>8, <1>9, <1>10

LEMMA ArriveStep == ASSUME IInv, NEW t \in Tabs, Arrive(t) PROVE IInv'
<1>1. CASE OnLogin(t)
  <2>1. /\ step[t] = "answered" /\ request[t].to = "login"
        /\ cookie' = Jar(answer[t]) /\ Stirs(t, answer[t])
        /\ UNCHANGED <<now, drawn, clicks, proved, signedOut>>
        /\ Redirects(t)
    BY <1>1 DEF OnLogin, Arrives
  <2>2. signedOut' \in BOOLEAN
    BY <2>1 DEF IInv, TypeOK
  <2> QED
    BY <2>1, <2>2, TurnStep
<1>2. CASE OnSigned(t)
  <2>1. /\ step[t] = "answered" /\ request[t].to \in {"callback", "local", "logout"}
        /\ cookie' = Jar(answer[t]) /\ Stirs(t, answer[t])
        /\ UNCHANGED <<now, drawn, clicks, proved>>
        /\ Redirects(t) \/ Shows(t)
        /\ signedOut' = \/ signedOut
                        \/ request[t].to = "logout" /\ \A d \in Tabs : ~MaySignIn(d)
    BY <1>2 DEF OnSigned, Arrives
  <2>2. signedOut' \in BOOLEAN
    BY <2>1 DEF IInv, TypeOK
  <2> QED
    BY <2>1, <2>2, TurnStep
<1>3. CASE OnClose(t)
  BY <1>3, ClosesStep DEF OnClose
<1> QED
  BY <1>1, <1>2, <1>3, LoadStep, OnUserStep, OnOpenStep, OnRoomsStep DEF Arrive, ArrivePage

-----------------------------------------------------------------------------
(* Theorems *)

THEOREM Inductive == Spec => []IInv
<1>1. Init => IInv
  BY IInvInit
<1>2. IInv /\ [Next]_vars => IInv'
  <2> SUFFICES ASSUME IInv, [Next]_vars PROVE IInv'
    OBVIOUS
  <2>1. CASE \E t \in Tabs : Serve(t) \/ Person(t) \/ Arrive(t) \/ Losses(t)
    BY <2>1, ServeStep, PersonStep, ArriveStep, LoseStep
  <2>2. CASE Restart
    BY <2>2, RestartStep
  <2>3. CASE Tick
    BY <2>3, TickStep
  <2>4. CASE UNCHANGED vars
    BY <2>4 DEF vars, world, tab, behind, history, IInv, TypeOK, SessionIsEarned, Tokens,
                Asked, Told, Gone, MaySignIn, Alone, Shown, Settled, InFlight, IsOf, IsSession
  <2> QED
    BY <2>1, <2>2, <2>3, <2>4 DEF Next
<1> QED
  BY <1>1, <1>2, PTL DEF Spec

\* The state always has the types TypeOK names.
THEOREM TypeCorrect == Spec => []TypeOK
<1>1. IInv => TypeOK
  BY DEF IInv
<1> QED
  BY <1>1, Inductive, PTL

\* Every session anywhere names an account the person proved to own, or the
\* blank one, and no token lives longer than it should (authHandler, localLogin,
\* refreshExpiredToken, Set).
THEOREM SessionsAreEarned == Spec => []SessionIsEarned
<1>1. IInv => SessionIsEarned
  BY DEF IInv
<1> QED
  BY <1>1, Inductive, PTL

\* A logout holds until the next login, whatever sockets, refused or not, and
\* requests go on behind the pages, unless one of them carried a session when the
\* cookie was cleared (logoutHandler, and the handlers that call Set).
THEOREM LogoutIsFinal == Spec => []LogoutHolds
<1>1. IInv => LogoutHolds
  BY DEF IInv, Gone, LogoutHolds
<1> QED
  BY <1>1, Inductive, PTL

\* The page, its socket and the cookie agree on the account unless another tab
\* changed the cookie (getAuth, Connection.connect, ValidateToken).
THEOREM PagesAgree == Spec => []PageIsTheSession
<1>1. IInv => PageIsTheSession
  BY DEF IInv, Shown, Settled, IsOf, PageIsTheSession
<1> QED
  BY <1>1, Inductive, PTL
=============================================================================
