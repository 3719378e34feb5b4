-------------------------------- MODULE Auth --------------------------------
(***************************************************************************)
(* Sessions: auth/auth.go, jwt.go and auth2provider.go behind one browser  *)
(* whose tabs share the "jwt" cookie.                                      *)
(*                                                                         *)
(* The server keeps no session: all it knows of a browser is the token a   *)
(* request carries, so browsers do not interact and one is modelled.  What *)
(* interacts is the tabs.  A request carries the cookie of the moment it   *)
(* is sent, it is handled later, and what its answer does to the cookie    *)
(* happens later still, when the answer arrives; requests of other tabs    *)
(* may be anywhere in between.  Within a tab the websocket and the request *)
(* for the rooms go on behind the page, also while the person leaves it:   *)
(* they end when the next document takes its place.                        *)
(***************************************************************************)
EXTENDS Integers, FiniteSets

CONSTANTS
  Tabs,
  Users,      \* accounts: with a provider, or local
  Blank,      \* the user mapUser makes of an answer that is no profile
  States,     \* what randToken draws for handshakes: bounds the logins begun
  None,       \* nil, no token, no cookie
  MayLose,    \* TRUE when requests and answers may be lost
  Lifetime,   \* TokenDuration, in ticks of the clock
  MaxTime,    \* bound: the clock stops there
  MaxClicks   \* bound: what the person does, all together

Accounts == Users \cup {Blank}

ASSUME BlankAssumption == Blank \notin Users
ASSUME LossAssumption == MayLose \in BOOLEAN
ASSUME TimeAssumption == Lifetime \in Nat /\ MaxTime \in Nat /\ MaxClicks \in Nat

VARIABLES
  now,       \* the clock of the server
  cookie,    \* the "jwt" cookie of the browser, None when it has none
  drawn,     \* the states drawn so far
  step,      \* what each tab shows or waits for
  request,   \* the last request of each tab
  answer,    \* the answer to it
  page,      \* the account the page of a tab shows (Store.data)
  socket,    \* the websocket of the page of a tab
  rooms,     \* its request for the rooms
  clicks

\* History: what the person did, and what the server made of it.
VARIABLES
  proved,    \* accounts a password was typed for, or a provider vouched for
  stirred,   \* another tab changed the cookie since this page began to load
  signedOut  \* the person logged out, has begun no login since, and nothing
             \* that could set a session was under way

world   == <<now, cookie, drawn, clicks>>
behind  == <<socket, rooms>>
tab     == <<step, request, answer, page, behind>>
history == <<proved, stirred, signedOut>>
vars    == <<world, tab, history>>

Paths == {"index", "login", "callback", "local", "logout", "user"}

\* Claims, as far as the handlers look: a session has a User, a handshake the
\* state of a login with a provider.  Both carry ExpiresAt.
Token == [kind : {"session"}, user : Accounts, state : {None}, exp : Nat]
    \cup [kind : {"handshake"}, user : {None}, state : States, exp : Nat]

Request == [to    : Paths \cup {None},
            token : Token \cup {None},   \* the cookie
            state : States \cup {None},  \* of a callback, and of a tab at the provider
            user  : Users \cup {None},   \* the account the person uses
            typed : BOOLEAN]             \* a password was typed

\* "dead": the handler panicked and net/http dropped the connection.
Answer == [status : {"ok", "denied", "nothing", "dead"},
           sets   : BOOLEAN,             \* has a Set-Cookie header
           token  : Token \cup {None},   \* its value, None when it clears
           user   : Accounts \cup {None},
           state  : States \cup {None}]

\* A websocket or a request behind the page; the token of a websocket is in its
\* query.  "open": onopen has run, for a socket the server refused as well.
Call == [at : {"none", "sent", "answered", "open"},
         token : Token \cup {None},
         reply : Answer]

ASSUME NoneAssumption == None \notin Accounts \cup States \cup Paths \cup Token

TypeOK ==
  /\ now \in 0 .. MaxTime
  /\ cookie \in Token \cup {None}
  /\ drawn \in SUBSET States
  /\ step \in [Tabs -> {"empty", "login", "home", "provider", "sent", "answered", "loading"}]
  /\ request \in [Tabs -> Request]
  /\ answer \in [Tabs -> Answer]
  /\ page \in [Tabs -> Accounts \cup {None}]
  /\ socket \in [Tabs -> Call]
  /\ rooms \in [Tabs -> Call]
  /\ clicks \in 0 .. MaxClicks
  /\ proved \in SUBSET Users
  /\ stirred \in [Tabs -> BOOLEAN]
  /\ signedOut \in BOOLEAN

NoRequest == [to |-> None, token |-> None, state |-> None, user |-> None, typed |-> FALSE]

Reply(status) == [status |-> status, sets |-> FALSE, token |-> None, user |-> None,
                  state |-> None]

NoCall          == [at |-> "none", token |-> None, reply |-> Reply("nothing")]
Sent(token)     == [NoCall EXCEPT !.at = "sent", !.token = token]
Answered(reply) == [NoCall EXCEPT !.at = "answered", !.reply = reply]

Init ==
  /\ now = 0
  /\ cookie = None
  /\ drawn = {}
  /\ step = [t \in Tabs |-> "empty"]
  /\ request = [t \in Tabs |-> NoRequest]
  /\ answer = [t \in Tabs |-> Reply("nothing")]
  /\ page = [t \in Tabs |-> None]
  /\ socket = [t \in Tabs |-> NoCall]
  /\ rooms = [t \in Tabs |-> NoCall]
  /\ clicks = 0
  /\ proved = {}
  /\ stirred = [t \in Tabs |-> FALSE]
  /\ signedOut = FALSE

-----------------------------------------------------------------------------
(* Tokens *)

IsSession(token)   == token # None /\ token.kind = "session"
IsHandshake(token) == token # None /\ token.kind = "handshake"

\* JWT.IsExpired
IsExpired(token) == now > token.exp

\* Slip: ExpiresAt stays 0.
SessionUndated(user) ==
  [kind |-> "session", user |-> user, state |-> None, exp |-> 0]

\* JWT.Set fills in ExpiresAt, which is 0 in the claims of a login and in those
\* of a refresh; the handshake of loginHandler names the same 24 hours itself.
Session(user) ==
  [kind |-> "session", user |-> user, state |-> None, exp |-> now + Lifetime]

Handshake(state) ==
  [kind |-> "handshake", user |-> None, state |-> state, exp |-> now + Lifetime]

\* Answers that set the cookie (JWT.Set) and that clear it (JWT.Clean).
Setting(reply, token) == [reply EXCEPT !.sets = TRUE, !.token = token]
Clean(reply)          == [reply EXCEPT !.sets = TRUE, !.token = None]

-----------------------------------------------------------------------------
(* The handlers *)

Handles(t, to) == step[t] = "sent" /\ request[t].to = to

Answers(t, reply) ==
  /\ answer' = [answer EXCEPT ![t] = reply]
  /\ step' = [step EXCEPT ![t] = "answered"]
  /\ UNCHANGED <<request, page, behind>>

\* loginHandler of a provider: the handshake replaces whatever the cookie held,
\* and the answer sends the tab to the provider with the same state.
loginHandler(t) ==
  /\ Handles(t, "login")
  /\ \E state \in States \ drawn :
       /\ drawn' = drawn \cup {state}
       /\ Answers(t, Setting([Reply("ok") EXCEPT !.state = state], Handshake(state)))
  /\ UNCHANGED <<now, cookie, clicks, history>>

\* What Exchange, the request for the profile and mapUser come to.  Errors of
\* the first two are logged and not returned, and the nil response then panics;
\* a body that is no JSON ends the handler; the status of the response is not
\* looked at, so that a JSON error body reads as a profile without an id.
Profile(person) ==
  {[status |-> "dead", user |-> None]}
    \cup (IF person = None THEN {}
          ELSE {[status |-> "nothing", user |-> None],
                [status |-> "ok", user |-> Blank],
                [status |-> "ok", user |-> person]})

HasState(t) == /\ IsHandshake(request[t].token)
               /\ request[t].token.state = request[t].state

\* Slip: the callback is taken for a login, whatever the provider says.
authHandlerAlways(t) ==
  /\ Handles(t, "callback")
  /\ Answers(t, IF HasState(t) THEN Setting(Reply("ok"), Session(request[t].user))
                ELSE Reply("nothing"))
  /\ UNCHANGED <<world, history>>

\* The state of the handshake in the cookie must be that of the callback: a tab
\* that began a login before another one did ends with an empty answer.
authHandler(t) ==
  /\ Handles(t, "callback")
  /\ \/ request[t].token = None /\ Answers(t, Reply("denied"))
     \/ request[t].token # None /\ ~HasState(t) /\ Answers(t, Reply("nothing"))
     \/ /\ HasState(t)
        /\ \E profile \in Profile(request[t].user) :
             Answers(t, IF profile.status = "ok"
                        THEN Setting(Reply("ok"), Session(profile.user))
                        ELSE Reply(profile.status))
  /\ UNCHANGED <<world, history>>

\* Slip: the password is not looked at.
localLoginAnyone(t) ==
  /\ Handles(t, "local")
  /\ Answers(t, Setting(Reply("ok"), Session(request[t].user)))
  /\ UNCHANGED <<world, history>>

\* localLogin: any password will do, but for the empty one.
localLogin(t) ==
  /\ Handles(t, "local")
  /\ Answers(t, IF request[t].typed
                THEN Setting(Reply("ok"), Session(request[t].user))
                ELSE Reply("denied"))
  /\ UNCHANGED <<world, history>>

\* Slip: the answer only redirects.
logoutHandlerRedirects(t) ==
  /\ Handles(t, "logout")
  /\ Answers(t, Reply("ok"))
  /\ UNCHANGED <<world, history>>

logoutHandler(t) ==
  /\ Handles(t, "logout")
  /\ Answers(t, Clean(Reply("ok")))
  /\ UNCHANGED <<world, history>>

\* The "user" command of Handlers.  Get takes an expired token from a cookie;
\* the claims of a handshake have no User, and the handler panics.
userHandler(t) ==
  /\ Handles(t, "user")
  /\ LET token == request[t].token
     IN Answers(t, IF token = None THEN Reply("denied")
                   ELSE IF IsHandshake(token) THEN Reply("dead")
                   ELSE [Reply("ok") EXCEPT !.user = token.user])
  /\ UNCHANGED <<world, history>>

\* SocketHandler upgrades the connection before it asks ValidateToken, which
\* returns a live session's user.  What it returns is used before the error is
\* looked at, so that everything else panics on an open websocket: no token, the
\* nil User of a handshake, and the nil user (with a nil error) of an expired
\* session.
ValidateToken(t) ==
  /\ socket[t].at = "sent"
  /\ LET token == socket[t].token
         reply == IF IsSession(token) /\ ~IsExpired(token)
                  THEN [Reply("ok") EXCEPT !.user = token.user]
                  ELSE Reply("dead")
     IN socket' = [socket EXCEPT ![t] = Answered(reply)]
  /\ UNCHANGED <<world, step, request, answer, page, rooms, history>>

\* GET /api/room behind the middleware Auth, which refreshes an expired session.
\* Slip: an expired session is cleaned and not refreshed.
refreshByClean(token) == Clean(Reply("denied"))

refreshExpiredToken(token) == Setting(Reply("ok"), Session(token.user))

getRooms(t) ==
  /\ rooms[t].at = "sent"
  /\ LET token == rooms[t].token
         reply == IF ~IsSession(token) THEN Reply("denied")
                  ELSE IF IsExpired(token) THEN refreshExpiredToken(token)
                  ELSE Reply("ok")
     IN rooms' = [rooms EXCEPT ![t] = Answered(reply)]
  /\ UNCHANGED <<world, step, request, answer, page, socket, history>>

\* Handlers of the navigations of a tab and of the script's /auth/user.
ServePage(t) ==
  \/ loginHandler(t) \/ authHandler(t) \/ localLogin(t) \/ logoutHandler(t)
  \/ userHandler(t)

Serve(t) == ServePage(t) \/ ValidateToken(t) \/ getRooms(t)

-----------------------------------------------------------------------------
(* The person *)

Click == clicks < MaxClicks /\ clicks' = clicks + 1

\* The person leaves the page; its scripts run on until the next document is
\* there.
Leave(t, r) ==
  /\ request' = [request EXCEPT ![t] = r]
  /\ page' = [page EXCEPT ![t] = None]
  /\ stirred' = [stirred EXCEPT ![t] = FALSE]
  /\ UNCHANGED <<answer, behind, now, cookie, drawn>>

\* ... with a request for a handler, which carries the cookie.
Navigate(t, r) ==
  /\ Leave(t, [r EXCEPT !.token = cookie])
  /\ step' = [step EXCEPT ![t] = "sent"]

\* The page is opened or reloaded: its files are fetched, which no cookie changes.
Visit(t) ==
  /\ step[t] \in {"empty", "login", "home"}
  /\ Click
  /\ Leave(t, [NoRequest EXCEPT !.to = "index"])
  /\ step' = [step EXCEPT ![t] = "loading"]
  /\ UNCHANGED <<proved, signedOut>>

\* The forms of the login screen.
Login(t) ==
  /\ step[t] = "login"
  /\ Click
  /\ Navigate(t, [NoRequest EXCEPT !.to = "login"])
  /\ UNCHANGED <<proved, signedOut>>

LoginLocally(t) ==
  /\ step[t] = "login"
  /\ Click
  /\ \E user \in Users, typed \in BOOLEAN :
       /\ Navigate(t, [NoRequest EXCEPT !.to = "local", !.user = user, !.typed = typed])
       /\ proved' = IF typed THEN proved \cup {user} ELSE proved
  /\ signedOut' = FALSE

Logout(t) ==
  /\ step[t] = "home"
  /\ Click
  /\ Navigate(t, [NoRequest EXCEPT !.to = "logout"])
  /\ UNCHANGED <<proved, signedOut>>

\* The provider sends the tab back, the person signed in there or did not.
Return(t) ==
  /\ step[t] = "provider"
  /\ Click
  /\ \E user \in Users \cup {None} :
       /\ Navigate(t, [NoRequest EXCEPT !.to = "callback", !.user = user,
                                        !.state = answer[t].state])
       /\ proved' = IF user = None THEN proved ELSE proved \cup {user}
  /\ signedOut' = FALSE

\* The person reloads a tab whose last request ended with an error or was lost.
Again(t) ==
  /\ step[t] = "empty" /\ request[t].to \in {"login", "callback", "local", "logout"}
  /\ Click
  /\ Navigate(t, request[t])
  /\ signedOut' = (signedOut /\ request[t].to \in {"login", "logout"})
  /\ UNCHANGED proved

\* The person goes back from the provider.
Abandon(t) ==
  /\ step[t] = "provider"
  /\ Click
  /\ step' = [step EXCEPT ![t] = "empty"]
  /\ request' = [request EXCEPT ![t] = NoRequest]
  /\ UNCHANGED <<now, cookie, drawn, answer, page, behind, history>>

\* The browser is closed and opened: Set makes a session cookie of every token.
Restart ==
  /\ Click
  /\ cookie' = None
  /\ step' = [t \in Tabs |-> "empty"]
  /\ request' = [t \in Tabs |-> NoRequest]
  /\ answer' = [t \in Tabs |-> Reply("nothing")]
  /\ page' = [t \in Tabs |-> None]
  /\ socket' = [t \in Tabs |-> NoCall]
  /\ rooms' = [t \in Tabs |-> NoCall]
  /\ stirred' = [t \in Tabs |-> FALSE]
  /\ UNCHANGED <<now, drawn, proved, signedOut>>

Tick ==
  /\ now < MaxTime
  /\ now' = now + 1
  /\ UNCHANGED <<cookie, drawn, clicks, tab, history>>

-----------------------------------------------------------------------------
(* Answers arrive *)

\* The cookie after a reply, and the tabs other than t it was changed under.
Jar(reply) == IF reply.sets THEN reply.token ELSE cookie

Stirs(t, reply) ==
  stirred' = IF reply.sets THEN [d \in Tabs |-> stirred[d] \/ d # t] ELSE stirred

Arrives(t, to) ==
  /\ step[t] = "answered" /\ request[t].to = to
  /\ cookie' = Jar(answer[t])
  /\ Stirs(t, answer[t])
  /\ UNCHANGED <<now, drawn, clicks, proved>>

\* Another document takes the place of the page, whose scripts end.
Ends(t) ==
  /\ socket' = [socket EXCEPT ![t] = NoCall]
  /\ rooms' = [rooms EXCEPT ![t] = NoCall]

\* The answer sends the tab on; the cookie is set before the next document comes.
Redirects(t) ==
  /\ step' = [step EXCEPT ![t] = "loading"]
  /\ UNCHANGED <<request, answer, page, behind>>

\* Any other answer is shown as it is.
Shows(t) ==
  /\ step' = [step EXCEPT ![t] = "empty"]
  /\ Ends(t)
  /\ UNCHANGED <<request, answer, page>>

OnLogin(t) ==
  /\ Arrives(t, "login")
  /\ Redirects(t)
  /\ UNCHANGED signedOut

\* What is under way that may still set a session: a login, or the rooms of a
\* session that may have expired.
MaySignIn(d) ==
  \/ step[d] = "sent" /\ request[d].to \in {"callback", "local"}
  \/ step[d] = "answered" /\ IsSession(answer[d].token)
  \/ rooms[d].at = "sent" /\ IsSession(rooms[d].token)
  \/ rooms[d].at = "answered" /\ IsSession(rooms[d].reply.token)

OnSigned(t) ==
  /\ \E to \in {"callback", "local", "logout"} : Arrives(t, to)
  /\ IF answer[t].status = "ok" THEN Redirects(t) ELSE Shows(t)
  /\ signedOut' = \/ signedOut
                  \/ request[t].to = "logout" /\ \A d \in Tabs : ~MaySignIn(d)

\* The next document is there: the login page of the provider, or the page, whose
\* Store.init calls getAuth.
Load(t) ==
  /\ step[t] = "loading"
  /\ Ends(t)
  /\ IF request[t].to = "login"
     THEN /\ step' = [step EXCEPT ![t] = "provider"]
          /\ UNCHANGED <<request, stirred>>
     ELSE /\ step' = [step EXCEPT ![t] = "sent"]
          /\ request' = [request EXCEPT ![t] =
                           [NoRequest EXCEPT !.to = "user", !.token = cookie]]
          /\ stirred' = [stirred EXCEPT ![t] = FALSE]
  /\ UNCHANGED <<world, answer, page, proved, signedOut>>

\* Slip: a fetch that fails, instead of being answered, is not caught.
OnUserHeard(t) ==
  /\ Arrives(t, "user") /\ answer[t].status # "dead"
  /\ IF answer[t].status = "ok"
     THEN /\ step' = [step EXCEPT ![t] = "home"]
          /\ page' = [page EXCEPT ![t] = answer[t].user]
          /\ socket' = [socket EXCEPT ![t] = Sent(cookie)]
     ELSE /\ step' = [step EXCEPT ![t] = "login"]
          /\ UNCHANGED <<page, socket>>
  /\ UNCHANGED <<request, answer, rooms, signedOut>>

\* The page comes up.  Store.init catches whatever getAuth throws: the TypeError
\* of an answer that is not ok, the fetch of a handler that panicked.  Otherwise
\* getAuth reads the token from the cookie only now, and the page opens its
\* socket with it and is authenticated at once: it can be used and left before
\* the socket is open.
OnUser(t) ==
  /\ Arrives(t, "user")
  /\ IF answer[t].status = "ok"
     THEN /\ step' = [step EXCEPT ![t] = "home"]
          /\ page' = [page EXCEPT ![t] = answer[t].user]
          /\ socket' = [socket EXCEPT ![t] = Sent(cookie)]
     ELSE /\ step' = [step EXCEPT ![t] = "login"]
          /\ UNCHANGED <<page, socket>>
  /\ UNCHANGED <<request, answer, rooms, signedOut>>

\* onOpenConnection: the rooms are asked for with the cookie of this moment, by
\* a socket that will be refused as well.
OnOpen(t) ==
  /\ socket[t].at = "answered"
  /\ socket' = [socket EXCEPT ![t].at = "open"]
  /\ rooms' = [rooms EXCEPT ![t] = Sent(cookie)]
  /\ UNCHANGED <<world, step, request, answer, page, history>>

\* onCloseConnection: a page that is still shown becomes the login screen.
Closes(t) ==
  /\ socket' = [socket EXCEPT ![t] = NoCall]
  /\ step' = IF step[t] = "home" THEN [step EXCEPT ![t] = "login"] ELSE step
  /\ page' = [page EXCEPT ![t] = None]
  /\ UNCHANGED <<world, request, answer, rooms, history>>

\* The panic of the handler closes the socket it had opened.
OnClose(t) ==
  /\ socket[t].at = "open" /\ socket[t].reply.status = "dead"
  /\ Closes(t)

OnRooms(t) ==
  /\ rooms[t].at = "answered"
  /\ cookie' = Jar(rooms[t].reply)
  /\ Stirs(t, rooms[t].reply)
  /\ rooms' = [rooms EXCEPT ![t] = NoCall]
  /\ UNCHANGED <<now, drawn, clicks, step, request, answer, page, socket, proved,
                 signedOut>>

\* A request, its answer or the next document is lost: the browser shows an error
\* page, and the script of the page the login screen.
Lose(t) ==
  /\ MayLose
  /\ step[t] \in {"sent", "answered", "loading"}
  /\ IF step[t] # "loading" /\ request[t].to = "user"
     THEN /\ step' = [step EXCEPT ![t] = "login"]
          /\ UNCHANGED <<request, answer, page, behind>>
     ELSE Shows(t)
  /\ UNCHANGED <<world, history>>

\* A socket breaks, open or not; a page whose rooms are lost stays.
LoseSocket(t) == MayLose /\ socket[t].at # "none" /\ Closes(t)

LoseRooms(t) ==
  /\ MayLose
  /\ rooms[t].at # "none"
  /\ rooms' = [rooms EXCEPT ![t] = NoCall]
  /\ UNCHANGED <<world, step, request, answer, page, socket, history>>

ArrivePage(t) == OnLogin(t) \/ OnSigned(t) \/ Load(t) \/ OnUser(t)

Arrive(t) == ArrivePage(t) \/ OnOpen(t) \/ OnClose(t) \/ OnRooms(t)

Person(t) ==
  \/ Visit(t) \/ Login(t) \/ LoginLocally(t) \/ Logout(t)
  \/ Return(t) \/ Again(t) \/ Abandon(t)

Losses(t) == Lose(t) \/ LoseSocket(t) \/ LoseRooms(t)

Next == (\E t \in Tabs : Serve(t) \/ Person(t) \/ Arrive(t) \/ Losses(t)) \/ Restart \/ Tick

\* net/http runs every handler, and what is not lost arrives; the person does
\* what they like.
Fairness ==
  \A t \in Tabs :
    /\ WF_vars(ServePage(t)) /\ WF_vars(ValidateToken(t)) /\ WF_vars(getRooms(t))
    /\ WF_vars(ArrivePage(t)) /\ WF_vars(OnOpen(t)) /\ WF_vars(OnClose(t))
    /\ WF_vars(OnRooms(t))

Spec == Init /\ [][Next]_vars

FairSpec == Spec /\ Fairness

-----------------------------------------------------------------------------
(***************************************************************************)
(* Properties.                                                             *)
(***************************************************************************)

\* Every token in the browser or on its way.
Tokens == {cookie}
     \cup {request[t].token : t \in Tabs} \cup {answer[t].token : t \in Tabs}
     \cup {socket[t].token : t \in Tabs} \cup {rooms[t].token : t \in Tabs}
     \cup {rooms[t].reply.token : t \in Tabs}

\* A session, in whatever order requests are handled and answers arrive, names
\* an account the person proved, or the blank one of a login whose provider
\* answered with something else than a profile; a handshake names a state that
\* was drawn.  No token outlives the 24 hours Set gives it.
SessionIsEarned ==
  \A token \in Tokens \ {None} :
    /\ token.kind = "session" => token.user \in proved \cup {Blank}
    /\ token.kind = "handshake" => token.state \in drawn
    /\ token.exp <= now + Lifetime

\* A page whose socket was admitted shows the account it was admitted as, and
\* the cookie is a session of that account, refreshed or not, unless another tab
\* changed the cookie meanwhile.
PageIsTheSession ==
  \A t \in Tabs :
    step[t] = "home" /\ socket[t].reply.status = "ok" /\ ~stirred[t] =>
      /\ socket[t].reply.user = page[t]
      /\ IsSession(cookie) /\ cookie.user = page[t]

\* A logout holds until the next login, unless a login or a request for the
\* rooms of a session was still under way when the cookie was cleared, in
\* another tab or behind the page that was left: their answers do set it again.
LogoutHolds == signedOut => ~IsSession(cookie)

\* Where no token expires (MaxTime <= Lifetime) and nothing is lost, a login
\* leads to the page of the account it was for, or of the blank account, with
\* its socket admitted, unless the login was refused, the person left the page
\* first, or another tab changed the cookie on the way.
LoginLeadsHome ==
  \A t \in Tabs, user \in Users :
    (step[t] = "sent" /\ request[t].to \in {"local", "callback"} /\ request[t].user = user)
      ~> \/ page[t] \in {user, Blank} /\ socket[t].reply.user = page[t]
         \/ step[t] = "empty" \/ stirred[t] \/ request[t].to \in {"index", "logout"}

\* Whatever the cookie holds, nothing, an expired session or the handshake of a
\* login that was not finished (for which /auth/user panics), a page that is
\* opened or come back to shows the login form or the home of an account, unless
\* the browser is closed.
PageComesUp ==
  \A t \in Tabs :
    step[t] = "loading" /\ request[t].to # "login" ~> step[t] \in {"login", "home", "empty"}

-----------------------------------------------------------------------------
(***************************************************************************)
(* Statements of the repository the code does not live up to.              *)
(***************************************************************************)

\* "token expired", "connection auth error": a socket that is not admitted is
\* refused with an error, and its handler returns.
SocketRefusalIsAnError == \A t \in Tabs : socket[t].reply.status # "dead"
=============================================================================
