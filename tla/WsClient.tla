------------------------------ MODULE WsClient ------------------------------
(***************************************************************************)
(* visualization/web: WsContainer.js, the websocket client of the web      *)
(* page, the pages that subscribe through it, and the session at the other *)
(* end (visualization/api, WsClientSession).                               *)
(*                                                                         *)
(* The browser runs one task at a time (a click, a socket event, a timer,  *)
(* an HTTP answer) and, before the next task, every microtask it left      *)
(* behind.  An await therefore lets only microtasks of the same task come  *)
(* between: jobs is that queue, first in first out, and a job is the code  *)
(* between two awaits.  An awaited setState() takes as many more turns as  *)
(* the page takes to re-render, so what follows it may fall behind (Yield).*)
(***************************************************************************)
EXTENDS Naturals, Sequences

CONSTANTS
    Sels,       \* what a user may select: an exchange and a currency pair
    NoSel,      \* nothing selected, nothing subscribed: the empty string
    On,         \* a subscription without parameters
    Topics,     \* the pages with a subscription, by the name of the topic
    MaxFaults,  \* bound: how often the network or the token fails
    MaxQueue    \* bound: messages on their way, before the user acts again

AllTopics  == {"Liquidity", "Volume", "PL", "Balances", "TradeSignals", "Dashboard"}
FlagTopics == {"Balances", "TradeSignals", "Dashboard"}

(* The pages with an interval in the URL, which show "now" by their own page *)
IntervalTopics == {"Liquidity", "Volume"}

(* What WsClientSession::route() knows; it logs the other commands.          *)
Served == {"Liquidity", "Balances"}

ASSUME SelsAssumption   == NoSel \notin Sels /\ On \notin Sels /\ On # NoSel
ASSUME TopicsAssumption == Topics \subseteq AllTopics /\ Served \subseteq Topics
ASSUME BoundsAssumption == MaxFaults \in Nat /\ MaxQueue \in Nat \ {0}

VARIABLES
    conn,       \* the socket of this.wsConnection
    closing,    \* external: close events to come of sockets the client closed
    late,       \* external: close events to come of dead sockets it closed
    srv,        \* the session at the other end
    up, down,   \* external: messages on their way to and from it
    ws,         \* WsContainer.state
    ping, hb,   \* are pingTimeout and hbTimeout set?
    pong,       \* lastPongTime: not set, or is it older than 4 s?
    jobs,       \* the microtasks of the running task
    page, sel,  \* the page that is open, and ExchangeContainer's selection
    token,      \* is the access token in localStorage good?
    refreshing, \* requests for a new one that WsContainer waits for
    faults,     \* how many faults there were
    leaked      \* history: was a "now" page hidden while it subscribed?

connVars == <<conn, closing, late, srv, down>>
timeVars == <<ping, hb, pong>>
userVars == <<page, sel>>
histVars == <<faults, leaked>>
authVars == <<token, refreshing>>
vars == <<connVars, up, ws, timeVars, jobs, userVars, authVars, histVars>>

-----------------------------------------------------------------------------
(* The data. *)

(* "dead": the peer is gone and the browser does not know; "waiting":        *)
(* Sockette opens it again in 5 s; "closed": it does not.                    *)
Conn == {"connecting", "open", "dead", "waiting", "closed"}

Subs == Sels \cup {NoSel, On}

Pages == Topics \cup {"Other", "Login"}

Session == [auth : BOOLEAN, sub : [Served -> Subs]]

NewSession == [auth |-> FALSE, sub |-> [t \in Served |-> NoSel]]

WsState == [isConnected : BOOLEAN, subscribed : [Topics -> Subs], codes : Subs,
            data : [Topics -> Subs], indicators : Subs]

(* The mutant: the subscriptions are emptied with false.                     *)
MutEmptyState ==
    [isConnected |-> FALSE, subscribed |-> [t \in Topics |-> FALSE],
     codes |-> NoSel, data |-> [t \in Topics |-> NoSel], indicators |-> NoSel]

emptyState == [isConnected |-> FALSE, subscribed |-> [t \in Topics |-> NoSel],
               codes |-> NoSel, data |-> [t \in Topics |-> NoSel], indicators |-> NoSel]

(* What the client sends; an Auth's argument says whether its token is good. *)
UpMessage == [cmd : {"Auth", "Ping", "Subscribe", "Unsubscribe"},
              topic : Topics \cup {""}, arg : Subs \cup BOOLEAN]

UpMsg(cmd, topic, arg) == [cmd |-> cmd, topic |-> topic, arg |-> arg]

DownMessage == [cmd : {"Authorized", "Pong", "Update"},
                topic : Topics \cup {""}, arg : Subs \cup BOOLEAN]

JobKinds ==
    {"subscribe", "resubscribe", "subscribed", "unsubscribed",  \* oneTimeInvoke()
     "connected", "auth", "authorized", "timers",               \* onopen
     "empty", "replace",                                        \* hb(), onclose
     "data", "indicators",                                      \* onmessage
     "select", "hide"}                                          \* the page

Job == [kind : JobKinds, topic : Topics \cup {""}, arg : Subs \cup BOOLEAN]

Do(kind, topic, arg) == [kind |-> kind, topic |-> topic, arg |-> arg]

(* Jobs that follow an awaited setState().                                   *)
Slow == {"resubscribe", "auth", "timers", "replace", "indicators"}

AtRest == jobs = <<>>

(* WebSocket.send(): an open socket takes the message, a closed one drops    *)
(* it.  Commands that the session only logs are left out.                    *)
Sent(q, msg) == IF conn = "open" /\ msg.topic \in Served \cup {""} THEN Append(q, msg) ELSE q

-----------------------------------------------------------------------------
(* The pages.  Their componentDidMount(), componentDidUpdate() and           *)
(* componentWillUnmount() are given the state w of WsContainer and return    *)
(* the queue of microtasks and what was sent.                                *)

Effect(js, q) == [jobs |-> js, up |-> q]

(* updateLiquiditySubscription(), updateVolumeSubscription() and             *)
(* updatePLSubscription() up to their first await.                           *)
updateSubscription(w, t, s, js, q) ==
    IF w.subscribed[t] = s THEN Effect(js, q)
    ELSE IF w.subscribed[t] # NoSel /\ w.isConnected
    THEN Effect(Append(js, Do("unsubscribed", t, s)), Sent(q, UpMsg("Unsubscribe", t, w.subscribed[t])))
    ELSE IF s # NoSel THEN Effect(Append(js, Do("subscribe", t, s)), q)
    ELSE Effect(js, q)

(* The mutant: subscribeBalances() does not ask either.                      *)
MutNeedsFlag(w, t) == w.isConnected

(* subscribeBalances() asks whether it is subscribed, the others do not.     *)
NeedsFlag(w, t) == w.isConnected /\ (t = "Balances" => w.subscribed[t] = NoSel)

subscribeFlag(w, t, js, q) ==
    IF NeedsFlag(w, t)
    THEN Effect(Append(js, Do("subscribed", t, On)), Sent(q, UpMsg("Subscribe", t, On)))
    ELSE Effect(js, q)

(* The pages after they were mounted or rendered again.  LiquidityNow does   *)
(* not ask whether something is selected: with nothing, it unsubscribes.     *)
LiquidityNow(w, s, js, q) == updateSubscription(w, "Liquidity", s, js, q)

VolumeNow(w, s, js, q) ==
    IF s = NoSel THEN Effect(js, q) ELSE updateSubscription(w, "Volume", s, js, q)

PL(w, s, js, q) ==
    IF s = NoSel THEN Effect(js, q) ELSE updateSubscription(w, "PL", s, js, q)

Balances(w, js, q) == subscribeFlag(w, "Balances", js, q)

TradeSignals(w, js, q) == subscribeFlag(w, "TradeSignals", js, q)

Dashboard(w, js, q) == subscribeFlag(w, "Dashboard", js, q)

PageUpdate(w, p, s, js, q) ==
    CASE p = "Liquidity"    -> LiquidityNow(w, s, js, q)
      [] p = "Volume"       -> VolumeNow(w, s, js, q)
      [] p = "PL"           -> PL(w, s, js, q)
      [] p = "Balances"     -> Balances(w, js, q)
      [] p = "TradeSignals" -> TradeSignals(w, js, q)
      [] p = "Dashboard"    -> Dashboard(w, js, q)
      [] OTHER              -> Effect(js, q)

(* The mutant: a page without componentWillUnmount().                        *)
MutPageUnmount(w, p, js, q) == Effect(js, q)

PageUnmount(w, p, js, q) ==
    IF p \in Topics /\ w.isConnected /\ (p \in FlagTopics \/ w.subscribed[p] # NoSel)
    THEN Effect(Append(js, Do("unsubscribed", p, NoSel)), Sent(q, UpMsg("Unsubscribe", p, w.subscribed[p])))
    ELSE Effect(js, q)

(* unstated: setState() changes the state and renders the page again.        *)
SetState(w, js, then) ==
    LET r == PageUpdate(w, page, sel, js, up)
    IN  /\ ws' = w
        /\ jobs' = r.jobs \o then
        /\ up' = r.up

-----------------------------------------------------------------------------
(* What a page that was opened by a full load starts with.                   *)

FreshPage ==
    /\ conn' = "connecting"
    /\ closing' = 0
    /\ late' = 0
    /\ srv' = NewSession
    /\ up' = <<>>
    /\ down' = <<>>
    /\ ws' = emptyState
    /\ ping' = FALSE
    /\ hb' = FALSE
    /\ pong' = "none"
    /\ jobs' = <<>>
    /\ page' = "Other"
    /\ sel' = NoSel
    /\ token' = TRUE
    /\ refreshing' = 0
    /\ leaked' = FALSE

Init ==
    /\ conn = "connecting"
    /\ closing = 0
    /\ late = 0
    /\ srv = NewSession
    /\ up = <<>>
    /\ down = <<>>
    /\ ws = emptyState
    /\ ping = FALSE
    /\ hb = FALSE
    /\ pong = "none"
    /\ jobs = <<>>
    /\ page = "Other"
    /\ sel = NoSel
    /\ token \in BOOLEAN
    /\ refreshing = 0
    /\ faults = 0
    /\ leaked = FALSE

-----------------------------------------------------------------------------
(* Microtasks.  Each takes the job at the head of the queue.                 *)

Take(kind) == jobs # <<>> /\ Head(jobs).kind = kind

(* The mutant sends and sets the state without asking for isConnected.       *)
MutSubscribe ==
    /\ Take("subscribe") \/ Take("resubscribe")
    /\ LET j == Head(jobs)
       IN  /\ up' = Sent(up, UpMsg("Subscribe", j.topic, j.arg))
           /\ jobs' = Append(Tail(jobs), Do("subscribed", j.topic, j.arg))
    /\ UNCHANGED <<connVars, ws, timeVars, userVars, authVars, histVars>>

(* oneTimeInvoke() of a Subscribe command: sent only when connected.         *)
Subscribe ==
    /\ Take("subscribe") \/ Take("resubscribe")
    /\ LET j == Head(jobs)
       IN  IF ws.isConnected
           THEN /\ up' = Sent(up, UpMsg("Subscribe", j.topic, j.arg))
                /\ jobs' = Append(Tail(jobs), Do("subscribed", j.topic, j.arg))
           ELSE /\ jobs' = Tail(jobs)
                /\ UNCHANGED up
    /\ UNCHANGED <<connVars, ws, timeVars, userVars, authVars, histVars>>

(* setState() of the subscription: a topic with a selection also sets        *)
(* exchangeName and currencyCodePair, which all of them share.               *)
Subscribed ==
    /\ Take("subscribed")
    /\ LET j == Head(jobs)
       IN  SetState([ws EXCEPT !.subscribed[j.topic] = j.arg,
                               !.codes = IF j.topic \in FlagTopics THEN @ ELSE j.arg],
                    Tail(jobs), <<>>)
    /\ UNCHANGED <<connVars, timeVars, userVars, authVars, histVars>>

(* The mutant keeps the data of what was unsubscribed.                       *)
MutUnsubscribed ==
    /\ Take("unsubscribed")
    /\ LET j == Head(jobs)
       IN  SetState([ws EXCEPT !.subscribed[j.topic] = NoSel],
                    Tail(jobs),
                    IF j.arg = NoSel THEN <<>> ELSE <<Do("resubscribe", j.topic, j.arg)>>)
    /\ UNCHANGED <<connVars, timeVars, userVars, authVars, histVars>>

(* setState() after an Unsubscribe command; an update of the subscription    *)
(* then goes on to subscribe what was asked for when it began.               *)
Unsubscribed ==
    /\ Take("unsubscribed")
    /\ LET j == Head(jobs)
       IN  SetState([ws EXCEPT !.subscribed[j.topic] = NoSel, !.data[j.topic] = NoSel],
                    Tail(jobs),
                    IF j.arg = NoSel THEN <<>> ELSE <<Do("resubscribe", j.topic, j.arg)>>)
    /\ UNCHANGED <<connVars, timeVars, userVars, authVars, histVars>>

(* onopen: isConnected, and then auth().                                     *)
Connected ==
    /\ Take("connected")
    /\ SetState([ws EXCEPT !.isConnected = TRUE], Tail(jobs), <<Do("auth", "", TRUE)>>)
    /\ UNCHANGED <<connVars, timeVars, userVars, authVars, histVars>>

(* auth(): the token is the one of localStorage.  The argument says whether  *)
(* onopen goes on with the timers.                                           *)
SendAuth ==
    /\ Take("auth")
    /\ LET goesOn == Head(jobs).arg
       IN  IF ws.isConnected
           THEN /\ up' = Sent(up, UpMsg("Auth", "", token))
                /\ jobs' = Append(Tail(jobs), Do("authorized", "", goesOn))
           ELSE /\ jobs' = Tail(jobs) \o (IF goesOn THEN <<Do("timers", "", NoSel)>> ELSE <<>>)
                /\ UNCHANGED up
    /\ UNCHANGED <<connVars, ws, timeVars, userVars, authVars, histVars>>

Authorized ==
    /\ Take("authorized")
    /\ SetState(ws, Tail(jobs),
                IF Head(jobs).arg THEN <<Do("timers", "", NoSel)>> ELSE <<>>)
    /\ UNCHANGED <<connVars, timeVars, userVars, authVars, histVars>>

(* ping(): send() throws on a socket that is connecting, and then no timer   *)
(* is set.  Bound: one Ping or its Pong is on its way at a time.             *)
DoPing ==
    /\ ping' = (conn # "connecting")
    /\ up' = IF (\E i \in DOMAIN up : up[i].cmd = "Ping")
                    \/ (\E i \in DOMAIN down : down[i].cmd = "Pong")
             THEN up ELSE Sent(up, UpMsg("Ping", "", NoSel))

(* The mutant does not empty the state before it connects again.             *)
MutHbGivesUp(js) ==
    /\ pong = "old"
    /\ hb' = FALSE
    /\ pong' = "none"
    /\ jobs' = Append(js, Do("replace", "", NoSel))

(* The mutant does not forget the last Pong.                                 *)
MutHbKeepsPong(js) ==
    /\ pong = "old"
    /\ hb' = FALSE
    /\ UNCHANGED pong
    /\ jobs' = Append(js, Do("empty", "", TRUE))

(* hb(): a Pong older than 4 s makes it give the connection up.              *)
HbGivesUp(js) ==
    /\ pong = "old"
    /\ hb' = FALSE
    /\ pong' = "none"
    /\ jobs' = Append(js, Do("empty", "", TRUE))

HbGoesOn(js) ==
    /\ pong # "old"
    /\ hb' = TRUE
    /\ jobs' = js
    /\ UNCHANGED pong

(* onopen: the first Ping, and the first look at the last Pong, which may be *)
(* of the connection before.                                                 *)
Timers ==
    /\ Take("timers")
    /\ DoPing
    /\ HbGivesUp(Tail(jobs)) \/ HbGoesOn(Tail(jobs))
    /\ UNCHANGED <<connVars, ws, userVars, authVars, histVars>>

(* setState(emptyState()): of hb(), which then replaces the connection, and  *)
(* of onclose and onreconnect.                                               *)
Empty ==
    /\ Take("empty")
    /\ SetState(emptyState, Tail(jobs),
                IF Head(jobs).arg THEN <<Do("replace", "", NoSel)>> ELSE <<>>)
    /\ leaked' = FALSE
    /\ UNCHANGED <<connVars, timeVars, userVars, authVars, faults>>

(* Sockette.close(): no more reconnects of this one, its close event is to   *)
(* come, and nothing else of it.                                             *)
Close ==
    /\ closing' = IF conn \in {"open", "connecting"} THEN closing + 1 ELSE closing
    /\ late' = IF conn = "dead" THEN late + 1 ELSE late

Replace ==
    /\ Take("replace")
    /\ Close
    /\ conn' = "connecting"
    /\ srv' = NewSession
    /\ up' = <<>>
    /\ down' = <<>>
    /\ jobs' = Tail(jobs)
    /\ UNCHANGED <<ws, timeVars, userVars, authVars, histVars>>

(* updateOrderState() sets the order book and then the indicators;           *)
(* updateBalances() and the others set their data.                           *)
SetData ==
    /\ Take("data")
    /\ LET j == Head(jobs)
       IN  SetState([ws EXCEPT !.data[j.topic] = j.arg], Tail(jobs),
                    IF j.topic = "Liquidity" THEN <<Do("indicators", "", j.arg)>> ELSE <<>>)
    /\ UNCHANGED <<connVars, timeVars, userVars, authVars, histVars>>

SetIndicators ==
    /\ Take("indicators")
    /\ SetState([ws EXCEPT !.indicators = Head(jobs).arg], Tail(jobs), <<>>)
    /\ UNCHANGED <<connVars, timeVars, userVars, authVars, histVars>>

(* ExchangeContainer: the selection changes, the page is rendered again.     *)
ApplySelection ==
    /\ Take("select")
    /\ LET r == PageUpdate(ws, page, Head(jobs).arg, Tail(jobs), up)
       IN  jobs' = r.jobs /\ up' = r.up
    /\ sel' = Head(jobs).arg
    /\ UNCHANGED <<connVars, ws, timeVars, page, authVars, histVars>>

(* ExchangeContainer: the interval is no longer "now", so Liquidity and      *)
(* Volume show another page.                                                 *)
HideNow ==
    /\ Take("hide")
    /\ LET r == PageUnmount(ws, page, Tail(jobs), up)
       IN  jobs' = r.jobs /\ up' = r.up
    /\ page' = "Other"
    /\ leaked' = (leaked \/ \E i \in DOMAIN jobs : jobs[i].kind \in {"subscribe", "resubscribe", "subscribed"})
    /\ UNCHANGED <<connVars, ws, timeVars, sel, authVars, faults>>

Yield ==
    /\ Len(jobs) > 1
    /\ Head(jobs).kind \in Slow
    /\ jobs' = Append(Tail(jobs), Head(jobs))
    /\ UNCHANGED <<connVars, up, ws, timeVars, userVars, authVars, histVars>>

Microtask ==
    \/ Subscribe \/ Subscribed \/ Unsubscribed
    \/ Connected \/ SendAuth \/ Authorized \/ Timers
    \/ Empty \/ Replace \/ SetData \/ SetIndicators
    \/ ApplySelection \/ HideNow

-----------------------------------------------------------------------------
(* Tasks.  Each starts only when no microtask is left.                       *)

(* onopen.  A socket the client closed while the server still answered has   *)
(* told so by now: a close takes one round trip, an open at least two.       *)
Opened ==
    /\ AtRest
    /\ conn = "connecting"
    /\ closing = 0
    /\ conn' = "open"
    /\ jobs' = <<Do("connected", "", NoSel)>>
    /\ UNCHANGED <<closing, late, srv, down, up, ws, timeVars, userVars, authVars, histVars>>

(* onclose (and onerror, before it): the timer of ping() and the state go.   *)
OnClose ==
    /\ ping' = FALSE
    /\ jobs' = <<Do("empty", "", FALSE)>>
    /\ UNCHANGED <<ws, hb, pong, userVars, authVars, leaked>>

(* The socket breaks, or cannot be opened: Sockette will open it again.      *)
Breaks ==
    /\ AtRest
    /\ \/ conn \in {"connecting", "open"} /\ faults < MaxFaults /\ faults' = faults + 1
       \/ conn = "dead" /\ UNCHANGED faults
    /\ conn' = "waiting"
    /\ srv' = NewSession
    /\ up' = <<>>
    /\ down' = <<>>
    /\ OnClose
    /\ UNCHANGED <<closing, late>>

(* The close event of a socket that the client has closed: the same handler. *)
OldSocketCloses ==
    /\ AtRest
    /\ \/ closing > 0 /\ closing' = closing - 1 /\ UNCHANGED late
       \/ late > 0 /\ late' = late - 1 /\ UNCHANGED closing
    /\ OnClose
    /\ UNCHANGED <<conn, srv, down, up, faults>>

(* The peer is gone, and the browser will know only later.                   *)
Dies ==
    /\ AtRest
    /\ conn = "open"
    /\ faults < MaxFaults
    /\ faults' = faults + 1
    /\ conn' = "dead"
    /\ srv' = NewSession
    /\ up' = <<>>
    /\ down' = <<>>
    /\ UNCHANGED <<closing, late, ws, timeVars, jobs, userVars, authVars, leaked>>

(* Sockette's timer: onreconnect, and a new socket.                          *)
Reconnect ==
    /\ AtRest
    /\ conn = "waiting"
    /\ conn' = "connecting"
    /\ jobs' = <<Do("empty", "", FALSE)>>
    /\ UNCHANGED <<closing, late, srv, down, up, ws, timeVars, userVars, authVars, histVars>>

PingTimer ==
    /\ AtRest
    /\ ping
    /\ DoPing
    /\ UNCHANGED <<connVars, ws, hb, pong, jobs, userVars, authVars, histVars>>

HbTimer ==
    /\ AtRest
    /\ hb
    /\ HbGivesUp(<<>>) \/ HbGoesOn(<<>>)
    /\ UNCHANGED <<connVars, ws, up, ping, userVars, authVars, histVars>>

(* No Pong for 4 s: without a fault only when nothing asks or answers.       *)
PongGetsOld ==
    /\ AtRest
    /\ pong = "fresh"
    /\ \/ (conn # "open" \/ ~ping) /\ UNCHANGED faults
       \/ faults < MaxFaults /\ faults' = faults + 1
    /\ pong' = "old"
    /\ UNCHANGED <<connVars, up, ws, ping, hb, jobs, userVars, authVars, leaked>>

(* updateOrderState() compares the pair of the message with the shared       *)
(* codes; the others ask only whether they are subscribed.                   *)
Accepts(w, t, s) ==
    w.subscribed[t] # NoSel /\ (t = "Liquidity" => w.codes = s)

(* CryptolpAxios.logout(): the page is left for /login.                      *)
Leave ==
    /\ Close
    /\ conn' = "closed"
    /\ srv' = NewSession
    /\ up' = <<>>
    /\ down' = <<>>
    /\ ws' = emptyState
    /\ ping' = FALSE
    /\ hb' = FALSE
    /\ pong' = "none"
    /\ jobs' = <<>>
    /\ page' = "Login"
    /\ token' = FALSE
    /\ refreshing' = 0
    /\ UNCHANGED <<sel, histVars>>

(* onmessage: Pong.                                                          *)
ReceivePong ==
    /\ AtRest
    /\ conn = "open"
    /\ down # <<>>
    /\ Head(down).cmd = "Pong"
    /\ down' = Tail(down)
    /\ pong' = "fresh"
    /\ UNCHANGED <<conn, closing, late, srv, up, ws, ping, hb, jobs, userVars, authVars, histVars>>

(* onmessage: an update of a topic.                                          *)
ReceiveUpdate ==
    /\ AtRest
    /\ conn = "open"
    /\ down # <<>>
    /\ Head(down).cmd = "Update"
    /\ LET m == Head(down)
       IN  jobs' = IF Accepts(ws, m.topic, m.arg) THEN <<Do("data", m.topic, m.arg)>> ELSE <<>>
    /\ down' = Tail(down)
    /\ UNCHANGED <<conn, closing, late, srv, up, ws, timeVars, userVars, authVars, histVars>>

(* processAuthorized(): nothing when the token was good; otherwise the       *)
(* refresh token is tried.                                                   *)
ReceiveAuthorized ==
    /\ AtRest
    /\ conn = "open"
    /\ down # <<>>
    /\ Head(down).cmd = "Authorized"
    /\ down' = Tail(down)
    /\ refreshing' = IF Head(down).arg THEN refreshing ELSE refreshing + 1
    /\ UNCHANGED <<conn, closing, late, srv, up, ws, timeVars, jobs, userVars, token, histVars>>

(* loginByRefreshToken(), getClientType() and setToken(), and then auth() on *)
(* the socket that is then this.wsConnection.                                *)
Refreshed ==
    /\ AtRest
    /\ refreshing > 0
    /\ refreshing' = refreshing - 1
    /\ token' = TRUE
    /\ jobs' = <<Do("auth", "", FALSE)>>
    /\ UNCHANGED <<connVars, up, ws, timeVars, userVars, histVars>>

RefreshFails ==
    /\ AtRest
    /\ refreshing > 0
    /\ Leave

(* The access token expires.                                                 *)
TokenExpires ==
    /\ AtRest
    /\ token
    /\ page # "Login"
    /\ faults < MaxFaults
    /\ faults' = faults + 1
    /\ token' = FALSE
    /\ UNCHANGED <<connVars, up, ws, timeVars, jobs, userVars, refreshing, leaked>>

-----------------------------------------------------------------------------
(* The user: tasks too.                                                      *)

(* Bounds: the user waits for the last messages, and for a new token.        *)
UserMayAct == AtRest /\ page # "Login" /\ Len(up) < MaxQueue /\ refreshing = 0

(* A link to another page: the old one is unmounted, the new one mounted.    *)
(* A page opened by a URL with another interval hides its "now" at once.     *)
Open(p, withInterval) ==
    /\ UserMayAct
    /\ p # page
    /\ withInterval => p \in IntervalTopics
    /\ LET r == PageUnmount(ws, page, <<>>, up)
           e == PageUpdate(ws, p, sel, r.jobs, r.up)
       IN  /\ jobs' = e.jobs \o (IF withInterval THEN <<Do("hide", "", NoSel)>> ELSE <<>>)
           /\ up' = e.up
    /\ page' = p
    /\ UNCHANGED <<connVars, ws, timeVars, sel, authVars, histVars>>

(* A selection; a link that changes both the exchange and the pair changes   *)
(* it twice.                                                                 *)
Select(s, between) ==
    /\ UserMayAct
    /\ s # sel
    /\ jobs' = (IF between = NoSel THEN <<>> ELSE <<Do("select", "", between)>>)
               \o <<Do("select", "", s)>>
    /\ UNCHANGED <<connVars, up, ws, timeVars, userVars, authVars, histVars>>

(* The interval is changed from "now" to another.                            *)
ChangeInterval ==
    /\ UserMayAct
    /\ page \in IntervalTopics
    /\ jobs' = <<Do("hide", "", NoSel)>>
    /\ UNCHANGED <<connVars, up, ws, timeVars, userVars, authVars, histVars>>

(* A new login loads the page anew.                                          *)
SignIn ==
    /\ page = "Login"
    /\ FreshPage
    /\ UNCHANGED faults

User ==
    \/ \E p \in Pages \ {"Login"}, withInterval \in BOOLEAN : Open(p, withInterval)
    \/ \E s \in Sels, between \in Sels \cup {NoSel} : Select(s, between)
    \/ ChangeInterval
    \/ SignIn

-----------------------------------------------------------------------------
(* The session.  It takes its messages in order.                             *)

FirstUp(cmd) == AtRest /\ conn = "open" /\ up # <<>> /\ Head(up).cmd = cmd

Answer(msgs) == down' = down \o msgs

(* auth() *)
SrvAuth ==
    /\ FirstUp("Auth")
    /\ srv' = [srv EXCEPT !.auth = Head(up).arg]
    /\ Answer(<<[cmd |-> "Authorized", topic |-> "", arg |-> Head(up).arg]>>)
    /\ up' = Tail(up)
    /\ UNCHANGED <<conn, closing, late, ws, timeVars, jobs, userVars, authVars, histVars>>

(* ping() *)
SrvPing ==
    /\ FirstUp("Ping")
    /\ Answer(<<[cmd |-> "Pong", topic |-> "", arg |-> NoSel]>>)
    /\ up' = Tail(up)
    /\ UNCHANGED <<conn, closing, late, srv, ws, timeVars, jobs, userVars, authVars, histVars>>

(* subscribe_*(), unsubscribe_*(): no answer, and authorization is not asked *)
SrvSubscribe ==
    /\ FirstUp("Subscribe") \/ FirstUp("Unsubscribe")
    /\ LET m == Head(up)
       IN  srv' = [srv EXCEPT !.sub[m.topic] = IF m.cmd = "Subscribe" THEN m.arg ELSE NoSel]
    /\ up' = Tail(up)
    /\ UNCHANGED <<conn, closing, late, down, ws, timeVars, jobs, userVars, authVars, histVars>>

(* LiquidityResponseMessage, BalancesResponseMessage: to an authorized       *)
(* session, for what it is subscribed to.  Data is abstracted to the pair it *)
(* is of, so an update of what the page shows already is left out.           *)
SrvPublish(t) ==
    /\ AtRest
    /\ conn = "open"
    /\ srv.auth
    /\ srv.sub[t] \notin {NoSel, ws.data[t]}
    /\ Len(down) < MaxQueue
    /\ Answer(<<[cmd |-> "Update", topic |-> t, arg |-> srv.sub[t]]>>)
    /\ UNCHANGED <<conn, closing, late, srv, up, ws, timeVars, jobs, userVars, authVars, histVars>>

Server == SrvAuth \/ SrvPing \/ SrvSubscribe \/ \E t \in Served : SrvPublish(t)

Events == Opened \/ Breaks \/ OldSocketCloses \/ Dies \/ Reconnect
            \/ PingTimer \/ HbTimer \/ PongGetsOld
            \/ ReceivePong \/ ReceiveUpdate \/ ReceiveAuthorized
            \/ Refreshed \/ RefreshFails \/ TokenExpires

Next == Microtask \/ Yield \/ Events \/ User \/ Server

Spec == Init /\ [][Next]_vars

(* The event loop runs its microtasks and gives every kind of task its turn: *)
(* timers fire, sockets open or fail, the network delivers, the server       *)
(* answers, and what is not heard gets old.  The user need not act.          *)
Fairness ==
    /\ WF_vars(Microtask)
    /\ WF_vars(Opened)
    /\ WF_vars(conn = "dead" /\ Breaks)
    /\ WF_vars(OldSocketCloses)
    /\ WF_vars(Reconnect)
    /\ WF_vars(HbTimer)
    /\ WF_vars(PingTimer)
    /\ WF_vars((conn # "open" \/ ~ping) /\ PongGetsOld)
    /\ WF_vars(ReceivePong \/ ReceiveUpdate \/ ReceiveAuthorized)
    /\ WF_vars(Refreshed)
    /\ WF_vars(SrvAuth \/ SrvPing \/ SrvSubscribe)

FairSpec == Spec /\ Fairness

-----------------------------------------------------------------------------
(* Properties. *)

TypeOK ==
    /\ conn \in Conn
    /\ closing \in Nat
    /\ late \in Nat
    /\ srv \in Session
    /\ up \in Seq(UpMessage)
    /\ down \in Seq(DownMessage)
    /\ ws \in WsState
    /\ ping \in BOOLEAN
    /\ hb \in BOOLEAN
    /\ pong \in {"none", "fresh", "old"}
    /\ jobs \in Seq(Job)
    /\ page \in Pages
    /\ sel \in Sels \cup {NoSel}
    /\ token \in BOOLEAN
    /\ refreshing \in Nat
    /\ faults \in 0..MaxFaults
    /\ leaked \in BOOLEAN

(* oneTimeInvoke() sends when isConnected is set and catches nothing: a send *)
(* on a socket that is still connecting would throw and break the chain of   *)
(* the subscription.  Whatever closes and opens sockets, isConnected is not  *)
(* set while the current one connects.                                       *)
NoSendBeforeOpen == ws.isConnected => conn # "connecting"

(* When the page is at rest and the session has taken every message, the     *)
(* session is subscribed to what subscribedLiquidity and subscribedBalances  *)
(* say, however many updates of the subscription ran into each other.        *)
ServerAgrees ==
    AtRest /\ ws.isConnected /\ conn = "open" /\ up = <<>>
        => \A t \in Served : srv.sub[t] = ws.subscribed[t]

(* The order book that LiquidityNow shows is the selected one, and so are    *)
(* the indicators shown with it, although they are set in two steps and the  *)
(* unsubscription leaves them alone.                                         *)
PaintedBookIsSelected ==
    AtRest /\ page = "Liquidity" /\ ~leaked /\ ws.data["Liquidity"] # NoSel
        => ws.data["Liquidity"] = sel /\ ws.indicators = sel

(* The pages that do not ask whether they are subscribed: setState() renders *)
(* them, they subscribe, and that sets the state again.                      *)
Unguarded == {"TradeSignals", "Dashboard"}

(* A page that was left keeps no subscription and no data.  (LiquidityNow    *)
(* and VolumeNow can: see the README.)                                       *)
PagesLeaveNothing ==
    AtRest /\ ~leaked
        => \A t \in Topics \ (Unguarded \cup {page}) :
              ws.subscribed[t] = NoSel /\ ws.data[t] = NoSel

(* Every task ends: subscribing, setting the state and rendering again comes *)
(* to rest on every page that compares before it subscribes.                 *)
TasksEnd == []<>(AtRest \/ page \in Unguarded)

Synced ==
    /\ AtRest
    /\ conn = "open"
    /\ ws.isConnected
    /\ srv.auth
    /\ page = "Liquidity" => srv.sub["Liquidity"] = sel /\ (ws.codes = sel \/ leaked)
    /\ page = "Balances" => srv.sub["Balances"] = On

(* Once the user stops, the client is always connected, authorized and       *)
(* subscribed again after the faults: hb(), Sockette and the refresh of the  *)
(* token do not get in each other's way for ever.                            *)
Recovers ==
    <>[][UNCHANGED userVars]_vars => []<>(Synced \/ page = "Login" \/ page \in Unguarded)
=============================================================================
