--------------------------- MODULE WsClientProofs ---------------------------
(* Proofs about WsClient. *)
EXTENDS WsClient, TLAPS

-----------------------------------------------------------------------------
(* What jobs and messages are like: only some of them carry a topic, and the *)
(* argument is a subscription or an answer to a yes-or-no question.          *)

SubJob ==
    [kind : {"subscribe", "resubscribe", "subscribed", "unsubscribed", "data"},
     topic : Topics, arg : Subs]

FlagJob == [kind : {"auth", "authorized", "empty"}, topic : {""}, arg : BOOLEAN]

SelJob == [kind : {"select"}, topic : {""}, arg : Sels]

BareJob == [kind : {"connected", "timers", "replace", "hide", "indicators"}, topic : {""}, arg : Subs]

GoodJob == SubJob \cup FlagJob \cup SelJob \cup BareJob

GoodUp ==
    [cmd : {"Subscribe", "Unsubscribe"}, topic : Served, arg : Subs]
      \cup [cmd : {"Auth"}, topic : {""}, arg : BOOLEAN]
      \cup [cmd : {"Ping"}, topic : {""}, arg : Subs]

GoodDown ==
    [cmd : {"Update"}, topic : Served, arg : Subs]
      \cup [cmd : {"Authorized"}, topic : {""}, arg : BOOLEAN]
      \cup [cmd : {"Pong"}, topic : {""}, arg : Subs]

ConnTyped == conn \in Conn /\ closing \in Nat /\ late \in Nat /\ srv \in Session
TimeTyped == ping \in BOOLEAN /\ hb \in BOOLEAN /\ pong \in {"none", "fresh", "old"}
UserTyped == page \in Pages /\ sel \in Sels \cup {NoSel}
AuthTyped == token \in BOOLEAN /\ refreshing \in Nat
HistTyped == faults \in 0..MaxFaults /\ leaked \in BOOLEAN

Typed ==
    /\ ConnTyped /\ down \in Seq(GoodDown)
    /\ up \in Seq(GoodUp)
    /\ ws \in WsState
    /\ TimeTyped
    /\ jobs \in Seq(GoodJob)
    /\ UserTyped
    /\ AuthTyped
    /\ HistTyped

LEMMA GoodIsTyped ==
    GoodJob \subseteq Job /\ GoodUp \subseteq UpMessage /\ GoodDown \subseteq DownMessage
<1>1. GoodJob \subseteq Job
  BY DEF GoodJob, SubJob, FlagJob, SelJob, BareJob, Job, JobKinds, Subs
<1>2. GoodUp \subseteq UpMessage /\ GoodDown \subseteq DownMessage
  BY TopicsAssumption DEF GoodUp, GoodDown, UpMessage, DownMessage
<1> QED BY <1>1, <1>2

LEMMA SeqSubset ==
    ASSUME NEW S, NEW T, S \subseteq T
    PROVE  Seq(S) \subseteq Seq(T)
OBVIOUS

LEMMA AppendTyped ==
    ASSUME NEW S, NEW q \in Seq(S), NEW m \in S
    PROVE  Append(q, m) \in Seq(S)
OBVIOUS

LEMMA HeadTailTyped ==
    ASSUME NEW S, NEW q \in Seq(S), q # <<>>
    PROVE  Head(q) \in S /\ Tail(q) \in Seq(S)
OBVIOUS

LEMMA ConcatOne ==
    ASSUME NEW S, NEW q \in Seq(S)
    PROVE  q \o <<>> = q /\ \A m \in S : q \o <<m>> = Append(q, m)
OBVIOUS

LEMMA TypedIsTypeOK == Typed => TypeOK
<1> SUFFICES ASSUME Typed PROVE TypeOK
  OBVIOUS
<1>1. up \in Seq(UpMessage) /\ down \in Seq(DownMessage) /\ jobs \in Seq(Job)
  BY GoodIsTyped, SeqSubset, Zenon DEF Typed
<1> QED BY <1>1, Zenon DEF Typed, TypeOK, ConnTyped, TimeTyped, UserTyped, AuthTyped, HistTyped

(* What a page does when it is rendered or left, and oneTimeInvoke(): at     *)
(* most one job, and at most the one message that goes with it.              *)
PageStep(w, js, q, js2, q2) ==
    \/ js2 = js /\ q2 = q
    \/ \E t \in Topics, s \in Subs : js2 = Append(js, Do("subscribe", t, s)) /\ q2 = q
    \/ /\ w.isConnected
       /\ \E t \in Topics, s \in Subs, a \in Subs :
            js2 = Append(js, Do("unsubscribed", t, s)) /\ q2 = Sent(q, UpMsg("Unsubscribe", t, a))
    \/ /\ w.isConnected
       /\ \E t \in Topics, s \in Subs :
            js2 = Append(js, Do("subscribed", t, s)) /\ q2 = Sent(q, UpMsg("Subscribe", t, s))

LEMMA UpdateSubscriptionStep ==
    ASSUME NEW w \in WsState, NEW t \in Topics, NEW s \in Sels \cup {NoSel}, NEW js, NEW q
    PROVE  LET r == updateSubscription(w, t, s, js, q) IN PageStep(w, js, q, r.jobs, r.up)
<1>1. s \in Subs /\ w.subscribed[t] \in Subs
  BY DEF Subs, WsState
<1> QED BY <1>1 DEF updateSubscription, PageStep, Effect

LEMMA SubscribeFlagStep ==
    ASSUME NEW w \in WsState, NEW t \in Topics, NEW js, NEW q
    PROVE  LET r == subscribeFlag(w, t, js, q) IN PageStep(w, js, q, r.jobs, r.up)
<1>1. On \in Subs
  BY DEF Subs
<1> QED BY <1>1 DEF subscribeFlag, NeedsFlag, PageStep, Effect

LEMMA PageUpdateStep ==
    ASSUME NEW w \in WsState, NEW p \in Pages, NEW s \in Sels \cup {NoSel}, NEW js, NEW q
    PROVE  LET r == PageUpdate(w, p, s, js, q) IN PageStep(w, js, q, r.jobs, r.up)
<1>1. PageStep(w, js, q, Effect(js, q).jobs, Effect(js, q).up)
  BY DEF Effect, PageStep
<1>2. CASE p = "Liquidity"
  <2>1. "Liquidity" \in Topics
    BY <1>2 DEF Pages
  <2> QED BY <1>2, <2>1, UpdateSubscriptionStep DEF PageUpdate, LiquidityNow
<1>3. CASE p = "Volume"
  <2>1. "Volume" \in Topics
    BY <1>3 DEF Pages
  <2> QED BY <1>1, <1>3, <2>1, UpdateSubscriptionStep DEF PageUpdate, VolumeNow
<1>4. CASE p = "PL"
  <2>1. "PL" \in Topics
    BY <1>4 DEF Pages
  <2> QED BY <1>1, <1>4, <2>1, UpdateSubscriptionStep DEF PageUpdate, PL
<1>5. CASE p = "Balances"
  <2>1. "Balances" \in Topics
    BY <1>5 DEF Pages
  <2> QED BY <1>5, <2>1, SubscribeFlagStep DEF PageUpdate, Balances
<1>6. CASE p = "TradeSignals"
  <2>1. "TradeSignals" \in Topics
    BY <1>6 DEF Pages
  <2> QED BY <1>6, <2>1, SubscribeFlagStep DEF PageUpdate, TradeSignals
<1>7. CASE p = "Dashboard"
  <2>1. "Dashboard" \in Topics
    BY <1>7 DEF Pages
  <2> QED BY <1>7, <2>1, SubscribeFlagStep DEF PageUpdate, Dashboard
<1>8. CASE p \notin AllTopics
  BY <1>1, <1>8 DEF PageUpdate, AllTopics
<1> QED BY <1>2, <1>3, <1>4, <1>5, <1>6, <1>7, <1>8 DEF AllTopics

LEMMA PageUnmountStep ==
    ASSUME NEW w \in WsState, NEW p \in Pages, NEW js, NEW q
    PROVE  LET r == PageUnmount(w, p, js, q) IN PageStep(w, js, q, r.jobs, r.up)
<1>1. p \in Topics => w.subscribed[p] \in Subs
  BY DEF WsState
<1>2. NoSel \in Subs
  BY DEF Subs
<1> QED BY <1>1, <1>2 DEF PageUnmount, PageStep, Effect

LEMMA SentTyped ==
    ASSUME NEW q \in Seq(GoodUp), NEW t \in Topics \cup {""}, NEW a \in Subs \cup BOOLEAN, NEW c,
           \/ c \in {"Subscribe", "Unsubscribe"} /\ t \in Topics /\ a \in Subs
           \/ c = "Auth" /\ t = "" /\ a \in BOOLEAN
           \/ c = "Ping" /\ t = "" /\ a \in Subs
    PROVE  Sent(q, UpMsg(c, t, a)) \in Seq(GoodUp)
<1>1. CASE conn = "open" /\ t \in Served \cup {""}
  <2>1. "" \notin Topics
    BY TopicsAssumption DEF AllTopics
  <2>2. UpMsg(c, t, a) \in GoodUp
    BY <1>1, <2>1 DEF UpMsg, GoodUp
  <2>3. UpMsg(c, t, a).topic = t
    BY DEF UpMsg
  <2>4. Sent(q, UpMsg(c, t, a)) = Append(q, UpMsg(c, t, a))
    BY <1>1, <2>3 DEF Sent
  <2> QED BY <2>2, <2>4, AppendTyped, Zenon
<1>2. CASE ~(conn = "open" /\ t \in Served \cup {""})
  BY <1>2 DEF Sent, UpMsg
<1> QED BY <1>1, <1>2

LEMMA PageStepTyped ==
    ASSUME NEW w \in WsState, NEW js \in Seq(GoodJob), NEW q \in Seq(GoodUp), NEW js2, NEW q2,
           PageStep(w, js, q, js2, q2)
    PROVE  js2 \in Seq(GoodJob) /\ q2 \in Seq(GoodUp)
<1>1. \A t \in Topics, s \in Subs :
         /\ Do("subscribe", t, s) \in GoodJob /\ Do("unsubscribed", t, s) \in GoodJob
         /\ Do("subscribed", t, s) \in GoodJob
  BY DEF Do, GoodJob, SubJob
<1>3. \A t \in Topics, a \in Subs :
         /\ Sent(q, UpMsg("Unsubscribe", t, a)) \in Seq(GoodUp)
         /\ Sent(q, UpMsg("Subscribe", t, a)) \in Seq(GoodUp)
  BY SentTyped
<1>4. \A j \in GoodJob : Append(js, j) \in Seq(GoodJob)
  OBVIOUS
<1>5. CASE js2 = js /\ q2 = q
  BY <1>5
<1>6. CASE \E t \in Topics, s \in Subs : js2 = Append(js, Do("subscribe", t, s)) /\ q2 = q
  BY <1>1, <1>4, <1>6
<1>7. CASE \E t \in Topics, s \in Subs, a \in Subs :
             js2 = Append(js, Do("unsubscribed", t, s)) /\ q2 = Sent(q, UpMsg("Unsubscribe", t, a))
  BY <1>1, <1>3, <1>4, <1>7
<1>8. CASE \E t \in Topics, s \in Subs :
             js2 = Append(js, Do("subscribed", t, s)) /\ q2 = Sent(q, UpMsg("Subscribe", t, s))
  BY <1>1, <1>3, <1>4, <1>8
<1> QED BY <1>5, <1>6, <1>7, <1>8 DEF PageStep

-----------------------------------------------------------------------------
(* Types *)

LEMMA SetStateTyped ==
    ASSUME Typed, NEW w \in WsState, NEW js \in Seq(GoodJob), NEW then,
           then = <<>> \/ \E j \in GoodJob : then = <<j>>,
           SetState(w, js, then)
    PROVE  ws' \in WsState /\ jobs' \in Seq(GoodJob) /\ up' \in Seq(GoodUp)
<1> DEFINE r == PageUpdate(w, page, sel, js, up)
<1>1. ws' = w /\ jobs' = r.jobs \o then /\ up' = r.up
  BY DEF SetState
<1>2. page \in Pages /\ sel \in Sels \cup {NoSel} /\ up \in Seq(GoodUp)
  BY DEF Typed, UserTyped
<1>3. r.jobs \in Seq(GoodJob) /\ r.up \in Seq(GoodUp)
  BY <1>2, PageUpdateStep, PageStepTyped
<1> HIDE DEF r
<1>4. r.jobs \o then \in Seq(GoodJob)
  <2>1. CASE then = <<>>
    BY <1>3, <2>1, ConcatOne
  <2>2. ASSUME NEW j \in GoodJob, then = <<j>> PROVE r.jobs \o then \in Seq(GoodJob)
    <3>1. r.jobs \o <<j>> = Append(r.jobs, j)
      BY <1>3, <2>2, ConcatOne
    <3>2. Append(r.jobs, j) \in Seq(GoodJob)
      BY <1>3, <2>2, AppendTyped
    <3> QED BY <2>2, <3>1, <3>2
  <2> QED BY <2>1, <2>2
<1> QED BY <1>1, <1>3, <1>4

(* The job at the head of the queue, and the rest. *)
LEMMA TakeFacts ==
    ASSUME Typed, jobs # <<>>
    PROVE  /\ Head(jobs) \in GoodJob /\ Tail(jobs) \in Seq(GoodJob)
           /\ Head(jobs).kind \in {"subscribe", "resubscribe", "subscribed", "unsubscribed", "data"}
                => Head(jobs).topic \in Topics /\ Head(jobs).arg \in Subs
           /\ Head(jobs).kind \in {"auth", "authorized", "empty"} => Head(jobs).arg \in BOOLEAN
           /\ Head(jobs).kind = "select" => Head(jobs).arg \in Sels
           /\ Head(jobs).kind = "indicators" => Head(jobs).arg \in Subs
<1>1. Head(jobs) \in GoodJob /\ Tail(jobs) \in Seq(GoodJob)
  BY HeadTailTyped, Zenon DEF Typed
<1>2. ASSUME NEW j \in GoodJob
      PROVE  /\ j.kind \in {"subscribe", "resubscribe", "subscribed", "unsubscribed", "data"}
                => j.topic \in Topics /\ j.arg \in Subs
             /\ j.kind \in {"auth", "authorized", "empty"} => j.arg \in BOOLEAN
             /\ j.kind = "select" => j.arg \in Sels
             /\ j.kind = "indicators" => j.arg \in Subs
  BY <1>2 DEF GoodJob, SubJob, FlagJob, SelJob, BareJob
<1> QED BY <1>1, <1>2

LEMMA DoTyped ==
    /\ \A k \in {"subscribe", "resubscribe", "subscribed", "unsubscribed", "data"}, t \in Topics, a \in Subs :
          Do(k, t, a) \in GoodJob
    /\ \A k \in {"auth", "authorized", "empty"}, a \in BOOLEAN : Do(k, "", a) \in GoodJob
    /\ \A a \in Sels : Do("select", "", a) \in GoodJob
    /\ \A k \in {"connected", "timers", "replace", "hide", "indicators"}, a \in Subs :
          Do(k, "", a) \in GoodJob
    /\ NoSel \in Subs /\ On \in Subs
BY DEF Do, GoodJob, SubJob, FlagJob, SelJob, BareJob, Subs

LEMMA WsTyped ==
    ASSUME NEW w \in WsState, NEW t \in Topics, NEW a \in Subs, NEW c \in Subs
    PROVE  /\ [w EXCEPT !.subscribed[t] = a, !.codes = c] \in WsState
           /\ [w EXCEPT !.subscribed[t] = NoSel, !.data[t] = NoSel] \in WsState
           /\ [w EXCEPT !.data[t] = a] \in WsState
           /\ [w EXCEPT !.indicators = a] \in WsState
           /\ [w EXCEPT !.isConnected = TRUE] \in WsState
           /\ emptyState \in WsState
<1>1. NoSel \in Subs
  BY DEF Subs
<1> QED BY <1>1 DEF WsState, emptyState

LEMMA MicrotaskTyped ==
    ASSUME Typed, Microtask
    PROVE  Typed'
<1> DEFINE j == Head(jobs)
           rest == Tail(jobs)
<1>0. jobs # <<>>
  BY DEF Microtask, Take, Subscribe, Subscribed, Unsubscribed, Connected, SendAuth, Authorized,
         Timers, Empty, Replace, SetData, SetIndicators, ApplySelection, HideNow
<1>1. /\ j \in GoodJob /\ rest \in Seq(GoodJob)
      /\ j.kind \in {"subscribe", "resubscribe", "subscribed", "unsubscribed", "data"}
           => j.topic \in Topics /\ j.arg \in Subs
      /\ j.kind \in {"auth", "authorized", "empty"} => j.arg \in BOOLEAN
      /\ j.kind = "select" => j.arg \in Sels
      /\ j.kind = "indicators" => j.arg \in Subs
  BY <1>0, TakeFacts
<1>2. /\ NoSel \in Subs /\ On \in Subs
      /\ \A m \in GoodJob : Append(rest, m) \in Seq(GoodJob)
  BY <1>1, DoTyped, AppendTyped
<1>3. /\ up \in Seq(GoodUp) /\ ws \in WsState /\ down \in Seq(GoodDown)
      /\ ConnTyped /\ TimeTyped /\ UserTyped /\ AuthTyped /\ HistTyped
  BY DEF Typed
<1> HIDE DEF j, rest
<1>4. ASSUME ws' \in WsState, jobs' \in Seq(GoodJob), up' \in Seq(GoodUp),
             UNCHANGED <<connVars, timeVars, userVars, authVars, histVars>>
      PROVE  Typed'
  BY <1>3, <1>4 DEF Typed, connVars, timeVars, userVars, authVars, histVars,
                   ConnTyped, TimeTyped, UserTyped, AuthTyped, HistTyped
<1>5. CASE Subscribe
  <2>1. /\ j.kind \in {"subscribe", "resubscribe"}
        /\ UNCHANGED <<connVars, ws, timeVars, userVars, authVars, histVars>>
        /\ \/ /\ up' = Sent(up, UpMsg("Subscribe", j.topic, j.arg))
              /\ jobs' = Append(rest, Do("subscribed", j.topic, j.arg))
           \/ jobs' = rest /\ up' = up
    BY <1>5 DEF Subscribe, Take, j, rest
  <2>2. j.topic \in Topics /\ j.arg \in Subs
    BY <1>1, <2>1
  <2>3. Sent(up, UpMsg("Subscribe", j.topic, j.arg)) \in Seq(GoodUp)
    BY <1>3, <2>2, SentTyped
  <2>4. Append(rest, Do("subscribed", j.topic, j.arg)) \in Seq(GoodJob)
    BY <1>2, <2>2, DoTyped
  <2>5. jobs' \in Seq(GoodJob) /\ up' \in Seq(GoodUp) /\ ws' \in WsState
    BY <1>1, <1>3, <2>1, <2>3, <2>4
  <2> QED BY <1>4, <2>1, <2>5
<1>6. CASE Subscribed
  <2> DEFINE c == IF j.topic \in FlagTopics THEN ws.codes ELSE j.arg
             w == [ws EXCEPT !.subscribed[j.topic] = j.arg, !.codes = c]
  <2>1. j.topic \in Topics /\ j.arg \in Subs /\ ws.codes \in Subs
    BY <1>1, <1>3, <1>6 DEF Subscribed, Take, j, WsState
  <2>2. SetState(w, rest, <<>>)
    BY <1>6 DEF Subscribed, j, rest
  <2>3. w \in WsState
    BY <1>3, <2>1, WsTyped
  <2> HIDE DEF w
  <2>4. jobs' \in Seq(GoodJob) /\ up' \in Seq(GoodUp) /\ ws' \in WsState
    BY <1>1, <2>2, <2>3, SetStateTyped
  <2> QED BY <1>4, <1>6, <2>4 DEF Subscribed
<1>7. CASE Unsubscribed
  <2> DEFINE w == [ws EXCEPT !.subscribed[j.topic] = NoSel, !.data[j.topic] = NoSel]
             then == IF j.arg = NoSel THEN <<>> ELSE <<Do("resubscribe", j.topic, j.arg)>>
  <2>1. j.topic \in Topics /\ j.arg \in Subs
    BY <1>1, <1>7 DEF Unsubscribed, Take, j
  <2>2. SetState(w, rest, then)
    BY <1>7 DEF Unsubscribed, j, rest
  <2>3. w \in WsState
    BY <1>3, <2>1, WsTyped
  <2>4. then = <<>> \/ \E m \in GoodJob : then = <<m>>
    BY <2>1, DoTyped
  <2> HIDE DEF w, then
  <2>5. jobs' \in Seq(GoodJob) /\ up' \in Seq(GoodUp) /\ ws' \in WsState
    BY <1>1, <2>2, <2>3, <2>4, SetStateTyped
  <2> QED BY <1>4, <1>7, <2>5 DEF Unsubscribed
<1>8. CASE Connected
  <2> DEFINE w == [ws EXCEPT !.isConnected = TRUE]
             then == <<Do("auth", "", TRUE)>>
  <2>1. SetState(w, rest, then)
    BY <1>8 DEF Connected, rest
  <2>2. w \in WsState
    BY <1>3 DEF WsState
  <2>3. then = <<>> \/ \E m \in GoodJob : then = <<m>>
    BY DoTyped
  <2> HIDE DEF w, then
  <2>4. jobs' \in Seq(GoodJob) /\ up' \in Seq(GoodUp) /\ ws' \in WsState
    BY <1>1, <2>1, <2>2, <2>3, SetStateTyped
  <2> QED BY <1>4, <1>8, <2>4 DEF Connected
<1>9. CASE SendAuth
  <2>1. j.kind = "auth" /\ j.arg \in BOOLEAN /\ token \in BOOLEAN
    BY <1>1, <1>3, <1>9 DEF SendAuth, Take, j, AuthTyped
  <2>2. /\ UNCHANGED <<connVars, ws, timeVars, userVars, authVars, histVars>>
        /\ \/ up' = Sent(up, UpMsg("Auth", "", token)) /\ jobs' = Append(rest, Do("authorized", "", j.arg))
           \/ up' = up /\ jobs' = rest \o <<Do("timers", "", NoSel)>>
           \/ up' = up /\ jobs' = rest \o <<>>
    BY <1>9 DEF SendAuth, j, rest
  <2>3. Sent(up, UpMsg("Auth", "", token)) \in Seq(GoodUp)
    BY <1>3, <2>1, SentTyped
  <2>4. /\ Append(rest, Do("authorized", "", j.arg)) \in Seq(GoodJob)
        /\ Append(rest, Do("timers", "", NoSel)) \in Seq(GoodJob)
        /\ Do("timers", "", NoSel) \in GoodJob
    BY <1>2, <2>1, DoTyped
  <2>5. rest \o <<Do("timers", "", NoSel)>> \in Seq(GoodJob) /\ rest \o <<>> \in Seq(GoodJob)
    BY <1>1, <2>4, ConcatOne
  <2>6. jobs' \in Seq(GoodJob) /\ up' \in Seq(GoodUp) /\ ws' \in WsState
    BY <1>3, <2>2, <2>3, <2>4, <2>5
  <2> QED BY <1>4, <2>2, <2>6
<1>10. CASE Authorized
  <2> DEFINE then == IF j.arg THEN <<Do("timers", "", NoSel)>> ELSE <<>>
  <2>1. SetState(ws, rest, then)
    BY <1>10 DEF Authorized, rest, j
  <2>2. then = <<>> \/ \E m \in GoodJob : then = <<m>>
    BY DoTyped
  <2> HIDE DEF then
  <2>3. jobs' \in Seq(GoodJob) /\ up' \in Seq(GoodUp) /\ ws' \in WsState
    BY <1>1, <1>3, <2>1, <2>2, SetStateTyped
  <2> QED BY <1>4, <1>10, <2>3 DEF Authorized
<1>11. CASE Timers
  <2>1. DoPing /\ UNCHANGED <<connVars, ws, userVars, authVars, histVars>>
    BY <1>11 DEF Timers
  <2>2. HbGivesUp(rest) \/ HbGoesOn(rest)
    BY <1>11 DEF Timers, rest
  <2>3. Sent(up, UpMsg("Ping", "", NoSel)) \in Seq(GoodUp)
    BY <1>2, <1>3, SentTyped
  <2>4. ping' \in BOOLEAN /\ up' \in Seq(GoodUp)
    BY <1>3, <2>1, <2>3 DEF DoPing
  <2>5. Append(rest, Do("empty", "", TRUE)) \in Seq(GoodJob)
    BY <1>2, DoTyped
  <2>6. jobs' \in Seq(GoodJob) /\ hb' \in BOOLEAN /\ pong' \in {"none", "fresh", "old"}
    BY <1>1, <1>3, <2>2, <2>5 DEF HbGivesUp, HbGoesOn, TimeTyped
  <2> QED BY <1>3, <2>1, <2>4, <2>6
          DEF Typed, connVars, userVars, authVars, histVars, ConnTyped, TimeTyped, UserTyped,
              AuthTyped, HistTyped
<1>12. CASE Empty
  <2> DEFINE then == IF j.arg THEN <<Do("replace", "", NoSel)>> ELSE <<>>
  <2>1. SetState(emptyState, rest, then)
    BY <1>12 DEF Empty, rest, j
  <2>2. then = <<>> \/ \E m \in GoodJob : then = <<m>>
    BY DoTyped
  <2>3. emptyState \in WsState
    BY <1>2 DEF emptyState, WsState
  <2> HIDE DEF then
  <2>4. jobs' \in Seq(GoodJob) /\ up' \in Seq(GoodUp) /\ ws' \in WsState
    BY <1>1, <2>1, <2>2, <2>3, SetStateTyped
  <2>5. UNCHANGED <<connVars, timeVars, userVars, authVars, faults>> /\ leaked' = FALSE
    BY <1>12 DEF Empty
  <2> QED BY <1>3, <2>4, <2>5
          DEF Typed, connVars, timeVars, userVars, authVars, ConnTyped, TimeTyped, UserTyped,
              AuthTyped, HistTyped
<1>13. CASE Replace
  <2>1. /\ closing' \in Nat /\ late' \in Nat
        /\ conn' = "connecting" /\ srv' = NewSession /\ up' = <<>> /\ down' = <<>> /\ jobs' = rest
        /\ UNCHANGED <<ws, timeVars, userVars, authVars, histVars>>
    BY <1>3, <1>13 DEF Replace, Close, ConnTyped, rest
  <2>2. NewSession \in Session /\ "connecting" \in Conn
    BY <1>2 DEF NewSession, Session, Conn
  <2>3. up' \in Seq(GoodUp) /\ down' \in Seq(GoodDown)
    BY <2>1
  <2> QED BY <1>1, <1>3, <2>1, <2>2, <2>3
          DEF Typed, timeVars, userVars, authVars, histVars, ConnTyped, TimeTyped, UserTyped,
              AuthTyped, HistTyped
<1>14. CASE SetData
  <2> DEFINE w == [ws EXCEPT !.data[j.topic] = j.arg]
             then == IF j.topic = "Liquidity" THEN <<Do("indicators", "", j.arg)>> ELSE <<>>
  <2>1. j.topic \in Topics /\ j.arg \in Subs
    BY <1>1, <1>14 DEF SetData, Take, j
  <2>2. SetState(w, rest, then)
    BY <1>14 DEF SetData, j, rest
  <2>3. w \in WsState
    BY <1>3, <2>1, WsTyped
  <2>4. then = <<>> \/ \E m \in GoodJob : then = <<m>>
    BY <2>1, DoTyped
  <2> HIDE DEF w, then
  <2>5. jobs' \in Seq(GoodJob) /\ up' \in Seq(GoodUp) /\ ws' \in WsState
    BY <1>1, <2>2, <2>3, <2>4, SetStateTyped
  <2> QED BY <1>4, <1>14, <2>5 DEF SetData
<1>15. CASE SetIndicators
  <2> DEFINE w == [ws EXCEPT !.indicators = j.arg]
  <2>1. j.arg \in Subs
    BY <1>1, <1>15 DEF SetIndicators, Take, j
  <2>2. SetState(w, rest, <<>>)
    BY <1>15 DEF SetIndicators, j, rest
  <2>3. w \in WsState
    BY <1>3, <2>1 DEF WsState
  <2> HIDE DEF w
  <2>4. jobs' \in Seq(GoodJob) /\ up' \in Seq(GoodUp) /\ ws' \in WsState
    BY <1>1, <2>2, <2>3, SetStateTyped
  <2> QED BY <1>4, <1>15, <2>4 DEF SetIndicators
<1>16. CASE ApplySelection
  <2> DEFINE r == PageUpdate(ws, page, j.arg, rest, up)
  <2>1. j.arg \in Sels /\ page \in Pages
    BY <1>1, <1>3, <1>16 DEF ApplySelection, Take, j, UserTyped
  <2>2. jobs' = r.jobs /\ up' = r.up /\ sel' = j.arg
        /\ UNCHANGED <<connVars, ws, timeVars, page, authVars, histVars>>
    BY <1>16 DEF ApplySelection, j, rest
  <2>3. r.jobs \in Seq(GoodJob) /\ r.up \in Seq(GoodUp)
    BY <1>1, <1>3, <2>1, PageUpdateStep, PageStepTyped
  <2> HIDE DEF r
  <2> QED BY <1>3, <2>1, <2>2, <2>3
          DEF Typed, connVars, timeVars, authVars, histVars, ConnTyped, TimeTyped, UserTyped,
              AuthTyped, HistTyped
<1>17. CASE HideNow
  <2> DEFINE r == PageUnmount(ws, page, rest, up)
  <2>1. /\ jobs' = r.jobs /\ up' = r.up /\ page' = "Other" /\ leaked' \in BOOLEAN
        /\ UNCHANGED <<connVars, ws, timeVars, sel, authVars, faults>>
    BY <1>17 DEF HideNow, rest
  <2>2. r.jobs \in Seq(GoodJob) /\ r.up \in Seq(GoodUp)
    BY <1>1, <1>3, PageUnmountStep, PageStepTyped DEF UserTyped
  <2> HIDE DEF r
  <2> QED BY <1>3, <2>1, <2>2
          DEF Typed, connVars, timeVars, authVars, ConnTyped, TimeTyped, UserTyped,
              AuthTyped, HistTyped, Pages
<1> QED BY <1>5, <1>6, <1>7, <1>8, <1>9, <1>10, <1>11, <1>12, <1>13, <1>14, <1>15, <1>16, <1>17
        DEF Microtask

LEMMA MessageFacts ==
    /\ \A m \in GoodUp : /\ m.cmd \in {"Subscribe", "Unsubscribe"} => m.topic \in Served /\ m.arg \in Subs
                         /\ m.cmd = "Auth" => m.arg \in BOOLEAN
    /\ \A m \in GoodDown : m.cmd = "Update" => m.topic \in Served /\ m.arg \in Subs
    /\ \A t \in Served, a \in Subs : [cmd |-> "Update", topic |-> t, arg |-> a] \in GoodDown
    /\ \A a \in BOOLEAN : [cmd |-> "Authorized", topic |-> "", arg |-> a] \in GoodDown
    /\ [cmd |-> "Pong", topic |-> "", arg |-> NoSel] \in GoodDown
<1>1. NoSel \in Subs
  BY DEF Subs
<1> QED BY <1>1 DEF GoodUp, GoodDown

LEMMA SingleTyped ==
    ASSUME NEW S, NEW m \in S
    PROVE  <<m>> \in Seq(S) /\ <<>> \in Seq(S)
OBVIOUS

LEMMA AnswerTyped ==
    ASSUME Typed, NEW m \in GoodDown, Answer(<<m>>)
    PROVE  down' \in Seq(GoodDown)
<1>1. down \in Seq(GoodDown) /\ down' = down \o <<m>>
  BY DEF Typed, Answer
<1>2. down \o <<m>> = Append(down, m)
  BY <1>1, ConcatOne
<1>3. Append(down, m) \in Seq(GoodDown)
  BY <1>1, AppendTyped
<1> QED BY <1>1, <1>2, <1>3

LEMMA ServerTyped ==
    ASSUME Typed, Server
    PROVE  Typed'
<1>0. /\ up \in Seq(GoodUp) /\ ws \in WsState /\ down \in Seq(GoodDown) /\ jobs \in Seq(GoodJob)
      /\ ConnTyped /\ TimeTyped /\ UserTyped /\ AuthTyped /\ HistTyped
  BY DEF Typed
<1>1. ASSUME srv' \in Session, up' \in Seq(GoodUp), down' \in Seq(GoodDown),
             UNCHANGED <<conn, closing, late, ws, timeVars, jobs, userVars, authVars, histVars>>
      PROVE  Typed'
  BY <1>0, <1>1 DEF Typed, timeVars, userVars, authVars, histVars,
                   ConnTyped, TimeTyped, UserTyped, AuthTyped, HistTyped
<1>2. up # <<>> => Head(up) \in GoodUp /\ Tail(up) \in Seq(GoodUp)
  BY <1>0, HeadTailTyped
<1>3. CASE SrvAuth
  <2>1. /\ up # <<>> /\ Head(up).cmd = "Auth"
        /\ srv' = [srv EXCEPT !.auth = Head(up).arg] /\ up' = Tail(up)
        /\ Answer(<<[cmd |-> "Authorized", topic |-> "", arg |-> Head(up).arg]>>)
        /\ UNCHANGED <<conn, closing, late, ws, timeVars, jobs, userVars, authVars, histVars>>
    BY <1>3 DEF SrvAuth, FirstUp
  <2>2. Head(up).arg \in BOOLEAN
    BY <1>2, <2>1, MessageFacts
  <2>3. srv' \in Session
    BY <1>0, <2>1, <2>2 DEF ConnTyped, Session
  <2>4. down' \in Seq(GoodDown)
    BY <2>1, <2>2, MessageFacts, AnswerTyped
  <2> QED BY <1>1, <1>2, <2>1, <2>3, <2>4
<1>4. CASE SrvPing
  <2>1. /\ up # <<>> /\ up' = Tail(up) /\ srv' = srv
        /\ Answer(<<[cmd |-> "Pong", topic |-> "", arg |-> NoSel]>>)
        /\ UNCHANGED <<conn, closing, late, ws, timeVars, jobs, userVars, authVars, histVars>>
    BY <1>4 DEF SrvPing, FirstUp
  <2>2. down' \in Seq(GoodDown)
    BY <2>1, MessageFacts, AnswerTyped
  <2>3. srv' \in Session
    BY <1>0, <2>1 DEF ConnTyped
  <2> QED BY <1>1, <1>2, <2>1, <2>2, <2>3
<1>5. CASE SrvSubscribe
  <2> DEFINE m == Head(up)
             v == IF m.cmd = "Subscribe" THEN m.arg ELSE NoSel
  <2>1. /\ up # <<>> /\ m.cmd \in {"Subscribe", "Unsubscribe"} /\ up' = Tail(up) /\ down' = down
        /\ srv' = [srv EXCEPT !.sub[m.topic] = v]
        /\ UNCHANGED <<conn, closing, late, ws, timeVars, jobs, userVars, authVars, histVars>>
    BY <1>5 DEF SrvSubscribe, FirstUp
  <2>2. m.topic \in Served /\ v \in Subs
    BY <1>2, <2>1, MessageFacts DEF Subs
  <2> HIDE DEF v, m
  <2>3. srv' \in Session
    BY <1>0, <2>1, <2>2 DEF ConnTyped, Session
  <2> QED BY <1>0, <1>1, <1>2, <2>1, <2>3
<1>6. ASSUME NEW t \in Served, SrvPublish(t) PROVE Typed'
  <2>1. /\ Answer(<<[cmd |-> "Update", topic |-> t, arg |-> srv.sub[t]]>>)
        /\ UNCHANGED <<conn, closing, late, srv, up, ws, timeVars, jobs, userVars, authVars, histVars>>
    BY <1>6 DEF SrvPublish
  <2>2. srv.sub[t] \in Subs
    BY <1>0 DEF ConnTyped, Session
  <2>3. down' \in Seq(GoodDown)
    BY <2>1, <2>2, MessageFacts, AnswerTyped
  <2> QED BY <1>0, <1>1, <2>1, <2>3 DEF ConnTyped
<1> QED BY <1>3, <1>4, <1>5, <1>6 DEF Server

LEMMA UserTypedStep ==
    ASSUME Typed, User \/ Yield
    PROVE  Typed'
<1>0. /\ up \in Seq(GoodUp) /\ ws \in WsState /\ down \in Seq(GoodDown) /\ jobs \in Seq(GoodJob)
      /\ ConnTyped /\ TimeTyped /\ UserTyped /\ AuthTyped /\ HistTyped
  BY DEF Typed
<1>1. ASSUME up' \in Seq(GoodUp), jobs' \in Seq(GoodJob), UserTyped',
             UNCHANGED <<connVars, ws, timeVars, authVars, histVars>>
      PROVE  Typed'
  BY <1>0, <1>1 DEF Typed, connVars, timeVars, authVars, histVars,
                   ConnTyped, TimeTyped, AuthTyped, HistTyped
<1>2. /\ NoSel \in Subs /\ Do("hide", "", NoSel) \in GoodJob
      /\ <<>> \in Seq(GoodJob)
  BY DoTyped, SingleTyped
<1>3. ASSUME NEW p \in Pages \ {"Login"}, NEW withInterval \in BOOLEAN, Open(p, withInterval)
      PROVE  Typed'
  <2> DEFINE r == PageUnmount(ws, page, <<>>, up)
             e == PageUpdate(ws, p, sel, r.jobs, r.up)
             then == IF withInterval THEN <<Do("hide", "", NoSel)>> ELSE <<>>
  <2>1. /\ jobs' = e.jobs \o then /\ up' = e.up /\ page' = p
        /\ UNCHANGED <<connVars, ws, timeVars, sel, authVars, histVars>>
    BY <1>3 DEF Open
  <2>2. r.jobs \in Seq(GoodJob) /\ r.up \in Seq(GoodUp)
    BY <1>0, <1>2, PageUnmountStep, PageStepTyped DEF UserTyped
  <2> HIDE DEF r
  <2>3. e.jobs \in Seq(GoodJob) /\ e.up \in Seq(GoodUp)
    BY <1>0, <2>2, PageUpdateStep, PageStepTyped DEF UserTyped
  <2> HIDE DEF e
  <2>4. e.jobs \o then \in Seq(GoodJob)
    <3>1. e.jobs \o <<>> = e.jobs /\ e.jobs \o <<Do("hide", "", NoSel)>> = Append(e.jobs, Do("hide", "", NoSel))
      BY <1>2, <2>3, ConcatOne
    <3>2. Append(e.jobs, Do("hide", "", NoSel)) \in Seq(GoodJob)
      BY <1>2, <2>3, AppendTyped
    <3> QED BY <2>3, <3>1, <3>2
  <2>5. UserTyped'
    BY <1>0, <2>1 DEF UserTyped
  <2> QED BY <1>1, <2>1, <2>3, <2>4, <2>5
<1>4. ASSUME NEW s \in Sels, NEW between \in Sels \cup {NoSel}, Select(s, between) PROVE Typed'
  <2>1. /\ \/ jobs' = <<>> \o <<Do("select", "", s)>>
           \/ between \in Sels /\ jobs' = <<Do("select", "", between)>> \o <<Do("select", "", s)>>
        /\ UNCHANGED <<connVars, up, ws, timeVars, userVars, authVars, histVars>>
    BY <1>4 DEF Select
  <2>2. Do("select", "", s) \in GoodJob /\ (between \in Sels => Do("select", "", between) \in GoodJob)
    BY <1>4, DoTyped
  <2>3. jobs' \in Seq(GoodJob)
    <3> DEFINE a == Do("select", "", s)
               b == Do("select", "", between)
    <3>1. \/ jobs' = <<>> \o <<a>>
          \/ b \in GoodJob /\ jobs' = <<b>> \o <<a>>
      BY <2>1, <2>2
    <3>2. a \in GoodJob
      BY <2>2
    <3> HIDE DEF a, b
    <3>3. <<>> \in Seq(GoodJob) /\ (b \in GoodJob => <<b>> \in Seq(GoodJob))
      OBVIOUS
    <3>4. \A q \in Seq(GoodJob) : q \o <<a>> = Append(q, a) /\ Append(q, a) \in Seq(GoodJob)
      BY <3>2, ConcatOne, AppendTyped
    <3> QED BY <3>1, <3>3, <3>4
  <2>4. UserTyped' /\ up' \in Seq(GoodUp)
    BY <1>0, <2>1 DEF UserTyped, userVars
  <2> QED BY <1>1, <2>1, <2>3, <2>4
<1>5. CASE ChangeInterval
  <2>1. jobs' = <<Do("hide", "", NoSel)>>
        /\ UNCHANGED <<connVars, up, ws, timeVars, userVars, authVars, histVars>>
    BY <1>5 DEF ChangeInterval
  <2>2. jobs' \in Seq(GoodJob)
    BY <1>2, <2>1, SingleTyped
  <2>3. UserTyped' /\ up' \in Seq(GoodUp)
    BY <1>0, <2>1 DEF UserTyped, userVars
  <2> QED BY <1>1, <2>1, <2>2, <2>3
<1>6. CASE SignIn
  <2>1. FreshPage /\ faults' = faults
    BY <1>6 DEF SignIn
  <2>2. /\ NewSession \in Session /\ "connecting" \in Conn /\ emptyState \in WsState
        /\ "Other" \in Pages
    BY <1>2 DEF NewSession, Session, Conn, emptyState, WsState, Pages
  <2>3. up' \in Seq(GoodUp) /\ down' \in Seq(GoodDown) /\ jobs' \in Seq(GoodJob)
    BY <2>1 DEF FreshPage
  <2> QED BY <1>0, <2>1, <2>2, <2>3
          DEF FreshPage, Typed, ConnTyped, TimeTyped, UserTyped, AuthTyped, HistTyped
<1>7. CASE Yield
  <2>1. /\ jobs # <<>> /\ jobs' = Append(Tail(jobs), Head(jobs))
        /\ UNCHANGED <<connVars, up, ws, timeVars, userVars, authVars, histVars>>
    <3>1. Len(jobs) > 1 => jobs # <<>>
      BY <1>0
    <3> QED BY <1>7, <3>1 DEF Yield
  <2>2. jobs' \in Seq(GoodJob)
    BY <1>0, <2>1, HeadTailTyped, AppendTyped
  <2>3. UserTyped' /\ up' \in Seq(GoodUp)
    BY <1>0, <2>1 DEF UserTyped, userVars
  <2> QED BY <1>1, <2>1, <2>2, <2>3
<1> QED BY <1>3, <1>4, <1>5, <1>6, <1>7 DEF User

LEMMA EventsTyped ==
    ASSUME Typed, Events
    PROVE  Typed'
<1>0. /\ up \in Seq(GoodUp) /\ ws \in WsState /\ down \in Seq(GoodDown) /\ jobs \in Seq(GoodJob)
      /\ ConnTyped /\ TimeTyped /\ UserTyped /\ AuthTyped /\ HistTyped
  BY DEF Typed
<1>1. /\ NoSel \in Subs /\ <<>> \in Seq(GoodJob) /\ <<>> \in Seq(GoodUp) /\ <<>> \in Seq(GoodDown)
      /\ <<Do("connected", "", NoSel)>> \in Seq(GoodJob)
      /\ <<Do("empty", "", FALSE)>> \in Seq(GoodJob)
      /\ <<Do("auth", "", FALSE)>> \in Seq(GoodJob)
      /\ Append(<<>>, Do("empty", "", TRUE)) \in Seq(GoodJob)
      /\ NewSession \in Session /\ Conn = {"connecting", "open", "dead", "waiting", "closed"}
      /\ emptyState \in WsState /\ "Login" \in Pages
  <2>1. NoSel \in Subs /\ <<>> \in Seq(GoodUp) /\ <<>> \in Seq(GoodDown) /\ <<>> \in Seq(GoodJob)
    BY DEF Subs
  <2>2. /\ Do("connected", "", NoSel) \in GoodJob /\ Do("empty", "", FALSE) \in GoodJob
        /\ Do("auth", "", FALSE) \in GoodJob /\ Do("empty", "", TRUE) \in GoodJob
    BY DoTyped
  <2>3. /\ <<Do("connected", "", NoSel)>> \in Seq(GoodJob)
        /\ <<Do("empty", "", FALSE)>> \in Seq(GoodJob)
        /\ <<Do("auth", "", FALSE)>> \in Seq(GoodJob)
        /\ Append(<<>>, Do("empty", "", TRUE)) \in Seq(GoodJob)
    BY <2>1, <2>2, SingleTyped, AppendTyped
  <2>4. NewSession \in Session /\ emptyState \in WsState /\ "Login" \in Pages
    BY <2>1 DEF NewSession, Session, emptyState, WsState, Pages
  <2> QED BY <2>1, <2>3, <2>4 DEF Conn
<1>2. down # <<>> => Head(down) \in GoodDown /\ Tail(down) \in Seq(GoodDown)
  BY <1>0, HeadTailTyped
<1>3. CASE Opened \/ Reconnect
  BY <1>0, <1>1, <1>3
     DEF Opened, Reconnect, Typed, timeVars, userVars, authVars, histVars,
         ConnTyped, TimeTyped, UserTyped, AuthTyped, HistTyped
<1>4. CASE Breaks
  <2>1. faults' \in 0..MaxFaults
    BY <1>0, <1>4, BoundsAssumption DEF Breaks, HistTyped
  <2> QED BY <1>0, <1>1, <1>4, <2>1
          DEF Breaks, OnClose, Typed, userVars, authVars,
              ConnTyped, TimeTyped, UserTyped, AuthTyped, HistTyped
<1>5. CASE OldSocketCloses
  <2>1. closing' \in Nat /\ late' \in Nat
    BY <1>0, <1>5 DEF OldSocketCloses, ConnTyped
  <2> QED BY <1>0, <1>1, <1>5, <2>1
          DEF OldSocketCloses, OnClose, Typed, userVars, authVars,
              ConnTyped, TimeTyped, UserTyped, AuthTyped, HistTyped
<1>6. CASE Dies
  <2>1. faults' \in 0..MaxFaults
    BY <1>0, <1>6, BoundsAssumption DEF Dies, HistTyped
  <2> QED BY <1>0, <1>1, <1>6, <2>1
          DEF Dies, Typed, timeVars, userVars, authVars,
              ConnTyped, TimeTyped, UserTyped, AuthTyped, HistTyped
<1>7. CASE PingTimer
  <2>1. Sent(up, UpMsg("Ping", "", NoSel)) \in Seq(GoodUp)
    BY <1>0, <1>1, SentTyped
  <2>2. ping' \in BOOLEAN /\ up' \in Seq(GoodUp)
    BY <1>0, <1>7, <2>1 DEF PingTimer, DoPing
  <2> QED BY <1>0, <1>7, <2>2
          DEF PingTimer, Typed, connVars, userVars, authVars, histVars,
              ConnTyped, TimeTyped, UserTyped, AuthTyped, HistTyped
<1>8. CASE HbTimer
  <2>1. jobs' \in Seq(GoodJob) /\ hb' \in BOOLEAN /\ pong' \in {"none", "fresh", "old"}
    BY <1>0, <1>1, <1>8 DEF HbTimer, HbGivesUp, HbGoesOn, TimeTyped
  <2> QED BY <1>0, <1>8, <2>1
          DEF HbTimer, Typed, connVars, userVars, authVars, histVars,
              ConnTyped, TimeTyped, UserTyped, AuthTyped, HistTyped
<1>9. CASE PongGetsOld
  <2>1. faults' \in 0..MaxFaults
    BY <1>0, <1>9, BoundsAssumption DEF PongGetsOld, HistTyped
  <2> QED BY <1>0, <1>9, <2>1
          DEF PongGetsOld, Typed, connVars, userVars, authVars,
              ConnTyped, TimeTyped, UserTyped, AuthTyped, HistTyped
<1>10. CASE ReceivePong
  BY <1>0, <1>2, <1>10
     DEF ReceivePong, Typed, userVars, authVars, histVars,
         ConnTyped, TimeTyped, UserTyped, AuthTyped, HistTyped
<1>11. CASE ReceiveUpdate
  <2> DEFINE m == Head(down)
  <2>1. /\ down # <<>> /\ m.cmd = "Update" /\ down' = Tail(down)
        /\ jobs' = <<Do("data", m.topic, m.arg)>> \/ jobs' = <<>>
        /\ UNCHANGED <<conn, closing, late, srv, up, ws, timeVars, userVars, authVars, histVars>>
    BY <1>11 DEF ReceiveUpdate
  <2>2. m.topic \in Topics /\ m.arg \in Subs
    BY <1>2, <2>1, MessageFacts, TopicsAssumption
  <2>3. <<Do("data", m.topic, m.arg)>> \in Seq(GoodJob)
    BY <2>2, DoTyped, SingleTyped
  <2> HIDE DEF m
  <2>4. jobs' \in Seq(GoodJob)
    BY <1>1, <2>1, <2>3
  <2> QED BY <1>0, <1>2, <2>1, <2>4
          DEF Typed, timeVars, userVars, authVars, histVars,
              ConnTyped, TimeTyped, UserTyped, AuthTyped, HistTyped
<1>12. CASE ReceiveAuthorized
  <2>1. refreshing' \in Nat
    BY <1>0, <1>12 DEF ReceiveAuthorized, AuthTyped
  <2> QED BY <1>0, <1>2, <1>12, <2>1
          DEF ReceiveAuthorized, Typed, timeVars, userVars, histVars,
              ConnTyped, TimeTyped, UserTyped, AuthTyped, HistTyped
<1>13. CASE Refreshed
  <2>1. refreshing' \in Nat
    <3>1. refreshing' = refreshing - 1 /\ refreshing > 0 /\ refreshing \in Nat
      BY <1>0, <1>13 DEF Refreshed, AuthTyped
    <3> QED BY <3>1
  <2> QED BY <1>0, <1>1, <1>13, <2>1
          DEF Refreshed, Typed, connVars, timeVars, userVars, histVars,
              ConnTyped, TimeTyped, UserTyped, AuthTyped, HistTyped
<1>14. CASE RefreshFails
  <2>1. Leave
    BY <1>14 DEF RefreshFails
  <2>2. closing' \in Nat /\ late' \in Nat
    BY <1>0, <2>1 DEF Leave, Close, ConnTyped
  <2> QED BY <1>0, <1>1, <2>1, <2>2
          DEF Leave, Typed, histVars, ConnTyped, TimeTyped, UserTyped, AuthTyped, HistTyped
<1>15. CASE TokenExpires
  <2>1. faults' \in 0..MaxFaults
    BY <1>0, <1>15, BoundsAssumption DEF TokenExpires, HistTyped
  <2> QED BY <1>0, <1>15, <2>1
          DEF TokenExpires, Typed, connVars, timeVars, userVars,
              ConnTyped, TimeTyped, UserTyped, AuthTyped, HistTyped
<1> QED BY <1>3, <1>4, <1>5, <1>6, <1>7, <1>8, <1>9, <1>10, <1>11, <1>12, <1>13, <1>14, <1>15
        DEF Events

LEMMA TypedInitially == Init => Typed
<1> SUFFICES ASSUME Init PROVE Typed
  OBVIOUS
<1>1. NoSel \in Subs
  BY DEF Subs
<1>2. NewSession \in Session /\ emptyState \in WsState
  BY <1>1 DEF NewSession, Session, emptyState, WsState
<1>3. up \in Seq(GoodUp) /\ down \in Seq(GoodDown) /\ jobs \in Seq(GoodJob)
  BY DEF Init
<1>4. faults \in 0..MaxFaults
  BY BoundsAssumption DEF Init
<1> QED BY <1>2, <1>3, <1>4
        DEF Init, Typed, Conn, Pages, ConnTyped, TimeTyped, UserTyped, AuthTyped, HistTyped

LEMMA TypedStep == Typed /\ [Next]_vars => Typed'
<1> SUFFICES ASSUME Typed, [Next]_vars PROVE Typed'
  OBVIOUS
<1>1. CASE UNCHANGED vars
  BY <1>1 DEF vars, connVars, timeVars, userVars, authVars, histVars, Typed,
             ConnTyped, TimeTyped, UserTyped, AuthTyped, HistTyped
<1> QED BY <1>1, MicrotaskTyped, ServerTyped, UserTypedStep, EventsTyped DEF Next

LEMMA TypedAlways == Spec => []Typed
BY TypedInitially, TypedStep, PTL DEF Spec

(* The state of the page, of the session and of the network between them     *)
(* keep their types: no microtask meets a topic it does not know, and no     *)
(* empty or boolean argument is taken for a selection.                       *)
THEOREM TypeCorrect == Spec => []TypeOK
BY TypedAlways, TypedIsTypeOK, PTL

-----------------------------------------------------------------------------
(* The queue of microtasks.  A job that goes on with auth() without onopen   *)
(* is told apart from one of onopen.                                         *)

Tag(j) == IF j.kind \in {"auth", "authorized"} /\ j.arg = FALSE THEN "reauth" ELSE j.kind

Kinds(js) == {Tag(js[i]) : i \in DOMAIN js}

(* onopen, and what hb() and onclose do when they give the connection up: of *)
(* these there is one job at most.                                           *)
OpenChain == {"connected", "auth", "authorized", "timers"}

Chain == OpenChain \cup {"empty", "replace"}

OneChain(js) == \A i, k \in DOMAIN js : Tag(js[i]) \in Chain /\ Tag(js[k]) \in Chain => i = k

LEMMA KindsFacts ==
    ASSUME NEW js \in Seq(GoodJob), NEW j \in GoodJob
    PROVE  /\ Kinds(Append(js, j)) = Kinds(js) \cup {Tag(j)}
           /\ Kinds(<<>>) = {}
           /\ Kinds(<<j>>) = {Tag(j)}
           /\ OneChain(<<>>) /\ OneChain(<<j>>)
           /\ OneChain(js) /\ Tag(j) \notin Chain => OneChain(Append(js, j))
           /\ Kinds(js) \cap Chain = {} => OneChain(Append(js, j)) /\ OneChain(js)
<1>1. /\ DOMAIN Append(js, j) = DOMAIN js \cup {Len(js) + 1}
      /\ \A i \in DOMAIN js : Append(js, j)[i] = js[i]
      /\ Append(js, j)[Len(js) + 1] = j
      /\ DOMAIN js = 1..Len(js) /\ Len(js) \in Nat
  OBVIOUS
<1>2. Kinds(Append(js, j)) = Kinds(js) \cup {Tag(j)}
  <2> DEFINE a == Append(js, j)
  <2> HIDE DEF a
  <2>1. /\ DOMAIN a = DOMAIN js \cup {Len(js) + 1}
        /\ \A i \in DOMAIN js : a[i] = js[i]
        /\ a[Len(js) + 1] = j
    BY <1>1 DEF a
  <2>2. Kinds(a) = Kinds(js) \cup {Tag(j)}
    BY <2>1 DEF Kinds
  <2> QED BY <2>2 DEF a
<1>3. Kinds(<<>>) = {} /\ Kinds(<<j>>) = {Tag(j)}
  BY DEF Kinds
<1>4. OneChain(<<>>) /\ OneChain(<<j>>)
  BY DEF OneChain
<1>5. ASSUME OneChain(js), Tag(j) \notin Chain PROVE OneChain(Append(js, j))
  BY <1>1, <1>5 DEF OneChain
<1>6. ASSUME Kinds(js) \cap Chain = {} PROVE OneChain(Append(js, j)) /\ OneChain(js)
  <2>1. \A i \in DOMAIN js : Tag(js[i]) \notin Chain
    BY <1>6 DEF Kinds
  <2> QED BY <1>1, <2>1 DEF OneChain
<1> QED BY <1>2, <1>3, <1>4, <1>5, <1>6

LEMMA TakeKinds ==
    ASSUME NEW js \in Seq(GoodJob), js # <<>>
    PROVE  /\ Kinds(js) = {Tag(Head(js))} \cup Kinds(Tail(js))
           /\ OneChain(js) => OneChain(Tail(js))
           /\ OneChain(js) /\ Tag(Head(js)) \in Chain => Kinds(Tail(js)) \cap Chain = {}
           /\ Len(js) = 1 => Tail(js) = <<>> /\ Kinds(js) = {Tag(Head(js))}
           /\ OneChain(js) => OneChain(Append(Tail(js), Head(js)))
<1> DEFINE h == Head(js)
           r == Tail(js)
<1>1. /\ Len(js) \in Nat /\ Len(js) >= 1 /\ DOMAIN js = 1..Len(js)
      /\ DOMAIN r = 1..(Len(js) - 1) /\ r \in Seq(GoodJob) /\ h \in GoodJob
      /\ \A i \in DOMAIN r : r[i] = js[i + 1] /\ i + 1 \in DOMAIN js
      /\ h = js[1] /\ 1 \in DOMAIN js
  OBVIOUS
<1>2. \A i \in DOMAIN js : i = 1 \/ (i - 1 \in DOMAIN r /\ js[i] = r[i - 1])
  BY <1>1
<1> HIDE DEF h, r
<1>3. Kinds(js) = {Tag(h)} \cup Kinds(r)
  BY <1>1, <1>2 DEF Kinds
<1>4. OneChain(js) => OneChain(r)
  BY <1>1 DEF OneChain
<1>5. ASSUME OneChain(js), Tag(h) \in Chain, NEW i \in DOMAIN r PROVE Tag(r[i]) \notin Chain
  <2>1. r[i] = js[i + 1] /\ i + 1 \in DOMAIN js /\ i + 1 # 1
    BY <1>1, <1>5
  <2> QED BY <1>1, <1>5, <2>1 DEF OneChain
<1>6. OneChain(js) /\ Tag(h) \in Chain => Kinds(r) \cap Chain = {}
  BY <1>5 DEF Kinds
<1>7. ASSUME Len(js) = 1 PROVE r = <<>> /\ Kinds(js) = {Tag(h)}
  <2>1. r = <<>>
    BY <1>1, <1>7 DEF r
  <2>2. Kinds(r) = {}
    BY <2>1 DEF Kinds
  <2> QED BY <1>3, <2>1, <2>2
<1>8. OneChain(js) => OneChain(Append(r, h))
  BY <1>1, <1>4, <1>6, KindsFacts
<1> QED BY <1>3, <1>4, <1>6, <1>7, <1>8 DEF h, r

-----------------------------------------------------------------------------
(* What the session will be subscribed to once it has taken the messages of  *)
(* q, and what the state will say once the jobs of js are done.              *)

Orders(q, t) == {i \in DOMAIN q : q[i].topic = t}

Ordered(m) == IF m.cmd = "Subscribe" THEN m.arg ELSE NoSel

WillServe(sub, q, t, v) ==
    \/ Orders(q, t) = {} /\ sub[t] = v
    \/ \E i \in Orders(q, t) : Ordered(q[i]) = v /\ \A k \in Orders(q, t) : k <= i

Settles(j, t) == j.kind \in {"subscribed", "unsubscribed"} /\ j.topic = t

Pending(js, t) == {i \in DOMAIN js : Settles(js[i], t)}

Settled(j) == IF j.kind = "subscribed" THEN j.arg ELSE NoSel

WillSay(f, js, t, v) ==
    \/ Pending(js, t) = {} /\ f[t] = v
    \/ \E i \in Pending(js, t) : Settled(js[i]) = v /\ \A k \in Pending(js, t) : k <= i

Agree(sub, q, f, js) ==
    \A t \in Served : \E v \in Subs : WillServe(sub, q, t, v) /\ WillSay(f, js, t, v)

LEMMA ServeAppend ==
    ASSUME NEW sub, NEW q \in Seq(GoodUp), NEW m \in GoodUp, NEW t
    PROVE  /\ m.topic = t => WillServe(sub, Append(q, m), t, Ordered(m))
           /\ m.topic # t => \A v : WillServe(sub, q, t, v) => WillServe(sub, Append(q, m), t, v)
<1> DEFINE a == Append(q, m)
           n == Len(q) + 1
<1>1. /\ DOMAIN a = DOMAIN q \cup {n} /\ \A i \in DOMAIN q : a[i] = q[i] /\ i <= n
      /\ a[n] = m /\ n <= n
  OBVIOUS
<1> HIDE DEF a, n
<1>2. Orders(a, t) = IF m.topic = t THEN Orders(q, t) \cup {n} ELSE Orders(q, t)
  BY <1>1 DEF Orders
<1>3. ASSUME m.topic = t PROVE WillServe(sub, a, t, Ordered(m))
  <2>1. n \in Orders(a, t) /\ \A k \in Orders(a, t) : k <= n
    BY <1>1, <1>2, <1>3 DEF Orders
  <2> QED BY <1>1, <2>1 DEF WillServe
<1>4. ASSUME m.topic # t, NEW v, WillServe(sub, q, t, v) PROVE WillServe(sub, a, t, v)
  <2>1. Orders(a, t) = Orders(q, t) /\ \A i \in Orders(q, t) : a[i] = q[i]
    BY <1>1, <1>2, <1>4 DEF Orders
  <2> QED BY <1>4, <2>1 DEF WillServe
<1> QED BY <1>3, <1>4 DEF a

LEMMA ServeTake ==
    ASSUME NEW sub, NEW sub2, NEW q \in Seq(GoodUp), q # <<>>, NEW t, NEW v,
           WillServe(sub, q, t, v),
           sub2[t] = IF Head(q).topic = t THEN Ordered(Head(q)) ELSE sub[t]
    PROVE  WillServe(sub2, Tail(q), t, v)
<1> DEFINE h == Head(q)
           r == Tail(q)
<1>1. /\ Len(q) \in Nat /\ DOMAIN q = 1..Len(q)
      /\ DOMAIN r = 1..(Len(q) - 1)
      /\ \A i \in DOMAIN r : r[i] = q[i + 1] /\ i + 1 \in DOMAIN q
      /\ h = q[1] /\ 1 \in DOMAIN q
  OBVIOUS
<1>2. \A i \in DOMAIN q : i \in Nat /\ (i = 1 \/ (i - 1 \in DOMAIN r /\ q[i] = r[i - 1]))
  BY <1>1
<1>3. sub2[t] = IF h.topic = t THEN Ordered(h) ELSE sub[t]
  OBVIOUS
<1> HIDE DEF h, r
<1>4. ASSUME Orders(q, t) = {}, sub[t] = v PROVE WillServe(sub2, r, t, v)
  <2>1. Orders(r, t) = {} /\ h.topic # t
    BY <1>1, <1>4 DEF Orders
  <2>2. sub2[t] = v
    BY <1>3, <1>4, <2>1
  <2> QED BY <2>1, <2>2 DEF WillServe
<1>5. ASSUME NEW i \in Orders(q, t), Ordered(q[i]) = v, \A k \in Orders(q, t) : k <= i
      PROVE  WillServe(sub2, r, t, v)
  <2>1. CASE i = 1
    <3>1. h.topic = t /\ Ordered(h) = v
      BY <1>1, <1>5, <2>1 DEF Orders
    <3>2. ASSUME NEW k \in Orders(r, t) PROVE FALSE
      <4>1. k + 1 \in Orders(q, t) /\ k \in DOMAIN r
        BY <1>1, <3>2 DEF Orders
      <4>2. k + 1 <= 1 /\ k \in Nat /\ k >= 1
        BY <1>1, <1>5, <2>1, <4>1
      <4> QED BY <4>2
    <3>3. Orders(r, t) = {}
      BY <3>2
    <3>4. sub2[t] = v
      BY <1>3, <3>1
    <3> QED BY <3>3, <3>4 DEF WillServe
  <2>2. CASE i # 1
    <3>1. i \in DOMAIN q /\ q[i].topic = t
      BY <1>5 DEF Orders
    <3>2. i \in Nat /\ i - 1 \in DOMAIN r /\ r[i - 1] = q[i]
      BY <1>2, <2>2, <3>1
    <3>3. i - 1 \in Orders(r, t) /\ Ordered(r[i - 1]) = v
      BY <1>5, <3>1, <3>2 DEF Orders
    <3>4. ASSUME NEW k \in Orders(r, t) PROVE k <= i - 1
      <4>1. k + 1 \in Orders(q, t) /\ k \in Nat
        BY <1>1, <3>4 DEF Orders
      <4>2. k + 1 <= i
        BY <1>5, <4>1
      <4> QED BY <3>2, <4>1, <4>2
    <3> QED BY <3>3, <3>4 DEF WillServe
  <2> QED BY <2>1, <2>2
<1>6. WillServe(sub2, r, t, v)
  BY <1>4, <1>5 DEF WillServe
<1> QED BY <1>6 DEF r

LEMMA SayAppend ==
    ASSUME NEW f, NEW js \in Seq(GoodJob), NEW j \in GoodJob, NEW t
    PROVE  /\ Settles(j, t) => WillSay(f, Append(js, j), t, Settled(j))
           /\ ~Settles(j, t) => \A v : WillSay(f, js, t, v) => WillSay(f, Append(js, j), t, v)
<1> DEFINE a == Append(js, j)
           n == Len(js) + 1
<1>1. /\ DOMAIN a = DOMAIN js \cup {n} /\ \A i \in DOMAIN js : a[i] = js[i] /\ i <= n
      /\ a[n] = j /\ n <= n
  OBVIOUS
<1> HIDE DEF a, n
<1>2. Pending(a, t) = IF Settles(j, t) THEN Pending(js, t) \cup {n} ELSE Pending(js, t)
  BY <1>1 DEF Pending
<1>3. ASSUME Settles(j, t) PROVE WillSay(f, a, t, Settled(j))
  <2>1. n \in Pending(a, t) /\ \A k \in Pending(a, t) : k <= n
    BY <1>1, <1>2, <1>3 DEF Pending
  <2> QED BY <1>1, <2>1 DEF WillSay
<1>4. ASSUME ~Settles(j, t), NEW v, WillSay(f, js, t, v) PROVE WillSay(f, a, t, v)
  <2>1. Pending(a, t) = Pending(js, t) /\ \A i \in Pending(js, t) : a[i] = js[i]
    BY <1>1, <1>2, <1>4 DEF Pending
  <2> QED BY <1>4, <2>1 DEF WillSay
<1> QED BY <1>3, <1>4 DEF a

LEMMA SayTake ==
    ASSUME NEW f, NEW f2, NEW js \in Seq(GoodJob), js # <<>>, NEW t, NEW v,
           WillSay(f, js, t, v),
           f2[t] = IF Settles(Head(js), t) THEN Settled(Head(js)) ELSE f[t]
    PROVE  WillSay(f2, Tail(js), t, v)
<1> DEFINE h == Head(js)
           r == Tail(js)
<1>1. /\ Len(js) \in Nat /\ DOMAIN js = 1..Len(js)
      /\ DOMAIN r = 1..(Len(js) - 1)
      /\ \A i \in DOMAIN r : r[i] = js[i + 1] /\ i + 1 \in DOMAIN js
      /\ h = js[1] /\ 1 \in DOMAIN js
  OBVIOUS
<1>2. \A i \in DOMAIN js : i \in Nat /\ (i = 1 \/ (i - 1 \in DOMAIN r /\ js[i] = r[i - 1]))
  BY <1>1
<1>3. f2[t] = IF Settles(h, t) THEN Settled(h) ELSE f[t]
  OBVIOUS
<1> HIDE DEF h, r
<1>4. ASSUME Pending(js, t) = {}, f[t] = v PROVE WillSay(f2, r, t, v)
  <2>1. Pending(r, t) = {} /\ ~Settles(h, t)
    BY <1>1, <1>4 DEF Pending
  <2>2. f2[t] = v
    BY <1>3, <1>4, <2>1
  <2> QED BY <2>1, <2>2 DEF WillSay
<1>5. ASSUME NEW i \in Pending(js, t), Settled(js[i]) = v, \A k \in Pending(js, t) : k <= i
      PROVE  WillSay(f2, r, t, v)
  <2>1. CASE i = 1
    <3>1. Settles(h, t) /\ Settled(h) = v
      BY <1>1, <1>5, <2>1 DEF Pending
    <3>2. ASSUME NEW k \in Pending(r, t) PROVE FALSE
      <4>1. k + 1 \in Pending(js, t) /\ k \in DOMAIN r
        BY <1>1, <3>2 DEF Pending
      <4>2. k + 1 <= 1 /\ k \in Nat /\ k >= 1
        BY <1>1, <1>5, <2>1, <4>1
      <4> QED BY <4>2
    <3>3. Pending(r, t) = {}
      BY <3>2
    <3>4. f2[t] = v
      BY <1>3, <3>1
    <3> QED BY <3>3, <3>4 DEF WillSay
  <2>2. CASE i # 1
    <3>1. i \in DOMAIN js /\ Settles(js[i], t)
      BY <1>5 DEF Pending
    <3>2. i \in Nat /\ i - 1 \in DOMAIN r /\ r[i - 1] = js[i]
      BY <1>2, <2>2, <3>1
    <3>3. i - 1 \in Pending(r, t) /\ Settled(r[i - 1]) = v
      BY <1>5, <3>1, <3>2 DEF Pending
    <3>4. ASSUME NEW k \in Pending(r, t) PROVE k <= i - 1
      <4>1. k + 1 \in Pending(js, t) /\ k \in Nat
        BY <1>1, <3>4 DEF Pending
      <4>2. k + 1 <= i
        BY <1>5, <4>1
      <4> QED BY <3>2, <4>1, <4>2
    <3> QED BY <3>3, <3>4 DEF WillSay
  <2> QED BY <2>1, <2>2
<1>6. WillSay(f2, r, t, v)
  BY <1>4, <1>5 DEF WillSay
<1> QED BY <1>6 DEF r

LEMMA AgreeAppendJob ==
    ASSUME NEW sub, NEW q, NEW f, NEW js \in Seq(GoodJob), NEW j \in GoodJob,
           j.kind \notin {"subscribed", "unsubscribed"}, Agree(sub, q, f, js)
    PROVE  Agree(sub, q, f, Append(js, j))
<1>1. \A t : ~Settles(j, t)
  BY DEF Settles
<1>2. \A t, v : WillSay(f, js, t, v) => WillSay(f, Append(js, j), t, v)
  BY <1>1, SayAppend
<1> QED BY <1>2 DEF Agree

LEMMA AgreeAppendMessage ==
    ASSUME NEW sub, NEW q \in Seq(GoodUp), NEW f, NEW js, NEW m \in GoodUp,
           m.topic \notin Served, Agree(sub, q, f, js)
    PROVE  Agree(sub, Append(q, m), f, js)
<1>1. \A t \in Served : \A v : WillServe(sub, q, t, v) => WillServe(sub, Append(q, m), t, v)
  BY ServeAppend
<1> QED BY <1>1 DEF Agree

(* A command and the job that follows it say the same. *)
LEMMA AgreeOrder ==
    ASSUME NEW sub, NEW q \in Seq(GoodUp), NEW f, NEW js \in Seq(GoodJob), conn = "open",
           Agree(sub, q, f, js), NEW t \in Topics, NEW a \in Subs, NEW b \in Subs
    PROVE  /\ Agree(sub, Sent(q, UpMsg("Subscribe", t, a)), f, Append(js, Do("subscribed", t, a)))
           /\ Agree(sub, Sent(q, UpMsg("Unsubscribe", t, b)), f, Append(js, Do("unsubscribed", t, a)))
<1>0. t # "" /\ NoSel \in Subs
  BY TopicsAssumption DEF AllTopics, Subs
<1>1. ASSUME NEW c \in {"Subscribe", "Unsubscribe"}, NEW k \in {"subscribed", "unsubscribed"},
             c = "Subscribe" <=> k = "subscribed", NEW d \in Subs, k = "subscribed" => d = a
      PROVE  Agree(sub, Sent(q, UpMsg(c, t, d)), f, Append(js, Do(k, t, a)))
  <2> DEFINE m == UpMsg(c, t, d)
             j == Do(k, t, a)
             v == IF k = "subscribed" THEN a ELSE NoSel
  <2>1. j \in GoodJob /\ Settles(j, t) /\ Settled(j) = v /\ v \in Subs /\ \A u : u # t => ~Settles(j, u)
    BY <1>0, <1>1, DoTyped DEF Do, Settles, Settled
  <2>2. m.topic = t /\ Ordered(m) = v
    BY <1>1 DEF UpMsg, Ordered
  <2>3. /\ WillSay(f, Append(js, j), t, v)
        /\ \A u, x : u # t /\ WillSay(f, js, u, x) => WillSay(f, Append(js, j), u, x)
    <3> HIDE DEF j, v
    <3> QED BY <2>1, SayAppend
  <2>4. CASE t \in Served
    <3>1. Sent(q, m) = Append(q, m)
      BY <2>2, <2>4 DEF Sent
    <3>2. m \in GoodUp
      BY <1>1, <2>4 DEF UpMsg, GoodUp
    <3> HIDE DEF m, j, v
    <3>3. /\ WillServe(sub, Append(q, m), t, v)
          /\ \A u, x : u # t /\ WillServe(sub, q, u, x) => WillServe(sub, Append(q, m), u, x)
      BY <2>2, <3>2, ServeAppend
    <3>4. ASSUME NEW u \in Served
          PROVE  \E x \in Subs : WillServe(sub, Append(q, m), u, x) /\ WillSay(f, Append(js, j), u, x)
      <4>1. CASE u = t
        BY <2>1, <2>3, <3>3, <4>1
      <4>2. CASE u # t
        BY <2>3, <3>3, <4>2 DEF Agree
      <4> QED BY <4>1, <4>2
    <3>5. Agree(sub, Append(q, m), f, Append(js, j))
      BY <3>4 DEF Agree
    <3> QED BY <3>1, <3>5 DEF m, j
  <2>5. CASE t \notin Served
    <3>1. Sent(q, m) = q
      BY <1>0, <2>2, <2>5 DEF Sent
    <3> HIDE DEF m, j, v
    <3>2. Agree(sub, q, f, Append(js, j))
      BY <2>3, <2>5 DEF Agree
    <3> QED BY <3>1, <3>2 DEF m, j
  <2> QED BY <2>4, <2>5
<1> QED BY <1>1

LEMMA AgreeTakeJob ==
    ASSUME NEW sub, NEW q, NEW f, NEW f2, NEW js \in Seq(GoodJob), js # <<>>, Agree(sub, q, f, js),
           \A t \in Served :
              f2[t] = IF Settles(Head(js), t) THEN Settled(Head(js)) ELSE f[t]
    PROVE  Agree(sub, q, f2, Tail(js))
<1>1. \A t \in Served : \A v : WillSay(f, js, t, v) => WillSay(f2, Tail(js), t, v)
  BY SayTake
<1> QED BY <1>1 DEF Agree

LEMMA AgreeTakeMessage ==
    ASSUME NEW sub, NEW sub2, NEW q \in Seq(GoodUp), q # <<>>, NEW f, NEW js, Agree(sub, q, f, js),
           \A t \in Served :
              sub2[t] = IF Head(q).topic = t THEN Ordered(Head(q)) ELSE sub[t]
    PROVE  Agree(sub2, Tail(q), f, js)
<1>1. \A t \in Served : \A v : WillServe(sub, q, t, v) => WillServe(sub2, Tail(q), t, v)
  BY ServeTake
<1> QED BY <1>1 DEF Agree

(* A page that is rendered or left. *)
LEMMA PageStepFacts ==
    ASSUME NEW w \in WsState, NEW js \in Seq(GoodJob), NEW q \in Seq(GoodUp), NEW js2, NEW q2,
           PageStep(w, js, q, js2, q2)
    PROVE  /\ Kinds(js) \subseteq Kinds(js2)
           /\ Kinds(js2) \subseteq Kinds(js) \cup {"subscribe", "subscribed", "unsubscribed"}
           /\ ~w.isConnected => Kinds(js2) \subseteq Kinds(js) \cup {"subscribe"}
           /\ OneChain(js) => OneChain(js2)
           /\ conn # "open" => q2 = q
           /\ conn = "open" => \A sub, f : Agree(sub, q, f, js) => Agree(sub, q2, f, js2)
<1> DEFINE Goal == /\ Kinds(js) \subseteq Kinds(js2)
                   /\ Kinds(js2) \subseteq Kinds(js) \cup {"subscribe", "subscribed", "unsubscribed"}
                   /\ ~w.isConnected => Kinds(js2) \subseteq Kinds(js) \cup {"subscribe"}
                   /\ OneChain(js) => OneChain(js2)
                   /\ conn # "open" => q2 = q
                   /\ conn = "open" => \A sub, f : Agree(sub, q, f, js) => Agree(sub, q2, f, js2)
<1>1. ASSUME NEW k \in {"subscribe", "subscribed", "unsubscribed"}, NEW t \in Topics, NEW s \in Subs
      PROVE  /\ Do(k, t, s) \in GoodJob /\ Tag(Do(k, t, s)) = k /\ Do(k, t, s).kind = k /\ k \notin Chain
  BY <1>1, DoTyped DEF Do, Tag, Chain, OpenChain
<1>2. ASSUME NEW k \in {"subscribe", "subscribed", "unsubscribed"}, NEW t \in Topics, NEW s \in Subs,
             js2 = Append(js, Do(k, t, s))
      PROVE  Kinds(js2) = Kinds(js) \cup {k} /\ (OneChain(js) => OneChain(js2))
  <2> DEFINE j == Do(k, t, s)
  <2>1. j \in GoodJob /\ Tag(j) = k /\ k \notin Chain
    BY <1>1
  <2>2. js2 = Append(js, j)
    BY <1>2
  <2> HIDE DEF j
  <2> QED BY <2>1, <2>2, KindsFacts
<1>3. \A m : conn # "open" => Sent(q, m) = q
  BY DEF Sent
<1>4. CASE js2 = js /\ q2 = q
  BY <1>4
<1>5. ASSUME NEW t \in Topics, NEW s \in Subs, js2 = Append(js, Do("subscribe", t, s)), q2 = q
      PROVE  Goal
  <2>1. \A sub, f : Agree(sub, q, f, js) => Agree(sub, q2, f, js2)
    BY <1>1, <1>5, AgreeAppendJob
  <2> QED BY <1>2, <1>5, <2>1
<1>6. ASSUME w.isConnected, NEW t \in Topics, NEW s \in Subs, NEW a \in Subs,
             js2 = Append(js, Do("unsubscribed", t, s)), q2 = Sent(q, UpMsg("Unsubscribe", t, a))
      PROVE  Goal
  <2>1. conn = "open" => \A sub, f : Agree(sub, q, f, js) => Agree(sub, q2, f, js2)
    BY <1>6, AgreeOrder
  <2> QED BY <1>2, <1>3, <1>6, <2>1
<1>7. ASSUME w.isConnected, NEW t \in Topics, NEW s \in Subs,
             js2 = Append(js, Do("subscribed", t, s)), q2 = Sent(q, UpMsg("Subscribe", t, s))
      PROVE  Goal
  <2>1. conn = "open" => \A sub, f : Agree(sub, q, f, js) => Agree(sub, q2, f, js2)
    BY <1>7, AgreeOrder
  <2> QED BY <1>2, <1>3, <1>7, <2>1
<1>8. Goal
  <2> HIDE DEF Goal
  <2>1. CASE js2 = js /\ q2 = q
    BY <1>4, <2>1 DEF Goal
  <2> QED BY <1>5, <1>6, <1>7, <2>1 DEF PageStep
<1> QED BY <1>8

-----------------------------------------------------------------------------
(* The invariant: what the queue, the connection and the session have to do  *)
(* with each other.                                                          *)

NothingSent == up = <<>> /\ srv = NewSession
NothingSubscribed == \A t \in Topics : ws.subscribed[t] = NoSel
NoneSubscribing == "subscribed" \notin Kinds(jobs)

QueueInv ==
    /\ OneChain(jobs)
    /\ Kinds(jobs) \cap OpenChain # {} => conn = "open"
    /\ "connected" \in Kinds(jobs) => Len(jobs) = 1 /\ NothingSent /\ NothingSubscribed
    /\ "empty" \in Kinds(jobs) /\ conn # "open" => Len(jobs) = 1
    /\ "replace" \in Kinds(jobs) =>
         ~ws.isConnected /\ (conn = "open" \/ (NoneSubscribing /\ NothingSubscribed))

ConnInv ==
    /\ conn = "waiting" => ~ws.isConnected \/ "empty" \in Kinds(jobs)
    /\ conn = "connecting" =>
         /\ ~ws.isConnected
         /\ closing = 0 => NoneSubscribing /\ (NothingSubscribed \/ "empty" \in Kinds(jobs))
    /\ conn # "open" => NothingSent
    /\ conn = "open" /\ ws.isConnected => Agree(srv.sub, up, ws.subscribed, jobs)

SyncInv == QueueInv /\ ConnInv

(* A step that keeps the connection and adds no job that touches it. *)
LEMMA CalmStep ==
    ASSUME Typed, SyncInv, conn' = conn, closing' = closing, ws'.isConnected = ws.isConnected,
           OneChain(jobs'),
           Kinds(jobs') \cap Chain \subseteq
             Kinds(jobs) \cup {"empty"}
               \cup (IF conn = "open" THEN {"auth", "authorized", "timers"} ELSE {}),
           "empty" \in Kinds(jobs) => "empty" \in Kinds(jobs'),
           "connected" \notin Kinds(jobs'),
           "empty" \in Kinds(jobs') => conn = "open" \/ Len(jobs') = 1,
           "subscribed" \in Kinds(jobs') => "subscribed" \in Kinds(jobs) \/ ws.isConnected,
           NothingSubscribed => NothingSubscribed' \/ "subscribed" \in Kinds(jobs),
           conn # "open" => up' = up /\ srv' = srv,
           conn = "open" /\ ws.isConnected => Agree(srv'.sub, up', ws'.subscribed, jobs')
    PROVE  SyncInv'
<1> DEFINE K == Kinds(jobs)
           L == Kinds(jobs')
           N == NothingSubscribed
           M == NothingSubscribed'
           C == ws.isConnected
<1>1. Kinds(jobs)' = L /\ (ws.isConnected)' = C /\ OneChain(jobs)' /\ NoneSubscribing' = ("subscribed" \notin L)
  BY DEF Kinds, OneChain, NoneSubscribing
<1>2. /\ L \cap Chain \subseteq K \cup {"empty"} \cup (IF conn = "open" THEN {"auth", "authorized", "timers"} ELSE {})
      /\ "empty" \in K => "empty" \in L
      /\ "connected" \notin L
      /\ "empty" \in L => conn = "open" \/ Len(jobs') = 1
      /\ "subscribed" \in L => "subscribed" \in K \/ C
      /\ N => M \/ "subscribed" \in K
  OBVIOUS
<1>3. /\ K \cap OpenChain # {} => conn = "open"
      /\ "replace" \in K => ~C /\ (conn = "open" \/ ("subscribed" \notin K /\ N))
      /\ conn = "waiting" => ~C \/ "empty" \in K
      /\ conn = "connecting" => ~C /\ (closing = 0 => "subscribed" \notin K /\ (N \/ "empty" \in K))
  BY DEF SyncInv, QueueInv, ConnInv, NoneSubscribing
<1>4. (conn # "open" => NothingSent)'
  BY DEF SyncInv, ConnInv, NothingSent
<1>5. (conn = "open" /\ ws.isConnected => Agree(srv.sub, up, ws.subscribed, jobs))'
  <2>1. (conn = "open" /\ C) => Agree(srv'.sub, up', ws'.subscribed, jobs')
    OBVIOUS
  <2> QED BY <1>1, <2>1 DEF Agree, WillServe, WillSay, Orders, Pending
<1> HIDE DEF K, L, N, M, C
<1>6. /\ L \cap OpenChain # {} => conn = "open"
      /\ "replace" \in L => ~C /\ (conn = "open" \/ ("subscribed" \notin L /\ M))
      /\ conn = "waiting" => ~C \/ "empty" \in L
      /\ conn = "connecting" => ~C /\ (closing = 0 => "subscribed" \notin L /\ (M \/ "empty" \in L))
  BY <1>2, <1>3 DEF Chain, OpenChain
<1>7. QueueInv'
  BY <1>1, <1>2, <1>6 DEF QueueInv, K, L, M, C
<1>8. ConnInv'
  BY <1>1, <1>4, <1>5, <1>6 DEF ConnInv, L, M, C
<1> QED BY <1>7, <1>8 DEF SyncInv

LEMMA HeadFacts ==
    ASSUME Typed, SyncInv, jobs # <<>>
    PROVE  /\ Kinds(jobs) = {Tag(Head(jobs))} \cup Kinds(Tail(jobs))
           /\ OneChain(Tail(jobs))
           /\ Tag(Head(jobs)) \in Chain => Kinds(Tail(jobs)) \cap Chain = {}
           /\ "connected" \notin Kinds(Tail(jobs))
           /\ conn # "open" /\ "empty" \in Kinds(jobs) => Tail(jobs) = <<>> /\ Tag(Head(jobs)) = "empty"
<1>1. jobs \in Seq(GoodJob) /\ OneChain(jobs)
  BY DEF Typed, SyncInv, QueueInv
<1>2. /\ Kinds(jobs) = {Tag(Head(jobs))} \cup Kinds(Tail(jobs))
      /\ OneChain(Tail(jobs))
      /\ Tag(Head(jobs)) \in Chain => Kinds(Tail(jobs)) \cap Chain = {}
      /\ Len(jobs) = 1 => Tail(jobs) = <<>> /\ Kinds(jobs) = {Tag(Head(jobs))}
  BY <1>1, TakeKinds
<1>3. ASSUME "connected" \in Kinds(Tail(jobs)) PROVE FALSE
  <2>1. Len(jobs) = 1
    BY <1>2, <1>3 DEF SyncInv, QueueInv
  <2>2. Kinds(Tail(jobs)) = {}
    BY <1>2, <2>1 DEF Kinds
  <2> QED BY <1>3, <2>2
<1>4. ASSUME conn # "open", "empty" \in Kinds(jobs)
      PROVE  Tail(jobs) = <<>> /\ Tag(Head(jobs)) = "empty"
  <2>1. Len(jobs) = 1
    BY <1>4 DEF SyncInv, QueueInv
  <2> QED BY <1>2, <1>4, <2>1
<1> QED BY <1>2, <1>3, <1>4

(* A microtask that keeps the connection: it takes its job, sets the state   *)
(* to w, lets the page act, and may leave one job and a message behind.      *)
LEMMA TaskStep ==
    ASSUME Typed, SyncInv, jobs # <<>>, Tag(Head(jobs)) \notin {"empty", "connected", "replace"},
           NEW w \in WsState, w.isConnected = ws.isConnected,
           \A t \in Topics : w.subscribed[t] =
               IF Settles(Head(jobs), t) THEN Settled(Head(jobs)) ELSE ws.subscribed[t],
           NEW js2, NEW q2, PageStep(w, Tail(jobs), up, js2, q2),
           \/ jobs' = js2
           \/ \E j \in GoodJob : /\ jobs' = Append(js2, j)
                                 /\ j.kind \notin {"subscribed", "unsubscribed", "connected", "replace"}
                                 /\ Tag(j) \in Chain => Tag(Head(jobs)) \in OpenChain,
           \/ up' = q2
           \/ \E m \in GoodUp : m.topic = "" /\ up' = Sent(q2, m),
           ws' = w, conn' = conn, closing' = closing, srv' = srv
    PROVE  SyncInv'
<1> DEFINE h == Head(jobs)
           r == Tail(jobs)
<1>1. /\ jobs \in Seq(GoodJob) /\ h \in GoodJob /\ r \in Seq(GoodJob) /\ up \in Seq(GoodUp)
      /\ Served \subseteq Topics /\ "" \notin Served
  BY TakeFacts, TopicsAssumption DEF Typed, Served
<1>2. /\ Kinds(jobs) = {Tag(h)} \cup Kinds(r)
      /\ OneChain(r)
      /\ Tag(h) \in Chain => Kinds(r) \cap Chain = {}
      /\ "connected" \notin Kinds(r)
      /\ conn # "open" /\ "empty" \in Kinds(jobs) => Tag(h) = "empty"
  BY HeadFacts
<1>3. /\ Tag(h) \in OpenChain => conn = "open"
      /\ conn = "open" /\ ws.isConnected => Agree(srv.sub, up, ws.subscribed, jobs)
  BY <1>2 DEF SyncInv, QueueInv, ConnInv
<1>4. js2 \in Seq(GoodJob) /\ q2 \in Seq(GoodUp)
  BY <1>1, PageStepTyped
<1>5. /\ Kinds(r) \subseteq Kinds(js2)
      /\ Kinds(js2) \subseteq Kinds(r) \cup {"subscribe", "subscribed", "unsubscribed"}
      /\ ~w.isConnected => Kinds(js2) \subseteq Kinds(r) \cup {"subscribe"}
      /\ OneChain(js2)
      /\ conn # "open" => q2 = up
      /\ conn = "open" => \A sub, f : Agree(sub, up, f, r) => Agree(sub, q2, f, js2)
  <2>1. PageStep(w, r, up, js2, q2)
    OBVIOUS
  <2> HIDE DEF r
  <2>2. w \in WsState /\ r \in Seq(GoodJob) /\ up \in Seq(GoodUp)
    BY <1>1
  <2>3. /\ Kinds(r) \subseteq Kinds(js2)
        /\ Kinds(js2) \subseteq Kinds(r) \cup {"subscribe", "subscribed", "unsubscribed"}
        /\ ~w.isConnected => Kinds(js2) \subseteq Kinds(r) \cup {"subscribe"}
        /\ OneChain(r) => OneChain(js2)
        /\ conn # "open" => q2 = up
        /\ conn = "open" => \A sub, f : Agree(sub, up, f, r) => Agree(sub, q2, f, js2)
    BY <2>1, <2>2, PageStepFacts, Zenon
  <2> QED BY <1>2, <2>3, Zenon
<1>6. conn = "open" /\ ws.isConnected => Agree(srv.sub, q2, w.subscribed, js2)
  <2>1. \A t \in Served : w.subscribed[t] = IF Settles(h, t) THEN Settled(h) ELSE ws.subscribed[t]
    BY <1>1
  <2>2. conn = "open" /\ ws.isConnected => Agree(srv.sub, up, w.subscribed, r)
    BY <1>1, <1>3, <2>1, AgreeTakeJob
  <2> QED BY <1>5, <2>2
<1>7. NothingSubscribed => NothingSubscribed' \/ "subscribed" \in Kinds(jobs)
  <2>1. h.kind # "subscribed" => Tag(h) # "subscribed" /\ Settled(h) = NoSel
    BY DEF Settled, Tag
  <2>2. h.kind = "subscribed" => "subscribed" \in Kinds(jobs)
    BY <1>2 DEF Tag
  <2> QED BY <2>1, <2>2 DEF NothingSubscribed
<1>8. Tag(h) \notin {"empty", "connected", "replace"} /\ srv'.sub = srv.sub
      /\ ws'.isConnected = ws.isConnected /\ ws'.subscribed = w.subscribed
  OBVIOUS
<1>9. /\ conn # "open" => up' = up
      /\ \A f, js : Agree(srv.sub, q2, f, js) => Agree(srv.sub, up', f, js)
  <2>1. CASE up' = q2
    BY <1>5, <2>1
  <2>2. ASSUME NEW m \in GoodUp, m.topic = "", up' = Sent(q2, m)
        PROVE  /\ conn # "open" => up' = up
               /\ \A f, js : Agree(srv.sub, q2, f, js) => Agree(srv.sub, up', f, js)
    <3>1. up' = q2 \/ up' = Append(q2, m)
      BY <2>2 DEF Sent
    <3>2. conn # "open" => up' = up
      BY <1>5, <2>2 DEF Sent
    <3>3. \A f, js : Agree(srv.sub, q2, f, js) => Agree(srv.sub, Append(q2, m), f, js)
      BY <1>1, <1>4, <2>2, AgreeAppendMessage
    <3> QED BY <3>1, <3>2, <3>3
  <2> QED BY <2>1, <2>2
<1>10. ASSUME jobs' = js2 PROVE SyncInv'
  <2> HIDE DEF h, r
  <2>1. OneChain(jobs') /\ Kinds(jobs') = Kinds(js2)
    BY <1>5, <1>10
  <2>2. conn = "open" /\ ws.isConnected => Agree(srv'.sub, up', ws'.subscribed, jobs')
    BY <1>6, <1>8, <1>9, <1>10
  <2>3. Kinds(jobs') \cap Chain \subseteq Kinds(jobs)
    BY <1>2, <1>5, <2>1 DEF Chain, OpenChain
  <2>4. "empty" \in Kinds(jobs) <=> "empty" \in Kinds(jobs')
    BY <1>2, <1>5, <1>8, <2>1
  <2>5. "connected" \notin Kinds(jobs') /\ ("subscribed" \in Kinds(jobs') => "subscribed" \in Kinds(jobs) \/ ws.isConnected)
    BY <1>2, <1>5, <2>1
  <2>6. "empty" \in Kinds(jobs') => conn = "open"
    BY <1>2, <1>8, <2>4
  <2> QED BY <1>7, <1>8, <1>9, <2>1, <2>2, <2>3, <2>4, <2>5, <2>6, CalmStep
<1>11. ASSUME NEW j \in GoodJob, jobs' = Append(js2, j),
              j.kind \notin {"subscribed", "unsubscribed", "connected", "replace"},
              Tag(j) \in Chain => Tag(h) \in OpenChain
       PROVE  SyncInv'
  <2> HIDE DEF h, r
  <2>1. Kinds(jobs') = Kinds(js2) \cup {Tag(j)}
    BY <1>4, <1>11, KindsFacts
  <2>2. OneChain(jobs')
    <3>1. CASE Tag(j) \notin Chain
      BY <1>4, <1>5, <1>11, <3>1, KindsFacts
    <3>2. CASE Tag(j) \in Chain
      <4>1. Kinds(js2) \cap Chain = {}
        BY <1>2, <1>5, <1>11, <3>2 DEF Chain, OpenChain
      <4> QED BY <1>4, <1>11, <4>1, KindsFacts
    <3> QED BY <3>1, <3>2
  <2>3. conn = "open" /\ ws.isConnected => Agree(srv'.sub, up', ws'.subscribed, jobs')
    <3>1. conn = "open" /\ ws.isConnected => Agree(srv.sub, q2, w.subscribed, Append(js2, j))
      BY <1>4, <1>6, <1>11, AgreeAppendJob
    <3> QED BY <1>8, <1>9, <1>11, <3>1
  <2>4. Tag(j) \notin {"subscribed", "unsubscribed", "connected", "replace"} /\ (Tag(j) \in Chain => conn = "open")
    BY <1>3, <1>11 DEF Tag
  <2>5. Kinds(jobs') \cap Chain \subseteq
             Kinds(jobs) \cup {"empty"} \cup (IF conn = "open" THEN {"auth", "authorized", "timers"} ELSE {})
    <3>1. ASSUME NEW k \in Kinds(jobs') \cap Chain
          PROVE  k \in Kinds(jobs) \cup {"empty"} \cup (IF conn = "open" THEN {"auth", "authorized", "timers"} ELSE {})
      <4>1. CASE k \in Kinds(r)
        BY <1>2, <4>1
      <4>2. CASE k = Tag(j)
        BY <2>4, <3>1, <4>2 DEF Chain, OpenChain
      <4>3. k \notin {"subscribe", "subscribed", "unsubscribed"}
        BY <3>1 DEF Chain, OpenChain
      <4> QED BY <1>5, <2>1, <3>1, <4>1, <4>2, <4>3
    <3> QED BY <3>1
  <2>6. "empty" \in Kinds(jobs) => "empty" \in Kinds(jobs')
    BY <1>2, <1>5, <1>8, <2>1
  <2>7. "connected" \notin Kinds(jobs') /\ ("subscribed" \in Kinds(jobs') => "subscribed" \in Kinds(jobs) \/ ws.isConnected)
    BY <1>2, <1>5, <2>1, <2>4
  <2>8. "empty" \in Kinds(jobs') => conn = "open"
    <3>1. "empty" \in Chain
      BY DEF Chain
    <3> QED BY <1>2, <1>5, <1>8, <2>1, <2>4, <3>1
  <2> QED BY <1>7, <1>8, <1>9, <2>2, <2>3, <2>5, <2>6, <2>7, <2>8, CalmStep
<1> QED BY <1>10, <1>11

LEMMA SetStateStep ==
    ASSUME Typed, SyncInv, jobs # <<>>, Tag(Head(jobs)) \notin {"empty", "connected", "replace"},
           NEW w \in WsState, w.isConnected = ws.isConnected,
           \A t \in Topics : w.subscribed[t] =
               IF Settles(Head(jobs), t) THEN Settled(Head(jobs)) ELSE ws.subscribed[t],
           NEW then,
           \/ then = <<>>
           \/ \E j \in GoodJob : /\ then = <<j>>
                                 /\ j.kind \notin {"subscribed", "unsubscribed", "connected", "replace"}
                                 /\ Tag(j) \in Chain => Tag(Head(jobs)) \in OpenChain,
           SetState(w, Tail(jobs), then), UNCHANGED connVars
    PROVE  SyncInv'
<1> DEFINE r == PageUpdate(w, page, sel, Tail(jobs), up)
           js2 == r.jobs
           q2 == r.up
<1>1. /\ page \in Pages /\ sel \in Sels \cup {NoSel} /\ up \in Seq(GoodUp)
      /\ Tail(jobs) \in Seq(GoodJob)
  BY TakeFacts DEF Typed, UserTyped
<1>2. PageStep(w, Tail(jobs), up, js2, q2)
  BY <1>1, PageUpdateStep
<1>3. ws' = w /\ jobs' = js2 \o then /\ up' = q2 /\ conn' = conn /\ closing' = closing /\ srv' = srv
  BY DEF SetState, connVars
<1> HIDE DEF r, js2, q2
<1>4. js2 \in Seq(GoodJob)
  BY <1>1, <1>2, PageStepTyped
<1>5. \A j \in GoodJob : js2 \o <<j>> = Append(js2, j) /\ js2 \o <<>> = js2
  BY <1>4, ConcatOne
<1>6. \/ jobs' = js2
      \/ \E j \in GoodJob : /\ jobs' = Append(js2, j)
                            /\ j.kind \notin {"subscribed", "unsubscribed", "connected", "replace"}
                            /\ Tag(j) \in Chain => Tag(Head(jobs)) \in OpenChain
  <2>1. CASE then = <<>>
    BY <1>3, <1>4, <2>1, ConcatOne
  <2>2. CASE \E j \in GoodJob : /\ then = <<j>>
                                /\ j.kind \notin {"subscribed", "unsubscribed", "connected", "replace"}
                                /\ Tag(j) \in Chain => Tag(Head(jobs)) \in OpenChain
    BY <1>3, <1>5, <2>2, Zenon
  <2> QED BY <2>1, <2>2
<1> QED BY <1>2, <1>3, <1>6, TaskStep, Zenon

LEMMA SubscribeSync == Typed /\ SyncInv /\ Subscribe => SyncInv'
<1> SUFFICES ASSUME Typed, SyncInv, Subscribe PROVE SyncInv'
  OBVIOUS
<1> DEFINE j == Head(jobs)
           js2 == jobs'
<1>1. /\ jobs # <<>> /\ j.kind \in {"subscribe", "resubscribe"}
      /\ ws' = ws /\ conn' = conn /\ closing' = closing /\ srv' = srv
      /\ \/ /\ ws.isConnected /\ up' = Sent(up, UpMsg("Subscribe", j.topic, j.arg))
            /\ jobs' = Append(Tail(jobs), Do("subscribed", j.topic, j.arg))
         \/ jobs' = Tail(jobs) /\ up' = up
  BY DEF Subscribe, Take, connVars
<1>2. j.topic \in Topics /\ j.arg \in Subs /\ ws \in WsState
  BY <1>1, TakeFacts DEF Typed
<1>3. Tag(j) \notin {"empty", "connected", "replace"} /\ \A t : ~Settles(j, t)
  BY <1>1 DEF Tag, Settles
<1>4. PageStep(ws, Tail(jobs), up, jobs', up')
  BY <1>1, <1>2 DEF PageStep
<1>5. \A t \in Topics : ws.subscribed[t] = IF Settles(j, t) THEN Settled(j) ELSE ws.subscribed[t]
  BY <1>3
<1> QED BY <1>1, <1>2, <1>3, <1>4, <1>5, TaskStep, Zenon

LEMMA SubscribedSync == Typed /\ SyncInv /\ (Subscribed \/ Unsubscribed) => SyncInv'
<1> DEFINE j == Head(jobs)
<1>1. ASSUME Typed, SyncInv, Subscribed PROVE SyncInv'
  <2> DEFINE w == [ws EXCEPT !.subscribed[j.topic] = j.arg,
                             !.codes = IF j.topic \in FlagTopics THEN @ ELSE j.arg]
  <2>1. jobs # <<>> /\ j.kind = "subscribed" /\ SetState(w, Tail(jobs), <<>>) /\ UNCHANGED connVars
    BY <1>1 DEF Subscribed, Take
  <2>2. j.topic \in Topics /\ j.arg \in Subs /\ ws \in WsState
    BY <1>1, <2>1, TakeFacts DEF Typed
  <2>3. w \in WsState
    <3>1. (IF j.topic \in FlagTopics THEN ws.codes ELSE j.arg) \in Subs
      BY <2>2 DEF WsState
    <3> QED BY <2>2, <3>1, WsTyped
  <2>4. Tag(j) \notin {"empty", "connected", "replace"}
    BY <2>1 DEF Tag
  <2>5. w.isConnected = ws.isConnected
    BY <2>2 DEF WsState
  <2>6. \A t \in Topics : w.subscribed[t] = IF Settles(j, t) THEN Settled(j) ELSE ws.subscribed[t]
    BY <2>1, <2>2 DEF WsState, Settles, Settled
  <2> HIDE DEF w
  <2> QED BY <1>1, <2>1, <2>3, <2>4, <2>5, <2>6, SetStateStep, Zenon
<1>2. ASSUME Typed, SyncInv, Unsubscribed PROVE SyncInv'
  <2> DEFINE w == [ws EXCEPT !.subscribed[j.topic] = NoSel, !.data[j.topic] = NoSel]
             then == IF j.arg = NoSel THEN <<>> ELSE <<Do("resubscribe", j.topic, j.arg)>>
  <2>1. jobs # <<>> /\ j.kind = "unsubscribed" /\ SetState(w, Tail(jobs), then) /\ UNCHANGED connVars
    BY <1>2 DEF Unsubscribed, Take
  <2>2. j.topic \in Topics /\ j.arg \in Subs /\ ws \in WsState
    BY <1>2, <2>1, TakeFacts DEF Typed
  <2>3. w \in WsState
    BY <2>2, WsTyped
  <2>4. Tag(j) \notin {"empty", "connected", "replace"}
    BY <2>1 DEF Tag
  <2>5. w.isConnected = ws.isConnected
    BY <2>2 DEF WsState
  <2>6. \A t \in Topics : w.subscribed[t] = IF Settles(j, t) THEN Settled(j) ELSE ws.subscribed[t]
    BY <2>1, <2>2 DEF WsState, Settles, Settled
  <2> DEFINE n == Do("resubscribe", j.topic, j.arg)
  <2>7. n \in GoodJob /\ n.kind = "resubscribe" /\ Tag(n) = "resubscribe" /\ "resubscribe" \notin Chain
    BY <2>2, DoTyped DEF Do, Tag, Chain, OpenChain
  <2>8. then = <<>> \/ then = <<n>>
    OBVIOUS
  <2> HIDE DEF w, n, then
  <2>9. \/ then = <<>>
        \/ \E i \in GoodJob : /\ then = <<i>>
                              /\ i.kind \notin {"subscribed", "unsubscribed", "connected", "replace"}
                              /\ Tag(i) \in Chain => Tag(j) \in OpenChain
    BY <2>7, <2>8
  <2> QED BY <1>2, <2>1, <2>3, <2>4, <2>5, <2>6, <2>9, SetStateStep, Zenon
<1> QED BY <1>1, <1>2

LEMMA AuthSync == Typed /\ SyncInv /\ (SendAuth \/ Authorized) => SyncInv'
<1> DEFINE j == Head(jobs)
           a == Do("authorized", "", j.arg)
           t == Do("timers", "", NoSel)
<1>1. ASSUME Typed, SyncInv, jobs # <<>>, j.kind \in {"auth", "authorized"}
      PROVE  /\ j.arg \in BOOLEAN /\ ws \in WsState /\ token \in BOOLEAN
             /\ up \in Seq(GoodUp) /\ Tail(jobs) \in Seq(GoodJob)
             /\ Tag(j) \notin {"empty", "connected", "replace"}
             /\ \A u \in Topics : ws.subscribed[u] = IF Settles(j, u) THEN Settled(j) ELSE ws.subscribed[u]
             /\ a \in GoodJob /\ a.kind = "authorized" /\ t \in GoodJob /\ t.kind = "timers"
             /\ Tag(a) \in Chain => Tag(j) \in OpenChain
             /\ j.arg => Tag(j) \in OpenChain
             /\ PageStep(ws, Tail(jobs), up, Tail(jobs), up)
  <2>1. /\ j.arg \in BOOLEAN /\ ws \in WsState /\ token \in BOOLEAN
        /\ up \in Seq(GoodUp) /\ Tail(jobs) \in Seq(GoodJob)
    BY <1>1, TakeFacts DEF Typed, AuthTyped
  <2>2. a \in GoodJob /\ t \in GoodJob
    BY <2>1, DoTyped
  <2>3. a.kind = "authorized" /\ t.kind = "timers" /\ a.arg = j.arg
    BY DEF Do
  <2>4. j.arg = FALSE => Tag(j) = "reauth" /\ Tag(a) = "reauth"
    BY <1>1, <2>3 DEF Tag
  <2>5. j.arg = TRUE => Tag(j) \in OpenChain
    BY <1>1 DEF Tag, OpenChain
  <2>6. "reauth" \notin Chain
    BY DEF Chain, OpenChain
  <2>7. Tag(j) \notin {"empty", "connected", "replace"} /\ \A u : ~Settles(j, u)
    BY <1>1 DEF Tag, Settles
  <2>8. PageStep(ws, Tail(jobs), up, Tail(jobs), up)
    BY DEF PageStep
  <2> QED BY <2>1, <2>2, <2>3, <2>4, <2>5, <2>6, <2>7, <2>8
<1>2. ASSUME Typed, SyncInv, SendAuth PROVE SyncInv'
  <2>1. /\ jobs # <<>> /\ j.kind = "auth"
        /\ ws' = ws /\ conn' = conn /\ closing' = closing /\ srv' = srv
        /\ \/ up' = Sent(up, UpMsg("Auth", "", token)) /\ jobs' = Append(Tail(jobs), a)
           \/ jobs' = Tail(jobs) \o (IF j.arg THEN <<t>> ELSE <<>>) /\ up' = up
    BY <1>2 DEF SendAuth, Take, connVars
  <2> DEFINE m == UpMsg("Auth", "", token)
  <2>2. m \in GoodUp /\ m.topic = ""
    BY <1>1, <1>2, <2>1 DEF UpMsg, GoodUp
  <2>3. CASE up' = Sent(up, m) /\ jobs' = Append(Tail(jobs), a)
    <3> HIDE DEF m, a
    <3>1. \E i \in GoodJob : /\ jobs' = Append(Tail(jobs), i)
                             /\ i.kind \notin {"subscribed", "unsubscribed", "connected", "replace"}
                             /\ Tag(i) \in Chain => Tag(j) \in OpenChain
      BY <1>1, <1>2, <2>1, <2>3
    <3>2. \E i \in GoodUp : i.topic = "" /\ up' = Sent(up, i)
      BY <2>2, <2>3
    <3> QED BY <1>1, <1>2, <2>1, <3>1, <3>2, TaskStep, Zenon
  <2>4. CASE jobs' = Tail(jobs) \o (IF j.arg THEN <<t>> ELSE <<>>) /\ up' = up
    <3> HIDE DEF t
    <3>1. jobs' = Tail(jobs) \/ (j.arg /\ jobs' = Append(Tail(jobs), t))
      BY <1>1, <1>2, <2>1, <2>4, ConcatOne
    <3>2. \/ jobs' = Tail(jobs)
          \/ \E i \in GoodJob : /\ jobs' = Append(Tail(jobs), i)
                                /\ i.kind \notin {"subscribed", "unsubscribed", "connected", "replace"}
                                /\ Tag(i) \in Chain => Tag(j) \in OpenChain
      BY <1>1, <1>2, <2>1, <3>1
    <3> QED BY <1>1, <1>2, <2>1, <2>4, <3>2, TaskStep, Zenon
  <2> QED BY <2>1, <2>3, <2>4
<1>3. ASSUME Typed, SyncInv, Authorized PROVE SyncInv'
  <2> DEFINE then == IF j.arg THEN <<t>> ELSE <<>>
  <2>1. /\ jobs # <<>> /\ j.kind = "authorized" /\ UNCHANGED connVars
        /\ SetState(ws, Tail(jobs), then)
    BY <1>3 DEF Authorized, Take
  <2>2. then = <<>> \/ (j.arg /\ then = <<t>>)
    BY <1>1, <1>3, <2>1
  <2> HIDE DEF then, t
  <2>3. \/ then = <<>>
        \/ \E i \in GoodJob : /\ then = <<i>>
                              /\ i.kind \notin {"subscribed", "unsubscribed", "connected", "replace"}
                              /\ Tag(i) \in Chain => Tag(j) \in OpenChain
    BY <1>1, <1>3, <2>1, <2>2
  <2> QED BY <1>1, <1>3, <2>1, <2>3, SetStateStep, Zenon
<1> QED BY <1>2, <1>3

(* ping() sends at most its Ping. *)
LEMMA PingSends ==
    ASSUME Typed, DoPing
    PROVE  up' = up \/ \E m \in GoodUp : m.topic = "" /\ up' = Sent(up, m)
<1> DEFINE m == UpMsg("Ping", "", NoSel)
<1>1. m \in GoodUp /\ m.topic = ""
  BY DoTyped DEF UpMsg, GoodUp
<1>2. up' = up \/ up' = Sent(up, m)
  BY DEF DoPing
<1> HIDE DEF m
<1> QED BY <1>1, <1>2

LEMMA TimersSync == Typed /\ SyncInv /\ Timers => SyncInv'
<1> SUFFICES ASSUME Typed, SyncInv, Timers PROVE SyncInv'
  OBVIOUS
<1> DEFINE j == Head(jobs)
           e == Do("empty", "", TRUE)
<1>1. /\ jobs # <<>> /\ j.kind = "timers" /\ DoPing
      /\ ws' = ws /\ conn' = conn /\ closing' = closing /\ srv' = srv
      /\ jobs' = Append(Tail(jobs), e) \/ jobs' = Tail(jobs)
  BY DEF Timers, Take, connVars, HbGivesUp, HbGoesOn
<1>2. e \in GoodJob /\ e.kind = "empty" /\ Tag(j) = "timers" /\ \A t : ~Settles(j, t)
  BY <1>1, DoTyped DEF Do, Tag, Settles
<1>3. "timers" \in OpenChain
  BY DEF OpenChain
<1>4. PageStep(ws, Tail(jobs), up, Tail(jobs), up) /\ ws \in WsState
  BY DEF PageStep, Typed
<1>5. \A t \in Topics : ws.subscribed[t] = IF Settles(j, t) THEN Settled(j) ELSE ws.subscribed[t]
  BY <1>2
<1>6. up' = up \/ \E m \in GoodUp : m.topic = "" /\ up' = Sent(up, m)
  BY <1>1, PingSends
<1> HIDE DEF e
<1>7. \/ jobs' = Tail(jobs)
      \/ \E i \in GoodJob : /\ jobs' = Append(Tail(jobs), i)
                            /\ i.kind \notin {"subscribed", "unsubscribed", "connected", "replace"}
                            /\ Tag(i) \in Chain => Tag(j) \in OpenChain
  BY <1>1, <1>2, <1>3
<1>8. Tag(j) \notin {"empty", "connected", "replace"}
  BY <1>2
<1> QED BY <1>1, <1>4, <1>5, <1>6, <1>7, <1>8, TaskStep, Zenon

LEMMA DataSync == Typed /\ SyncInv /\ (SetData \/ SetIndicators) => SyncInv'
<1> DEFINE j == Head(jobs)
<1>1. ASSUME Typed, SyncInv, SetData PROVE SyncInv'
  <2> DEFINE w == [ws EXCEPT !.data[j.topic] = j.arg]
             n == Do("indicators", "", j.arg)
             then == IF j.topic = "Liquidity" THEN <<n>> ELSE <<>>
  <2>1. jobs # <<>> /\ j.kind = "data" /\ SetState(w, Tail(jobs), then) /\ UNCHANGED connVars
    BY <1>1 DEF SetData, Take
  <2>2. j.topic \in Topics /\ j.arg \in Subs /\ ws \in WsState
    BY <1>1, <2>1, TakeFacts DEF Typed
  <2>3. w \in WsState
    BY <2>2, WsTyped
  <2>4. Tag(j) \notin {"empty", "connected", "replace"}
    BY <2>1 DEF Tag
  <2>5. w.isConnected = ws.isConnected
    BY <2>2 DEF WsState
  <2>6. \A t \in Topics : w.subscribed[t] = IF Settles(j, t) THEN Settled(j) ELSE ws.subscribed[t]
    BY <2>1, <2>2 DEF WsState, Settles, Settled
  <2>7. n \in GoodJob /\ n.kind = "indicators" /\ Tag(n) = "indicators" /\ "indicators" \notin Chain
    BY <2>2, DoTyped DEF Do, Tag, Chain, OpenChain
  <2>8. then = <<>> \/ then = <<n>>
    OBVIOUS
  <2> HIDE DEF w, n, then
  <2>9. \/ then = <<>>
        \/ \E i \in GoodJob : /\ then = <<i>>
                              /\ i.kind \notin {"subscribed", "unsubscribed", "connected", "replace"}
                              /\ Tag(i) \in Chain => Tag(j) \in OpenChain
    BY <2>7, <2>8
  <2> QED BY <1>1, <2>1, <2>3, <2>4, <2>5, <2>6, <2>9, SetStateStep, Zenon
<1>2. ASSUME Typed, SyncInv, SetIndicators PROVE SyncInv'
  <2> DEFINE w == [ws EXCEPT !.indicators = j.arg]
  <2>1. jobs # <<>> /\ j.kind = "indicators" /\ SetState(w, Tail(jobs), <<>>) /\ UNCHANGED connVars
    BY <1>2 DEF SetIndicators, Take
  <2>2. j.arg \in Subs /\ ws \in WsState
    BY <1>2, <2>1, TakeFacts DEF Typed
  <2>3. w \in WsState
    BY <2>2 DEF WsState
  <2>4. Tag(j) \notin {"empty", "connected", "replace"}
    BY <2>1 DEF Tag
  <2>5. w.isConnected = ws.isConnected
    BY <2>2 DEF WsState
  <2>6. \A t \in Topics : w.subscribed[t] = IF Settles(j, t) THEN Settled(j) ELSE ws.subscribed[t]
    BY <2>1, <2>2 DEF WsState, Settles, Settled
  <2> HIDE DEF w
  <2> QED BY <1>2, <2>1, <2>3, <2>4, <2>5, <2>6, SetStateStep, Zenon
<1> QED BY <1>1, <1>2

LEMMA PageSync == Typed /\ SyncInv /\ (ApplySelection \/ HideNow) => SyncInv'
<1> SUFFICES ASSUME Typed, SyncInv, ApplySelection \/ HideNow PROVE SyncInv'
  OBVIOUS
<1> DEFINE j == Head(jobs)
<1>1. /\ jobs # <<>> /\ j.kind \in {"select", "hide"}
      /\ ws' = ws /\ conn' = conn /\ closing' = closing /\ srv' = srv
  BY DEF ApplySelection, HideNow, Take, connVars
<1>2. ws \in WsState /\ page \in Pages
  BY DEF Typed, UserTyped
<1>3. PageStep(ws, Tail(jobs), up, jobs', up')
  <2>1. CASE ApplySelection
    <3> DEFINE r == PageUpdate(ws, page, j.arg, Tail(jobs), up)
    <3>1. jobs # <<>> /\ j.kind = "select" /\ jobs' = r.jobs /\ up' = r.up
      BY <2>1 DEF ApplySelection, Take
    <3>2. j.arg \in Sels \cup {NoSel}
      BY <3>1, TakeFacts
    <3>3. PageStep(ws, Tail(jobs), up, r.jobs, r.up)
      BY <1>2, <3>2, PageUpdateStep
    <3> QED BY <3>1, <3>3
  <2>2. CASE HideNow
    <3> DEFINE r == PageUnmount(ws, page, Tail(jobs), up)
    <3>1. jobs' = r.jobs /\ up' = r.up
      BY <2>2 DEF HideNow
    <3>2. PageStep(ws, Tail(jobs), up, r.jobs, r.up)
      BY <1>2, PageUnmountStep
    <3> QED BY <3>1, <3>2
  <2> QED BY <2>1, <2>2
<1>4. Tag(j) \notin {"empty", "connected", "replace"} /\ \A t : ~Settles(j, t)
  BY <1>1 DEF Tag, Settles
<1>5. \A t \in Topics : ws.subscribed[t] = IF Settles(j, t) THEN Settled(j) ELSE ws.subscribed[t]
  BY <1>4
<1> QED BY <1>1, <1>2, <1>3, <1>4, <1>5, TaskStep, Zenon

LEMMA YieldSync == Typed /\ SyncInv /\ Yield => SyncInv'
<1> SUFFICES ASSUME Typed, SyncInv, Yield PROVE SyncInv'
  OBVIOUS
<1> DEFINE h == Head(jobs)
           r == Tail(jobs)
<1>1. /\ Len(jobs) > 1 /\ h.kind \in Slow /\ jobs' = Append(r, h)
      /\ ws' = ws /\ conn' = conn /\ closing' = closing /\ srv' = srv /\ up' = up
  BY DEF Yield, connVars
<1>2. jobs # <<>>
  BY <1>1
<1>3. jobs \in Seq(GoodJob) /\ h \in GoodJob /\ r \in Seq(GoodJob)
  BY <1>2, TakeFacts DEF Typed
<1>4. Kinds(jobs) = {Tag(h)} \cup Kinds(r)
  BY <1>2, HeadFacts
<1>5. OneChain(Append(r, h))
  BY <1>2, <1>3, TakeKinds DEF SyncInv, QueueInv
<1> HIDE DEF h, r
<1>6. Kinds(jobs') = Kinds(jobs) /\ OneChain(jobs')
  <2>1. Kinds(Append(r, h)) = Kinds(r) \cup {Tag(h)}
    BY <1>3, KindsFacts, Zenon
  <2> QED BY <1>1, <1>4, <1>5, <2>1
<1>7. Len(jobs) # 1
  <2>1. Len(jobs) \in Nat /\ Len(jobs) > 1
    BY <1>1, <1>3
  <2> QED BY <2>1
<1>8. "connected" \notin Kinds(jobs) /\ ("empty" \in Kinds(jobs) => conn = "open")
  BY <1>7 DEF SyncInv, QueueInv
<1>9. h.kind \notin {"subscribed", "unsubscribed"} /\ \A t : ~Settles(h, t)
  BY <1>1 DEF Slow, Settles
<1>10. conn = "open" /\ ws.isConnected => Agree(srv.sub, up, ws.subscribed, Append(r, h))
  <2>1. conn = "open" /\ ws.isConnected => Agree(srv.sub, up, ws.subscribed, jobs)
    BY DEF SyncInv, ConnInv
  <2>2. \A t \in Served : ws.subscribed[t] = IF Settles(h, t) THEN Settled(h) ELSE ws.subscribed[t]
    BY <1>9
  <2>3. conn = "open" /\ ws.isConnected => Agree(srv.sub, up, ws.subscribed, r)
    BY <1>2, <1>3, <2>1, <2>2, AgreeTakeJob DEF h, r
  <2> QED BY <1>3, <1>9, <2>3, AgreeAppendJob
<1>11. NothingSubscribed => NothingSubscribed'
  BY <1>1 DEF NothingSubscribed
<1>12. conn = "open" /\ ws.isConnected => Agree(srv'.sub, up', ws'.subscribed, jobs')
  BY <1>1, <1>10
<1> QED BY <1>1, <1>6, <1>8, <1>11, <1>12, CalmStep

-----------------------------------------------------------------------------
(* The steps that touch the connection. *)

LEMMA AgreeAtRest ==
    ASSUME NEW sub, NEW f
    PROVE  /\ (\A t \in Served : sub[t] = f[t] /\ f[t] \in Subs) => Agree(sub, <<>>, f, <<>>)
           /\ Agree(sub, <<>>, f, <<>>) => \A t \in Served : sub[t] = f[t]
<1>1. \A t : Orders(<<>>, t) = {} /\ Pending(<<>>, t) = {}
  BY DEF Orders, Pending
<1> QED BY <1>1 DEF Agree, WillServe, WillSay

(* The connection is open after the step. *)
LEMMA OpenAfter ==
    ASSUME conn' = "open", OneChain(jobs'), "connected" \notin Kinds(jobs'),
           "replace" \in Kinds(jobs') => ~ws'.isConnected,
           ws'.isConnected => Agree(srv'.sub, up', ws'.subscribed, jobs')
    PROVE  SyncInv'
<1>1. QueueInv'
  BY DEF QueueInv, OneChain, Kinds
<1>2. Agree(srv.sub, up, ws.subscribed, jobs)' = Agree(srv'.sub, up', ws'.subscribed, jobs')
  BY DEF Agree, WillServe, WillSay, Orders, Pending
<1>3. ConnInv'
  BY <1>2 DEF ConnInv
<1> QED BY <1>1, <1>3 DEF SyncInv

(* setState(emptyState()) is all that is left to do after the step. *)
LEMMA EmptyAfter ==
    ASSUME NEW e \in GoodJob, e.kind = "empty", jobs' = <<e>>,
           conn' # "open" => up' = <<>> /\ srv' = NewSession,
           conn' = "connecting" => ~ws'.isConnected,
           conn' = "open" /\ ws'.isConnected => Agree(srv'.sub, up', ws'.subscribed, <<>>)
    PROVE  SyncInv'
<1>1. Tag(e) = "empty"
  BY DEF Tag
<1>2. Kinds(<<e>>) = {"empty"} /\ OneChain(<<e>>)
  BY <1>1, KindsFacts, SingleTyped
<1>3. Kinds(jobs') = {"empty"} /\ OneChain(jobs') /\ Len(jobs') = 1
  BY <1>2
<1>4. (Kinds(jobs))' = {"empty"} /\ OneChain(jobs)' /\ (Len(jobs) = 1)' /\ NoneSubscribing'
  BY <1>3 DEF Kinds, OneChain, NoneSubscribing
<1>5. QueueInv'
  BY <1>4 DEF QueueInv, OpenChain
<1>6. conn' = "open" /\ ws'.isConnected => Agree(srv'.sub, up', ws'.subscribed, jobs')
  <2>1. <<>> \in Seq(GoodJob) /\ Append(<<>>, e) = <<e>>
    OBVIOUS
  <2>2. e.kind \notin {"subscribed", "unsubscribed"}
    OBVIOUS
  <2> QED BY <2>1, <2>2, AgreeAppendJob
<1>7. Agree(srv.sub, up, ws.subscribed, jobs)' = Agree(srv'.sub, up', ws'.subscribed, jobs')
  BY DEF Agree, WillServe, WillSay, Orders, Pending
<1>8. ConnInv'
  BY <1>4, <1>6, <1>7 DEF ConnInv, NothingSent
<1> QED BY <1>5, <1>8 DEF SyncInv

(* Nothing is left to do after the step, and there is no connection. *)
LEMMA QuietAfter ==
    ASSUME jobs' = <<>>, conn' # "open", up' = <<>>, srv' = NewSession,
           conn' \in {"waiting", "connecting"} => ws' = emptyState
    PROVE  SyncInv'
<1>1. Kinds(jobs)' = {} /\ OneChain(jobs)' /\ NoneSubscribing'
  BY DEF Kinds, OneChain, NoneSubscribing
<1>2. QueueInv'
  BY <1>1 DEF QueueInv
<1>3. ConnInv'
  BY <1>1 DEF ConnInv, NothingSent, NothingSubscribed, emptyState
<1> QED BY <1>2, <1>3 DEF SyncInv

LEMMA ConnectedSync == Typed /\ SyncInv /\ Connected => SyncInv'
<1> SUFFICES ASSUME Typed, SyncInv, Connected PROVE SyncInv'
  OBVIOUS
<1> DEFINE w == [ws EXCEPT !.isConnected = TRUE]
           a == Do("auth", "", TRUE)
           r == PageUpdate(w, page, sel, Tail(jobs), up)
           js2 == r.jobs
           q2 == r.up
<1>1. /\ jobs # <<>> /\ Head(jobs).kind = "connected"
      /\ ws' = w /\ jobs' = js2 \o <<a>> /\ up' = q2 /\ conn' = conn /\ srv' = srv
  BY DEF Connected, Take, SetState, connVars
<1>2. "connected" \in Kinds(jobs)
  <2>1. Tag(Head(jobs)) = "connected"
    BY <1>1 DEF Tag
  <2> QED BY <1>1, <2>1, HeadFacts
<1>3. /\ Len(jobs) = 1 /\ NothingSent /\ NothingSubscribed /\ conn = "open"
  BY <1>2 DEF SyncInv, QueueInv, OpenChain
<1>4. Tail(jobs) = <<>>
  BY <1>1, <1>3, TakeKinds DEF Typed
<1>5. /\ w \in WsState /\ page \in Pages /\ sel \in Sels \cup {NoSel} /\ up = <<>>
      /\ w.isConnected /\ w.subscribed = ws.subscribed
  BY <1>3 DEF Typed, UserTyped, WsState, NothingSent
<1>6. PageStep(w, <<>>, <<>>, js2, q2)
  BY <1>4, <1>5, PageUpdateStep
<1>7. a \in GoodJob /\ a.kind = "auth" /\ Tag(a) = "auth"
  BY DoTyped DEF Do, Tag
<1>8. Agree(srv.sub, <<>>, w.subscribed, <<>>)
  <2>1. \A t \in Served : srv.sub[t] = NoSel /\ w.subscribed[t] = NoSel /\ NoSel \in Subs
    BY <1>3, <1>5, TopicsAssumption DEF NothingSent, NewSession, NothingSubscribed, Subs
  <2> QED BY <2>1, AgreeAtRest
<1> HIDE DEF w, a, r, js2, q2
<1>9. <<>> \in Seq(GoodJob) /\ <<>> \in Seq(GoodUp) /\ Kinds(<<>>) = {}
  BY DEF Kinds
<1>10. js2 \in Seq(GoodJob)
  BY <1>5, <1>6, <1>9, PageStepTyped
<1>11. /\ Kinds(js2) \subseteq {"subscribe", "subscribed", "unsubscribed"}
       /\ Agree(srv.sub, q2, w.subscribed, js2)
  <2>1. /\ Kinds(js2) \subseteq Kinds(<<>>) \cup {"subscribe", "subscribed", "unsubscribed"}
        /\ conn = "open" => \A sub, f : Agree(sub, <<>>, f, <<>>) => Agree(sub, q2, f, js2)
    BY <1>5, <1>6, <1>9, PageStepFacts, Zenon
  <2> QED BY <1>3, <1>8, <1>9, <2>1
<1>12. jobs' = Append(js2, a)
  BY <1>1, <1>10, <1>7, ConcatOne
<1>13. Kinds(jobs') = Kinds(js2) \cup {"auth"} /\ OneChain(jobs')
  <2>1. Kinds(js2) \cap Chain = {}
    BY <1>11 DEF Chain, OpenChain
  <2> QED BY <1>7, <1>10, <1>12, <2>1, KindsFacts
<1>14. Agree(srv'.sub, up', ws'.subscribed, jobs')
  <2>1. Agree(srv.sub, q2, w.subscribed, Append(js2, a))
    BY <1>7, <1>10, <1>11, AgreeAppendJob
  <2> QED BY <1>1, <1>12, <2>1
<1>15. "connected" \notin Kinds(jobs') /\ "replace" \notin Kinds(jobs') /\ conn' = "open"
  BY <1>1, <1>3, <1>11, <1>13
<1> QED BY <1>13, <1>14, <1>15, OpenAfter

LEMMA EmptySync == Typed /\ SyncInv /\ Empty => SyncInv'
<1> SUFFICES ASSUME Typed, SyncInv, Empty PROVE SyncInv'
  OBVIOUS
<1> DEFINE w == emptyState
           a == Do("replace", "", NoSel)
           then == IF Head(jobs).arg THEN <<a>> ELSE <<>>
           r == PageUpdate(w, page, sel, Tail(jobs), up)
           js2 == r.jobs
           q2 == r.up
           rest == Tail(jobs)
<1>1. /\ jobs # <<>> /\ Head(jobs).kind = "empty"
      /\ ws' = w /\ jobs' = js2 \o then /\ up' = q2 /\ conn' = conn /\ closing' = closing /\ srv' = srv
  BY DEF Empty, Take, SetState, connVars
<1>2. /\ Kinds(rest) \cap Chain = {} /\ OneChain(rest)
      /\ conn # "open" => rest = <<>>
  <2>1. Tag(Head(jobs)) = "empty" /\ "empty" \in Chain
    BY <1>1 DEF Tag, Chain
  <2> QED BY <1>1, <2>1, HeadFacts
<1>3. /\ w \in WsState /\ page \in Pages /\ sel \in Sels \cup {NoSel} /\ up \in Seq(GoodUp)
      /\ rest \in Seq(GoodJob)
      /\ ~w.isConnected /\ \A t \in Topics : w.subscribed[t] = NoSel
  <2>1. /\ page \in Pages /\ sel \in Sels \cup {NoSel} /\ up \in Seq(GoodUp) /\ rest \in Seq(GoodJob)
    BY <1>1, TakeFacts DEF Typed, UserTyped
  <2>2. w \in WsState
    BY DEF WsState, emptyState, Subs
  <2>3. ~w.isConnected /\ \A t \in Topics : w.subscribed[t] = NoSel
    BY DEF emptyState
  <2> QED BY <2>1, <2>2, <2>3
<1>4. PageStep(w, rest, up, js2, q2)
  BY <1>3, PageUpdateStep
<1>5. a \in GoodJob /\ Tag(a) = "replace" /\ (then = <<>> \/ then = <<a>>)
  <2>1. Head(jobs).arg \in BOOLEAN
    BY <1>1, TakeFacts
  <2> QED BY <2>1, DoTyped DEF Do, Tag
<1> HIDE DEF w, a, r, js2, q2, rest, then
<1>6. js2 \in Seq(GoodJob)
  BY <1>3, <1>4, PageStepTyped
<1>7. /\ Kinds(js2) \subseteq Kinds(rest) \cup {"subscribe"} /\ OneChain(js2)
      /\ conn # "open" => q2 = up
  <2>1. w \in WsState /\ rest \in Seq(GoodJob) /\ up \in Seq(GoodUp)
    BY <1>3
  <2>2. /\ Kinds(rest) \subseteq Kinds(js2)
        /\ Kinds(js2) \subseteq Kinds(rest) \cup {"subscribe", "subscribed", "unsubscribed"}
        /\ ~w.isConnected => Kinds(js2) \subseteq Kinds(rest) \cup {"subscribe"}
        /\ OneChain(rest) => OneChain(js2)
        /\ conn # "open" => q2 = up
        /\ conn = "open" => \A sub, f : Agree(sub, up, f, rest) => Agree(sub, q2, f, js2)
    BY <1>4, <2>1, PageStepFacts, Zenon
  <2> QED BY <1>2, <1>3, <2>2
<1>8. Kinds(js2) \cap Chain = {}
  BY <1>2, <1>7 DEF Chain, OpenChain
<1>9. jobs' = js2 \/ jobs' = Append(js2, a)
  BY <1>1, <1>5, <1>6, ConcatOne
<1>10. Kinds(jobs') \subseteq Kinds(js2) \cup {"replace"} /\ OneChain(jobs')
  <2>1. Kinds(Append(js2, a)) = Kinds(js2) \cup {Tag(a)} /\ OneChain(Append(js2, a)) /\ OneChain(js2)
    BY <1>5, <1>6, <1>8, KindsFacts
  <2> QED BY <1>5, <1>9, <2>1
<1>11. Kinds(jobs') \cap Chain \subseteq {"replace"}
  BY <1>8, <1>10
<1>12. CASE conn = "open"
  <2>1. "connected" \notin Kinds(jobs') /\ ~ws'.isConnected /\ conn' = "open"
    BY <1>1, <1>3, <1>11, <1>12 DEF Chain, OpenChain
  <2> QED BY <1>10, <2>1, OpenAfter
<1>13. CASE conn # "open"
  <2>1. "subscribed" \notin Kinds(jobs')
    <3>1. Kinds(rest) = {}
      BY <1>2, <1>13 DEF Kinds
    <3> QED BY <1>7, <1>10, <3>1
  <2>2. up' = up /\ NothingSent
    BY <1>1, <1>7, <1>13 DEF SyncInv, ConnInv
  <2>3. Kinds(jobs)' = Kinds(jobs') /\ OneChain(jobs)' /\ NothingSent' /\ ~(ws.isConnected)' /\ NothingSubscribed'
        /\ NoneSubscribing'
    BY <1>1, <1>3, <1>10, <2>1, <2>2 DEF Kinds, OneChain, NothingSent, NothingSubscribed, NoneSubscribing
  <2>4. "connected" \notin Kinds(jobs') /\ "empty" \notin Kinds(jobs') /\ Kinds(jobs') \cap OpenChain = {}
    BY <1>11 DEF Chain, OpenChain
  <2>5. QueueInv'
    BY <2>3, <2>4 DEF QueueInv
  <2>6. ConnInv'
    BY <2>3 DEF ConnInv
  <2> QED BY <2>5, <2>6 DEF SyncInv
<1> QED BY <1>12, <1>13

LEMMA ReplaceSync == Typed /\ SyncInv /\ Replace => SyncInv'
<1> SUFFICES ASSUME Typed, SyncInv, Replace PROVE SyncInv'
  OBVIOUS
<1>1. /\ jobs # <<>> /\ Head(jobs).kind = "replace" /\ jobs' = Tail(jobs) /\ ws' = ws
      /\ conn' = "connecting" /\ srv' = NewSession /\ up' = <<>>
      /\ closing' = IF conn \in {"open", "connecting"} THEN closing + 1 ELSE closing
  BY DEF Replace, Take, Close
<1>2. Kinds(jobs) = {"replace"} \cup Kinds(Tail(jobs)) /\ Kinds(Tail(jobs)) \cap Chain = {} /\ OneChain(Tail(jobs))
  <2>1. Tag(Head(jobs)) = "replace" /\ "replace" \in Chain
    BY <1>1 DEF Tag, Chain
  <2> QED BY <1>1, <2>1, HeadFacts
<1>3. ~ws.isConnected /\ (conn = "open" \/ (NoneSubscribing /\ NothingSubscribed))
  BY <1>2 DEF SyncInv, QueueInv
<1>4. closing' = 0 => NoneSubscribing /\ NothingSubscribed
  BY <1>1, <1>3 DEF Typed, ConnTyped
<1>5. Kinds(jobs') = Kinds(Tail(jobs)) /\ OneChain(jobs')
  BY <1>1, <1>2
<1>6. /\ Kinds(jobs)' = Kinds(jobs') /\ OneChain(jobs)' /\ NothingSent' /\ ~(ws.isConnected)'
      /\ closing' = 0 => NothingSubscribed' /\ NoneSubscribing'
  BY <1>1, <1>2, <1>3, <1>4, <1>5 DEF Kinds, OneChain, NothingSent, NothingSubscribed, NoneSubscribing
<1>7. /\ Kinds(jobs)' \cap OpenChain = {} /\ "empty" \notin Kinds(jobs)' /\ "replace" \notin Kinds(jobs)'
      /\ "connected" \notin Kinds(jobs)'
  BY <1>2, <1>5, <1>6 DEF Chain, OpenChain
<1>8. QueueInv'
  BY <1>6, <1>7 DEF QueueInv
<1>9. ConnInv'
  BY <1>1, <1>6 DEF ConnInv
<1> QED BY <1>8, <1>9 DEF SyncInv

LEMMA NoKinds == Kinds(<<>>) = {}
BY DEF Kinds

(* A task that keeps the connection and the state of WsContainer. *)
LEMMA RestStep ==
    ASSUME Typed, SyncInv, jobs = <<>>, conn' = conn, closing' = closing, ws' = ws,
           jobs' \in Seq(GoodJob), Kinds(jobs') \cap Chain = {},
           "subscribed" \in Kinds(jobs') => ws.isConnected,
           conn # "open" => up' = up /\ srv' = srv,
           conn = "open" /\ ws.isConnected /\ Agree(srv.sub, up, ws.subscribed, <<>>)
             => Agree(srv'.sub, up', ws.subscribed, jobs')
    PROVE  SyncInv'
<1>1. Kinds(jobs) = {}
  BY DEF Kinds
<1>2. conn = "open" /\ ws.isConnected => Agree(srv.sub, up, ws.subscribed, <<>>)
  BY DEF SyncInv, ConnInv
<1>3. conn = "open" /\ ws.isConnected => Agree(srv'.sub, up', ws'.subscribed, jobs')
  BY <1>2
<1>4. OneChain(jobs')
  BY KindsFacts, DoTyped
<1>5. "connected" \notin Kinds(jobs') /\ "empty" \notin Kinds(jobs')
  BY DEF Chain, OpenChain
<1>6. NothingSubscribed => NothingSubscribed'
  BY DEF NothingSubscribed
<1>7. ws'.isConnected = ws.isConnected
  OBVIOUS
<1> QED BY <1>1, <1>3, <1>4, <1>5, <1>6, <1>7, CalmStep

(* A task that leaves one job behind. *)
LEMMA RestJob ==
    ASSUME Typed, SyncInv, jobs = <<>>, UNCHANGED <<conn, closing, ws, up, srv>>,
           NEW j \in GoodJob, jobs' = <<j>>, Tag(j) \notin Chain,
           j.kind \notin {"subscribed", "unsubscribed"}
    PROVE  SyncInv'
<1>1. <<j>> \in Seq(GoodJob) /\ <<>> \in Seq(GoodJob) /\ <<j>> = Append(<<>>, j)
  OBVIOUS
<1>2. Kinds(jobs') = {Tag(j)} /\ jobs' \in Seq(GoodJob)
  BY <1>1, KindsFacts
<1>3. Tag(j) # "subscribed"
  BY DEF Tag
<1>4. \A sub, q, f : Agree(sub, q, f, <<>>) => Agree(sub, q, f, <<j>>)
  BY <1>1, AgreeAppendJob
<1>5. conn = "open" /\ ws.isConnected /\ Agree(srv.sub, up, ws.subscribed, <<>>)
        => Agree(srv'.sub, up', ws.subscribed, jobs')
  BY <1>4
<1>6. Kinds(jobs') \cap Chain = {} /\ "subscribed" \notin Kinds(jobs')
  BY <1>2, <1>3
<1> QED BY <1>2, <1>5, <1>6, RestStep

(* A task that is nothing to the subscriptions. *)
LEMMA RestSame ==
    ASSUME Typed, SyncInv, UNCHANGED <<conn, closing, ws, up, srv, jobs>>
    PROVE  SyncInv'
BY DEF SyncInv, QueueInv, ConnInv, NothingSent, NothingSubscribed, NoneSubscribing, OneChain, Kinds,
       Agree, WillServe, WillSay, Orders, Pending

LEMMA TimerSync == Typed /\ SyncInv /\ (PingTimer \/ HbTimer) => SyncInv'
<1>1. ASSUME Typed, SyncInv, PingTimer PROVE SyncInv'
  <2>1. /\ jobs = <<>> /\ DoPing /\ jobs' = jobs /\ ws' = ws /\ conn' = conn /\ closing' = closing
        /\ srv' = srv
    BY <1>1 DEF PingTimer, AtRest, connVars
  <2>2. CASE up' = up
    BY <1>1, <2>1, <2>2, RestSame
  <2>3. ASSUME NEW m \in GoodUp, m.topic = "", up' = Sent(up, m) PROVE SyncInv'
    <3>1. jobs' \in Seq(GoodJob) /\ Kinds(jobs') = {} /\ up \in Seq(GoodUp) /\ m.topic \notin Served
      <4>1. up \in Seq(GoodUp) /\ jobs \in Seq(GoodJob)
        BY <1>1 DEF Typed
      <4>2. m.topic \notin Served
        BY <2>3 DEF Served
      <4> QED BY <2>1, <4>1, <4>2, NoKinds
    <3>2. (conn # "open" => up' = up) /\ (up' = up \/ up' = Append(up, m))
      BY <2>3 DEF Sent
    <3>3. Agree(srv.sub, up, ws.subscribed, <<>>) => Agree(srv.sub, Append(up, m), ws.subscribed, <<>>)
      BY <3>1, AgreeAppendMessage
    <3>4. Agree(srv.sub, up, ws.subscribed, <<>>) => Agree(srv'.sub, up', ws.subscribed, jobs')
      BY <2>1, <3>2, <3>3
    <3> QED BY <1>1, <2>1, <3>1, <3>2, <3>4, RestStep
  <2> QED BY <1>1, <2>1, <2>2, <2>3, PingSends
<1>2. ASSUME Typed, SyncInv, HbTimer PROVE SyncInv'
  <2> DEFINE e == Do("empty", "", TRUE)
  <2>1. /\ jobs = <<>> /\ ws' = ws /\ conn' = conn /\ closing' = closing /\ srv' = srv /\ up' = up
        /\ jobs' = <<>> \/ jobs' = Append(<<>>, e)
    BY <1>2 DEF HbTimer, HbGivesUp, HbGoesOn, AtRest, connVars
  <2>2. e \in GoodJob /\ e.kind = "empty" /\ Append(<<>>, e) = <<e>>
    <3>1. e \in GoodJob /\ e.kind = "empty"
      BY DoTyped DEF Do
    <3> HIDE DEF e
    <3> QED BY <3>1
  <2>3. CASE jobs' = <<>>
    BY <1>2, <2>1, <2>3, RestSame
  <2>4. CASE jobs' = Append(<<>>, e)
    <3> HIDE DEF e
    <3>1. /\ conn # "open" => up = <<>> /\ srv = NewSession
          /\ conn = "connecting" => ~ws.isConnected
          /\ conn = "open" /\ ws.isConnected => Agree(srv.sub, up, ws.subscribed, <<>>)
      BY <1>2, <2>1 DEF SyncInv, ConnInv, NothingSent
    <3> QED BY <2>1, <2>2, <2>4, <3>1, EmptyAfter
  <2> QED BY <2>1, <2>3, <2>4
<1> QED BY <1>1, <1>2

LEMMA SocketSync ==
    Typed /\ SyncInv /\ (Opened \/ Breaks \/ OldSocketCloses \/ Dies \/ Reconnect) => SyncInv'
<1> DEFINE e == Do("empty", "", FALSE)
           c == Do("connected", "", NoSel)
<1>0. e \in GoodJob /\ e.kind = "empty" /\ c \in GoodJob /\ Tag(c) = "connected"
  BY DoTyped DEF Do, Tag
<1>1. ASSUME Typed, SyncInv, Opened PROVE SyncInv'
  <2>1. /\ jobs = <<>> /\ conn = "connecting" /\ closing = 0 /\ conn' = "open" /\ jobs' = <<c>>
        /\ ws' = ws /\ srv' = srv /\ up' = up
    BY <1>1 DEF Opened, AtRest
  <2>2. Kinds(jobs) = {}
    BY <2>1, NoKinds
  <2>3. ~ws.isConnected /\ NothingSent /\ NothingSubscribed
    BY <1>1, <2>1, <2>2 DEF SyncInv, ConnInv
  <2>4. Kinds(jobs') = {"connected"} /\ OneChain(jobs') /\ Len(jobs') = 1
    <3> HIDE DEF c
    <3>1. Kinds(<<c>>) = {Tag(c)} /\ OneChain(<<c>>)
      BY <1>0, KindsFacts, SingleTyped
    <3> QED BY <1>0, <2>1, <3>1
  <2>5. /\ Kinds(jobs)' = {"connected"} /\ OneChain(jobs)' /\ (Len(jobs) = 1)' /\ NothingSent'
        /\ NothingSubscribed' /\ ~(ws.isConnected)'
    BY <2>1, <2>3, <2>4 DEF Kinds, OneChain, NothingSent, NothingSubscribed
  <2>6. QueueInv'
    BY <2>1, <2>5 DEF QueueInv
  <2>7. ConnInv'
    BY <2>1, <2>5 DEF ConnInv
  <2> QED BY <2>6, <2>7 DEF SyncInv
<1>2. ASSUME Typed, SyncInv, Breaks PROVE SyncInv'
  <2>1. conn' = "waiting" /\ srv' = NewSession /\ up' = <<>> /\ jobs' = <<e>>
    BY <1>2 DEF Breaks, OnClose
  <2> HIDE DEF e
  <2> QED BY <1>0, <2>1, EmptyAfter
<1>3. ASSUME Typed, SyncInv, OldSocketCloses PROVE SyncInv'
  <2>1. jobs = <<>> /\ conn' = conn /\ srv' = srv /\ up' = up /\ ws' = ws /\ jobs' = <<e>>
    BY <1>3 DEF OldSocketCloses, OnClose, AtRest
  <2>2. /\ conn # "open" => up = <<>> /\ srv = NewSession
        /\ conn = "connecting" => ~ws.isConnected
        /\ conn = "open" /\ ws.isConnected => Agree(srv.sub, up, ws.subscribed, <<>>)
    BY <1>3, <2>1 DEF SyncInv, ConnInv, NothingSent
  <2> HIDE DEF e
  <2> QED BY <1>0, <2>1, <2>2, EmptyAfter
<1>4. ASSUME Typed, SyncInv, Dies PROVE SyncInv'
  <2>1. jobs' = <<>> /\ conn' = "dead" /\ up' = <<>> /\ srv' = NewSession
    BY <1>4 DEF Dies, AtRest
  <2> QED BY <2>1, QuietAfter
<1>5. ASSUME Typed, SyncInv, Reconnect PROVE SyncInv'
  <2>1. /\ jobs = <<>> /\ conn = "waiting" /\ conn' = "connecting" /\ jobs' = <<e>>
        /\ ws' = ws /\ srv' = srv /\ up' = up
    BY <1>5 DEF Reconnect, AtRest
  <2>2. Kinds(jobs) = {}
    BY <2>1, NoKinds
  <2>3. ~ws.isConnected /\ up = <<>> /\ srv = NewSession
    BY <1>5, <2>1, <2>2 DEF SyncInv, ConnInv, NothingSent
  <2> HIDE DEF e
  <2> QED BY <1>0, <2>1, <2>3, EmptyAfter
<1> QED BY <1>1, <1>2, <1>3, <1>4, <1>5

LEMMA EventsSync == Typed /\ SyncInv /\ Events => SyncInv'
<1>1. ASSUME Typed, SyncInv, PongGetsOld \/ ReceivePong \/ ReceiveAuthorized \/ TokenExpires PROVE SyncInv'
  <2>1. UNCHANGED <<conn, closing, ws, up, srv, jobs>>
    BY <1>1 DEF PongGetsOld, ReceivePong, ReceiveAuthorized, TokenExpires, connVars
  <2> QED BY <1>1, <2>1, RestSame
<1>2. ASSUME Typed, SyncInv, ReceiveUpdate PROVE SyncInv'
  <2> DEFINE m == Head(down)
             j == Do("data", m.topic, m.arg)
  <2>1. /\ jobs = <<>> /\ UNCHANGED <<conn, closing, ws, up, srv>> /\ down # <<>> /\ m.cmd = "Update"
        /\ jobs' = <<>> \/ jobs' = <<j>>
    BY <1>2 DEF ReceiveUpdate, AtRest
  <2>2. m.topic \in Topics /\ m.arg \in Subs
    <3>1. m \in GoodDown
      BY <1>2, <2>1, HeadTailTyped, Zenon DEF Typed
    <3> QED BY <2>1, <3>1, MessageFacts, TopicsAssumption
  <2>3. j \in GoodJob /\ j.kind = "data" /\ Tag(j) = "data" /\ "data" \notin Chain
    BY <2>2, DoTyped DEF Do, Tag, Chain, OpenChain
  <2>4. CASE jobs' = <<>>
    BY <1>2, <2>1, <2>4, RestSame
  <2>5. CASE jobs' = <<j>>
    <3> HIDE DEF j
    <3> QED BY <1>2, <2>1, <2>3, <2>5, RestJob
  <2> QED BY <2>1, <2>4, <2>5
<1>3. ASSUME Typed, SyncInv, Refreshed PROVE SyncInv'
  <2> DEFINE j == Do("auth", "", FALSE)
  <2>1. jobs = <<>> /\ UNCHANGED <<conn, closing, ws, up, srv>> /\ jobs' = <<j>>
    BY <1>3 DEF Refreshed, AtRest, connVars
  <2>2. j \in GoodJob /\ j.kind = "auth" /\ Tag(j) = "reauth" /\ "reauth" \notin Chain
    BY DoTyped DEF Do, Tag, Chain, OpenChain
  <2> HIDE DEF j
  <2> QED BY <1>3, <2>1, <2>2, RestJob
<1>4. ASSUME Typed, SyncInv, RefreshFails PROVE SyncInv'
  <2>1. jobs' = <<>> /\ conn' = "closed" /\ up' = <<>> /\ srv' = NewSession
    BY <1>4 DEF RefreshFails, Leave
  <2> QED BY <2>1, QuietAfter
<1> QED BY <1>1, <1>2, <1>3, <1>4, TimerSync, SocketSync DEF Events

LEMMA UserSync == Typed /\ SyncInv /\ User => SyncInv'
<1>1. ASSUME Typed, SyncInv, NEW p \in Pages \ {"Login"}, NEW withInterval \in BOOLEAN,
             Open(p, withInterval)
      PROVE  SyncInv'
  <2> DEFINE r == PageUnmount(ws, page, <<>>, up)
             js1 == r.jobs
             q1 == r.up
             e == PageUpdate(ws, p, sel, r.jobs, r.up)
             js2 == e.jobs
             q2 == e.up
             h == Do("hide", "", NoSel)
  <2>1. /\ jobs = <<>> /\ UNCHANGED <<conn, closing, ws, srv>> /\ up' = q2
        /\ jobs' = js2 \o (IF withInterval THEN <<h>> ELSE <<>>)
    BY <1>1 DEF Open, UserMayAct, AtRest, connVars
  <2>2. /\ ws \in WsState /\ page \in Pages /\ sel \in Sels \cup {NoSel} /\ up \in Seq(GoodUp)
        /\ <<>> \in Seq(GoodJob) /\ p \in Pages
    BY <1>1 DEF Typed, UserTyped
  <2>3. PageStep(ws, <<>>, up, js1, q1)
    BY <2>2, PageUnmountStep
  <2>4. PageStep(ws, js1, q1, js2, q2)
    BY <2>2, PageUpdateStep
  <2>5. h \in GoodJob /\ h.kind = "hide" /\ Tag(h) = "hide"
    BY DoTyped DEF Do, Tag
  <2> HIDE DEF r, e, js1, js2, q1, q2, h
  <2>6. js1 \in Seq(GoodJob) /\ q1 \in Seq(GoodUp)
    BY <2>2, <2>3, PageStepTyped
  <2>7. js2 \in Seq(GoodJob) /\ q2 \in Seq(GoodUp)
    BY <2>2, <2>4, <2>6, PageStepTyped
  <2>8. /\ Kinds(<<>>) \subseteq Kinds(js1)
        /\ Kinds(js1) \subseteq Kinds(<<>>) \cup {"subscribe", "subscribed", "unsubscribed"}
        /\ ~ws.isConnected => Kinds(js1) \subseteq Kinds(<<>>) \cup {"subscribe"}
        /\ OneChain(<<>>) => OneChain(js1)
        /\ conn # "open" => q1 = up
        /\ conn = "open" => \A sub, f : Agree(sub, up, f, <<>>) => Agree(sub, q1, f, js1)
    <3>1. ws \in WsState /\ <<>> \in Seq(GoodJob) /\ up \in Seq(GoodUp)
      BY <2>2
    <3> QED BY <2>3, <3>1, PageStepFacts, Zenon
  <2>9. /\ Kinds(js1) \subseteq Kinds(js2)
        /\ Kinds(js2) \subseteq Kinds(js1) \cup {"subscribe", "subscribed", "unsubscribed"}
        /\ ~ws.isConnected => Kinds(js2) \subseteq Kinds(js1) \cup {"subscribe"}
        /\ OneChain(js1) => OneChain(js2)
        /\ conn # "open" => q2 = q1
        /\ conn = "open" => \A sub, f : Agree(sub, q1, f, js1) => Agree(sub, q2, f, js2)
    <3>1. ws \in WsState
      BY <2>2
    <3> QED BY <2>4, <2>6, <3>1, PageStepFacts, Zenon
  <2>10. jobs' = js2 \/ jobs' = Append(js2, h)
    BY <2>1, <2>5, <2>7, ConcatOne
  <2>11. Kinds(jobs') \subseteq Kinds(js2) \cup {"hide"} /\ jobs' \in Seq(GoodJob)
    <3>1. Kinds(Append(js2, h)) = Kinds(js2) \cup {Tag(h)}
      BY <2>5, <2>7, KindsFacts, Zenon
    <3>2. Append(js2, h) \in Seq(GoodJob)
      BY <2>5, <2>7, AppendTyped
    <3> QED BY <2>5, <2>7, <2>10, <3>1, <3>2
  <2>12. Kinds(jobs') \subseteq {"subscribe", "subscribed", "unsubscribed", "hide"}
    BY <2>8, <2>9, <2>11, NoKinds
  <2>13. "subscribed" \in Kinds(jobs') => ws.isConnected
    BY <2>8, <2>9, <2>11, NoKinds
  <2>14. Kinds(jobs') \cap Chain = {}
    BY <2>12 DEF Chain, OpenChain
  <2>15. conn = "open" /\ Agree(srv.sub, up, ws.subscribed, <<>>) => Agree(srv.sub, q2, ws.subscribed, jobs')
    <3>1. conn = "open" /\ Agree(srv.sub, up, ws.subscribed, <<>>) => Agree(srv.sub, q2, ws.subscribed, js2)
      BY <2>8, <2>9
    <3>2. Agree(srv.sub, q2, ws.subscribed, js2) => Agree(srv.sub, q2, ws.subscribed, Append(js2, h))
      BY <2>5, <2>7, AgreeAppendJob
    <3> QED BY <2>10, <3>1, <3>2
  <2>16. conn # "open" => up' = up
    BY <2>1, <2>8, <2>9
  <2>17. conn = "open" /\ ws.isConnected /\ Agree(srv.sub, up, ws.subscribed, <<>>)
           => Agree(srv'.sub, up', ws.subscribed, jobs')
    BY <2>1, <2>15
  <2>18. conn' = conn /\ closing' = closing /\ ws' = ws /\ srv' = srv
    BY <2>1
  <2> QED BY <1>1, <2>1, <2>11, <2>13, <2>14, <2>16, <2>17, <2>18, RestStep
<1>2. ASSUME Typed, SyncInv, NEW s \in Sels, NEW between \in Sels \cup {NoSel}, Select(s, between)
      PROVE  SyncInv'
  <2> DEFINE a == Do("select", "", between)
             b == Do("select", "", s)
  <2>1. /\ jobs = <<>> /\ UNCHANGED <<conn, closing, ws, up, srv>>
        /\ jobs' = (IF between = NoSel THEN <<>> ELSE <<a>>) \o <<b>>
    BY <1>2 DEF Select, UserMayAct, AtRest, connVars
  <2>2. b \in GoodJob /\ b.kind = "select" /\ Tag(b) = "select" /\ "select" \notin Chain
    BY <1>2, DoTyped DEF Do, Tag, Chain, OpenChain
  <2>3. CASE between = NoSel
    <3> HIDE DEF b
    <3>1. jobs' = <<b>>
      BY <2>1, <2>3
    <3> QED BY <1>2, <2>1, <2>2, <3>1, RestJob
  <2>4. CASE between # NoSel
    <3>1. a \in GoodJob /\ a.kind = "select" /\ Tag(a) = "select"
      BY <1>2, <2>4, DoTyped DEF Do, Tag
    <3> HIDE DEF a, b
    <3>2. jobs' = Append(<<a>>, b) /\ <<a>> \in Seq(GoodJob) /\ Append(<<>>, a) = <<a>>
      BY <2>1, <2>2, <2>4, <3>1
    <3>3. Kinds(jobs') = {"select"} /\ jobs' \in Seq(GoodJob)
      <4>1. Kinds(<<a>>) = {Tag(a)}
        BY <3>1, KindsFacts, SingleTyped
      <4>2. Kinds(Append(<<a>>, b)) = Kinds(<<a>>) \cup {Tag(b)}
        BY <2>2, <3>2, KindsFacts
      <4>3. Append(<<a>>, b) \in Seq(GoodJob)
        BY <2>2, <3>2, AppendTyped
      <4> QED BY <2>2, <3>1, <3>2, <4>1, <4>2, <4>3
    <3>4. Agree(srv.sub, up, ws.subscribed, <<>>) => Agree(srv.sub, up, ws.subscribed, jobs')
      <4>1. <<>> \in Seq(GoodJob)
        OBVIOUS
      <4>2. Agree(srv.sub, up, ws.subscribed, <<>>) => Agree(srv.sub, up, ws.subscribed, <<a>>)
        BY <3>1, <3>2, <4>1, AgreeAppendJob
      <4>3. Agree(srv.sub, up, ws.subscribed, <<a>>) => Agree(srv.sub, up, ws.subscribed, Append(<<a>>, b))
        BY <2>2, <3>2, AgreeAppendJob
      <4> QED BY <3>2, <4>2, <4>3
    <3>5. Kinds(jobs') \cap Chain = {} /\ "subscribed" \notin Kinds(jobs')
      BY <2>2, <3>3
    <3> QED BY <1>2, <2>1, <3>3, <3>4, <3>5, RestStep
  <2> QED BY <2>3, <2>4
<1>3. ASSUME Typed, SyncInv, ChangeInterval PROVE SyncInv'
  <2> DEFINE j == Do("hide", "", NoSel)
  <2>1. jobs = <<>> /\ UNCHANGED <<conn, closing, ws, up, srv>> /\ jobs' = <<j>>
    BY <1>3 DEF ChangeInterval, UserMayAct, AtRest, connVars
  <2>2. j \in GoodJob /\ j.kind = "hide" /\ Tag(j) = "hide" /\ "hide" \notin Chain
    BY DoTyped DEF Do, Tag, Chain, OpenChain
  <2> HIDE DEF j
  <2> QED BY <1>3, <2>1, <2>2, RestJob
<1>4. ASSUME Typed, SyncInv, SignIn PROVE SyncInv'
  <2>1. jobs' = <<>> /\ conn' = "connecting" /\ up' = <<>> /\ srv' = NewSession /\ ws' = emptyState
    BY <1>4 DEF SignIn, FreshPage
  <2> QED BY <2>1, QuietAfter
<1> QED BY <1>1, <1>2, <1>3, <1>4 DEF User

LEMMA ServerSync == Typed /\ SyncInv /\ Server => SyncInv'
<1>1. ASSUME Typed, SyncInv, SrvAuth \/ SrvPing \/ SrvSubscribe PROVE SyncInv'
  <2> DEFINE m == Head(up)
  <2>1. /\ jobs = <<>> /\ conn = "open" /\ up # <<>> /\ up' = Tail(up)
        /\ UNCHANGED <<conn, closing, ws, jobs>>
        /\ m.cmd \in {"Auth", "Ping", "Subscribe", "Unsubscribe"}
    BY <1>1 DEF SrvAuth, SrvPing, SrvSubscribe, FirstUp, AtRest
  <2>2. m \in GoodUp /\ up \in Seq(GoodUp) /\ srv \in Session
    BY <1>1, <2>1, HeadTailTyped, Zenon DEF Typed, ConnTyped
  <2>3. m.cmd \in {"Auth", "Ping"} => m.topic = ""
    BY <2>2 DEF GoodUp
  <2>4. m.cmd \in {"Subscribe", "Unsubscribe"} => m.topic \in Served /\ m.arg \in Subs
    BY <2>2, MessageFacts
  <2>5. \A t \in Served : srv'.sub[t] = IF m.topic = t THEN Ordered(m) ELSE srv.sub[t]
    <3>1. CASE SrvAuth \/ SrvPing
      <4>1. m.topic \notin Served
        BY <2>3, <3>1 DEF SrvAuth, SrvPing, FirstUp, Served
      <4>2. srv'.sub = srv.sub
        BY <2>2, <3>1 DEF SrvAuth, SrvPing, Session
      <4> QED BY <4>1, <4>2
    <3>2. CASE SrvSubscribe
      <4>1. m.topic \in Served
        BY <2>4, <3>2 DEF SrvSubscribe, FirstUp
      <4>2. srv' = [srv EXCEPT !.sub[m.topic] = Ordered(m)]
        BY <3>2 DEF SrvSubscribe, Ordered
      <4> QED BY <2>2, <4>1, <4>2 DEF Session
    <3> QED BY <1>1, <3>1, <3>2
  <2>6. Agree(srv.sub, up, ws.subscribed, <<>>) => Agree(srv'.sub, up', ws.subscribed, jobs')
    BY <2>1, <2>2, <2>5, AgreeTakeMessage
  <2>7. jobs' \in Seq(GoodJob) /\ Kinds(jobs') = {}
    <3>1. jobs \in Seq(GoodJob)
      BY <1>1 DEF Typed
    <3> QED BY <2>1, <3>1, NoKinds
  <2> QED BY <1>1, <2>1, <2>6, <2>7, RestStep
<1>2. ASSUME Typed, SyncInv, NEW t \in Served, SrvPublish(t) PROVE SyncInv'
  <2>1. UNCHANGED <<conn, closing, ws, up, srv, jobs>>
    BY <1>2 DEF SrvPublish
  <2> QED BY <1>2, <2>1, RestSame
<1> QED BY <1>1, <1>2 DEF Server

-----------------------------------------------------------------------------

LEMMA SyncInitially == Init => SyncInv
<1> SUFFICES ASSUME Init PROVE SyncInv
  OBVIOUS
<1>1. jobs = <<>> /\ conn = "connecting" /\ up = <<>> /\ srv = NewSession /\ ws = emptyState
  BY DEF Init
<1>2. Kinds(jobs) = {} /\ OneChain(jobs) /\ NoneSubscribing
  BY <1>1, NoKinds DEF OneChain, NoneSubscribing
<1>3. QueueInv
  BY <1>2 DEF QueueInv
<1>4. ConnInv
  BY <1>1, <1>2 DEF ConnInv, NothingSent, NothingSubscribed, emptyState
<1> QED BY <1>3, <1>4 DEF SyncInv

LEMMA SyncStep == Typed /\ SyncInv /\ [Next]_vars => SyncInv'
<1>1. Typed /\ SyncInv /\ Microtask => SyncInv'
  BY SubscribeSync, SubscribedSync, ConnectedSync, AuthSync, TimersSync, EmptySync, ReplaceSync, DataSync,
     PageSync DEF Microtask
<1>2. Typed /\ SyncInv /\ UNCHANGED vars => SyncInv'
  <2>1. UNCHANGED vars => UNCHANGED <<conn, closing, ws, up, srv, jobs>>
    BY DEF vars, connVars
  <2> QED BY <2>1, RestSame
<1> QED BY <1>1, <1>2, YieldSync, EventsSync, UserSync, ServerSync DEF Next

LEMMA SyncAlways == Spec => [](Typed /\ SyncInv)
<1>1. Init => Typed /\ SyncInv
  BY TypedInitially, SyncInitially
<1>2. Typed /\ SyncInv /\ [Next]_vars => (Typed /\ SyncInv)'
  BY TypedStep, SyncStep
<1> QED BY <1>1, <1>2, PTL DEF Spec

(* oneTimeInvoke() and auth() ask only isConnected before they send: however *)
(* hb(), Sockette and the close events of old sockets follow each other, it  *)
(* is not set while the current socket still connects, so send() does not    *)
(* throw there.                                                              *)
THEOREM NoSendBeforeOpenHolds == Spec => []NoSendBeforeOpen
<1>1. SyncInv => NoSendBeforeOpen
  BY DEF SyncInv, ConnInv, NoSendBeforeOpen
<1> QED BY <1>1, SyncAlways, PTL

(* However many updates of a subscription run into each other, and whatever  *)
(* the network does between them: at rest, and with every message taken, the *)
(* session is subscribed to what the state of WsContainer says.              *)
THEOREM ServerAgreesHolds == Spec => []ServerAgrees
<1>1. SyncInv => ServerAgrees
  <2> SUFFICES ASSUME SyncInv, jobs = <<>>, ws.isConnected, conn = "open", up = <<>>
               PROVE  \A t \in Served : srv.sub[t] = ws.subscribed[t]
    BY DEF ServerAgrees, AtRest
  <2>1. Agree(srv.sub, <<>>, ws.subscribed, <<>>)
    BY DEF SyncInv, ConnInv
  <2> QED BY <2>1, AgreeAtRest
<1> QED BY <1>1, SyncAlways, PTL
=============================================================================
