----------------------- MODULE WsClientPagesProofs -----------------------
(* Proofs about the pages of WsClient: what they show, and what they leave. *)
EXTENDS WsClientProofs

-----------------------------------------------------------------------------
(* The jobs of the pages.  Guarded are those that ask before they subscribe. *)

Guarded == Topics \ Unguarded

JobsIn(js) == {js[i] : i \in DOMAIN js}

SubKinds == {"subscribe", "resubscribe", "subscribed"}

Subscribing(j) == j.kind \in SubKinds /\ j.topic \in Guarded

Unsubscribing(j) == j.kind = "unsubscribed" /\ j.topic \in Guarded

Updating(j) == Subscribing(j) \/ Unsubscribing(j)

(* onopen once it is connected, and the end of a connection. *)
Onward == {"auth", "authorized", "timers", "empty"}

(* Which job b may stand behind a job a.  An update that onopen starts is a  *)
(* step ahead of auth(), and done when the timers are set; what the user or  *)
(* a message starts is not mixed with onopen, or with the end of a           *)
(* connection; onmessage and onopen begin alone.                             *)
Alone(a) == a.kind \in {"data", "connected"}

Apart(a, b) ==
    /\ Tag(a) \in Onward => Tag(b) \notin {"select", "hide", "indicators", "reauth", "unsubscribed"}
    /\ Tag(a) \in {"timers", "empty"} => ~Subscribing(b)
    /\ Tag(a) = "auth" => ~(Subscribing(b) /\ b.kind = "resubscribe")
    /\ Tag(a) = "authorized" /\ Subscribing(b) => b.kind = "subscribed"
    /\ a.kind = "hide" => b.kind # "select"

MayFollow(a, b) ==
    /\ ~Alone(a) /\ ~Alone(b) /\ Apart(a, b) /\ Apart(b, a)
    /\ Tag(a) = "auth" /\ Subscribing(b) => b.kind = "subscribed"
    /\ Tag(a) = "authorized" => ~Subscribing(b)

Lined(js) == \A i, k \in DOMAIN js : i < k => MayFollow(js[i], js[k])

-----------------------------------------------------------------------------
(* The invariant, for the jobs js, the state w of WsContainer, the page p,   *)
(* the selection s and the mark lk of a page that was hidden too early.      *)

(* What the page subscribes to; and does it leave the subscription alone?    *)
Want(p, s) == IF p \in FlagTopics THEN On ELSE s

Content(w, p, s) ==
    IF p \in FlagTopics THEN w.subscribed[p] # NoSel
    ELSE w.subscribed[p] = s \/ (p \in {"Volume", "PL"} /\ s = NoSel)

(* Without a connection nothing is subscribed, and without a subscription    *)
(* there is no data.                                                         *)
Backed(js, w) ==
    /\ ~w.isConnected => /\ \A t \in Guarded : w.subscribed[t] = NoSel
                         /\ \A j \in JobsIn(js) : Subscribing(j) => j.kind # "subscribed"
    /\ \A t \in Guarded : w.subscribed[t] = NoSel => w.data[t] = NoSel
    /\ \A j \in JobsIn(js) : Subscribing(j) => j.arg # NoSel
    /\ \A j \in JobsIn(js) : j.kind = "data" /\ j.topic \in Guarded =>
          w.subscribed[j.topic] # NoSel /\ (j.topic = "Liquidity" => w.codes = j.arg)

(* A page that was left is unsubscribed, or will be. *)
LeftBehind(js, w, p, lk) ==
    ~lk => \A t \in Guarded \ {p} :
             /\ \A j \in JobsIn(js) : j.topic = t =>
                   ~Subscribing(j) /\ (Unsubscribing(j) => j.arg = NoSel)
             /\ w.subscribed[t] = NoSel \/ \E j \in JobsIn(js) : Unsubscribing(j) /\ j.topic = t

(* The page has what it wants, or an update is under way. *)
Asked(js, w, p, s) ==
    p \in Guarded /\ w.isConnected =>
      Content(w, p, s) \/ \E j \in JobsIn(js) : j.topic = p /\ Updating(j)

(* Nothing but what the page wants is on its way. *)
Steady(js, w, p, s) ==
    p \in Guarded =>
      /\ w.subscribed[p] \in {NoSel, Want(p, s)}
      /\ \A j \in JobsIn(js) : j.topic = p =>
            ~Unsubscribing(j) /\ (Subscribing(j) => j.arg = Want(p, s))

Starting(js, w, p, s) ==
    \A j \in JobsIn(js) :
      /\ Tag(j) \in Onward => \A m \in JobsIn(js) : m.kind \in SubKinds => m.topic = p
      /\ Tag(j) \in {"auth", "authorized", "timers"} => w.isConnected
      /\ Tag(j) \in {"auth", "authorized"} => Steady(js, w, p, s)

Hiding(js, w, p, s, lk) ==
    ~lk /\ (\E j \in JobsIn(js) : j.kind = "hide") => Steady(js, w, p, s)

(* The order book is the one that is subscribed, and the indicators follow.  *)
Book(js, w, p, lk) ==
    p = "Liquidity" /\ ~lk =>
      /\ w.subscribed["Liquidity"] # NoSel => w.codes = w.subscribed["Liquidity"]
      /\ w.data["Liquidity"] # NoSel =>
           /\ w.data["Liquidity"] = w.subscribed["Liquidity"]
           /\ \A j \in JobsIn(js) : j.topic = "Liquidity" => ~Subscribing(j)
           /\ w.indicators = w.data["Liquidity"] \/ \E j \in JobsIn(js) : j.kind = "indicators"
      /\ \A j \in JobsIn(js) : j.kind = "indicators" => Len(js) = 1 /\ j.arg = w.data["Liquidity"]

(* All but Asked; and all, of which a lone hide needs less. *)
Held(js, w, p, s, lk) ==
    /\ Lined(js) /\ Backed(js, w) /\ LeftBehind(js, w, p, lk)
    /\ Starting(js, w, p, s) /\ Book(js, w, p, lk)

PagesInv ==
    /\ Held(jobs, ws, page, sel, leaked)
    /\ Asked(jobs, ws, page, sel)
    /\ Len(jobs) = 1 \/ Hiding(jobs, ws, page, sel, leaked)

-----------------------------------------------------------------------------
(* Queues of jobs. *)

LEMMA NoJobs ==
    ASSUME NEW j
    PROVE  JobsIn(<<>>) = {} /\ JobsIn(<<j>>) = {j} /\ Lined(<<>>) /\ Lined(<<j>>)
<1>1. JobsIn(<<>>) = {} /\ JobsIn(<<j>>) = {j}
  BY DEF JobsIn
<1>2. Lined(<<>>) /\ Lined(<<j>>)
  BY DEF Lined
<1> QED BY <1>1, <1>2

LEMMA OneMore ==
    ASSUME NEW js \in Seq(GoodJob), NEW j \in GoodJob
    PROVE  /\ JobsIn(Append(js, j)) = JobsIn(js) \cup {j}
           /\ Lined(js) /\ (\A x \in JobsIn(js) : MayFollow(x, j)) => Lined(Append(js, j))
           /\ Len(Append(js, j)) = 1 => js = <<>>
<1> DEFINE a == Append(js, j)
           n == Len(js) + 1
<1>1. /\ DOMAIN a = DOMAIN js \cup {n} /\ \A i \in DOMAIN js : a[i] = js[i] /\ i < n
      /\ a[n] = j /\ DOMAIN js \subseteq Nat /\ n \in Nat
      /\ Len(a) = 1 => js = <<>>
  OBVIOUS
<1> HIDE DEF a, n
<1>2. JobsIn(a) = JobsIn(js) \cup {j}
  BY <1>1 DEF JobsIn
<1>3. ASSUME Lined(js), \A x \in JobsIn(js) : MayFollow(x, j) PROVE Lined(a)
  <2> SUFFICES ASSUME NEW i \in DOMAIN a, NEW k \in DOMAIN a, i < k PROVE MayFollow(a[i], a[k])
    BY DEF Lined
  <2>1. CASE k = n
    <3>1. i \in DOMAIN js /\ a[i] \in JobsIn(js)
      BY <1>1, <2>1 DEF JobsIn
    <3> QED BY <1>1, <1>3, <2>1, <3>1
  <2>2. CASE k # n
    <3>1. k \in DOMAIN js /\ i \in DOMAIN js
      BY <1>1, <2>2
    <3> QED BY <1>1, <1>3, <3>1 DEF Lined
  <2> QED BY <2>1, <2>2
<1> QED BY <1>1, <1>2, <1>3 DEF a

LEMMA OneLess ==
    ASSUME NEW js \in Seq(GoodJob), js # <<>>
    PROVE  /\ JobsIn(js) = {Head(js)} \cup JobsIn(Tail(js))
           /\ Lined(js) => Lined(Tail(js)) /\ \A x \in JobsIn(Tail(js)) : MayFollow(Head(js), x)
           /\ Len(js) = 1 => Tail(js) = <<>>
           /\ JobsIn(Tail(js)) # {} => Len(js) # 1
<1> DEFINE h == Head(js)
           r == Tail(js)
<1>1. /\ Len(js) \in Nat /\ Len(js) >= 1 /\ DOMAIN js = 1..Len(js)
      /\ DOMAIN r = 1..(Len(js) - 1)
      /\ \A i \in DOMAIN r : r[i] = js[i + 1] /\ i + 1 \in DOMAIN js /\ 1 < i + 1
      /\ h = js[1] /\ 1 \in DOMAIN js
      /\ Len(js) = 1 => r = <<>>
  OBVIOUS
<1>2. \A i \in DOMAIN js : i = 1 \/ (i - 1 \in DOMAIN r /\ js[i] = r[i - 1])
  BY <1>1
<1> HIDE DEF h, r
<1>3. JobsIn(js) = {h} \cup JobsIn(r)
  BY <1>1, <1>2 DEF JobsIn
<1>4. ASSUME Lined(js) PROVE Lined(r) /\ \A x \in JobsIn(r) : MayFollow(h, x)
  <2>1. Lined(r)
    <3> SUFFICES ASSUME NEW i \in DOMAIN r, NEW k \in DOMAIN r, i < k PROVE MayFollow(r[i], r[k])
      BY DEF Lined
    <3>1. i + 1 \in DOMAIN js /\ k + 1 \in DOMAIN js /\ i + 1 < k + 1 /\ r[i] = js[i + 1] /\ r[k] = js[k + 1]
      BY <1>1
    <3> QED BY <1>4, <3>1 DEF Lined
  <2>2. ASSUME NEW i \in DOMAIN r PROVE MayFollow(h, r[i])
    <3>1. i + 1 \in DOMAIN js /\ 1 \in DOMAIN js /\ 1 < i + 1 /\ r[i] = js[i + 1] /\ h = js[1]
      BY <1>1
    <3> QED BY <1>4, <3>1 DEF Lined
  <2> QED BY <2>1, <2>2 DEF JobsIn
<1>5. JobsIn(r) # {} => Len(js) # 1
  BY <1>1, NoJobs
<1> QED BY <1>1, <1>3, <1>4, <1>5 DEF h, r

-----------------------------------------------------------------------------
(* What a page adds when it is rendered. *)

Adds(w, p, s, j) ==
    /\ p \in Topics /\ (p \in Guarded => ~Content(w, p, s) \/ ~w.isConnected)
    /\ \/ /\ j = Do("subscribe", p, s) /\ p \notin FlagTopics
          /\ s # NoSel /\ (w.subscribed[p] = NoSel \/ ~w.isConnected)
       \/ /\ j = Do("unsubscribed", p, s) /\ p \notin FlagTopics
          /\ w.isConnected /\ w.subscribed[p] \notin {NoSel, s}
       \/ /\ j = Do("subscribed", p, On) /\ p \in FlagTopics
          /\ w.isConnected /\ (p \in Guarded => w.subscribed[p] = NoSel)

Rendered(w, p, s, js, js2) ==
    \/ js2 = js /\ (p \in Guarded /\ w.isConnected => Content(w, p, s))
    \/ \E j \in GoodJob : js2 = Append(js, j) /\ Adds(w, p, s, j)

LEMMA UpdateAdds ==
    ASSUME NEW w \in WsState, NEW p \in Topics \ FlagTopics, NEW s \in Sels \cup {NoSel}, NEW js, NEW q,
           s # NoSel \/ p = "Liquidity"
    PROVE  Rendered(w, p, s, js, updateSubscription(w, p, s, js, q).jobs)
<1>1. s \in Subs /\ Do("subscribe", p, s) \in GoodJob /\ Do("unsubscribed", p, s) \in GoodJob
  BY DoTyped DEF Subs
<1>2. Content(w, p, s) <=> w.subscribed[p] = s
  BY DEF Content
<1>3. CASE w.subscribed[p] = s
  BY <1>2, <1>3 DEF updateSubscription, Effect, Rendered
<1>4. CASE w.subscribed[p] # s /\ w.subscribed[p] # NoSel /\ w.isConnected
  BY <1>1, <1>2, <1>4 DEF updateSubscription, Effect, Rendered, Adds
<1>5. CASE w.subscribed[p] # s /\ ~(w.subscribed[p] # NoSel /\ w.isConnected) /\ s # NoSel
  BY <1>1, <1>2, <1>5 DEF updateSubscription, Effect, Rendered, Adds
<1>6. CASE w.subscribed[p] # s /\ ~(w.subscribed[p] # NoSel /\ w.isConnected) /\ s = NoSel
  BY <1>2, <1>6 DEF updateSubscription, Effect, Rendered
<1> QED BY <1>3, <1>4, <1>5, <1>6

LEMMA FlagAdds ==
    ASSUME NEW w \in WsState, NEW p \in Topics \cap FlagTopics, NEW s, NEW js, NEW q
    PROVE  Rendered(w, p, s, js, subscribeFlag(w, p, js, q).jobs)
<1>1. Do("subscribed", p, On) \in GoodJob
  BY DoTyped
<1>2. p \in Guarded <=> p = "Balances"
  BY DEF Guarded, Unguarded, FlagTopics
<1>3. Content(w, p, s) <=> w.subscribed[p] # NoSel
  BY DEF Content
<1>4. CASE NeedsFlag(w, p)
  <2>1. w.isConnected /\ (p \in Guarded => w.subscribed[p] = NoSel)
    BY <1>2, <1>4 DEF NeedsFlag
  <2> QED BY <1>1, <1>3, <1>4, <2>1 DEF subscribeFlag, Effect, Rendered, Adds
<1>5. CASE ~NeedsFlag(w, p)
  <2>1. p \in Guarded /\ w.isConnected => w.subscribed[p] # NoSel
    BY <1>2, <1>5 DEF NeedsFlag
  <2> QED BY <1>3, <1>5, <2>1 DEF subscribeFlag, Effect, Rendered
<1> QED BY <1>4, <1>5

LEMMA PageAdds ==
    ASSUME NEW w \in WsState, NEW p \in Pages, NEW s \in Sels \cup {NoSel}, NEW js, NEW q
    PROVE  Rendered(w, p, s, js, PageUpdate(w, p, s, js, q).jobs)
<1>1. CASE p = "Liquidity"
  <2>1. p \in Topics \ FlagTopics
    BY <1>1 DEF Pages, FlagTopics
  <2> QED BY <1>1, <2>1, UpdateAdds DEF PageUpdate, LiquidityNow
<1>2. CASE p \in {"Volume", "PL"} /\ s = NoSel
  <2>1. Content(w, p, s)
    BY <1>2 DEF Content, FlagTopics
  <2>2. PageUpdate(w, p, s, js, q).jobs = js
    BY <1>2 DEF PageUpdate, VolumeNow, PL, Effect
  <2> QED BY <2>1, <2>2 DEF Rendered
<1>3. CASE p \in {"Volume", "PL"} /\ s # NoSel
  <2>1. p \in Topics \ FlagTopics
    BY <1>3 DEF Pages, FlagTopics
  <2>2. PageUpdate(w, p, s, js, q) = updateSubscription(w, p, s, js, q)
    BY <1>3 DEF PageUpdate, VolumeNow, PL
  <2> QED BY <1>3, <2>1, <2>2, UpdateAdds
<1>4. CASE p \in FlagTopics
  <2>1. p \in Topics \cap FlagTopics
    BY <1>4 DEF Pages, FlagTopics
  <2>2. PageUpdate(w, p, s, js, q) = subscribeFlag(w, p, js, q)
    BY <1>4 DEF PageUpdate, Balances, TradeSignals, Dashboard, FlagTopics
  <2> QED BY <2>1, <2>2, FlagAdds
<1>5. CASE p \notin AllTopics
  <2>1. p \notin Guarded
    BY <1>5, TopicsAssumption DEF Guarded
  <2>2. PageUpdate(w, p, s, js, q).jobs = js
    BY <1>5 DEF PageUpdate, AllTopics, Effect
  <2> QED BY <2>1, <2>2 DEF Rendered
<1> QED BY <1>1, <1>2, <1>3, <1>4, <1>5 DEF AllTopics, FlagTopics

-----------------------------------------------------------------------------
(* A job that is added. *)

Fits(js, j, w, p, s, lk) ==
    /\ \A x \in JobsIn(js) : MayFollow(x, j)
    /\ j.kind # "data"
    /\ Subscribing(j) => j.arg # NoSel /\ (j.kind = "subscribed" => w.isConnected)
    /\ ~lk /\ j.topic \in Guarded \ {p} => ~Subscribing(j) /\ (Unsubscribing(j) => j.arg = NoSel)
    /\ Tag(j) \in Onward => \A m \in JobsIn(js) : m.kind \in SubKinds => m.topic = p
    /\ j.kind \in SubKinds /\ (\E m \in JobsIn(js) : Tag(m) \in Onward) => j.topic = p
    /\ Tag(j) \in {"auth", "authorized", "timers"} => w.isConnected
    /\ Tag(j) \in {"auth", "authorized"} => Steady(js, w, p, s)
    /\ (\E m \in JobsIn(js) : Tag(m) \in {"auth", "authorized"}) /\ p \in Guarded /\ j.topic = p =>
         ~Unsubscribing(j) /\ (Subscribing(j) => j.arg = Want(p, s))
    /\ p = "Liquidity" /\ ~lk =>
         /\ Subscribing(j) /\ j.topic = "Liquidity" => w.data["Liquidity"] = NoSel
         /\ \A m \in JobsIn(js) : m.kind # "indicators"
         /\ j.kind = "indicators" => js = <<>> /\ j.arg = w.data["Liquidity"]

LEMMA AddJob ==
    ASSUME NEW js \in Seq(GoodJob), NEW j \in GoodJob, NEW w, NEW p, NEW s, NEW lk,
           Held(js, w, p, s, lk), Fits(js, j, w, p, s, lk)
    PROVE  Held(Append(js, j), w, p, s, lk)
<1> DEFINE a == Append(js, j)
<1>1. JobsIn(a) = JobsIn(js) \cup {j} /\ (Len(a) = 1 => js = <<>>) /\ Lined(a)
  BY OneMore DEF Held, Fits
<1>1a. js = <<>> => Len(a) = 1
  OBVIOUS
<1> HIDE DEF a
<1>2. Backed(a, w)
  BY <1>1 DEF Held, Backed, Fits
<1>3. LeftBehind(a, w, p, lk)
  BY <1>1 DEF Held, LeftBehind, Fits
<1>4. Steady(js, w, p, s) /\ (p \in Guarded /\ j.topic = p => ~Unsubscribing(j) /\ (Subscribing(j) => j.arg = Want(p, s)))
        => Steady(a, w, p, s)
  BY <1>1 DEF Steady
<1>5. Starting(a, w, p, s)
  <2> SUFFICES ASSUME NEW m \in JobsIn(a)
               PROVE  /\ Tag(m) \in Onward => \A n \in JobsIn(a) : n.kind \in SubKinds => n.topic = p
                      /\ Tag(m) \in {"auth", "authorized", "timers"} => w.isConnected
                      /\ Tag(m) \in {"auth", "authorized"} => Steady(a, w, p, s)
    BY DEF Starting
  <2>1. CASE m \in JobsIn(js)
    BY <1>1, <1>4, <2>1 DEF Held, Starting, Fits
  <2>2. CASE m = j
    <3>1. Tag(j) \in Onward => j.kind \notin SubKinds /\ ~Subscribing(j) /\ ~Unsubscribing(j)
      BY DEF Tag, Onward, SubKinds, Subscribing, Unsubscribing
    <3>2. {"auth", "authorized"} \subseteq Onward
      BY DEF Onward
    <3> QED BY <1>1, <1>4, <2>2, <3>1, <3>2 DEF Held, Fits
  <2> QED BY <1>1, <2>1, <2>2
<1>6. Book(a, w, p, lk)
  <2> SUFFICES ASSUME p = "Liquidity", ~lk
               PROVE  /\ w.subscribed["Liquidity"] # NoSel => w.codes = w.subscribed["Liquidity"]
                      /\ w.data["Liquidity"] # NoSel =>
                           /\ w.data["Liquidity"] = w.subscribed["Liquidity"]
                           /\ \A m \in JobsIn(a) : m.topic = "Liquidity" => ~Subscribing(m)
                           /\ w.indicators = w.data["Liquidity"] \/ \E m \in JobsIn(a) : m.kind = "indicators"
                      /\ \A m \in JobsIn(a) : m.kind = "indicators" => Len(a) = 1 /\ m.arg = w.data["Liquidity"]
    BY DEF Book
  <2> QED BY <1>1, <1>1a DEF Held, Book, Fits
<1> QED BY <1>1, <1>2, <1>3, <1>5, <1>6 DEF Held, a

LEMMA AddedHiding ==
    ASSUME NEW js \in Seq(GoodJob), NEW j \in GoodJob, NEW w, NEW p, NEW s, NEW lk,
           Hiding(js, w, p, s, lk), j.kind # "hide",
           ~lk /\ (\E m \in JobsIn(js) : m.kind = "hide") /\ p \in Guarded /\ j.topic = p =>
             ~Unsubscribing(j) /\ (Subscribing(j) => j.arg = Want(p, s))
    PROVE  Hiding(Append(js, j), w, p, s, lk)
<1>1. JobsIn(Append(js, j)) = JobsIn(js) \cup {j}
  BY OneMore
<1> QED BY <1>1 DEF Hiding, Steady

LEMMA AddedAsked ==
    ASSUME NEW js \in Seq(GoodJob), NEW j \in GoodJob, NEW w, NEW p, NEW s, Asked(js, w, p, s)
    PROVE  Asked(Append(js, j), w, p, s)
<1>1. JobsIn(Append(js, j)) = JobsIn(js) \cup {j}
  BY OneMore
<1> QED BY <1>1 DEF Asked

(* The page is rendered: whatever it adds fits. *)
LEMMA PageActs ==
    ASSUME NEW w \in WsState, NEW p \in Pages, NEW s \in Sels \cup {NoSel}, NEW lk,
           NEW js \in Seq(GoodJob), NEW js2, Rendered(w, p, s, js, js2),
           Held(js, w, p, s, lk), Hiding(js, w, p, s, lk),
           \A x \in JobsIn(js) : ~Alone(x),
           p \in Guarded /\ (\E x \in JobsIn(js) : Tag(x) \in Onward) => Content(w, p, s) /\ w.isConnected,
           p = "Liquidity" /\ ~lk => \A x \in JobsIn(js) : x.kind # "indicators"
    PROVE  /\ js2 \in Seq(GoodJob)
           /\ Held(js2, w, p, s, lk) /\ Hiding(js2, w, p, s, lk) /\ Asked(js2, w, p, s)
<1>1. CASE js2 = js /\ (p \in Guarded /\ w.isConnected => Content(w, p, s))
  BY <1>1 DEF Asked
<1>2. ASSUME NEW j \in GoodJob, js2 = Append(js, j), Adds(w, p, s, j)
      PROVE  /\ js2 \in Seq(GoodJob)
             /\ Held(js2, w, p, s, lk) /\ Hiding(js2, w, p, s, lk) /\ Asked(js2, w, p, s)
  <2>1. /\ j.topic = p /\ p \in Topics /\ Tag(j) = j.kind
        /\ j.kind \in {"subscribe", "unsubscribed", "subscribed"}
        /\ Subscribing(j) <=> p \in Guarded /\ j.kind # "unsubscribed"
        /\ Unsubscribing(j) <=> p \in Guarded /\ j.kind = "unsubscribed"
        /\ j.kind = "subscribe" => j.arg = s /\ p \notin FlagTopics /\ s # NoSel
                                     /\ (w.subscribed[p] = NoSel \/ ~w.isConnected)
        /\ j.kind = "subscribed" => j.arg = On /\ p \in FlagTopics /\ w.isConnected
                                     /\ (p \in Guarded => w.subscribed[p] = NoSel)
        /\ j.kind = "unsubscribed" => p \notin FlagTopics /\ w.subscribed[p] \notin {NoSel, s}
    BY <1>2 DEF Adds, Do, Subscribing, Unsubscribing, SubKinds, Tag
  <2>2. p \in Guarded => \A x \in JobsIn(js) : Tag(x) \notin Onward
    BY <1>2 DEF Adds
  <2>3. "unsubscribed" # j.kind => ~Unsubscribing(j)
    BY <2>1
  <2>4. Subscribing(j) => j.arg = Want(p, s) /\ j.arg # NoSel
    BY <2>1, SelsAssumption DEF Want
  <2>5. w.subscribed[p] \in {NoSel, Want(p, s)} => ~Unsubscribing(j)
    BY <2>1 DEF Want
  <2>6. p \in Guarded /\ j.kind # "unsubscribed" => w.data[p] = NoSel
    <3>1. p \in Guarded /\ j.kind # "unsubscribed" => w.subscribed[p] = NoSel
      BY <2>1 DEF Held, Backed
    <3> QED BY <3>1 DEF Held, Backed
  <2>7. \A x \in JobsIn(js) : MayFollow(x, j)
    <3> SUFFICES ASSUME NEW x \in JobsIn(js) PROVE MayFollow(x, j)
      OBVIOUS
    <3>1. ~Alone(x) /\ ~Alone(j)
      BY <2>1 DEF Alone
    <3>2. Apart(j, x)
      BY <2>1 DEF Apart, Onward
    <3>3. CASE p \in Guarded
      <4>1. Tag(x) \notin Onward
        BY <2>2, <3>3
      <4>2. Apart(x, j)
        BY <2>1, <4>1 DEF Apart, Onward
      <4> QED BY <3>1, <3>2, <4>1, <4>2 DEF MayFollow, Onward
    <3>4. CASE p \notin Guarded
      <4>1. ~Subscribing(j) /\ j.kind = "subscribed"
        <5>1. p \in Unguarded
          BY <2>1, <3>4 DEF Guarded
        <5> QED BY <2>1, <3>4, <5>1 DEF Unguarded, FlagTopics
      <4>2. Apart(x, j)
        BY <2>1, <4>1 DEF Apart, Onward
      <4> QED BY <3>1, <3>2, <4>1, <4>2 DEF MayFollow
    <3> QED BY <3>3, <3>4
  <2>8. Fits(js, j, w, p, s, lk)
    <3>1. Tag(j) \notin Onward /\ j.kind \notin {"data", "indicators", "hide"}
      BY <2>1 DEF Onward
    <3>2. \A m \in JobsIn(js) : Tag(m) \in {"auth", "authorized"} => Tag(m) \in Onward
      BY DEF Onward
    <3>3. {"auth", "authorized", "timers"} \subseteq Onward
      BY DEF Onward
    <3>4. j.kind = "subscribed" => w.isConnected
      BY <2>1
    <3> QED BY <2>1, <2>2, <2>4, <2>6, <2>7, <3>1, <3>2, <3>3, <3>4 DEF Fits
  <2>9. Hiding(js2, w, p, s, lk)
    <3>1. ~lk /\ (\E m \in JobsIn(js) : m.kind = "hide") /\ p \in Guarded => ~Unsubscribing(j)
      BY <2>5 DEF Hiding, Steady
    <3>2. j.kind # "hide"
      BY <2>1
    <3> QED BY <1>2, <2>4, <3>1, <3>2, AddedHiding
  <2>10. Asked(js2, w, p, s)
    <3>1. j \in JobsIn(js2)
      BY <1>2, OneMore
    <3>2. p \in Guarded => Updating(j)
      BY <2>1 DEF Updating
    <3> QED BY <2>1, <3>1, <3>2 DEF Asked
  <2> QED BY <1>2, <2>8, <2>9, <2>10, AddJob, AppendTyped
<1> QED BY <1>1, <1>2 DEF Rendered

-----------------------------------------------------------------------------
(* The steps.  First what they have in common. *)

LEMMA PagesNext ==
    ASSUME Held(jobs', ws', page', sel', leaked'), Asked(jobs', ws', page', sel'),
           Len(jobs') = 1 \/ Hiding(jobs', ws', page', sel', leaked')
    PROVE  PagesInv'
BY DEF PagesInv, Held, Lined, Backed, LeftBehind, Starting, Steady, Book, Asked, Hiding, JobsIn, Content, Want

LEMMA PagesSame ==
    ASSUME PagesInv, UNCHANGED <<jobs, ws, userVars, leaked>>
    PROVE  PagesInv'
<1>1. jobs' = jobs /\ ws' = ws /\ page' = page /\ sel' = sel /\ leaked' = leaked
  BY DEF userVars
<1> QED BY <1>1, PagesNext DEF PagesInv

LEMMA NoneLeft ==
    ASSUME NEW js \in Seq(GoodJob), JobsIn(js) = {}
    PROVE  js = <<>>
<1>1. \A i \in DOMAIN js : FALSE
  BY DEF JobsIn
<1> QED BY <1>1

LEMMA AddsFacts ==
    ASSUME NEW w, NEW p, NEW s, NEW j, Adds(w, p, s, j)
    PROVE  /\ j.topic = p /\ p \in Topics /\ Tag(j) = j.kind /\ Tag(j) \notin Onward /\ ~Alone(j)
           /\ j.kind \in {"subscribe", "unsubscribed", "subscribed"}
           /\ Unsubscribing(j) => w.subscribed[p] \notin {NoSel, Want(p, s)}
           /\ Subscribing(j) => j.arg = Want(p, s) /\ p \in Guarded
           /\ p \in Guarded => ~Content(w, p, s) \/ ~w.isConnected
           /\ p \notin Guarded => ~Subscribing(j) /\ j.kind = "subscribed"
<1>1. /\ j.topic = p /\ p \in Topics /\ Tag(j) = j.kind /\ Tag(j) \notin Onward /\ ~Alone(j)
      /\ j.kind \in {"subscribe", "unsubscribed", "subscribed"}
      /\ Unsubscribing(j) => w.subscribed[p] \notin {NoSel, Want(p, s)}
      /\ Subscribing(j) => j.arg = Want(p, s) /\ p \in Guarded
      /\ p \in Guarded => ~Content(w, p, s) \/ ~w.isConnected
      /\ p \notin FlagTopics \/ j.kind = "subscribed"
  BY DEF Adds, Do, Subscribing, Unsubscribing, SubKinds, Tag, Onward, Alone, Want
<1>2. p \notin Guarded => p \in FlagTopics
  BY <1>1 DEF Guarded, Unguarded, FlagTopics
<1>3. p \notin Guarded => ~Subscribing(j)
  BY <1>1
<1> QED BY <1>1, <1>2, <1>3

LEMMA RenderedJobs ==
    ASSUME NEW w, NEW p, NEW s, NEW js \in Seq(GoodJob), NEW js2, Rendered(w, p, s, js, js2),
           NEW x \in JobsIn(js2)
    PROVE  x \in JobsIn(js) \/ Adds(w, p, s, x)
BY OneMore DEF Rendered

(* The rest of the queue. *)
LEMMA TakeJob ==
    ASSUME Typed, PagesInv, jobs # <<>>
    PROVE  LET h == Head(jobs)
               r == Tail(jobs)
           IN  /\ h \in GoodJob /\ r \in Seq(GoodJob) /\ Lined(r)
               /\ JobsIn(jobs) = {h} \cup JobsIn(r)
               /\ \A x \in JobsIn(r) : MayFollow(h, x) /\ ~Alone(x)
               /\ ~leaked /\ (\E x \in JobsIn(r) : x.kind = "hide") => Steady(jobs, ws, page, sel)
               /\ Hiding(r, ws, page, sel, leaked)
               /\ page = "Liquidity" /\ ~leaked => \A x \in JobsIn(r) : x.kind # "indicators"
               /\ h.kind \notin {"unsubscribed", "indicators"} => Held(r, ws, page, sel, leaked)
               /\ ~Updating(h) => Asked(r, ws, page, sel)
<1> DEFINE h == Head(jobs)
           r == Tail(jobs)
<1>1. h \in GoodJob /\ r \in Seq(GoodJob)
  BY TakeFacts
<1>2. /\ JobsIn(jobs) = {h} \cup JobsIn(r)
      /\ Lined(r) /\ \A x \in JobsIn(r) : MayFollow(h, x)
      /\ JobsIn(r) # {} => Len(jobs) # 1
  BY OneLess DEF Typed, PagesInv, Held
<1> HIDE DEF h, r
<1>3. \A x \in JobsIn(r) : MayFollow(h, x) /\ ~Alone(x)
  BY <1>2 DEF MayFollow
<1>4. ~leaked /\ (\E x \in JobsIn(r) : x.kind = "hide") => Steady(jobs, ws, page, sel)
  BY <1>2 DEF PagesInv, Hiding
<1>5. Steady(jobs, ws, page, sel) => Steady(r, ws, page, sel)
  BY <1>2 DEF Steady
<1>6. Hiding(r, ws, page, sel, leaked)
  BY <1>4, <1>5 DEF Hiding
<1>7. page = "Liquidity" /\ ~leaked => \A x \in JobsIn(r) : x.kind # "indicators"
  BY <1>2 DEF PagesInv, Held, Book
<1>8. ASSUME h.kind \notin {"unsubscribed", "indicators"} PROVE Held(r, ws, page, sel, leaked)
  <2>1. ~Unsubscribing(h)
    BY <1>8 DEF Unsubscribing
  <2>2. Backed(r, ws)
    BY <1>2 DEF PagesInv, Held, Backed
  <2>3. LeftBehind(r, ws, page, leaked)
    BY <1>2, <2>1 DEF PagesInv, Held, LeftBehind
  <2>4. Starting(r, ws, page, sel)
    BY <1>2, <1>5 DEF PagesInv, Held, Starting
  <2>5. Book(r, ws, page, leaked)
    BY <1>2, <1>7, <1>8 DEF PagesInv, Held, Book
  <2> QED BY <1>2, <2>2, <2>3, <2>4, <2>5 DEF Held
<1>9. ~Updating(h) => Asked(r, ws, page, sel)
  BY <1>2 DEF PagesInv, Asked
<1> QED BY <1>1, <1>2, <1>3, <1>4, <1>6, <1>7, <1>8, <1>9 DEF h, r

(* A setState() that leaves one more job, or none. *)
LEMMA SetStatePages ==
    ASSUME Typed, NEW w \in WsState, NEW r \in Seq(GoodJob), NEW then,
           then = <<>> \/ \E j \in GoodJob : then = <<j>>, SetState(w, r, then),
           UNCHANGED userVars,
           Held(r, w, page, sel, leaked'), Hiding(r, w, page, sel, leaked'),
           \A x \in JobsIn(r) : ~Alone(x),
           page \in Guarded /\ (\E x \in JobsIn(r) : Tag(x) \in Onward) => Content(w, page, sel) /\ w.isConnected,
           page = "Liquidity" /\ ~leaked' => \A x \in JobsIn(r) : x.kind # "indicators",
           \A j \in GoodJob, js \in Seq(GoodJob) :
              then = <<j>> /\ Rendered(w, page, sel, r, js) =>
                /\ Fits(js, j, w, page, sel, leaked') /\ j.kind # "hide"
                /\ ~leaked' /\ (\E m \in JobsIn(js) : m.kind = "hide") /\ page \in Guarded /\ j.topic = page =>
                     ~Unsubscribing(j) /\ (Subscribing(j) => j.arg = Want(page, sel))
    PROVE  PagesInv'
<1> DEFINE q == PageUpdate(w, page, sel, r, up).jobs
<1>1. ws' = w /\ jobs' = q \o then /\ page' = page /\ sel' = sel
  BY DEF SetState, userVars
<1>2. page \in Pages /\ sel \in Sels \cup {NoSel}
  BY DEF Typed, UserTyped
<1>3. Rendered(w, page, sel, r, q)
  BY <1>2, PageAdds
<1> HIDE DEF q
<1>4. /\ q \in Seq(GoodJob) /\ Held(q, w, page, sel, leaked')
      /\ Hiding(q, w, page, sel, leaked') /\ Asked(q, w, page, sel)
  BY <1>2, <1>3, PageActs
<1>5. CASE then = <<>>
  <2>1. jobs' = q
    BY <1>1, <1>4, <1>5, ConcatOne
  <2> QED BY <1>1, <1>4, <2>1, PagesNext
<1>6. ASSUME NEW j \in GoodJob, then = <<j>> PROVE PagesInv'
  <2>1. jobs' = Append(q, j)
    BY <1>1, <1>4, <1>6, ConcatOne
  <2>2. /\ Fits(q, j, w, page, sel, leaked') /\ j.kind # "hide"
        /\ ~leaked' /\ (\E m \in JobsIn(q) : m.kind = "hide") /\ page \in Guarded /\ j.topic = page =>
             ~Unsubscribing(j) /\ (Subscribing(j) => j.arg = Want(page, sel))
    BY <1>3, <1>4, <1>6
  <2>3. Held(jobs', w, page, sel, leaked')
    BY <1>4, <2>1, <2>2, AddJob
  <2>4. Hiding(jobs', w, page, sel, leaked')
    BY <1>4, <2>1, <2>2, AddedHiding
  <2>5. Asked(jobs', w, page, sel)
    BY <1>4, <2>1, AddedAsked
  <2> QED BY <1>1, <2>3, <2>4, <2>5, PagesNext
<1> QED BY <1>5, <1>6


-----------------------------------------------------------------------------
(* The microtasks. *)

QuietKinds == {"auth", "authorized", "timers", "empty", "replace", "select", "hide", "connected", "indicators"}

LEMMA QuietJob ==
    ASSUME NEW j \in GoodJob, j.kind \in QuietKinds
    PROVE  /\ j.topic = "" /\ j.topic \notin Guarded /\ j.kind \notin SubKinds /\ j.kind # "data"
           /\ ~Subscribing(j) /\ ~Unsubscribing(j) /\ ~Updating(j)
<1>1. "" \notin Guarded
  BY TopicsAssumption DEF Guarded, AllTopics
<1>2. j.topic = "" /\ j.kind \notin SubKinds /\ j.kind \notin {"data", "unsubscribed"}
  BY DEF QuietKinds, SubKinds, GoodJob, SubJob, FlagJob, SelJob, BareJob
<1> QED BY <1>1, <1>2 DEF Subscribing, Unsubscribing, Updating

LEMMA QuietFits ==
    ASSUME NEW j \in GoodJob, j.kind \in QuietKinds, j.kind # "indicators",
           NEW js, NEW w, NEW p, NEW s, NEW lk,
           \A x \in JobsIn(js) : MayFollow(x, j),
           Tag(j) \in Onward => \A m \in JobsIn(js) : m.kind \in SubKinds => m.topic = p,
           Tag(j) \in {"auth", "authorized", "timers"} => w.isConnected,
           Tag(j) \in {"auth", "authorized"} => Steady(js, w, p, s),
           p = "Liquidity" /\ ~lk => \A m \in JobsIn(js) : m.kind # "indicators"
    PROVE  Fits(js, j, w, p, s, lk)
BY QuietJob DEF Fits

LEMMA SubscribePages == Typed /\ PagesInv /\ Subscribe => PagesInv'
<1> SUFFICES ASSUME Typed, PagesInv, Subscribe PROVE PagesInv'
  OBVIOUS
<1> DEFINE h == Head(jobs)
           r == Tail(jobs)
           j == Do("subscribed", h.topic, h.arg)
<1>1. /\ jobs # <<>> /\ h.kind \in {"subscribe", "resubscribe"}
      /\ ws' = ws /\ page' = page /\ sel' = sel /\ leaked' = leaked
      /\ jobs' = IF ws.isConnected THEN Append(r, j) ELSE r
  BY DEF Subscribe, Take, userVars, histVars
<1>2. /\ h \in GoodJob /\ r \in Seq(GoodJob)
      /\ JobsIn(jobs) = {h} \cup JobsIn(r)
      /\ \A x \in JobsIn(r) : MayFollow(h, x) /\ ~Alone(x)
      /\ ~leaked /\ (\E x \in JobsIn(r) : x.kind = "hide") => Steady(jobs, ws, page, sel)
      /\ Hiding(r, ws, page, sel, leaked)
      /\ page = "Liquidity" /\ ~leaked => \A x \in JobsIn(r) : x.kind # "indicators"
      /\ h.kind \notin {"unsubscribed", "indicators"} => Held(r, ws, page, sel, leaked)
      /\ ~Updating(h) => Asked(r, ws, page, sel)
  BY <1>1, TakeJob
<1>3. j \in GoodJob
  BY <1>1, TakeFacts, DoTyped
<1>4. j.kind = "subscribed" /\ Tag(j) = "subscribed" /\ j.topic = h.topic /\ j.arg = h.arg
  BY DEF Do, Tag
<1>4a. Tag(h) = h.kind
  BY <1>1 DEF Tag
<1> HIDE DEF h, r, j
<1>5. CASE ~ws.isConnected
  BY <1>1, <1>2, <1>5, PagesNext DEF Asked
<1>6. CASE ws.isConnected
  <2>1. /\ Subscribing(j) <=> Subscribing(h)
        /\ ~Unsubscribing(j) /\ ~Unsubscribing(h)
    BY <1>1, <1>4 DEF Subscribing, Unsubscribing, SubKinds
  <2>2. \A x \in JobsIn(r) : MayFollow(x, j)
    <3> SUFFICES ASSUME NEW x \in JobsIn(r) PROVE MayFollow(x, j)
      OBVIOUS
    <3>1. ~Alone(x) /\ Apart(h, x) /\ Apart(x, h)
      BY <1>2 DEF MayFollow
    <3>2. Apart(j, x) /\ ~Alone(j)
      BY <1>4 DEF Apart, Alone, Onward
    <3>3. Apart(x, j)
      BY <1>4, <2>1, <3>1 DEF Apart
    <3>4. Tag(x) = "authorized" => ~Subscribing(j)
      BY <1>1, <2>1, <3>1 DEF Apart
    <3> QED BY <1>4, <3>1, <3>2, <3>3, <3>4 DEF MayFollow
  <2>3. Fits(r, j, ws, page, sel, leaked)
    <3>1. Tag(j) \notin Onward /\ Tag(j) \notin {"auth", "authorized", "timers"}
      BY <1>4 DEF Onward
    <3>2. Subscribing(j) => j.arg # NoSel
      BY <1>2, <1>4, <2>1 DEF PagesInv, Held, Backed
    <3>3. ~leaked /\ j.topic \in Guarded \ {page} => ~Subscribing(j)
      BY <1>2, <1>4, <2>1 DEF PagesInv, Held, LeftBehind
    <3>4. (\E m \in JobsIn(r) : Tag(m) \in Onward) => j.topic = page
      BY <1>1, <1>2, <1>4 DEF PagesInv, Held, Starting, SubKinds
    <3>5. (\E m \in JobsIn(r) : Tag(m) \in {"auth", "authorized"}) /\ page \in Guarded /\ j.topic = page =>
            (Subscribing(j) => j.arg = Want(page, sel))
      BY <1>2, <1>4, <2>1 DEF PagesInv, Held, Starting, Steady
    <3>6. page = "Liquidity" /\ ~leaked /\ Subscribing(j) /\ j.topic = "Liquidity" => ws.data["Liquidity"] = NoSel
      BY <1>2, <1>4, <2>1 DEF PagesInv, Held, Book
    <3> QED BY <1>2, <1>4, <1>6, <2>1, <2>2, <3>1, <3>2, <3>3, <3>4, <3>5, <3>6 DEF Fits
  <2>4. Held(jobs', ws, page, sel, leaked)
    BY <1>1, <1>2, <1>3, <1>6, <2>3, AddJob
  <2>5. Hiding(jobs', ws, page, sel, leaked)
    <3>1. ~leaked /\ (\E m \in JobsIn(r) : m.kind = "hide") /\ page \in Guarded /\ j.topic = page =>
            (Subscribing(j) => j.arg = Want(page, sel))
      BY <1>2, <1>4, <2>1 DEF Steady
    <3> QED BY <1>1, <1>2, <1>3, <1>4, <1>6, <2>1, <3>1, AddedHiding
  <2>6. Asked(jobs', ws, page, sel)
    <3>1. JobsIn(jobs') = JobsIn(r) \cup {j}
      BY <1>1, <1>2, <1>3, <1>6, OneMore
    <3>2. Updating(h) <=> Updating(j)
      BY <2>1 DEF Updating
    <3> QED BY <1>2, <1>4, <3>1, <3>2 DEF PagesInv, Asked
  <2> QED BY <1>1, <2>4, <2>5, <2>6, PagesNext
<1> QED BY <1>5, <1>6

LEMMA LiquidityGuarded == "Liquidity" \in Guarded /\ "Liquidity" \notin FlagTopics
BY TopicsAssumption DEF Guarded, Served, Unguarded, FlagTopics

LEMMA SubscribedPages == Typed /\ PagesInv /\ Subscribed => PagesInv'
<1> SUFFICES ASSUME Typed, PagesInv, Subscribed PROVE PagesInv'
  OBVIOUS
<1> DEFINE h == Head(jobs)
           r == Tail(jobs)
           t == h.topic
           a == h.arg
           c == IF t \in FlagTopics THEN ws.codes ELSE a
           w == [ws EXCEPT !.subscribed[t] = a, !.codes = c]
<1>1. /\ jobs # <<>> /\ h.kind = "subscribed" /\ SetState(w, r, <<>>)
      /\ leaked' = leaked /\ UNCHANGED userVars
  BY DEF Subscribed, Take, histVars
<1>2. /\ h \in GoodJob /\ r \in Seq(GoodJob) /\ Lined(r)
      /\ JobsIn(jobs) = {h} \cup JobsIn(r)
      /\ \A x \in JobsIn(r) : MayFollow(h, x) /\ ~Alone(x)
      /\ ~leaked /\ (\E x \in JobsIn(r) : x.kind = "hide") => Steady(jobs, ws, page, sel)
      /\ page = "Liquidity" /\ ~leaked => \A x \in JobsIn(r) : x.kind # "indicators"
      /\ Held(r, ws, page, sel, leaked)
  BY <1>1, TakeJob
<1>3. t \in Topics /\ a \in Subs /\ ws \in WsState /\ ws.codes \in Subs
  BY <1>1, TakeFacts DEF Typed, WsState
<1>4. w \in WsState
  BY <1>3, WsTyped
<1>5. /\ w.isConnected = ws.isConnected /\ w.data = ws.data /\ w.indicators = ws.indicators
      /\ w.codes = c /\ w.subscribed[t] = a /\ \A x \in Topics \ {t} : w.subscribed[x] = ws.subscribed[x]
  BY <1>3 DEF WsState
<1>6. (Subscribing(h) <=> t \in Guarded) /\ h.kind \in SubKinds /\ ~Unsubscribing(h)
  BY <1>1 DEF Subscribing, Unsubscribing, SubKinds
<1>7. Guarded \subseteq Topics /\ (t \notin Guarded => t \in FlagTopics)
  BY <1>3 DEF Guarded, Unguarded, FlagTopics
<1> HIDE DEF h, r, w, t, a
<1>8. t \in Guarded => ws.isConnected /\ a # NoSel
  BY <1>1, <1>2, <1>6 DEF PagesInv, Held, Backed, a
<1>9. ~leaked /\ t \in Guarded => t = page
  BY <1>2, <1>6 DEF PagesInv, Held, LeftBehind, t
<1>10. Backed(r, w)
  <2>1. \A x \in JobsIn(r) : x.kind # "data"
    BY <1>2 DEF Alone
  <2> QED BY <1>2, <1>5, <1>7, <1>8, <2>1 DEF Held, Backed
<1>11. LeftBehind(r, w, page, leaked)
  BY <1>2, <1>5, <1>7, <1>9 DEF Held, LeftBehind
<1>12. Steady(jobs, ws, page, sel) => Steady(r, w, page, sel) /\ (t = page /\ page \in Guarded => a = Want(page, sel))
  <2> SUFFICES ASSUME Steady(jobs, ws, page, sel), page \in Guarded
               PROVE  Steady(r, w, page, sel) /\ (t = page => a = Want(page, sel))
    BY DEF Steady
  <2>1. t = page => a = Want(page, sel)
    BY <1>2, <1>6 DEF Steady, t, a
  <2> QED BY <1>2, <1>5, <1>7, <2>1 DEF Steady
<1>13. Starting(r, w, page, sel)
  BY <1>2, <1>5, <1>12 DEF PagesInv, Held, Starting
<1>14. Book(r, w, page, leaked)
  <2> SUFFICES ASSUME page = "Liquidity", ~leaked
               PROVE  /\ w.subscribed["Liquidity"] # NoSel => w.codes = w.subscribed["Liquidity"]
                      /\ w.data["Liquidity"] # NoSel =>
                           /\ w.data["Liquidity"] = w.subscribed["Liquidity"]
                           /\ \A m \in JobsIn(r) : m.topic = "Liquidity" => ~Subscribing(m)
                           /\ w.indicators = w.data["Liquidity"] \/ \E m \in JobsIn(r) : m.kind = "indicators"
                      /\ \A m \in JobsIn(r) : m.kind = "indicators" => Len(r) = 1 /\ m.arg = w.data["Liquidity"]
    BY DEF Book
  <2>1. CASE t = "Liquidity"
    <3>1. ws.data["Liquidity"] = NoSel
      BY <1>2, <1>6, <2>1, LiquidityGuarded DEF PagesInv, Held, Book, t
    <3> QED BY <1>2, <1>5, <2>1, <3>1, LiquidityGuarded
  <2>2. CASE t # "Liquidity"
    <3>1. w.codes = ws.codes /\ w.subscribed["Liquidity"] = ws.subscribed["Liquidity"]
      BY <1>5, <1>7, <1>9, <2>2, LiquidityGuarded
    <3> QED BY <1>2, <1>5, <3>1 DEF Held, Book
  <2> QED BY <2>1, <2>2
<1>15. Held(r, w, page, sel, leaked)
  BY <1>2, <1>10, <1>11, <1>13, <1>14 DEF Held
<1>16. Hiding(r, w, page, sel, leaked)
  BY <1>2, <1>12 DEF Hiding
<1>17. ASSUME page \in Guarded, NEW x \in JobsIn(r), Tag(x) \in Onward
       PROVE  Content(w, page, sel) /\ w.isConnected
  <2>1. t = page
    BY <1>2, <1>6, <1>17 DEF PagesInv, Held, Starting, t
  <2>2. Tag(x) \in {"auth", "authorized"}
    BY <1>2, <1>6, <1>17, <2>1 DEF MayFollow, Apart, Onward
  <2>3. ws.isConnected /\ a = Want(page, sel)
    BY <1>2, <1>12, <1>17, <2>1, <2>2 DEF PagesInv, Held, Starting
  <2> QED BY <1>5, <1>8, <1>17, <2>1, <2>3 DEF Content, Want
<1>18. \A x \in JobsIn(r) : ~Alone(x)
  BY <1>2
<1>19. \A j \in GoodJob : <<>> # <<j>>
  OBVIOUS
<1> QED BY <1>1, <1>2, <1>4, <1>15, <1>16, <1>17, <1>18, <1>19, SetStatePages

(* What is new in the queue. *)
Fresh(w, p, s, x) ==
    /\ x.topic = p /\ Tag(x) = x.kind /\ Tag(x) \notin Onward /\ ~Alone(x)
    /\ x.kind \in {"subscribe", "unsubscribed", "subscribed"}
    /\ p \in Guarded => ~Content(w, p, s) \/ ~w.isConnected
    /\ p \notin Guarded => ~Subscribing(x) /\ x.kind = "subscribed"
    /\ x.kind = "unsubscribed" => w.subscribed[p] \notin {NoSel, Want(p, s)}
    /\ Subscribing(x) => x.arg = Want(p, s)

LEMMA RenderedNew ==
    ASSUME NEW w, NEW p, NEW s, NEW js \in Seq(GoodJob), NEW js2, Rendered(w, p, s, js, js2)
    PROVE  \A x \in JobsIn(js2) : x \in JobsIn(js) \/ Fresh(w, p, s, x)
<1> SUFFICES ASSUME NEW x \in JobsIn(js2), x \notin JobsIn(js) PROVE Fresh(w, p, s, x)
  OBVIOUS
<1>1. Adds(w, p, s, x)
  BY RenderedJobs
<1>2. x.kind = "unsubscribed" => Unsubscribing(x)
  BY <1>1, AddsFacts DEF Unsubscribing
<1> QED BY <1>1, <1>2, AddsFacts DEF Fresh

LEMMA UnsubscribedPages == Typed /\ PagesInv /\ Unsubscribed => PagesInv'
<1> SUFFICES ASSUME Typed, PagesInv, Unsubscribed PROVE PagesInv'
  OBVIOUS
<1> DEFINE h == Head(jobs)
           r == Tail(jobs)
           t == h.topic
           a == h.arg
           w == [ws EXCEPT !.subscribed[t] = NoSel, !.data[t] = NoSel]
           g == Do("resubscribe", t, a)
           then == IF a = NoSel THEN <<>> ELSE <<g>>
<1>1. /\ jobs # <<>> /\ h.kind = "unsubscribed" /\ SetState(w, r, then)
      /\ leaked' = leaked /\ UNCHANGED userVars
  BY DEF Unsubscribed, Take, histVars
<1>2. /\ h \in GoodJob /\ r \in Seq(GoodJob) /\ Lined(r)
      /\ JobsIn(jobs) = {h} \cup JobsIn(r)
      /\ \A x \in JobsIn(r) : MayFollow(h, x) /\ ~Alone(x)
      /\ ~leaked /\ (\E x \in JobsIn(r) : x.kind = "hide") => Steady(jobs, ws, page, sel)
      /\ page = "Liquidity" /\ ~leaked => \A x \in JobsIn(r) : x.kind # "indicators"
  BY <1>1, TakeJob
<1>3. t \in Topics /\ a \in Subs /\ ws \in WsState
  BY <1>1, TakeFacts DEF Typed
<1>4. w \in WsState /\ g \in GoodJob
  BY <1>3, WsTyped, DoTyped
<1>5. /\ w.isConnected = ws.isConnected /\ w.codes = ws.codes /\ w.indicators = ws.indicators
      /\ w.subscribed[t] = NoSel /\ \A x \in Topics \ {t} : w.subscribed[x] = ws.subscribed[x]
      /\ w.data[t] = NoSel /\ \A x \in Topics \ {t} : w.data[x] = ws.data[x]
  BY <1>3 DEF WsState
<1>6. (Unsubscribing(h) <=> t \in Guarded) /\ ~Subscribing(h) /\ Tag(h) = "unsubscribed"
  BY <1>1 DEF Subscribing, Unsubscribing, SubKinds, Tag
<1>7. Guarded \subseteq Topics
  BY DEF Guarded
<1>8. g.kind = "resubscribe" /\ Tag(g) = "resubscribe" /\ g.topic = t /\ g.arg = a
  BY DEF g, Do, Tag
<1>9. then = <<>> \/ (a # NoSel /\ then = <<g>>)
  OBVIOUS
<1> HIDE DEF h, r, w, t, a, g, then
<1>10. \A x \in JobsIn(r) : Tag(x) \notin Onward
  BY <1>2, <1>6 DEF MayFollow, Apart
<1>10a. {"auth", "authorized", "timers"} \subseteq Onward
  BY DEF Onward
<1>11. Backed(r, w)
  <2>1. \A x \in JobsIn(r) : x.kind # "data"
    BY <1>2 DEF Alone
  <2> QED BY <1>2, <1>5, <1>7, <2>1 DEF PagesInv, Held, Backed
<1>12. LeftBehind(r, w, page, leaked)
  <2> SUFFICES ASSUME ~leaked, NEW x \in Guarded \ {page}
               PROVE  /\ \A j \in JobsIn(r) : j.topic = x =>
                            ~Subscribing(j) /\ (Unsubscribing(j) => j.arg = NoSel)
                      /\ w.subscribed[x] = NoSel \/ \E j \in JobsIn(r) : Unsubscribing(j) /\ j.topic = x
    BY DEF LeftBehind
  <2>1. CASE x = t
    BY <1>2, <1>5, <2>1 DEF PagesInv, Held, LeftBehind
  <2>2. CASE x # t
    <3>1. h.topic # x /\ w.subscribed[x] = ws.subscribed[x]
      BY <1>5, <1>7, <2>2 DEF t
    <3> QED BY <1>2, <3>1 DEF PagesInv, Held, LeftBehind
  <2> QED BY <2>1, <2>2
<1>13. Starting(r, w, page, sel)
  BY <1>10, <1>10a DEF Starting
<1>14. Book(r, w, page, leaked)
  <2>1. CASE t = "Liquidity"
    BY <1>2, <1>5, <2>1 DEF Book
  <2>2. CASE t # "Liquidity"
    <3>1. w.data["Liquidity"] = ws.data["Liquidity"] /\ w.subscribed["Liquidity"] = ws.subscribed["Liquidity"]
      BY <1>5, <1>7, <2>2, LiquidityGuarded
    <3> QED BY <1>1, <1>2, <1>5, <3>1 DEF PagesInv, Held, Book
  <2> QED BY <2>1, <2>2
<1>15. Held(r, w, page, sel, leaked)
  BY <1>2, <1>11, <1>12, <1>13, <1>14 DEF Held
<1>16. Hiding(r, w, page, sel, leaked)
  <2>1. Steady(jobs, ws, page, sel) => Steady(r, w, page, sel)
    BY <1>2, <1>5, <1>7 DEF Steady
  <2> QED BY <1>2, <2>1 DEF Hiding
<1>17. ASSUME NEW j \in GoodJob, NEW js \in Seq(GoodJob), then = <<j>>, Rendered(w, page, sel, r, js)
       PROVE  /\ Fits(js, j, w, page, sel, leaked) /\ j.kind # "hide"
              /\ ~leaked /\ (\E m \in JobsIn(js) : m.kind = "hide") /\ page \in Guarded /\ j.topic = page =>
                   ~Unsubscribing(j) /\ (Subscribing(j) => j.arg = Want(page, sel))
  <2>1. j = g /\ a # NoSel
    <3>1. <<j>> # <<>> /\ (<<j>> = <<g>> => j = g)
      OBVIOUS
    <3> QED BY <1>9, <1>17, <3>1
  <2>2. \A x \in JobsIn(js) : Tag(x) \notin Onward /\ ~Alone(x)
    BY <1>2, <1>10, <1>17, RenderedNew DEF Fresh
  <2>3. \A x \in JobsIn(js) : x.kind \in {"hide", "indicators"} => x \in JobsIn(r)
    BY <1>2, <1>17, RenderedNew DEF Fresh
  <2>4. \A x \in JobsIn(js) : MayFollow(x, j)
    BY <1>8, <2>1, <2>2 DEF MayFollow, Alone, Apart, Onward
  <2>5. ~leaked /\ t \in Guarded \ {page} => FALSE
    BY <1>2, <1>6, <2>1 DEF PagesInv, Held, LeftBehind, t, a
  <2>6. ~leaked /\ (\E m \in JobsIn(js) : m.kind = "hide") /\ page \in Guarded /\ t = page => FALSE
    BY <1>2, <1>6, <2>3 DEF Steady, t
  <2>7. Tag(j) \notin Onward /\ ~Unsubscribing(j)
    BY <1>8, <2>1 DEF Onward, Unsubscribing
  <2>8. t = "Liquidity" => w.data["Liquidity"] = NoSel
    BY <1>5
  <2>9. Fits(js, j, w, page, sel, leaked)
    BY <1>2, <1>8, <1>10a, <2>1, <2>2, <2>3, <2>4, <2>5, <2>7, <2>8 DEF Fits
  <2> QED BY <1>8, <2>1, <2>6, <2>9
<1>18. \A x \in JobsIn(r) : ~Alone(x)
  BY <1>2
<1>19. then = <<>> \/ \E j \in GoodJob : then = <<j>>
  BY <1>4, <1>9
<1> QED BY <1>1, <1>2, <1>4, <1>10, <1>15, <1>16, <1>17, <1>18, <1>19, SetStatePages

(* A microtask that leaves the state alone, and a quiet job or none. *)
LEMMA QuietStep ==
    ASSUME Typed, PagesInv, jobs # <<>>, UNCHANGED <<ws, userVars, leaked>>,
           Head(jobs).kind \in QuietKinds, Head(jobs).kind # "indicators",
           \/ jobs' = Tail(jobs)
           \/ \E j \in GoodJob : /\ j.kind \in QuietKinds /\ j.kind # "hide"
                                 /\ jobs' = Append(Tail(jobs), j)
                                 /\ Fits(Tail(jobs), j, ws, page, sel, leaked)
    PROVE  PagesInv'
<1> DEFINE h == Head(jobs)
           r == Tail(jobs)
<1>1. ws' = ws /\ page' = page /\ sel' = sel /\ leaked' = leaked
  BY DEF userVars
<1>2. /\ h \in GoodJob /\ r \in Seq(GoodJob)
      /\ Hiding(r, ws, page, sel, leaked)
      /\ h.kind \notin {"unsubscribed", "indicators"} => Held(r, ws, page, sel, leaked)
      /\ ~Updating(h) => Asked(r, ws, page, sel)
  BY TakeJob
<1>3. h.kind \notin {"unsubscribed", "indicators"} /\ ~Updating(h)
  BY <1>2, QuietJob DEF QuietKinds
<1>4. CASE jobs' = r
  BY <1>1, <1>2, <1>3, <1>4, PagesNext
<1>5. ASSUME NEW j \in GoodJob, j.kind \in QuietKinds, j.kind # "hide",
             jobs' = Append(r, j), Fits(r, j, ws, page, sel, leaked)
      PROVE  PagesInv'
  <2>1. ~Subscribing(j) /\ ~Unsubscribing(j)
    BY <1>5, QuietJob
  <2>2. Hiding(jobs', ws, page, sel, leaked)
    BY <1>2, <1>5, <2>1, AddedHiding
  <2>3. Held(jobs', ws, page, sel, leaked)
    BY <1>2, <1>3, <1>5, AddJob
  <2>4. Asked(jobs', ws, page, sel)
    BY <1>2, <1>3, <1>5, AddedAsked
  <2> QED BY <1>1, <2>2, <2>3, <2>4, PagesNext
<1> QED BY <1>4, <1>5

LEMMA SendAuthPages == Typed /\ PagesInv /\ SendAuth => PagesInv'
<1> SUFFICES ASSUME Typed, PagesInv, SendAuth PROVE PagesInv'
  OBVIOUS
<1> DEFINE h == Head(jobs)
           r == Tail(jobs)
           j == Do("authorized", "", h.arg)
<1>1. /\ jobs # <<>> /\ h.kind = "auth" /\ UNCHANGED <<ws, userVars, leaked>>
      /\ ws.isConnected => jobs' = Append(r, j)
      /\ ~ws.isConnected => jobs' = r \o (IF h.arg THEN <<Do("timers", "", NoSel)>> ELSE <<>>)
  BY DEF SendAuth, Take, histVars
<1>2. /\ h \in GoodJob /\ r \in Seq(GoodJob)
      /\ JobsIn(jobs) = {h} \cup JobsIn(r)
      /\ \A x \in JobsIn(r) : MayFollow(h, x) /\ ~Alone(x)
      /\ page = "Liquidity" /\ ~leaked => \A x \in JobsIn(r) : x.kind # "indicators"
  BY <1>1, TakeJob
<1>3. h.arg \in BOOLEAN /\ j \in GoodJob
  BY <1>1, TakeFacts, DoTyped
<1>4. /\ j.kind = "authorized" /\ j.arg = h.arg
      /\ h.arg = TRUE => Tag(j) = "authorized" /\ Tag(h) = "auth"
      /\ h.arg = FALSE => Tag(j) = "reauth" /\ Tag(h) = "reauth"
  BY <1>1 DEF Do, Tag
<1>5. r \o <<>> = r
  BY <1>2, ConcatOne
<1>5a. h.kind \in QuietKinds /\ h.kind # "indicators" /\ j.kind \in QuietKinds /\ j.kind # "hide" /\ j.kind # "indicators"
  BY <1>1, <1>4 DEF QuietKinds
<1>5b. ~Subscribing(j) /\ j.kind \notin SubKinds
  BY <1>3, <1>5a, QuietJob
<1> HIDE DEF h, r, j
<1>6. h.arg = TRUE => /\ ws.isConnected /\ Steady(jobs, ws, page, sel)
                      /\ \A m \in JobsIn(jobs) : m.kind \in SubKinds => m.topic = page
  BY <1>2, <1>4 DEF PagesInv, Held, Starting, Onward
<1>7. CASE ~ws.isConnected
  <2>1. jobs' = r
    BY <1>1, <1>3, <1>5, <1>6, <1>7
  <2> QED BY <1>1, <1>5a, <2>1, QuietStep DEF h, r
<1>8. CASE ws.isConnected
  <2>1. \A x \in JobsIn(r) : MayFollow(x, j)
    <3> SUFFICES ASSUME NEW x \in JobsIn(r) PROVE MayFollow(x, j)
      OBVIOUS
    <3>1. MayFollow(h, x) /\ ~Alone(x) /\ ~Alone(j)
      BY <1>2, <1>4 DEF Alone
    <3>2. Apart(x, j)
      BY <1>3, <1>4, <1>5b, <3>1 DEF Apart, MayFollow
    <3>3. Apart(j, x)
      BY <1>3, <1>4, <3>1 DEF Apart, MayFollow, Onward
    <3> QED BY <1>5b, <3>1, <3>2, <3>3 DEF MayFollow
  <2>2. Steady(jobs, ws, page, sel) => Steady(r, ws, page, sel)
    BY <1>2 DEF Steady
  <2>3. Tag(j) \in {"authorized", "reauth"} /\ "reauth" \notin Onward /\ (Tag(j) = "authorized" => h.arg = TRUE)
    BY <1>3, <1>4 DEF Onward
  <2>4. Fits(r, j, ws, page, sel, leaked)
    BY <1>2, <1>3, <1>5a, <1>6, <1>8, <2>1, <2>2, <2>3, QuietFits
  <2> QED BY <1>1, <1>3, <1>5a, <1>8, <2>4, QuietStep DEF h, r
<1> QED BY <1>7, <1>8

LEMMA TimersPages == Typed /\ PagesInv /\ Timers => PagesInv'
<1> SUFFICES ASSUME Typed, PagesInv, Timers PROVE PagesInv'
  OBVIOUS
<1> DEFINE h == Head(jobs)
           r == Tail(jobs)
           j == Do("empty", "", TRUE)
<1>1. /\ jobs # <<>> /\ h.kind = "timers" /\ UNCHANGED <<ws, userVars, leaked>>
      /\ jobs' = r \/ jobs' = Append(r, j)
  BY DEF Timers, Take, histVars, HbGivesUp, HbGoesOn
<1>2. /\ h \in GoodJob /\ r \in Seq(GoodJob)
      /\ JobsIn(jobs) = {h} \cup JobsIn(r)
      /\ \A x \in JobsIn(r) : MayFollow(h, x) /\ ~Alone(x)
      /\ page = "Liquidity" /\ ~leaked => \A x \in JobsIn(r) : x.kind # "indicators"
  BY <1>1, TakeJob
<1>3. j \in GoodJob
  BY DoTyped
<1>4. j.kind = "empty" /\ Tag(j) = "empty" /\ Tag(h) = "timers"
  BY <1>1 DEF Do, Tag
<1>5. h.kind \in QuietKinds /\ h.kind # "indicators" /\ j.kind \in QuietKinds /\ j.kind # "hide" /\ j.kind # "indicators"
  BY <1>1, <1>4 DEF QuietKinds
<1>6. ~Subscribing(j) /\ j.kind \notin SubKinds
  BY <1>3, <1>5, QuietJob
<1> HIDE DEF h, r, j
<1>7. \A x \in JobsIn(r) : MayFollow(x, j)
  <2> SUFFICES ASSUME NEW x \in JobsIn(r) PROVE MayFollow(x, j)
    OBVIOUS
  <2>1. MayFollow(h, x) /\ ~Alone(x) /\ ~Alone(j)
    BY <1>2, <1>4 DEF Alone
  <2>2. Apart(x, j)
    BY <1>4, <1>6 DEF Apart
  <2>3. Apart(j, x)
    BY <1>4, <2>1 DEF Apart, MayFollow, Onward
  <2> QED BY <1>6, <2>1, <2>2, <2>3 DEF MayFollow
<1>8. \A m \in JobsIn(r) : m.kind \in SubKinds => m.topic = page
  BY <1>2, <1>4 DEF PagesInv, Held, Starting, Onward
<1>9. Fits(r, j, ws, page, sel, leaked)
  BY <1>2, <1>3, <1>4, <1>5, <1>7, <1>8, QuietFits
<1> QED BY <1>1, <1>3, <1>5, <1>9, QuietStep DEF h, r

LEMMA ReplacePages == Typed /\ PagesInv /\ Replace => PagesInv'
<1> SUFFICES ASSUME Typed, PagesInv, Replace PROVE PagesInv'
  OBVIOUS
<1>1. /\ jobs # <<>> /\ Head(jobs).kind = "replace" /\ UNCHANGED <<ws, userVars, leaked>>
      /\ jobs' = Tail(jobs)
  BY DEF Replace, Take, histVars
<1>2. Head(jobs).kind \in QuietKinds /\ Head(jobs).kind # "indicators"
  BY <1>1 DEF QuietKinds
<1> QED BY <1>1, <1>2, QuietStep

(* No step of onopen, and no end of a connection, is left in the queue. *)
LEMMA NoneOnward ==
    ASSUME Typed, SyncInv, jobs # <<>>, Tag(Head(jobs)) \in Chain
    PROVE  \A x \in JobsIn(Tail(jobs)) : Tag(x) \notin Onward
<1>1. Kinds(Tail(jobs)) \cap Chain = {}
  BY HeadFacts
<1>2. \A x \in JobsIn(Tail(jobs)) : Tag(x) \in Kinds(Tail(jobs))
  BY DEF JobsIn, Kinds
<1> QED BY <1>1, <1>2 DEF Chain, OpenChain, Onward

LEMMA ConnectedPages == Typed /\ SyncInv /\ PagesInv /\ Connected => PagesInv'
<1> SUFFICES ASSUME Typed, SyncInv, PagesInv, Connected PROVE PagesInv'
  OBVIOUS
<1> DEFINE h == Head(jobs)
           r == Tail(jobs)
           w == [ws EXCEPT !.isConnected = TRUE]
           g == Do("auth", "", TRUE)
<1>1. /\ jobs # <<>> /\ h.kind = "connected" /\ SetState(w, r, <<g>>)
      /\ leaked' = leaked /\ UNCHANGED userVars
  BY DEF Connected, Take, histVars
<1>2. r = <<>> /\ NothingSubscribed
  <2>1. Tag(h) = "connected"
    BY <1>1 DEF Tag
  <2>2. "connected" \in Kinds(jobs)
    BY <1>1, <2>1, HeadFacts
  <2>3. Len(jobs) = 1 /\ NothingSubscribed
    BY <2>2 DEF SyncInv, QueueInv
  <2>4. jobs \in Seq(GoodJob)
    BY DEF Typed
  <2> QED BY <1>1, <2>3, <2>4, OneLess
<1>3. /\ ws \in WsState /\ w \in WsState /\ g \in GoodJob
      /\ w.isConnected /\ w.subscribed = ws.subscribed /\ w.data = ws.data
  BY WsTyped, DoTyped DEF Typed, WsState
<1>4. g.kind = "auth" /\ Tag(g) = "auth" /\ g.kind \in QuietKinds
  BY DEF Do, Tag, QuietKinds
<1>5. JobsIn(r) = {} /\ Lined(r) /\ r \in Seq(GoodJob)
  <2>1. JobsIn(<<>>) = {} /\ Lined(<<>>) /\ <<>> \in Seq(GoodJob)
    BY DEF JobsIn, Lined
  <2> QED BY <1>2, <2>1, Zenon
<1>6. \A t \in Guarded : w.subscribed[t] = NoSel
  BY <1>2, <1>3 DEF NothingSubscribed, Guarded
<1> HIDE DEF h, r, w, g
<1>7. \A t \in Guarded : w.data[t] = NoSel
  BY <1>3, <1>6 DEF PagesInv, Held, Backed
<1>8. Backed(r, w)
  BY <1>3, <1>5, <1>7 DEF Backed
<1>9. LeftBehind(r, w, page, leaked)
  BY <1>5, <1>6 DEF LeftBehind
<1>10. Starting(r, w, page, sel) /\ Hiding(r, w, page, sel, leaked)
  BY <1>5 DEF Starting, Hiding
<1>11. Book(r, w, page, leaked)
  BY <1>5, <1>6, <1>7, LiquidityGuarded DEF Book
<1>12. Held(r, w, page, sel, leaked)
  BY <1>5, <1>8, <1>9, <1>10, <1>11 DEF Held
<1>13. ASSUME NEW j \in GoodJob, NEW js \in Seq(GoodJob), <<g>> = <<j>>, Rendered(w, page, sel, r, js)
       PROVE  /\ Fits(js, j, w, page, sel, leaked) /\ j.kind # "hide"
              /\ ~leaked /\ (\E m \in JobsIn(js) : m.kind = "hide") /\ page \in Guarded /\ j.topic = page =>
                   ~Unsubscribing(j) /\ (Subscribing(j) => j.arg = Want(page, sel))
  <2>1. j = g
    BY <1>13
  <2>2. ~Subscribing(j) /\ ~Unsubscribing(j) /\ j.kind # "indicators" /\ j.kind # "hide"
    BY <1>4, <2>1, QuietJob
  <2>3. \A x \in JobsIn(js) :
           /\ x.topic = page /\ Tag(x) = x.kind /\ Tag(x) \notin Onward /\ ~Alone(x)
           /\ x.kind \in {"subscribe", "unsubscribed", "subscribed"}
           /\ page \notin Guarded => ~Subscribing(x) /\ x.kind = "subscribed"
           /\ x.kind = "unsubscribed" => w.subscribed[page] \notin {NoSel, Want(page, sel)}
           /\ Subscribing(x) => x.arg = Want(page, sel)
    <3>1. \A x \in JobsIn(js) : x \in JobsIn(r) \/ Fresh(w, page, sel, x)
      BY <1>5, <1>13, RenderedNew
    <3> QED BY <1>5, <3>1 DEF Fresh
  <2>4. \A x \in JobsIn(js) : x.kind \in {"subscribe", "subscribed"}
    BY <1>6, <2>3
  <2>5. ASSUME NEW x \in JobsIn(js) PROVE MayFollow(x, j)
    <3>1. ~Alone(x) /\ ~Alone(j) /\ Tag(x) = x.kind /\ x.kind \in {"subscribe", "subscribed"}
      BY <1>4, <2>1, <2>3, <2>4 DEF Alone
    <3>2. Apart(x, j) /\ Apart(j, x)
      BY <1>4, <2>1, <3>1 DEF Apart, Onward
    <3> QED BY <2>2, <3>1, <3>2 DEF MayFollow
  <2>6. Steady(js, w, page, sel)
    <3>1. \A x \in JobsIn(js) : ~Unsubscribing(x)
      BY <2>4 DEF Unsubscribing
    <3> QED BY <1>6, <2>3, <3>1 DEF Steady
  <2>7. Fits(js, j, w, page, sel, leaked)
    BY <1>3, <1>4, <2>1, <2>2, <2>3, <2>4, <2>5, <2>6, QuietFits
  <2> QED BY <2>2, <2>7
<1>14. \E j \in GoodJob : <<g>> = <<j>>
  BY <1>3
<1> QED BY <1>1, <1>3, <1>5, <1>12, <1>10, <1>13, <1>14, SetStatePages

LEMMA AuthorizedPages == Typed /\ SyncInv /\ PagesInv /\ Authorized => PagesInv'
<1> SUFFICES ASSUME Typed, SyncInv, PagesInv, Authorized PROVE PagesInv'
  OBVIOUS
<1> DEFINE h == Head(jobs)
           r == Tail(jobs)
           g == Do("timers", "", NoSel)
           then == IF h.arg THEN <<g>> ELSE <<>>
<1>1. /\ jobs # <<>> /\ h.kind = "authorized" /\ SetState(ws, r, then)
      /\ leaked' = leaked /\ UNCHANGED userVars
  BY DEF Authorized, Take, histVars
<1>2. /\ h \in GoodJob /\ r \in Seq(GoodJob)
      /\ JobsIn(jobs) = {h} \cup JobsIn(r)
      /\ \A x \in JobsIn(r) : MayFollow(h, x) /\ ~Alone(x)
      /\ Hiding(r, ws, page, sel, leaked)
      /\ page = "Liquidity" /\ ~leaked => \A x \in JobsIn(r) : x.kind # "indicators"
      /\ Held(r, ws, page, sel, leaked)
      /\ ~Updating(h) => Asked(r, ws, page, sel)
  BY <1>1, TakeJob
<1>3. h.arg \in BOOLEAN /\ g \in GoodJob /\ ws \in WsState
  BY <1>1, TakeFacts, DoTyped DEF Typed
<1>4. /\ g.kind = "timers" /\ Tag(g) = "timers" /\ g.kind \in QuietKinds /\ h.kind \in QuietKinds
      /\ h.arg = TRUE => Tag(h) = "authorized" /\ then = <<g>>
      /\ h.arg = FALSE => Tag(h) = "reauth" /\ then = <<>>
  BY <1>1 DEF Do, Tag, QuietKinds
<1>5. Asked(r, ws, page, sel)
  BY <1>2, <1>4, QuietJob
<1>6. \A x \in JobsIn(r) : Tag(x) \notin Onward
  <2>1. CASE h.arg = TRUE
    <3>1. Tag(h) \in Chain
      BY <1>4, <2>1 DEF Chain, OpenChain
    <3> QED BY <1>1, <3>1, NoneOnward
  <2>2. CASE h.arg = FALSE
    BY <1>2, <1>4, <2>2 DEF MayFollow, Apart
  <2> QED BY <1>3, <2>1, <2>2
<1> HIDE DEF h, r, g, then
<1>7. ASSUME NEW j \in GoodJob, NEW js \in Seq(GoodJob), then = <<j>>, Rendered(ws, page, sel, r, js)
      PROVE  /\ Fits(js, j, ws, page, sel, leaked) /\ j.kind # "hide"
             /\ ~leaked /\ (\E m \in JobsIn(js) : m.kind = "hide") /\ page \in Guarded /\ j.topic = page =>
                  ~Unsubscribing(j) /\ (Subscribing(j) => j.arg = Want(page, sel))
  <2>1. j = g /\ h.arg = TRUE /\ Tag(h) = "authorized"
    <3>1. <<j>> # <<>> /\ (<<j>> = <<g>> => j = g)
      OBVIOUS
    <3> QED BY <1>3, <1>4, <1>7, <3>1
  <2>2. ~Subscribing(j) /\ ~Unsubscribing(j) /\ j.kind # "indicators" /\ j.kind # "hide"
    BY <1>4, <2>1, QuietJob
  <2>3. /\ ws.isConnected /\ \A m \in JobsIn(r) : m.kind \in SubKinds => m.topic = page
    BY <1>2, <2>1 DEF PagesInv, Held, Starting, Onward
  <2>4. \A x \in JobsIn(r) : ~Subscribing(x) /\ Tag(x) \notin {"select", "hide", "indicators", "reauth", "unsubscribed"}
    BY <1>2, <2>1 DEF MayFollow, Apart, Onward
  <2>4a. \A x \in JobsIn(r) : ~Unsubscribing(x)
    BY <2>4 DEF Unsubscribing, Tag
  <2>5. page \in Guarded => Content(ws, page, sel)
    BY <1>5, <2>3, <2>4, <2>4a DEF Asked, Updating
  <2>6. \A x \in JobsIn(js) : x \in JobsIn(r) \/
           (~Subscribing(x) /\ x.kind = "subscribed" /\ Tag(x) = "subscribed" /\ ~Alone(x) /\ x.topic = page)
    <3>1. \A x \in JobsIn(js) : x \in JobsIn(r) \/ Fresh(ws, page, sel, x)
      BY <1>2, <1>7, RenderedNew
    <3> QED BY <2>3, <2>5, <3>1 DEF Fresh
  <2>7. ASSUME NEW x \in JobsIn(js) PROVE MayFollow(x, j)
    <3>1. /\ ~Subscribing(x) /\ Tag(x) \notin {"select", "hide", "indicators", "reauth", "unsubscribed"}
          /\ ~Alone(x) /\ Tag(x) \notin Onward
      BY <1>2, <1>6, <2>4, <2>6 DEF Onward
    <3>2. ~Alone(j)
      BY <1>4, <2>1 DEF Alone
    <3>3. Apart(x, j)
      BY <1>4, <2>1, <2>2, <3>1 DEF Apart
    <3>4. Apart(j, x)
      BY <1>4, <2>1, <2>2, <3>1 DEF Apart
    <3> QED BY <2>2, <3>1, <3>2, <3>3, <3>4 DEF MayFollow
  <2>8. Fits(js, j, ws, page, sel, leaked)
    BY <1>2, <1>4, <2>1, <2>2, <2>3, <2>6, <2>7, QuietFits
  <2> QED BY <2>2, <2>8
<1>8. \A x \in JobsIn(r) : ~Alone(x)
  BY <1>2
<1>9. then = <<>> \/ \E j \in GoodJob : then = <<j>>
  BY <1>3, <1>4
<1> QED BY <1>1, <1>2, <1>3, <1>6, <1>7, <1>8, <1>9, SetStatePages

LEMMA EmptyPages == Typed /\ SyncInv /\ PagesInv /\ Empty => PagesInv'
<1> SUFFICES ASSUME Typed, SyncInv, PagesInv, Empty PROVE PagesInv'
  OBVIOUS
<1> DEFINE h == Head(jobs)
           r == Tail(jobs)
           w == emptyState
           g == Do("replace", "", NoSel)
           then == IF h.arg THEN <<g>> ELSE <<>>
<1>1. /\ jobs # <<>> /\ h.kind = "empty" /\ SetState(w, r, then)
      /\ leaked' = FALSE /\ UNCHANGED userVars
  BY DEF Empty, Take
<1>2. /\ h \in GoodJob /\ r \in Seq(GoodJob) /\ Lined(r)
      /\ \A x \in JobsIn(r) : MayFollow(h, x) /\ ~Alone(x)
  BY <1>1, TakeJob
<1>3. /\ h.arg \in BOOLEAN /\ g \in GoodJob /\ w \in WsState
      /\ ~w.isConnected /\ \A t \in Topics : w.subscribed[t] = NoSel /\ w.data[t] = NoSel
  BY <1>1, TakeFacts, DoTyped DEF emptyState, WsState
<1>4. /\ g.kind = "replace" /\ Tag(g) = "replace" /\ g.kind \in QuietKinds /\ Tag(h) = "empty"
      /\ then = <<g>> \/ then = <<>>
  BY <1>1 DEF Do, Tag, QuietKinds
<1>5. Tag(h) \in Chain /\ Tag(h) \in Onward
  BY <1>4 DEF Chain, Onward
<1>6. \A x \in JobsIn(r) : Tag(x) \notin Onward
  BY <1>1, <1>5, NoneOnward
<1>7. \A t \in Guarded : w.subscribed[t] = NoSel /\ w.data[t] = NoSel
  BY <1>3 DEF Guarded
<1> HIDE DEF h, r, w, g, then
<1>8. \A x \in JobsIn(r) : ~Subscribing(x) /\ Tag(x) \notin {"select", "hide", "indicators", "reauth", "unsubscribed"}
  BY <1>2, <1>4, <1>5 DEF MayFollow, Apart
<1>9. \A x \in JobsIn(r) : ~Unsubscribing(x) /\ x.kind \notin {"indicators", "hide", "data"}
  BY <1>2, <1>8 DEF Unsubscribing, Tag, Alone
<1>10. {"auth", "authorized", "timers"} \subseteq Onward
  BY DEF Onward
<1>11. Held(r, w, page, sel, FALSE) /\ Hiding(r, w, page, sel, FALSE)
  <2>1. Backed(r, w)
    BY <1>3, <1>7, <1>8, <1>9 DEF Backed
  <2>2. LeftBehind(r, w, page, FALSE)
    BY <1>7, <1>8, <1>9 DEF LeftBehind
  <2>3. Starting(r, w, page, sel)
    BY <1>6, <1>10 DEF Starting
  <2>4. Book(r, w, page, FALSE)
    BY <1>7, <1>9, LiquidityGuarded DEF Book
  <2>5. Hiding(r, w, page, sel, FALSE)
    BY <1>9 DEF Hiding
  <2> QED BY <1>2, <2>1, <2>2, <2>3, <2>4, <2>5 DEF Held
<1>12. ASSUME NEW j \in GoodJob, NEW js \in Seq(GoodJob), then = <<j>>, Rendered(w, page, sel, r, js)
       PROVE  /\ Fits(js, j, w, page, sel, FALSE) /\ j.kind # "hide"
              /\ ~Unsubscribing(j) /\ ~Subscribing(j)
  <2>1. j = g
    <3>1. <<j>> # <<>> /\ (<<j>> = <<g>> => j = g)
      OBVIOUS
    <3> QED BY <1>4, <1>12, <3>1
  <2>2. ~Subscribing(j) /\ ~Unsubscribing(j) /\ j.kind # "indicators" /\ j.kind # "hide" /\ ~Alone(j)
    BY <1>4, <2>1, QuietJob DEF Alone
  <2>3. \A x \in JobsIn(js) : Tag(x) \notin Onward /\ ~Alone(x) /\ x.kind # "indicators"
    BY <1>2, <1>6, <1>9, <1>12, RenderedNew DEF Fresh
  <2>4. Tag(j) \notin Onward
    BY <1>4, <2>1 DEF Onward
  <2>5. ASSUME NEW x \in JobsIn(js) PROVE MayFollow(x, j)
    <3>1. Apart(x, j)
      BY <1>4, <2>1, <2>2 DEF Apart
    <3>2. Apart(j, x)
      BY <1>4, <2>1 DEF Apart, Onward
    <3> QED BY <2>2, <2>3, <3>1, <3>2 DEF MayFollow
  <2>6. Fits(js, j, w, page, sel, FALSE)
    BY <1>4, <1>10, <2>1, <2>2, <2>3, <2>4, <2>5, QuietFits
  <2> QED BY <2>2, <2>6
<1>13. \A x \in JobsIn(r) : ~Alone(x)
  BY <1>2
<1>14. then = <<>> \/ \E j \in GoodJob : then = <<j>>
  BY <1>3, <1>4
<1>15. \A x \in JobsIn(r) : x.kind # "indicators"
  BY <1>9
<1>16. Held(r, w, page, sel, leaked') /\ Hiding(r, w, page, sel, leaked')
  BY <1>1, <1>11
<1>17. \A j \in GoodJob, js \in Seq(GoodJob) :
          then = <<j>> /\ Rendered(w, page, sel, r, js) =>
            Fits(js, j, w, page, sel, leaked') /\ j.kind # "hide" /\ ~Unsubscribing(j) /\ ~Subscribing(j)
  BY <1>1, <1>12
<1> QED BY <1>1, <1>2, <1>3, <1>6, <1>13, <1>14, <1>15, <1>16, <1>17, SetStatePages

LEMMA SetDataPages == Typed /\ PagesInv /\ SetData => PagesInv'
<1> SUFFICES ASSUME Typed, PagesInv, SetData PROVE PagesInv'
  OBVIOUS
<1> DEFINE h == Head(jobs)
           t == h.topic
           a == h.arg
           w == [ws EXCEPT !.data[t] = a]
           g == Do("indicators", "", a)
           then == IF t = "Liquidity" THEN <<g>> ELSE <<>>
<1>1. /\ jobs # <<>> /\ h.kind = "data" /\ SetState(w, Tail(jobs), then)
      /\ leaked' = leaked /\ page' = page /\ sel' = sel /\ UNCHANGED userVars
  BY DEF SetData, Take, histVars, userVars
<1>2. Tail(jobs) = <<>> /\ JobsIn(jobs) = {h}
  <2>1. /\ Tail(jobs) \in Seq(GoodJob) /\ JobsIn(jobs) = {h} \cup JobsIn(Tail(jobs))
        /\ \A x \in JobsIn(Tail(jobs)) : MayFollow(h, x)
    BY <1>1, TakeJob
  <2>2. JobsIn(Tail(jobs)) = {}
    BY <1>1, <2>1 DEF MayFollow, Alone
  <2> QED BY <2>1, <2>2, NoneLeft
<1>3. t \in Topics /\ a \in Subs /\ ws \in WsState
  BY <1>1, TakeFacts DEF Typed
<1>4. w \in WsState /\ g \in GoodJob
  BY <1>3, WsTyped, DoTyped
<1>5. /\ w.isConnected = ws.isConnected /\ w.codes = ws.codes /\ w.indicators = ws.indicators
      /\ w.subscribed = ws.subscribed
      /\ w.data[t] = a /\ \A x \in Topics \ {t} : w.data[x] = ws.data[x]
  BY <1>3 DEF WsState
<1>6. g.kind = "indicators" /\ Tag(g) = "indicators" /\ g.arg = a /\ g.kind \in QuietKinds
  BY DEF Do, Tag, QuietKinds
<1>7. JobsIn(<<>>) = {} /\ Lined(<<>>) /\ <<>> \in Seq(GoodJob)
  BY DEF JobsIn, Lined
<1>7a. Guarded \subseteq Topics
  BY DEF Guarded
<1>7b. (t = "Liquidity" => then = <<g>>) /\ (t # "Liquidity" => then = <<>>)
  OBVIOUS
<1>7c. ~Subscribing(h) /\ ~Unsubscribing(h) /\ h.kind \notin {"hide", "indicators"}
  BY <1>1 DEF Subscribing, Unsubscribing, SubKinds
<1> HIDE DEF h, t, a, w, g, then
<1>8. t \in Guarded => ws.subscribed[t] # NoSel /\ (t = "Liquidity" => ws.codes = a)
  BY <1>1, <1>2 DEF PagesInv, Held, Backed, t, a
<1>9. Backed(<<>>, w)
  BY <1>2, <1>5, <1>7, <1>7a, <1>8 DEF PagesInv, Held, Backed
<1>10. LeftBehind(<<>>, w, page, leaked)
  BY <1>2, <1>5, <1>7, <1>7c DEF PagesInv, Held, LeftBehind
<1>11. CASE page = "Liquidity" /\ ~leaked /\ t = "Liquidity"
  <2>1. /\ page \in Guarded /\ ws.subscribed[page] # NoSel /\ ws.codes = a /\ ws.subscribed[page] = a
        /\ ws.isConnected
    BY <1>8, <1>11, LiquidityGuarded DEF PagesInv, Held, Book, Backed
  <2>2. Content(w, page, sel)
    <3>1. Content(ws, page, sel)
      BY <1>2, <1>7c, <2>1 DEF PagesInv, Asked, Updating
    <3> QED BY <1>5, <3>1 DEF Content
  <2>3. jobs' = <<g>> /\ ws' = w
    <3> DEFINE q == PageUpdate(w, page, sel, <<>>, up).jobs
    <3>1. Rendered(w, page, sel, <<>>, q)
      BY <1>4, PageAdds DEF Typed, UserTyped
    <3>2. ws' = w /\ jobs' = q \o <<g>>
      BY <1>1, <1>2, <1>7b, <1>11 DEF SetState
    <3> HIDE DEF q
    <3>3. q = <<>>
      BY <1>5, <2>1, <2>2, <3>1, AddsFacts DEF Rendered
    <3>4. <<>> \o <<g>> = <<g>>
      OBVIOUS
    <3> QED BY <3>2, <3>3, <3>4
  <2>4. JobsIn(<<g>>) = {g} /\ Lined(<<g>>) /\ Len(<<g>>) = 1
    BY NoJobs
  <2>5. ~Subscribing(g) /\ ~Unsubscribing(g) /\ Tag(g) \notin Onward /\ g.kind # "data" /\ g.topic \notin Guarded
    BY <1>4, <1>6, QuietJob DEF Onward
  <2>6. Backed(<<g>>, w) /\ LeftBehind(<<g>>, w, page, leaked)
    BY <1>7, <1>9, <1>10, <2>4, <2>5 DEF Backed, LeftBehind
  <2>7. Starting(<<g>>, w, page, sel)
    BY <2>4, <2>5 DEF Starting, Onward
  <2>8. Book(<<g>>, w, page, leaked)
    BY <1>5, <1>6, <1>11, <2>1, <2>4, <2>5 DEF Book
  <2>9. Asked(<<g>>, w, page, sel)
    BY <2>2 DEF Asked
  <2> QED BY <1>1, <2>3, <2>4, <2>6, <2>7, <2>8, <2>9, PagesNext DEF Held
<1>12. CASE ~(page = "Liquidity" /\ ~leaked /\ t = "Liquidity")
  <2>1. Book(<<>>, w, page, leaked)
    <3> SUFFICES ASSUME page = "Liquidity", ~leaked PROVE Book(<<>>, w, page, leaked)
      BY DEF Book
    <3>1. w.data["Liquidity"] = ws.data["Liquidity"]
      BY <1>5, <1>7a, <1>12, LiquidityGuarded
    <3> QED BY <1>2, <1>5, <1>7, <1>7c, <3>1 DEF PagesInv, Held, Book
  <2>2. Held(<<>>, w, page, sel, leaked) /\ Hiding(<<>>, w, page, sel, leaked)
    BY <1>7, <1>9, <1>10, <2>1 DEF Held, Starting, Hiding
  <2>3. ASSUME NEW j \in GoodJob, NEW js \in Seq(GoodJob), then = <<j>>, Rendered(w, page, sel, <<>>, js)
        PROVE  /\ Fits(js, j, w, page, sel, leaked) /\ j.kind # "hide"
               /\ ~Unsubscribing(j) /\ ~Subscribing(j)
    <3>1. j = g /\ t = "Liquidity"
      <4>1. <<j>> # <<>> /\ (<<j>> = <<g>> => j = g)
        OBVIOUS
      <4> QED BY <1>7b, <2>3, <4>1
    <3>2. /\ ~Subscribing(j) /\ ~Unsubscribing(j) /\ ~Alone(j) /\ j.kind # "data" /\ j.kind \notin SubKinds
          /\ j.topic \notin Guarded /\ j.kind # "hide"
      BY <1>6, <3>1, QuietJob DEF Alone
    <3>3. Tag(j) \notin Onward /\ Tag(j) \notin {"auth", "authorized", "timers"}
      BY <1>6, <3>1 DEF Onward
    <3>4. \A x \in JobsIn(js) : Fresh(w, page, sel, x)
      BY <1>7, <2>3, RenderedNew
    <3>5. ASSUME NEW x \in JobsIn(js) PROVE MayFollow(x, j)
      <4>1. Tag(x) \notin Onward /\ ~Alone(x) /\ x.kind # "hide"
        BY <3>4 DEF Fresh
      <4>2. Apart(x, j)
        BY <3>2, <4>1 DEF Apart
      <4>3. Apart(j, x)
        BY <3>2, <3>3 DEF Apart, Onward
      <4> QED BY <3>2, <4>1, <4>2, <4>3 DEF MayFollow
    <3>6. \A x \in JobsIn(js) : Tag(x) \notin Onward
      BY <3>4 DEF Fresh
    <3>7. Fits(js, j, w, page, sel, leaked)
      BY <1>12, <3>1, <3>2, <3>3, <3>5, <3>6 DEF Fits, Onward
    <3> QED BY <3>2, <3>7
  <2>4. then = <<>> \/ \E j \in GoodJob : then = <<j>>
    BY <1>4, <1>7b
  <2> DEFINE r == Tail(jobs)
  <2>5. r = <<>>
    BY <1>2
  <2>5a. SetState(w, r, then)
    BY <1>1
  <2> HIDE DEF r
  <2>6. /\ r \in Seq(GoodJob) /\ JobsIn(r) = {}
        /\ Held(r, w, page, sel, leaked') /\ Hiding(r, w, page, sel, leaked')
    BY <1>1, <1>7, <2>2, <2>5
  <2>7. \A j \in GoodJob, js \in Seq(GoodJob) :
           then = <<j>> /\ Rendered(w, page, sel, r, js) =>
             Fits(js, j, w, page, sel, leaked') /\ j.kind # "hide" /\ ~Unsubscribing(j) /\ ~Subscribing(j)
    BY <1>1, <2>3, <2>5
  <2>8. /\ \A x \in JobsIn(r) : ~Alone(x) /\ Tag(x) \notin Onward /\ x.kind # "indicators"
        /\ UNCHANGED userVars
    BY <1>1, <2>6
  <2> QED BY <1>4, <2>4, <2>5a, <2>6, <2>7, <2>8, SetStatePages
<1> QED BY <1>11, <1>12

LEMMA SetIndicatorsPages == Typed /\ PagesInv /\ SetIndicators => PagesInv'
<1> SUFFICES ASSUME Typed, PagesInv, SetIndicators PROVE PagesInv'
  OBVIOUS
<1> DEFINE h == Head(jobs)
           r == Tail(jobs)
           w == [ws EXCEPT !.indicators = h.arg]
<1>1. /\ jobs # <<>> /\ h.kind = "indicators" /\ SetState(w, r, <<>>)
      /\ leaked' = leaked /\ UNCHANGED userVars
  BY DEF SetIndicators, Take, histVars
<1>2. /\ h \in GoodJob /\ r \in Seq(GoodJob) /\ Lined(r)
      /\ JobsIn(jobs) = {h} \cup JobsIn(r)
      /\ \A x \in JobsIn(r) : MayFollow(h, x) /\ ~Alone(x)
      /\ Hiding(r, ws, page, sel, leaked)
      /\ page = "Liquidity" /\ ~leaked => \A x \in JobsIn(r) : x.kind # "indicators"
  BY <1>1, TakeJob
<1>3. h.arg \in Subs /\ ws \in WsState
  BY <1>1, TakeFacts DEF Typed
<1>4. /\ w \in WsState /\ w.isConnected = ws.isConnected /\ w.codes = ws.codes /\ w.indicators = h.arg
      /\ w.subscribed = ws.subscribed /\ w.data = ws.data
  BY <1>3 DEF WsState
<1>5. Tag(h) = "indicators" /\ ~Unsubscribing(h) /\ ~Subscribing(h)
  BY <1>1 DEF Tag, Unsubscribing, Subscribing, SubKinds
<1> HIDE DEF h, r, w
<1>6. \A x \in JobsIn(r) : Tag(x) \notin Onward
  BY <1>2, <1>5 DEF MayFollow, Apart
<1>7. Backed(r, w)
  BY <1>2, <1>4 DEF PagesInv, Held, Backed
<1>8. LeftBehind(r, w, page, leaked)
  BY <1>2, <1>4, <1>5 DEF PagesInv, Held, LeftBehind
<1>9. Starting(r, w, page, sel)
  BY <1>6 DEF Starting, Onward
<1>10. Book(r, w, page, leaked)
  BY <1>1, <1>2, <1>4 DEF PagesInv, Held, Book
<1>11. Held(r, w, page, sel, leaked)
  BY <1>2, <1>7, <1>8, <1>9, <1>10 DEF Held
<1>12. Hiding(r, w, page, sel, leaked)
  BY <1>2, <1>4 DEF Hiding, Steady
<1>13. \A x \in JobsIn(r) : ~Alone(x)
  BY <1>2
<1>14. \A j \in GoodJob : <<>> # <<j>>
  OBVIOUS
<1> QED BY <1>1, <1>2, <1>4, <1>6, <1>11, <1>12, <1>13, <1>14, SetStatePages

LEMMA ApplySelectionPages == Typed /\ PagesInv /\ ApplySelection => PagesInv'
<1> SUFFICES ASSUME Typed, PagesInv, ApplySelection PROVE PagesInv'
  OBVIOUS
<1> DEFINE h == Head(jobs)
           r == Tail(jobs)
           s == h.arg
           q == PageUpdate(ws, page, s, r, up).jobs
<1>1. /\ jobs # <<>> /\ h.kind = "select" /\ jobs' = q
      /\ ws' = ws /\ leaked' = leaked /\ page' = page /\ sel' = s
  BY DEF ApplySelection, Take, histVars
<1>2. /\ h \in GoodJob /\ r \in Seq(GoodJob)
      /\ \A x \in JobsIn(r) : MayFollow(h, x) /\ ~Alone(x)
      /\ page = "Liquidity" /\ ~leaked => \A x \in JobsIn(r) : x.kind # "indicators"
      /\ Held(r, ws, page, sel, leaked)
  BY <1>1, TakeJob
<1>3. s \in Sels \cup {NoSel} /\ ws \in WsState /\ page \in Pages
  BY <1>1, TakeFacts DEF Typed, UserTyped
<1>4. Tag(h) = "select"
  BY <1>1 DEF Tag
<1>5. Rendered(ws, page, s, r, q)
  BY <1>3, PageAdds
<1> HIDE DEF h, r, s, q
<1>6. \A x \in JobsIn(r) : Tag(x) \notin Onward /\ x.kind # "hide"
  BY <1>1, <1>2, <1>4 DEF MayFollow, Apart
<1>7. Held(r, ws, page, s, leaked) /\ Hiding(r, ws, page, s, leaked)
  <2>1. Starting(r, ws, page, s) /\ Hiding(r, ws, page, s, leaked)
    BY <1>6 DEF Starting, Hiding, Onward
  <2> QED BY <1>2, <2>1 DEF Held
<1>8. \A x \in JobsIn(r) : ~Alone(x)
  BY <1>2
<1>9. Held(q, ws, page, s, leaked) /\ Hiding(q, ws, page, s, leaked) /\ Asked(q, ws, page, s)
  BY <1>2, <1>3, <1>5, <1>6, <1>7, <1>8, PageActs
<1> QED BY <1>1, <1>9, PagesNext

LEMMA UnmountAdds ==
    ASSUME NEW w, NEW p, NEW js, NEW q
    PROVE  LET js2 == PageUnmount(w, p, js, q).jobs
           IN  \/ js2 = js /\ (p \in Guarded => ~w.isConnected \/ w.subscribed[p] = NoSel)
               \/ p \in Topics /\ js2 = Append(js, Do("unsubscribed", p, NoSel))
BY DEF PageUnmount, Effect, Guarded

LEMMA HideNowPages == Typed /\ PagesInv /\ HideNow => PagesInv'
<1> SUFFICES ASSUME Typed, PagesInv, HideNow PROVE PagesInv'
  OBVIOUS
<1> DEFINE h == Head(jobs)
           r == Tail(jobs)
           u == Do("unsubscribed", page, NoSel)
           q == PageUnmount(ws, page, r, up).jobs
<1>1. /\ jobs # <<>> /\ h.kind = "hide" /\ jobs' = q
      /\ ws' = ws /\ page' = "Other" /\ sel' = sel
      /\ leaked' = (leaked \/ \E i \in DOMAIN jobs : jobs[i].kind \in SubKinds)
  BY DEF HideNow, Take, SubKinds
<1>2. /\ h \in GoodJob /\ r \in Seq(GoodJob) /\ Lined(r)
      /\ JobsIn(jobs) = {h} \cup JobsIn(r)
      /\ \A x \in JobsIn(r) : MayFollow(h, x) /\ ~Alone(x)
      /\ Held(r, ws, page, sel, leaked)
  BY <1>1, TakeJob
<1>3. \/ q = r /\ (page \in Guarded => ~ws.isConnected \/ ws.subscribed[page] = NoSel)
      \/ page \in Topics /\ q = Append(r, u)
  BY UnmountAdds
<1>4. Tag(h) = "hide"
  BY <1>1 DEF Tag
<1>5. page \in Topics => u \in GoodJob
  BY DoTyped
<1>6. u.kind = "unsubscribed" /\ u.topic = page /\ u.arg = NoSel /\ Tag(u) = "unsubscribed" /\ ~Subscribing(u)
  BY DEF Do, Tag, Subscribing, SubKinds
<1>7. page \in Guarded => Unsubscribing(u)
  BY <1>6 DEF Unsubscribing
<1>8. ~leaked' => ~leaked /\ \A x \in JobsIn(jobs) : x.kind \notin SubKinds
  BY <1>1 DEF JobsIn
<1>9. "Other" \notin Guarded
  BY TopicsAssumption DEF Guarded, AllTopics
<1> HIDE DEF h, r, u, q
<1>10. \A x \in JobsIn(r) : Tag(x) \notin Onward
  BY <1>2, <1>4 DEF MayFollow, Apart
<1>11. /\ JobsIn(r) \subseteq JobsIn(q) /\ JobsIn(q) \subseteq JobsIn(r) \cup {u}
       /\ page \in Guarded /\ ws.subscribed[page] # NoSel => u \in JobsIn(q)
       /\ Lined(q)
  <2>1. page \in Guarded /\ ~ws.isConnected => ws.subscribed[page] = NoSel
    BY <1>2 DEF Held, Backed
  <2>2. CASE q = r /\ (page \in Guarded => ~ws.isConnected \/ ws.subscribed[page] = NoSel)
    BY <1>2, <2>1, <2>2
  <2>3. CASE page \in Topics /\ q = Append(r, u)
    <3>1. ASSUME NEW x \in JobsIn(r) PROVE MayFollow(x, u)
      <4>1. ~Alone(x) /\ ~Alone(u) /\ Tag(x) \notin Onward
        BY <1>2, <1>6, <1>10 DEF Alone
      <4>2. Apart(x, u) /\ Apart(u, x)
        BY <1>6, <4>1 DEF Apart, Onward
      <4> QED BY <1>6, <4>1, <4>2 DEF MayFollow, Onward
    <3> QED BY <1>2, <1>5, <2>3, <3>1, OneMore
  <2> QED BY <1>3, <2>2, <2>3
<1>12. Backed(q, ws)
  BY <1>2, <1>6, <1>11 DEF Held, Backed
<1>13. LeftBehind(q, ws, "Other", leaked')
  <2> SUFFICES ASSUME ~leaked', NEW t \in Guarded
               PROVE  /\ \A j \in JobsIn(q) : j.topic = t =>
                            ~Subscribing(j) /\ (Unsubscribing(j) => j.arg = NoSel)
                      /\ ws.subscribed[t] = NoSel \/ \E j \in JobsIn(q) : Unsubscribing(j) /\ j.topic = t
    BY DEF LeftBehind
  <2>1. ~leaked /\ \A x \in JobsIn(jobs) : x.kind \notin SubKinds
    BY <1>8
  <2>2. CASE t # page
    BY <1>2, <1>6, <1>11, <2>1, <2>2 DEF Held, LeftBehind
  <2>3. CASE t = page
    <3>1. \A x \in JobsIn(r) : x.topic = page => ~Unsubscribing(x)
      <4>1. JobsIn(r) = {} \/ Steady(jobs, ws, page, sel)
        BY <1>1, <1>2, <2>1, TakeJob, OneLess DEF PagesInv, Hiding, Typed, r
      <4> QED BY <1>2, <2>3, <4>1 DEF Steady
    <3>2. \A x \in JobsIn(r) : ~Subscribing(x)
      BY <1>2, <2>1 DEF Subscribing
    <3> QED BY <1>6, <1>7, <1>11, <2>3, <3>1, <3>2
  <2> QED BY <2>2, <2>3
<1>14. Starting(q, ws, "Other", sel)
  <2>1. \A x \in JobsIn(q) : Tag(x) \notin Onward
    BY <1>6, <1>10, <1>11 DEF Onward
  <2> QED BY <2>1 DEF Starting, Onward
<1>15. Book(q, ws, "Other", leaked')
  BY DEF Book
<1>16. Asked(q, ws, "Other", sel) /\ Hiding(q, ws, "Other", sel, leaked')
  BY <1>9 DEF Asked, Hiding, Steady
<1>17. Held(q, ws, "Other", sel, leaked')
  BY <1>11, <1>12, <1>13, <1>14, <1>15 DEF Held
<1> QED BY <1>1, <1>16, <1>17, PagesNext

LEMMA YieldPages == Typed /\ PagesInv /\ Yield => PagesInv'
<1> SUFFICES ASSUME Typed, PagesInv, Yield PROVE PagesInv'
  OBVIOUS
<1> DEFINE h == Head(jobs)
           r == Tail(jobs)
<1>1. /\ Len(jobs) > 1 /\ h.kind \in Slow /\ jobs' = Append(r, h)
      /\ ws' = ws /\ page' = page /\ sel' = sel /\ leaked' = leaked
  BY DEF Yield, userVars, histVars
<1>2. jobs # <<>> /\ jobs \in Seq(GoodJob) /\ Len(jobs) # 1
  BY <1>1 DEF Typed
<1>2a. Len(Append(r, h)) = Len(jobs)
  BY <1>2
<1>3. /\ h \in GoodJob /\ r \in Seq(GoodJob) /\ Lined(r)
      /\ JobsIn(jobs) = {h} \cup JobsIn(r)
      /\ \A x \in JobsIn(r) : MayFollow(h, x)
  BY <1>2, TakeJob
<1> HIDE DEF h, r
<1>4. JobsIn(jobs') = JobsIn(jobs) /\ ((\A x \in JobsIn(r) : MayFollow(x, h)) => Lined(jobs'))
  BY <1>1, <1>3, OneMore
<1>5. Tag(h) = h.kind \/ Tag(h) = "reauth"
  BY DEF Tag
<1>6. ASSUME NEW x \in JobsIn(r) PROVE MayFollow(x, h)
  <2>1. ~Alone(x) /\ ~Alone(h) /\ Apart(x, h) /\ Apart(h, x)
    BY <1>3 DEF MayFollow
  <2>2. Subscribing(h) => h.kind = "resubscribe"
    BY <1>1 DEF Subscribing, Slow, SubKinds
  <2>3. Tag(x) \in {"auth", "authorized"} => ~Subscribing(h)
    BY <2>1, <2>2 DEF Apart
  <2> QED BY <2>1, <2>3 DEF MayFollow
<1>7. Len(jobs') = Len(jobs) /\ Lined(jobs')
  BY <1>1, <1>2a, <1>4, <1>6
<1>8. Backed(jobs', ws) /\ LeftBehind(jobs', ws, page, leaked)
  BY <1>4 DEF PagesInv, Held, Backed, LeftBehind
<1>9. Steady(jobs', ws, page, sel) <=> Steady(jobs, ws, page, sel)
  BY <1>4 DEF Steady
<1>10. Starting(jobs', ws, page, sel)
  BY <1>4, <1>9 DEF PagesInv, Held, Starting
<1>11. Book(jobs', ws, page, leaked)
  BY <1>4, <1>7 DEF PagesInv, Held, Book
<1>12. Asked(jobs', ws, page, sel) /\ Hiding(jobs', ws, page, sel, leaked)
  BY <1>2, <1>4, <1>9 DEF PagesInv, Asked, Hiding
<1> QED BY <1>1, <1>7, <1>8, <1>10, <1>11, <1>12, PagesNext DEF Held

-----------------------------------------------------------------------------
(* The tasks. *)

LEMMA NothingHeld ==
    ASSUME NEW p, NEW s, NEW lk
    PROVE  /\ Held(<<>>, emptyState, p, s, lk) /\ Hiding(<<>>, emptyState, p, s, lk)
           /\ Asked(<<>>, emptyState, p, s)
<1> DEFINE w == emptyState
<1>1. ~w.isConnected /\ \A t \in Guarded : w.subscribed[t] = NoSel /\ w.data[t] = NoSel
  BY DEF emptyState, Guarded
<1>2. JobsIn(<<>>) = {} /\ Lined(<<>>)
  BY DEF JobsIn, Lined
<1> HIDE DEF w
<1>3. Backed(<<>>, w) /\ LeftBehind(<<>>, w, p, lk) /\ Starting(<<>>, w, p, s)
  BY <1>1, <1>2 DEF Backed, LeftBehind, Starting
<1>4. Book(<<>>, w, p, lk) /\ Hiding(<<>>, w, p, s, lk) /\ Asked(<<>>, w, p, s)
  BY <1>1, <1>2, LiquidityGuarded DEF Book, Hiding, Asked
<1> QED BY <1>2, <1>3, <1>4 DEF Held, w

LEMMA RestFacts ==
    ASSUME Typed, PagesInv, jobs = <<>>
    PROVE  /\ Held(<<>>, ws, page, sel, leaked) /\ Asked(<<>>, ws, page, sel)
           /\ <<>> \in Seq(GoodJob) /\ JobsIn(<<>>) = {}
           /\ ~leaked => \A t \in Guarded \ {page} : ws.subscribed[t] = NoSel
<1>1. Held(<<>>, ws, page, sel, leaked) /\ Asked(<<>>, ws, page, sel)
  BY DEF PagesInv
<1>2. <<>> \in Seq(GoodJob) /\ JobsIn(<<>>) = {}
  BY DEF JobsIn
<1>3. ~leaked => \A t \in Guarded \ {page} : ws.subscribed[t] = NoSel
  BY <1>1, <1>2 DEF Held, LeftBehind
<1> QED BY <1>1, <1>2, <1>3

(* A task that leaves one quiet job behind. *)
LEMMA RestQuiet ==
    ASSUME Typed, PagesInv, jobs = <<>>, UNCHANGED <<ws, userVars, leaked>>,
           NEW j \in GoodJob, jobs' = <<j>>, j.kind \in QuietKinds, j.kind # "indicators",
           Tag(j) \notin {"auth", "authorized", "timers"}
    PROVE  PagesInv'
<1>1. ws' = ws /\ page' = page /\ sel' = sel /\ leaked' = leaked
  BY DEF userVars
<1> DEFINE e == <<>>
<1>2. /\ Held(e, ws, page, sel, leaked) /\ Asked(e, ws, page, sel) /\ e \in Seq(GoodJob) /\ JobsIn(e) = {}
      /\ jobs' = Append(e, j) /\ Len(jobs') = 1
  BY RestFacts
<1> HIDE DEF e
<1>3. Fits(e, j, ws, page, sel, leaked)
  BY <1>2, QuietFits
<1>4. Held(jobs', ws, page, sel, leaked) /\ Asked(jobs', ws, page, sel)
  BY <1>2, <1>3, AddJob, AddedAsked
<1> QED BY <1>1, <1>2, <1>4, PagesNext

LEMMA ReceiveUpdatePages == Typed /\ PagesInv /\ ReceiveUpdate => PagesInv'
<1> SUFFICES ASSUME Typed, PagesInv, ReceiveUpdate PROVE PagesInv'
  OBVIOUS
<1> DEFINE m == Head(down)
           j == Do("data", m.topic, m.arg)
<1>1. /\ jobs = <<>> /\ ws' = ws /\ page' = page /\ sel' = sel /\ leaked' = leaked /\ UNCHANGED userVars
      /\ jobs' = IF Accepts(ws, m.topic, m.arg) THEN <<j>> ELSE <<>>
  BY DEF ReceiveUpdate, AtRest, userVars, histVars
<1>2. j.kind = "data" /\ j.topic = m.topic /\ j.arg = m.arg /\ Tag(j) = "data"
  BY DEF Do, Tag
<1> HIDE DEF m, j
<1>3. CASE ~Accepts(ws, m.topic, m.arg)
  BY <1>1, <1>3, PagesSame
<1>4. CASE Accepts(ws, m.topic, m.arg)
  <2>1. Held(<<>>, ws, page, sel, leaked) /\ Asked(<<>>, ws, page, sel) /\ JobsIn(<<>>) = {}
    BY <1>1, RestFacts
  <2>2. JobsIn(<<j>>) = {j} /\ Lined(<<j>>) /\ Len(<<j>>) = 1
    BY NoJobs
  <2>3. ~Subscribing(j) /\ ~Unsubscribing(j) /\ Tag(j) \notin Onward /\ j.kind # "indicators"
    BY <1>2 DEF Subscribing, Unsubscribing, SubKinds, Onward
  <2>4. ws.subscribed[j.topic] # NoSel /\ (j.topic = "Liquidity" => ws.codes = j.arg)
    BY <1>2, <1>4 DEF Accepts
  <2>5. Backed(<<j>>, ws)
    BY <2>1, <2>2, <2>3, <2>4 DEF Held, Backed
  <2>6. LeftBehind(<<j>>, ws, page, leaked)
    BY <2>1, <2>2, <2>3 DEF Held, LeftBehind
  <2>7. Starting(<<j>>, ws, page, sel)
    BY <2>2, <2>3 DEF Starting, Onward
  <2>8. Book(<<j>>, ws, page, leaked)
    BY <2>1, <2>2, <2>3 DEF Held, Book
  <2>9. Asked(<<j>>, ws, page, sel)
    BY <2>1 DEF Asked
  <2>10. jobs' = <<j>>
    BY <1>1, <1>4
  <2> QED BY <1>1, <2>2, <2>5, <2>6, <2>7, <2>8, <2>9, <2>10, PagesNext DEF Held
<1> QED BY <1>3, <1>4

LEMMA EventsPages == Typed /\ PagesInv /\ Events => PagesInv'
<1> SUFFICES ASSUME Typed, PagesInv, Events PROVE PagesInv'
  OBVIOUS
<1>1. CASE Dies \/ PingTimer \/ PongGetsOld \/ ReceivePong \/ ReceiveAuthorized \/ TokenExpires
  <2>1. UNCHANGED <<jobs, ws, userVars, leaked>>
    BY <1>1 DEF Dies, PingTimer, PongGetsOld, ReceivePong, ReceiveAuthorized, TokenExpires, histVars
  <2> QED BY <2>1, PagesSame
<1>2. CASE Opened
  <2> DEFINE j == Do("connected", "", NoSel)
  <2>1. jobs = <<>> /\ jobs' = <<j>> /\ UNCHANGED <<ws, userVars, leaked>>
    BY <1>2 DEF Opened, AtRest, histVars
  <2>2. j \in GoodJob /\ j.kind = "connected" /\ Tag(j) = "connected"
    BY DoTyped DEF Do, Tag
  <2> HIDE DEF j
  <2> QED BY <2>1, <2>2, RestQuiet DEF QuietKinds
<1>3. CASE Breaks \/ OldSocketCloses \/ Reconnect
  <2> DEFINE j == Do("empty", "", FALSE)
  <2>1. jobs = <<>> /\ jobs' = <<j>> /\ UNCHANGED <<ws, userVars, leaked>>
    BY <1>3 DEF Breaks, OldSocketCloses, Reconnect, OnClose, AtRest, histVars
  <2>2. j \in GoodJob /\ j.kind = "empty" /\ Tag(j) = "empty"
    BY DoTyped DEF Do, Tag
  <2> HIDE DEF j
  <2> QED BY <2>1, <2>2, RestQuiet DEF QuietKinds
<1>4. CASE HbTimer
  <2> DEFINE j == Do("empty", "", TRUE)
  <2>1. jobs = <<>> /\ UNCHANGED <<ws, userVars, leaked>> /\ (jobs' = <<>> \/ jobs' = <<j>>)
    <3>1. Append(<<>>, j) = <<j>>
      OBVIOUS
    <3>2. jobs' = <<>> \/ jobs' = Append(<<>>, j)
      BY <1>4 DEF HbTimer, HbGivesUp, HbGoesOn
    <3> QED BY <1>4, <3>1, <3>2 DEF HbTimer, AtRest, histVars
  <2>2. j \in GoodJob /\ j.kind = "empty" /\ Tag(j) = "empty"
    BY DoTyped DEF Do, Tag
  <2> HIDE DEF j
  <2>3. CASE jobs' = <<>>
    BY <2>1, <2>3, PagesSame
  <2>4. CASE jobs' = <<j>>
    BY <2>1, <2>2, <2>4, RestQuiet DEF QuietKinds
  <2> QED BY <2>1, <2>3, <2>4
<1>5. CASE Refreshed
  <2> DEFINE j == Do("auth", "", FALSE)
  <2>1. jobs = <<>> /\ jobs' = <<j>> /\ UNCHANGED <<ws, userVars, leaked>>
    BY <1>5 DEF Refreshed, AtRest, histVars
  <2>2. j \in GoodJob /\ j.kind = "auth" /\ Tag(j) = "reauth"
    BY DoTyped DEF Do, Tag
  <2> HIDE DEF j
  <2> QED BY <2>1, <2>2, RestQuiet DEF QuietKinds
<1>6. CASE RefreshFails
  <2>1. ws' = emptyState /\ jobs' = <<>>
    BY <1>6 DEF RefreshFails, Leave
  <2> QED BY <2>1, NothingHeld, PagesNext
<1> QED BY <1>1, <1>2, <1>3, <1>4, <1>5, <1>6, ReceiveUpdatePages DEF Events

LEMMA ServerPages == Typed /\ PagesInv /\ Server => PagesInv'
<1> SUFFICES ASSUME Typed, PagesInv, Server PROVE PagesInv'
  OBVIOUS
<1>1. UNCHANGED <<jobs, ws, userVars, leaked>>
  BY DEF Server, SrvAuth, SrvPing, SrvSubscribe, SrvPublish, histVars
<1> QED BY <1>1, PagesSame

LEMMA SelectPages ==
    ASSUME Typed, PagesInv, NEW s \in Sels, NEW between \in Sels \cup {NoSel}, Select(s, between)
    PROVE  PagesInv'
<1> DEFINE g == Do("select", "", s)
           b == Do("select", "", between)
<1>1. /\ jobs = <<>> /\ UNCHANGED <<ws, userVars, leaked>>
      /\ ws' = ws /\ page' = page /\ sel' = sel /\ leaked' = leaked
      /\ jobs' = (IF between = NoSel THEN <<>> ELSE <<b>>) \o <<g>>
  BY DEF Select, UserMayAct, AtRest, userVars, histVars
<1>2. /\ g \in GoodJob /\ g.kind = "select" /\ Tag(g) = "select" /\ g.kind \in QuietKinds
      /\ between # NoSel => b \in GoodJob /\ b.kind = "select" /\ Tag(b) = "select" /\ b.kind \in QuietKinds
  BY DoTyped DEF Do, Tag, QuietKinds
<1> HIDE DEF g, b
<1>3. <<>> \o <<g>> = <<g>> /\ <<b>> = Append(<<>>, b)
  OBVIOUS
<1>3a. between # NoSel => <<b>> \o <<g>> = Append(<<b>>, g)
  <2>1. between # NoSel => <<b>> \in Seq(GoodJob)
    BY <1>2
  <2> QED BY <1>2, <2>1, ConcatOne
<1>4. CASE between = NoSel
  <2>1. jobs' = <<g>>
    BY <1>1, <1>3, <1>4
  <2> QED BY <1>1, <1>2, <2>1, RestQuiet
<1>5. CASE between # NoSel
  <2> DEFINE e == <<>>
             o == <<b>>
  <2>1. /\ Held(e, ws, page, sel, leaked) /\ Asked(e, ws, page, sel) /\ e \in Seq(GoodJob) /\ JobsIn(e) = {}
    BY <1>1, RestFacts
  <2>2. o = Append(e, b) /\ jobs' = Append(o, g)
    BY <1>1, <1>3, <1>3a, <1>5
  <2> HIDE DEF e, o
  <2>3. Fits(e, b, ws, page, sel, leaked)
    BY <1>2, <1>5, <2>1, QuietFits
  <2>4. Held(o, ws, page, sel, leaked) /\ Asked(o, ws, page, sel) /\ o \in Seq(GoodJob) /\ JobsIn(o) = {b}
    BY <1>2, <1>5, <2>1, <2>2, <2>3, AddJob, AddedAsked, OneMore, AppendTyped
  <2>5. MayFollow(b, g)
    <3>1. ~Subscribing(g) /\ ~Subscribing(b) /\ ~Alone(g) /\ ~Alone(b)
      BY <1>2, <1>5, QuietJob DEF Alone
    <3>2. Apart(b, g) /\ Apart(g, b)
      BY <1>2, <1>5, <3>1 DEF Apart, Onward
    <3> QED BY <3>1, <3>2 DEF MayFollow
  <2>6. Fits(o, g, ws, page, sel, leaked)
    BY <1>2, <1>5, <2>4, <2>5, QuietFits DEF Onward
  <2>7. Held(jobs', ws, page, sel, leaked) /\ Asked(jobs', ws, page, sel) /\ JobsIn(jobs') = {b, g}
    <3>1. JobsIn(jobs') = {b} \cup {g}
      BY <1>2, <2>2, <2>4, OneMore
    <3>2. Held(jobs', ws, page, sel, leaked) /\ Asked(jobs', ws, page, sel)
      BY <1>2, <2>2, <2>4, <2>6, AddJob, AddedAsked
    <3> QED BY <3>1, <3>2
  <2>8. Hiding(jobs', ws, page, sel, leaked)
    BY <1>2, <1>5, <2>7 DEF Hiding
  <2> QED BY <1>1, <2>7, <2>8, PagesNext
<1> QED BY <1>4, <1>5

(* A link: what the page that is left adds, then the new one, then a hide. *)
LEMMA OpenPages ==
    ASSUME Typed, PagesInv, NEW p \in Pages, NEW withInterval \in BOOLEAN, Open(p, withInterval)
    PROVE  PagesInv'
<1> DEFINE u == Do("unsubscribed", page, NoSel)
           g == Do("hide", "", NoSel)
           r == PageUnmount(ws, page, <<>>, up).jobs
           q == PageUpdate(ws, p, sel, r, PageUnmount(ws, page, <<>>, up).up).jobs
<1>1. /\ jobs = <<>> /\ p # page /\ ws' = ws /\ page' = p /\ sel' = sel /\ leaked' = leaked
      /\ jobs' = q \o (IF withInterval THEN <<g>> ELSE <<>>)
  BY DEF Open, UserMayAct, AtRest, userVars, histVars
<1>2. /\ Held(<<>>, ws, page, sel, leaked) /\ <<>> \in Seq(GoodJob) /\ JobsIn(<<>>) = {} /\ Lined(<<>>)
      /\ ~leaked => \A t \in Guarded \ {page} : ws.subscribed[t] = NoSel
  BY <1>1, RestFacts DEF Held
<1>3. ws \in WsState /\ sel \in Sels \cup {NoSel}
  BY DEF Typed, UserTyped
<1>4. /\ u.kind = "unsubscribed" /\ u.topic = page /\ u.arg = NoSel /\ Tag(u) = "unsubscribed"
      /\ ~Subscribing(u) /\ ~Alone(u) /\ (page \in Guarded => Unsubscribing(u)) /\ (page \in Topics => u \in GoodJob)
  BY DoTyped DEF Do, Tag, Subscribing, Unsubscribing, SubKinds, Alone
<1>5. g \in GoodJob /\ g.kind = "hide" /\ Tag(g) = "hide" /\ g.kind \in QuietKinds
  BY DoTyped DEF Do, Tag, QuietKinds
<1>6. \/ r = <<>> /\ (page \in Guarded => ~ws.isConnected \/ ws.subscribed[page] = NoSel)
      \/ page \in Topics /\ r = Append(<<>>, u)
  BY UnmountAdds
<1>7. Rendered(ws, p, sel, r, q)
  BY <1>3, PageAdds
<1> HIDE DEF u, g, r, q
<1>8. /\ r \in Seq(GoodJob) /\ JobsIn(r) \subseteq {u} /\ Lined(r)
      /\ page \in Guarded /\ ws.subscribed[page] # NoSel => u \in JobsIn(r)
  <2>1. page \in Guarded /\ ~ws.isConnected => ws.subscribed[page] = NoSel
    BY <1>2 DEF Held, Backed
  <2>2. CASE r = <<>> /\ (page \in Guarded => ~ws.isConnected \/ ws.subscribed[page] = NoSel)
    BY <1>2, <2>1, <2>2, Zenon
  <2>3. CASE page \in Topics /\ r = Append(<<>>, u)
    <3>1. r = <<u>> /\ r \in Seq(GoodJob)
      BY <1>4, <2>3
    <3>2. JobsIn(<<u>>) = {u} /\ Lined(<<u>>)
      BY NoJobs
    <3>3. JobsIn(r) = {u} /\ Lined(r)
      BY <3>1, <3>2
    <3> QED BY <3>1, <3>3
  <2> QED BY <1>6, <2>2, <2>3
<1>9. Held(r, ws, p, sel, leaked) /\ Hiding(r, ws, p, sel, leaked)
  <2>1. Backed(r, ws)
    BY <1>2, <1>4, <1>8 DEF Held, Backed
  <2>2. LeftBehind(r, ws, p, leaked)
    <3> SUFFICES ASSUME ~leaked, NEW t \in Guarded \ {p}
                 PROVE  /\ \A j \in JobsIn(r) : j.topic = t =>
                              ~Subscribing(j) /\ (Unsubscribing(j) => j.arg = NoSel)
                        /\ ws.subscribed[t] = NoSel \/ \E j \in JobsIn(r) : Unsubscribing(j) /\ j.topic = t
      BY DEF LeftBehind
    <3> QED BY <1>2, <1>4, <1>8
  <2>3. Starting(r, ws, p, sel) /\ Hiding(r, ws, p, sel, leaked)
    BY <1>4, <1>8 DEF Starting, Hiding, Onward
  <2>4. Book(r, ws, p, leaked)
    <3> SUFFICES ASSUME p = "Liquidity", ~leaked PROVE Book(r, ws, p, leaked)
      BY DEF Book
    <3>1. ws.subscribed["Liquidity"] = NoSel /\ ws.data["Liquidity"] = NoSel
      BY <1>1, <1>2, LiquidityGuarded DEF Held, Backed
    <3> QED BY <1>4, <1>8, <3>1 DEF Book
  <2> QED BY <1>8, <2>1, <2>2, <2>3, <2>4 DEF Held
<1>10. \A x \in JobsIn(r) : ~Alone(x) /\ Tag(x) \notin Onward /\ x.kind \notin {"indicators", "hide", "select"}
  BY <1>4, <1>8 DEF Onward
<1>11. /\ q \in Seq(GoodJob) /\ Held(q, ws, p, sel, leaked)
       /\ Hiding(q, ws, p, sel, leaked) /\ Asked(q, ws, p, sel)
  BY <1>3, <1>7, <1>8, <1>9, <1>10, PageActs
<1>12. \A x \in JobsIn(q) : x \in JobsIn(r) \/ Fresh(ws, p, sel, x)
  BY <1>7, <1>8, RenderedNew
<1>13. CASE ~withInterval
  <2>1. jobs' = q
    BY <1>1, <1>11, <1>13, ConcatOne
  <2> QED BY <1>1, <1>11, <2>1, PagesNext
<1>14. CASE withInterval
  <2>1. jobs' = Append(q, g)
    BY <1>1, <1>5, <1>11, <1>14, ConcatOne
  <2>2. ~Subscribing(g) /\ ~Unsubscribing(g) /\ ~Alone(g) /\ Tag(g) \notin Onward
        /\ Tag(g) \notin {"auth", "authorized", "timers"} /\ g.kind # "indicators"
    BY <1>5, QuietJob DEF Alone, Onward
  <2>3. \A x \in JobsIn(q) : ~Alone(x) /\ Tag(x) \notin Onward /\ x.kind \notin {"indicators", "hide", "select"}
    BY <1>10, <1>12 DEF Fresh
  <2>4. ASSUME NEW x \in JobsIn(q) PROVE MayFollow(x, g)
    <3>1. ~Alone(x) /\ Tag(x) \notin Onward /\ x.kind \notin {"indicators", "hide", "select"}
      BY <2>3
    <3>2. Apart(x, g)
      BY <2>2, <3>1 DEF Apart
    <3>3. Apart(g, x)
      BY <1>5, <2>2, <3>1 DEF Apart
    <3> QED BY <2>2, <3>1, <3>2, <3>3 DEF MayFollow
  <2>5. Fits(q, g, ws, p, sel, leaked)
    BY <1>5, <2>2, <2>3, <2>4, QuietFits
  <2>6. Held(jobs', ws, p, sel, leaked) /\ Asked(jobs', ws, p, sel) /\ JobsIn(jobs') = JobsIn(q) \cup {g}
    BY <1>5, <1>11, <2>1, <2>5, AddJob, AddedAsked, OneMore
  <2>7. Hiding(jobs', ws, p, sel, leaked)
    <3> SUFFICES ASSUME ~leaked, p \in Guarded PROVE Steady(jobs', ws, p, sel)
      BY DEF Hiding, Steady
    <3>1. ws.subscribed[p] = NoSel
      BY <1>1, <1>2
    <3>2. ASSUME NEW x \in JobsIn(jobs'), x.topic = p
          PROVE  ~Unsubscribing(x) /\ (Subscribing(x) => x.arg = Want(p, sel))
      <4>1. CASE x = g
        BY <2>2, <4>1
      <4>2. CASE x # g
        <5>1. Fresh(ws, p, sel, x)
          BY <1>1, <1>4, <1>8, <1>12, <2>6, <3>2, <4>2
        <5> QED BY <3>1, <5>1 DEF Fresh, Unsubscribing
      <4> QED BY <4>1, <4>2
    <3> QED BY <3>1, <3>2 DEF Steady
  <2> QED BY <1>1, <2>6, <2>7, PagesNext
<1> QED BY <1>13, <1>14

LEMMA UserPages == Typed /\ PagesInv /\ User => PagesInv'
<1> SUFFICES ASSUME Typed, PagesInv, User PROVE PagesInv'
  OBVIOUS
<1>1. CASE \E p \in Pages \ {"Login"}, withInterval \in BOOLEAN : Open(p, withInterval)
  BY <1>1, OpenPages
<1>2. CASE \E s \in Sels, between \in Sels \cup {NoSel} : Select(s, between)
  BY <1>2, SelectPages
<1>3. CASE ChangeInterval
  <2> DEFINE j == Do("hide", "", NoSel)
  <2>1. jobs = <<>> /\ jobs' = <<j>> /\ UNCHANGED <<ws, userVars, leaked>>
    BY <1>3 DEF ChangeInterval, UserMayAct, AtRest, histVars
  <2>2. j \in GoodJob /\ j.kind = "hide" /\ Tag(j) = "hide"
    BY DoTyped DEF Do, Tag
  <2> HIDE DEF j
  <2> QED BY <2>1, <2>2, RestQuiet DEF QuietKinds
<1>4. CASE SignIn
  <2>1. ws' = emptyState /\ jobs' = <<>>
    BY <1>4 DEF SignIn, FreshPage
  <2> QED BY <2>1, NothingHeld, PagesNext
<1> QED BY <1>1, <1>2, <1>3, <1>4 DEF User

-----------------------------------------------------------------------------
(* The theorems. *)

LEMMA PagesInitially == Init => PagesInv
<1> SUFFICES ASSUME Init PROVE PagesInv
  OBVIOUS
<1>1. ws = emptyState /\ jobs = <<>>
  BY DEF Init
<1> QED BY <1>1, NothingHeld DEF PagesInv

LEMMA PagesStep == Typed /\ SyncInv /\ PagesInv /\ [Next]_vars => PagesInv'
<1> SUFFICES ASSUME Typed, SyncInv, PagesInv, [Next]_vars PROVE PagesInv'
  OBVIOUS
<1>1. CASE Microtask
  BY <1>1, SubscribePages, SubscribedPages, UnsubscribedPages, ConnectedPages, SendAuthPages,
     AuthorizedPages, TimersPages, EmptyPages, ReplacePages, SetDataPages, SetIndicatorsPages,
     ApplySelectionPages, HideNowPages, Zenon DEF Microtask
<1>2. CASE UNCHANGED vars
  <2>1. UNCHANGED <<jobs, ws, userVars, leaked>>
    BY <1>2 DEF vars, histVars
  <2> QED BY <2>1, PagesSame
<1> QED BY <1>1, <1>2, YieldPages, EventsPages, UserPages, ServerPages, Zenon DEF Next

LEMMA PagesAlways == Spec => []PagesInv
<1>1. Init => Typed /\ SyncInv /\ PagesInv
  BY TypedInitially, SyncInitially, PagesInitially
<1>2. (Typed /\ SyncInv /\ PagesInv) /\ [Next]_vars => (Typed /\ SyncInv /\ PagesInv)'
  BY TypedStep, SyncStep, PagesStep
<1> QED BY <1>1, <1>2, PTL DEF Spec

(* componentWillUnmount() and the updates of the subscription run as chains  *)
(* of microtasks that the next page and onopen can get in between of.  A     *)
(* page that was left while nothing of it subscribed keeps no subscription   *)
(* in the state of WsContainer and none of its data, once the task is over.  *)
THEOREM PagesLeaveNothingHolds == Spec => []PagesLeaveNothing
<1>1. PagesInv => PagesLeaveNothing
  <2> SUFFICES ASSUME PagesInv, jobs = <<>>, ~leaked, NEW t \in Topics \ (Unguarded \cup {page})
               PROVE  ws.subscribed[t] = NoSel /\ ws.data[t] = NoSel
    BY DEF PagesLeaveNothing, AtRest
  <2>1. t \in Guarded \ {page}
    BY DEF Guarded
  <2>2. LeftBehind(<<>>, ws, page, leaked) /\ Backed(<<>>, ws)
    BY DEF PagesInv, Held
  <2>3. JobsIn(<<>>) = {}
    BY DEF JobsIn
  <2>4. ws.subscribed[t] = NoSel
    BY <2>1, <2>2, <2>3 DEF LeftBehind
  <2> QED BY <2>1, <2>2, <2>4 DEF Backed
<1> QED BY <1>1, PagesAlways, PTL

(* updateOrderState() sets the order book and the indicators in two steps,   *)
(* and a new selection is subscribed in four.  An order book that            *)
(* LiquidityNow shows when the task is over is the selected one, and so are  *)
(* its indicators, although the message was compared with codes that the     *)
(* pages share.                                                              *)
THEOREM PaintedBookIsSelectedHolds == Spec => []PaintedBookIsSelected
<1>1. PagesInv => PaintedBookIsSelected
  <2> SUFFICES ASSUME PagesInv, jobs = <<>>, page = "Liquidity", ~leaked, ws.data["Liquidity"] # NoSel
               PROVE  ws.data["Liquidity"] = sel /\ ws.indicators = sel
    BY DEF PaintedBookIsSelected, AtRest
  <2>1. /\ Book(<<>>, ws, page, leaked) /\ Backed(<<>>, ws) /\ Asked(<<>>, ws, page, sel)
        /\ JobsIn(<<>>) = {}
    BY DEF PagesInv, Held, JobsIn
  <2>2. ws.data["Liquidity"] = ws.subscribed["Liquidity"] /\ ws.indicators = ws.data["Liquidity"]
    BY <2>1 DEF Book
  <2>3. ws.isConnected
    BY <2>1, <2>2, LiquidityGuarded DEF Backed
  <2>4. Content(ws, page, sel)
    BY <2>1, <2>3, LiquidityGuarded DEF Asked
  <2>5. ws.subscribed["Liquidity"] = sel
    BY <2>4, LiquidityGuarded DEF Content
  <2> QED BY <2>2, <2>5
<1> QED BY <1>1, PagesAlways, PTL
=============================================================================
