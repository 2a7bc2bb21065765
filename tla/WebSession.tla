----------------------------- MODULE WebSession -----------------------------
(***************************************************************************)
(* visualization/web: the session of the web page.  cryptolpaxios.js keeps *)
(* the tokens of a tab and shares them with the other tabs in localStorage;*)
(* its interceptor refreshes them when a request is refused, and so does   *)
(* WsContainer when the websocket is refused.  The other side is           *)
(* visualization/api: the TokenAuth middleware with policy.csv, and the    *)
(* account handlers.                                                       *)
(*                                                                         *)
(* Every answer is a task of its own, so requests of one tab interleave at *)
(* their answers only, and those of two tabs at every access to            *)
(* localStorage: a task of a tab is a list of steps (todo) with one access *)
(* each, and other tabs' steps may come between.  Of the five items of     *)
(* localStorage the two tokens are modelled, the first and the last that   *)
(* setToken() writes and logout() removes.                                 *)
(***************************************************************************)
EXTENDS Naturals, Sequences

CONSTANTS
    Tabs,           \* the tabs of one browser
    MaxPairs,       \* bound: pairs of tokens the server hands out
    MaxRequests,    \* bound: requests the pages send
    MaxFaults       \* bound: requests that the network loses

ASSUME TabsAssumption == Tabs # {}
ASSUME BoundsAssumption == MaxPairs \in Nat \ {0} /\ MaxRequests \in Nat /\ MaxFaults \in Nat

VARIABLES
    page,       \* what a tab shows: the login form, the application, or it
                \* is being left for /login (logout)
    authorized, \* CryptolpAxios.isAuthorized of a tab
    header,     \* the token in the Authorization header of a tab's requests
    task,       \* what is left of the task a tab runs
    ls,         \* localStorage: auth_token and refresh_token
    cut,        \* history: the pairs between whose two writes to
                \* localStorage another tab's logout() removed auth_token
    flows,      \* the bag of requests that wait for their answer
    issued,     \* external: how many pairs the server has handed out
    live,       \* external: the access tokens that have not expired
    rlive,      \* external: the refresh tokens that have not expired
    asked,      \* how many requests the pages have sent
    faults      \* how many were lost

tabVars == <<page, authorized, header>>
srvVars == <<issued, live, rlive>>
vars == <<tabVars, task, ls, cut, flows, srvVars, asked, faults>>

-----------------------------------------------------------------------------
(* The data.  The tokens of a pair are numbered like the pair.               *)

NoToken == 0
Pairs   == 1..MaxPairs
Tokens  == 0..MaxPairs

PageKinds == {"login", "app", "leaving"}

(* A request and what its answer is for: of a page, to an endpoint that      *)
(* policy.csv gives the user or not; of the websocket, to be authorized; to  *)
(* account/refresh-token; to account/clienttype with the pair that was       *)
(* received before; the login.  The bearer is left out where every role is   *)
(* allowed.  Of is history: the number of the request of a page, or of the   *)
(* websocket, that led to this one; 0 for a login.                           *)
Asked == 1..MaxRequests

Flow ==
    [tab : Tabs, kind : {"data", "forbidden", "ws"}, bearer : Tokens, arg : {NoToken}, of : Asked]
      \cup [tab : Tabs, kind : {"refresh"}, bearer : Tokens, arg : Pairs, of : Asked]
      \cup [tab : Tabs, kind : {"type"}, bearer : {NoToken}, arg : Pairs, of : Asked]
      \cup [tab : Tabs, kind : {"login"}, bearer : {NoToken}, arg : {NoToken}, of : {0}]
      \cup [tab : Tabs, kind : {"logintype"}, bearer : {NoToken}, arg : Pairs, of : {0}]

Request(t, kind, bearer, arg, of) ==
    [tab |-> t, kind |-> kind, bearer |-> bearer, arg |-> arg, of |-> of]

Refresh(t, of) == Request(t, "refresh", header[t], ls.refresh, of)

Pending == DOMAIN flows

Started(q, f) ==
    [g \in DOMAIN q \cup {f} |-> (IF g \in DOMAIN q THEN q[g] ELSE 0) + (IF g = f THEN 1 ELSE 0)]

Done(f) ==
    IF flows[f] = 1 THEN [g \in DOMAIN flows \ {f} |-> flows[g]] ELSE [flows EXCEPT ![f] = @ - 1]

NoPair == [token |-> NoToken, refresh |-> NoToken]

(* The middleware: an expired or missing token makes a guest of the user.    *)
IsGuest(f) == f.bearer \notin live

(* policy.csv *)
Refused(f) ==
    \/ f.kind \in {"data", "ws"} /\ IsGuest(f)
    \/ f.kind = "forbidden"
    \/ f.kind = "refresh" /\ (~IsGuest(f) \/ f.arg \notin rlive \/ issued = MaxPairs)

-----------------------------------------------------------------------------
(* The tasks of a tab.  A task that handles a refused request knows which    *)
(* one (of) and its mark _retry; one that stores a pair, the pair.           *)

StepKinds ==
    {"intercept", "removeToken", "removeRefresh", "storeToken", "storeRefresh"}

Idle == [todo |-> <<>>, of |-> 0, retry |-> FALSE, pair |-> NoToken]

IsIdle(t) == task[t].todo = <<>>

IsNext(t, step) == ~IsIdle(t) /\ Head(task[t].todo) = step

Begins(t, todo, of, pair) ==
    task' = [task EXCEPT ![t] = [todo |-> todo, of |-> of, retry |-> FALSE, pair |-> pair]]

(* The first step is taken off, others may take its place.                   *)
Becomes(t, steps, retry) ==
    LET left == steps \o Tail(task[t].todo)
    IN  task' = [task EXCEPT ![t] = IF left = <<>> THEN Idle
                                    ELSE [@ EXCEPT !.todo = left, !.retry = retry]]

Goes(t) == Becomes(t, <<>>, task[t].retry)

-----------------------------------------------------------------------------
(* CryptolpAxios. *)

(* App and AppContainer both call loadToken(), so two interceptors see every *)
(* error one after the other.                                                *)
Refusal == <<"intercept", "intercept">>

(* logout() by its two accesses to localStorage.  The header stays.          *)
Logout == <<"removeToken", "removeRefresh">>

RemoveToken(t) ==
    /\ IsNext(t, "removeToken")
    /\ authorized' = [authorized EXCEPT ![t] = FALSE]
    /\ ls' = [ls EXCEPT !.token = NoToken]
    /\ cut' = cut \cup {task[u].pair : u \in {v \in Tabs : IsNext(v, "storeRefresh")}}
    /\ Goes(t)
    /\ UNCHANGED <<page, header, flows>>

(* The mutant leaves the refresh token in localStorage.                      *)
MutRemoveRefresh(t) ==
    /\ IsNext(t, "removeRefresh")
    /\ page' = [page EXCEPT ![t] = "leaving"]
    /\ Goes(t)
    /\ UNCHANGED <<authorized, header, ls, cut, flows>>

RemoveRefresh(t) ==
    /\ IsNext(t, "removeRefresh")
    /\ ls' = [ls EXCEPT !.refresh = NoToken]
    /\ page' = [page EXCEPT ![t] = "leaving"]
    /\ Goes(t)
    /\ UNCHANGED <<authorized, header, cut, flows>>

(* The mutant does not mark the request.                                     *)
MutIntercept(t) ==
    /\ IsNext(t, "intercept")
    /\ IF ~authorized[t] \/ task[t].retry
       THEN Goes(t) /\ UNCHANGED flows
       ELSE IF ls.refresh = NoToken
       THEN Becomes(t, Logout, FALSE) /\ UNCHANGED flows
       ELSE flows' = Started(flows, Refresh(t, task[t].of)) /\ Becomes(t, <<>>, FALSE)
    /\ UNCHANGED <<tabVars, ls, cut>>

(* An interceptor on a refused request: it marks the request and starts a    *)
(* refresh with the refresh token of localStorage, or logs out if there is   *)
(* none; one that is marked it lets pass.                                    *)
Intercept(t) ==
    /\ IsNext(t, "intercept")
    /\ IF ~authorized[t] \/ task[t].retry
       THEN Goes(t) /\ UNCHANGED flows
       ELSE IF ls.refresh = NoToken
       THEN Becomes(t, Logout, TRUE) /\ UNCHANGED flows
       ELSE flows' = Started(flows, Refresh(t, task[t].of)) /\ Becomes(t, <<>>, TRUE)
    /\ UNCHANGED <<tabVars, ls, cut>>

StoreToken(t) ==
    /\ IsNext(t, "storeToken")
    /\ ls' = [ls EXCEPT !.token = task[t].pair]
    /\ Goes(t)
    /\ UNCHANGED <<tabVars, cut, flows>>

(* The mutant reads a field the answer does not have and stores "undefined", *)
(* a refresh token that no one has issued.                                   *)
MutStoreRefresh(t) ==
    /\ IsNext(t, "storeRefresh")
    /\ ls' = [ls EXCEPT !.refresh = MaxPairs + 1]
    /\ header' = [header EXCEPT ![t] = task[t].pair]
    /\ authorized' = [authorized EXCEPT ![t] = TRUE]
    /\ page' = [page EXCEPT ![t] = IF @ = "login" THEN "app" ELSE @]
    /\ Goes(t)
    /\ UNCHANGED <<cut, flows>>

(* setToken() after its last write, and loadUser(): App shows the            *)
(* application, unless the tab is being left.                                *)
StoreRefresh(t) ==
    /\ IsNext(t, "storeRefresh")
    /\ ls' = [ls EXCEPT !.refresh = task[t].pair]
    /\ header' = [header EXCEPT ![t] = task[t].pair]
    /\ authorized' = [authorized EXCEPT ![t] = TRUE]
    /\ page' = [page EXCEPT ![t] = IF @ = "login" THEN "app" ELSE @]
    /\ Goes(t)
    /\ UNCHANGED <<cut, flows>>

TakeStep(t) ==
    /\ \/ Intercept(t)
       \/ RemoveToken(t) \/ RemoveRefresh(t)
       \/ StoreToken(t) \/ StoreRefresh(t)
    /\ UNCHANGED <<srvVars, asked, faults>>

-----------------------------------------------------------------------------
(* Tabs.  A page that is loaded takes its tokens from localStorage.          *)

Init ==
    /\ ls \in {NoPair, [token |-> 1, refresh |-> 1]}
    /\ page = [t \in Tabs |-> IF ls.token = NoToken THEN "login" ELSE "app"]
    /\ authorized = [t \in Tabs |-> ls.token # NoToken]
    /\ header = [t \in Tabs |-> ls.token]
    /\ task = [t \in Tabs |-> Idle]
    /\ cut = {}
    /\ flows = <<>>
    /\ issued = ls.token
    /\ live = {ls.token} \ {NoToken}
    /\ rlive = live
    /\ asked = 0
    /\ faults = 0

(* The tab is loaded: after a logout, or again by the user.  Its requests    *)
(* are gone.  Of loadToken()'s accesses that to auth_token counts; a second  *)
(* call reads it again if there was none, and is this step then.             *)
Load(t) ==
    /\ IsIdle(t)
    /\ flows' = [f \in {g \in Pending : g.tab # t} |-> flows[f]]
    /\ page' = [page EXCEPT ![t] = IF ls.token = NoToken THEN "login" ELSE "app"]
    /\ authorized' = [authorized EXCEPT ![t] = ls.token # NoToken]
    /\ header' = [header EXCEPT ![t] = ls.token]
    /\ UNCHANGED <<task, ls, cut, srvVars, asked, faults>>

(* A page asks for its data, or onopen has the websocket authorized with the *)
(* token of localStorage.                                                    *)
Ask(t, kind) ==
    /\ page[t] = "app" /\ IsIdle(t)
    /\ asked < MaxRequests
    /\ asked' = asked + 1
    /\ LET bearer == IF kind = "ws" THEN ls.token ELSE header[t]
       IN  flows' = Started(flows, Request(t, kind, bearer, NoToken, asked + 1))
    /\ UNCHANGED <<tabVars, task, ls, cut, srvVars, faults>>

(* Userimagetext: the menu calls logout().                                   *)
UserLogout(t) ==
    /\ page[t] = "app" /\ IsIdle(t)
    /\ Begins(t, Logout, 0, NoToken)
    /\ UNCHANGED <<tabVars, ls, cut, flows, srvVars, asked, faults>>

(* Login.validateForm(), submit(): the button is enabled again when the      *)
(* answer to the login is there.                                             *)
Submit(t) ==
    /\ page[t] = "login" /\ IsIdle(t)
    /\ \A f \in Pending : f.tab = t => f.kind # "login"
    /\ flows' = Started(flows, Request(t, "login", NoToken, NoToken, 0))
    /\ UNCHANGED <<tabVars, task, ls, cut, srvVars, asked, faults>>

-----------------------------------------------------------------------------
(* Answers. *)

Issue ==
    /\ issued' = issued + 1
    /\ live' = live \cup {issued + 1}
    /\ rlive' = rlive \cup {issued + 1}

(* A page's request: what the answer is used for is the page's own business. *)
AnswerData(f) ==
    /\ f.kind \in {"data", "forbidden"}
    /\ flows' = Done(f)
    /\ IF Refused(f) THEN Begins(f.tab, Refusal, f.of, NoToken) ELSE UNCHANGED task
    /\ UNCHANGED <<tabVars, srvVars>>

(* WsContainer.processAuthorized()                                           *)
AnswerWs(f) ==
    /\ f.kind = "ws"
    /\ IF Refused(f) /\ ls.refresh = NoToken
       THEN Begins(f.tab, Logout, 0, NoToken) /\ flows' = Done(f)
       ELSE /\ flows' = IF Refused(f) THEN Started(Done(f), Refresh(f.tab, f.of)) ELSE Done(f)
            /\ UNCHANGED task
    /\ UNCHANGED <<tabVars, srvVars>>

(* The mutant: the catch of a refused refresh does not log out.              *)
MutAnswerRefresh(f) ==
    /\ f.kind = "refresh"
    /\ IF Refused(f)
       THEN /\ flows' = Done(f)
            /\ Begins(f.tab, Refusal, f.of, NoToken)
            /\ UNCHANGED srvVars
       ELSE /\ Issue
            /\ flows' = Started(Done(f), Request(f.tab, "type", NoToken, issued + 1, f.of))
            /\ UNCHANGED task
    /\ UNCHANGED tabVars

(* refresh_token(): a new pair, and the client type is asked for.  A refused *)
(* refresh is a request like any other for the interceptors; then it is      *)
(* caught with logout().                                                     *)
AnswerRefresh(f) ==
    /\ f.kind = "refresh"
    /\ IF Refused(f)
       THEN /\ flows' = Done(f)
            /\ Begins(f.tab, Refusal \o Logout, f.of, NoToken)
            /\ UNCHANGED srvVars
       ELSE /\ Issue
            /\ flows' = Started(Done(f), Request(f.tab, "type", NoToken, issued + 1, f.of))
            /\ UNCHANGED task
    /\ UNCHANGED tabVars

(* login(): an answer with an error, or a pair.                              *)
AnswerLogin(f) ==
    /\ f.kind = "login"
    /\ \/ flows' = Done(f) /\ UNCHANGED srvVars
       \/ /\ issued < MaxPairs
          /\ Issue
          /\ flows' = Started(Done(f), Request(f.tab, "logintype", NoToken, issued + 1, 0))
    /\ UNCHANGED <<tabVars, task>>

(* client_type(), and setToken() with the pair.                              *)
AnswerType(f) ==
    /\ f.kind \in {"type", "logintype"}
    /\ flows' = Done(f)
    /\ Begins(f.tab, <<"storeToken", "storeRefresh">>, 0, f.arg)
    /\ UNCHANGED <<tabVars, srvVars>>

Answer(f) ==
    /\ IsIdle(f.tab)
    /\ AnswerData(f) \/ AnswerWs(f) \/ AnswerRefresh(f) \/ AnswerLogin(f) \/ AnswerType(f)
    /\ UNCHANGED <<ls, cut, asked, faults>>

(* The network loses a request: a refresh is caught with logout(), the form  *)
(* only logs the error, and a page sees it.                                  *)
Lost(f) ==
    /\ IsIdle(f.tab)
    /\ faults < MaxFaults
    /\ faults' = faults + 1
    /\ flows' = Done(f)
    /\ IF f.kind \in {"refresh", "type"} THEN Begins(f.tab, Logout, 0, NoToken) ELSE UNCHANGED task
    /\ UNCHANGED <<tabVars, ls, cut, srvVars, asked>>

(* Tokens expire, the access token of a pair first.                          *)
Expire(p) ==
    /\ \/ p \in live /\ live' = live \ {p} /\ UNCHANGED rlive
       \/ p \in rlive \ live /\ rlive' = rlive \ {p} /\ UNCHANGED live
    /\ UNCHANGED <<tabVars, task, ls, cut, flows, issued, asked, faults>>

Next ==
    \/ \E t \in Tabs :
         \/ TakeStep(t)
         \/ Load(t)
         \/ \E kind \in {"data", "forbidden", "ws"} : Ask(t, kind)
         \/ UserLogout(t)
         \/ Submit(t)
    \/ \E f \in Pending : Answer(f) \/ Lost(f)
    \/ \E p \in Pairs : Expire(p)

Spec == Init /\ [][Next]_vars

(* A tab runs its tasks to their end, and every request is answered or lost. *)
Fairness ==
    /\ \A t \in Tabs : WF_vars(TakeStep(t))
    /\ \A t \in Tabs : WF_vars(\E f \in Pending : f.tab = t /\ Answer(f))

FairSpec == Spec /\ Fairness

-----------------------------------------------------------------------------
(* Properties. *)

Task == [todo : Seq(StepKinds), of : {0} \cup Asked, retry : BOOLEAN, pair : Tokens]

TypeOK ==
    /\ page \in [Tabs -> PageKinds]
    /\ authorized \in [Tabs -> BOOLEAN]
    /\ header \in [Tabs -> Tokens]
    /\ task \in [Tabs -> Task]
    /\ ls \in [token : Tokens, refresh : Tokens]
    /\ cut \subseteq Pairs
    /\ DOMAIN flows \subseteq Flow
    /\ \A f \in DOMAIN flows : flows[f] \in Nat \ {0}
    /\ issued \in Tokens
    /\ live \subseteq Pairs
    /\ rlive \subseteq Pairs
    /\ asked \in 0..MaxRequests
    /\ faults \in 0..MaxFaults

(* A request of a page never has more than one successor on its way, of      *)
(* whatever kind: a refused request starts a refresh, a refused refresh      *)
(* another one, each passes two interceptors, and answers come in any order, *)
(* but the mark _retry keeps one request from becoming two.                  *)
RequestsDoNotMultiply ==
    \A f \in Pending : f.of # 0 =>
      flows[f] = 1 /\ \A g \in Pending : g.of = f.of => g = f

(* When every tab shows the login form and runs nothing, localStorage holds  *)
(* no access token that a tab would be loaded with, however the accesses of  *)
(* logins, late refreshes and logouts of several tabs alternate.  A refresh  *)
(* token is left only of a pair that another tab's logout() has cut in two,  *)
(* when it removed auth_token between the two writes.                        *)
NothingLeftBehind ==
    (\A t \in Tabs : page[t] = "login" /\ IsIdle(t)) =>
      ls.token = NoToken /\ ls.refresh \in {NoToken} \cup cut

(* Refreshing ends: a refresh that is refused starts another one, but never  *)
(* an endless row of them.                                                   *)
Refreshing(t) ==
    IsNext(t, "intercept") \/ \E f \in Pending : f.tab = t /\ f.kind = "refresh"

RefreshesEnd == \A t \in Tabs : Refreshing(t) ~> ~Refreshing(t)
=============================================================================
