# A TLA+ model of mmb

mmb is a trading engine in Rust: strategies place and cancel orders on
exchanges over REST and websockets, under limits on requests and balances. It
runs on the multi-threaded tokio runtime, so nearly every part is called from
several tasks at once, and the exchange answers late, twice, out of order or
not at all. Beside the engine stands its visualization: an API server in Rust and
a web client in JavaScript (React, with `unstated` containers for the state), in
which every `await` and every `setState` is a place where something else may come
between. These modules model the engine's core and the web client, TLC checks
them on small instances, and TLAPS proves the central invariants for all
instances. Paths below are relative to the repository's root.

## 1. The system

| Component | State | Operations | Hard part |
|---|---|---|---|
| Exchange blocker `core/src/exchanges/exchange_blocker.rs` | a map of blockers (stage, two flags, timer), one event channel | `block`, `unblock`, timer tasks, processor task, `stop_blocker`, `wait_unblock` | a block interrupts a release whose events are already queued; timers race with new blocks; shutdown |
| Request limits `core/src/exchanges/timeouts/` | requests of the last period, groups, `last_time` | reserve at once / when available / a group, remove a group, cancel a wait | clocks read outside the lock, forgetting at the edge of a period, places set aside |
| Order creation, fills, cancellation `core/src/exchanges/general/order/`, `handlers/`, `core/src/orders/` | the order, two caches, two buffers, a one-shot channel per order | `create_order`, `raise_order_created`, `handle_*`, fallback check | three sources for one event, in any order, in two tasks, under many small locks |
| Waiting for the end of an order `order/wait_cancel.rs`, `wait_finish.rs` | shared futures by order | `wait_cancel_order`, `wait_order_finish` | several callers share one worker; time-outs and retries |
| Balance reservations `core/src/balance/` | reservations, approved parts, virtual balances | reserve, approve, unreserve, transfer | arithmetic kept in agreement over many calls |
| Disposition execution `core/src/disposition_execution/` | slots of a strategy, orders, request groups | react to events, place, cancel, finish | composes everything above |
| Balance changes, profit-loss stopper `core/src/balance/changes/` | a window of changes | add, look, block or unblock | check, then act |
| Websockets `core/src/connectivity/` | one or two connections | open, merge, close | half of a connection fails |
| Lifecycle, cancellation tokens `core/src/lifecycle/`, `mmb_utils/src/` | engine context, tokens | start, graceful shutdown | order of the steps, tasks that do not end |
| Event recorder `core/src/database/events/recorder/` | batches, postponed files | save, flush, replay | database failures and crashes between steps |
| Order books `domain/src/order_book/`, `core/src/order_book/` | sorted prices | snapshot, update | updates before a snapshot |
| Internal events loop | broadcast receiver | dispatch | a receiver that lags |
| RPC, control panel, statistics, price sources, migrations, connectors, strategies | | | input/output, arithmetic or glue |
| Websocket of the web client `visualization/web/src/unstatedContainers/WsContainer.js`, with the pages that subscribe and `visualization/api/src/ws/` | socket, subscriptions, data, two timers; the session's subscriptions | connect, ping, heartbeat, reconnect, authorize, subscribe, unsubscribe, receive | subscriptions that overtake each other at awaits, dead sockets, expired tokens |
| Session of the web client `web/src/cryptolpaxios.js`, login, with the middleware and account handlers of the API | tokens in a tab and in `localStorage` | log in and out, send, refresh | interceptors that refresh at the same time, tabs that share the storage |
| Address, selection and navigation `web/src/App.js`, `utils.js`, `ExchangeContainer.js`, header and navigation | address, selected exchange, pair and interval | open, follow a link, jump, select, `checkParameters` | two copies of one choice, each changed when the other is |
| Pages that load over HTTP `web/src/containers/` | one container per page, names of requests under way | ask, repeat when empty, store, clear | answers out of order, containers that outlive their page |
| Configuration editor `web/src/components/Configuration/` | text, timer, verdict, saving | type, validate after a pause, save | verdicts of an older text |

How they interact: connectors call the callbacks that `Exchange` registers
(`exchange.rs:204`); handlers change the order and send events on a broadcast
channel, which the internal events loop hands to balances, order books and the
strategy's executor. The executor reserves request groups and balances, creates
and cancels orders and honours the blocker. `Exchange` blocks its account when
connectivity is lost, the profit-loss stopper when losses are too high. Shutdown
stops the blocker, cancels open orders, closes positions and flushes the recorder.
In the web client the header asks for the exchanges and keeps address and
selection in step; the pages read the selection, and either subscribe through
`WsContainer` or ask through `CryptolpAxios`, which also holds the token both of
them send. A refused request or websocket refreshes the token, and a refresh that
fails logs out and leaves the document.
`PROJECT.json` lists every component and every hazard with its line.

What makes each component correct:

* blocker: no release is lost or happens unasked, timed blocks end by
  themselves and not early, the processor survives every order of calls;
* request limits: no period has more requests than the limit, places set aside
  are there when they are needed, requests start in the order of their callers;
* orders: every trade counts once, nothing buffered is left behind, the events of
  an order are in order, the status never goes back, `create_order` returns;
* waiting: one worker per order, every waiter gets an answer;
* balances: what is reserved plus what is free is what there is;
* recorder: no event is lost; lifecycle: shutdown ends with no open order;
* websocket client: the server is subscribed to what the client believes, the book
  shown is the selected one, a page that is left keeps nothing, the connection comes
  back after every fault;
* session: a refused request never becomes two, refreshing ends, no token is left
  in the browser once every tab is logged out;
* selection: address and selection agree once the page is at rest, and it comes to
  rest; what a page shows is what is selected, and it does not wait for ever;
* configuration: the verdict shown is the one on the text in the editor.

## 2. The modules

| Module | What it is |
|---|---|
| `BlockerContract` | what callers of the blocker may rely on: free, blocked, releasing |
| `ExchangeBlocker` | the blocker; implements `BlockerContract` |
| `ExchangeBlockerProofs` | theorems about it |
| `RequestsTimeoutManager` | request limits of one account |
| `RequestsTimeoutManagerProofs` | theorems about it |
| `OrderCreation` | one order from `create_order` to its last event, with the exchange around it |
| `OrderCreationProofs` | theorems about it |
| `WsClient` | the websocket client, the pages that subscribe, the session at the other end |
| `WsClientProofs` | theorems about it: types, connection, what the session serves |
| `WsClientPagesProofs` | theorems about it: what the pages show, and what they leave |
| `WebSession` | tokens, requests and refreshes of several tabs, with the server's policy |
| `WebSessionProofs` | theorems about it |
| `WebSelection` | address and selection as pure definitions: what `checkParameters` does to them |
| `WebSelectionProofs` | theorems about it |
| `WebPages` | one document: routes, header, pages that load over HTTP, configuration editor; uses `WebSelection` |
| `WebPagesProofs` | its inductive invariant, and its safety invariants for every catalogue |
| `MC_*` | the constants of the TLC runs |

A definition whose comment begins with *mutant* is a plausible mistake, kept next
to the definition it would replace; the properties it would break are listed in
`PROJECT.json`.

### ExchangeBlocker

`blockers` is the map under the mutex, a function whose domain is the set of
blocked (account, reason) pairs; `queue` is the channel, `timers` the tasks of
`set_unblock_by_timer`. A caller holds the lock for the whole of `block` or
`unblock`, so each is one action. A timer task takes the lock twice, so it has
three steps: it wakes (from here on `abort` is too late), sets the blocker to
`ReadyUnblock`, and calls `unblock`. The processor's turn, one event and one arm of
`move_next_blocker_state_if_can`, is `HandleEvent`. The handlers of a moment are
spawned as a task of their own that the processor does not wait for; the model keeps
the moment they were last started for, and says nothing of when they end.
`stop_blocker` and the end of the task are two actions, and the case that the
channel closes between `is_closed` and `try_send` of another caller is
modelled. `until` is history for one property.

### RequestsTimeoutManager

One action per call under the manager's lock. The time a call uses was read
before, at most `Skew` earlier. A request in the code is a time and a group; here
it also has a number and says how it was granted, for the properties. `Available`
counts places as a set instead of adding sizes up. `granted` is history: all
requests but those cancelled. So are `latest` and `inOrder`: `get_non_decreasing_time`
compares a call's time with `last_time`, but `try_reserve_group_instant` and the
calls that are refused do not store theirs, so a later call may still go behind them;
`inOrder` says that none has.

### OrderCreation

The task of `create_order` polls the request, the one-shot channel and the fallback
check together (`create` says where it is, `info` where the check is); the websocket
task delivers the exchange's messages. A handler is a list of steps, `todo`, one for
each time it takes a lock or changes state, and the steps of the two tasks interleave
as they like: the runtime has several threads. Some steps join several lock operations of the
code (a handler that ends the order sets the status and sends the event in one step), so the code has
more interleavings than the model. Two history variables say what has happened: `overlapped`, that the
handlers of the two tasks were unfinished at the same time, and `late`, that one of them buffered what is for an
order that had got into the cache meanwhile. Much of what `create.rs` relies on holds
until handlers meet and no longer, and the properties say so by these variables; no constant
switches the overlap off.

The exchange is external: it accepts or rejects, trades, cancels by itself,
answers `get_order_info`, and loses messages. Messages of the two topics (orders,
executions) keep their order within a topic only. A panic ends the behaviour: the
engine's hook starts a graceful shutdown (`core/src/infrastructure.rs:140`). The
model has `AllowedEventSourceType::All`, as every connector in the repository.

### WsClient

The browser runs one task at a time and all of its microtasks before the next. `jobs`
is the queue of microtasks; a job is the code between two awaits, and a task (a click, an
event of the socket, a timer, an answer) begins only when the queue is empty
(`AtRest`). `unstated` makes an awaited `setState` last as long as the re-rendering,
so a job after one may fall behind others of the queue (`Yield`): the interleavings are
those of code between awaits, never finer. `ws` is `WsContainer.state`, with the data of
a topic abstracted to the selection it is of; `updateSubscription` and `oneTimeInvoke`
are followed step by step. The pages are one operator each (`LiquidityNow`,
`VolumeNow`, `PL`, `Balances`, `TradeSignals`, `Dashboard`), from their
`componentDidMount`, `componentDidUpdate` and `componentWillUnmount`.

The network may break a connection, let it die without a word, or lose a token's
validity (`faults`). Sockette, which opens a lost socket again, is external, and so is
the order in which the close events of replaced sockets arrive (`closing`, `late`).
`srv` is the session of `visualization/api/src/ws/actors/ws_client_session.rs`. `leaked` is
history: it says that a "now" page was hidden by its own address while it subscribed,
which leaves a subscription behind (section 5).

### WebSession

Each tab has its page, its header and its flag; `ls` is the `localStorage` they share.
`flows` is the bag of requests that wait for an answer, told apart by tab, kind, bearer
and pair of tokens. Documents may run at the same time, so nothing makes a row of calls of
`localStorage` atomic: what a tab has still to do is a list of steps in `task`, each
with one access, and the steps of other tabs come between. `setToken` writes five items and `logout`
removes four; of these the model has the access token, which is the first of both, and the refresh
token, which is the last of both, so that the other tab can come between them. The three items in the middle are
not read together with a token except when a document is loaded. A document that is loaded is one step:
of what it reads, only the access token decides what it shows. `task[t].retry` is `_retry`, the mark of
the request whose error two interceptors see, one after the other; `of` is history, the request of a page that a
request goes back to. `cut` is history too: the pairs between whose two writes another tab
removed the first. The server's decision is that of the middleware and `policy.csv`; that
tokens expire, and which pair is next, is external.

### WebSelection and WebPages

`WebSelection` has no variables. An address is a page, an interval, an exchange
and a pair; `NewPath` is the address that `checkParameters` pushes and `Sets` the
`setState`s it makes. A pair is a sequence of tokens because what matters
about the conversion is that only the first `/` is replaced.

`WebPages` is one document from its opening until it is left. `jobs` holds the
microtasks, `conts` the continuations of awaits, which come some microtasks after
the `setState` they wait for; they run in their order, anywhere between the
jobs. Users, answers and timers wait until both are empty (`Quiet`). `net` holds the
requests under way, answered in any order; an empty answer is asked again
after a timeout, as `getResponse` does, as long as `started` holds the name. The data of a page is
abstracted to what was asked for. `item` is the row of a user that is saved: it goes
with the list, and the answer it waits for then finds nobody. `gaveUp` and `strayed` are history: a request failed or
was not repeated; a verdict came out of turn.

## 3. The runs

| Run | Specification, bounds | Properties |
|---|---|---|
| `ExchangeBlocker_safety` | 2 pairs (symmetric), 1 timer, 1 tick, capacity 6 | `TypeOK` `NoMissingBlocker` `NeverFull` `QueueOrder` `NoLostUnblock` `MomentsInOrder` |
| `ExchangeBlocker_live` | 1 pair, 3 timers, durations 1 and 2, 2 ticks, fair | `TimerIsAlive` `ImplementsContract` `ReleaseEnds` `TimedBlockEnds` |
| `ExchangeBlocker_due` | 1 pair, 2 timers | finding: `TimedBlockHolds` |
| `RequestsTimeoutManager_places` | limit 2, period 2, clock skew 1, 2 groups of 1 or 2 (symmetric), 4 requests, 4 ticks | `TypeOK` `ScheduledLimit` `ScheduledInOrder` `InstantLimit` |
| `RequestsTimeoutManager_limit` | limit 2, 2 groups of 1 | finding: `PeriodLimit` |
| `OrderCreation_handlers` | 2 trades, fair | `TypeOK` `HandlersGoOn` `NothingStranded` `FillsCountOnce` `EventsInOrder` `TrackedUntilFinished` `FillsNeverPanic` `StatusGoesForward` `CreateOrderReturns` `MailIsNotLost` |
| `OrderCreation_id` | 2 trades | finding: `IdIsKnown` |
| `OrderCreation_overlap` | 1 trade | finding: `CreatedOnce` |
| `WsClient_pages` | 2 selections; pages of liquidity, profit, balances, signals; 1 fault, 1 message in flight before the user acts, fair | `TypeOK` `NoSendBeforeOpen` `ServerAgrees` `PaintedBookIsSelected` `PagesLeaveNothing` `TasksEnd` `Recovers` |
| `WebSession_tabs` | 2 tabs (symmetric), 2 pairs of tokens, 1 request, 1 lost | `TypeOK` `NothingLeftBehind` `RequestsDoNotMultiply` |
| `WebSession_refresh` | 2 tabs, 2 pairs of tokens, 1 request, fair | `RefreshesEnd` |
| `WebPages_document` | 2 exchanges of 2 pairs, one shared; an administrator and an arbitrage user; 7 addresses; 2 texts; 3 clicks, 1 request not waited for, 1 fault, fair | `TypeOK` `UrlMatchesSelection` `PaintedIsSelected` `Settles` `PagesFillIn` |

Why the bounds are enough. *Blocker*: pairs meet only in the channel, and two
are enough for one's events to stand between the other's; three events per pair
is the most there can be (proved), so a capacity of 6 is exactly the limit. Three
timer tasks let two outdated ones live beside the right one. The safety run has a
single tick because no safety property there looks at the time. *Requests*: with a
limit of 2 and a period of 2 the bounded clock reaches beyond one period, so
requests are forgotten, and four requests fill two periods or overflow one; two groups can
compete. All four properties are theorems, so the run is there to find a slip, not to cover the cases. It has a clock skew. `ScheduledLimit` is stated for a period
shortened by the skew; `InstantLimit` while no call has gone behind another, for behind
one that did not store its time (`try_reserve_group_instant`, `requests_timeout_manager.rs:205`)
a group spends a place twice: without `inOrder` the run finds it in five steps. *Orders*:
two trades are the fewest with a partial
fill, and a trade can then be first, last, doubled, buffered or lost.
*Websocket client*: two selections are enough for an update of the one to arrive under
the other; Liquidity, PL, Balances and TradeSignals are one page of each kind (with an
interval and a session behind it, sharing `codes` with it, a flag, unguarded), the other
two have the same code. It was also run with Volume and Dashboard in place of PL and
TradeSignals, and, for the invariants, with two faults and two messages in flight.
*Session*: two tabs are the fewest that share a storage; two pairs of tokens are a login and a late
refresh, or two logins that cross a logout, one request goes through any number of refused refreshes; the theorems below cover
all numbers. The liveness run loses no request: a lost refresh logs out, which ends it. *Pages*: the shared
pair is the second of one exchange and the first of the other, where the code treats it
differently; three clicks reach a second change of the selection under way, a return to
a page that was left, and a save after two edits.

The runs do not check for deadlock: clocks, requests, trades and clicks are bounded,
an order that is finished has nothing left to do, and a web page may wait for its user.

**Fairness.** The runtime polls a task that is ready, so every step of a
task that needs nothing from outside is weakly fair: the processor while
events are queued, a timer once its time has come, a handler, `create_order`. Time
goes on (`Tick`, `MinutePasses`). `poll_order_create` has a timeout
(`CreateOrderGivesUp`). For `MailIsNotLost` and `CreateOrderReturns` the exchange
answers `get_order_info` properly if asked again and again (strong fairness):
the loop is left only by an answer or by its timeout. Callers, cancellation and
the exchange's own decisions are not fair. In the web client the event loop runs
every microtask and every timer that is due, a request is answered or fails, the
browser reports a socket that opens or closes, and the session takes its messages: each of these is
weakly fair. Users, faults and the expiry of tokens are not.

### Findings

1. `TimedBlockHolds`. Renewing a timed block aborts its timer, but a timer that is
   already awake goes on and releases the renewed block at the old time
   (`exchange_blocker.rs:569`, `632`, `634`), which the test
   `reblock_before_time_is_up` excludes.
2. `PeriodLimit`. With no request remembered, `reserve_when_available` grants at once
   whatever groups have set aside (`requests_timeout_manager.rs:267-271`); three
   requests can start at one moment where two are allowed in a period.
   (Also, requests granted at once do not look at those scheduled for later,
   `inner_request_manager.rs:171`.)
3. `IdIsKnown`. An order the exchange does not know is failed after a minute without
   an id, and `create_order` panics on its `expect` (`create.rs:112`, `131`).
4. `CreatedOnce`. Status and cache are checked and set under separate locks
   (`create.rs:660-698`): both tasks may announce the order.

## 4. What is proved

All theorems are about `Spec` without fairness, for every value of the constants
that satisfies the modules' assumptions; none has a hypothesis of its own. What the code does not
keep in every behaviour is stated with the history variable that tells when it does
(`inOrder`, `overlapped`, `late`, `cut`, `leaked`, `gaveUp`, `strayed`).

**ExchangeBlocker** (assumptions: timers and durations are positive numbers; finitely
many pairs; capacity at least three per pair; the code's 20 000 suffices for 6 666
pairs). `TypeCorrect`, `QueueOrderHolds`, `NoMissingBlockerHolds`, `NeverFullHolds`,
`NoLostUnblockHolds`. None but the first is inductive by itself. The
inductive invariant is `SafeInv`, that is `TypeOK`, `QueueOrder` and that no panic but the
one of shutdown happened. `QueueOrder` says which events each blocker may
have in the channel for its status and in which order, as six named parts: a request
is queued iff the flag says so and only once; `MoveToBlocked` comes first; what a
withdrawn release left behind comes before the next request; and so on. It is
needed because `block` leaves events behind: whether they do harm depends on
their order in the channel. The proof has a lemma for what appending and
removing an event does to each part, and one step per action. `NeverFullHolds`
needs a count: each queued event is mapped, one to one, to a pair and one
of three places (`QueueBound`), so the channel has at most three events per pair.

`MomentsInOrderHolds`, `Implements` and `TimerIsAliveHolds` share a lemma, that a
step changes at most one blocker, and that one in one of a few ways (`OneChange`).
For `MomentsInOrder` the invariant is `MomentsFit`: the moment that handlers were last started for
goes with the status of the blocker. `Implements` is the refinement of `BlockerContract`:
the initial states agree, and each kind of change is an action of the contract or leaves
`blockers`, as the contract sees them, alone. `TimerIsAlive` needs `HandlesDiffer`: no two blockers
show the same timer, for `abort` on behalf of the one would else stop that of the other.

**RequestsTimeoutManager** (assumptions: a positive limit, a positive gap, a skew of
at most a period, finitely many groups). `TypeCorrect`, `ScheduledLimitHolds`,
`ScheduledInOrderHolds`. The inductive invariant adds that numbers grow (`Numbered`)
and that what the manager has forgotten started more than a period ago
(`Forgotten`). A new scheduled request starts at or after the last remembered one,
hence after all; if the last period is full it starts after it, else it
adds one to fewer than the limit. Forgotten requests are too old to be in its
period even for a caller whose clock is `Skew` behind.

`GroupsFitHolds` counts places, not sizes: a group is made only of places that the other
groups and the requests of the period leave. `InstantLimitHolds` needs more than the
limit itself: the requests of the last period and the places that groups have set aside and not spent
fit the limit *together* (`InstantInv`). When time passes, a group may get places
back because its own requests leave the period; each place that is vacant again is mapped, one to
one, to a request that left, so the sum does not grow (`FitsLater`); a request that is granted takes a free
place or one of its group (`FitsAdded`). Both are about any time, so the invariant is about
`latest`, the time of the latest call, and not about the clock: however late a call gets
the lock, while the calls are in order it counts all that fits at its time.

**OrderCreation** (assumptions: a positive amount). All theorems are about interleaved handlers. What a handler has
still to do is a list of steps, so the invariants speak about lists: `Later` says which steps may stand behind
a step, and `InOrder` that a list keeps to it. `TypeCorrect` comes first: each list has only steps the code
takes, and only the steps of a fill carry one. There is one lemma per step of a handler and two
inductive invariants.

`AnyInv` holds however handlers meet. `Handler` and `Sound` say which steps of a creation bring which, and that a fill
that comes with others is of an order of the cache; `Locks`, that a manager is locked only by a handler
that will unlock it; `Watched`, that a buffer that is not empty has a handler that will look into it, unless
something was buffered `late`; `Announcements`, that what was announced and what the two tasks are about to announce
is two at most. `HandlersGoOnHolds`, `NothingStrandedHolds` and `CreatedTwiceAtMostHolds` follow. For
`TrackedUntilFinishedHolds` and the first part of `FillsCountOnceHolds` there are `LeftInv` and `TradedInv`, which no
interleaving breaks either.

`SerialInv` holds until handlers meet (`UnlessOverlapped`): one of the two tasks has nothing to do, so the steps that are due can be related to the
state. If the creation is still to be announced nothing was announced; a fill that is to be added is not among those
added (`OnTheWay`), and so on. `EventsInOrderHolds`, `StatusGoesForwardHolds`, `FillsNeverPanicHolds`
and the second part of `FillsCountOnceHolds` follow. They are not claims about handlers that have met: the
run `OrderCreation_overlap` shows that the order may be announced twice then, and the same interleaving breaks the others.

**WsClient** (assumptions: "no selection" and "on" are not selections; the session serves some of the
topics; bounds are numbers). `TypeCorrect`, `NoSendBeforeOpenHolds`, `ServerAgreesHolds`. Both
properties speak of quiet moments, and what comes before is in queues on both sides: jobs
not run yet and messages not taken yet. `QueueInv` says that there is at most one chain of jobs
that opens or gives up a connection. `ConnInv` relates `isConnected` to the socket and has `Agree` for
an open one: for each topic, what the session will serve after the messages on the way is
what the client's state will say after the jobs in the queue. A command is sent in the same
job that queues its `setState`, so `Agree` is kept; messages and jobs go in their order, so
the last one decides. When both queues are empty it is `ServerAgrees`.

`PagesLeaveNothingHolds` and `PaintedBookIsSelectedHolds` (in `WsClientPagesProofs`) are about the end of
a task too, and need to know which jobs can be in the queue together: a page's update takes up to
four jobs, a `setState` renders the page and starts another, and slow jobs fall back. `Lined` says
which job may stand behind which (`MayFollow`): an update that `onopen` starts stays a job ahead of
`auth()` and `authorized`, and what a user or a message starts is not mixed with `onopen` or with the end
of a connection. The other parts of `PagesInv` hold along such a queue. `Backed`: without a connection
there is no subscription, and without a subscription no data. `LeftBehind`: a page that is not
open is unsubscribed or has a job that will do it. `Asked`: the open page has what it wants or an update is
on its way. `Steady`: nothing else is on its way; it holds while `auth()` is due and while a
page waits to be hidden, which is why the `setState` of `authorized` finds nothing more to
start. `Book`: the order book is of the subscribed pair, and the indicators are of it or the only job left
sets them. The pages of signals and of the dashboard do not ask before they
subscribe and are left out (`Guarded`); `leaked` is the hypothesis that no "now" page was hidden
while it subscribed, which is the case that does leave a subscription behind (section 5). Each action has one lemma; `SetStatePages` is the
step they share, and `Fits` says what a job must satisfy to be added.

**WebSession** (assumptions: there is a tab; at least one pair of tokens; the other
bounds are numbers). `TypeCorrect`, `NoTokenIsLeft`, `NoRequestMultiplies`, with the steps of all tabs interleaved at
every access to `localStorage`. `NothingLeftBehind` is not inductive: a document that is loaded shows the login form when
it finds no access token, and says nothing of the refresh token. The inductive invariant `LeftInv` follows a pair through its
two writes: where there is an access token a tab shows the application or runs something (`TokenHasTab`); between the
writes the first one stands or the pair is `cut` (`FirstWriteStands`); a refresh token without an access token is about to be
removed or of such a pair (`RefreshGoes`); and a tab with the login form waits for logins only (`OnlyLogins`). The exception is
needed: without it TLC finds a logout that comes between the two writes of another tab.
`RequestsDoNotMultiply` has the invariant `MarkInv`: a task that may still start a refresh (an interceptor is due
and the request has no mark) is the only one for its request, and nothing is on its way for that request. Of a refused refresh
both interceptors and the logout of its `catch` are due; the mark that the first one sets is what stops the second.

**WebSelection** (assumption `CatalogueAssumption`: exchanges have distinct names, which are not
empty and not "all", and at least one pair, whose code has no dash and is not "all").
`CodeRoundTrip`: a code written into an address is read back. `PushesOnce`: the
address that `checkParameters` pushes is one that it leaves alone, from any address and
any selection; each part of the address is stable by itself (interval, exchange, code,
the last by `CodeRoundTrip`). `PushesAnExchange`: it names an exchange that there is.
`removeDuplicatesUnique` says what the fold of `removeDuplicates` returns for every list, and
`AllSymbolsType` what follows for the list of "all". The library's induction theorems
take an operator and cannot be used here; `NatSetInduction` states induction for a *set* of
numbers, from the well-foundedness of `<` on `Nat`, and is applied to the set of those n for which
the function behind the fold is right up to n.

**WebPages** (in addition `TextsAssumption`, `TypedAssumption`: an address is made of strings,
and `BoundsAssumption`). `PagesTypes`, `AddressMatches`, `PaintsSelection` and
`VerdictMatches` are the four safety invariants of the run, for every catalogue, set of profiles,
of addresses and of texts, and all bounds. None of them is inductive: they speak of a
document at rest, and what matters is what the queue `jobs`, the continuations `conts` and the bag `net` still hold. The
inductive invariant `Inv` (`PagesInvariant`) says it of every state:

| part | what it says |
|---|---|
| `Typing` | the values of all variables: which jobs, continuations and requests there are |
| `Alone` | what a task puts into the queue is alone there, so an answer never meets a render that is queued |
| `Stage` | the exchanges are asked for, loaded and selected from once; only then (`Going`) does the header check anything |
| `MountedIsUrl`, `HeaderIsShown` | the page is that of the address or a render is queued; the header's jobs and continuations exist only on its pages |
| `Settled` | a page with a header whose address is not settled has a render of the header or a `setState` of the selection queued |
| `IntervalIsSet` | the interval is set before the rest, and to that of the address |
| `SymbolIsMended` | a patch made from the symbols of another exchange is followed by one that was not, unless it is harmless: the address names the first pair, or "all" |
| `PLGraphFollows`, `ExplanationFollows` | the data of a page is of the names it keeps, and a page that differs from the selection has a job or a render queued, or is loading |
| `EditorIsShown`, `VerdictComes` | the Editor is there when its text is; the verdict is that of its text, or its validation is to be sent, on its way, or in the queue |
| `UpdateIsOwn` | an update that is awaited is that of the Item on the page |

`SymbolIsMended` is the part that had to be found: `updateSelectedSymbol` copies a symbol by its
index from the list it was called with, and `setState` applies it to another list when an exchange
was selected in between. It is harmless because the last such patch in the queue is made from the current
list, or because the pair is the first of its exchange, for which `UrlMatchesSelection`
makes no claim about the record. The proof has a lemma per action that shows it to be one of eight kinds of step
(`Steps`: a task, two renders, two kinds of `setState`, three continuations), and a lemma per
part that shows it kept by all eight (`StepsStage`, `StepsSettled`, `StepsSymbol`, ...);
`InvSteps` puts them together. The hypotheses of `VerdictIsCurrent` are ghosts:
`gaveUp` and `strayed` name the cases in which the code does leave a stale verdict (section 5).

**Only model-checked.** Liveness under fairness, which is beyond the proof system:
`ReleaseEnds`, `TimedBlockEnds`, `CreateOrderReturns`, `MailIsNotLost`, `TasksEnd`, `Recovers`,
`RefreshesEnd`, `Settles`, `PagesFillIn`. Every safety invariant and every action property of the runs is
proved; `GroupsFit`, `CreatedTwiceAtMost` and `VerdictIsCurrent` are proved and no run repeats them. The findings are counterexamples, of which there is nothing to prove.

## 5. What is not modelled

Engine: prices, commissions and formats; handlers registered with the blocker; callers of
`wait_unblock`; the triggers and the polling manager of the request limits; orders
cancelled by the engine (`cancel_order`, `wait_cancel_order`); fills that carry only a
total; orders the engine did not create; event source types other than `All`; exchanges without
`supports_get_order_info_by_client_order_id`, for which `check_order_creation` looks through all open orders
(`create.rs:341-358`; every exchange of the repository has the feature); and
the components marked so in `PROJECT.json`.

Web: which role a user is given; rows that are unfolded in a table; `Trades.loadMore`; registration; the price page, which draws state that nothing fills; the
history of liquidity and volume, whose calls are commented out; the items of `localStorage` besides the two tokens; `Timewrapper` and
`Strategies`, which nothing renders; charts, tables and formats; the server's handlers
that only read from the database.

After an answer that cannot be parsed, `create_order` no longer listens on the channel
while its sender stays registered, so the next announcement is only logged
(`create_websocket_based.rs:55`) and `create_order` may end with the order still
Creating, which it logs as an error (`create.rs:208`). The model has this
behaviour; no property excludes it.

A fill that is buffered after the task that created the order has taken the buffer
(`buffered_fills_manager.rs:28`) is never replayed: the model reaches this when two handlers run at
the same time and names it `late`, the exception in `NothingStranded`. Two handlers of one order that meet may also announce the creation twice and
count a trade twice; `overlapped` tells that they met, and the properties that need the handlers one after another say so.

### Hazards without a property

Besides those `PROJECT.json` lists with a note, reading the engine showed these:
`exchange_blocker.rs:321` (the handlers of a moment run in a task nobody waits for, so those of
Unblocked may end before those of Blocked; `MomentsInOrder` is about their start, and the code promises no more),
`exchange_blocker.rs:735` (a waiter that polls misses a release between two looks),
`internal_events_loop.rs:43` (a receiver that lags ends the loop), `websocket.rs:75` (one
of two connections fails), `app_lifetime_manager.rs:57` (a shutdown asked for during
start is dropped), `trading_engine.rs:127` (shutdown calls the exchanges with a
token that is already cancelled), `cancellation_token.rs:53`,
`local_snapshot_service.rs:47` (an update before its snapshot) and
`profit_loss_stopper.rs:79` (check, then act). At `exchange_blocker.rs:243` the channel may close
between the look and the send; the model has this as `BlockLosesReceiver` and
`UnblockLosesReceiver`.

### Behaviour of the web client that the properties leave out

Each of these is what the code does. Those in the modelled parts are in the model, where a
property names the exception; nothing in the repository says otherwise, so they
are not findings.

Websocket
* `TradeSignals` and `Dashboard` subscribe on every rendering, and subscribing renders:
  with such a page open a task does not end (`Unguarded` in `TasksEnd`).
* The close event of a dead socket that was replaced empties the state of the new
  connection and stops its ping; `hb` notices later and connects again.
* `LiquidityNow` and `VolumeNow` hidden by an interval in the address while they subscribe
  leave the subscription behind (`leaked`); with `codes` changed by another page meanwhile, the book
  refuses its updates on return.
* Updates of PL and Volume are not compared with the selection. Commands
  for PL, Volume, TradeSignals and Dashboard are unknown to the server's session.
* A socket closed with 1000, 1001 or 1005 before its first Pong is not opened again.

Session
* Only the role guest may call `refresh-token`: a refresh with a bearer that is still good is
  refused, and any refresh that fails logs out.
* A logout between the writes of another tab's `setToken` (`cryptolpaxios.js:173-177`, `192-195`) leaves the refresh token of
  that pair in `localStorage`, though every tab shows the login form (`cut`). Nothing reads it until a login writes a new one, for
  the interceptor and the websocket refresh only in the application.
* An answer that comes between `logout` and the end of the document stores its tokens
  again; `logout` clears the storage of the other tabs; neither the header nor the client
  type is cleared.

Selection and pages
* A pair in the address is lost if the exchange selected before does not have it. If
  exchange and pair change together and the pair is the first of the new exchange, the record of
  the selected symbol stays that of the old one (the exception in `UrlMatchesSelection`).
* A link followed before the exchanges are loaded has empty parts, matches no route and
  reloads the document.
* `SignalsContainer` starts with `loading` set, and its page asks only when it is not: it
  never asks. `PLGraph` asks with empty names before the exchanges are loaded, and an error leaves it
  loading (`gaveUp` in `PagesFillIn`).
* The repetition of an empty answer ends when another answer of that name comes, or when another
  page stops it: the page waits until the selection changes.
* The verdict on a configuration is out of date after validations that overlap, after the
  timer of an `Editor` that is gone, or after a second answer with the configuration
  (`strayed`); saving is enabled by the verdict on an older text.
* Between the two steps that set order book and indicators a page is rendered with the new book and the old indicators;
  `PaintedBookIsSelected` looks when the task is over.
* A user whose saving fails is submitting until the list is left (`gaveUp`).

## 6. Plan

1. Cancellation: `cancel_order`, `wait_cancel_order`, `wait_order_finish`, with callers
   that share a worker.
2. Balance reservations over small amounts, with the conservation of what is
   reserved as an invariant, proved.
3. The event recorder with its postponed files, under failures and crashes.
4. Waiters of the blocker and the profit-loss stopper, composed with `ExchangeBlocker`.
5. The executor, composed of orders, reservations, groups and the blocker.
6. Websocket connectivity of the engine; lifecycle, shutdown and cancellation tokens.
7. The local order book and the chain of price sources as pure definitions against a
   reference; triggers of the request limits.
