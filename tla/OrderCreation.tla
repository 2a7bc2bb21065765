---------------------------- MODULE OrderCreation ----------------------------
(***************************************************************************)
(* core/src/exchanges/general/order/create.rs and the handlers of order    *)
(* events: one order from create_order() to its last event, while the      *)
(* exchange announces creation, fills and cancellation on its own.  Two    *)
(* tasks run handlers: the task of create_order(), which polls the request *)
(* and the fallback check in turn, and the task that reads the websocket.  *)
(* A handler takes several locks one after another, so it is a list of     *)
(* steps (todo), and the runtime lets the other task's steps come between. *)
(* Most of what create.rs relies on holds only while handlers do not meet: *)
(* the history variable overlapped tells whether they did.  Where a handler*)
(* ends the order (FailedToCreate, Canceled, Completed) it sets the status *)
(* and sends the event in one step.                                        *)
(***************************************************************************)
EXTENDS Integers, Sequences, FiniteSets

CONSTANTS
    Amount      \* the order's amount, in trades: every trade has amount 1

ASSUME AmountAssumption == Amount \in Nat \ {0}

VARIABLES
    order,      \* the OrderRef
    cached,     \* is it in orders.cache_by_exchange_id?
    tracked,    \* is it in orders.not_finished?
    events,     \* history: the order events sent
    bufFills,   \* BufferedFillsManager
    bufCancel,  \* BufferedCanceledOrdersManager
    locked,     \* which of the two managers a handler keeps locked
    tx,         \* is the sender in order_creation_events?
    rx,         \* does create_order_core() still listen?
    mail,       \* what was sent to it
    create,     \* where the task of create_order() is
    cancelled,  \* the caller's cancellation token
    old,        \* older than min_timeout_for_failed_to_create_order?
    info,       \* get_order_info(): not asked, asked, or the answer
    todo,       \* the steps left of the handler each task runs
    overlapped, \* history: were handlers of both tasks unfinished at once?
    late,       \* history: did one buffer what is for an order in the cache?
    ex,         \* external: the order at the exchange
    trades,     \* external: how many trades it had there
    rest,       \* external: the answer to the request
    ws,         \* external: websocket messages on their way, by topic
    panicked    \* the panic that happened, if any

orderVars  == <<order, cached, tracked, events>>
bufferVars == <<bufFills, bufCancel, locked, late>>
createVars == <<tx, rx, mail, create, cancelled, old, info>>
exVars     == <<ex, trades, rest, ws>>
vars == <<orderVars, bufferVars, createVars, exVars, todo, overlapped, panicked>>

-----------------------------------------------------------------------------
(* The data. *)

Tasks == {"create", "ws"}

OrderStatus == {"Creating", "Created", "FailedToCreate", "Canceled", "Completed"}

IsFinished(status) == status \in {"FailedToCreate", "Canceled", "Completed"}

Source == {"WebSocket", "RestFallback"}

(* FillAmount::Incremental: is total_filled_amount given? The trades of an  *)
(* order are numbered, so the total after trade t is t.                     *)
Fill == [trade : 1..Amount, total : BOOLEAN]

NoFill == [trade |-> 0, total |-> FALSE]

OrderEventType ==
    {"CreateOrderSucceeded", "CreateOrderFailed", "OrderFilled", "OrderCompleted",
     "CancelOrderSucceeded"}

Ops ==
    {"raise", "succeeded", "answered", "setCreated", "insert", "announce",
     "takeFills", "removeFills", "takeCancel", "removeCancel",
     "filled", "bufferFill", "addFill", "complete",
     "cancelled", "bufferCancel", "setCanceled", "failed", "setFailed", "end"}

Step == [op : Ops, fill : Fill \cup {NoFill}, src : Source]

Do(op, src) == [op |-> op, fill |-> NoFill, src |-> src]

DoFill(op, fill, src) == [op |-> op, fill |-> fill, src |-> src]

Topics == {"orders", "executions"}

TypeOK ==
    /\ order \in [status : OrderStatus, id : BOOLEAN, fallback : BOOLEAN,
                  fills : SUBSET (1..Amount), filled : Nat, cancelRaised : BOOLEAN]
    /\ cached \in BOOLEAN /\ tracked \in BOOLEAN
    /\ events \in Seq(OrderEventType)
    /\ bufFills \in Seq(Fill) /\ bufCancel \in BOOLEAN
    /\ locked \in [{"fills", "cancel"} -> BOOLEAN]
    /\ tx \in BOOLEAN /\ rx \in BOOLEAN /\ mail \in Source \cup {"none"}
    /\ create \in {"requesting", "accepted", "checking", "ending", "trades", "finished", "failed"}
    /\ cancelled \in BOOLEAN /\ old \in BOOLEAN
    /\ info \in {"none", "asked", "error", "NotFound", "FailedToCreate",
                 "Created", "Canceling", "Canceled", "Completed"}
    /\ todo \in [Tasks -> Seq(Step)] /\ overlapped \in BOOLEAN /\ late \in BOOLEAN
    /\ ex \in {"none", "rejected", "open", "canceled", "completed"}
    /\ trades \in 0..Amount
    /\ rest \in {"none", "success", "unparsed", "error"}
    /\ ws \in [Topics -> Seq(Step)]
    /\ panicked \in {"no", "failed order", "closed order", "overfilled", "no id"}

(* create_order() has put the order into the pool and its sender into       *)
(* order_creation_events, and the request is on its way.                    *)
Init ==
    /\ order = [status |-> "Creating", id |-> FALSE, fallback |-> FALSE,
                fills |-> {}, filled |-> 0, cancelRaised |-> FALSE]
    /\ cached = FALSE /\ tracked = TRUE
    /\ events = <<>>
    /\ bufFills = <<>> /\ bufCancel = FALSE
    /\ locked = [m \in {"fills", "cancel"} |-> FALSE]
    /\ tx = TRUE /\ rx = TRUE /\ mail = "none"
    /\ create = "requesting" /\ cancelled = FALSE /\ old = FALSE /\ info = "none"
    /\ todo = [p \in Tasks |-> <<>>] /\ overlapped = FALSE /\ late = FALSE
    /\ ex = "none" /\ trades = 0 /\ rest = "none"
    /\ ws = [t \in Topics |-> <<>>]
    /\ panicked = "no"

-----------------------------------------------------------------------------
(* Steps of a handler: the first is taken off, others may take its place.   *)

Becomes(p, steps) == todo' = [todo EXCEPT ![p] = steps \o Tail(@)]

Done(p) == Becomes(p, <<>>)

Panics(why) ==
    /\ panicked' = why
    /\ UNCHANGED <<orderVars, bufferVars, createVars, exVars, todo>>

(* Mutant: only a completed order leaves not_finished. *)
SendKeepsOrder(type, status) ==
    /\ events' = Append(events, type)
    /\ tracked' = (tracked /\ status # "Completed")

(* add_event_on_order_change() with the order's new status *)
Send(type, status) ==
    /\ events' = Append(events, type)
    /\ tracked' = (tracked /\ ~IsFinished(status))

-----------------------------------------------------------------------------
(* raise_order_created() and handle_create_order_succeeded() *)

(* Mutant: the sender stays in order_creation_events. *)
RaiseOrderCreatedAgain(p, s) ==
    /\ IF tx
       THEN mail' = (IF rx THEN s.src ELSE mail) /\ Done(p)
       ELSE Becomes(p, <<Do("succeeded", s.src)>>) /\ UNCHANGED mail
    /\ UNCHANGED <<orderVars, bufferVars, exVars, tx, rx, create, cancelled, old, info, panicked>>

(* The sender is used once.  When create_order_core() no longer listens,    *)
(* the announcement is only logged.                                         *)
RaiseOrderCreated(p, s) ==
    /\ IF tx
       THEN /\ tx' = FALSE
            /\ mail' = IF rx THEN s.src ELSE mail
            /\ Done(p)
       ELSE /\ Becomes(p, <<Do("succeeded", s.src)>>)
            /\ UNCHANGED <<tx, mail>>
    /\ UNCHANGED <<orderVars, bufferVars, exVars, rx, create, cancelled, old, info, panicked>>

(* Mutant: the buffered cancellation is forgotten. *)
CreationStepsForgetCancel(src) ==
    <<Do("setCreated", src), Do("insert", src), Do("announce", src), Do("takeFills", src)>>

(* Mutant: what is buffered is handled before the order is in the cache. *)
CreationStepsBuffersFirst(src) ==
    <<Do("setCreated", src), Do("takeFills", src), Do("takeCancel", src),
      Do("insert", src), Do("announce", src)>>

(* react_on_status_when_succeed() for an order that is Creating *)
CreationSteps(src) ==
    <<Do("setCreated", src), Do("insert", src), Do("announce", src),
      Do("takeFills", src), Do("takeCancel", src)>>

(* Mutant: every announcement of the creation is reacted on. *)
HandleCreateOrderSucceededAgain(p, s) ==
    /\ order' = [order EXCEPT !.id = TRUE]
    /\ Becomes(p, CreationSteps(s.src))
    /\ UNCHANGED <<cached, tracked, events, bufferVars, exVars, createVars, panicked>>

(* An order that FailedToCreate is an error: it ends create_order(), and a  *)
(* caller that came through raise_order_created() panics.                   *)
HandleCreateOrderSucceeded(p, s) ==
    /\ order' = [order EXCEPT !.id = TRUE]
    /\ IF order.status = "FailedToCreate"
       THEN /\ panicked' = IF s.op = "succeeded" THEN "failed order" ELSE panicked
            /\ create' = IF s.op = "answered" THEN "failed" ELSE create
            /\ todo' = [todo EXCEPT ![p] = <<>>]
       ELSE /\ Becomes(p, IF order.status = "Creating" /\ ~cached
                          THEN CreationSteps(s.src) ELSE <<>>)
            /\ UNCHANGED <<create, panicked>>
    /\ UNCHANGED <<cached, tracked, events, bufferVars, exVars, tx, rx, mail, cancelled, old, info>>

SetCreated(p, s) ==
    /\ order' = [order EXCEPT !.status = "Created", !.fallback = (s.src = "RestFallback")]
    /\ Done(p)
    /\ UNCHANGED <<cached, tracked, events, bufferVars, createVars, exVars, panicked>>

InsertIntoCache(p, s) ==
    /\ cached' = TRUE
    /\ Done(p)
    /\ UNCHANGED <<order, tracked, events, bufferVars, createVars, exVars, panicked>>

Announce(p, s) ==
    /\ Send("CreateOrderSucceeded", order.status)
    /\ Done(p)
    /\ UNCHANGED <<order, cached, bufferVars, createVars, exVars, panicked>>

(* The manager stays locked until the buffered fills are handled. *)
TakeFills(p, s) ==
    /\ ~locked["fills"]
    /\ IF bufFills = <<>>
       THEN Done(p) /\ UNCHANGED locked
       ELSE /\ locked' = [locked EXCEPT !["fills"] = TRUE]
            /\ Becomes(p, [k \in 1..Len(bufFills) |-> DoFill("filled", bufFills[k], s.src)]
                          \o <<Do("removeFills", s.src)>>)
    /\ UNCHANGED <<orderVars, bufFills, bufCancel, late, createVars, exVars, panicked>>

RemoveFills(p, s) ==
    /\ bufFills' = <<>>
    /\ locked' = [locked EXCEPT !["fills"] = FALSE]
    /\ Done(p)
    /\ UNCHANGED <<orderVars, bufCancel, late, createVars, exVars, panicked>>

TakeCancel(p, s) ==
    /\ ~locked["cancel"]
    /\ IF ~bufCancel
       THEN Done(p) /\ UNCHANGED locked
       ELSE /\ locked' = [locked EXCEPT !["cancel"] = TRUE]
            /\ Becomes(p, <<Do("cancelled", s.src), Do("removeCancel", s.src)>>)
    /\ UNCHANGED <<orderVars, bufFills, bufCancel, late, createVars, exVars, panicked>>

RemoveCancel(p, s) ==
    /\ bufCancel' = FALSE
    /\ locked' = [locked EXCEPT !["cancel"] = FALSE]
    /\ Done(p)
    /\ UNCHANGED <<orderVars, bufFills, late, createVars, exVars, panicked>>

-----------------------------------------------------------------------------
(* handle_order_filled() *)

(* Mutant: the trade ids already received are not looked at. *)
IsIgnoredByTotal(fill) == fill.total /\ order.filled + 1 # fill.trade

(* create_and_add_order_fill(): was_trade_already_received(), and           *)
(* should_miss_fill() for a fill that does not follow the last one.         *)
IsIgnored(fill) ==
    \/ fill.trade \in order.fills
    \/ fill.total /\ order.filled + 1 # fill.trade

(* panic_if_wrong_status_or_cancelled() comes after the other checks. *)
HandleOrderFilled(p, s) ==
    IF ~cached
    THEN /\ Becomes(p, <<DoFill("bufferFill", s.fill, s.src), Do("raise", s.src)>>)
         /\ UNCHANGED <<orderVars, bufferVars, createVars, exVars, panicked>>
    ELSE IF ~IsIgnored(s.fill) /\ order.status \in {"FailedToCreate", "Completed"}
    THEN Panics("closed order")
    ELSE /\ Becomes(p, IF IsIgnored(s.fill) \/ order.cancelRaised THEN <<>>
                       ELSE <<DoFill("addFill", s.fill, s.src), Do("complete", s.src)>>)
         /\ UNCHANGED <<orderVars, bufferVars, createVars, exVars, panicked>>

BufferFill(p, s) ==
    /\ ~locked["fills"]
    /\ bufFills' = Append(bufFills, s.fill)
    /\ late' = (late \/ cached)
    /\ Done(p)
    /\ UNCHANGED <<orderVars, bufCancel, locked, createVars, exVars, panicked>>

AddFill(p, s) ==
    /\ order' = [order EXCEPT !.fills = @ \cup {s.fill.trade}, !.filled = @ + 1]
    /\ Done(p)
    /\ UNCHANGED <<cached, tracked, events, bufferVars, createVars, exVars, panicked>>

(* panic_if_fill_amounts_conformity(), send_order_filled_event() and        *)
(* react_if_order_completed(), whatever the status was.                     *)
CompleteIfFilled(p, s) ==
    IF order.filled > Amount
    THEN Panics("overfilled")
    ELSE /\ IF order.filled < Amount
            THEN Send("OrderFilled", order.status) /\ UNCHANGED order
            ELSE /\ order' = [order EXCEPT !.status = "Completed"]
                 /\ events' = events \o <<"OrderFilled", "OrderCompleted">>
                 /\ tracked' = FALSE
         /\ Done(p)
         /\ UNCHANGED <<cached, bufferVars, createVars, exVars, panicked>>

-----------------------------------------------------------------------------
(* handle_cancel_order_succeeded(): the exchange itself cancels the order,  *)
(* is_canceling_from_wait_cancel_order is not set.                          *)

HandleCancelOrderSucceeded(p, s) ==
    /\ Becomes(p, IF ~cached THEN <<Do("bufferCancel", s.src), Do("raise", s.src)>>
                  ELSE IF order.status \in {"Canceled", "Completed"} THEN <<>>
                  ELSE <<Do("setCanceled", s.src)>>)
    /\ UNCHANGED <<orderVars, bufferVars, createVars, exVars, panicked>>

BufferCancel(p, s) ==
    /\ ~locked["cancel"]
    /\ bufCancel' = TRUE
    /\ late' = (late \/ cached)
    /\ Done(p)
    /\ UNCHANGED <<orderVars, bufFills, locked, createVars, exVars, panicked>>

SetCanceled(p, s) ==
    /\ order' = [order EXCEPT !.status = "Canceled", !.cancelRaised = TRUE]
    /\ Send("CancelOrderSucceeded", "Canceled")
    /\ Done(p)
    /\ UNCHANGED <<cached, bufferVars, createVars, exVars, panicked>>

-----------------------------------------------------------------------------
(* handle_create_order_failed() *)

HandleCreateOrderFailed(p, s) ==
    /\ Becomes(p, IF order.status = "Creating" THEN <<Do("setFailed", s.src)>> ELSE <<>>)
    /\ UNCHANGED <<orderVars, bufferVars, createVars, exVars, panicked>>

SetFailed(p, s) ==
    /\ order' = [order EXCEPT !.status = "FailedToCreate"]
    /\ Send("CreateOrderFailed", "FailedToCreate")
    /\ Done(p)
    /\ UNCHANGED <<cached, bufferVars, createVars, exVars, panicked>>

(* handle_created_order(): an order found by the fallback may have fills.   *)
EndCreateOrder(p, s) ==
    /\ create' = IF order.fallback /\ order.status # "FailedToCreate" THEN "trades" ELSE "finished"
    /\ Done(p)
    /\ UNCHANGED <<orderVars, bufferVars, exVars, tx, rx, mail, cancelled, old, info, panicked>>

-----------------------------------------------------------------------------

(* Do the handlers of both tasks meet? *)
Meets == overlapped' = (overlapped \/ \A p \in Tasks : todo'[p] # <<>>)

TakeStep(p) ==
    /\ todo[p] # <<>>
    /\ LET s == Head(todo[p])
       IN  \/ s.op = "raise"        /\ RaiseOrderCreated(p, s)
           \/ s.op \in {"succeeded", "answered"} /\ HandleCreateOrderSucceeded(p, s)
           \/ s.op = "setCreated"   /\ SetCreated(p, s)
           \/ s.op = "insert"       /\ InsertIntoCache(p, s)
           \/ s.op = "announce"     /\ Announce(p, s)
           \/ s.op = "takeFills"    /\ TakeFills(p, s)
           \/ s.op = "removeFills"  /\ RemoveFills(p, s)
           \/ s.op = "takeCancel"   /\ TakeCancel(p, s)
           \/ s.op = "removeCancel" /\ RemoveCancel(p, s)
           \/ s.op = "filled"       /\ HandleOrderFilled(p, s)
           \/ s.op = "bufferFill"   /\ BufferFill(p, s)
           \/ s.op = "addFill"      /\ AddFill(p, s)
           \/ s.op = "complete"     /\ CompleteIfFilled(p, s)
           \/ s.op = "cancelled"    /\ HandleCancelOrderSucceeded(p, s)
           \/ s.op = "bufferCancel" /\ BufferCancel(p, s)
           \/ s.op = "setCanceled"  /\ SetCanceled(p, s)
           \/ s.op = "failed"       /\ HandleCreateOrderFailed(p, s)
           \/ s.op = "setFailed"    /\ SetFailed(p, s)
           \/ s.op = "end"          /\ EndCreateOrder(p, s)
    /\ Meets

(* The websocket task calls the callback for the next message of a topic. *)
Deliver(topic) ==
    /\ todo["ws"] = <<>>
    /\ ws[topic] # <<>>
    /\ todo' = [todo EXCEPT !["ws"] = <<Head(ws[topic])>>] /\ Meets
    /\ ws' = [ws EXCEPT ![topic] = Tail(@)]
    /\ UNCHANGED <<orderVars, bufferVars, createVars, ex, trades, rest, panicked>>

-----------------------------------------------------------------------------
(* The task of create_order(): create_order_base() and poll_order_create(), *)
(* whichever ends first.  When it goes on, the other one is dropped.        *)

Selecting == create \in {"requesting", "accepted"}

Begins(steps) ==
    /\ todo["create"] = <<>>
    /\ todo' = [todo EXCEPT !["create"] = steps] /\ Meets
    /\ UNCHANGED <<cached, tracked, events, bufferVars, cancelled, old, exVars>>

StopsSelecting(next) == create' = next /\ rx' = FALSE /\ info' = "none"

(* The request succeeds: the result comes through the channel. *)
RequestAccepted ==
    /\ create = "requesting" /\ rest = "success"
    /\ Begins(<<>>)
    /\ create' = "accepted"
    /\ UNCHANGED <<order, tx, rx, mail, info, panicked>>

(* The request fails: the order is failed and create_order() returns an     *)
(* error; the answer cannot be read: check_order_creation().                *)
RequestFails ==
    /\ create = "requesting" /\ rest \in {"error", "unparsed"}
    /\ IF rest = "error"
       THEN StopsSelecting("failed") /\ Begins(<<Do("failed", "WebSocket")>>)
       ELSE StopsSelecting("checking") /\ Begins(<<>>)
    /\ UNCHANGED <<order, tx, mail, panicked>>

ReceiveCreated ==
    /\ Selecting /\ mail # "none"
    /\ StopsSelecting("ending")
    /\ Begins(<<Do("answered", mail), Do("end", mail)>>)
    /\ UNCHANGED <<order, tx, mail, panicked>>

(* check_order_creation() for poll_order_create() or after an unparsed      *)
(* answer: the status is looked at before and after the request.            *)
AskOrderInfo ==
    /\ Selecting \/ create = "checking"
    /\ info = "none" /\ order.status = "Creating"
    /\ Begins(<<>>)
    /\ info' = "asked"
    /\ UNCHANGED <<order, tx, rx, mail, create, panicked>>

(* handle_creating_order_from_check_order_info(): any other status is only  *)
(* logged.                                                                  *)
InfoSteps ==
    CASE info = "FailedToCreate"           -> <<Do("failed", "RestFallback")>>
      [] info = "Canceled"                 -> <<Do("cancelled", "RestFallback")>>
      [] info \in {"Created", "Completed"} -> <<Do("raise", "RestFallback")>>
      [] info = "Canceling"                -> <<>>

HandleOrderInfo ==
    /\ info \notin {"none", "asked"}
    /\ info' = "none"
    /\ \/ /\ order.status # "Creating" \/ info = "error" \/ (info = "NotFound" /\ ~old)
          /\ Begins(<<>>)
          /\ UNCHANGED <<order, create>>
       \/ /\ order.status = "Creating" /\ info = "NotFound" /\ old
          /\ Begins(<<Do("failed", "RestFallback")>>)
          /\ UNCHANGED <<order, create>>
       \/ /\ order.status = "Creating" /\ info \notin {"error", "NotFound"}
          /\ order' = [order EXCEPT !.id = TRUE]
          /\ IF create = "checking"
             THEN Begins(InfoSteps \o <<Do("end", "RestFallback")>>) /\ create' = "ending"
             ELSE Begins(InfoSteps) /\ UNCHANGED create
    /\ UNCHANGED <<tx, rx, mail, panicked>>

(* Mutant: only the token ends the check. *)
FallbackEndsByToken ==
    /\ info = "none"
    /\ Selecting \/ create = "checking"
    /\ cancelled
    /\ StopsSelecting("ending")
    /\ IF order.id
       THEN Begins(<<Do("end", "RestFallback")>>) /\ UNCHANGED panicked
       ELSE Begins(<<>>) /\ panicked' = "no id"
    /\ UNCHANGED <<order, tx, mail>>

(* poll_order_create() or the check sees that the order is not Creating or  *)
(* that the token is cancelled: the expect() on exchange_order_id.          *)
FallbackEnds ==
    /\ info = "none"
    /\ Selecting \/ create = "checking"
    /\ order.status # "Creating" \/ cancelled
    /\ StopsSelecting("ending")
    /\ IF order.id
       THEN Begins(<<Do("end", "RestFallback")>>) /\ UNCHANGED panicked
       ELSE Begins(<<>>) /\ panicked' = "no id"
    /\ UNCHANGED <<order, tx, mail>>

CallerCancels ==
    /\ ~cancelled
    /\ cancelled' = TRUE
    /\ UNCHANGED <<orderVars, bufferVars, tx, rx, mail, create, old, info, exVars, todo, overlapped, panicked>>

MinutePasses ==
    /\ ~old
    /\ old' = TRUE
    /\ UNCHANGED <<orderVars, bufferVars, tx, rx, mail, create, cancelled, info, exVars, todo, overlapped,
                   panicked>>

(* create_order_core() sees the token, or poll_order_create() times out. *)
CreateOrderGivesUp ==
    /\ Selecting
    /\ StopsSelecting("failed")
    /\ Begins(<<>>)
    /\ UNCHANGED <<order, tx, mail, panicked>>

(* Mutant: the trades of the answer are taken with the wrong number. *)
CheckOrderFillsFromZero(n) ==
    /\ create = "trades"
    /\ order.status \in {"Creating", "Completed"} => n = 0
    /\ create' = "finished"
    /\ Begins([k \in 1..n |-> DoFill("filled", [trade |-> k - 1, total |-> FALSE], "RestFallback")])
    /\ UNCHANGED <<order, tx, rx, mail, info, panicked>>

(* check_order_fills() with an answer that has n trades: none when the      *)
(* exchange has no such request, its answer is late, or the loop is left.   *)
CheckOrderFills(n) ==
    /\ create = "trades"
    /\ order.status \in {"Creating", "Completed"} => n = 0
    /\ create' = "finished"
    /\ Begins([k \in 1..n |-> DoFill("filled", [trade |-> k, total |-> FALSE], "RestFallback")])
    /\ UNCHANGED <<order, tx, rx, mail, info, panicked>>

-----------------------------------------------------------------------------
(* The exchange (external).  A message may be lost with the connection.     *)

Publish(topic, m) == ws' = [ws EXCEPT ![topic] = Append(@, m)] \/ ws' = ws

ExchangeSteps ==
    UNCHANGED <<orderVars, bufferVars, tx, rx, mail, create, cancelled, old, todo, overlapped,
                panicked>>

(* An order is accepted or rejected; the answer may come back garbled.  One *)
(* that is still open may be reported as about to be canceled.              *)
ExchangeDecides ==
    /\ ex = "none"
    /\ \/ /\ ex' = "open" /\ rest' \in {"success", "unparsed"}
          /\ Publish("orders", Do("raise", "WebSocket"))
       \/ /\ ex' = "rejected" /\ rest' \in {"error", "unparsed"}
          /\ UNCHANGED ws
    /\ ExchangeSteps /\ UNCHANGED <<trades, info>>

ExchangeTrades ==
    /\ ex = "open"
    /\ trades' = trades + 1
    /\ ex' = IF trades' = Amount THEN "completed" ELSE "open"
    /\ Publish("executions", DoFill("filled", [trade |-> trades', total |-> TRUE], "WebSocket"))
    /\ ExchangeSteps /\ UNCHANGED <<rest, info>>

ExchangeCancels ==
    /\ ex = "open"
    /\ ex' = "canceled"
    /\ Publish("orders", Do("cancelled", "WebSocket"))
    /\ ExchangeSteps /\ UNCHANGED <<trades, rest, info>>

InfoOf(state) ==
    CASE state = "none"      -> {"NotFound"}
      [] state = "rejected"  -> {"NotFound", "FailedToCreate"}
      [] state = "open"      -> {"Created", "Canceling"}
      [] state = "canceled"  -> {"Canceled"}
      [] state = "completed" -> {"Completed"}

ExchangeInforms(answers) ==
    /\ info = "asked"
    /\ info' \in answers
    /\ ExchangeSteps /\ UNCHANGED exVars

-----------------------------------------------------------------------------

Next ==
    /\ panicked = "no"
    /\ \/ \E p \in Tasks : TakeStep(p)
       \/ \E topic \in Topics : Deliver(topic)
       \/ RequestAccepted \/ RequestFails \/ ReceiveCreated
       \/ AskOrderInfo \/ HandleOrderInfo \/ FallbackEnds
       \/ CallerCancels \/ MinutePasses \/ CreateOrderGivesUp
       \/ \E n \in 0..trades : CheckOrderFills(n)
       \/ ExchangeDecides \/ ExchangeTrades \/ ExchangeCancels
       \/ ExchangeInforms(InfoOf(ex)) \/ ExchangeInforms({"error"})

Spec == Init /\ [][Next]_vars

(* The runtime runs both tasks; poll_order_create() has a timeout; the      *)
(* exchange answers get_order_info() properly, time and again.              *)
Fairness ==
    /\ \A p \in Tasks : WF_vars(panicked = "no" /\ TakeStep(p))
    /\ WF_vars(panicked = "no" /\ (RequestAccepted \/ RequestFails \/ ReceiveCreated
                                   \/ AskOrderInfo \/ HandleOrderInfo))
    /\ WF_vars(panicked = "no" /\ FallbackEnds)
    /\ WF_vars(panicked = "no" /\ CreateOrderGivesUp)
    /\ WF_vars(panicked = "no" /\ \E n \in 0..trades : CheckOrderFills(n))
    /\ SF_vars(panicked = "no" /\ ExchangeInforms(InfoOf(ex)))
    /\ WF_vars(panicked = "no" /\ MinutePasses)

FairSpec == Spec /\ Fairness

-----------------------------------------------------------------------------
(* The properties.  What they say of ~overlapped holds as long as the       *)
(* handlers of the two tasks have not met, and no longer: CreatedOnce, which*)
(* comes without it, fails.                                                 *)

(* No handler runs. *)
Quiet == panicked = "no" /\ \A p \in Tasks : todo[p] = <<>>

(* However handlers overlap, they do not wait for each other or for         *)
(* themselves: while some run, one of them goes on.  A manager stays locked *)
(* while buffered fills are handled, and a fill that is not for an order of *)
(* the cache locks that manager.                                            *)
Waits(p) ==
    /\ todo[p] # <<>>
    /\ \/ Head(todo[p]).op \in {"takeFills", "bufferFill"} /\ locked["fills"]
       \/ Head(todo[p]).op \in {"takeCancel", "bufferCancel"} /\ locked["cancel"]

HandlersGoOn ==
    (\E p \in Tasks : todo[p] # <<>>) => \E p \in Tasks : todo[p] # <<>> /\ ~Waits(p)

(* Fills and cancellations that overtook the creation are handled when it   *)
(* comes, also when handlers overlap, and none is left in a buffer nobody   *)
(* will look into again; unless the handler that found the order not to be  *)
(* in the cache reaches the buffer when the order has got there.            *)
NothingStranded == ~late /\ Quiet /\ cached => bufFills = <<>> /\ ~bufCancel

(* A trade of the exchange counts, and once, though it may come by the      *)
(* websocket, out of the buffer and again by check_order_fills(); the order *)
(* is Completed when and only when all of its amount is filled.  Handlers   *)
(* that overlap may count a trade twice, never less than once.              *)
FillsCountOnce ==
    /\ order.fills \subseteq 1..trades /\ order.filled >= Cardinality(order.fills)
    /\ ~overlapped /\ Quiet =>
         /\ order.filled = Cardinality(order.fills)
         /\ order.status = "Completed" <=> order.filled = Amount

(* The events of an order tell a story: it begins with its creation or is   *)
(* that creation failed, and ends with completion or cancellation, once.    *)
EventsInOrder ==
    ~overlapped =>
      \A k \in 1..Len(events) :
        /\ events[k] \in {"CreateOrderSucceeded", "CreateOrderFailed"} <=> k = 1
        /\ events[k] \in {"CreateOrderFailed", "OrderCompleted", "CancelOrderSucceeded"}
             => k = Len(events)

(* An order is in not_finished until it is finished: it leaves with its     *)
(* last event, and no finished order is there.  Handlers that overlap may   *)
(* give an order that has left another status, and it does not come back.   *)
TrackedUntilFinished ==
    /\ IsFinished(order.status) => ~tracked
    /\ ~tracked => \E k \in 1..Len(events) :
         events[k] \in {"CreateOrderFailed", "OrderCompleted", "CancelOrderSucceeded"}
    /\ ~tracked /\ ~overlapped => IsFinished(order.status)

Rank(status) ==
    CASE status = "Creating" -> 0 [] status = "Created" -> 1
      [] status = "Canceled" -> 2 [] status \in {"FailedToCreate", "Completed"} -> 3

(* No event, however late, moves the status of an order back. *)
StatusGoesForward ==
    [][~overlapped' /\ order'.status # order.status =>
         /\ Rank(order.status) < Rank(order'.status)
         /\ order'.status = "FailedToCreate" => order.status = "Creating"]_vars

(* The fallback checks never wait for themselves: create_order() returns. *)
CreateOrderReturns == <>(create \in {"finished", "failed"} \/ panicked # "no")

(* What was sent to create_order_core() is not lost with its receiver, when *)
(* the answer to the request ends it first: the order gets its status,      *)
(* unless the check then finds it about to be canceled and leaves it so.    *)
MailIsNotLost ==
    (mail # "none" /\ rx) ~>
      \/ order.status # "Creating" \/ create = "failed" \/ cancelled \/ panicked # "no"
      \/ create = "checking" /\ info = "Canceling"

(* The expect()s on exchange_order_id in create_order() hold, unless the    *)
(* caller cancels: an order that is not Creating has its id.                *)
IdIsKnown == ~cancelled => panicked # "no id"

(* An order is announced once, and its reservation is to be approved once,  *)
(* although both tasks may react to its creation.                           *)
Announced == {k \in 1..Len(events) : events[k] = "CreateOrderSucceeded"}

CreatedOnce == Cardinality(Announced) <= 1

(* At worst each of the two tasks announces the order, by whichever of the  *)
(* ways, and however often, its creation is reported.                       *)
CreatedTwiceAtMost == Cardinality(Announced) <= 2

(* No fill makes the process panic, however late it comes, as long as the   *)
(* handlers of the two tasks have not met: an order is never overfilled, and*)
(* a fill of a completed order is one that was counted before.              *)
FillsNeverPanic == ~overlapped => panicked \notin {"overfilled", "closed order"}
=============================================================================
