------------------------ MODULE OrderCreationProofs ------------------------
(* Theorems about OrderCreation. *)
EXTENDS OrderCreation, FiniteSetTheorems, TLAPS

-----------------------------------------------------------------------------
(* Types *)

(* The steps that carry a fill. *)
FillOps == {"filled", "bufferFill", "addFill"}

GoodStep == [op : FillOps, fill : Fill, src : Source]
              \cup [op : Ops \ FillOps, fill : {NoFill}, src : Source]

OrderType == [status : OrderStatus, id : BOOLEAN, fallback : BOOLEAN,
              fills : SUBSET (1..Amount), filled : Nat, cancelRaised : BOOLEAN]

OrderTyped == /\ order \in OrderType /\ cached \in BOOLEAN /\ tracked \in BOOLEAN
              /\ events \in Seq(OrderEventType)

BufferTyped == /\ bufFills \in Seq(Fill) /\ bufCancel \in BOOLEAN
               /\ locked \in [{"fills", "cancel"} -> BOOLEAN] /\ late \in BOOLEAN

CreateTyped ==
    /\ tx \in BOOLEAN /\ rx \in BOOLEAN /\ mail \in Source \cup {"none"}
    /\ create \in {"requesting", "accepted", "checking", "ending", "trades", "finished", "failed"}
    /\ cancelled \in BOOLEAN /\ old \in BOOLEAN
    /\ info \in {"none", "asked", "error", "NotFound", "FailedToCreate",
                 "Created", "Canceling", "Canceled", "Completed"}

ExTyped ==
    /\ ex \in {"none", "rejected", "open", "canceled", "completed"}
    /\ trades \in 0..Amount
    /\ ex = "open" => trades < Amount
    /\ ex \in {"none", "rejected"} => trades = 0
    /\ rest \in {"none", "success", "unparsed", "error"}

PanicTyped == panicked \in {"no", "failed order", "closed order", "overfilled", "no id"}

TodoTyped == todo \in [Tasks -> Seq(GoodStep)]

WsTyped == ws \in [Topics -> Seq(GoodStep)]

Typed == /\ OrderTyped /\ BufferTyped /\ CreateTyped /\ ExTyped /\ PanicTyped
         /\ TodoTyped /\ WsTyped

LEMMA SeqSubset ==
    ASSUME NEW S, NEW T, S \subseteq T, NEW q \in Seq(S)
    PROVE  q \in Seq(T)
OBVIOUS

LEMMA GoodIsStep == GoodStep \subseteq Step
BY DEF GoodStep, Step, FillOps, Ops

LEMMA TypedIsTypeOK == Typed /\ overlapped \in BOOLEAN => TypeOK
<1> SUFFICES ASSUME Typed, overlapped \in BOOLEAN PROVE TypeOK
  OBVIOUS
<1>1. todo \in [Tasks -> Seq(Step)] /\ ws \in [Topics -> Seq(Step)]
  BY GoodIsStep, SeqSubset DEF Typed, TodoTyped, WsTyped
<1> QED BY <1>1, Zenon DEF Typed, TypeOK, OrderTyped, OrderType, BufferTyped, CreateTyped, ExTyped, PanicTyped

LEMMA DoTyped ==
    /\ \A op \in Ops \ FillOps, src \in Source : Do(op, src) \in GoodStep
    /\ \A op \in FillOps, fill \in Fill, src \in Source : DoFill(op, fill, src) \in GoodStep
BY DEF Do, DoFill, GoodStep

LEMMA DoFields ==
    /\ \A op, src : Do(op, src).op = op /\ Do(op, src).src = src
    /\ \A op, fill, src : DoFill(op, fill, src).op = op /\ DoFill(op, fill, src).fill = fill
                         /\ DoFill(op, fill, src).src = src
BY DEF Do, DoFill

LEMMA Concat ==
    ASSUME NEW S, NEW a \in Seq(S), NEW b \in Seq(S)
    PROVE  a \o b \in Seq(S)
OBVIOUS

LEMMA Short ==
    ASSUME NEW S
    PROVE  /\ <<>> \in Seq(S)
           /\ \A x \in S : <<x>> \in Seq(S)
           /\ \A x, y \in S : <<x, y>> \in Seq(S)
OBVIOUS

LEMMA HeadTail ==
    ASSUME NEW S, NEW q \in Seq(S), q # <<>>
    PROVE  Head(q) \in S /\ Tail(q) \in Seq(S)
OBVIOUS

LEMMA TailOfOne ==
    ASSUME NEW S, NEW q \in Seq(S), q # <<>>
    PROVE  Len(q) = 1 => Tail(q) = <<>>
<1> DEFINE r == Tail(q)
<1>1. r \in Seq(S) /\ Len(r) = Len(q) - 1
  OBVIOUS
<1>2. Len(q) = 1 => Len(r) = 0
  BY <1>1
<1> HIDE DEF r
<1>3. Len(r) = 0 => r = <<>>
  BY <1>1
<1> QED BY <1>2, <1>3 DEF r

LEMMA AppendTyped ==
    ASSUME NEW S, NEW q \in Seq(S), NEW x \in S
    PROVE  Append(q, x) \in Seq(S)
OBVIOUS

(* The step at the head of a handler. *)
LEMMA StepFacts ==
    ASSUME TodoTyped, NEW p \in Tasks, todo[p] # <<>>
    PROVE  /\ Head(todo[p]) \in GoodStep /\ Tail(todo[p]) \in Seq(GoodStep)
           /\ Head(todo[p]).src \in Source /\ Head(todo[p]).op \in Ops
           /\ Head(todo[p]).op \in FillOps => Head(todo[p]).fill \in Fill
<1>1. Head(todo[p]) \in GoodStep /\ Tail(todo[p]) \in Seq(GoodStep)
  BY HeadTail DEF TodoTyped
<1>2. \A s \in GoodStep : s.src \in Source /\ s.op \in Ops /\ (s.op \in FillOps => s.fill \in Fill)
  BY DEF GoodStep, FillOps, Ops
<1> QED BY <1>1, <1>2

LEMMA BecomesTyped ==
    ASSUME TodoTyped, NEW p \in Tasks, todo[p] # <<>>, NEW steps \in Seq(GoodStep), Becomes(p, steps)
    PROVE  TodoTyped'
<1>1. Tail(todo[p]) \in Seq(GoodStep)
  BY StepFacts
<1>2. steps \o Tail(todo[p]) \in Seq(GoodStep)
  BY <1>1, Concat
<1>3. todo' = [todo EXCEPT ![p] = steps \o Tail(todo[p])]
  BY DEF Becomes
<1> QED BY <1>2, <1>3 DEF TodoTyped

LEMMA DoneTyped ==
    ASSUME TodoTyped, NEW p \in Tasks, todo[p] # <<>>, Done(p)
    PROVE  TodoTyped'
BY BecomesTyped, Short DEF Done

LEMMA BeginsTyped ==
    ASSUME TodoTyped, NEW steps \in Seq(GoodStep), Begins(steps)
    PROVE  TodoTyped'
BY DEF Begins, TodoTyped, Tasks

LEMMA CreationStepsTyped ==
    ASSUME NEW src \in Source
    PROVE  CreationSteps(src) \in Seq(GoodStep)
<1>1. /\ Do("setCreated", src) \in GoodStep /\ Do("insert", src) \in GoodStep
      /\ Do("announce", src) \in GoodStep /\ Do("takeFills", src) \in GoodStep
      /\ Do("takeCancel", src) \in GoodStep
  BY DoTyped DEF Ops, FillOps
<1> HIDE DEF GoodStep, Do
<1> QED BY <1>1 DEF CreationSteps

LEMMA FillStepsTyped ==
    ASSUME NEW n \in Nat, NEW f, \A k \in 1..n : f[k] \in Fill, NEW src \in Source
    PROVE  [k \in 1..n |-> DoFill("filled", f[k], src)] \in Seq(GoodStep)
<1>1. \A k \in 1..n : DoFill("filled", f[k], src) \in GoodStep
  BY DoTyped DEF FillOps
<1> QED BY <1>1

LEMMA SendTyped ==
    ASSUME OrderTyped, NEW type \in OrderEventType, NEW status, Send(type, status)
    PROVE  events' \in Seq(OrderEventType) /\ tracked' \in BOOLEAN
<1>1. events' = Append(events, type) /\ tracked' \in BOOLEAN
  BY DEF Send, OrderTyped
<1> QED BY <1>1, AppendTyped DEF OrderTyped

LEMMA Kept ==
    /\ OrderTyped /\ UNCHANGED orderVars => OrderTyped'
    /\ BufferTyped /\ UNCHANGED bufferVars => BufferTyped'
    /\ CreateTyped /\ UNCHANGED createVars => CreateTyped'
    /\ ExTyped /\ UNCHANGED <<ex, trades, rest>> => ExTyped'
    /\ WsTyped /\ UNCHANGED ws => WsTyped'
    /\ PanicTyped /\ UNCHANGED panicked => PanicTyped'
    /\ TodoTyped /\ UNCHANGED todo => TodoTyped'
BY DEF OrderTyped, BufferTyped, CreateTyped, ExTyped, WsTyped, PanicTyped, TodoTyped,
       orderVars, bufferVars, createVars

LEMMA TakeStepTyped ==
    ASSUME Typed, NEW p \in Tasks, TakeStep(p)
    PROVE  Typed'
<1> DEFINE s == Head(todo[p])
<1>0. /\ todo[p] # <<>> /\ TodoTyped /\ OrderTyped /\ BufferTyped /\ CreateTyped /\ ExTyped
      /\ PanicTyped /\ WsTyped
  BY DEF TakeStep, Typed
<1>1. s \in GoodStep /\ s.src \in Source /\ (s.op \in FillOps => s.fill \in Fill)
  BY <1>0, StepFacts
<1>2. \A op \in Ops \ FillOps : <<Do(op, s.src)>> \in Seq(GoodStep)
  BY <1>1, DoTyped, Short
<1>3. \A a, b \in Ops \ FillOps : <<Do(a, s.src), Do(b, s.src)>> \in Seq(GoodStep)
  BY <1>1, DoTyped, Short
<1>4. \A a \in FillOps, b \in Ops \ FillOps :
        s.op \in FillOps => <<DoFill(a, s.fill, s.src), Do(b, s.src)>> \in Seq(GoodStep)
  BY <1>1, DoTyped, Short
<1>5. <<>> \in Seq(GoodStep) /\ CreationSteps(s.src) \in Seq(GoodStep)
  BY <1>1, Short, CreationStepsTyped
<1>6. ASSUME NEW steps \in Seq(GoodStep), Becomes(p, steps) PROVE TodoTyped'
  BY <1>0, <1>6, BecomesTyped
<1>7. ASSUME Done(p) PROVE TodoTyped'
  BY <1>0, <1>7, DoneTyped
<1> HIDE DEF s
<1>8. ASSUME s.op = "raise", RaiseOrderCreated(p, s) PROVE Typed'
  <2>1. /\ UNCHANGED <<orderVars, bufferVars, ex, trades, rest, ws, rx, create, cancelled, old, info, panicked>>
        /\ tx' \in BOOLEAN /\ mail' \in Source \cup {"none"}
    BY <1>0, <1>1, <1>8 DEF RaiseOrderCreated, exVars, CreateTyped
  <2>2. TodoTyped'
    <3>1. Done(p) \/ Becomes(p, <<Do("succeeded", s.src)>>)
      BY <1>8 DEF RaiseOrderCreated
    <3>2. <<Do("succeeded", s.src)>> \in Seq(GoodStep)
      BY <1>2 DEF Ops, FillOps
    <3> QED BY <1>6, <1>7, <3>1, <3>2
  <2>3. CreateTyped'
    BY <1>0, <2>1 DEF CreateTyped
  <2> QED BY <1>0, <2>1, <2>2, <2>3, Kept DEF Typed
<1>9. ASSUME HandleCreateOrderSucceeded(p, s) PROVE Typed'
  <2>1. /\ UNCHANGED <<cached, tracked, events, bufferVars, ex, trades, rest, ws, tx, rx, mail, cancelled, old, info>>
        /\ order' = [order EXCEPT !.id = TRUE]
        /\ panicked' \in {panicked, "failed order"}
        /\ create' \in {create, "failed"}
    BY <1>9 DEF HandleCreateOrderSucceeded, exVars
  <2>2. TodoTyped'
    <3>1. \/ todo' = [todo EXCEPT ![p] = <<>>]
          \/ Becomes(p, CreationSteps(s.src)) \/ Becomes(p, <<>>)
      BY <1>9 DEF HandleCreateOrderSucceeded
    <3>2. CASE todo' = [todo EXCEPT ![p] = <<>>]
      BY <1>0, <1>5, <3>2 DEF TodoTyped
    <3> QED BY <1>5, <1>6, <3>1, <3>2
  <2>3. OrderTyped'
    BY <1>0, <2>1 DEF OrderTyped, OrderType
  <2>4. CreateTyped' /\ PanicTyped'
    BY <1>0, <2>1, ZenonT(60) DEF CreateTyped, PanicTyped
  <2> QED BY <1>0, <2>1, <2>2, <2>3, <2>4, Kept DEF Typed
<1>10. ASSUME \/ SetCreated(p, s) \/ SetCanceled(p, s) \/ SetFailed(p, s) \/ InsertIntoCache(p, s)
              \/ Announce(p, s) \/ (s.op = "addFill" /\ AddFill(p, s))
       PROVE  Typed'
  <2>1. UNCHANGED <<bufferVars, createVars, ex, trades, rest, ws, panicked>> /\ Done(p)
    BY <1>10 DEF SetCreated, SetCanceled, SetFailed, InsertIntoCache, Announce, AddFill, exVars
  <2>2. order' \in OrderType
    <3>1. CASE SetCreated(p, s)
      BY <1>0, <3>1 DEF SetCreated, OrderTyped, OrderType, OrderStatus
    <3>2. CASE SetCanceled(p, s) \/ SetFailed(p, s)
      BY <1>0, <3>2 DEF SetCanceled, SetFailed, OrderTyped, OrderType, OrderStatus
    <3>3. CASE InsertIntoCache(p, s) \/ Announce(p, s)
      BY <1>0, <3>3 DEF InsertIntoCache, Announce, OrderTyped
    <3>4. CASE s.op = "addFill" /\ AddFill(p, s)
      <4>1. s.fill.trade \in 1..Amount
        BY <1>1, <3>4 DEF FillOps, Fill
      <4>2. order \in OrderType /\ order' = [order EXCEPT !.fills = @ \cup {s.fill.trade}, !.filled = @ + 1]
        BY <1>0, <3>4 DEF AddFill, OrderTyped
      <4>3. order.fills \cup {s.fill.trade} \in SUBSET (1..Amount) /\ order.filled + 1 \in Nat
        BY <4>1, <4>2 DEF OrderType
      <4> QED BY <4>2, <4>3 DEF OrderType
    <3> QED BY <1>10, <3>1, <3>2, <3>3, <3>4
  <2>3. cached' \in BOOLEAN
    BY <1>0, <1>10 DEF SetCreated, SetCanceled, SetFailed, InsertIntoCache, Announce, AddFill, OrderTyped
  <2>4. events' \in Seq(OrderEventType) /\ tracked' \in BOOLEAN
    <3>1. CASE UNCHANGED <<events, tracked>>
      BY <1>0, <3>1 DEF OrderTyped
    <3>2. ASSUME NEW type \in OrderEventType, NEW status \in OrderStatus, Send(type, status)
          PROVE  events' \in Seq(OrderEventType) /\ tracked' \in BOOLEAN
      BY <1>0, <3>2, SendTyped
    <3>3. order.status \in OrderStatus
      BY <1>0 DEF OrderTyped, OrderType
    <3>4. CASE SetCreated(p, s) \/ InsertIntoCache(p, s) \/ AddFill(p, s)
      BY <3>1, <3>4 DEF SetCreated, InsertIntoCache, AddFill
    <3>5. CASE SetCanceled(p, s) \/ SetFailed(p, s) \/ Announce(p, s)
      <4>1. \/ Send("CancelOrderSucceeded", "Canceled") \/ Send("CreateOrderFailed", "FailedToCreate")
            \/ Send("CreateOrderSucceeded", order.status)
        BY <3>5 DEF SetCanceled, SetFailed, Announce
      <4>2. /\ {"CancelOrderSucceeded", "CreateOrderFailed", "CreateOrderSucceeded"} \subseteq OrderEventType
            /\ {"Canceled", "FailedToCreate"} \subseteq OrderStatus
        BY DEF OrderEventType, OrderStatus
      <4> QED BY <3>2, <3>3, <4>1, <4>2
    <3> QED BY <1>10, <3>4, <3>5
  <2> QED BY <1>0, <1>7, <2>1, <2>2, <2>3, <2>4, Kept DEF Typed, OrderTyped
<1>11. ASSUME TakeFills(p, s) PROVE Typed'
  <2>1. UNCHANGED <<orderVars, bufFills, bufCancel, createVars, ex, trades, rest, ws, panicked>>
    BY <1>11 DEF TakeFills, exVars
  <2>2. BufferTyped'
    BY <1>0, <1>11, <2>1 DEF TakeFills, BufferTyped
  <2> DEFINE f == [k \in 1..Len(bufFills) |-> DoFill("filled", bufFills[k], s.src)]
             r == <<Do("removeFills", s.src)>>
  <2>3. f \in Seq(GoodStep)
    <3>1. Len(bufFills) \in Nat /\ \A k \in 1..Len(bufFills) : bufFills[k] \in Fill
      BY <1>0 DEF BufferTyped
    <3> QED BY <1>1, <3>1, FillStepsTyped
  <2>4. r \in Seq(GoodStep)
    BY <1>2 DEF Ops, FillOps
  <2>5. Done(p) \/ Becomes(p, f \o r)
    BY <1>11 DEF TakeFills
  <2> HIDE DEF f, r
  <2>6. TodoTyped'
    BY <1>6, <1>7, <2>3, <2>4, <2>5, Concat
  <2> QED BY <1>0, <2>1, <2>2, <2>6, Kept DEF Typed
<1>12. ASSUME RemoveFills(p, s) \/ RemoveCancel(p, s) \/ BufferCancel(p, s) PROVE Typed'
  <2>1. UNCHANGED <<orderVars, createVars, ex, trades, rest, ws, panicked>> /\ Done(p)
    BY <1>12 DEF RemoveFills, RemoveCancel, BufferCancel, exVars
  <2>2. BufferTyped'
    BY <1>0, <1>12, Short DEF RemoveFills, RemoveCancel, BufferCancel, BufferTyped
  <2> QED BY <1>0, <1>7, <2>1, <2>2, Kept DEF Typed
<1>13. ASSUME TakeCancel(p, s) PROVE Typed'
  <2>1. /\ UNCHANGED <<orderVars, bufFills, bufCancel, createVars, ex, trades, rest, ws, panicked>>
        /\ Done(p) \/ Becomes(p, <<Do("cancelled", s.src), Do("removeCancel", s.src)>>)
    BY <1>13 DEF TakeCancel, exVars
  <2>2. BufferTyped'
    BY <1>0, <1>13, <2>1 DEF TakeCancel, BufferTyped
  <2>3. <<Do("cancelled", s.src), Do("removeCancel", s.src)>> \in Seq(GoodStep)
    BY <1>3 DEF Ops, FillOps
  <2>4. TodoTyped'
    BY <1>6, <1>7, <2>1, <2>3
  <2> QED BY <1>0, <2>1, <2>2, <2>4, Kept DEF Typed
<1>14. ASSUME s.op = "filled", HandleOrderFilled(p, s) PROVE Typed'
  <2> DEFINE a == <<DoFill("bufferFill", s.fill, s.src), Do("raise", s.src)>>
             b == <<DoFill("addFill", s.fill, s.src), Do("complete", s.src)>>
  <2>1. a \in Seq(GoodStep) /\ b \in Seq(GoodStep)
    BY <1>4, <1>14 DEF FillOps, Ops
  <2>2. /\ UNCHANGED <<orderVars, bufferVars, createVars, ex, trades, rest, ws>>
        /\ \/ (Becomes(p, a) \/ Becomes(p, b) \/ Becomes(p, <<>>)) /\ UNCHANGED panicked
           \/ UNCHANGED todo /\ panicked' = "closed order"
    BY <1>14 DEF HandleOrderFilled, Panics, exVars
  <2> HIDE DEF a, b
  <2>3. TodoTyped' /\ PanicTyped'
    BY <1>0, <1>5, <1>6, <2>1, <2>2, Kept DEF PanicTyped
  <2> QED BY <1>0, <2>2, <2>3, Kept DEF Typed
<1>15. ASSUME s.op = "bufferFill", BufferFill(p, s) PROVE Typed'
  <2>1. /\ UNCHANGED <<orderVars, bufCancel, locked, createVars, ex, trades, rest, ws, panicked>> /\ Done(p)
        /\ bufFills' = Append(bufFills, s.fill)
    BY <1>15 DEF BufferFill, exVars
  <2>2. s.fill \in Fill
    BY <1>1, <1>15 DEF FillOps
  <2>3. bufFills' \in Seq(Fill)
    BY <1>0, <2>1, <2>2, AppendTyped DEF BufferTyped
  <2>4. late' \in BOOLEAN
    BY <1>15 DEF BufferFill
  <2>5. BufferTyped'
    BY <1>0, <2>1, <2>3, <2>4 DEF BufferTyped
  <2> QED BY <1>0, <1>7, <2>1, <2>5, Kept DEF Typed
<1>16. ASSUME CompleteIfFilled(p, s) PROVE Typed'
  <2>1. UNCHANGED <<cached, bufferVars, createVars, ex, trades, rest, ws>>
    BY <1>16 DEF CompleteIfFilled, Panics, orderVars, exVars
  <2>2. TodoTyped' /\ PanicTyped'
    BY <1>0, <1>7, <1>16, Kept DEF CompleteIfFilled, Panics, PanicTyped
  <2>3. order' \in OrderType
    BY <1>0, <1>16 DEF CompleteIfFilled, Panics, orderVars, OrderTyped, OrderType, OrderStatus
  <2>4. events' \in Seq(OrderEventType) /\ tracked' \in BOOLEAN
    <3>1. CASE UNCHANGED orderVars
      BY <1>0, <3>1 DEF OrderTyped, orderVars
    <3>2. CASE Send("OrderFilled", order.status)
      BY <1>0, <3>2, SendTyped DEF OrderEventType
    <3>3. CASE events' = events \o <<"OrderFilled", "OrderCompleted">> /\ tracked' = FALSE
      <4>1. <<"OrderFilled", "OrderCompleted">> \in Seq(OrderEventType)
        BY DEF OrderEventType
      <4> QED BY <1>0, <3>3, <4>1, Concat DEF OrderTyped
    <3> QED BY <1>16, <3>1, <3>2, <3>3 DEF CompleteIfFilled, Panics
  <2>5. cached' \in BOOLEAN
    BY <1>0, <2>1 DEF OrderTyped
  <2> QED BY <1>0, <2>1, <2>2, <2>3, <2>4, <2>5, Kept DEF Typed, OrderTyped
<1>17. ASSUME HandleCancelOrderSucceeded(p, s) \/ HandleCreateOrderFailed(p, s) PROVE Typed'
  <2>1. /\ UNCHANGED <<orderVars, bufferVars, createVars, ex, trades, rest, ws, panicked>>
        /\ \/ Becomes(p, <<Do("bufferCancel", s.src), Do("raise", s.src)>>)
           \/ Becomes(p, <<>>) \/ Becomes(p, <<Do("setCanceled", s.src)>>)
           \/ Becomes(p, <<Do("setFailed", s.src)>>)
    BY <1>17 DEF HandleCancelOrderSucceeded, HandleCreateOrderFailed, exVars
  <2>2. /\ <<Do("bufferCancel", s.src), Do("raise", s.src)>> \in Seq(GoodStep)
        /\ <<Do("setCanceled", s.src)>> \in Seq(GoodStep) /\ <<Do("setFailed", s.src)>> \in Seq(GoodStep)
    BY <1>2, <1>3 DEF Ops, FillOps
  <2>3. TodoTyped'
    BY <1>5, <1>6, <2>1, <2>2
  <2> QED BY <1>0, <2>1, <2>3, Kept DEF Typed
<1>18. ASSUME EndCreateOrder(p, s) PROVE Typed'
  <2>1. /\ UNCHANGED <<orderVars, bufferVars, ex, trades, rest, ws, tx, rx, mail, cancelled, old, info, panicked>>
        /\ Done(p) /\ create' \in {"trades", "finished"}
    BY <1>18 DEF EndCreateOrder, exVars
  <2>2. CreateTyped'
    BY <1>0, <2>1 DEF CreateTyped
  <2> QED BY <1>0, <1>7, <2>1, <2>2, Kept DEF Typed
<1> QED BY <1>8, <1>9, <1>10, <1>11, <1>12, <1>13, <1>14, <1>15, <1>16, <1>17, <1>18 DEF TakeStep, s

LEMMA BeginStepsTyped ==
    ASSUME NEW src \in Source
    PROVE  /\ <<>> \in Seq(GoodStep)
           /\ <<Do("failed", src)>> \in Seq(GoodStep)
           /\ <<Do("end", src)>> \in Seq(GoodStep)
           /\ <<Do("answered", src), Do("end", src)>> \in Seq(GoodStep)
<1>1. Do("failed", src) \in GoodStep /\ Do("end", src) \in GoodStep /\ Do("answered", src) \in GoodStep
  BY DoTyped DEF Ops, FillOps
<1> QED BY <1>1, Short

LEMMA OneMore ==
    ASSUME NEW S, NEW y \in S, NEW e \in S
    PROVE  <<y>> \in Seq(S) /\ <<y>> \o <<e>> = <<y, e>> /\ <<y, e>> \in Seq(S)
<1>1. <<y>> \in Seq(S) /\ <<e>> \in Seq(S) /\ <<y, e>> \in Seq(S)
  OBVIOUS
<1> DEFINE c == <<y>> \o <<e>>
           d == <<y, e>>
<1>2. c \in Seq(S) /\ Len(c) = 2 /\ c[1] = y /\ c[2] = e
  BY <1>1
<1>3. Len(d) = 2 /\ d[1] = y /\ d[2] = e
  OBVIOUS
<1>4. c = d
  <2> HIDE DEF c, d
  <2>1. d \in Seq(S)
    BY <1>1 DEF d
  <2> QED BY <1>2, <1>3, <2>1
<1> QED BY <1>1, <1>4

(* What the answer to get_order_info() makes the task do. *)
InfoList(steps) ==
    \/ steps = <<>>
    \/ \E x \in {"failed", "cancelled", "raise"} : steps = <<Do(x, "RestFallback")>>

LEMMA InfoStepsFacts ==
    ASSUME CreateTyped, info \notin {"none", "asked", "error", "NotFound"}
    PROVE  InfoList(InfoSteps)
<1>1. info \in {"FailedToCreate", "Created", "Canceling", "Canceled", "Completed"}
  BY DEF CreateTyped
<1> QED BY <1>1 DEF InfoSteps, InfoList

LEMMA InfoListFacts ==
    ASSUME NEW steps, InfoList(steps)
    PROVE  /\ steps \in Seq(GoodStep)
           /\ steps \o <<Do("end", "RestFallback")>> \in Seq(GoodStep)
           /\ \/ steps = <<>> /\ steps \o <<Do("end", "RestFallback")>> = <<Do("end", "RestFallback")>>
              \/ \E x \in {"failed", "cancelled", "raise"} :
                   /\ steps = <<Do(x, "RestFallback")>>
                   /\ steps \o <<Do("end", "RestFallback")>> = <<Do(x, "RestFallback"), Do("end", "RestFallback")>>
<1> DEFINE e == Do("end", "RestFallback")
<1>1. e \in GoodStep /\ \A x \in {"failed", "cancelled", "raise"} : Do(x, "RestFallback") \in GoodStep
  BY DoTyped DEF Ops, FillOps, Source
<1> HIDE DEF e
<1>2. <<>> \in Seq(GoodStep) /\ <<e>> \in Seq(GoodStep) /\ <<>> \o <<e>> = <<e>>
  BY <1>1
<1>3. ASSUME NEW y \in GoodStep PROVE <<y>> \in Seq(GoodStep) /\ <<y>> \o <<e>> = <<y, e>> /\ <<y, e>> \in Seq(GoodStep)
  BY <1>1, OneMore
<1>4. CASE steps = <<>>
  BY <1>2, <1>4 DEF e
<1>5. ASSUME NEW x \in {"failed", "cancelled", "raise"}, steps = <<Do(x, "RestFallback")>>
      PROVE  /\ steps \in Seq(GoodStep) /\ steps \o <<e>> \in Seq(GoodStep)
             /\ steps \o <<e>> = <<Do(x, "RestFallback"), e>>
  BY <1>1, <1>3, <1>5, Zenon
<1> QED BY <1>4, <1>5 DEF InfoList, e

LEMMA CreateTaskTyped ==
    ASSUME Typed,
           \/ RequestAccepted \/ RequestFails \/ ReceiveCreated
           \/ AskOrderInfo \/ HandleOrderInfo \/ FallbackEnds
           \/ CallerCancels \/ MinutePasses \/ CreateOrderGivesUp
           \/ \E n \in 0..trades : CheckOrderFills(n)
    PROVE  Typed'
<1>0. /\ TodoTyped /\ OrderTyped /\ BufferTyped /\ CreateTyped /\ ExTyped /\ PanicTyped /\ WsTyped
  BY DEF Typed
<1>1. {"WebSocket", "RestFallback"} \subseteq Source /\ <<>> \in Seq(GoodStep)
  BY Short DEF Source
<1>2. ASSUME NEW steps \in Seq(GoodStep), Begins(steps), order' \in OrderType, CreateTyped', PanicTyped'
      PROVE  Typed'
  <2>1. UNCHANGED <<cached, tracked, events, bufferVars, ex, trades, rest, ws>>
    BY <1>2 DEF Begins, exVars
  <2>2. OrderTyped'
    BY <1>0, <1>2, <2>1 DEF OrderTyped
  <2>3. TodoTyped'
    BY <1>0, <1>2, BeginsTyped
  <2> QED BY <1>0, <1>2, <2>1, <2>2, <2>3, Kept DEF Typed
<1>3. CASE RequestAccepted
  <2>1. Begins(<<>>) /\ order' \in OrderType /\ CreateTyped' /\ PanicTyped'
    BY <1>0, <1>3 DEF RequestAccepted, OrderTyped, CreateTyped, PanicTyped, Begins
  <2> QED BY <1>1, <1>2, <2>1
<1>4. CASE RequestFails
  <2>1. /\ Begins(<<>>) \/ Begins(<<Do("failed", "WebSocket")>>)
        /\ order' \in OrderType /\ CreateTyped' /\ PanicTyped'
    BY <1>0, <1>4 DEF RequestFails, StopsSelecting, OrderTyped, CreateTyped, PanicTyped, Begins
  <2>2. <<Do("failed", "WebSocket")>> \in Seq(GoodStep)
    BY <1>1, BeginStepsTyped
  <2> QED BY <1>1, <1>2, <2>1, <2>2
<1>5. CASE ReceiveCreated
  <2>1. /\ Begins(<<Do("answered", mail), Do("end", mail)>>) /\ mail \in Source
        /\ order' \in OrderType /\ CreateTyped' /\ PanicTyped'
    BY <1>0, <1>5 DEF ReceiveCreated, StopsSelecting, OrderTyped, CreateTyped, PanicTyped, Begins
  <2>2. <<Do("answered", mail), Do("end", mail)>> \in Seq(GoodStep)
    BY <2>1, BeginStepsTyped
  <2> QED BY <1>2, <2>1, <2>2
<1>6. CASE AskOrderInfo
  <2>1. Begins(<<>>) /\ order' \in OrderType /\ CreateTyped' /\ PanicTyped'
    BY <1>0, <1>6 DEF AskOrderInfo, OrderTyped, CreateTyped, PanicTyped, Begins
  <2> QED BY <1>1, <1>2, <2>1
<1>7. CASE HandleOrderInfo
  <2>1. order' \in OrderType
    BY <1>0, <1>7 DEF HandleOrderInfo, OrderTyped, OrderType
  <2>2. CreateTyped' /\ PanicTyped'
    BY <1>0, <1>7 DEF HandleOrderInfo, CreateTyped, PanicTyped, Begins
  <2>3. CASE Begins(<<>>)
    BY <1>1, <1>2, <2>1, <2>2, <2>3
  <2>4. CASE Begins(<<Do("failed", "RestFallback")>>)
    <3>1. <<Do("failed", "RestFallback")>> \in Seq(GoodStep)
      BY <1>1, BeginStepsTyped
    <3> QED BY <1>2, <2>1, <2>2, <2>4, <3>1
  <2>5. CASE /\ info \notin {"none", "asked", "error", "NotFound"}
             /\ Begins(InfoSteps) \/ Begins(InfoSteps \o <<Do("end", "RestFallback")>>)
    <3>1. /\ InfoSteps \in Seq(GoodStep) /\ InfoSteps \o <<Do("end", "RestFallback")>> \in Seq(GoodStep)
      BY <1>0, <2>5, InfoStepsFacts, InfoListFacts
    <3> QED BY <1>2, <2>1, <2>2, <2>5, <3>1
  <2> QED BY <1>7, <2>3, <2>4, <2>5 DEF HandleOrderInfo
<1>8. CASE FallbackEnds
  <2>1. /\ Begins(<<>>) \/ Begins(<<Do("end", "RestFallback")>>)
        /\ order' \in OrderType /\ CreateTyped' /\ PanicTyped'
    BY <1>0, <1>8 DEF FallbackEnds, StopsSelecting, OrderTyped, CreateTyped, PanicTyped, Begins
  <2>2. <<Do("end", "RestFallback")>> \in Seq(GoodStep)
    BY <1>1, BeginStepsTyped
  <2> QED BY <1>1, <1>2, <2>1, <2>2
<1>9. CASE CallerCancels \/ MinutePasses
  <2>1. UNCHANGED <<orderVars, bufferVars, ex, trades, rest, ws, todo, panicked>> /\ CreateTyped'
    <3>1. CASE CallerCancels
      BY <1>0, <3>1, SMTT(20) DEF CallerCancels, exVars, CreateTyped
    <3>2. CASE MinutePasses
      BY <1>0, <3>2, SMTT(20) DEF MinutePasses, exVars, CreateTyped
    <3> QED BY <1>9, <3>1, <3>2
  <2> QED BY <1>0, <2>1, Kept DEF Typed
<1>10. CASE CreateOrderGivesUp
  <2>1. Begins(<<>>) /\ order' \in OrderType /\ CreateTyped' /\ PanicTyped'
    BY <1>0, <1>10 DEF CreateOrderGivesUp, StopsSelecting, OrderTyped, CreateTyped, PanicTyped, Begins
  <2> QED BY <1>1, <1>2, <2>1
<1>11. ASSUME NEW n \in 0..trades, CheckOrderFills(n) PROVE Typed'
  <2> DEFINE f == [k \in 1..n |-> [trade |-> k, total |-> FALSE]]
             g == [k \in 1..n |-> DoFill("filled", [trade |-> k, total |-> FALSE], "RestFallback")]
  <2>1. n \in Nat /\ \A k \in 1..n : f[k] \in Fill
    BY <1>0, <1>11, AmountAssumption DEF ExTyped, Fill
  <2>2. [k \in 1..n |-> DoFill("filled", f[k], "RestFallback")] \in Seq(GoodStep)
    <3> HIDE DEF f
    <3> QED BY <1>1, <2>1, FillStepsTyped
  <2>3. g = [k \in 1..n |-> DoFill("filled", f[k], "RestFallback")]
    OBVIOUS
  <2>4. Begins(g) /\ order' \in OrderType /\ CreateTyped' /\ PanicTyped'
    BY <1>0, <1>11, ZenonT(60) DEF CheckOrderFills, OrderTyped, CreateTyped, PanicTyped, Begins
  <2> HIDE DEF f, g
  <2> QED BY <1>2, <2>2, <2>3, <2>4
<1> QED BY <1>3, <1>4, <1>5, <1>6, <1>7, <1>8, <1>9, <1>10, <1>11

LEMMA WorldTyped ==
    ASSUME Typed,
           \/ \E topic \in Topics : Deliver(topic)
           \/ ExchangeDecides \/ ExchangeTrades \/ ExchangeCancels
           \/ ExchangeInforms(InfoOf(ex)) \/ ExchangeInforms({"error"})
    PROVE  Typed'
<1>0. /\ TodoTyped /\ OrderTyped /\ BufferTyped /\ CreateTyped /\ ExTyped /\ PanicTyped /\ WsTyped
  BY DEF Typed
<1>1. ASSUME NEW topic \in Topics, Deliver(topic) PROVE Typed'
  <2>1. /\ UNCHANGED <<orderVars, bufferVars, createVars, ex, trades, rest, panicked>>
        /\ ws[topic] # <<>>
        /\ todo' = [todo EXCEPT !["ws"] = <<Head(ws[topic])>>]
        /\ ws' = [ws EXCEPT ![topic] = Tail(ws[topic])]
    BY <1>1 DEF Deliver
  <2>2. Head(ws[topic]) \in GoodStep /\ Tail(ws[topic]) \in Seq(GoodStep)
    BY <1>0, <2>1, HeadTail DEF WsTyped
  <2>3. <<Head(ws[topic])>> \in Seq(GoodStep)
    BY <2>2, Short
  <2>4. TodoTyped' /\ WsTyped'
    BY <1>0, <2>1, <2>2, <2>3 DEF TodoTyped, WsTyped, Tasks
  <2> QED BY <1>0, <2>1, <2>4, Kept DEF Typed
<1>2. ASSUME NEW topic \in Topics, NEW m \in GoodStep, Publish(topic, m) PROVE WsTyped'
  <2>1. Append(ws[topic], m) \in Seq(GoodStep)
    BY <1>0, AppendTyped DEF WsTyped
  <2> QED BY <1>0, <1>2, <2>1 DEF Publish, WsTyped
<1>3. ASSUME UNCHANGED <<orderVars, bufferVars, tx, rx, mail, create, cancelled, old, todo, panicked>>,
             info' = info, ExTyped', WsTyped'
      PROVE  Typed'
  <2>1. CreateTyped'
    BY <1>0, <1>3 DEF CreateTyped
  <2> QED BY <1>0, <1>3, <2>1, Kept DEF Typed
<1>4. {"orders", "executions"} \subseteq Topics
  BY DEF Topics
<1>5. CASE ExchangeDecides
  <2>1. ExTyped'
    BY <1>0, <1>5, AmountAssumption DEF ExchangeDecides, ExTyped
  <2>2. Do("raise", "WebSocket") \in GoodStep
    BY DoTyped DEF Ops, FillOps, Source
  <2>3. WsTyped'
    BY <1>0, <1>2, <1>4, <1>5, <2>2, Kept DEF ExchangeDecides
  <2>4. /\ UNCHANGED <<orderVars, bufferVars, tx, rx, mail, create, cancelled, old, todo, panicked>>
        /\ info' = info
    BY <1>5 DEF ExchangeDecides, ExchangeSteps
  <2> QED BY <1>3, <2>1, <2>3, <2>4
<1>6. CASE ExchangeTrades
  <2>1. ExTyped'
    BY <1>0, <1>6, AmountAssumption DEF ExchangeTrades, ExTyped
  <2>2. trades' \in 1..Amount
    BY <1>0, <1>6, AmountAssumption DEF ExchangeTrades, ExTyped
  <2> DEFINE f == [trade |-> trades', total |-> TRUE]
  <2>3. f \in Fill
    BY <2>2 DEF Fill
  <2>4. DoFill("filled", f, "WebSocket") \in GoodStep
    BY <2>3, DoTyped DEF FillOps, Source
  <2>5. Publish("executions", DoFill("filled", f, "WebSocket"))
    BY <1>6 DEF ExchangeTrades
  <2> HIDE DEF f
  <2>6. WsTyped'
    BY <1>2, <1>4, <2>4, <2>5
  <2>7. /\ UNCHANGED <<orderVars, bufferVars, tx, rx, mail, create, cancelled, old, todo, panicked>>
        /\ info' = info
    BY <1>6 DEF ExchangeTrades, ExchangeSteps
  <2> QED BY <1>3, <2>1, <2>6, <2>7
<1>7. CASE ExchangeCancels
  <2>1. ExTyped'
    BY <1>0, <1>7 DEF ExchangeCancels, ExTyped
  <2>2. Do("cancelled", "WebSocket") \in GoodStep
    BY DoTyped DEF Ops, FillOps, Source
  <2>3. WsTyped'
    BY <1>2, <1>4, <1>7, <2>2 DEF ExchangeCancels
  <2>4. /\ UNCHANGED <<orderVars, bufferVars, tx, rx, mail, create, cancelled, old, todo, panicked>>
        /\ info' = info
    BY <1>7 DEF ExchangeCancels, ExchangeSteps
  <2> QED BY <1>3, <2>1, <2>3, <2>4
<1>8. CASE ExchangeInforms(InfoOf(ex)) \/ ExchangeInforms({"error"})
  <2>1. InfoOf(ex) \subseteq {"NotFound", "FailedToCreate", "Created", "Canceling", "Canceled", "Completed"}
    BY <1>0 DEF InfoOf, ExTyped
  <2>2. /\ UNCHANGED <<orderVars, bufferVars, tx, rx, mail, create, cancelled, old, todo, panicked>>
        /\ UNCHANGED <<ex, trades, rest, ws>>
        /\ info' \in {"error", "NotFound", "FailedToCreate", "Created", "Canceling", "Canceled", "Completed"}
    BY <1>8, <2>1 DEF ExchangeInforms, ExchangeSteps, exVars
  <2>3. CreateTyped'
    BY <1>0, <2>2 DEF CreateTyped
  <2> QED BY <1>0, <2>2, <2>3, Kept DEF Typed
<1> QED BY <1>1, <1>5, <1>6, <1>7, <1>8

LEMMA TypedInitially == Init => Typed
<1> SUFFICES ASSUME Init PROVE Typed
  OBVIOUS
<1>1. OrderTyped
  <2>1. {} \in SUBSET (1..Amount) /\ 0 \in Nat /\ <<>> \in Seq(OrderEventType)
    BY Short
  <2> QED BY <2>1 DEF Init, OrderTyped, OrderType, OrderStatus
<1>2. BufferTyped
  <2>1. <<>> \in Seq(Fill)
    BY Short
  <2> QED BY <2>1 DEF Init, BufferTyped
<1>4. CreateTyped /\ PanicTyped
  BY DEF Init, CreateTyped, PanicTyped
<1>5. ExTyped
  BY AmountAssumption DEF Init, ExTyped
<1>3. TodoTyped /\ WsTyped
  BY DEF Init, TodoTyped, WsTyped
<1> QED BY <1>1, <1>2, <1>3, <1>4, <1>5 DEF Typed

LEMMA TypedStep == Typed /\ [Next]_vars => Typed'
<1>1. ASSUME Typed, UNCHANGED vars PROVE Typed'
  <2>1. UNCHANGED <<orderVars, bufferVars, createVars, ex, trades, rest, ws, todo, panicked>>
    BY <1>1 DEF vars, exVars
  <2> QED BY <1>1, <2>1, Kept DEF Typed
<1> QED BY <1>1, TakeStepTyped, CreateTaskTyped, WorldTyped DEF Next

LEMMA TypedAlways == Spec => []Typed
BY TypedInitially, TypedStep, PTL DEF Spec

(* Handlers of both tasks are unfinished after the step. *)
Met == \A p \in Tasks : todo'[p] # <<>>

LEMMA Meeting ==
    ASSUME [Next]_vars
    PROVE  /\ overlapped' = (overlapped \/ Met) \/ overlapped' = overlapped
           /\ \/ overlapped' = (overlapped \/ Met)
              \/ UNCHANGED todo
<1>1. \/ Meets
      \/ UNCHANGED <<todo, overlapped>>
  BY DEF Next, vars, TakeStep, Deliver, RequestAccepted, RequestFails, ReceiveCreated, AskOrderInfo,
         HandleOrderInfo, FallbackEnds, CallerCancels, MinutePasses, CreateOrderGivesUp, CheckOrderFills,
         Begins, ExchangeDecides, ExchangeTrades, ExchangeCancels, ExchangeInforms, ExchangeSteps
<1> QED BY <1>1 DEF Meets, Met

(* Whatever the two tasks do between each other's steps, the order, its      *)
(* buffers and the handlers' steps keep their types.                         *)
THEOREM TypeCorrect == Spec => []TypeOK
<1>1. Init => overlapped \in BOOLEAN
  BY DEF Init
<1>2. overlapped \in BOOLEAN /\ [Next]_vars => (overlapped \in BOOLEAN)'
  BY Meeting
<1> QED BY <1>1, <1>2, TypedAlways, TypedIsTypeOK, PTL DEF Spec

-----------------------------------------------------------------------------
(* Until handlers meet, one task is idle.  The steps left of a handler come  *)
(* in an order: Later(op) are the steps that may follow a step op.           *)

Later(op) ==
    CASE op = "setCreated"                     -> {"insert", "announce", "takeFills", "takeCancel", "end"}
      [] op = "insert"                         -> {"announce", "takeFills", "takeCancel", "end"}
      [] op = "announce"                       -> {"takeFills", "takeCancel", "end"}
      [] op \in {"takeFills", "removeFills"}   -> {"takeCancel", "end"}
      [] op = "addFill"                        -> {"complete", "filled", "removeFills", "takeCancel", "end"}
      [] op \in {"complete", "filled"}         -> {"filled", "removeFills", "takeCancel", "end"}
      [] op \in {"cancelled", "setCanceled"}   -> {"removeCancel", "end"}
      [] op \in {"bufferFill", "bufferCancel"} -> {"raise", "end"}
      [] op = "end"                            -> {}
      [] OTHER                                 -> {"end"}

StepsOf(q) == {q[i] : i \in DOMAIN q}

OpsOf(q) == {s.op : s \in StepsOf(q)}

InOrder(q) == \A i, k \in DOMAIN q : i < k => q[k].op \in Later(q[i].op)

(* The steps that a task still has to take: only one task has any. *)
StepsLeft == StepsOf(todo["create"]) \cup StepsOf(todo["ws"])

Due == {s.op : s \in StepsLeft}

Queues == /\ \A p \in Tasks : InOrder(todo[p])
          /\ todo["create"] = <<>> \/ todo["ws"] = <<>>

LEMMA Queue ==
    ASSUME NEW q \in Seq(GoodStep), q # <<>>, InOrder(q),
           NEW steps \in Seq(GoodStep), InOrder(steps),
           \A o \in OpsOf(steps) : OpsOf(Tail(q)) \subseteq Later(o)
    PROVE  /\ StepsOf(q) = {Head(q)} \cup StepsOf(Tail(q))
           /\ OpsOf(Tail(q)) \subseteq Later(Head(q).op)
           /\ StepsOf(steps \o Tail(q)) = StepsOf(steps) \cup StepsOf(Tail(q))
           /\ InOrder(steps \o Tail(q))
<1> DEFINE h == Head(q)
           r == Tail(q)
           a == steps \o r
           n == Len(steps)
<1>1. /\ Len(q) \in Nat /\ Len(q) >= 1 /\ DOMAIN q = 1..Len(q)
      /\ DOMAIN r = 1..(Len(q) - 1) /\ Len(r) = Len(q) - 1
      /\ \A i \in DOMAIN r : r[i] = q[i + 1] /\ i + 1 \in DOMAIN q
      /\ h = q[1] /\ 1 \in DOMAIN q
  OBVIOUS
<1>2. \A i \in DOMAIN q : i = 1 \/ (i - 1 \in DOMAIN r /\ q[i] = r[i - 1])
  BY <1>1
<1>3. /\ n \in Nat /\ DOMAIN steps = 1..n /\ DOMAIN a = 1..(n + Len(r))
      /\ \A i \in DOMAIN steps : i \in DOMAIN a /\ a[i] = steps[i]
      /\ \A i \in DOMAIN r : i + n \in DOMAIN a /\ a[i + n] = r[i]
      /\ \A i \in DOMAIN a : i \in DOMAIN steps \/ (i > n /\ i - n \in DOMAIN r /\ a[i] = r[i - n])
  BY <1>1
<1>4. \A o \in OpsOf(steps) : OpsOf(r) \subseteq Later(o)
  OBVIOUS
<1> HIDE DEF h, r, a, n
<1>5. StepsOf(q) = {h} \cup StepsOf(r)
  <2>1. StepsOf(q) \subseteq {h} \cup StepsOf(r)
    BY <1>1, <1>2 DEF StepsOf
  <2>2. h \in StepsOf(q)
    BY <1>1 DEF StepsOf
  <2>3. \A i \in DOMAIN r : r[i] \in StepsOf(q)
    BY <1>1 DEF StepsOf
  <2>4. StepsOf(r) \subseteq StepsOf(q)
    BY <2>3 DEF StepsOf
  <2> QED BY <2>1, <2>2, <2>4
<1>6. OpsOf(r) \subseteq Later(h.op)
  <2>1. ASSUME NEW i \in DOMAIN r PROVE r[i].op \in Later(h.op)
    <3>1. r[i] = q[i + 1] /\ i + 1 \in DOMAIN q /\ 1 < i + 1
      BY <1>1, <2>1
    <3> QED BY <1>1, <3>1 DEF InOrder
  <2> QED BY <2>1 DEF OpsOf, StepsOf
<1>7. StepsOf(a) = StepsOf(steps) \cup StepsOf(r)
  BY <1>3 DEF StepsOf
<1>8. ASSUME NEW i \in DOMAIN a, NEW k \in DOMAIN a, i < k PROVE a[k].op \in Later(a[i].op)
  <2>1. CASE k \in DOMAIN steps
    <3>1. i \in DOMAIN steps /\ a[i] = steps[i] /\ a[k] = steps[k]
      BY <1>3, <1>8, <2>1
    <3> QED BY <1>8, <2>1, <3>1 DEF InOrder
  <2>2. CASE k > n /\ k - n \in DOMAIN r /\ a[k] = r[k - n] /\ i \in DOMAIN steps
    <3>1. a[i] = steps[i] /\ steps[i].op \in OpsOf(steps) /\ r[k - n].op \in OpsOf(r)
      BY <1>3, <2>2 DEF OpsOf, StepsOf
    <3> QED BY <1>4, <2>2, <3>1
  <2>3. CASE /\ k > n /\ k - n \in DOMAIN r /\ a[k] = r[k - n]
             /\ i > n /\ i - n \in DOMAIN r /\ a[i] = r[i - n]
    <3>1. /\ a[k] = q[(k - n) + 1] /\ (k - n) + 1 \in DOMAIN q
          /\ a[i] = q[(i - n) + 1] /\ (i - n) + 1 \in DOMAIN q
      BY <1>1, <2>3
    <3>2. i \in Nat /\ k \in Nat /\ n \in Nat
      BY <1>1, <1>3
    <3>3. (i - n) + 1 < (k - n) + 1
      BY <1>8, <3>2
    <3> QED BY <3>1, <3>3 DEF InOrder
  <2> QED BY <1>3, <1>8, <2>1, <2>2, <2>3
<1>9. InOrder(a)
  BY <1>8 DEF InOrder
<1> QED BY <1>5, <1>6, <1>7, <1>9 DEF h, r, a

LEMMA ShortSteps ==
    /\ StepsOf(<<>>) = {} /\ OpsOf(<<>>) = {} /\ InOrder(<<>>)
    /\ \A x : StepsOf(<<x>>) = {x} /\ OpsOf(<<x>>) = {x.op} /\ InOrder(<<x>>)
    /\ \A x, y : /\ StepsOf(<<x, y>>) = {x, y} /\ OpsOf(<<x, y>>) = {x.op, y.op}
                 /\ y.op \in Later(x.op) => InOrder(<<x, y>>)
<1>1. StepsOf(<<>>) = {} /\ OpsOf(<<>>) = {} /\ InOrder(<<>>)
  BY DEF StepsOf, OpsOf, InOrder
<1>2. ASSUME NEW x PROVE StepsOf(<<x>>) = {x} /\ OpsOf(<<x>>) = {x.op} /\ InOrder(<<x>>)
  BY DEF StepsOf, OpsOf, InOrder
<1>3. ASSUME NEW x, NEW y
      PROVE  /\ StepsOf(<<x, y>>) = {x, y} /\ OpsOf(<<x, y>>) = {x.op, y.op}
             /\ y.op \in Later(x.op) => InOrder(<<x, y>>)
  <2>1. DOMAIN <<x, y>> = {1, 2} /\ <<x, y>>[1] = x /\ <<x, y>>[2] = y
    OBVIOUS
  <2>2. StepsOf(<<x, y>>) = {x, y}
    BY <2>1 DEF StepsOf
  <2>3. OpsOf(<<x, y>>) = {x.op, y.op}
    BY <2>2 DEF OpsOf
  <2>4. y.op \in Later(x.op) => InOrder(<<x, y>>)
    BY <2>1 DEF InOrder
  <2> QED BY <2>2, <2>3, <2>4
<1> QED BY <1>1, <1>2, <1>3

(* A handler takes a step. *)
LEMMA Moves ==
    ASSUME Typed, Queues, NEW p \in Tasks, todo[p] # <<>>,
           NEW steps \in Seq(GoodStep), InOrder(steps),
           \A o \in OpsOf(steps) : OpsOf(Tail(todo[p])) \subseteq Later(o),
           Becomes(p, steps)
    PROVE  LET h == Head(todo[p])
               r == Tail(todo[p])
           IN  /\ Queues'
               /\ StepsLeft = {h} \cup StepsOf(r) /\ StepsLeft' = StepsOf(steps) \cup StepsOf(r)
               /\ Due = {h.op} \cup OpsOf(r) /\ Due' = OpsOf(steps) \cup OpsOf(r)
               /\ OpsOf(r) \subseteq Later(h.op)
<1> DEFINE h == Head(todo[p])
           r == Tail(todo[p])
<1>1. /\ todo \in [Tasks -> Seq(GoodStep)] /\ InOrder(todo[p]) /\ Tasks = {"create", "ws"}
      /\ \A o \in Tasks : o # p => todo[o] = <<>>
      /\ todo' = [todo EXCEPT ![p] = steps \o r]
  BY DEF Typed, TodoTyped, Queues, Becomes, Tasks
<1>2. /\ StepsOf(todo[p]) = {h} \cup StepsOf(r)
      /\ OpsOf(r) \subseteq Later(h.op)
      /\ StepsOf(steps \o r) = StepsOf(steps) \cup StepsOf(r)
      /\ InOrder(steps \o r)
  <2>1. todo[p] \in Seq(GoodStep)
    BY <1>1
  <2> QED BY <1>1, <2>1, Queue
<1> HIDE DEF h, r
<1>3. /\ todo'[p] = steps \o r /\ \A o \in Tasks : o # p => todo'[o] = <<>>
  BY <1>1
<1>4. StepsLeft = StepsOf(todo[p]) /\ StepsLeft' = StepsOf(todo'[p])
  <2>1. StepsOf(<<>>) = {}
    BY ShortSteps
  <2>2. StepsLeft' = StepsOf(todo'["create"]) \cup StepsOf(todo'["ws"])
    BY DEF StepsLeft, StepsOf
  <2>3. CASE p = "create"
    BY <1>1, <1>3, <2>1, <2>2, <2>3 DEF StepsLeft
  <2>4. CASE p = "ws"
    BY <1>1, <1>3, <2>1, <2>2, <2>4 DEF StepsLeft
  <2> QED BY <1>1, <2>3, <2>4
<1>5. StepsLeft = {h} \cup StepsOf(r) /\ StepsLeft' = StepsOf(steps) \cup StepsOf(r)
  BY <1>2, <1>3, <1>4
<1>6. Due = {h.op} \cup OpsOf(r)
  BY <1>5 DEF Due, OpsOf
<1>7. Due' = OpsOf(steps) \cup OpsOf(r)
  <2>1. Due' = {x.op : x \in StepsLeft'}
    BY DEF Due
  <2> QED BY <1>5, <2>1 DEF OpsOf
<1>8. Queues'
  <2>1. \A o \in Tasks : InOrder(todo'[o])
    BY <1>2, <1>3, ShortSteps
  <2>2. todo'["create"] = <<>> \/ todo'["ws"] = <<>>
    BY <1>1, <1>3
  <2> QED BY <2>1, <2>2 DEF Queues, InOrder
<1> QED BY <1>2, <1>5, <1>6, <1>7, <1>8 DEF h, r

-----------------------------------------------------------------------------
(* The invariant. *)

(* The steps of a creation, and of a fill, follow each other. *)
Chained ==
    /\ "setCreated" \in Due => "insert" \in Due
    /\ "insert" \in Due => "announce" \in Due
    /\ "announce" \in Due => "takeFills" \in Due
    /\ Due \cap {"takeFills", "removeFills"} # {} => "takeCancel" \in Due
    /\ "addFill" \in Due => "complete" \in Due

(* What the steps that are due say of the order. *)
Places ==
    /\ cached <=> order.status \notin {"Creating", "FailedToCreate"} /\ "insert" \notin Due
    /\ Due \cap {"setCreated", "setFailed"} # {} => order.status = "Creating"
    /\ "announce" \in Due /\ "setCreated" \notin Due => order.status = "Created"
    /\ Due \cap {"addFill", "complete", "setCanceled"} # {} => order.status = "Created" /\ cached
    /\ Due \cap {"removeFills", "removeCancel"} # {} => cached
    /\ "takeCancel" \in Due /\ "announce" \notin Due => cached
    /\ Due \cap {"bufferFill", "bufferCancel"} # {} => ~cached
    /\ "filled" \in Due /\ ~cached => \A p \in Tasks : Len(todo[p]) <= 1
    /\ order.status = "Canceled" => order.cancelRaised
    /\ order.fallback => order.status # "Creating"
    /\ create = "trades" => order.status \notin {"Creating", "FailedToCreate"}

(* What is in a buffer of an order that is known will be looked at. *)
Buffers ==
    /\ cached /\ bufFills # <<>> => Due \cap {"takeFills", "removeFills"} # {}
    /\ cached /\ bufCancel => Due \cap {"takeCancel", "removeCancel"} # {}

(* A sequence of events that is in order. *)
GoodStory(e) ==
    \A k \in 1..Len(e) :
      /\ e[k] \in {"CreateOrderSucceeded", "CreateOrderFailed"} <=> k = 1
      /\ e[k] \in {"CreateOrderFailed", "OrderCompleted", "CancelOrderSucceeded"} => k = Len(e)

Goes(e) == \A k \in 1..Len(e) : e[k] \in {"CreateOrderSucceeded", "OrderFilled"}

(* What was told of the order. *)
Story ==
    /\ events = <<>> <=> order.status = "Creating" \/ "announce" \in Due
    /\ GoodStory(events)
    /\ ~IsFinished(order.status) =>
         \A k \in 1..Len(events) : events[k] \in {"CreateOrderSucceeded", "OrderFilled"}
    /\ tracked <=> ~IsFinished(order.status)

(* Every fill on its way is of a trade that the exchange knows. *)
Known(s) == s.op \in FillOps => s.fill.trade \in 1..trades

Counted ==
    /\ order.fills \subseteq 1..trades
    /\ order.filled = Cardinality(order.fills)
    /\ "complete" \in Due \/ (order.status = "Completed" <=> order.filled = Amount)

OnTheWay ==
    /\ \A s \in StepsLeft : Known(s) /\ (s.op = "addFill" => s.fill.trade \notin order.fills)
    /\ \A t \in Topics : \A s \in StepsOf(ws[t]) : Known(s) /\ s.op \in {"raise", "filled", "cancelled"}
    /\ \A k \in DOMAIN bufFills : bufFills[k].trade \in 1..trades

SerialInv == Queues /\ Chained /\ Places /\ Buffers /\ Story /\ Counted /\ OnTheWay

LEMMA StoryKept ==
    ASSUME Story, UNCHANGED <<events, tracked>>, order'.status = order.status,
           "announce" \in Due' <=> "announce" \in Due
    PROVE  Story'
BY DEF Story, GoodStory

LEMMA CountedKept ==
    ASSUME Counted, trades' = trades, order'.fills = order.fills, order'.filled = order.filled,
           (order'.status = "Completed") = (order.status = "Completed"),
           "complete" \in Due => "complete" \in Due'
    PROVE  Counted'
BY DEF Counted

LEMMA OnTheWayKept ==
    ASSUME OnTheWay, UNCHANGED <<trades, ws, bufFills>>, order'.fills = order.fills,
           NEW new, StepsLeft' \subseteq StepsLeft \cup new,
           \A s \in new : Known(s) /\ s.op # "addFill"
    PROVE  OnTheWay'
<1>1. \A s : Known(s)' = Known(s)
  BY DEF Known
<1>2. \A t \in Topics : StepsOf(ws[t])' = StepsOf(ws[t])
  BY DEF StepsOf
<1> QED BY <1>1, <1>2 DEF OnTheWay

LEMMA OnTheWayOne ==
    ASSUME OnTheWay, UNCHANGED <<trades, ws, bufFills>>, order'.fills = order.fills,
           NEW a, StepsLeft' \subseteq StepsLeft \cup {a}, Known(a), a.op # "addFill"
    PROVE  OnTheWay'
<1>1. \A s : Known(s)' = Known(s)
  BY DEF Known
<1>2. \A t \in Topics : StepsOf(ws[t])' = StepsOf(ws[t])
  BY DEF StepsOf
<1> QED BY <1>1, <1>2 DEF OnTheWay

LEMMA OnTheWayTwo ==
    ASSUME OnTheWay, UNCHANGED <<trades, ws, bufFills>>, order'.fills = order.fills,
           NEW a, NEW b, StepsLeft' \subseteq StepsLeft \cup {a, b}, Known(a), Known(b),
           a.op = "addFill" => a.fill.trade \notin order.fills, b.op # "addFill"
    PROVE  OnTheWay'
<1>1. \A s : Known(s)' = Known(s)
  BY DEF Known
<1>2. \A t \in Topics : StepsOf(ws[t])' = StepsOf(ws[t])
  BY DEF StepsOf
<1> QED BY <1>1, <1>2 DEF OnTheWay

LEMMA OnTheWaySame ==
    ASSUME OnTheWay, UNCHANGED <<trades, ws, bufFills>>, order'.fills = order.fills,
           StepsLeft' \subseteq StepsLeft
    PROVE  OnTheWay'
<1>1. \A s : Known(s)' = Known(s)
  BY DEF Known
<1>2. \A t \in Topics : StepsOf(ws[t])' = StepsOf(ws[t])
  BY DEF StepsOf
<1> QED BY <1>1, <1>2 DEF OnTheWay

(* One more event. *)
LEMMA StoryAdded ==
    ASSUME NEW e \in Seq(OrderEventType), NEW type \in OrderEventType, GoodStory(e), Goes(e),
           type \in {"CreateOrderSucceeded", "CreateOrderFailed"} <=> e = <<>>
    PROVE  /\ Append(e, type) \in Seq(OrderEventType) /\ GoodStory(Append(e, type)) /\ Append(e, type) # <<>>
           /\ type \in {"CreateOrderSucceeded", "OrderFilled"} => Goes(Append(e, type))
<1> DEFINE a == Append(e, type)
           n == Len(e)
<1>1. /\ a \in Seq(OrderEventType) /\ a # <<>> /\ n \in Nat /\ Len(a) = n + 1 /\ a[n + 1] = type
      /\ \A k \in 1..n : a[k] = e[k]
      /\ n = 0 <=> e = <<>>
  OBVIOUS
<1> HIDE DEF a, n
<1>2. /\ \A k \in 1..n : e[k] \in {"CreateOrderSucceeded", "OrderFilled"}
      /\ \A k \in 1..n : e[k] \in {"CreateOrderSucceeded", "CreateOrderFailed"} <=> k = 1
  BY DEF Goes, GoodStory, n
<1>3. GoodStory(a)
  <2> SUFFICES ASSUME NEW k \in 1..(n + 1)
               PROVE  /\ a[k] \in {"CreateOrderSucceeded", "CreateOrderFailed"} <=> k = 1
                      /\ a[k] \in {"CreateOrderFailed", "OrderCompleted", "CancelOrderSucceeded"} => k = n + 1
    BY <1>1 DEF GoodStory
  <2>1. CASE k \in 1..n
    BY <1>1, <1>2, <2>1
  <2>2. CASE k = n + 1
    BY <1>1, <2>2
  <2> QED BY <1>1, <2>1, <2>2
<1>4. type \in {"CreateOrderSucceeded", "OrderFilled"} => Goes(a)
  BY <1>1, <1>2 DEF Goes
<1> QED BY <1>1, <1>3, <1>4 DEF a

LEMMA StoryFacts ==
    ASSUME Typed, Story
    PROVE  /\ events \in Seq(OrderEventType) /\ GoodStory(events)
           /\ ~IsFinished(order.status) => Goes(events)
           /\ (events = <<>>) <=> (order.status = "Creating" \/ "announce" \in Due)
           /\ tracked <=> ~IsFinished(order.status)
BY DEF Typed, OrderTyped, Story, GoodStory, Goes

LEMMA StoryHolds ==
    ASSUME GoodStory(events'), ~IsFinished(order'.status) => Goes(events'),
           (events' = <<>>) <=> (order'.status = "Creating" \/ "announce" \in Due'),
           tracked' <=> ~IsFinished(order'.status)
    PROVE  Story'
BY DEF Story, GoodStory, Goes, IsFinished

(* Task p runs, and its next step is one of ops. *)
At(p, ops) ==
    /\ Typed /\ SerialInv
    /\ todo[p] # <<>> /\ Head(todo[p]).op \in ops

LEMMA TailFacts ==
    ASSUME NEW p \in Tasks, NEW ops, At(p, ops)
    PROVE  /\ OpsOf(Tail(todo[p])) \subseteq Later(Head(todo[p]).op)
           /\ Len(todo[p]) <= 1 => Tail(todo[p]) = <<>>
<1>1. todo[p] \in Seq(GoodStep) /\ InOrder(todo[p]) /\ todo[p] # <<>>
  BY DEF At, Typed, TodoTyped, SerialInv, Queues
<1>2. <<>> \in Seq(GoodStep) /\ InOrder(<<>>) /\ OpsOf(<<>>) = {}
  BY ShortSteps, Short
<1>3. OpsOf(Tail(todo[p])) \subseteq Later(Head(todo[p]).op)
  BY <1>1, <1>2, Queue
<1>4. Len(todo[p]) <= 1 => Tail(todo[p]) = <<>>
  BY <1>1
<1> QED BY <1>3, <1>4

LEMMA BecomesFacts ==
    ASSUME NEW p \in Tasks, NEW ops, At(p, ops), NEW steps \in Seq(GoodStep), InOrder(steps),
           \A o \in OpsOf(steps) : OpsOf(Tail(todo[p])) \subseteq Later(o),
           Becomes(p, steps)
    PROVE  \E R : /\ Due = {Head(todo[p]).op} \cup R /\ Due' = OpsOf(steps) \cup R
                  /\ R \subseteq Later(Head(todo[p]).op)
                  /\ Queues' /\ StepsLeft' \subseteq StepsLeft \cup StepsOf(steps)
                  /\ Head(todo[p]) \in StepsLeft /\ R = OpsOf(Tail(todo[p]))
<1>1. /\ Typed /\ Queues /\ todo[p] # <<>>
  BY DEF At, SerialInv
<1> DEFINE h == Head(todo[p])
           r == Tail(todo[p])
<1>2. /\ Queues'
      /\ StepsLeft = {h} \cup StepsOf(r) /\ StepsLeft' = StepsOf(steps) \cup StepsOf(r)
      /\ Due = {h.op} \cup OpsOf(r) /\ Due' = OpsOf(steps) \cup OpsOf(r)
      /\ OpsOf(r) \subseteq Later(h.op)
  BY <1>1, Moves
<1> HIDE DEF h, r
<1>3. StepsLeft' \subseteq StepsLeft \cup StepsOf(steps) /\ h \in StepsLeft
  BY <1>2
<1> QED BY <1>2, <1>3 DEF h, r

LEMMA DoneFacts ==
    ASSUME NEW p \in Tasks, NEW ops, At(p, ops), Done(p) \/ Becomes(p, <<>>)
    PROVE  \E R : /\ Due = {Head(todo[p]).op} \cup R /\ Due' = R
                  /\ R \subseteq Later(Head(todo[p]).op)
                  /\ Queues' /\ StepsLeft' \subseteq StepsLeft
                  /\ Head(todo[p]) \in StepsLeft /\ R = OpsOf(Tail(todo[p]))
<1>1. /\ <<>> \in Seq(GoodStep) /\ InOrder(<<>>) /\ OpsOf(<<>>) = {} /\ StepsOf(<<>>) = {}
      /\ Becomes(p, <<>>)
  BY ShortSteps, Short DEF Done
<1>2. PICK R : /\ Due = {Head(todo[p]).op} \cup R /\ Due' = OpsOf(<<>>) \cup R
               /\ R \subseteq Later(Head(todo[p]).op)
               /\ Queues' /\ StepsLeft' \subseteq StepsLeft \cup StepsOf(<<>>)
               /\ Head(todo[p]) \in StepsLeft /\ R = OpsOf(Tail(todo[p]))
  <2>1. \A o \in OpsOf(<<>>) : OpsOf(Tail(todo[p])) \subseteq Later(o)
    BY <1>1
  <2> QED BY <1>1, <2>1, BecomesFacts
<1>3. Due' = R /\ StepsLeft' \subseteq StepsLeft
  BY <1>1, <1>2
<1> QED BY <1>2, <1>3

-----------------------------------------------------------------------------
(* Every step of a handler keeps the invariant. *)

LEMMA SetCreatedSerial ==
    ASSUME NEW p \in Tasks, At(p, {"setCreated"}), SetCreated(p, Head(todo[p]))
    PROVE  SerialInv'
<1>1. /\ Typed /\ SerialInv /\ Head(todo[p]).op = "setCreated" /\ Done(p)
      /\ order' = [order EXCEPT !.status = "Created", !.fallback = (Head(todo[p]).src = "RestFallback")]
      /\ UNCHANGED <<cached, tracked, events, bufFills, bufCancel, create, trades, ws>>
  BY DEF At, SetCreated, bufferVars, createVars, exVars
<1>2. PICK R : /\ Due = {"setCreated"} \cup R /\ Due' = R
               /\ R \subseteq Later("setCreated")
               /\ Queues' /\ StepsLeft' \subseteq StepsLeft
  BY <1>1, DoneFacts
<1>3. R \subseteq {"insert", "announce", "takeFills", "takeCancel", "end"}
  BY <1>2 DEF Later
<1>4. /\ order'.status = "Created" /\ order'.fills = order.fills /\ order'.filled = order.filled
      /\ order'.cancelRaised = order.cancelRaised
  BY <1>1 DEF Typed, OrderTyped, OrderType
<1>5. order.status = "Creating" /\ {"insert", "announce", "takeFills", "takeCancel"} \subseteq R /\ ~cached
  BY <1>1, <1>2 DEF SerialInv, Places, Chained
<1>6. Chained'
  BY <1>2, <1>3, <1>5 DEF Chained
<1>7. Places'
  BY <1>1, <1>2, <1>3, <1>4, <1>5 DEF SerialInv, Places
<1>8. Buffers'
  BY <1>1, <1>2, <1>5 DEF Buffers
<1>9. Story'
  BY <1>1, <1>2, <1>4, <1>5 DEF SerialInv, Story, GoodStory, IsFinished
<1>10. Counted'
  BY <1>1, <1>2, <1>3, <1>4, <1>5 DEF SerialInv, Counted
<1>11. OnTheWay'
  BY <1>1, <1>2, <1>4, OnTheWaySame DEF SerialInv
<1> QED BY <1>2, <1>6, <1>7, <1>8, <1>9, <1>10, <1>11 DEF SerialInv

LEMMA InsertSerial ==
    ASSUME NEW p \in Tasks, At(p, {"insert"}), InsertIntoCache(p, Head(todo[p]))
    PROVE  SerialInv'
<1>1. /\ Typed /\ SerialInv /\ Head(todo[p]).op = "insert" /\ Done(p)
      /\ cached' = TRUE
      /\ UNCHANGED <<order, tracked, events, bufFills, bufCancel, create, trades, ws>>
  BY DEF At, InsertIntoCache, bufferVars, createVars, exVars
<1>2. PICK R : /\ Due = {"insert"} \cup R /\ Due' = R
               /\ R \subseteq Later("insert")
               /\ Queues' /\ StepsLeft' \subseteq StepsLeft
  BY <1>1, DoneFacts
<1>3. R \subseteq {"announce", "takeFills", "takeCancel", "end"}
  BY <1>2 DEF Later
<1>4. order.status = "Created" /\ {"announce", "takeFills", "takeCancel"} \subseteq R /\ ~cached
  BY <1>1, <1>2, <1>3 DEF SerialInv, Places, Chained
<1>5. Chained'
  BY <1>2, <1>3, <1>4 DEF Chained
<1>6. Places'
  BY <1>1, <1>2, <1>3, <1>4 DEF SerialInv, Places
<1>7. Buffers'
  BY <1>1, <1>2, <1>4 DEF Buffers
<1>8. Story'
  BY <1>1, <1>2, <1>4, StoryKept DEF SerialInv
<1>9. Counted'
  BY <1>1, <1>2, <1>3, <1>4, CountedKept DEF SerialInv
<1>10. OnTheWay'
  BY <1>1, <1>2, OnTheWaySame DEF SerialInv
<1> QED BY <1>2, <1>5, <1>6, <1>7, <1>8, <1>9, <1>10 DEF SerialInv

LEMMA AnnounceSerial ==
    ASSUME NEW p \in Tasks, At(p, {"announce"}), Announce(p, Head(todo[p]))
    PROVE  SerialInv'
<1>1. /\ Typed /\ SerialInv /\ Head(todo[p]).op = "announce" /\ Done(p)
      /\ events' = Append(events, "CreateOrderSucceeded")
      /\ tracked' = (tracked /\ ~IsFinished(order.status))
      /\ UNCHANGED <<order, cached, bufFills, bufCancel, create, trades, ws>>
  BY DEF At, Announce, Send, bufferVars, createVars, exVars
<1>2. PICK R : /\ Due = {"announce"} \cup R /\ Due' = R
               /\ R \subseteq Later("announce")
               /\ Queues' /\ StepsLeft' \subseteq StepsLeft
  BY <1>1, DoneFacts
<1>3. R \subseteq {"takeFills", "takeCancel", "end"}
  BY <1>2 DEF Later
<1>4. order.status = "Created" /\ {"takeFills", "takeCancel"} \subseteq R /\ cached
  BY <1>1, <1>2, <1>3 DEF SerialInv, Places, Chained
<1>5. Chained'
  BY <1>2, <1>3, <1>4 DEF Chained
<1>6. Places'
  BY <1>1, <1>2, <1>3, <1>4 DEF SerialInv, Places
<1>7. Buffers'
  BY <1>1, <1>2, <1>4 DEF Buffers
<1>8. Story'
  <2>1. /\ events \in Seq(OrderEventType) /\ GoodStory(events) /\ Goes(events) /\ events = <<>> /\ tracked
    BY <1>1, <1>2, <1>4, StoryFacts DEF SerialInv, IsFinished
  <2>2. GoodStory(events') /\ Goes(events') /\ events' # <<>>
    BY <1>1, <2>1, StoryAdded DEF OrderEventType
  <2>3. tracked' /\ ~IsFinished(order'.status) /\ order'.status # "Creating" /\ "announce" \notin Due'
    BY <1>1, <1>2, <1>3, <1>4, <2>1 DEF IsFinished
  <2> QED BY <2>2, <2>3, StoryHolds
<1>9. Counted'
  BY <1>1, <1>2, <1>3, <1>4, CountedKept DEF SerialInv
<1>10. OnTheWay'
  BY <1>1, <1>2, OnTheWaySame DEF SerialInv
<1> QED BY <1>2, <1>5, <1>6, <1>7, <1>8, <1>9, <1>10 DEF SerialInv

LEMMA Joined ==
    ASSUME NEW S, NEW a \in Seq(S), NEW b \in Seq(S)
    PROVE  LET c == a \o b
           IN  /\ c \in Seq(S) /\ DOMAIN c = 1..(Len(a) + Len(b))
               /\ \A k \in 1..Len(a) : c[k] = a[k]
               /\ \A k \in 1..Len(b) : c[Len(a) + k] = b[k]
OBVIOUS

(* The handlers of the buffered fills, and what comes after them. *)
Taken(src) ==
    [k \in 1..Len(bufFills) |-> DoFill("filled", bufFills[k], src)] \o <<Do("removeFills", src)>>

LEMMA TakenFacts ==
    ASSUME Typed, NEW src \in Source
    PROVE  /\ Taken(src) \in Seq(GoodStep) /\ InOrder(Taken(src))
           /\ OpsOf(Taken(src)) \subseteq {"filled", "removeFills"} /\ "removeFills" \in OpsOf(Taken(src))
           /\ \A x \in StepsOf(Taken(src)) :
                /\ x.src = src
                /\ x.op = "removeFills" \/ (x.op = "filled" /\ \E k \in 1..Len(bufFills) : x.fill = bufFills[k])
<1> DEFINE n == Len(bufFills)
           f == [k \in 1..n |-> DoFill("filled", bufFills[k], src)]
           g == <<Do("removeFills", src)>>
           steps == f \o g
<1>1. steps = Taken(src)
  BY DEF Taken
<1>2. n \in Nat /\ DOMAIN bufFills = 1..n /\ \A k \in 1..n : bufFills[k] \in Fill
  BY DEF Typed, BufferTyped
<1>4. /\ f \in Seq(GoodStep) /\ g \in Seq(GoodStep) /\ Len(f) = n /\ DOMAIN f = 1..n
      /\ \A k \in 1..n : f[k].op = "filled" /\ f[k].fill = bufFills[k] /\ f[k].src = src
  <2>1. f \in Seq(GoodStep)
    BY <1>2, FillStepsTyped
  <2>2. g \in Seq(GoodStep)
    BY <1>2, DoTyped, Short DEF Ops, FillOps
  <2>3. \A k \in 1..n : f[k].op = "filled" /\ f[k].fill = bufFills[k] /\ f[k].src = src
    BY DoFields
  <2> QED BY <1>2, <2>1, <2>2, <2>3
<1>5. g = <<g[1]>> /\ Len(g) = 1 /\ g[1].op = "removeFills" /\ g[1].src = src
  BY DoFields
<1> HIDE DEF f, g
<1>6. /\ steps \in Seq(GoodStep) /\ DOMAIN steps = 1..(n + 1)
      /\ \A k \in 1..n : steps[k] = f[k]
      /\ steps[n + 1] = g[1]
  <2>1. /\ steps \in Seq(GoodStep) /\ DOMAIN steps = 1..(Len(f) + Len(g))
        /\ \A k \in 1..Len(f) : steps[k] = f[k]
        /\ \A k \in 1..Len(g) : steps[Len(f) + k] = g[k]
    <3>1. f \in Seq(GoodStep) /\ g \in Seq(GoodStep)
      BY <1>4
    <3> QED BY <3>1, Joined
  <2>2. 1 \in 1..Len(g)
    BY <1>5
  <2> QED BY <1>4, <1>5, <2>1, <2>2
<1> HIDE DEF steps
<1>7. /\ OpsOf(steps) \subseteq {"filled", "removeFills"} /\ "removeFills" \in OpsOf(steps)
      /\ \A x \in StepsOf(steps) :
           /\ x.src = src
           /\ x.op = "removeFills" \/ (x.op = "filled" /\ \E k \in 1..n : x.fill = bufFills[k])
  <2>1. \A k \in 1..(n + 1) : k \in 1..n \/ k = n + 1
    BY <1>2
  <2>2. n + 1 \in 1..(n + 1)
    BY <1>2
  <2>3. \A x \in StepsOf(steps) :
          /\ x.src = src
          /\ x.op = "removeFills" \/ (x.op = "filled" /\ \E k \in 1..n : x.fill = bufFills[k])
    BY <1>4, <1>5, <1>6, <2>1 DEF StepsOf
  <2>4. steps[n + 1] \in StepsOf(steps)
    BY <1>6, <2>2 DEF StepsOf
  <2> QED BY <1>5, <1>6, <2>3, <2>4 DEF OpsOf
<1>8. InOrder(steps)
  <2> SUFFICES ASSUME NEW i \in 1..(n + 1), NEW k \in 1..(n + 1), i < k
               PROVE  steps[k].op \in Later(steps[i].op)
    BY <1>6 DEF InOrder
  <2>1. i \in 1..n /\ (k \in 1..n \/ k = n + 1)
    BY <1>2
  <2>2. steps[i].op = "filled" /\ steps[k].op \in {"filled", "removeFills"}
    BY <1>4, <1>5, <1>6, <2>1
  <2> QED BY <2>2 DEF Later
<1> QED BY <1>1, <1>6, <1>7, <1>8

LEMMA TakeFillsSerial ==
    ASSUME NEW p \in Tasks, At(p, {"takeFills"}), TakeFills(p, Head(todo[p]))
    PROVE  SerialInv'
<1> DEFINE s == Head(todo[p])
           n == Len(bufFills)
           steps == Taken(s.src)
<1>1. /\ Typed /\ SerialInv /\ s.op = "takeFills"
      /\ UNCHANGED <<order, cached, tracked, events, bufFills, bufCancel, create, trades, ws>>
      /\ (bufFills = <<>> /\ Done(p)) \/ (bufFills # <<>> /\ Becomes(p, steps))
  BY DEF At, TakeFills, Taken, orderVars, createVars, exVars
<1>2. s.src \in Source /\ n \in Nat /\ DOMAIN bufFills = 1..n /\ \A k \in 1..n : bufFills[k] \in Fill
  BY <1>1, StepFacts DEF At, Typed, BufferTyped
<1>3. OpsOf(Tail(todo[p])) \subseteq {"takeCancel", "end"}
  BY <1>1, TailFacts DEF Later
<1>6. steps \in Seq(GoodStep) /\ InOrder(steps)
  BY <1>1, <1>2, TakenFacts
<1>7. /\ OpsOf(steps) \subseteq {"filled", "removeFills"} /\ "removeFills" \in OpsOf(steps)
      /\ \A x \in StepsOf(steps) : x.op = "removeFills" \/ (x.op = "filled" /\ \E k \in 1..n : x.fill = bufFills[k])
  BY <1>1, <1>2, TakenFacts
<1>8. InOrder(steps)
  BY <1>6
<1> HIDE DEF steps
<1>9. \A o \in OpsOf(steps) : OpsOf(Tail(todo[p])) \subseteq Later(o)
  BY <1>3, <1>7 DEF Later
<1>10. ASSUME bufFills # <<>>, Becomes(p, steps) PROVE SerialInv'
  <2>1. PICK R : /\ Due = {"takeFills"} \cup R /\ Due' = OpsOf(steps) \cup R
                 /\ R \subseteq Later("takeFills")
                 /\ Queues' /\ StepsLeft' \subseteq StepsLeft \cup StepsOf(steps)
    <3>1. steps \in Seq(GoodStep)
      BY <1>6
    <3>2. \E R : /\ Due = {Head(todo[p]).op} \cup R /\ Due' = OpsOf(steps) \cup R
                 /\ R \subseteq Later(Head(todo[p]).op)
                 /\ Queues' /\ StepsLeft' \subseteq StepsLeft \cup StepsOf(steps)
                 /\ Head(todo[p]) \in StepsLeft /\ R = OpsOf(Tail(todo[p]))
      BY <1>8, <1>9, <1>10, <3>1, BecomesFacts, Zenon
    <3> QED BY <1>1, <3>2
  <2>2. R \subseteq {"takeCancel", "end"}
    BY <2>1 DEF Later
  <2>3. cached /\ "takeCancel" \in R
    BY <1>1, <2>1, <2>2 DEF SerialInv, Places, Chained
  <2>4. Due' \subseteq {"filled", "removeFills", "takeCancel", "end"} /\ {"removeFills", "takeCancel"} \subseteq Due'
    BY <1>7, <2>1, <2>2, <2>3
  <2>5. Chained'
    BY <2>4 DEF Chained
  <2>6. Places'
    BY <1>1, <2>1, <2>2, <2>3, <2>4 DEF SerialInv, Places
  <2>7. Buffers'
    BY <2>4 DEF Buffers
  <2>8. Story'
    BY <1>1, <2>1, <2>2, <2>4, StoryKept DEF SerialInv
  <2>9. Counted'
    BY <1>1, <2>1, <2>2, CountedKept DEF SerialInv
  <2>10. OnTheWay'
    <3>1. \A x \in StepsOf(steps) : Known(x) /\ x.op # "addFill"
      BY <1>1, <1>2, <1>7 DEF SerialInv, OnTheWay, Known, FillOps
    <3> QED BY <1>1, <2>1, <3>1, OnTheWayKept DEF SerialInv
  <2> QED BY <2>1, <2>5, <2>6, <2>7, <2>8, <2>9, <2>10 DEF SerialInv
<1>11. ASSUME bufFills = <<>>, Done(p) PROVE SerialInv'
  <2>1. PICK R : /\ Due = {"takeFills"} \cup R /\ Due' = R
                 /\ R \subseteq Later("takeFills")
                 /\ Queues' /\ StepsLeft' \subseteq StepsLeft
    BY <1>1, <1>11, DoneFacts
  <2>2. R \subseteq {"takeCancel", "end"}
    BY <2>1 DEF Later
  <2>3. cached /\ "takeCancel" \in R
    BY <1>1, <2>1, <2>2 DEF SerialInv, Places, Chained
  <2>4. Chained'
    BY <2>1, <2>2 DEF Chained
  <2>5. Places'
    BY <1>1, <2>1, <2>2, <2>3 DEF SerialInv, Places
  <2>6. Buffers'
    BY <1>1, <1>11, <2>1, <2>3 DEF Buffers
  <2>7. Story'
    BY <1>1, <2>1, <2>2, StoryKept DEF SerialInv
  <2>8. Counted'
    BY <1>1, <2>1, <2>2, CountedKept DEF SerialInv
  <2>9. OnTheWay'
    BY <1>1, <2>1, OnTheWaySame DEF SerialInv
  <2> QED BY <2>1, <2>4, <2>5, <2>6, <2>7, <2>8, <2>9 DEF SerialInv
<1> QED BY <1>1, <1>10, <1>11

LEMMA RemoveFillsSerial ==
    ASSUME NEW p \in Tasks, At(p, {"removeFills"}), RemoveFills(p, Head(todo[p]))
    PROVE  SerialInv'
<1>1. /\ Typed /\ SerialInv /\ Head(todo[p]).op = "removeFills" /\ Done(p)
      /\ bufFills' = <<>>
      /\ UNCHANGED <<order, cached, tracked, events, bufCancel, create, trades, ws>>
  BY DEF At, RemoveFills, orderVars, createVars, exVars
<1>2. PICK R : /\ Due = {"removeFills"} \cup R /\ Due' = R
               /\ R \subseteq Later("removeFills")
               /\ Queues' /\ StepsLeft' \subseteq StepsLeft
  BY <1>1, DoneFacts
<1>3. R \subseteq {"takeCancel", "end"}
  BY <1>2 DEF Later
<1>4. cached /\ "takeCancel" \in R
  BY <1>1, <1>2, <1>3 DEF SerialInv, Places, Chained
<1>5. Chained'
  BY <1>2, <1>3, <1>4 DEF Chained
<1>6. Places'
  BY <1>1, <1>2, <1>3, <1>4 DEF SerialInv, Places
<1>7. Buffers'
  BY <1>1, <1>2, <1>4 DEF Buffers
<1>8. Story'
  BY <1>1, <1>2, <1>3, StoryKept DEF SerialInv
<1>9. Counted'
  BY <1>1, <1>2, <1>3, CountedKept DEF SerialInv
<1>10. OnTheWay'
  <2>1. \A s : Known(s)' = Known(s)
    BY <1>1 DEF Known
  <2>2. \A t \in Topics : StepsOf(ws[t])' = StepsOf(ws[t])
    BY <1>1 DEF StepsOf
  <2> QED BY <1>1, <1>2, <2>1, <2>2 DEF SerialInv, OnTheWay
<1> QED BY <1>2, <1>5, <1>6, <1>7, <1>8, <1>9, <1>10 DEF SerialInv

LEMMA TakeCancelSerial ==
    ASSUME NEW p \in Tasks, At(p, {"takeCancel"}), TakeCancel(p, Head(todo[p]))
    PROVE  SerialInv'
<1> DEFINE s == Head(todo[p])
           a == Do("cancelled", s.src)
           b == Do("removeCancel", s.src)
<1>1. /\ Typed /\ SerialInv /\ s.op = "takeCancel"
      /\ UNCHANGED <<order, cached, tracked, events, bufFills, bufCancel, create, trades, ws>>
      /\ (~bufCancel /\ Done(p)) \/ Becomes(p, <<a, b>>)
  BY DEF At, TakeCancel, orderVars, createVars, exVars
<1>2. OpsOf(Tail(todo[p])) \subseteq {"end"}
  BY <1>1, TailFacts DEF Later
<1>3. a \in GoodStep /\ b \in GoodStep /\ a.op = "cancelled" /\ b.op = "removeCancel"
  BY <1>1, StepFacts, DoTyped, DoFields DEF At, Typed, Ops, FillOps
<1> HIDE DEF a, b
<1>4. ASSUME Becomes(p, <<a, b>>) PROVE SerialInv'
  <2>1. <<a, b>> \in Seq(GoodStep)
    BY <1>3, Short
  <2>2. OpsOf(<<a, b>>) = {"cancelled", "removeCancel"} /\ InOrder(<<a, b>>) /\ StepsOf(<<a, b>>) = {a, b}
    BY <1>3, ShortSteps DEF Later
  <2>3. \A o \in OpsOf(<<a, b>>) : OpsOf(Tail(todo[p])) \subseteq Later(o)
    BY <1>2, <2>2 DEF Later
  <2>4. PICK R : /\ Due = {"takeCancel"} \cup R /\ Due' = OpsOf(<<a, b>>) \cup R
                 /\ R \subseteq Later("takeCancel")
                 /\ Queues' /\ StepsLeft' \subseteq StepsLeft \cup StepsOf(<<a, b>>)
    BY <1>1, <1>4, <2>1, <2>2, <2>3, BecomesFacts
  <2>5. R \subseteq {"end"} /\ Due' = {"cancelled", "removeCancel"} \cup R
    BY <2>2, <2>4 DEF Later
  <2>6. cached
    BY <1>1, <2>4, <2>5 DEF SerialInv, Places, Chained
  <2>7. Chained'
    BY <2>5 DEF Chained
  <2>8. Places'
    BY <1>1, <2>4, <2>5, <2>6 DEF SerialInv, Places
  <2>9. Buffers'
    BY <1>1, <2>4, <2>5 DEF SerialInv, Buffers
  <2>10. Story'
    BY <1>1, <2>4, <2>5, StoryKept DEF SerialInv
  <2>11. Counted'
    BY <1>1, <2>4, <2>5, CountedKept DEF SerialInv
  <2>12. OnTheWay'
    <3>1. \A x \in StepsOf(<<a, b>>) : Known(x) /\ x.op # "addFill"
      BY <1>3, <2>2 DEF Known, FillOps
    <3> QED BY <1>1, <2>4, <3>1, OnTheWayKept DEF SerialInv
  <2> QED BY <2>4, <2>7, <2>8, <2>9, <2>10, <2>11, <2>12 DEF SerialInv
<1>5. ASSUME ~bufCancel, Done(p) PROVE SerialInv'
  <2>1. PICK R : /\ Due = {"takeCancel"} \cup R /\ Due' = R
                 /\ R \subseteq Later("takeCancel")
                 /\ Queues' /\ StepsLeft' \subseteq StepsLeft
    BY <1>1, <1>5, DoneFacts
  <2>2. R \subseteq {"end"}
    BY <2>1 DEF Later
  <2>3. cached
    BY <1>1, <2>1, <2>2 DEF SerialInv, Places, Chained
  <2>4. Chained'
    BY <2>1, <2>2 DEF Chained
  <2>5. Places'
    BY <1>1, <2>1, <2>2, <2>3 DEF SerialInv, Places
  <2>6. Buffers'
    BY <1>1, <1>5, <2>1, <2>2 DEF SerialInv, Buffers
  <2>7. Story'
    BY <1>1, <2>1, <2>2, StoryKept DEF SerialInv
  <2>8. Counted'
    BY <1>1, <2>1, <2>2, CountedKept DEF SerialInv
  <2>9. OnTheWay'
    BY <1>1, <2>1, OnTheWaySame DEF SerialInv
  <2> QED BY <2>1, <2>4, <2>5, <2>6, <2>7, <2>8, <2>9 DEF SerialInv
<1> QED BY <1>1, <1>4, <1>5

LEMMA RemoveCancelSerial ==
    ASSUME NEW p \in Tasks, At(p, {"removeCancel"}), RemoveCancel(p, Head(todo[p]))
    PROVE  SerialInv'
<1>1. /\ Typed /\ SerialInv /\ Head(todo[p]).op = "removeCancel" /\ Done(p)
      /\ bufCancel' = FALSE
      /\ UNCHANGED <<order, cached, tracked, events, bufFills, create, trades, ws>>
  BY DEF At, RemoveCancel, orderVars, createVars, exVars
<1>2. PICK R : /\ Due = {"removeCancel"} \cup R /\ Due' = R
               /\ R \subseteq Later("removeCancel")
               /\ Queues' /\ StepsLeft' \subseteq StepsLeft
  BY <1>1, DoneFacts
<1>3. R \subseteq {"end"}
  BY <1>2 DEF Later
<1>4. cached
  BY <1>1, <1>2 DEF SerialInv, Places
<1>5. Chained'
  BY <1>2, <1>3 DEF Chained
<1>6. Places'
  BY <1>1, <1>2, <1>3, <1>4 DEF SerialInv, Places
<1>7. Buffers'
  BY <1>1, <1>2, <1>3, <1>4 DEF SerialInv, Buffers
<1>8. Story'
  BY <1>1, <1>2, <1>3, StoryKept DEF SerialInv
<1>9. Counted'
  BY <1>1, <1>2, <1>3, CountedKept DEF SerialInv
<1>10. OnTheWay'
  BY <1>1, <1>2, OnTheWaySame DEF SerialInv
<1> QED BY <1>2, <1>5, <1>6, <1>7, <1>8, <1>9, <1>10 DEF SerialInv


-----------------------------------------------------------------------------
(* The steps that tell nothing of the order. *)

(* The steps that the invariant says something of when they are due. *)
Marks == {"setCreated", "insert", "announce", "takeFills", "removeFills", "takeCancel", "removeCancel"}

(* A step that a handler adds is one that the order is ready for. *)
Fits(o) ==
    /\ o \notin Marks
    /\ o = "setFailed" => order.status = "Creating"
    /\ o \in {"addFill", "complete", "setCanceled"} => order.status = "Created" /\ cached
    /\ o \in {"bufferFill", "bufferCancel"} => ~cached

SameOrder ==
    /\ order'.status = order.status /\ order'.fills = order.fills /\ order'.filled = order.filled
    /\ order'.cancelRaised = order.cancelRaised /\ order'.fallback = order.fallback

LEMMA CalmSerial ==
    ASSUME SerialInv, Queues', OnTheWay', SameOrder,
           UNCHANGED <<cached, tracked, events, trades>>,
           cached => UNCHANGED <<bufFills, bufCancel>>,
           create' = "trades" => create = "trades" \/ order.status \notin {"Creating", "FailedToCreate"},
           Due' \cap Marks = Due \cap Marks,
           \A o \in Due' \ Due : Fits(o),
           "addFill" \in Due' => "complete" \in Due',
           "complete" \in Due => "complete" \in Due',
           "filled" \in Due' /\ ~cached => \A p \in Tasks : Len(todo'[p]) <= 1
    PROVE  SerialInv'
<1>1. \A o \in Marks : o \in Due' <=> o \in Due
  OBVIOUS
<1>2. /\ "setCreated" \in Due' <=> "setCreated" \in Due
      /\ "insert" \in Due' <=> "insert" \in Due
      /\ "announce" \in Due' <=> "announce" \in Due
      /\ "takeFills" \in Due' <=> "takeFills" \in Due
      /\ "removeFills" \in Due' <=> "removeFills" \in Due
      /\ "takeCancel" \in Due' <=> "takeCancel" \in Due
      /\ "removeCancel" \in Due' <=> "removeCancel" \in Due
  BY <1>1 DEF Marks
<1>3. /\ "setFailed" \in Due' /\ "setFailed" \notin Due => order.status = "Creating"
      /\ \A o \in {"addFill", "complete", "setCanceled"} :
           o \in Due' /\ o \notin Due => order.status = "Created" /\ cached
      /\ \A o \in {"bufferFill", "bufferCancel"} : o \in Due' /\ o \notin Due => ~cached
  BY DEF Fits
<1>4. Chained'
  BY <1>2 DEF SerialInv, Chained
<1>5. Places'
  <2>1. Due' \cap {"setCreated", "setFailed"} # {} => order'.status = "Creating"
    BY <1>2, <1>3 DEF SerialInv, Places, SameOrder
  <2>2. Due' \cap {"addFill", "complete", "setCanceled"} # {} => order'.status = "Created" /\ cached'
    BY <1>3 DEF SerialInv, Places, SameOrder
  <2>3. Due' \cap {"bufferFill", "bufferCancel"} # {} => ~cached'
    BY <1>3 DEF SerialInv, Places
  <2>4. Due' \cap {"removeFills", "removeCancel"} # {} => cached'
    BY <1>2 DEF SerialInv, Places
  <2>5. /\ cached' <=> order'.status \notin {"Creating", "FailedToCreate"} /\ "insert" \notin Due'
        /\ "announce" \in Due' /\ "setCreated" \notin Due' => order'.status = "Created"
        /\ "takeCancel" \in Due' /\ "announce" \notin Due' => cached'
        /\ order'.status = "Canceled" => order'.cancelRaised
        /\ order'.fallback => order'.status # "Creating"
        /\ create' = "trades" => order'.status \notin {"Creating", "FailedToCreate"}
    BY <1>2 DEF SerialInv, Places, SameOrder
  <2> QED BY <2>1, <2>2, <2>3, <2>4, <2>5 DEF Places
<1>6. Buffers'
  BY <1>2 DEF SerialInv, Buffers
<1>7. Story'
  BY <1>2, StoryKept DEF SerialInv, SameOrder
<1>8. Counted'
  BY CountedKept DEF SerialInv, SameOrder
<1> QED BY <1>4, <1>5, <1>6, <1>7, <1>8 DEF SerialInv

LEMMA BecomesOne ==
    ASSUME NEW p \in Tasks, NEW ops, At(p, ops), NEW a \in GoodStep,
           OpsOf(Tail(todo[p])) \subseteq Later(a.op), Becomes(p, <<a>>)
    PROVE  \E R : /\ Due = {Head(todo[p]).op} \cup R /\ Due' = {a.op} \cup R
                  /\ R \subseteq Later(Head(todo[p]).op)
                  /\ Queues' /\ StepsLeft' \subseteq StepsLeft \cup {a}
                  /\ Head(todo[p]) \in StepsLeft /\ R = OpsOf(Tail(todo[p]))
<1> DEFINE q == <<a>>
<1>1. /\ q \in Seq(GoodStep) /\ InOrder(q) /\ OpsOf(q) = {a.op} /\ StepsOf(q) = {a} /\ Becomes(p, q)
  BY ShortSteps, Short
<1> HIDE DEF q
<1>2. q \in Seq(GoodStep) /\ \A o \in OpsOf(q) : OpsOf(Tail(todo[p])) \subseteq Later(o)
  BY <1>1
<1>3. PICK R : /\ Due = {Head(todo[p]).op} \cup R /\ Due' = OpsOf(q) \cup R
               /\ R \subseteq Later(Head(todo[p]).op)
               /\ Queues' /\ StepsLeft' \subseteq StepsLeft \cup StepsOf(q)
               /\ Head(todo[p]) \in StepsLeft /\ R = OpsOf(Tail(todo[p]))
  BY <1>1, <1>2, BecomesFacts
<1> QED BY <1>1, <1>3

LEMMA BecomesTwo ==
    ASSUME NEW p \in Tasks, NEW ops, At(p, ops), NEW a \in GoodStep, NEW b \in GoodStep,
           OpsOf(Tail(todo[p])) \subseteq Later(a.op), OpsOf(Tail(todo[p])) \subseteq Later(b.op),
           b.op \in Later(a.op), Becomes(p, <<a, b>>)
    PROVE  \E R : /\ Due = {Head(todo[p]).op} \cup R /\ Due' = {a.op, b.op} \cup R
                  /\ R \subseteq Later(Head(todo[p]).op)
                  /\ Queues' /\ StepsLeft' \subseteq StepsLeft \cup {a, b}
                  /\ Head(todo[p]) \in StepsLeft /\ R = OpsOf(Tail(todo[p]))
<1> DEFINE q == <<a, b>>
<1>1. /\ q \in Seq(GoodStep) /\ InOrder(q) /\ OpsOf(q) = {a.op, b.op} /\ StepsOf(q) = {a, b} /\ Becomes(p, q)
  BY ShortSteps, Short
<1> HIDE DEF q
<1>2. q \in Seq(GoodStep) /\ \A o \in OpsOf(q) : OpsOf(Tail(todo[p])) \subseteq Later(o)
  BY <1>1
<1>3. PICK R : /\ Due = {Head(todo[p]).op} \cup R /\ Due' = OpsOf(q) \cup R
               /\ R \subseteq Later(Head(todo[p]).op)
               /\ Queues' /\ StepsLeft' \subseteq StepsLeft \cup StepsOf(q)
               /\ Head(todo[p]) \in StepsLeft /\ R = OpsOf(Tail(todo[p]))
  BY <1>1, <1>2, BecomesFacts
<1> QED BY <1>1, <1>3

LEMMA RaiseSerial ==
    ASSUME NEW p \in Tasks, At(p, {"raise"}), RaiseOrderCreated(p, Head(todo[p]))
    PROVE  SerialInv'
<1> DEFINE s == Head(todo[p])
           a == Do("succeeded", s.src)
<1>1. /\ Typed /\ SerialInv /\ s.op = "raise"
      /\ UNCHANGED <<order, cached, tracked, events, bufFills, bufCancel, create, trades, ws>>
      /\ Done(p) \/ Becomes(p, <<a>>)
  BY DEF At, RaiseOrderCreated, orderVars, bufferVars, exVars
<1>2. OpsOf(Tail(todo[p])) \subseteq {"end"}
  BY <1>1, TailFacts DEF Later
<1>3. a \in GoodStep /\ a.op = "succeeded"
  BY <1>1, StepFacts, DoTyped, DoFields DEF At, Typed, Ops, FillOps
<1> HIDE DEF a
<1>4. \E R : /\ Due = {"raise"} \cup R /\ Due' \subseteq {"succeeded"} \cup R /\ R \subseteq Due'
             /\ R \subseteq {"end"} /\ Queues' /\ StepsLeft' \subseteq StepsLeft \cup {a}
  <2>1. CASE Done(p)
    BY <1>1, <2>1, DoneFacts DEF Later
  <2>2. CASE Becomes(p, <<a>>)
    <3>1. OpsOf(Tail(todo[p])) \subseteq Later(a.op)
      BY <1>2, <1>3 DEF Later
    <3>2. PICK R : /\ Due = {s.op} \cup R /\ Due' = {a.op} \cup R
                   /\ R \subseteq Later(s.op)
                   /\ Queues' /\ StepsLeft' \subseteq StepsLeft \cup {a}
      BY <1>3, <2>2, <3>1, BecomesOne
    <3> QED BY <1>1, <1>3, <3>2 DEF Later
  <2> QED BY <1>1, <2>1, <2>2
<1>5. Known(a) /\ a.op # "addFill"
  BY <1>3 DEF Known, FillOps
<1>6. OnTheWay'
  BY <1>1, <1>4, <1>5, OnTheWayOne DEF SerialInv
<1>7. /\ Due' \cap Marks = Due \cap Marks /\ \A o \in Due' \ Due : Fits(o)
      /\ "addFill" \notin Due' /\ "complete" \notin Due /\ "filled" \notin Due'
  BY <1>4 DEF Marks, Fits
<1> QED BY <1>1, <1>4, <1>6, <1>7, CalmSerial DEF SameOrder

(* Task p has other steps to take than it had, or none. *)
LEMMA Starts ==
    ASSUME Typed, NEW p \in Tasks, \A o \in Tasks : o # p => todo[o] = <<>>, NEW q, InOrder(q),
           todo' = [todo EXCEPT ![p] = q]
    PROVE  /\ Queues' /\ StepsLeft' = StepsOf(q) /\ Due' = OpsOf(q)
           /\ todo'[p] = q /\ \A o \in Tasks : o # p => todo'[o] = <<>>
<1>1. /\ Tasks = {"create", "ws"} /\ DOMAIN todo = Tasks
      /\ \A o \in Tasks : o # p => todo[o] = <<>>
  BY DEF Typed, TodoTyped, Tasks
<1>2. todo'[p] = q /\ \A o \in Tasks : o # p => todo'[o] = <<>>
  BY <1>1
<1>3. StepsLeft' = StepsOf(q)
  <2>1. StepsLeft' = StepsOf(todo'["create"]) \cup StepsOf(todo'["ws"])
    BY DEF StepsLeft, StepsOf
  <2>2. StepsOf(<<>>) = {}
    BY ShortSteps
  <2>3. CASE p = "create"
    BY <1>1, <1>2, <2>1, <2>2, <2>3
  <2>4. CASE p = "ws"
    BY <1>1, <1>2, <2>1, <2>2, <2>4
  <2> QED BY <1>1, <2>3, <2>4
<1>4. Due' = OpsOf(q)
  <2>1. Due' = {x.op : x \in StepsLeft'}
    BY DEF Due
  <2> QED BY <1>3, <2>1 DEF OpsOf
<1>5. Queues'
  <2>1. \A o \in Tasks : InOrder(todo'[o])
    BY <1>2, ShortSteps
  <2>2. todo'["create"] = <<>> \/ todo'["ws"] = <<>>
    BY <1>1, <1>2
  <2> QED BY <2>1, <2>2 DEF Queues, InOrder
<1> QED BY <1>2, <1>3, <1>4, <1>5

LEMMA CreationStepsFacts ==
    ASSUME NEW src
    PROVE  /\ OpsOf(CreationSteps(src)) = {"setCreated", "insert", "announce", "takeFills", "takeCancel"}
           /\ InOrder(CreationSteps(src))
           /\ \A s \in StepsOf(CreationSteps(src)) : s.op \in OpsOf(CreationSteps(src))
<1> DEFINE q == CreationSteps(src)
<1>1. /\ DOMAIN q = {1, 2, 3, 4, 5}
      /\ q[1] = Do("setCreated", src) /\ q[2] = Do("insert", src) /\ q[3] = Do("announce", src)
      /\ q[4] = Do("takeFills", src) /\ q[5] = Do("takeCancel", src)
  BY DEF CreationSteps
<1>2. /\ q[1].op = "setCreated" /\ q[2].op = "insert" /\ q[3].op = "announce"
      /\ q[4].op = "takeFills" /\ q[5].op = "takeCancel"
  BY <1>1, DoFields
<1> HIDE DEF q
<1>3. StepsOf(q) = {q[1], q[2], q[3], q[4], q[5]}
  BY <1>1 DEF StepsOf
<1>4. OpsOf(q) = {"setCreated", "insert", "announce", "takeFills", "takeCancel"}
  BY <1>2, <1>3 DEF OpsOf
<1>5. InOrder(q)
  <2> SUFFICES ASSUME NEW i \in {1, 2, 3, 4, 5}, NEW k \in {1, 2, 3, 4, 5}, i < k
               PROVE  q[k].op \in Later(q[i].op)
    BY <1>1 DEF InOrder
  <2> QED BY <1>2 DEF Later
<1>6. \A s \in StepsOf(q) : s.op \in OpsOf(q)
  BY DEF OpsOf
<1> QED BY <1>4, <1>5, <1>6 DEF q

LEMMA SucceededSerial ==
    ASSUME NEW p \in Tasks, At(p, {"succeeded", "answered"}), HandleCreateOrderSucceeded(p, Head(todo[p]))
    PROVE  SerialInv'
<1> DEFINE s == Head(todo[p])
           c == CreationSteps(s.src)
<1>1. /\ Typed /\ SerialInv /\ s.op \in {"succeeded", "answered"}
      /\ order' = [order EXCEPT !.id = TRUE]
      /\ UNCHANGED <<cached, tracked, events, bufFills, bufCancel, trades, ws>>
      /\ create' \in {create, "failed"}
  BY DEF At, HandleCreateOrderSucceeded, bufferVars, exVars
<1>2. \/ todo' = [todo EXCEPT ![p] = <<>>]
      \/ Becomes(p, <<>>)
      \/ order.status = "Creating" /\ ~cached /\ Becomes(p, c)
  BY DEF HandleCreateOrderSucceeded
<1>3. SameOrder
  BY <1>1 DEF SameOrder, Typed, OrderTyped, OrderType
<1>4. OpsOf(Tail(todo[p])) \subseteq {"end"}
  BY <1>1, TailFacts DEF Later
<1>5. CASE todo' = [todo EXCEPT ![p] = <<>>] \/ Becomes(p, <<>>)
  <2>1. PICK R : Due = {s.op} \cup R /\ R \subseteq {"end"} /\ Due' \subseteq R /\ Queues' /\ StepsLeft' \subseteq StepsLeft
    <3>1. CASE Becomes(p, <<>>)
      <4>1. \E R : /\ Due = {Head(todo[p]).op} \cup R /\ Due' = R
                  /\ R \subseteq Later(Head(todo[p]).op)
                  /\ Queues' /\ StepsLeft' \subseteq StepsLeft
                  /\ Head(todo[p]) \in StepsLeft /\ R = OpsOf(Tail(todo[p]))
        BY <3>1, DoneFacts
      <4> QED BY <1>1, <4>1 DEF Later
    <3>2. CASE todo' = [todo EXCEPT ![p] = <<>>]
      <4>1. InOrder(<<>>) /\ StepsOf(<<>>) = {} /\ OpsOf(<<>>) = {}
        BY ShortSteps
      <4>0. \A o \in Tasks : o # p => todo[o] = <<>>
        BY DEF At, SerialInv, Queues, Tasks
      <4>2. Queues' /\ StepsLeft' = {} /\ Due' = {}
        BY <1>1, <3>2, <4>0, <4>1, Starts
      <4>3. Due = {s.op} \cup OpsOf(Tail(todo[p]))
        <5>1. /\ todo \in [Tasks -> Seq(GoodStep)] /\ InOrder(todo[p]) /\ Tasks = {"create", "ws"}
              /\ \A o \in Tasks : o # p => todo[o] = <<>>
          BY <1>1, <4>0 DEF Typed, TodoTyped, SerialInv, Queues, Tasks
        <5>2. StepsOf(todo[p]) = {s} \cup StepsOf(Tail(todo[p]))
          <6>1. todo[p] \in Seq(GoodStep) /\ todo[p] # <<>> /\ <<>> \in Seq(GoodStep)
            BY <5>1, Short DEF At
          <6> QED BY <4>1, <5>1, <6>1, Queue
        <5>3. StepsLeft = StepsOf(todo[p])
          BY <4>1, <5>1 DEF StepsLeft
        <5> QED BY <5>2, <5>3 DEF Due, OpsOf
      <4> QED BY <1>4, <4>2, <4>3
    <3> QED BY <1>5, <3>1, <3>2
  <2>2. OnTheWay'
    BY <1>1, <1>3, <2>1, OnTheWaySame DEF SerialInv, SameOrder
  <2>3. /\ Due' \cap Marks = Due \cap Marks /\ \A o \in Due' \ Due : Fits(o)
        /\ "addFill" \notin Due' /\ "complete" \notin Due /\ "filled" \notin Due'
    BY <1>1, <2>1 DEF Marks, Fits
  <2> QED BY <1>1, <1>3, <2>1, <2>2, <2>3, CalmSerial
<1>6. ASSUME order.status = "Creating", ~cached, Becomes(p, c) PROVE SerialInv'
  <2>1. /\ OpsOf(c) = {"setCreated", "insert", "announce", "takeFills", "takeCancel"} /\ InOrder(c)
        /\ \A x \in StepsOf(c) : x.op \in OpsOf(c)
    BY CreationStepsFacts
  <2>2. c \in Seq(GoodStep)
    BY <1>1, StepFacts, CreationStepsTyped DEF At, Typed
  <2> HIDE DEF c
  <2>3. \A o \in OpsOf(c) : OpsOf(Tail(todo[p])) \subseteq Later(o)
    BY <1>4, <2>1 DEF Later
  <2>4. PICK R : /\ Due = {s.op} \cup R /\ Due' = OpsOf(c) \cup R
                 /\ R \subseteq Later(s.op)
                 /\ Queues' /\ StepsLeft' \subseteq StepsLeft \cup StepsOf(c)
    BY <1>6, <2>1, <2>2, <2>3, BecomesFacts
  <2>5. R \subseteq {"end"} /\ Due' = {"setCreated", "insert", "announce", "takeFills", "takeCancel"} \cup R
    BY <1>1, <2>1, <2>4 DEF Later
  <2>6. order'.status = "Creating" /\ ~cached'
    BY <1>1, <1>3, <1>6 DEF SameOrder
  <2>7. Chained'
    BY <2>5 DEF Chained
  <2>8. Places'
    BY <1>1, <1>3, <1>6, <2>5, <2>6 DEF SerialInv, Places, SameOrder
  <2>9. Buffers'
    BY <2>6 DEF Buffers
  <2>10. Story'
    <3>1. events = <<>> /\ tracked
      BY <1>1, <1>6 DEF SerialInv, Story, IsFinished
    <3> QED BY <1>1, <2>6, <3>1 DEF SerialInv, Story, GoodStory, IsFinished
  <2>11. Counted'
    BY <1>1, <1>3, <1>6, <2>4, <2>5, <2>6, CountedKept DEF SerialInv, SameOrder
  <2>12. OnTheWay'
    <3>1. \A x \in StepsOf(c) : Known(x) /\ x.op # "addFill"
      BY <2>1 DEF Known, FillOps
    <3> QED BY <1>1, <1>3, <2>4, <3>1, OnTheWayKept DEF SerialInv, SameOrder
  <2> QED BY <2>4, <2>7, <2>8, <2>9, <2>10, <2>11, <2>12 DEF SerialInv
<1> QED BY <1>2, <1>5, <1>6

(* A step that changes nothing the invariant speaks of. *)
LEMMA SameSerial ==
    ASSUME SerialInv, UNCHANGED <<orderVars, bufFills, bufCancel, create, trades, ws, todo>>
    PROVE  SerialInv'
<1>1. StepsLeft' = StepsLeft /\ Due' = Due
  BY DEF StepsLeft, Due, StepsOf
<1>2. Queues' /\ Chained'
  BY <1>1 DEF SerialInv, Queues, InOrder, Chained
<1>3. Places' /\ Buffers'
  BY <1>1 DEF SerialInv, Places, Buffers, orderVars
<1>4. Story' /\ Counted'
  BY <1>1, StoryKept, CountedKept DEF SerialInv, orderVars
<1>5. OnTheWay'
  BY <1>1, OnTheWaySame DEF SerialInv, orderVars
<1> QED BY <1>2, <1>3, <1>4, <1>5 DEF SerialInv

LEMMA FilledSerial ==
    ASSUME NEW p \in Tasks, At(p, {"filled"}), HandleOrderFilled(p, Head(todo[p]))
    PROVE  SerialInv'
<1> DEFINE s == Head(todo[p])
           a == DoFill("bufferFill", s.fill, s.src)
           b == Do("raise", s.src)
           c == DoFill("addFill", s.fill, s.src)
           d == Do("complete", s.src)
<1>1. /\ Typed /\ SerialInv /\ s.op = "filled"
      /\ UNCHANGED <<order, cached, tracked, events, bufFills, bufCancel, create, trades, ws>>
  BY DEF At, HandleOrderFilled, Panics, orderVars, bufferVars, createVars, exVars
<1>2. \/ ~cached /\ Becomes(p, <<a, b>>)
      \/ UNCHANGED todo
      \/ cached /\ Becomes(p, <<>>)
      \/ cached /\ ~IsIgnored(s.fill) /\ ~order.cancelRaised /\ order.status # "Completed" /\ Becomes(p, <<c, d>>)
  BY DEF HandleOrderFilled, Panics
<1>3. OpsOf(Tail(todo[p])) \subseteq {"filled", "removeFills", "takeCancel", "end"}
  BY <1>1, TailFacts DEF Later
<1>4. s.src \in Source /\ s.fill \in Fill /\ todo[p] # <<>> /\ TodoTyped
  BY <1>1, StepFacts DEF At, Typed, FillOps
<1>5. /\ a \in GoodStep /\ b \in GoodStep /\ c \in GoodStep /\ d \in GoodStep
      /\ a.op = "bufferFill" /\ b.op = "raise" /\ c.op = "addFill" /\ d.op = "complete"
      /\ a.fill = s.fill /\ c.fill = s.fill
  BY <1>4, DoTyped, DoFields DEF Ops, FillOps
<1> HIDE DEF a, b, c, d
<1>6. ASSUME UNCHANGED todo PROVE SerialInv'
  BY <1>1, <1>6, SameSerial DEF orderVars
<1>7. ASSUME cached, Becomes(p, <<>>) PROVE SerialInv'
  <2>1. PICK R : /\ Due = {"filled"} \cup R /\ Due' = R
                 /\ R \subseteq Later("filled")
                 /\ Queues' /\ StepsLeft' \subseteq StepsLeft
    BY <1>1, <1>7, DoneFacts
  <2>2. OnTheWay'
    BY <1>1, <2>1, OnTheWaySame DEF SerialInv
  <2>3. /\ Due' \cap Marks = Due \cap Marks /\ \A o \in Due' \ Due : Fits(o)
        /\ "addFill" \notin Due' /\ "complete" \notin Due
    BY <2>1 DEF Marks, Fits, Later
  <2> QED BY <1>1, <1>7, <2>1, <2>2, <2>3, CalmSerial DEF SameOrder
<1>8. ASSUME ~cached, Becomes(p, <<a, b>>) PROVE SerialInv'
  <2>1. OpsOf(Tail(todo[p])) = {}
    <3>1. s.op \in Due
      <4>1. PICK R : Due = {Head(todo[p]).op} \cup R
        <5>1. <<>> \in Seq(GoodStep) /\ InOrder(<<>>) /\ OpsOf(<<>>) = {}
          BY ShortSteps, Short
        <5>2. todo[p] \in Seq(GoodStep) /\ InOrder(todo[p]) /\ todo[p] # <<>>
          BY <1>1, <1>4 DEF TodoTyped, SerialInv, Queues
        <5>3. StepsOf(todo[p]) = {s} \cup StepsOf(Tail(todo[p]))
          BY <5>1, <5>2, Queue
        <5>4. s \in StepsLeft
          BY <5>3 DEF StepsLeft, Tasks
        <5> QED BY <5>4 DEF Due
      <4> QED BY <4>1
    <3>2. Len(todo[p]) <= 1
      BY <1>1, <1>8, <3>1 DEF SerialInv, Places
    <3>3. Tail(todo[p]) = <<>>
      BY <3>2, TailFacts
    <3> QED BY <3>3, ShortSteps
  <2>2. OpsOf(Tail(todo[p])) \subseteq Later(a.op) /\ OpsOf(Tail(todo[p])) \subseteq Later(b.op) /\ b.op \in Later(a.op)
    BY <1>5, <2>1 DEF Later
  <2>3. PICK R : /\ Due = {s.op} \cup R /\ Due' = {a.op, b.op} \cup R
                 /\ Queues' /\ StepsLeft' \subseteq StepsLeft \cup {a, b}
                 /\ s \in StepsLeft /\ R = OpsOf(Tail(todo[p]))
    BY <1>5, <1>8, <2>2, BecomesTwo
  <2>4. Due = {"filled"} /\ Due' = {"bufferFill", "raise"}
    BY <1>1, <1>5, <2>1, <2>3
  <2>5. OnTheWay'
    <3>1. Known(a) /\ Known(b) /\ a.op # "addFill" /\ b.op # "addFill"
      BY <1>1, <1>5, <2>3 DEF SerialInv, OnTheWay, Known, FillOps
    <3> QED BY <1>1, <2>3, <3>1, OnTheWayTwo DEF SerialInv
  <2>6. /\ Due' \cap Marks = Due \cap Marks /\ \A o \in Due' \ Due : Fits(o)
        /\ "addFill" \notin Due' /\ "complete" \notin Due /\ "filled" \notin Due'
    BY <1>8, <2>4 DEF Marks, Fits
  <2> QED BY <1>1, <2>3, <2>5, <2>6, CalmSerial DEF SameOrder
<1>9. ASSUME cached, ~IsIgnored(s.fill), ~order.cancelRaised, order.status # "Completed", Becomes(p, <<c, d>>)
      PROVE  SerialInv'
  <2>1. order.status = "Created"
    BY <1>1, <1>9 DEF SerialInv, Places, Typed, OrderTyped, OrderType, OrderStatus
  <2>2. OpsOf(Tail(todo[p])) \subseteq Later(c.op) /\ OpsOf(Tail(todo[p])) \subseteq Later(d.op) /\ d.op \in Later(c.op)
    BY <1>3, <1>5 DEF Later
  <2>3. PICK R : /\ Due = {s.op} \cup R /\ Due' = {c.op, d.op} \cup R
                 /\ Queues' /\ StepsLeft' \subseteq StepsLeft \cup {c, d}
                 /\ s \in StepsLeft /\ R = OpsOf(Tail(todo[p]))
    BY <1>5, <1>9, <2>2, BecomesTwo
  <2>4. Due = {"filled"} \cup R /\ Due' = {"addFill", "complete"} \cup R /\ R \subseteq {"filled", "removeFills", "takeCancel", "end"}
    BY <1>1, <1>3, <1>5, <2>3
  <2>5. OnTheWay'
    <3>1. Known(c) /\ Known(d) /\ c.fill.trade \notin order.fills /\ d.op # "addFill"
      BY <1>1, <1>5, <1>9, <2>3 DEF SerialInv, OnTheWay, Known, FillOps, IsIgnored
    <3> QED BY <1>1, <2>3, <3>1, OnTheWayTwo DEF SerialInv
  <2>6. /\ Due' \cap Marks = Due \cap Marks /\ \A o \in Due' \ Due : Fits(o)
        /\ "complete" \in Due'
    BY <1>9, <2>1, <2>4 DEF Marks, Fits
  <2> QED BY <1>1, <1>9, <2>3, <2>5, <2>6, CalmSerial DEF SameOrder
<1> QED BY <1>2, <1>6, <1>7, <1>8, <1>9

LEMMA BufferFillSerial ==
    ASSUME NEW p \in Tasks, At(p, {"bufferFill"}), BufferFill(p, Head(todo[p]))
    PROVE  SerialInv'
<1> DEFINE s == Head(todo[p])
<1>1. /\ Typed /\ SerialInv /\ s.op = "bufferFill" /\ Done(p)
      /\ bufFills' = Append(bufFills, s.fill)
      /\ UNCHANGED <<order, cached, tracked, events, bufCancel, create, trades, ws>>
  BY DEF At, BufferFill, orderVars, createVars, exVars
<1>2. PICK R : /\ Due = {"bufferFill"} \cup R /\ Due' = R
               /\ R \subseteq Later("bufferFill")
               /\ Queues' /\ StepsLeft' \subseteq StepsLeft /\ s \in StepsLeft
  BY <1>1, DoneFacts
<1>3. R \subseteq {"raise", "end"}
  BY <1>2 DEF Later
<1>4. ~cached /\ s.fill.trade \in 1..trades
  BY <1>1, <1>2 DEF SerialInv, Places, OnTheWay, Known, FillOps
<1>5. \A k \in DOMAIN bufFills' : bufFills'[k] = s.fill \/ (k \in DOMAIN bufFills /\ bufFills'[k] = bufFills[k])
  BY <1>1 DEF Typed, BufferTyped
<1>6. OnTheWay'
  <2>1. \A x : Known(x)' = Known(x)
    BY <1>1 DEF Known
  <2>2. \A t \in Topics : StepsOf(ws[t])' = StepsOf(ws[t])
    BY <1>1 DEF StepsOf
  <2> QED BY <1>1, <1>2, <1>4, <1>5, <2>1, <2>2 DEF SerialInv, OnTheWay
<1>7. /\ Due' \cap Marks = Due \cap Marks /\ \A o \in Due' \ Due : Fits(o)
      /\ "addFill" \notin Due' /\ "complete" \notin Due /\ "filled" \notin Due'
  BY <1>2, <1>3 DEF Marks, Fits
<1> QED BY <1>1, <1>2, <1>4, <1>6, <1>7, CalmSerial DEF SameOrder

LEMMA FillsFinite ==
    ASSUME Typed, Counted
    PROVE  /\ IsFiniteSet(order.fills) /\ order.filled \in Nat /\ order.filled <= trades
           /\ Amount \in Nat /\ trades \in Nat /\ trades <= Amount
<1>1. /\ order.fills \subseteq 1..trades /\ order.filled = Cardinality(order.fills)
      /\ trades \in Nat /\ Amount \in Nat /\ trades <= Amount /\ order.filled \in Nat
  BY AmountAssumption, SMTT(20) DEF Typed, ExTyped, OrderTyped, OrderType, Counted
<1>2. IsFiniteSet(1..trades) /\ Cardinality(1..trades) = trades
  <2>1. trades \in Int /\ 1 \in Int /\ trades - 1 + 1 = trades /\ (1 > trades => trades = 0)
    BY <1>1
  <2>2. IsFiniteSet(1..trades)
        /\ Cardinality(1..trades) = IF 1 > trades THEN 0 ELSE trades - 1 + 1
    BY <2>1, FS_Interval
  <2> QED BY <2>1, <2>2
<1>3. IsFiniteSet(order.fills) /\ Cardinality(order.fills) <= Cardinality(1..trades)
  BY <1>1, <1>2, FS_Subset
<1> QED BY <1>1, <1>2, <1>3

LEMMA AddFillSerial ==
    ASSUME NEW p \in Tasks, At(p, {"addFill"}), AddFill(p, Head(todo[p]))
    PROVE  SerialInv'
<1> DEFINE s == Head(todo[p])
           t == s.fill.trade
<1>1. /\ Typed /\ SerialInv /\ s.op = "addFill" /\ Done(p)
      /\ order' = [order EXCEPT !.fills = @ \cup {t}, !.filled = @ + 1]
      /\ UNCHANGED <<cached, tracked, events, bufFills, bufCancel, create, trades, ws>>
  BY DEF At, AddFill, bufferVars, createVars, exVars
<1>2. PICK R : /\ Due = {"addFill"} \cup R /\ Due' = R
               /\ R \subseteq Later("addFill")
               /\ Queues' /\ StepsLeft' \subseteq StepsLeft /\ s \in StepsLeft
  BY <1>1, DoneFacts
<1>3. R \subseteq {"complete", "filled", "removeFills", "takeCancel", "end"} /\ "complete" \in R
  BY <1>1, <1>2 DEF Later, SerialInv, Chained
<1>4. order.status = "Created" /\ cached
  BY <1>1, <1>2 DEF SerialInv, Places
<1>5. t \in 1..trades /\ t \notin order.fills
  BY <1>1, <1>2 DEF SerialInv, OnTheWay, Known, FillOps
<1>6. /\ order'.status = order.status /\ order'.cancelRaised = order.cancelRaised
      /\ order'.fallback = order.fallback
      /\ order'.fills = order.fills \cup {t} /\ order'.filled = order.filled + 1
  BY <1>1 DEF Typed, OrderTyped, OrderType
<1> HIDE DEF t
<1>7. Chained'
  BY <1>1, <1>2, <1>3 DEF SerialInv, Chained
<1>8. Places'
  BY <1>1, <1>2, <1>3, <1>4, <1>6 DEF SerialInv, Places
<1>9. Buffers'
  BY <1>1, <1>2 DEF SerialInv, Buffers
<1>10. Story'
  BY <1>1, <1>2, <1>3, <1>6, StoryKept DEF SerialInv
<1>11. Counted'
  <2>1. IsFiniteSet(order.fills) /\ order.filled = Cardinality(order.fills)
    BY <1>1, FillsFinite DEF SerialInv, Counted
  <2>2. Cardinality(order.fills \cup {t}) = Cardinality(order.fills) + 1
    BY <1>5, <2>1, FS_AddElement
  <2> QED BY <1>1, <1>2, <1>3, <1>5, <1>6, <2>1, <2>2 DEF SerialInv, Counted
<1>12. OnTheWay'
  <2>1. \A x : Known(x)' = Known(x)
    BY <1>1 DEF Known
  <2>2. \A o \in Topics : StepsOf(ws[o])' = StepsOf(ws[o])
    BY <1>1 DEF StepsOf
  <2>3. \A x \in StepsLeft' : x.op # "addFill"
    <3>1. \A x \in StepsLeft' : x.op \in Due'
      BY DEF Due
    <3> QED BY <1>2, <1>3, <3>1
  <2> QED BY <1>1, <1>2, <2>1, <2>2, <2>3 DEF SerialInv, OnTheWay
<1> QED BY <1>2, <1>7, <1>8, <1>9, <1>10, <1>11, <1>12 DEF SerialInv

LEMMA AppendTwo ==
    ASSUME NEW S, NEW e \in Seq(S), NEW x \in S, NEW y \in S
    PROVE  e \o <<x, y>> = Append(Append(e, x), y)
OBVIOUS

LEMMA CompleteSerial ==
    ASSUME NEW p \in Tasks, At(p, {"complete"}), CompleteIfFilled(p, Head(todo[p]))
    PROVE  SerialInv'
<1>1. /\ Typed /\ SerialInv /\ Head(todo[p]).op = "complete"
  BY DEF At
<1>2. order.filled <= Amount /\ order.filled \in Nat /\ Amount \in Nat
  BY <1>1, FillsFinite DEF SerialInv
<1>3. /\ Done(p)
      /\ UNCHANGED <<cached, bufFills, bufCancel, create, trades, ws>>
      /\ \/ /\ order.filled < Amount /\ UNCHANGED order
            /\ events' = Append(events, "OrderFilled")
            /\ tracked' = (tracked /\ ~IsFinished(order.status))
         \/ /\ order.filled = Amount /\ order' = [order EXCEPT !.status = "Completed"]
            /\ events' = events \o <<"OrderFilled", "OrderCompleted">>
            /\ tracked' = FALSE
  BY <1>2 DEF CompleteIfFilled, Send, bufferVars, createVars, exVars
<1>4. PICK R : /\ Due = {"complete"} \cup R /\ Due' = R
               /\ R \subseteq Later("complete")
               /\ Queues' /\ StepsLeft' \subseteq StepsLeft
  BY <1>1, <1>3, DoneFacts
<1>5. R \subseteq {"filled", "removeFills", "takeCancel", "end"}
  BY <1>4 DEF Later
<1>6. order.status = "Created" /\ cached
  BY <1>1, <1>4 DEF SerialInv, Places
<1>7. /\ order'.status = IF order.filled = Amount THEN "Completed" ELSE "Created"
      /\ order'.cancelRaised = order.cancelRaised /\ order'.fallback = order.fallback
      /\ order'.fills = order.fills /\ order'.filled = order.filled
  BY <1>1, <1>2, <1>3, <1>6 DEF Typed, OrderTyped, OrderType
<1>8. Chained'
  BY <1>1, <1>4, <1>5 DEF SerialInv, Chained
<1>9. Places'
  BY <1>1, <1>3, <1>4, <1>5, <1>6, <1>7 DEF SerialInv, Places
<1>10. Buffers'
  BY <1>1, <1>3, <1>4 DEF SerialInv, Buffers
<1>11. Story'
  <2>1. /\ events \in Seq(OrderEventType) /\ GoodStory(events) /\ Goes(events) /\ events # <<>> /\ tracked
    BY <1>1, <1>4, <1>5, <1>6, StoryFacts DEF SerialInv, IsFinished
  <2> DEFINE e == Append(events, "OrderFilled")
  <2>2. e \in Seq(OrderEventType) /\ GoodStory(e) /\ Goes(e) /\ e # <<>>
    BY <2>1, StoryAdded DEF OrderEventType
  <2>3. events \o <<"OrderFilled", "OrderCompleted">> = Append(e, "OrderCompleted")
    BY <2>1, AppendTwo DEF OrderEventType
  <2> HIDE DEF e
  <2>4. GoodStory(Append(e, "OrderCompleted")) /\ Append(e, "OrderCompleted") # <<>>
    BY <2>2, StoryAdded DEF OrderEventType
  <2>5. CASE order.filled < Amount
    <3>1. order.filled # Amount
      BY <1>2, <2>5
    <3>2. events' = e /\ tracked' = (tracked /\ ~IsFinished(order.status))
      BY <1>3, <3>1, Zenon DEF e
    <3>3. order'.status = "Created" /\ tracked' /\ "announce" \notin Due'
      BY <1>4, <1>5, <1>6, <1>7, <2>1, <3>1, <3>2 DEF IsFinished
    <3>4. GoodStory(events') /\ Goes(events') /\ events' # <<>>
      BY <2>2, <3>2
    <3>5. ~IsFinished(order'.status) /\ order'.status # "Creating"
      BY <3>3 DEF IsFinished
    <3> QED BY <3>3, <3>4, <3>5, StoryHolds
  <2>6. CASE order.filled = Amount
    <3>1. ~(order.filled < Amount)
      BY <1>2, <2>6
    <3>2. events' = events \o <<"OrderFilled", "OrderCompleted">> /\ tracked' = FALSE
      BY <1>3, <3>1, Zenon
    <3>3. order'.status = "Completed" /\ ~tracked' /\ "announce" \notin Due'
      BY <1>4, <1>5, <1>7, <2>6, <3>2
    <3>4. GoodStory(events') /\ events' # <<>>
      BY <2>3, <2>4, <3>2
    <3>5. IsFinished(order'.status) /\ order'.status # "Creating"
      BY <3>3 DEF IsFinished
    <3> QED BY <3>3, <3>4, <3>5, StoryHolds
  <2> QED BY <1>2, <2>5, <2>6
<1>12. Counted'
  BY <1>1, <1>3, <1>7 DEF SerialInv, Counted
<1>13. OnTheWay'
  BY <1>1, <1>3, <1>4, <1>7, OnTheWaySame DEF SerialInv
<1> QED BY <1>4, <1>8, <1>9, <1>10, <1>11, <1>12, <1>13 DEF SerialInv

LEMMA CancelledSerial ==
    ASSUME NEW p \in Tasks, At(p, {"cancelled"}), HandleCancelOrderSucceeded(p, Head(todo[p]))
    PROVE  SerialInv'
<1> DEFINE s == Head(todo[p])
           a == Do("bufferCancel", s.src)
           b == Do("raise", s.src)
           c == Do("setCanceled", s.src)
<1>1. /\ Typed /\ SerialInv /\ s.op = "cancelled"
      /\ UNCHANGED <<order, cached, tracked, events, bufFills, bufCancel, create, trades, ws>>
  BY DEF At, HandleCancelOrderSucceeded, orderVars, bufferVars, createVars, exVars
<1>2. \/ ~cached /\ Becomes(p, <<a, b>>)
      \/ Becomes(p, <<>>)
      \/ cached /\ order.status \notin {"Canceled", "Completed"} /\ Becomes(p, <<c>>)
  BY DEF HandleCancelOrderSucceeded
<1>3. OpsOf(Tail(todo[p])) \subseteq {"removeCancel", "end"}
  BY <1>1, TailFacts DEF Later
<1>4. s.src \in Source /\ todo[p] \in Seq(GoodStep) /\ InOrder(todo[p]) /\ todo[p] # <<>>
  BY <1>1, StepFacts DEF At, Typed, TodoTyped, SerialInv, Queues
<1>5. /\ a \in GoodStep /\ b \in GoodStep /\ c \in GoodStep
      /\ a.op = "bufferCancel" /\ b.op = "raise" /\ c.op = "setCanceled"
  BY <1>4, DoTyped, DoFields DEF Ops, FillOps
<1>6. Known(a) /\ Known(b) /\ Known(c)
  BY <1>5 DEF Known, FillOps
<1> HIDE DEF a, b, c
<1>7. ASSUME Becomes(p, <<>>) PROVE SerialInv'
  <2>1. PICK R : /\ Due = {"cancelled"} \cup R /\ Due' = R
                 /\ R \subseteq Later("cancelled")
                 /\ Queues' /\ StepsLeft' \subseteq StepsLeft
    BY <1>1, <1>7, DoneFacts
  <2>2. OnTheWay'
    BY <1>1, <2>1, OnTheWaySame DEF SerialInv
  <2>3. /\ Due' \cap Marks = Due \cap Marks /\ \A o \in Due' \ Due : Fits(o)
        /\ "addFill" \notin Due' /\ "complete" \notin Due /\ "filled" \notin Due'
    BY <2>1 DEF Marks, Fits, Later
  <2> QED BY <1>1, <2>1, <2>2, <2>3, CalmSerial DEF SameOrder
<1>8. ASSUME ~cached, Becomes(p, <<a, b>>) PROVE SerialInv'
  <2>1. OpsOf(Tail(todo[p])) \subseteq {"end"}
    <3>1. StepsOf(Tail(todo[p])) \subseteq StepsLeft
      <4>1. <<>> \in Seq(GoodStep) /\ InOrder(<<>>) /\ OpsOf(<<>>) = {}
        BY ShortSteps, Short
      <4>2. StepsOf(todo[p]) = {s} \cup StepsOf(Tail(todo[p]))
        BY <1>4, <4>1, Queue
      <4> QED BY <4>2 DEF StepsLeft, Tasks
    <3>2. OpsOf(Tail(todo[p])) \subseteq Due
      BY <3>1 DEF OpsOf, Due
    <3> QED BY <1>1, <1>3, <1>8, <3>2 DEF SerialInv, Places
  <2>2. OpsOf(Tail(todo[p])) \subseteq Later(a.op) /\ OpsOf(Tail(todo[p])) \subseteq Later(b.op) /\ b.op \in Later(a.op)
    BY <1>5, <2>1 DEF Later
  <2>3. PICK R : /\ Due = {s.op} \cup R /\ Due' = {a.op, b.op} \cup R
                 /\ Queues' /\ StepsLeft' \subseteq StepsLeft \cup {a, b}
                 /\ s \in StepsLeft /\ R = OpsOf(Tail(todo[p]))
    BY <1>5, <1>8, <2>2, BecomesTwo
  <2>4. Due = {"cancelled"} \cup R /\ Due' = {"bufferCancel", "raise"} \cup R /\ R \subseteq {"end"}
    BY <1>1, <1>5, <2>1, <2>3
  <2>5. OnTheWay'
    BY <1>1, <1>5, <1>6, <2>3, OnTheWayTwo DEF SerialInv
  <2>6. /\ Due' \cap Marks = Due \cap Marks /\ \A o \in Due' \ Due : Fits(o)
        /\ "addFill" \notin Due' /\ "complete" \notin Due /\ "filled" \notin Due'
    BY <1>8, <2>4 DEF Marks, Fits
  <2> QED BY <1>1, <2>3, <2>5, <2>6, CalmSerial DEF SameOrder
<1>9. ASSUME cached, order.status \notin {"Canceled", "Completed"}, Becomes(p, <<c>>) PROVE SerialInv'
  <2>1. order.status = "Created"
    BY <1>1, <1>9 DEF SerialInv, Places, Typed, OrderTyped, OrderType, OrderStatus
  <2>2. OpsOf(Tail(todo[p])) \subseteq Later(c.op)
    BY <1>3, <1>5 DEF Later
  <2>3. PICK R : /\ Due = {s.op} \cup R /\ Due' = {c.op} \cup R
                 /\ Queues' /\ StepsLeft' \subseteq StepsLeft \cup {c}
                 /\ R = OpsOf(Tail(todo[p]))
    BY <1>5, <1>9, <2>2, BecomesOne
  <2>4. Due = {"cancelled"} \cup R /\ Due' = {"setCanceled"} \cup R /\ R \subseteq {"removeCancel", "end"}
    BY <1>1, <1>3, <1>5, <2>3
  <2>5. OnTheWay'
    BY <1>1, <1>5, <1>6, <2>3, OnTheWayOne DEF SerialInv
  <2>6. /\ Due' \cap Marks = Due \cap Marks /\ \A o \in Due' \ Due : Fits(o)
        /\ "addFill" \notin Due' /\ "complete" \notin Due /\ "filled" \notin Due'
    BY <1>9, <2>1, <2>4 DEF Marks, Fits
  <2> QED BY <1>1, <2>3, <2>5, <2>6, CalmSerial DEF SameOrder
<1> QED BY <1>2, <1>7, <1>8, <1>9

LEMMA BufferCancelSerial ==
    ASSUME NEW p \in Tasks, At(p, {"bufferCancel"}), BufferCancel(p, Head(todo[p]))
    PROVE  SerialInv'
<1>1. /\ Typed /\ SerialInv /\ Head(todo[p]).op = "bufferCancel" /\ Done(p)
      /\ UNCHANGED <<order, cached, tracked, events, bufFills, create, trades, ws>>
  BY DEF At, BufferCancel, orderVars, createVars, exVars
<1>2. PICK R : /\ Due = {"bufferCancel"} \cup R /\ Due' = R
               /\ R \subseteq Later("bufferCancel")
               /\ Queues' /\ StepsLeft' \subseteq StepsLeft
  BY <1>1, DoneFacts
<1>3. ~cached
  BY <1>1, <1>2 DEF SerialInv, Places
<1>4. OnTheWay'
  BY <1>1, <1>2, OnTheWaySame DEF SerialInv
<1>5. /\ Due' \cap Marks = Due \cap Marks /\ \A o \in Due' \ Due : Fits(o)
      /\ "addFill" \notin Due' /\ "complete" \notin Due /\ "filled" \notin Due'
  BY <1>2 DEF Marks, Fits, Later
<1> QED BY <1>1, <1>2, <1>3, <1>4, <1>5, CalmSerial DEF SameOrder

LEMMA SetCanceledSerial ==
    ASSUME NEW p \in Tasks, At(p, {"setCanceled"}), SetCanceled(p, Head(todo[p]))
    PROVE  SerialInv'
<1>1. /\ Typed /\ SerialInv /\ Head(todo[p]).op = "setCanceled" /\ Done(p)
      /\ order' = [order EXCEPT !.status = "Canceled", !.cancelRaised = TRUE]
      /\ events' = Append(events, "CancelOrderSucceeded") /\ ~tracked'
      /\ UNCHANGED <<cached, bufFills, bufCancel, create, trades, ws>>
  BY DEF At, SetCanceled, Send, IsFinished, bufferVars, createVars, exVars
<1>2. PICK R : /\ Due = {"setCanceled"} \cup R /\ Due' = R
               /\ R \subseteq Later("setCanceled")
               /\ Queues' /\ StepsLeft' \subseteq StepsLeft
  BY <1>1, DoneFacts
<1>3. R \subseteq {"removeCancel", "end"}
  BY <1>2 DEF Later
<1>4. order.status = "Created" /\ cached
  BY <1>1, <1>2 DEF SerialInv, Places
<1>5. /\ order'.status = "Canceled" /\ order'.cancelRaised
      /\ order'.fills = order.fills /\ order'.filled = order.filled
  BY <1>1 DEF Typed, OrderTyped, OrderType
<1>6. Chained'
  BY <1>2, <1>3 DEF Chained
<1>7. Places'
  BY <1>1, <1>2, <1>3, <1>4, <1>5 DEF SerialInv, Places
<1>8. Buffers'
  BY <1>1, <1>2 DEF SerialInv, Buffers
<1>9. Story'
  <2>1. /\ events \in Seq(OrderEventType) /\ GoodStory(events) /\ Goes(events) /\ events # <<>>
    BY <1>1, <1>2, <1>3, <1>4, StoryFacts DEF SerialInv, IsFinished
  <2>2. GoodStory(events') /\ events' # <<>>
    BY <1>1, <2>1, StoryAdded DEF OrderEventType
  <2>3. IsFinished(order'.status) /\ order'.status # "Creating" /\ "announce" \notin Due'
    BY <1>2, <1>3, <1>5 DEF IsFinished
  <2> QED BY <1>1, <2>2, <2>3, StoryHolds
<1>10. Counted'
  BY <1>1, <1>2, <1>3, <1>4, <1>5 DEF SerialInv, Counted
<1>11. OnTheWay'
  BY <1>1, <1>2, <1>5, OnTheWaySame DEF SerialInv
<1> QED BY <1>2, <1>6, <1>7, <1>8, <1>9, <1>10, <1>11 DEF SerialInv

LEMMA FailedSerial ==
    ASSUME NEW p \in Tasks, At(p, {"failed"}), HandleCreateOrderFailed(p, Head(todo[p]))
    PROVE  SerialInv'
<1> DEFINE s == Head(todo[p])
           a == Do("setFailed", s.src)
<1>1. /\ Typed /\ SerialInv /\ s.op = "failed"
      /\ UNCHANGED <<order, cached, tracked, events, bufFills, bufCancel, create, trades, ws>>
      /\ Becomes(p, <<>>) \/ (order.status = "Creating" /\ Becomes(p, <<a>>))
  BY DEF At, HandleCreateOrderFailed, orderVars, bufferVars, createVars, exVars
<1>2. OpsOf(Tail(todo[p])) \subseteq {"end"}
  BY <1>1, TailFacts DEF Later
<1>3. a \in GoodStep /\ a.op = "setFailed"
  BY <1>1, StepFacts, DoTyped, DoFields DEF At, Typed, Ops, FillOps
<1> HIDE DEF a
<1>4. Known(a) /\ a.op # "addFill"
  BY <1>3 DEF Known, FillOps
<1>5. ASSUME Becomes(p, <<>>) PROVE SerialInv'
  <2>1. PICK R : /\ Due = {"failed"} \cup R /\ Due' = R
                 /\ R \subseteq Later("failed")
                 /\ Queues' /\ StepsLeft' \subseteq StepsLeft
    BY <1>1, <1>5, DoneFacts
  <2>2. OnTheWay'
    BY <1>1, <2>1, OnTheWaySame DEF SerialInv
  <2>3. /\ Due' \cap Marks = Due \cap Marks /\ \A o \in Due' \ Due : Fits(o)
        /\ "addFill" \notin Due' /\ "complete" \notin Due /\ "filled" \notin Due'
    BY <2>1 DEF Marks, Fits, Later
  <2> QED BY <1>1, <2>1, <2>2, <2>3, CalmSerial DEF SameOrder
<1>6. ASSUME order.status = "Creating", Becomes(p, <<a>>) PROVE SerialInv'
  <2>1. OpsOf(Tail(todo[p])) \subseteq Later(a.op)
    BY <1>2, <1>3 DEF Later
  <2>2. PICK R : /\ Due = {s.op} \cup R /\ Due' = {a.op} \cup R
                 /\ Queues' /\ StepsLeft' \subseteq StepsLeft \cup {a}
                 /\ R = OpsOf(Tail(todo[p]))
    BY <1>3, <1>6, <2>1, BecomesOne
  <2>3. Due = {"failed"} \cup R /\ Due' = {"setFailed"} \cup R /\ R \subseteq {"end"}
    BY <1>1, <1>2, <1>3, <2>2
  <2>4. OnTheWay'
    BY <1>1, <1>4, <2>2, OnTheWayOne DEF SerialInv
  <2>5. /\ Due' \cap Marks = Due \cap Marks /\ \A o \in Due' \ Due : Fits(o)
        /\ "addFill" \notin Due' /\ "complete" \notin Due /\ "filled" \notin Due'
    BY <1>6, <2>3 DEF Marks, Fits
  <2> QED BY <1>1, <2>2, <2>4, <2>5, CalmSerial DEF SameOrder
<1> QED BY <1>1, <1>5, <1>6

LEMMA SetFailedSerial ==
    ASSUME NEW p \in Tasks, At(p, {"setFailed"}), SetFailed(p, Head(todo[p]))
    PROVE  SerialInv'
<1>1. /\ Typed /\ SerialInv /\ Head(todo[p]).op = "setFailed" /\ Done(p)
      /\ order' = [order EXCEPT !.status = "FailedToCreate"]
      /\ events' = Append(events, "CreateOrderFailed") /\ ~tracked'
      /\ UNCHANGED <<cached, bufFills, bufCancel, create, trades, ws>>
  BY DEF At, SetFailed, Send, IsFinished, bufferVars, createVars, exVars
<1>2. PICK R : /\ Due = {"setFailed"} \cup R /\ Due' = R
               /\ R \subseteq Later("setFailed")
               /\ Queues' /\ StepsLeft' \subseteq StepsLeft
  BY <1>1, DoneFacts
<1>3. R \subseteq {"end"}
  BY <1>2 DEF Later
<1>4. order.status = "Creating" /\ ~cached
  BY <1>1, <1>2 DEF SerialInv, Places
<1>5. /\ order'.status = "FailedToCreate"
      /\ order'.fills = order.fills /\ order'.filled = order.filled
  BY <1>1 DEF Typed, OrderTyped, OrderType
<1>6. Chained'
  BY <1>2, <1>3 DEF Chained
<1>7. Places'
  BY <1>1, <1>2, <1>3, <1>4, <1>5 DEF SerialInv, Places
<1>8. Buffers'
  BY <1>1, <1>4 DEF Buffers
<1>9. Story'
  <2>1. /\ events \in Seq(OrderEventType) /\ GoodStory(events) /\ Goes(events) /\ events = <<>>
    BY <1>1, <1>2, <1>3, <1>4, StoryFacts DEF SerialInv, IsFinished
  <2>2. GoodStory(events') /\ events' # <<>>
    BY <1>1, <2>1, StoryAdded DEF OrderEventType
  <2>3. IsFinished(order'.status) /\ order'.status # "Creating" /\ "announce" \notin Due'
    BY <1>2, <1>3, <1>5 DEF IsFinished
  <2> QED BY <1>1, <2>2, <2>3, StoryHolds
<1>10. Counted'
  BY <1>1, <1>2, <1>3, <1>4, <1>5 DEF SerialInv, Counted
<1>11. OnTheWay'
  BY <1>1, <1>2, <1>5, OnTheWaySame DEF SerialInv
<1> QED BY <1>2, <1>6, <1>7, <1>8, <1>9, <1>10, <1>11 DEF SerialInv

LEMMA EndSerial ==
    ASSUME NEW p \in Tasks, At(p, {"end"}), EndCreateOrder(p, Head(todo[p]))
    PROVE  SerialInv'
<1>1. /\ Typed /\ SerialInv /\ Head(todo[p]).op = "end" /\ Done(p)
      /\ create' = IF order.fallback /\ order.status # "FailedToCreate" THEN "trades" ELSE "finished"
      /\ UNCHANGED <<order, cached, tracked, events, bufFills, bufCancel, trades, ws>>
  BY DEF At, EndCreateOrder, orderVars, bufferVars, exVars
<1>2. PICK R : /\ Due = {"end"} \cup R /\ Due' = R
               /\ R \subseteq Later("end")
               /\ Queues' /\ StepsLeft' \subseteq StepsLeft
  BY <1>1, DoneFacts
<1>3. create' = "trades" => order.status \notin {"Creating", "FailedToCreate"}
  BY <1>1 DEF SerialInv, Places
<1>4. OnTheWay'
  BY <1>1, <1>2, OnTheWaySame DEF SerialInv
<1>5. /\ Due' \cap Marks = Due \cap Marks /\ \A o \in Due' \ Due : Fits(o)
      /\ "addFill" \notin Due' /\ "complete" \notin Due /\ "filled" \notin Due'
  BY <1>2 DEF Marks, Fits, Later
<1> QED BY <1>1, <1>2, <1>3, <1>4, <1>5, CalmSerial DEF SameOrder

LEMMA TakeStepSerial ==
    ASSUME Typed, SerialInv, NEW p \in Tasks, TakeStep(p)
    PROVE  SerialInv'
<1> DEFINE s == Head(todo[p])
<1>1. \A ops : s.op \in ops => At(p, ops)
  BY DEF At, TakeStep
<1>2. CASE s.op = "raise" /\ RaiseOrderCreated(p, s)
  BY <1>1, <1>2, RaiseSerial
<1>3. CASE s.op \in {"succeeded", "answered"} /\ HandleCreateOrderSucceeded(p, s)
  BY <1>1, <1>3, SucceededSerial
<1>4. CASE s.op = "setCreated" /\ SetCreated(p, s)
  BY <1>1, <1>4, SetCreatedSerial
<1>5. CASE s.op = "insert" /\ InsertIntoCache(p, s)
  BY <1>1, <1>5, InsertSerial
<1>6. CASE s.op = "announce" /\ Announce(p, s)
  BY <1>1, <1>6, AnnounceSerial
<1>7. CASE s.op = "takeFills" /\ TakeFills(p, s)
  BY <1>1, <1>7, TakeFillsSerial
<1>8. CASE s.op = "removeFills" /\ RemoveFills(p, s)
  BY <1>1, <1>8, RemoveFillsSerial
<1>9. CASE s.op = "takeCancel" /\ TakeCancel(p, s)
  BY <1>1, <1>9, TakeCancelSerial
<1>10. CASE s.op = "removeCancel" /\ RemoveCancel(p, s)
  BY <1>1, <1>10, RemoveCancelSerial
<1>11. CASE s.op = "filled" /\ HandleOrderFilled(p, s)
  BY <1>1, <1>11, FilledSerial
<1>12. CASE s.op = "bufferFill" /\ BufferFill(p, s)
  BY <1>1, <1>12, BufferFillSerial
<1>13. CASE s.op = "addFill" /\ AddFill(p, s)
  BY <1>1, <1>13, AddFillSerial
<1>14. CASE s.op = "complete" /\ CompleteIfFilled(p, s)
  BY <1>1, <1>14, CompleteSerial
<1>15. CASE s.op = "cancelled" /\ HandleCancelOrderSucceeded(p, s)
  BY <1>1, <1>15, CancelledSerial
<1>16. CASE s.op = "bufferCancel" /\ BufferCancel(p, s)
  BY <1>1, <1>16, BufferCancelSerial
<1>17. CASE s.op = "setCanceled" /\ SetCanceled(p, s)
  BY <1>1, <1>17, SetCanceledSerial
<1>18. CASE s.op = "failed" /\ HandleCreateOrderFailed(p, s)
  BY <1>1, <1>18, FailedSerial
<1>19. CASE s.op = "setFailed" /\ SetFailed(p, s)
  BY <1>1, <1>19, SetFailedSerial
<1>20. CASE s.op = "end" /\ EndCreateOrder(p, s)
  BY <1>1, <1>20, EndSerial
<1> QED BY <1>2, <1>3, <1>4, <1>5, <1>6, <1>7, <1>8, <1>9, <1>10, <1>11, <1>12, <1>13, <1>14,
           <1>15, <1>16, <1>17, <1>18, <1>19, <1>20, Zenon DEF TakeStep

-----------------------------------------------------------------------------
(* The other actions. *)

LEMMA Idle ==
    ASSUME \A p \in Tasks : todo[p] = <<>>
    PROVE  StepsLeft = {} /\ Due = {}
BY ShortSteps DEF StepsLeft, Due, Tasks

LEMMA DeliverSerial ==
    ASSUME Typed, SerialInv, ~overlapped', NEW topic \in Topics, Deliver(topic)
    PROVE  SerialInv'
<1> DEFINE x == Head(ws[topic])
<1>1. /\ UNCHANGED <<order, cached, tracked, events, bufFills, bufCancel, create, trades>>
      /\ todo["ws"] = <<>> /\ "ws" \in Tasks /\ ws[topic] # <<>>
      /\ todo' = [todo EXCEPT !["ws"] = <<x>>]
      /\ ws' = [ws EXCEPT ![topic] = Tail(@)]
  BY DEF Deliver, orderVars, bufferVars, createVars, Tasks
<1>2. \A p \in Tasks : todo[p] = <<>>
  <2>1. todo \in [Tasks -> Seq(GoodStep)] /\ Tasks = {"create", "ws"}
    BY DEF Typed, TodoTyped, Tasks
  <2>2. todo'["ws"] # <<>> /\ todo'["create"] = todo["create"]
    BY <1>1, <2>1
  <2>3. ~Met
    BY DEF Deliver, Meets, Met
  <2> QED BY <1>1, <2>1, <2>2, <2>3 DEF Met
<1>3. StepsLeft = {} /\ Due = {}
  BY <1>2, Idle
<1>4. ws[topic] \in Seq(GoodStep) /\ DOMAIN ws = Topics
  BY DEF Typed, WsTyped
<1>5. /\ x \in StepsOf(ws[topic])
      /\ \A k \in DOMAIN Tail(ws[topic]) : k + 1 \in DOMAIN ws[topic] /\ Tail(ws[topic])[k] = ws[topic][k + 1]
  BY <1>1, <1>4 DEF StepsOf
<1>6. StepsOf(Tail(ws[topic])) \subseteq StepsOf(ws[topic])
  BY <1>5 DEF StepsOf
<1>7. Known(x) /\ x.op \in {"raise", "filled", "cancelled"}
  BY <1>5 DEF SerialInv, OnTheWay
<1> HIDE DEF x
<1>8. InOrder(<<x>>) /\ StepsOf(<<x>>) = {x} /\ OpsOf(<<x>>) = {x.op}
  BY ShortSteps
<1>9. /\ Queues' /\ StepsLeft' = {x} /\ Due' = {x.op}
      /\ todo'["ws"] = <<x>> /\ \A o \in Tasks : o # "ws" => todo'[o] = <<>>
  BY <1>1, <1>2, <1>8, Starts
<1>10. \A p \in Tasks : Len(todo'[p]) <= 1
  <2>1. Len(<<>>) = 0 /\ Len(<<x>>) = 1
    OBVIOUS
  <2>2. \A p \in Tasks : todo'[p] = <<>> \/ todo'[p] = <<x>>
    BY <1>9
  <2>3. \A p \in Tasks : Len(todo'[p]) \in {0, 1}
    BY <2>1, <2>2
  <2>4. \A n \in {0, 1} : n <= 1
    OBVIOUS
  <2> QED BY <2>3, <2>4, Zenon
<1>11. OnTheWay'
  <2>1. \A s : Known(s)' = Known(s)
    BY <1>1 DEF Known
  <2>2. \A t \in Topics : StepsOf(ws'[t]) \subseteq StepsOf(ws[t])
    BY <1>1, <1>4, <1>6
  <2>3. \A t \in Topics : StepsOf(ws[t])' = StepsOf(ws'[t])
    BY DEF StepsOf
  <2> QED BY <1>1, <1>7, <1>9, <2>1, <2>2, <2>3 DEF SerialInv, OnTheWay
<1>12. /\ Due' \cap Marks = Due \cap Marks /\ \A o \in Due' \ Due : Fits(o)
       /\ "addFill" \notin Due' /\ "complete" \notin Due
  BY <1>3, <1>7, <1>9 DEF Marks, Fits
<1> QED BY <1>1, <1>9, <1>10, <1>11, <1>12, CalmSerial DEF SameOrder

(* The task of create_order() begins a handler, or goes on without one. *)
LEMMA BeginsAlone ==
    ASSUME Typed, ~overlapped', NEW q, q # <<>>, Begins(q)
    PROVE  \A p \in Tasks : todo[p] = <<>>
<1>1. todo \in [Tasks -> Seq(GoodStep)] /\ Tasks = {"create", "ws"}
  BY DEF Typed, TodoTyped, Tasks
<1>2. todo["create"] = <<>> /\ todo' = [todo EXCEPT !["create"] = q] /\ ~Met
  BY DEF Begins, Meets, Met
<1>3. todo'["create"] = q /\ todo'["ws"] = todo["ws"]
  BY <1>1, <1>2
<1> QED BY <1>1, <1>2, <1>3 DEF Met

LEMMA BeginsSerial ==
    ASSUME Typed, SerialInv, ~overlapped', NEW q, q # <<>>, InOrder(q), Begins(q), SameOrder,
           create' = "trades" => create = "trades",
           \A s \in StepsOf(q) : Known(s) /\ s.op \in {"raise", "failed", "answered", "cancelled", "filled", "end"},
           "filled" \in OpsOf(q) => cached
    PROVE  SerialInv'
<1>1. /\ UNCHANGED <<cached, tracked, events, bufFills, bufCancel, trades, ws>>
      /\ todo["create"] = <<>> /\ "create" \in Tasks
      /\ todo' = [todo EXCEPT !["create"] = q]
  BY DEF Begins, bufferVars, exVars, Tasks
<1>2. \A p \in Tasks : todo[p] = <<>>
  BY BeginsAlone
<1>3. StepsLeft = {} /\ Due = {}
  BY <1>2, Idle
<1>4. Queues' /\ StepsLeft' = StepsOf(q) /\ Due' = OpsOf(q)
  BY <1>1, <1>2, Starts
<1>5. \A o \in OpsOf(q) : o \in {"raise", "failed", "answered", "cancelled", "filled", "end"}
  BY DEF OpsOf
<1>6. OnTheWay'
  <2>1. StepsLeft' \subseteq StepsLeft \cup StepsOf(q) /\ \A s \in StepsOf(q) : Known(s) /\ s.op # "addFill"
    BY <1>4
  <2> QED BY <1>1, <2>1, OnTheWayKept DEF SerialInv, SameOrder
<1>7. /\ Due' \cap Marks = Due \cap Marks /\ \A o \in Due' \ Due : Fits(o)
      /\ "addFill" \notin Due' /\ "complete" \notin Due
  BY <1>3, <1>4, <1>5 DEF Marks, Fits
<1> QED BY <1>1, <1>4, <1>6, <1>7, CalmSerial

LEMMA BeginsNone ==
    ASSUME Typed, SerialInv, Begins(<<>>), SameOrder, create' = "trades" => create = "trades"
    PROVE  SerialInv'
<1>1. /\ UNCHANGED <<cached, tracked, events, bufFills, bufCancel, trades, ws>>
      /\ todo' = todo
  <2>1. todo["create"] = <<>> /\ todo' = [todo EXCEPT !["create"] = <<>>] /\ DOMAIN todo = Tasks
        /\ todo \in [Tasks -> Seq(GoodStep)]
    BY DEF Begins, Typed, TodoTyped
  <2>2. todo' = todo
    BY <2>1
  <2> QED BY <2>2 DEF Begins, bufferVars, exVars
<1>2. StepsLeft' = StepsLeft /\ Due' = Due /\ Queues'
  BY <1>1 DEF StepsLeft, Due, StepsOf, SerialInv, Queues, InOrder
<1>3. OnTheWay'
  BY <1>1, <1>2, OnTheWaySame DEF SerialInv, SameOrder
<1>4. /\ "addFill" \in Due => "complete" \in Due
      /\ "filled" \in Due /\ ~cached => \A p \in Tasks : Len(todo'[p]) <= 1
  BY <1>1 DEF SerialInv, Chained, Places
<1> QED BY <1>1, <1>2, <1>3, <1>4, CalmSerial

LEMMA BeginsOne ==
    ASSUME Typed, SerialInv, ~overlapped', NEW a, Begins(<<a>>), SameOrder,
           a.op \in {"raise", "failed", "cancelled", "end"}, create' = "trades" => create = "trades"
    PROVE  SerialInv'
<1>1. StepsOf(<<a>>) = {a} /\ OpsOf(<<a>>) = {a.op} /\ InOrder(<<a>>) /\ <<a>> # <<>>
  BY ShortSteps
<1>2. Known(a)
  BY DEF Known, FillOps
<1>3. /\ \A s \in StepsOf(<<a>>) : Known(s) /\ s.op \in {"raise", "failed", "answered", "cancelled", "filled", "end"}
      /\ "filled" \notin OpsOf(<<a>>)
  BY <1>1, <1>2
<1> QED BY <1>1, <1>3, BeginsSerial

LEMMA BeginsTwo ==
    ASSUME Typed, SerialInv, ~overlapped', NEW a, NEW b, Begins(<<a, b>>), SameOrder,
           a.op \in {"raise", "failed", "cancelled", "answered"}, b.op = "end",
           create' = "trades" => create = "trades"
    PROVE  SerialInv'
<1>1. b.op \in Later(a.op)
  BY DEF Later
<1>2. StepsOf(<<a, b>>) = {a, b} /\ OpsOf(<<a, b>>) = {a.op, b.op} /\ InOrder(<<a, b>>) /\ <<a, b>> # <<>>
  BY <1>1, ShortSteps
<1>3. Known(a) /\ Known(b)
  BY DEF Known, FillOps
<1>4. /\ \A s \in StepsOf(<<a, b>>) : Known(s) /\ s.op \in {"raise", "failed", "answered", "cancelled", "filled", "end"}
      /\ "filled" \notin OpsOf(<<a, b>>)
  BY <1>2, <1>3
<1> QED BY <1>2, <1>4, BeginsSerial

LEMMA CreateTaskSerial ==
    ASSUME Typed, SerialInv, ~overlapped',
           \/ RequestAccepted \/ RequestFails \/ ReceiveCreated
           \/ AskOrderInfo \/ HandleOrderInfo \/ FallbackEnds
           \/ CallerCancels \/ MinutePasses \/ CreateOrderGivesUp
           \/ \E n \in 0..trades : CheckOrderFills(n)
    PROVE  SerialInv'
<1>1. UNCHANGED order => SameOrder
  BY DEF SameOrder
<1>2. CASE RequestAccepted \/ AskOrderInfo \/ CreateOrderGivesUp
  <2>1. Begins(<<>>) /\ UNCHANGED order /\ (create' = "trades" => create = "trades")
    BY <1>2 DEF RequestAccepted, AskOrderInfo, CreateOrderGivesUp, StopsSelecting
  <2> QED BY <1>1, <2>1, BeginsNone
<1>3. CASE RequestFails
  <2> DEFINE a == Do("failed", "WebSocket")
  <2>1. (Begins(<<>>) \/ Begins(<<a>>)) /\ UNCHANGED order /\ create' # "trades"
    BY <1>3 DEF RequestFails, StopsSelecting
  <2>2. a.op = "failed"
    BY DoFields
  <2> HIDE DEF a
  <2> QED BY <1>1, <2>1, <2>2, BeginsNone, BeginsOne
<1>4. CASE ReceiveCreated
  <2> DEFINE a == Do("answered", mail)
             b == Do("end", mail)
  <2>1. Begins(<<a, b>>) /\ UNCHANGED order /\ create' # "trades"
    BY <1>4 DEF ReceiveCreated, StopsSelecting
  <2>2. a.op = "answered" /\ b.op = "end"
    BY DoFields
  <2> HIDE DEF a, b
  <2> QED BY <1>1, <2>1, <2>2, BeginsTwo
<1>5. CASE HandleOrderInfo
  <2> DEFINE a == Do("failed", "RestFallback")
             b == Do("end", "RestFallback")
  <2>1. a.op = "failed" /\ b.op = "end"
    BY DoFields
  <2>2. SameOrder /\ (create' = "trades" => create = "trades")
    BY <1>5 DEF HandleOrderInfo, SameOrder, Typed, OrderTyped, OrderType
  <2>3. \/ Begins(<<>>) \/ Begins(<<a>>)
        \/ /\ info \notin {"none", "asked", "error", "NotFound"}
           /\ Begins(InfoSteps) \/ Begins(InfoSteps \o <<b>>)
    BY <1>5 DEF HandleOrderInfo
  <2>4. CASE Begins(<<>>)
    BY <2>2, <2>4, BeginsNone
  <2>5. CASE Begins(<<a>>)
    BY <2>1, <2>2, <2>5, BeginsOne
  <2>6. CASE /\ info \notin {"none", "asked", "error", "NotFound"}
             /\ Begins(InfoSteps) \/ Begins(InfoSteps \o <<b>>)
    <3>1. InfoList(InfoSteps)
      BY <2>6, InfoStepsFacts DEF Typed
    <3>2. \/ InfoSteps = <<>> /\ InfoSteps \o <<b>> = <<b>>
          \/ \E x \in {"failed", "cancelled", "raise"} :
                InfoSteps = <<Do(x, "RestFallback")>> /\ InfoSteps \o <<b>> = <<Do(x, "RestFallback"), b>>
      BY <3>1, InfoListFacts
    <3> HIDE DEF a, b
    <3>3. CASE InfoSteps = <<>> /\ InfoSteps \o <<b>> = <<b>>
      BY <2>1, <2>2, <2>6, <3>3, BeginsNone, BeginsOne
    <3>4. ASSUME NEW x \in {"failed", "cancelled", "raise"},
                 InfoSteps = <<Do(x, "RestFallback")>>, InfoSteps \o <<b>> = <<Do(x, "RestFallback"), b>>
          PROVE  SerialInv'
      <4> DEFINE c == Do(x, "RestFallback")
      <4>1. c.op \in {"failed", "cancelled", "raise"}
        BY DoFields
      <4>2. Begins(<<c>>) \/ Begins(<<c, b>>)
        BY <2>6, <3>4
      <4> HIDE DEF c
      <4> QED BY <2>1, <2>2, <4>1, <4>2, BeginsOne, BeginsTwo
    <3> QED BY <3>2, <3>3, <3>4
  <2> QED BY <2>3, <2>4, <2>5, <2>6
<1>6. CASE FallbackEnds
  <2> DEFINE b == Do("end", "RestFallback")
  <2>1. (Begins(<<>>) \/ Begins(<<b>>)) /\ UNCHANGED order /\ create' # "trades"
    BY <1>6 DEF FallbackEnds, StopsSelecting
  <2>2. b.op = "end"
    BY DoFields
  <2> HIDE DEF b
  <2> QED BY <1>1, <2>1, <2>2, BeginsNone, BeginsOne
<1>7. CASE CallerCancels \/ MinutePasses
  <2>1. UNCHANGED <<orderVars, bufFills, bufCancel, create, trades, ws, todo>>
    BY <1>7 DEF CallerCancels, MinutePasses, bufferVars, exVars
  <2> QED BY <2>1, SameSerial
<1>8. ASSUME NEW n \in 0..trades, CheckOrderFills(n) PROVE SerialInv'
  <2> DEFINE q == [k \in 1..n |-> DoFill("filled", [trade |-> k, total |-> FALSE], "RestFallback")]
  <2>1. Begins(q) /\ UNCHANGED order /\ create = "trades" /\ create' # "trades"
    BY <1>8 DEF CheckOrderFills
  <2>2. /\ DOMAIN q = 1..n /\ n \in Nat /\ trades \in Nat /\ n <= trades
        /\ \A k \in 1..n : q[k].op = "filled" /\ q[k].fill = [trade |-> k, total |-> FALSE]
    <3>1. n \in Nat /\ trades \in Nat /\ n <= trades
      BY AmountAssumption DEF Typed, ExTyped
    <3> QED BY <3>1, DoFields
  <2> HIDE DEF q
  <2>3. \A k \in 1..n : q[k].fill.trade \in 1..trades
    <3>1. \A k \in 1..n : q[k].fill.trade = k
      <4>1. \A k \in 1..n : [trade |-> k, total |-> FALSE].trade = k
        OBVIOUS
      <4> QED BY <2>2, <4>1, Zenon
    <3>2. \A k \in 1..n : k \in 1..trades
      <4>1. n \in Nat /\ trades \in Nat /\ n <= trades
        BY <2>2
      <4> QED BY <4>1
    <3> QED BY <3>1, <3>2
  <2>4. /\ \A s \in StepsOf(q) : Known(s) /\ s.op \in {"raise", "failed", "answered", "cancelled", "filled", "end"}
    BY <2>2, <2>3 DEF StepsOf, Known
  <2>5. InOrder(q)
    BY <2>2 DEF InOrder, Later
  <2>6. CASE q = <<>>
    BY <1>1, <2>1, <2>6, BeginsNone
  <2>7. CASE q # <<>>
    <3>1. \A p \in Tasks : todo[p] = <<>>
      BY <2>1, <2>7, BeginsAlone
    <3>2. Due = {}
      BY <3>1, Idle
    <3>3. cached
      BY <2>1, <3>2 DEF SerialInv, Places
    <3> QED BY <1>1, <2>1, <2>4, <2>5, <2>7, <3>3, BeginsSerial
  <2> QED BY <2>6, <2>7
<1> QED BY <1>2, <1>3, <1>4, <1>5, <1>6, <1>7, <1>8

(* The exchange sends a message, or knows of another trade. *)
LEMMA ExchangeKeeps ==
    ASSUME Typed, SerialInv, UNCHANGED <<orderVars, bufFills, bufCancel, create, todo>>,
           trades' \in Nat, trades <= trades',
           \A t \in Topics : \A s \in StepsOf(ws'[t]) :
             s \in StepsOf(ws[t]) \/ (s.op \in {"raise", "filled", "cancelled"}
                                       /\ (s.op = "filled" => s.fill.trade \in 1..trades'))
    PROVE  SerialInv'
<1>1. trades \in Nat /\ 1..trades \subseteq 1..trades'
  BY AmountAssumption DEF Typed, ExTyped
<1>2. StepsLeft' = StepsLeft /\ Due' = Due
  BY DEF StepsLeft, Due, StepsOf
<1>3. Queues' /\ Chained'
  BY <1>2 DEF SerialInv, Queues, InOrder, Chained
<1>4. Places' /\ Buffers'
  BY <1>2 DEF SerialInv, Places, Buffers, orderVars
<1>5. Story'
  BY <1>2, StoryKept DEF SerialInv, orderVars
<1>6. Counted'
  BY <1>1, <1>2 DEF SerialInv, Counted, orderVars
<1>7. OnTheWay'
  <2>1. \A s : Known(s) => Known(s)'
    BY <1>1 DEF Known
  <2>2. \A t \in Topics : StepsOf(ws[t])' = StepsOf(ws'[t])
    BY DEF StepsOf
  <2>3. \A t \in Topics : \A s \in StepsOf(ws'[t]) : Known(s)' /\ s.op \in {"raise", "filled", "cancelled"}
    <3> SUFFICES ASSUME NEW t \in Topics, NEW s \in StepsOf(ws'[t])
                 PROVE  Known(s)' /\ s.op \in {"raise", "filled", "cancelled"}
      OBVIOUS
    <3>1. CASE s \in StepsOf(ws[t])
      BY <2>1, <3>1 DEF SerialInv, OnTheWay
    <3>2. CASE s.op \in {"raise", "filled", "cancelled"} /\ (s.op = "filled" => s.fill.trade \in 1..trades')
      BY <3>2 DEF Known, FillOps
    <3> QED BY <3>1, <3>2
  <2>4. \A k \in DOMAIN bufFills : bufFills[k].trade \in 1..trades'
    BY <1>1 DEF SerialInv, OnTheWay
  <2>5. \A s \in StepsLeft : Known(s)' /\ (s.op = "addFill" => s.fill.trade \notin order'.fills)
    BY <2>1 DEF SerialInv, OnTheWay, orderVars
  <2> QED BY <1>2, <2>2, <2>3, <2>4, <2>5 DEF OnTheWay
<1> QED BY <1>3, <1>4, <1>5, <1>6, <1>7 DEF SerialInv

LEMMA Published ==
    ASSUME Typed, NEW topic \in Topics, NEW m, Publish(topic, m)
    PROVE  \A t \in Topics : \A s \in StepsOf(ws'[t]) : s \in StepsOf(ws[t]) \/ s = m
<1>1. CASE ws' = ws
  BY <1>1
<1>2. CASE ws' = [ws EXCEPT ![topic] = Append(@, m)]
  <2>1. ws[topic] \in Seq(GoodStep) /\ DOMAIN ws = Topics
    BY DEF Typed, WsTyped
  <2>2. \A k \in DOMAIN Append(ws[topic], m) :
          Append(ws[topic], m)[k] = m \/ (k \in DOMAIN ws[topic] /\ Append(ws[topic], m)[k] = ws[topic][k])
    BY <2>1
  <2>3. \A s \in StepsOf(Append(ws[topic], m)) : s \in StepsOf(ws[topic]) \/ s = m
    BY <2>2 DEF StepsOf
  <2> QED BY <1>2, <2>1, <2>3
<1> QED BY <1>1, <1>2 DEF Publish

LEMMA ExchangeSerial ==
    ASSUME Typed, SerialInv,
           \/ ExchangeDecides \/ ExchangeTrades \/ ExchangeCancels
           \/ ExchangeInforms(InfoOf(ex)) \/ ExchangeInforms({"error"})
    PROVE  SerialInv'
<1>1. UNCHANGED <<orderVars, bufFills, bufCancel, create, todo>>
  BY DEF ExchangeDecides, ExchangeTrades, ExchangeCancels, ExchangeInforms, ExchangeSteps, bufferVars
<1>2. trades \in Nat /\ {"orders", "executions"} \subseteq Topics
  BY AmountAssumption DEF Typed, ExTyped, Topics
<1>3. ASSUME trades' = trades, UNCHANGED ws PROVE SerialInv'
  BY <1>1, <1>3, SameSerial
<1>4. CASE ExchangeDecides
  <2> DEFINE m == Do("raise", "WebSocket")
  <2>1. trades' = trades /\ (UNCHANGED ws \/ Publish("orders", m))
    BY <1>4 DEF ExchangeDecides
  <2>2. m.op = "raise"
    BY DoFields
  <2> HIDE DEF m
  <2>3. CASE Publish("orders", m)
    <3>1. \A t \in Topics : \A s \in StepsOf(ws'[t]) : s \in StepsOf(ws[t]) \/ s = m
      BY <1>2, <2>3, Published
    <3> QED BY <1>1, <1>2, <2>1, <2>2, <3>1, ExchangeKeeps
  <2> QED BY <1>3, <2>1, <2>3
<1>5. CASE ExchangeTrades
  <2> DEFINE f == [trade |-> trades', total |-> TRUE]
             m == DoFill("filled", f, "WebSocket")
  <2>1. trades' = trades + 1 /\ Publish("executions", m)
    BY <1>5 DEF ExchangeTrades
  <2>2. m.op = "filled" /\ m.fill.trade = trades'
    BY DoFields
  <2> HIDE DEF m
  <2>3. \A t \in Topics : \A s \in StepsOf(ws'[t]) : s \in StepsOf(ws[t]) \/ s = m
    BY <1>2, <2>1, Published
  <2>4. trades' \in Nat /\ trades <= trades' /\ trades' \in 1..trades'
    BY <1>2, <2>1
  <2> QED BY <1>1, <2>2, <2>3, <2>4, ExchangeKeeps
<1>6. CASE ExchangeCancels
  <2> DEFINE m == Do("cancelled", "WebSocket")
  <2>1. trades' = trades /\ Publish("orders", m)
    BY <1>6 DEF ExchangeCancels
  <2>2. m.op = "cancelled"
    BY DoFields
  <2> HIDE DEF m
  <2>3. \A t \in Topics : \A s \in StepsOf(ws'[t]) : s \in StepsOf(ws[t]) \/ s = m
    BY <1>2, <2>1, Published
  <2> QED BY <1>1, <1>2, <2>1, <2>2, <2>3, ExchangeKeeps
<1>7. CASE ExchangeInforms(InfoOf(ex)) \/ ExchangeInforms({"error"})
  BY <1>3, <1>7 DEF ExchangeInforms, exVars
<1> QED BY <1>4, <1>5, <1>6, <1>7

-----------------------------------------------------------------------------
(* The theorems: what holds while the handlers of the two tasks do not       *)
(* overlap.                                                                  *)

LEMMA SerialInitially == Init => SerialInv
<1> SUFFICES ASSUME Init PROVE SerialInv
  OBVIOUS
<1>1. todo = [p \in Tasks |-> <<>>] /\ ws = [t \in Topics |-> <<>>]
  BY DEF Init
<1>2. \A p \in Tasks : todo[p] = <<>>
  BY <1>1
<1>3. StepsLeft = {} /\ Due = {}
  BY <1>2, Idle
<1>4. Queues /\ Chained
  BY <1>2, <1>3, ShortSteps DEF Queues, Chained, Tasks
<1>5. Places /\ Buffers
  BY <1>3 DEF Init, Places, Buffers
<1>6. Story
  BY <1>3 DEF Init, Story, GoodStory, IsFinished
<1>7. Counted
  BY <1>3, AmountAssumption, FS_EmptySet DEF Init, Counted
<1>8. OnTheWay
  <2>1. \A t \in Topics : StepsOf(ws[t]) = {}
    BY <1>1, ShortSteps
  <2>2. DOMAIN bufFills = {}
    BY DEF Init
  <2> QED BY <1>3, <2>1, <2>2 DEF OnTheWay
<1> QED BY <1>4, <1>5, <1>6, <1>7, <1>8 DEF SerialInv

LEMMA SerialStep ==
    ASSUME ~overlapped', Typed, SerialInv, [Next]_vars
    PROVE  SerialInv'
<1>1. CASE UNCHANGED vars
  BY <1>1, SameSerial DEF vars, bufferVars, createVars, exVars
<1> QED BY <1>1, TakeStepSerial, DeliverSerial, CreateTaskSerial, ExchangeSerial DEF Next

UnlessOverlapped == overlapped \/ SerialInv

LEMMA SerialAlways == Spec => [](Typed /\ UnlessOverlapped)
<1>1. Init => Typed /\ UnlessOverlapped
  BY TypedInitially, SerialInitially DEF UnlessOverlapped
<1>2. ASSUME Typed, UnlessOverlapped, [Next]_vars PROVE UnlessOverlapped'
  <2>1. CASE overlapped'
    BY <2>1 DEF UnlessOverlapped
  <2>2. CASE ~overlapped'
    <3>1. ~overlapped
      BY <1>2, <2>2, Meeting
    <3> QED BY <1>2, <2>2, <3>1, SerialStep DEF UnlessOverlapped
  <2> QED BY <2>1, <2>2
<1>3. Typed /\ UnlessOverlapped /\ [Next]_vars => (Typed /\ UnlessOverlapped)'
  BY <1>2, TypedStep
<1> QED BY <1>1, <1>3, PTL DEF Spec

LEMMA QuietFacts ==
    ASSUME Quiet
    PROVE  Due = {}
BY Idle DEF Quiet

(* As long as the handlers of the two tasks have not met, the events sent    *)
(* for an order begin with its creation and end with its last event, in      *)
(* every state.                                                              *)
THEOREM EventsInOrderHolds == Spec => []EventsInOrder
<1>1. UnlessOverlapped => EventsInOrder
  BY DEF UnlessOverlapped, SerialInv, Story, GoodStory, EventsInOrder
<1> QED BY <1>1, SerialAlways, PTL

LEMMA HeadIsDue ==
    ASSUME NEW p \in Tasks, NEW ops, At(p, ops)
    PROVE  Head(todo[p]) \in StepsLeft /\ Head(todo[p]).op \in Due
<1>1. todo[p] \in Seq(GoodStep) /\ InOrder(todo[p]) /\ todo[p] # <<>>
  BY DEF At, Typed, TodoTyped, SerialInv, Queues
<1>2. <<>> \in Seq(GoodStep) /\ InOrder(<<>>) /\ OpsOf(<<>>) = {}
  BY ShortSteps, Short
<1>3. StepsOf(todo[p]) = {Head(todo[p])} \cup StepsOf(Tail(todo[p]))
  BY <1>1, <1>2, Queue
<1>4. Head(todo[p]) \in StepsLeft
  BY <1>3 DEF StepsLeft, Tasks
<1> QED BY <1>4 DEF Due

Forward == order'.status # order.status =>
             /\ Rank(order.status) < Rank(order'.status)
             /\ order'.status = "FailedToCreate" => order.status = "Creating"

LEMMA TakeStepForward ==
    ASSUME Typed, SerialInv, NEW p \in Tasks, TakeStep(p)
    PROVE  Forward
<1> DEFINE s == Head(todo[p])
<1>1. \A ops : s.op \in ops => At(p, ops)
  BY DEF At, TakeStep
<1>2. s.op \in Due
  BY <1>1, HeadIsDue
<1>3. /\ s.op \in {"setCreated", "setFailed"} => order.status = "Creating"
      /\ s.op \in {"complete", "setCanceled"} => order.status = "Created"
  BY <1>2 DEF SerialInv, Places
<1>4. order \in OrderType
  BY DEF Typed, OrderTyped
<1>5. CASE s.op = "setCreated" /\ SetCreated(p, s)
  <2>1. order'.status = "Created"
    BY <1>4, <1>5 DEF SetCreated, OrderType
  <2> QED BY <1>3, <1>5, <2>1 DEF Forward, Rank
<1>6. CASE s.op = "complete" /\ CompleteIfFilled(p, s)
  <2>1. order'.status \in {order.status, "Completed"}
    BY <1>4, <1>6 DEF CompleteIfFilled, Panics, orderVars, OrderType
  <2> QED BY <1>3, <1>6, <2>1 DEF Forward, Rank
<1>7. CASE s.op = "setCanceled" /\ SetCanceled(p, s)
  <2>1. order'.status = "Canceled"
    BY <1>4, <1>7 DEF SetCanceled, OrderType
  <2> QED BY <1>3, <1>7, <2>1 DEF Forward, Rank
<1>8. CASE s.op = "setFailed" /\ SetFailed(p, s)
  <2>1. order'.status = "FailedToCreate"
    BY <1>4, <1>8 DEF SetFailed, OrderType
  <2> QED BY <1>3, <1>8, <2>1 DEF Forward, Rank
<1>9. CASE s.op \in {"succeeded", "answered"} /\ HandleCreateOrderSucceeded(p, s)
  <2>1. order'.status = order.status
    BY <1>4, <1>9 DEF HandleCreateOrderSucceeded, OrderType
  <2> QED BY <2>1 DEF Forward
<1>10. CASE s.op = "addFill" /\ AddFill(p, s)
  <2>1. order'.status = order.status
    BY <1>4, <1>10 DEF AddFill, OrderType
  <2> QED BY <2>1 DEF Forward
<1>11. CASE \/ RaiseOrderCreated(p, s) \/ InsertIntoCache(p, s) \/ Announce(p, s)
            \/ TakeFills(p, s) \/ RemoveFills(p, s) \/ TakeCancel(p, s) \/ RemoveCancel(p, s)
            \/ HandleOrderFilled(p, s) \/ BufferFill(p, s)
            \/ HandleCancelOrderSucceeded(p, s) \/ BufferCancel(p, s)
            \/ HandleCreateOrderFailed(p, s) \/ EndCreateOrder(p, s)
  <2>1. order' = order
    BY <1>11 DEF RaiseOrderCreated, InsertIntoCache, Announce, TakeFills, RemoveFills, TakeCancel,
                 RemoveCancel, HandleOrderFilled, Panics, BufferFill, HandleCancelOrderSucceeded,
                 BufferCancel, HandleCreateOrderFailed, EndCreateOrder, orderVars
  <2> QED BY <2>1 DEF Forward
<1> QED BY <1>5, <1>6, <1>7, <1>8, <1>9, <1>10, <1>11, Zenon DEF TakeStep

LEMMA NextForward ==
    ASSUME ~overlapped', Typed, SerialInv, [Next]_vars
    PROVE  Forward
<1>1. order \in OrderType
  BY DEF Typed, OrderTyped
<1>2. ASSUME NEW p \in Tasks, TakeStep(p) PROVE Forward
  BY <1>2, TakeStepForward
<1>3. CASE HandleOrderInfo
  <2>1. order'.status = order.status
    BY <1>1, <1>3 DEF HandleOrderInfo, OrderType
  <2> QED BY <2>1 DEF Forward
<1>4. CASE \/ \E topic \in Topics : Deliver(topic)
           \/ RequestAccepted \/ RequestFails \/ ReceiveCreated
           \/ AskOrderInfo \/ FallbackEnds
           \/ CallerCancels \/ MinutePasses \/ CreateOrderGivesUp
           \/ \E n \in 0..trades : CheckOrderFills(n)
  <2>1. order' = order
    BY <1>4 DEF Deliver, RequestAccepted, RequestFails, ReceiveCreated, AskOrderInfo, FallbackEnds,
                CallerCancels, MinutePasses, CreateOrderGivesUp, CheckOrderFills, orderVars
  <2> QED BY <2>1 DEF Forward
<1>5. CASE \/ ExchangeDecides \/ ExchangeTrades \/ ExchangeCancels
           \/ ExchangeInforms(InfoOf(ex)) \/ ExchangeInforms({"error"}) \/ UNCHANGED vars
  <2>1. order' = order
    BY <1>5 DEF ExchangeDecides, ExchangeTrades, ExchangeCancels, ExchangeInforms, ExchangeSteps, vars, orderVars
  <2> QED BY <2>1 DEF Forward
<1> QED BY <1>2, <1>3, <1>4, <1>5 DEF Next

(* As long as the handlers of the two tasks have not met, no step moves the  *)
(* status of an order back, and only an order that is Creating fails.        *)
THEOREM StatusGoesForwardHolds == Spec => StatusGoesForward
<1> DEFINE Onward == ~overlapped' /\ order'.status # order.status =>
                       /\ Rank(order.status) < Rank(order'.status)
                       /\ order'.status = "FailedToCreate" => order.status = "Creating"
<1>1. ASSUME Typed, UnlessOverlapped, [Next]_vars PROVE Onward
  <2>1. CASE overlapped'
    BY <2>1
  <2>2. CASE ~overlapped'
    <3>1. SerialInv
      BY <1>1, <2>2, Meeting DEF UnlessOverlapped
    <3>2. Forward
      BY <1>1, <2>2, <3>1, NextForward
    <3> QED BY <3>2 DEF Forward
  <2> QED BY <2>1, <2>2
<1>2. Typed /\ UnlessOverlapped /\ [Next]_vars => [Onward]_vars
  BY <1>1
<1> HIDE DEF Onward
<1>3. Spec => [][Onward]_vars
  BY <1>2, SerialAlways, PTL DEF Spec
<1> QED BY <1>3 DEF Onward, StatusGoesForward

-----------------------------------------------------------------------------

NoFillPanics == panicked \notin {"overfilled", "closed order"}

LEMMA FillIsNoPanic ==
    ASSUME NEW p \in Tasks, At(p, {"filled"}), HandleOrderFilled(p, Head(todo[p]))
    PROVE  panicked' = panicked
<1> DEFINE s == Head(todo[p])
<1>1. /\ Typed /\ SerialInv /\ s.op = "filled"
      /\ s.op \in Due /\ s.fill.trade \in 1..trades
  BY HeadIsDue DEF At, SerialInv, OnTheWay, Known, FillOps
<1>2. ASSUME cached, ~IsIgnored(s.fill), order.status \in {"FailedToCreate", "Completed"} PROVE FALSE
  <2>1. order.status = "Completed" /\ "complete" \notin Due
    BY <1>1, <1>2 DEF SerialInv, Places
  <2>2. /\ order.fills \subseteq 1..trades /\ Cardinality(order.fills) = Amount
        /\ trades \in Nat /\ Amount \in Nat /\ trades <= Amount
    BY <1>1, <2>1, FillsFinite DEF SerialInv, Counted
  <2>3. 1..trades \subseteq 1..Amount
    BY <2>2
  <2>4. IsFiniteSet(1..Amount) /\ Cardinality(1..Amount) = Amount
    BY <2>2, FS_Interval
  <2>5. order.fills \in SUBSET (1..Amount)
    BY <2>2, <2>3
  <2>6. order.fills = 1..Amount
    BY <2>2, <2>4, <2>5, FS_Subset
  <2>7. s.fill.trade \in order.fills
    BY <1>1, <2>3, <2>6
  <2> QED BY <1>2, <2>7 DEF IsIgnored
<1> QED BY <1>2 DEF HandleOrderFilled

LEMMA NoFillPanicsStep ==
    ASSUME Typed, SerialInv, NoFillPanics, ~overlapped', [Next]_vars
    PROVE  NoFillPanics'
<1>1. ASSUME panicked' \in {panicked, "failed order", "no id"} PROVE NoFillPanics'
  BY <1>1 DEF NoFillPanics
<1>2. ASSUME NEW p \in Tasks, TakeStep(p) PROVE panicked' \in {panicked, "failed order", "no id"}
  <2> DEFINE s == Head(todo[p])
  <2>1. \A ops : s.op \in ops => At(p, ops)
    BY <1>2 DEF At, TakeStep
  <2>2. CASE s.op = "filled" /\ HandleOrderFilled(p, s)
    BY <2>1, <2>2, FillIsNoPanic
  <2>3. CASE s.op = "complete" /\ CompleteIfFilled(p, s)
    <3>1. ~(order.filled > Amount)
      BY FillsFinite DEF SerialInv
    <3> QED BY <2>3, <3>1 DEF CompleteIfFilled
  <2>4. CASE HandleCreateOrderSucceeded(p, s)
    BY <2>4 DEF HandleCreateOrderSucceeded
  <2>5. CASE \/ RaiseOrderCreated(p, s) \/ SetCreated(p, s) \/ InsertIntoCache(p, s) \/ Announce(p, s)
             \/ TakeFills(p, s) \/ RemoveFills(p, s) \/ TakeCancel(p, s) \/ RemoveCancel(p, s)
             \/ BufferFill(p, s) \/ AddFill(p, s)
             \/ HandleCancelOrderSucceeded(p, s) \/ BufferCancel(p, s) \/ SetCanceled(p, s)
             \/ HandleCreateOrderFailed(p, s) \/ SetFailed(p, s) \/ EndCreateOrder(p, s)
    <3>1. panicked' = panicked
      BY <2>5 DEF RaiseOrderCreated, SetCreated, InsertIntoCache, Announce, TakeFills, RemoveFills, TakeCancel,
                  RemoveCancel, BufferFill, AddFill, HandleCancelOrderSucceeded, BufferCancel, SetCanceled,
                  HandleCreateOrderFailed, SetFailed, EndCreateOrder
    <3> QED BY <3>1
  <2> QED BY <1>2, <2>2, <2>3, <2>4, <2>5, Zenon DEF TakeStep
<1>3. CASE \/ \E topic \in Topics : Deliver(topic)
           \/ RequestAccepted \/ RequestFails \/ ReceiveCreated
           \/ AskOrderInfo \/ HandleOrderInfo \/ FallbackEnds
           \/ CallerCancels \/ MinutePasses \/ CreateOrderGivesUp
           \/ \E n \in 0..trades : CheckOrderFills(n)
  <2>1. panicked' \in {panicked, "no id"}
    BY <1>3 DEF Deliver, RequestAccepted, RequestFails, ReceiveCreated, AskOrderInfo, HandleOrderInfo,
                FallbackEnds, CallerCancels, MinutePasses, CreateOrderGivesUp, CheckOrderFills
  <2> QED BY <1>1, <2>1
<1>4. CASE \/ ExchangeDecides \/ ExchangeTrades \/ ExchangeCancels
           \/ ExchangeInforms(InfoOf(ex)) \/ ExchangeInforms({"error"}) \/ UNCHANGED vars
  <2>1. panicked' = panicked
    BY <1>4 DEF ExchangeDecides, ExchangeTrades, ExchangeCancels, ExchangeInforms, ExchangeSteps, vars
  <2> QED BY <1>1, <2>1
<1> QED BY <1>1, <1>2, <1>3, <1>4 DEF Next

(* As long as the handlers of the two tasks have not met, no fill makes the  *)
(* process panic, for an order of any amount.                                *)
THEOREM FillsNeverPanicHolds == Spec => []FillsNeverPanic
<1>1. Init => FillsNeverPanic
  BY DEF Init, FillsNeverPanic
<1>2. ASSUME Typed, UnlessOverlapped, FillsNeverPanic, [Next]_vars PROVE FillsNeverPanic'
  <2>1. CASE overlapped'
    BY <2>1 DEF FillsNeverPanic
  <2>2. CASE ~overlapped'
    <3>1. ~overlapped
      BY <1>2, <2>2, Meeting
    <3>2. NoFillPanics'
      BY <1>2, <2>2, <3>1, NoFillPanicsStep DEF UnlessOverlapped, FillsNeverPanic, NoFillPanics
    <3> QED BY <3>2 DEF FillsNeverPanic, NoFillPanics
  <2> QED BY <2>1, <2>2
<1>3. Typed /\ UnlessOverlapped /\ FillsNeverPanic /\ [Next]_vars => FillsNeverPanic'
  BY <1>2
<1> QED BY <1>1, <1>3, SerialAlways, PTL DEF Spec

-----------------------------------------------------------------------------
(* Handlers overlap.  What is said here holds whatever steps of one task     *)
(* come between the steps of the other.                                      *)

Does(p) == OpsOf(todo[p])

(* The steps of a creation bring each other, and those that look into a      *)
(* buffer come when the order is, or will be, in the cache.                  *)
Sound(D, c) ==
    /\ "setCreated" \in D => "insert" \in D
    /\ "insert" \in D => {"announce", "takeFills"} \subseteq D
    /\ "announce" \in D => "takeFills" \in D
    /\ D \cap {"takeFills", "removeFills"} # {} => "takeCancel" \in D
    /\ D \cap {"takeCancel", "removeCancel"} # {} => "insert" \in D \/ c

(* A fill that comes with others is of an order of the cache: a fill that is *)
(* to be buffered has the handler for itself.                                *)
Handler(p) ==
    /\ InOrder(todo[p]) /\ Sound(Does(p), cached)
    /\ "filled" \in Does(p) => cached \/ Len(todo[p]) = 1

(* Only the task of create_order() learns of the order by the fallback.      *)
Fallback ==
    /\ \A s \in StepsOf(todo["ws"]) : s.src = "WebSocket" /\ s.op # "end"
    /\ \A t \in Topics : \A s \in StepsOf(ws[t]) :
         s.src = "WebSocket" /\ s.op \in {"raise", "filled", "cancelled"}
    /\ order.fallback => cached \/ "insert" \in Does("create")
    /\ create = "trades" => cached

(* Who keeps a manager locked has still to remove what it took. *)
Locks ==
    /\ locked["fills"] => \E p \in Tasks : "removeFills" \in Does(p)
    /\ locked["cancel"] => \E p \in Tasks : "removeCancel" \in Does(p)

(* Somebody will still look into a buffer that is not empty. *)
Watched ==
    ~late /\ cached =>
      /\ bufFills # <<>> => \E p \in Tasks : Does(p) \cap {"takeFills", "removeFills"} # {}
      /\ bufCancel => \E p \in Tasks : Does(p) \cap {"takeCancel", "removeCancel"} # {}

One(p) == IF "announce" \in Does(p) THEN 1 ELSE 0

Announcements ==
    /\ Cardinality(Announced) + One("create") + One("ws") <= 2
    /\ ~cached => Announced = {}

AnyInv == (\A p \in Tasks : Handler(p)) /\ Fallback /\ Locks /\ Watched /\ Announcements

LEMMA AnnouncedFinite ==
    ASSUME Typed
    PROVE  IsFiniteSet(Announced) /\ Cardinality(Announced) \in Nat
<1>1. Len(events) \in Nat
  BY DEF Typed, OrderTyped
<1>2. IsFiniteSet(1..Len(events)) /\ Announced \subseteq 1..Len(events)
  BY <1>1, FS_Interval DEF Announced
<1> QED BY <1>2, FS_Subset, FS_CardinalityType

(* A handler takes a step; the other task's handler is where it was. *)
LEMMA Turn ==
    ASSUME Typed, NEW p \in Tasks, todo[p] # <<>>, InOrder(todo[p]),
           NEW steps \in Seq(GoodStep), InOrder(steps),
           \A o \in OpsOf(steps) : OpsOf(Tail(todo[p])) \subseteq Later(o),
           Becomes(p, steps)
    PROVE  \E R : /\ R = OpsOf(Tail(todo[p])) /\ R \subseteq Later(Head(todo[p]).op)
                  /\ Does(p) = {Head(todo[p]).op} \cup R
                  /\ OpsOf(todo'[p]) = OpsOf(steps) \cup R
                  /\ InOrder(todo'[p])
                  /\ StepsOf(todo'[p]) \subseteq StepsOf(steps) \cup StepsOf(todo[p])
                  /\ Head(todo[p]) \in StepsOf(todo[p])
                  /\ \A o \in Tasks : o # p => todo'[o] = todo[o]
                  /\ R # {} => Len(todo[p]) # 1
<1> DEFINE h == Head(todo[p])
           r == Tail(todo[p])
<1>1. /\ todo \in [Tasks -> Seq(GoodStep)] /\ todo[p] \in Seq(GoodStep)
      /\ todo' = [todo EXCEPT ![p] = steps \o r]
  BY DEF Typed, TodoTyped, Becomes
<1>2. /\ StepsOf(todo[p]) = {h} \cup StepsOf(r)
      /\ OpsOf(r) \subseteq Later(h.op)
      /\ StepsOf(steps \o r) = StepsOf(steps) \cup StepsOf(r)
      /\ InOrder(steps \o r)
  BY <1>1, Queue
<1>3. Len(todo[p]) = 1 => r = <<>>
  BY <1>1, TailOfOne
<1> HIDE DEF h, r
<1>5. todo'[p] = steps \o r /\ \A o \in Tasks : o # p => todo'[o] = todo[o]
  BY <1>1
<1>6. Does(p) = {h.op} \cup OpsOf(r) /\ OpsOf(todo'[p]) = OpsOf(steps) \cup OpsOf(r)
  BY <1>2, <1>5 DEF Does, OpsOf
<1>7. OpsOf(r) # {} => Len(todo[p]) # 1
  <2>1. OpsOf(<<>>) = {}
    BY ShortSteps
  <2> QED BY <1>3, <2>1
<1> QED BY <1>2, <1>5, <1>6, <1>7 DEF h, r

(* What only a fill, a creation or a buffer brings about is as before. *)
LEMMA Alike ==
    ASSUME Typed, AnyInv, NEW p \in Tasks,
           \A o \in Tasks : o # p => todo'[o] = todo[o],
           InOrder(todo'[p]), OpsOf(todo'[p]) \cap Marks = Does(p) \cap Marks,
           "filled" \in OpsOf(todo'[p]) => cached \/ Len(todo'[p]) = 1,
           p = "ws" => \A s \in StepsOf(todo'[p]) : s.src = "WebSocket" /\ s.op # "end",
           UNCHANGED <<cached, locked>>,
           ~late' /\ cached => ~late /\ UNCHANGED <<bufFills, bufCancel>>,
           order'.fallback = order.fallback, create' = "trades" => cached,
           Announced' = Announced,
           \A t \in Topics : \A s \in StepsOf(ws'[t]) :
             s.src = "WebSocket" /\ s.op \in {"raise", "filled", "cancelled"}
    PROVE  AnyInv'
<1>1. /\ \A o \in Tasks : Does(o)' = OpsOf(todo'[o])
      /\ \A o \in Tasks : Handler(o)' = (/\ InOrder(todo'[o])
                                         /\ Sound(OpsOf(todo'[o]), cached)
                                         /\ ("filled" \in OpsOf(todo'[o]) => cached \/ Len(todo'[o]) = 1))
      /\ \A t \in Topics : StepsOf(ws[t])' = StepsOf(ws'[t])
      /\ StepsOf(todo["ws"])' = StepsOf(todo'["ws"])
  BY DEF Does, Handler, InOrder, StepsOf, OpsOf
<1>2. \A o \in Tasks : OpsOf(todo'[o]) \cap Marks = Does(o) \cap Marks
  BY DEF Does
<1>3. \A o \in Tasks, m \in Marks : m \in OpsOf(todo'[o]) <=> m \in Does(o)
  BY <1>2
<1>4. \A o \in Tasks :
        /\ "setCreated" \in OpsOf(todo'[o]) <=> "setCreated" \in Does(o)
        /\ "insert" \in OpsOf(todo'[o]) <=> "insert" \in Does(o)
        /\ "announce" \in OpsOf(todo'[o]) <=> "announce" \in Does(o)
        /\ "takeFills" \in OpsOf(todo'[o]) <=> "takeFills" \in Does(o)
        /\ "removeFills" \in OpsOf(todo'[o]) <=> "removeFills" \in Does(o)
        /\ "takeCancel" \in OpsOf(todo'[o]) <=> "takeCancel" \in Does(o)
        /\ "removeCancel" \in OpsOf(todo'[o]) <=> "removeCancel" \in Does(o)
  BY <1>3 DEF Marks
<1>5. \A o \in Tasks : Handler(o)'
  <2> SUFFICES ASSUME NEW o \in Tasks PROVE Handler(o)'
    OBVIOUS
  <2>1. Handler(o)
    BY DEF AnyInv
  <2>2. Sound(OpsOf(todo'[o]), cached)
    BY <1>4, <2>1 DEF Handler, Sound
  <2>3. InOrder(todo'[o]) /\ ("filled" \in OpsOf(todo'[o]) => cached \/ Len(todo'[o]) = 1)
    BY <2>1 DEF Handler, Does
  <2> QED BY <1>1, <2>2, <2>3
<1>6. Fallback'
  <2>1. \A s \in StepsOf(todo'["ws"]) : s.src = "WebSocket" /\ s.op # "end"
    BY DEF AnyInv, Fallback, Tasks
  <2>2. order'.fallback => cached \/ "insert" \in OpsOf(todo'["create"])
    BY <1>4 DEF AnyInv, Fallback, Tasks
  <2> QED BY <1>1, <2>1, <2>2 DEF Fallback, Tasks
<1>7. Locks'
  BY <1>1, <1>4 DEF AnyInv, Locks
<1>8. Watched'
  BY <1>1, <1>4 DEF AnyInv, Watched
<1>9. Announcements'
  BY <1>1, <1>4 DEF AnyInv, Announcements, One, Tasks
<1> QED BY <1>5, <1>6, <1>7, <1>8, <1>9 DEF AnyInv

(* Task p, whose handler the invariant knows, is to take its next step. *)
Up(p) == Typed /\ AnyInv /\ p \in Tasks /\ todo[p] # <<>>

Unbuffered == ~late' /\ cached => ~late /\ UNCHANGED <<bufFills, bufCancel>>

LEMMA UpFacts ==
    ASSUME NEW p \in Tasks, Up(p)
    PROVE  /\ Typed /\ AnyInv /\ InOrder(todo[p]) /\ Sound(Does(p), cached)
           /\ "filled" \in Does(p) => cached \/ Len(todo[p]) = 1
           /\ Head(todo[p]).src \in Source /\ Head(todo[p]).op \in Ops
           /\ Head(todo[p]).op \in FillOps => Head(todo[p]).fill \in Fill
           /\ Does(p) = {Head(todo[p]).op} \cup OpsOf(Tail(todo[p]))
           /\ OpsOf(Tail(todo[p])) \subseteq Later(Head(todo[p]).op)
           /\ OpsOf(Tail(todo[p])) # {} => Len(todo[p]) # 1
           /\ p = "ws" => \A s \in StepsOf(todo[p]) : s.src = "WebSocket" /\ s.op # "end"
           /\ Head(todo[p]) \in StepsOf(todo[p])
           /\ \A t \in Topics : \A s \in StepsOf(ws[t]) :
                s.src = "WebSocket" /\ s.op \in {"raise", "filled", "cancelled"}
<1>1. Typed /\ AnyInv /\ Handler(p) /\ todo[p] # <<>> /\ TodoTyped
  BY DEF Up, AnyInv, Typed
<1>2. Head(todo[p]).src \in Source /\ Head(todo[p]).op \in Ops
      /\ (Head(todo[p]).op \in FillOps => Head(todo[p]).fill \in Fill)
  BY <1>1, StepFacts
<1>3. todo[p] \in Seq(GoodStep) /\ InOrder(todo[p])
  BY <1>1 DEF TodoTyped, Handler
<1>4. <<>> \in Seq(GoodStep) /\ InOrder(<<>>) /\ OpsOf(<<>>) = {}
  BY ShortSteps, Short
<1>5. /\ StepsOf(todo[p]) = {Head(todo[p])} \cup StepsOf(Tail(todo[p]))
      /\ OpsOf(Tail(todo[p])) \subseteq Later(Head(todo[p]).op)
  BY <1>1, <1>3, <1>4, Queue
<1>6. Len(todo[p]) = 1 => Tail(todo[p]) = <<>>
  BY <1>1, <1>3, TailOfOne
<1>8. OpsOf(Tail(todo[p])) # {} => Len(todo[p]) # 1
  BY <1>4, <1>6, Zenon
<1>9. Does(p) = {Head(todo[p]).op} \cup OpsOf(Tail(todo[p]))
  BY <1>5 DEF Does, OpsOf
<1>10. /\ \A t \in Topics : \A s \in StepsOf(ws[t]) :
            s.src = "WebSocket" /\ s.op \in {"raise", "filled", "cancelled"}
       /\ p = "ws" => \A s \in StepsOf(todo[p]) : s.src = "WebSocket" /\ s.op # "end"
  BY <1>1 DEF AnyInv, Fallback
<1> QED BY <1>1, <1>2, <1>5, <1>8, <1>9, <1>10 DEF Handler

LEMMA SameWs ==
    ASSUME UNCHANGED ws
    PROVE  \A t \in Topics : StepsOf(ws'[t]) = StepsOf(ws[t])
BY DEF StepsOf

(* What only a creation or a buffer touches is as it was. *)
Plain ==
    /\ UNCHANGED <<cached, locked, ws>> /\ Unbuffered
    /\ order'.fallback = order.fallback /\ (create' = "trades" => cached)
    /\ Announced' = Announced

(* A step that ends, or puts plain steps in its place. *)
LEMMA AlikeTurn ==
    ASSUME NEW p \in Tasks, Up(p), Head(todo[p]).op \notin Marks,
           NEW steps \in Seq(GoodStep), InOrder(steps),
           \A o \in OpsOf(steps) : OpsOf(Tail(todo[p])) \subseteq Later(o),
           \A s \in StepsOf(steps) : s.src = Head(todo[p]).src /\ s.op \notin Marks \cup {"filled", "end"},
           Becomes(p, steps),
           Plain
    PROVE  AnyInv'
<1>1. todo[p] # <<>> /\ Typed /\ InOrder(todo[p])
  BY UpFacts DEF Up
<1>2. PICK R : /\ R = OpsOf(Tail(todo[p])) /\ R \subseteq Later(Head(todo[p]).op)
               /\ Does(p) = {Head(todo[p]).op} \cup R
               /\ OpsOf(todo'[p]) = OpsOf(steps) \cup R
               /\ InOrder(todo'[p])
               /\ StepsOf(todo'[p]) \subseteq StepsOf(steps) \cup StepsOf(todo[p])
               /\ Head(todo[p]) \in StepsOf(todo[p])
               /\ \A o \in Tasks : o # p => todo'[o] = todo[o]
               /\ R # {} => Len(todo[p]) # 1
  BY <1>1, Turn
<1>3. \A o \in OpsOf(steps) : o \notin Marks /\ o # "filled"
  BY DEF OpsOf
<1>4. OpsOf(todo'[p]) \cap Marks = Does(p) \cap Marks
  BY <1>2, <1>3
<1>5. "filled" \in OpsOf(todo'[p]) => cached
  <2>1. "filled" \in R => cached
    BY <1>2, UpFacts
  <2> QED BY <1>2, <1>3, <2>1
<1>6. p = "ws" => \A s \in StepsOf(todo'[p]) : s.src = "WebSocket" /\ s.op # "end"
  BY <1>2, UpFacts
<1>7. \A t \in Topics : \A s \in StepsOf(ws'[t]) : s.src = "WebSocket" /\ s.op \in {"raise", "filled", "cancelled"}
  BY UpFacts, SameWs DEF Plain
<1>8. UNCHANGED <<cached, locked>> /\ order'.fallback = order.fallback /\ Announced' = Announced
  BY DEF Plain
<1>9. (~late' /\ cached => ~late /\ UNCHANGED <<bufFills, bufCancel>>) /\ (create' = "trades" => cached)
  BY DEF Plain, Unbuffered
<1> QED BY <1>1, <1>2, <1>4, <1>5, <1>6, <1>7, <1>8, <1>9, Alike DEF Up

LEMMA AlikeDone ==
    ASSUME NEW p \in Tasks, Up(p), Head(todo[p]).op \notin Marks, Done(p) \/ Becomes(p, <<>>),
           Plain
    PROVE  AnyInv'
<1> DEFINE q == <<>>
<1>1. q \in Seq(GoodStep) /\ InOrder(q) /\ OpsOf(q) = {} /\ StepsOf(q) = {} /\ Becomes(p, q)
  BY ShortSteps, Short DEF Done
<1> HIDE DEF q
<1>2. \A o \in OpsOf(q) : OpsOf(Tail(todo[p])) \subseteq Later(o)
  BY <1>1
<1>3. \A s \in StepsOf(q) : s.src = Head(todo[p]).src /\ s.op \notin Marks \cup {"filled", "end"}
  BY <1>1
<1> QED BY <1>1, <1>2, <1>3, AlikeTurn

LEMMA AlikeOne ==
    ASSUME NEW p \in Tasks, Up(p), Head(todo[p]).op \notin Marks, NEW a \in GoodStep, Becomes(p, <<a>>),
           OpsOf(Tail(todo[p])) \subseteq Later(a.op),
           a.src = Head(todo[p]).src, a.op \notin Marks \cup {"filled", "end"},
           Plain
    PROVE  AnyInv'
<1> DEFINE q == <<a>>
<1>1. q \in Seq(GoodStep) /\ InOrder(q) /\ OpsOf(q) = {a.op} /\ StepsOf(q) = {a} /\ Becomes(p, q)
  BY ShortSteps, Short
<1> HIDE DEF q
<1>2. \A o \in OpsOf(q) : OpsOf(Tail(todo[p])) \subseteq Later(o)
  BY <1>1
<1>3. \A s \in StepsOf(q) : s.src = Head(todo[p]).src /\ s.op \notin Marks \cup {"filled", "end"}
  BY <1>1
<1>4. q \in Seq(GoodStep)
  BY <1>1
<1> QED BY <1>1, <1>2, <1>3, <1>4, AlikeTurn

LEMMA AlikeTwo ==
    ASSUME NEW p \in Tasks, Up(p), Head(todo[p]).op \notin Marks, NEW a \in GoodStep, NEW b \in GoodStep,
           Becomes(p, <<a, b>>), b.op \in Later(a.op),
           OpsOf(Tail(todo[p])) \subseteq Later(a.op), OpsOf(Tail(todo[p])) \subseteq Later(b.op),
           a.src = Head(todo[p]).src, a.op \notin Marks \cup {"filled", "end"},
           b.src = Head(todo[p]).src, b.op \notin Marks \cup {"filled", "end"},
           Plain
    PROVE  AnyInv'
<1> DEFINE q == <<a, b>>
<1>1. q \in Seq(GoodStep) /\ InOrder(q) /\ OpsOf(q) = {a.op, b.op} /\ StepsOf(q) = {a, b} /\ Becomes(p, q)
  BY ShortSteps, Short
<1> HIDE DEF q
<1>2. \A o \in OpsOf(q) : OpsOf(Tail(todo[p])) \subseteq Later(o)
  BY <1>1
<1>3. \A s \in StepsOf(q) : s.src = Head(todo[p]).src /\ s.op \notin Marks \cup {"filled", "end"}
  BY <1>1
<1>4. q \in Seq(GoodStep)
  BY <1>1
<1> QED BY <1>1, <1>2, <1>3, <1>4, AlikeTurn

LEMMA Next1 ==
    /\ \A o \in Tasks : Does(o)' = OpsOf(todo'[o])
    /\ \A t \in Topics : StepsOf(ws[t])' = StepsOf(ws'[t])
    /\ StepsOf(todo["ws"])' = StepsOf(todo'["ws"])
    /\ One("create")' = (IF "announce" \in OpsOf(todo'["create"]) THEN 1 ELSE 0)
    /\ One("ws")' = (IF "announce" \in OpsOf(todo'["ws"]) THEN 1 ELSE 0)
BY DEF Does, StepsOf, OpsOf, One

(* A step that is marked, or puts marked steps in its place: what is to be   *)
(* shown of it.                                                              *)
LEMMA Assembled ==
    ASSUME NEW p \in Tasks, Up(p), \A o \in Tasks : o # p => todo'[o] = todo[o],
           cached => cached', UNCHANGED ws,
           NEW D, D = OpsOf(todo'[p]), InOrder(todo'[p]),
           Sound(D, cached'), "filled" \in D => cached',
           p = "ws" => \A s \in StepsOf(todo'[p]) : s.src = "WebSocket" /\ s.op # "end",
           order'.fallback => cached' \/ "insert" \in OpsOf(todo'["create"]),
           create' = "trades" => create = "trades",
           Locks', Watched', Announcements'
    PROVE  AnyInv'
<1>1. AnyInv
  BY DEF Up
<1>2. \A o \in Tasks : Handler(o)'
  <2> SUFFICES ASSUME NEW o \in Tasks PROVE Handler(o)'
    OBVIOUS
  <2>1. Handler(o)' = (/\ InOrder(todo'[o])
                       /\ Sound(OpsOf(todo'[o]), cached')
                       /\ ("filled" \in OpsOf(todo'[o]) => cached' \/ Len(todo'[o]) = 1))
    BY DEF Handler, Does, InOrder, OpsOf, StepsOf
  <2>2. CASE o = p
    BY <2>1, <2>2
  <2>3. CASE o # p
    <3>1. todo'[o] = todo[o] /\ Handler(o)
      BY <1>1, <2>3 DEF AnyInv
    <3>2. /\ InOrder(todo[o]) /\ Sound(OpsOf(todo[o]), cached)
          /\ "filled" \in OpsOf(todo[o]) => cached \/ Len(todo[o]) = 1
      BY <3>1 DEF Handler, Does
    <3>3. Sound(OpsOf(todo[o]), cached')
      BY <3>2 DEF Sound
    <3> QED BY <2>1, <3>1, <3>2, <3>3
  <2> QED BY <2>2, <2>3
<1>3. Fallback'
  <2>1. \A s \in StepsOf(todo'["ws"]) : s.src = "WebSocket" /\ s.op # "end"
    <3>1. CASE p = "ws"
      BY <3>1
    <3>2. CASE p # "ws"
      BY <1>1, <3>2 DEF AnyInv, Fallback, Tasks
    <3> QED BY <3>1, <3>2
  <2>2. \A t \in Topics : \A s \in StepsOf(ws'[t]) :
          s.src = "WebSocket" /\ s.op \in {"raise", "filled", "cancelled"}
    BY <1>1, SameWs DEF AnyInv, Fallback
  <2>3. create' = "trades" => cached'
    BY <1>1 DEF AnyInv, Fallback
  <2> QED BY <2>1, <2>2, <2>3, Next1 DEF Fallback, Tasks
<1> QED BY <1>2, <1>3 DEF AnyInv

LEMMA SameAnnounced ==
    ASSUME UNCHANGED events
    PROVE  Announced' = Announced
BY DEF Announced

CreationsIn(e) == {k \in 1..Len(e) : e[k] = "CreateOrderSucceeded"}

LEMMA AnnouncedIs == Announced = CreationsIn(events) /\ Announced' = CreationsIn(events')
BY DEF Announced, CreationsIn

LEMMA AppendOther ==
    ASSUME NEW e \in Seq(OrderEventType), NEW x \in OrderEventType, x # "CreateOrderSucceeded"
    PROVE  CreationsIn(Append(e, x)) = CreationsIn(e)
<1> DEFINE f == Append(e, x)
<1>1. /\ Len(f) = Len(e) + 1 /\ f[Len(e) + 1] = x /\ Len(e) \in Nat
      /\ \A k \in 1..Len(e) : f[k] = e[k]
  OBVIOUS
<1>2. \A k : k \in 1..Len(f) <=> k \in 1..Len(e) \/ k = Len(e) + 1
  BY <1>1
<1> HIDE DEF f
<1>3. \A k : k \in CreationsIn(f) <=> k \in CreationsIn(e)
  BY <1>1, <1>2 DEF CreationsIn
<1>4. CreationsIn(f) = CreationsIn(e)
  BY <1>3 DEF CreationsIn
<1> QED BY <1>4 DEF f

LEMMA MoreAnnounced ==
    ASSUME Typed, NEW x \in OrderEventType, x # "CreateOrderSucceeded", events' = Append(events, x)
    PROVE  Announced' = Announced
<1>1. events \in Seq(OrderEventType)
  BY DEF Typed, OrderTyped
<1> QED BY <1>1, AppendOther, AnnouncedIs

(* Nothing that the invariant speaks of changes. *)
LEMMA SameAny ==
    ASSUME AnyInv, UNCHANGED <<todo, cached, locked, late, bufFills, bufCancel, events, ws>>,
           order'.fallback = order.fallback, create' = "trades" => cached
    PROVE  AnyInv'
<1>1. \A p \in Tasks : Does(p)' = Does(p) /\ One(p)' = One(p)
  BY DEF Does, OpsOf, StepsOf, One
<1>2. \A p \in Tasks : Handler(p)'
  BY <1>1 DEF AnyInv, Handler, InOrder
<1>3. Fallback'
  BY <1>1, SameWs DEF AnyInv, Fallback, StepsOf, Tasks
<1>4. Locks' /\ Watched'
  BY <1>1 DEF AnyInv, Locks, Watched
<1>5. Announcements'
  BY <1>1, SameAnnounced DEF AnyInv, Announcements, Tasks
<1> QED BY <1>2, <1>3, <1>4, <1>5 DEF AnyInv

(* Task p is to take a step of ops. *)
Next2(p, ops) == Up(p) /\ Head(todo[p]).op \in ops

(* What an operation leaves to its task is so far as the invariant says. *)
LEMMA TradesCached ==
    ASSUME AnyInv, UNCHANGED create
    PROVE  create' = "trades" => cached
BY DEF AnyInv, Fallback

LEMMA RaiseAny ==
    ASSUME NEW p \in Tasks, Next2(p, {"raise"}), RaiseOrderCreated(p, Head(todo[p]))
    PROVE  AnyInv'
<1> DEFINE s == Head(todo[p])
           a == Do("succeeded", s.src)
<1>1. /\ Up(p) /\ AnyInv /\ s.op = "raise" /\ s.src \in Source
      /\ OpsOf(Tail(todo[p])) \subseteq {"end"}
  BY UpFacts DEF Next2, Up, Later
<1>2. /\ UNCHANGED <<order, cached, locked, events, late, bufFills, bufCancel, create, ws>>
      /\ Done(p) \/ Becomes(p, <<a>>)
  BY DEF RaiseOrderCreated, orderVars, bufferVars, exVars
<1>3. a \in GoodStep /\ a.op = "succeeded" /\ a.src = s.src
  BY <1>1, DoTyped, DoFields DEF Ops, FillOps
<1> HIDE DEF a
<1>4. /\ order'.fallback = order.fallback /\ create' = "trades" => cached
      /\ Announced' = Announced /\ Plain
  BY <1>1, <1>2, SameAnnounced, TradesCached DEF Unbuffered, Plain
<1>5. s.op \notin Marks
  BY <1>1 DEF Marks
<1>6. a.op \notin Marks \cup {"filled", "end"} /\ OpsOf(Tail(todo[p])) \subseteq Later(a.op)
  BY <1>1, <1>3 DEF Marks, Later
<1>7. CASE Done(p)
  BY <1>1, <1>2, <1>4, <1>5, <1>7, AlikeDone, Zenon
<1>8. CASE Becomes(p, <<a>>)
  BY <1>1, <1>2, <1>3, <1>4, <1>5, <1>6, <1>8, AlikeOne, Zenon
<1> QED BY <1>2, <1>7, <1>8

LEMMA FilledAny ==
    ASSUME NEW p \in Tasks, Next2(p, {"filled"}), HandleOrderFilled(p, Head(todo[p]))
    PROVE  AnyInv'
<1> DEFINE s == Head(todo[p])
           a == DoFill("bufferFill", s.fill, s.src)
           b == Do("raise", s.src)
           c == DoFill("addFill", s.fill, s.src)
           d == Do("complete", s.src)
<1>1. /\ Up(p) /\ AnyInv /\ s.op = "filled" /\ s.src \in Source /\ s.fill \in Fill
      /\ OpsOf(Tail(todo[p])) \subseteq {"filled", "removeFills", "takeCancel", "end"}
      /\ ~cached => OpsOf(Tail(todo[p])) = {}
  <2>1. /\ Up(p) /\ AnyInv /\ s.op = "filled" /\ s.src \in Source
        /\ OpsOf(Tail(todo[p])) \subseteq {"filled", "removeFills", "takeCancel", "end"}
    BY UpFacts DEF Next2, Up, Later
  <2>2. "filled" \in Does(p)
    BY <2>1, UpFacts
  <2>3. s.fill \in Fill
    BY <2>1, UpFacts DEF FillOps
  <2>4. ~cached => OpsOf(Tail(todo[p])) = {}
    BY <2>1, <2>2, UpFacts
  <2> QED BY <2>1, <2>3, <2>4
<1>2. /\ UNCHANGED <<order, cached, locked, events, late, bufFills, bufCancel, create, ws>>
      /\ \/ ~cached /\ Becomes(p, <<a, b>>)
         \/ UNCHANGED todo
         \/ cached /\ Becomes(p, <<>>)
         \/ cached /\ Becomes(p, <<c, d>>)
  BY DEF HandleOrderFilled, Panics, orderVars, bufferVars, createVars, exVars
<1>3. /\ a \in GoodStep /\ b \in GoodStep /\ c \in GoodStep /\ d \in GoodStep
      /\ a.op = "bufferFill" /\ b.op = "raise" /\ c.op = "addFill" /\ d.op = "complete"
      /\ a.src = s.src /\ b.src = s.src /\ c.src = s.src /\ d.src = s.src
  <2>1. a \in GoodStep /\ b \in GoodStep /\ c \in GoodStep /\ d \in GoodStep
    BY <1>1, DoTyped DEF Ops, FillOps
  <2> QED BY <2>1, DoFields
<1> HIDE DEF a, b, c, d
<1>4. /\ order'.fallback = order.fallback /\ create' = "trades" => cached
      /\ Announced' = Announced /\ Plain
  BY <1>1, <1>2, SameAnnounced, TradesCached DEF Unbuffered, Plain
<1>5. s.op \notin Marks /\ \A x \in {a, b, c, d} : x.op \notin Marks \cup {"filled", "end"}
  BY <1>1, <1>3 DEF Marks
<1>6. b.op \in Later(a.op) /\ d.op \in Later(c.op)
  BY <1>3 DEF Later
<1>7. CASE ~cached /\ Becomes(p, <<a, b>>)
  <2>1. OpsOf(Tail(todo[p])) \subseteq Later(a.op) /\ OpsOf(Tail(todo[p])) \subseteq Later(b.op)
    BY <1>1, <1>7
  <2> QED BY <1>1, <1>2, <1>3, <1>4, <1>5, <1>6, <1>7, <2>1, AlikeTwo, Zenon
<1>8. CASE UNCHANGED todo
  BY <1>1, <1>2, <1>4, <1>8, SameAny
<1>9. CASE cached /\ Becomes(p, <<>>)
  BY <1>1, <1>2, <1>4, <1>5, <1>9, AlikeDone, Zenon
<1>10. CASE cached /\ Becomes(p, <<c, d>>)
  <2>1. OpsOf(Tail(todo[p])) \subseteq Later(c.op) /\ OpsOf(Tail(todo[p])) \subseteq Later(d.op)
    BY <1>1, <1>3 DEF Later
  <2> QED BY <1>1, <1>2, <1>3, <1>4, <1>5, <1>6, <1>10, <2>1, AlikeTwo, Zenon
<1> QED BY <1>2, <1>7, <1>8, <1>9, <1>10

LEMMA BufferFillAny ==
    ASSUME NEW p \in Tasks, Next2(p, {"bufferFill"}), BufferFill(p, Head(todo[p]))
    PROVE  AnyInv'
<1>1. /\ Up(p) /\ AnyInv /\ Head(todo[p]).op \notin Marks
  BY DEF Next2, Up, Marks
<1>2. /\ UNCHANGED <<order, cached, locked, events, create, ws>> /\ Done(p) /\ late' = (late \/ cached)
  BY DEF BufferFill, orderVars, createVars, exVars
<1>3. /\ order'.fallback = order.fallback /\ create' = "trades" => cached
      /\ Announced' = Announced /\ Plain
  BY <1>1, <1>2, SameAnnounced, TradesCached DEF Unbuffered, Plain
<1> QED BY <1>1, <1>2, <1>3, AlikeDone, Zenon

LEMMA BufferCancelAny ==
    ASSUME NEW p \in Tasks, Next2(p, {"bufferCancel"}), BufferCancel(p, Head(todo[p]))
    PROVE  AnyInv'
<1>1. /\ Up(p) /\ AnyInv /\ Head(todo[p]).op \notin Marks
  BY DEF Next2, Up, Marks
<1>2. /\ UNCHANGED <<order, cached, locked, events, create, ws>> /\ Done(p) /\ late' = (late \/ cached)
  BY DEF BufferCancel, orderVars, createVars, exVars
<1>3. /\ order'.fallback = order.fallback /\ create' = "trades" => cached
      /\ Announced' = Announced /\ Plain
  BY <1>1, <1>2, SameAnnounced, TradesCached DEF Unbuffered, Plain
<1> QED BY <1>1, <1>2, <1>3, AlikeDone, Zenon

LEMMA AddFillAny ==
    ASSUME NEW p \in Tasks, Next2(p, {"addFill"}), AddFill(p, Head(todo[p]))
    PROVE  AnyInv'
<1>1. /\ Up(p) /\ AnyInv /\ Typed /\ Head(todo[p]).op \notin Marks
  BY DEF Next2, Up, Marks
<1>2. /\ UNCHANGED <<cached, locked, events, late, bufFills, bufCancel, create, ws>> /\ Done(p)
  BY DEF AddFill, bufferVars, createVars, exVars
<1>3. order'.fallback = order.fallback
  BY <1>1 DEF AddFill, Typed, OrderTyped, OrderType
<1>4. Unbuffered /\ Announced' = Announced /\ (create' = "trades" => cached)
  BY <1>1, <1>2, SameAnnounced, TradesCached DEF Unbuffered
<1>5. Plain
  BY <1>2, <1>3, <1>4 DEF Plain
<1> QED BY <1>1, <1>2, <1>5, AlikeDone, Zenon

LEMMA CompleteAny ==
    ASSUME NEW p \in Tasks, Next2(p, {"complete"}), CompleteIfFilled(p, Head(todo[p]))
    PROVE  AnyInv'
<1>1. /\ Up(p) /\ AnyInv /\ Typed /\ Head(todo[p]).op \notin Marks
  BY DEF Next2, Up, Marks
<1>2. CASE UNCHANGED todo /\ UNCHANGED <<orderVars, bufferVars, createVars, exVars>>
  BY <1>1, <1>2, SameAny, TradesCached DEF orderVars, bufferVars, createVars, exVars
<1>3. CASE /\ Done(p) /\ UNCHANGED <<cached, bufferVars, createVars, exVars>>
           /\ \/ Send("OrderFilled", order.status) /\ UNCHANGED order
              \/ /\ order' = [order EXCEPT !.status = "Completed"]
                 /\ events' = events \o <<"OrderFilled", "OrderCompleted">>
  <2>1. /\ UNCHANGED <<cached, locked, late, bufFills, bufCancel, create, ws>>
    BY <1>3 DEF bufferVars, createVars, exVars
  <2>2. order'.fallback = order.fallback
    BY <1>1, <1>3 DEF Typed, OrderTyped, OrderType
  <2>3. Announced' = Announced
    <3>1. CASE Send("OrderFilled", order.status)
      BY <1>1, <3>1, MoreAnnounced DEF Send, OrderEventType
    <3>2. CASE events' = events \o <<"OrderFilled", "OrderCompleted">>
      <4>1. events \in Seq(OrderEventType)
        BY <1>1 DEF Typed, OrderTyped
      <4>2. events' = Append(Append(events, "OrderFilled"), "OrderCompleted")
        BY <3>2, <4>1, AppendTwo
      <4>3. CreationsIn(Append(events, "OrderFilled")) = CreationsIn(events) /\ Append(events, "OrderFilled") \in Seq(OrderEventType)
        BY <4>1, AppendOther, AppendTyped DEF OrderEventType
      <4>4. CreationsIn(events') = CreationsIn(Append(events, "OrderFilled"))
        BY <4>2, <4>3, AppendOther DEF OrderEventType
      <4> QED BY <4>3, <4>4, AnnouncedIs
    <3> QED BY <1>3, <3>1, <3>2, SameAnnounced
  <2>4. Plain
    BY <1>1, <2>1, <2>2, <2>3, TradesCached DEF Unbuffered, Plain
  <2> QED BY <1>1, <1>3, <2>1, <2>2, <2>3, <2>4, AlikeDone, Zenon
<1> QED BY <1>2, <1>3 DEF CompleteIfFilled, Panics

LEMMA CancelledAny ==
    ASSUME NEW p \in Tasks, Next2(p, {"cancelled"}), HandleCancelOrderSucceeded(p, Head(todo[p]))
    PROVE  AnyInv'
<1> DEFINE s == Head(todo[p])
           a == Do("bufferCancel", s.src)
           b == Do("raise", s.src)
           c == Do("setCanceled", s.src)
<1>1. /\ Up(p) /\ AnyInv /\ s.op = "cancelled" /\ s.src \in Source
      /\ OpsOf(Tail(todo[p])) \subseteq {"removeCancel", "end"}
      /\ ~cached => OpsOf(Tail(todo[p])) \subseteq {"end"}
  <2>1. /\ Up(p) /\ AnyInv /\ s.op = "cancelled" /\ s.src \in Source
        /\ OpsOf(Tail(todo[p])) \subseteq {"removeCancel", "end"}
    BY UpFacts DEF Next2, Up, Later
  <2>2. Does(p) = {"cancelled"} \cup OpsOf(Tail(todo[p])) /\ Sound(Does(p), cached)
    BY <2>1, UpFacts
  <2>3. "removeCancel" \in OpsOf(Tail(todo[p])) => cached
    BY <2>1, <2>2 DEF Sound
  <2> QED BY <2>1, <2>3
<1>2. /\ UNCHANGED <<order, cached, locked, events, late, bufFills, bufCancel, create, ws>>
      /\ \/ ~cached /\ Becomes(p, <<a, b>>)
         \/ Becomes(p, <<>>)
         \/ Becomes(p, <<c>>)
  BY DEF HandleCancelOrderSucceeded, orderVars, bufferVars, createVars, exVars
<1>3. /\ a \in GoodStep /\ b \in GoodStep /\ c \in GoodStep
      /\ a.op = "bufferCancel" /\ b.op = "raise" /\ c.op = "setCanceled"
      /\ a.src = s.src /\ b.src = s.src /\ c.src = s.src
  <2>1. a \in GoodStep /\ b \in GoodStep /\ c \in GoodStep
    BY <1>1, DoTyped DEF Ops, FillOps
  <2> QED BY <2>1, DoFields
<1> HIDE DEF a, b, c
<1>4. Plain
  BY <1>1, <1>2, SameAnnounced, TradesCached DEF Unbuffered, Plain
<1>5. s.op \notin Marks /\ \A x \in {a, b, c} : x.op \notin Marks \cup {"filled", "end"}
  BY <1>1, <1>3 DEF Marks
<1>6. b.op \in Later(a.op)
  BY <1>3 DEF Later
<1>7. CASE ~cached /\ Becomes(p, <<a, b>>)
  <2>1. OpsOf(Tail(todo[p])) \subseteq Later(a.op) /\ OpsOf(Tail(todo[p])) \subseteq Later(b.op)
    BY <1>1, <1>3, <1>7 DEF Later
  <2> QED BY <1>1, <1>3, <1>4, <1>5, <1>6, <1>7, <2>1, AlikeTwo, Zenon
<1>8. CASE Becomes(p, <<>>)
  BY <1>1, <1>4, <1>5, <1>8, AlikeDone, Zenon
<1>9. CASE Becomes(p, <<c>>)
  <2>1. OpsOf(Tail(todo[p])) \subseteq Later(c.op)
    BY <1>1, <1>3 DEF Later
  <2> QED BY <1>1, <1>3, <1>4, <1>5, <1>9, <2>1, AlikeOne, Zenon
<1> QED BY <1>2, <1>7, <1>8, <1>9

LEMMA SetCanceledAny ==
    ASSUME NEW p \in Tasks, Next2(p, {"setCanceled"}), SetCanceled(p, Head(todo[p]))
    PROVE  AnyInv'
<1>1. /\ Up(p) /\ AnyInv /\ Typed /\ Head(todo[p]).op \notin Marks
  BY DEF Next2, Up, Marks
<1>2. /\ UNCHANGED <<cached, locked, late, bufFills, bufCancel, create, ws>> /\ Done(p)
      /\ events' = Append(events, "CancelOrderSucceeded")
  BY DEF SetCanceled, Send, bufferVars, createVars, exVars
<1>3. order'.fallback = order.fallback
  BY <1>1 DEF SetCanceled, Typed, OrderTyped, OrderType
<1>4. Unbuffered /\ Announced' = Announced /\ (create' = "trades" => cached)
  BY <1>1, <1>2, MoreAnnounced, TradesCached DEF Unbuffered, OrderEventType
<1>5. Plain
  BY <1>2, <1>3, <1>4 DEF Plain
<1> QED BY <1>1, <1>2, <1>5, AlikeDone, Zenon

LEMMA SetFailedAny ==
    ASSUME NEW p \in Tasks, Next2(p, {"setFailed"}), SetFailed(p, Head(todo[p]))
    PROVE  AnyInv'
<1>1. /\ Up(p) /\ AnyInv /\ Typed /\ Head(todo[p]).op \notin Marks
  BY DEF Next2, Up, Marks
<1>2. /\ UNCHANGED <<cached, locked, late, bufFills, bufCancel, create, ws>> /\ Done(p)
      /\ events' = Append(events, "CreateOrderFailed")
  BY DEF SetFailed, Send, bufferVars, createVars, exVars
<1>3. order'.fallback = order.fallback
  BY <1>1 DEF SetFailed, Typed, OrderTyped, OrderType
<1>4. Unbuffered /\ Announced' = Announced /\ (create' = "trades" => cached)
  BY <1>1, <1>2, MoreAnnounced, TradesCached DEF Unbuffered, OrderEventType
<1>5. Plain
  BY <1>2, <1>3, <1>4 DEF Plain
<1> QED BY <1>1, <1>2, <1>5, AlikeDone, Zenon

LEMMA FailedAny ==
    ASSUME NEW p \in Tasks, Next2(p, {"failed"}), HandleCreateOrderFailed(p, Head(todo[p]))
    PROVE  AnyInv'
<1> DEFINE s == Head(todo[p])
           a == Do("setFailed", s.src)
<1>1. /\ Up(p) /\ AnyInv /\ s.op = "failed" /\ s.src \in Source
      /\ OpsOf(Tail(todo[p])) \subseteq {"end"}
  BY UpFacts DEF Next2, Up, Later
<1>2. /\ UNCHANGED <<order, cached, locked, events, late, bufFills, bufCancel, create, ws>>
      /\ Becomes(p, <<>>) \/ Becomes(p, <<a>>)
  BY DEF HandleCreateOrderFailed, orderVars, bufferVars, createVars, exVars
<1>3. a \in GoodStep /\ a.op = "setFailed" /\ a.src = s.src
  BY <1>1, DoTyped, DoFields DEF Ops, FillOps
<1> HIDE DEF a
<1>4. Plain
  BY <1>1, <1>2, SameAnnounced, TradesCached DEF Unbuffered, Plain
<1>5. s.op \notin Marks
  BY <1>1 DEF Marks
<1>6. a.op \notin Marks \cup {"filled", "end"} /\ OpsOf(Tail(todo[p])) \subseteq Later(a.op)
  BY <1>1, <1>3 DEF Marks, Later
<1>7. CASE Becomes(p, <<>>)
  BY <1>1, <1>4, <1>5, <1>7, AlikeDone, Zenon
<1>8. CASE Becomes(p, <<a>>)
  BY <1>1, <1>3, <1>4, <1>5, <1>6, <1>8, AlikeOne, Zenon
<1> QED BY <1>2, <1>7, <1>8

LEMMA EndAny ==
    ASSUME NEW p \in Tasks, Next2(p, {"end"}), EndCreateOrder(p, Head(todo[p]))
    PROVE  AnyInv'
<1>1. /\ Up(p) /\ AnyInv /\ Typed /\ Head(todo[p]).op = "end" /\ Head(todo[p]).op \notin Marks
  BY DEF Next2, Up, Marks
<1>2. /\ UNCHANGED <<order, cached, locked, events, late, bufFills, bufCancel, ws>> /\ Done(p)
      /\ create' = "trades" => order.fallback
  BY DEF EndCreateOrder, orderVars, bufferVars, exVars
<1>3. p = "create"
  <2>1. p # "ws"
    BY <1>1, UpFacts
  <2> QED BY <2>1 DEF Tasks
<1>4. Does(p) = {"end"}
  <2>1. OpsOf(Tail(todo[p])) \subseteq Later("end") /\ Does(p) = {"end"} \cup OpsOf(Tail(todo[p]))
    BY <1>1, UpFacts
  <2> QED BY <2>1 DEF Later
<1>5. create' = "trades" => cached
  BY <1>1, <1>2, <1>3, <1>4 DEF AnyInv, Fallback
<1>6. Unbuffered /\ Announced' = Announced
  BY <1>2, SameAnnounced DEF Unbuffered
<1>7. Plain
  BY <1>2, <1>5, <1>6 DEF Plain
<1> QED BY <1>1, <1>2, <1>7, AlikeDone, Zenon

LEMMA CreationSources ==
    ASSUME NEW src
    PROVE  \A s \in StepsOf(CreationSteps(src)) : s.src = src
<1> DEFINE q == CreationSteps(src)
<1>1. /\ DOMAIN q = {1, 2, 3, 4, 5}
      /\ q[1] = Do("setCreated", src) /\ q[2] = Do("insert", src) /\ q[3] = Do("announce", src)
      /\ q[4] = Do("takeFills", src) /\ q[5] = Do("takeCancel", src)
  BY DEF CreationSteps
<1>2. \A i \in {1, 2, 3, 4, 5} : q[i].src = src
  BY <1>1, DoFields
<1> HIDE DEF q
<1>3. \A s \in StepsOf(q) : s.src = src
  BY <1>1, <1>2 DEF StepsOf
<1> QED BY <1>3 DEF q

LEMMA DoneTurn ==
    ASSUME NEW p \in Tasks, Up(p), Done(p)
    PROVE  /\ Does(p) = {Head(todo[p]).op} \cup OpsOf(todo'[p])
           /\ OpsOf(todo'[p]) \subseteq Later(Head(todo[p]).op)
           /\ InOrder(todo'[p]) /\ StepsOf(todo'[p]) \subseteq StepsOf(todo[p])
           /\ \A o \in Tasks : o # p => todo'[o] = todo[o]
<1> DEFINE q == <<>>
<1>1. q \in Seq(GoodStep) /\ InOrder(q) /\ OpsOf(q) = {} /\ StepsOf(q) = {} /\ Becomes(p, q)
  BY ShortSteps, Short DEF Done
<1> HIDE DEF q
<1>2. \A o \in OpsOf(q) : OpsOf(Tail(todo[p])) \subseteq Later(o)
  BY <1>1
<1>3. todo[p] # <<>> /\ Typed /\ InOrder(todo[p])
  BY UpFacts DEF Up
<1>4. PICK R : /\ R = OpsOf(Tail(todo[p])) /\ R \subseteq Later(Head(todo[p]).op)
               /\ Does(p) = {Head(todo[p]).op} \cup R
               /\ OpsOf(todo'[p]) = OpsOf(q) \cup R
               /\ InOrder(todo'[p])
               /\ StepsOf(todo'[p]) \subseteq StepsOf(q) \cup StepsOf(todo[p])
               /\ \A o \in Tasks : o # p => todo'[o] = todo[o]
  BY <1>1, <1>2, <1>3, Turn
<1>5. OpsOf(todo'[p]) = R /\ StepsOf(todo'[p]) \subseteq StepsOf(todo[p])
  BY <1>1, <1>4
<1> QED BY <1>4, <1>5

(* The locks are held by those who held them. *)
LEMMA LocksKept ==
    ASSUME AnyInv, NEW p \in Tasks, \A o \in Tasks : o # p => todo'[o] = todo[o], UNCHANGED locked,
           "removeFills" \in Does(p) => "removeFills" \in OpsOf(todo'[p]),
           "removeCancel" \in Does(p) => "removeCancel" \in OpsOf(todo'[p])
    PROVE  Locks'
<1>1. \A o \in Tasks : o # p => OpsOf(todo'[o]) = Does(o)
  BY DEF Does
<1> QED BY <1>1, Next1 DEF AnyInv, Locks

LEMMA WatchedKept ==
    ASSUME AnyInv, NEW p \in Tasks, \A o \in Tasks : o # p => todo'[o] = todo[o], UNCHANGED <<cached, late>>,
           bufFills' # <<>> =>
             /\ bufFills # <<>>
             /\ Does(p) \cap {"takeFills", "removeFills"} # {}
                  => OpsOf(todo'[p]) \cap {"takeFills", "removeFills"} # {},
           bufCancel' =>
             /\ bufCancel
             /\ Does(p) \cap {"takeCancel", "removeCancel"} # {}
                  => OpsOf(todo'[p]) \cap {"takeCancel", "removeCancel"} # {}
    PROVE  Watched'
<1>1. \A o \in Tasks : o # p => OpsOf(todo'[o]) = Does(o)
  BY DEF Does
<1> QED BY <1>1, Next1 DEF AnyInv, Watched

LEMMA AnnouncementsKept ==
    ASSUME AnyInv, NEW p \in Tasks, \A o \in Tasks : o # p => todo'[o] = todo[o],
           "announce" \in OpsOf(todo'[p]) <=> "announce" \in Does(p),
           cached => cached', Announced' = Announced
    PROVE  Announcements'
<1>1. \A o \in Tasks : o # p => OpsOf(todo'[o]) = Does(o)
  BY DEF Does
<1>2. One("create")' = One("create") /\ One("ws")' = One("ws")
  BY <1>1, Next1 DEF One, Tasks
<1> QED BY <1>2 DEF AnyInv, Announcements

LEMMA SucceededAny ==
    ASSUME NEW p \in Tasks, Next2(p, {"succeeded", "answered"}), HandleCreateOrderSucceeded(p, Head(todo[p]))
    PROVE  AnyInv'
<1> DEFINE s == Head(todo[p])
           c == CreationSteps(s.src)
<1>1. /\ Up(p) /\ AnyInv /\ Typed /\ s.op \in {"succeeded", "answered"} /\ s.src \in Source
      /\ OpsOf(Tail(todo[p])) \subseteq {"end"} /\ todo[p] # <<>> /\ InOrder(todo[p])
      /\ Does(p) = {s.op} \cup OpsOf(Tail(todo[p]))
  BY UpFacts DEF Next2, Up, Later
<1>2. /\ UNCHANGED <<cached, locked, late, events, bufFills, bufCancel, ws>>
      /\ \/ todo' = [todo EXCEPT ![p] = <<>>] /\ create' \in {create, "failed"}
         \/ Becomes(p, <<>>) /\ UNCHANGED create
         \/ ~cached /\ Becomes(p, c) /\ UNCHANGED create
  BY DEF HandleCreateOrderSucceeded, bufferVars, exVars
<1>3. order'.fallback = order.fallback
  BY <1>1 DEF HandleCreateOrderSucceeded, Typed, OrderTyped, OrderType
<1>4. Unbuffered /\ Announced' = Announced
  BY <1>2, SameAnnounced DEF Unbuffered
<1>5. s.op \notin Marks
  BY <1>1 DEF Marks
<1>6. ASSUME Becomes(p, <<>>), UNCHANGED create PROVE AnyInv'
  <2>1. Plain
    BY <1>1, <1>2, <1>3, <1>4, <1>6, TradesCached DEF Plain
  <2> QED BY <1>1, <1>5, <1>6, <2>1, AlikeDone, Zenon
<1>7. ASSUME todo' = [todo EXCEPT ![p] = <<>>], create' \in {create, "failed"} PROVE AnyInv'
  <2>1. todo'[p] = <<>> /\ \A o \in Tasks : o # p => todo'[o] = todo[o]
    BY <1>1, <1>7 DEF Typed, TodoTyped
  <2>2. InOrder(todo'[p]) /\ OpsOf(todo'[p]) = {} /\ StepsOf(todo'[p]) = {}
    BY <2>1, ShortSteps
  <2>3. OpsOf(todo'[p]) \cap Marks = Does(p) \cap Marks
    BY <1>1, <2>2 DEF Marks
  <2>4. create' = "trades" => cached
    BY <1>1, <1>7 DEF AnyInv, Fallback
  <2>5. \A t \in Topics : \A x \in StepsOf(ws'[t]) : x.src = "WebSocket" /\ x.op \in {"raise", "filled", "cancelled"}
    BY <1>1, <1>2, UpFacts, SameWs
  <2>6. ("filled" \in OpsOf(todo'[p]) => cached \/ Len(todo'[p]) = 1)
        /\ (p = "ws" => \A x \in StepsOf(todo'[p]) : x.src = "WebSocket" /\ x.op # "end")
    BY <2>2
  <2>7. UNCHANGED <<cached, locked>> /\ (~late' /\ cached => ~late /\ UNCHANGED <<bufFills, bufCancel>>)
    BY <1>2
  <2> QED BY <1>1, <1>3, <1>4, <2>1, <2>2, <2>3, <2>4, <2>5, <2>6, <2>7, Alike
<1>8. ASSUME ~cached, Becomes(p, c), UNCHANGED create PROVE AnyInv'
  <2>1. /\ OpsOf(c) = {"setCreated", "insert", "announce", "takeFills", "takeCancel"} /\ InOrder(c)
        /\ \A x \in StepsOf(c) : x.op \in OpsOf(c) /\ x.src = s.src
    BY CreationStepsFacts, CreationSources
  <2>2. c \in Seq(GoodStep)
    BY <1>1, CreationStepsTyped
  <2> HIDE DEF c
  <2>3. \A o \in OpsOf(c) : OpsOf(Tail(todo[p])) \subseteq Later(o)
    BY <1>1, <2>1 DEF Later
  <2>4. PICK R : /\ R = OpsOf(Tail(todo[p]))
                 /\ OpsOf(todo'[p]) = OpsOf(c) \cup R
                 /\ InOrder(todo'[p])
                 /\ StepsOf(todo'[p]) \subseteq StepsOf(c) \cup StepsOf(todo[p])
                 /\ Head(todo[p]) \in StepsOf(todo[p])
                 /\ \A o \in Tasks : o # p => todo'[o] = todo[o]
    <3>1. Typed /\ todo[p] # <<>> /\ InOrder(todo[p]) /\ InOrder(c) /\ Becomes(p, c)
      BY <1>1, <1>8, <2>1
    <3> QED BY <2>2, <2>3, <3>1, Turn, Zenon
  <2>5. OpsOf(todo'[p]) = {"setCreated", "insert", "announce", "takeFills", "takeCancel"} \cup R /\ R \subseteq {"end"}
    BY <1>1, <2>1, <2>4
  <2>6. /\ Does(p) \subseteq {"succeeded", "answered", "end"} /\ ~cached' /\ UNCHANGED locked
        /\ \A o \in Tasks : o # p => todo'[o] = todo[o]
    BY <1>1, <1>2, <1>8, <2>4
  <2>7. Locks'
    BY <1>1, <2>6, LocksKept
  <2>8. Watched'
    BY <2>6 DEF Watched
  <2>9. Announcements'
    <3>1. Announced' = {}
      BY <1>1, <1>4, <1>8 DEF AnyInv, Announcements
    <3>2. Cardinality(Announced') = 0
      BY <3>1, FS_EmptySet
    <3>3. One("create")' \in {0, 1} /\ One("ws")' \in {0, 1}
      BY Next1
    <3>4. (Cardinality(Announced) + One("create") + One("ws") <= 2)'
      BY <3>2, <3>3
    <3> QED BY <3>1, <3>4 DEF Announcements
  <2>10. Sound(OpsOf(todo'[p]), cached') /\ "filled" \notin OpsOf(todo'[p])
    BY <2>5 DEF Sound
  <2>11. p = "ws" => \A x \in StepsOf(todo'[p]) : x.src = "WebSocket" /\ x.op # "end"
    <3>1. p = "ws" => \A x \in StepsOf(todo[p]) : x.src = "WebSocket" /\ x.op # "end"
      BY <1>1, UpFacts
    <3>2. \A x \in StepsOf(c) : x.src = Head(todo[p]).src /\ x.op # "end"
      BY <2>1
    <3> QED BY <2>4, <3>1, <3>2
  <2>12. order'.fallback => cached' \/ "insert" \in OpsOf(todo'["create"])
    <3>1. order.fallback => "insert" \in Does("create")
      BY <1>1, <1>8 DEF AnyInv, Fallback
    <3>2. "create" # p => OpsOf(todo'["create"]) = Does("create")
      BY <2>6 DEF Does, Tasks
    <3>3. "insert" \in OpsOf(todo'[p])
      BY <2>5
    <3> QED BY <1>3, <3>1, <3>2, <3>3
  <2>13. (cached => cached') /\ UNCHANGED ws /\ (create' = "trades" => create = "trades")
    BY <1>2, <1>8
  <2> QED BY <1>1, <2>4, <2>6, <2>7, <2>8, <2>9, <2>10, <2>11, <2>12, <2>13, Assembled
<1> QED BY <1>2, <1>6, <1>7, <1>8

(* The rest of a handler keeps its sources. *)
LEMMA SourcesKept ==
    ASSUME NEW p \in Tasks, Up(p), StepsOf(todo'[p]) \subseteq StepsOf(todo[p])
    PROVE  p = "ws" => \A s \in StepsOf(todo'[p]) : s.src = "WebSocket" /\ s.op # "end"
BY UpFacts

LEMMA FallbackKept ==
    ASSUME AnyInv, NEW p \in Tasks, \A o \in Tasks : o # p => todo'[o] = todo[o],
           order'.fallback = order.fallback,
           "insert" \in Does(p) => cached' \/ "insert" \in OpsOf(todo'[p]),
           cached => cached'
    PROVE  order'.fallback => cached' \/ "insert" \in OpsOf(todo'["create"])
<1>1. "create" # p => OpsOf(todo'["create"]) = Does("create")
  BY DEF Does, Tasks
<1> QED BY <1>1 DEF AnyInv, Fallback

LEMMA SetCreatedAny ==
    ASSUME NEW p \in Tasks, Next2(p, {"setCreated"}), SetCreated(p, Head(todo[p]))
    PROVE  AnyInv'
<1>1. /\ Up(p) /\ AnyInv /\ Typed /\ Head(todo[p]).op = "setCreated"
  BY DEF Next2, Up
<1>2. /\ UNCHANGED <<cached, locked, late, events, bufFills, bufCancel, create, ws>> /\ Done(p)
  BY DEF SetCreated, bufferVars, createVars, exVars
<1>3. order'.fallback => Head(todo[p]).src = "RestFallback"
  BY <1>1 DEF SetCreated, Typed, OrderTyped, OrderType
<1>4. /\ Does(p) = {"setCreated"} \cup OpsOf(todo'[p])
      /\ OpsOf(todo'[p]) \subseteq {"insert", "announce", "takeFills", "takeCancel", "end"}
      /\ InOrder(todo'[p]) /\ StepsOf(todo'[p]) \subseteq StepsOf(todo[p])
      /\ \A o \in Tasks : o # p => todo'[o] = todo[o]
  BY <1>1, <1>2, DoneTurn DEF Later
<1>5. Sound(Does(p), cached)
  BY <1>1, UpFacts
<1>6. Sound(OpsOf(todo'[p]), cached') /\ "filled" \notin OpsOf(todo'[p]) /\ "insert" \in OpsOf(todo'[p])
  BY <1>2, <1>4, <1>5 DEF Sound
<1>7. Locks'
  BY <1>1, <1>2, <1>4, LocksKept
<1>8. Watched'
  BY <1>1, <1>2, <1>4, WatchedKept
<1>9. Announcements'
  BY <1>1, <1>2, <1>4, AnnouncementsKept, SameAnnounced
<1>10. order'.fallback => cached' \/ "insert" \in OpsOf(todo'["create"])
  <2>1. CASE p = "create"
    BY <1>6, <2>1
  <2>2. CASE p = "ws"
    <3>1. Head(todo[p]).src = "WebSocket"
      BY <1>1, <2>2, UpFacts
    <3> QED BY <1>3, <3>1
  <2> QED BY <2>1, <2>2 DEF Tasks
<1>11. p = "ws" => \A s \in StepsOf(todo'[p]) : s.src = "WebSocket" /\ s.op # "end"
  BY <1>1, <1>4, SourcesKept
<1>12. (cached => cached') /\ UNCHANGED ws /\ (create' = "trades" => create = "trades")
  BY <1>2
<1> QED BY <1>1, <1>4, <1>6, <1>7, <1>8, <1>9, <1>10, <1>11, <1>12, Assembled

LEMMA InsertAny ==
    ASSUME NEW p \in Tasks, Next2(p, {"insert"}), InsertIntoCache(p, Head(todo[p]))
    PROVE  AnyInv'
<1>1. /\ Up(p) /\ AnyInv /\ Typed /\ Head(todo[p]).op = "insert"
  BY DEF Next2, Up
<1>2. /\ UNCHANGED <<order, locked, late, events, bufFills, bufCancel, create, ws>> /\ Done(p) /\ cached' = TRUE
  BY DEF InsertIntoCache, bufferVars, createVars, exVars
<1>4. /\ Does(p) = {"insert"} \cup OpsOf(todo'[p])
      /\ OpsOf(todo'[p]) \subseteq {"announce", "takeFills", "takeCancel", "end"}
      /\ InOrder(todo'[p]) /\ StepsOf(todo'[p]) \subseteq StepsOf(todo[p])
      /\ \A o \in Tasks : o # p => todo'[o] = todo[o]
  BY <1>1, <1>2, DoneTurn DEF Later
<1>5. Sound(Does(p), cached)
  BY <1>1, UpFacts
<1>6. Sound(OpsOf(todo'[p]), cached') /\ {"announce", "takeFills", "takeCancel"} \subseteq OpsOf(todo'[p])
  BY <1>2, <1>4, <1>5 DEF Sound
<1>7. Locks'
  BY <1>1, <1>2, <1>4, LocksKept
<1>8. Watched'
  <2>1. "takeFills" \in Does(p)' /\ "takeCancel" \in Does(p)'
    BY <1>6, Next1
  <2> QED BY <2>1 DEF Watched
<1>9. Announcements'
  BY <1>1, <1>2, <1>4, AnnouncementsKept, SameAnnounced
<1>11. p = "ws" => \A s \in StepsOf(todo'[p]) : s.src = "WebSocket" /\ s.op # "end"
  BY <1>1, <1>4, SourcesKept
<1>12. cached' /\ (cached => cached') /\ UNCHANGED ws /\ (create' = "trades" => create = "trades")
  BY <1>2
<1> QED BY <1>1, <1>4, <1>6, <1>7, <1>8, <1>9, <1>11, <1>12, Assembled

LEMMA AppendCreation ==
    ASSUME NEW e \in Seq(OrderEventType)
    PROVE  CreationsIn(Append(e, "CreateOrderSucceeded")) = CreationsIn(e) \cup {Len(e) + 1}
<1> DEFINE f == Append(e, "CreateOrderSucceeded")
<1>1. /\ Len(f) = Len(e) + 1 /\ f[Len(e) + 1] = "CreateOrderSucceeded" /\ Len(e) \in Nat
      /\ \A k \in 1..Len(e) : f[k] = e[k]
  OBVIOUS
<1>2. \A k : k \in 1..Len(f) <=> k \in 1..Len(e) \/ k = Len(e) + 1
  BY <1>1
<1> HIDE DEF f
<1>3. \A k : k \in CreationsIn(f) <=> k \in CreationsIn(e) \cup {Len(e) + 1}
  BY <1>1, <1>2 DEF CreationsIn
<1>4. CreationsIn(f) = CreationsIn(e) \cup {Len(e) + 1}
  BY <1>3
<1> QED BY <1>4 DEF f

LEMMA AnnounceAny ==
    ASSUME NEW p \in Tasks, Next2(p, {"announce"}), Announce(p, Head(todo[p]))
    PROVE  AnyInv'
<1>1. /\ Up(p) /\ AnyInv /\ Typed /\ Head(todo[p]).op = "announce"
  BY DEF Next2, Up
<1>2. /\ UNCHANGED <<order, cached, locked, late, bufFills, bufCancel, create, ws>> /\ Done(p)
      /\ events' = Append(events, "CreateOrderSucceeded")
  BY DEF Announce, Send, bufferVars, createVars, exVars
<1>4. /\ Does(p) = {"announce"} \cup OpsOf(todo'[p])
      /\ OpsOf(todo'[p]) \subseteq {"takeFills", "takeCancel", "end"}
      /\ InOrder(todo'[p]) /\ StepsOf(todo'[p]) \subseteq StepsOf(todo[p])
      /\ \A o \in Tasks : o # p => todo'[o] = todo[o]
  BY <1>1, <1>2, DoneTurn DEF Later
<1>5. Sound(Does(p), cached)
  BY <1>1, UpFacts
<1>6. cached /\ Sound(OpsOf(todo'[p]), cached') /\ "filled" \notin OpsOf(todo'[p])
  BY <1>2, <1>4, <1>5 DEF Sound
<1>7. Locks'
  BY <1>1, <1>2, <1>4, LocksKept
<1>8. Watched'
  BY <1>1, <1>2, <1>4, WatchedKept
<1>9. Announcements'
  <2>1. Cardinality(Announced') <= Cardinality(Announced) + 1 /\ Cardinality(Announced') \in Nat
        /\ Cardinality(Announced) \in Nat
    <3>1. events \in Seq(OrderEventType)
      BY <1>1 DEF Typed, OrderTyped
    <3>2. Announced' = Announced \cup {Len(events) + 1}
      BY <1>2, <3>1, AppendCreation, AnnouncedIs
    <3>3. IsFiniteSet(Announced) /\ Cardinality(Announced) \in Nat
      BY <1>1, AnnouncedFinite
    <3>4. /\ IsFiniteSet(Announced \cup {Len(events) + 1})
          /\ Cardinality(Announced \cup {Len(events) + 1}) \in {Cardinality(Announced), Cardinality(Announced) + 1}
      BY <3>3, FS_AddElement
    <3> QED BY <3>2, <3>3, <3>4
  <2>2. One(p) = 1 /\ One(p)' = 0
    BY <1>4, Next1 DEF One
  <2>3. \A o \in Tasks : o # p => One(o)' = One(o)
    BY <1>4, Next1 DEF One, Does
  <2>4. One("create") \in {0, 1} /\ One("ws") \in {0, 1}
    BY DEF One
  <2>5. One("create")' + One("ws")' = One("create") + One("ws") - 1
    <3>1. CASE p = "create"
      BY <2>2, <2>3, <2>4, <3>1 DEF Tasks
    <3>2. CASE p = "ws"
      BY <2>2, <2>3, <2>4, <3>2 DEF Tasks
    <3> QED BY <3>1, <3>2 DEF Tasks
  <2>6. Cardinality(Announced) + One("create") + One("ws") <= 2
    BY <1>1 DEF AnyInv, Announcements
  <2>7. One("create")' \in {0, 1} /\ One("ws")' \in {0, 1}
    BY Next1
  <2>8. Cardinality(Announced') + One("create")' + One("ws")' <= 2
    BY <2>1, <2>4, <2>5, <2>6, <2>7
  <2> QED BY <1>2, <1>6, <2>8 DEF Announcements
<1>10. order'.fallback => cached' \/ "insert" \in OpsOf(todo'["create"])
  BY <1>2, <1>6
<1>11. p = "ws" => \A s \in StepsOf(todo'[p]) : s.src = "WebSocket" /\ s.op # "end"
  BY <1>1, <1>4, SourcesKept
<1>12. (cached => cached') /\ UNCHANGED ws /\ (create' = "trades" => create = "trades")
  BY <1>2
<1> QED BY <1>1, <1>4, <1>6, <1>7, <1>8, <1>9, <1>10, <1>11, <1>12, Assembled

LEMMA TakeFillsAny ==
    ASSUME NEW p \in Tasks, Next2(p, {"takeFills"}), TakeFills(p, Head(todo[p]))
    PROVE  AnyInv'
<1> DEFINE s == Head(todo[p])
           steps == Taken(s.src)
<1>1. /\ Up(p) /\ AnyInv /\ Typed /\ s.op = "takeFills" /\ s.src \in Source
      /\ Does(p) = {"takeFills"} \cup OpsOf(Tail(todo[p]))
      /\ OpsOf(Tail(todo[p])) \subseteq {"takeCancel", "end"} /\ todo[p] # <<>> /\ InOrder(todo[p])
      /\ Sound(Does(p), cached)
  BY UpFacts DEF Next2, Up, Later
<1>2. /\ UNCHANGED <<order, cached, late, events, bufFills, bufCancel, create, ws>>
      /\ \/ bufFills = <<>> /\ Done(p) /\ UNCHANGED locked
         \/ Becomes(p, steps) /\ locked' = [locked EXCEPT !["fills"] = TRUE]
  BY DEF TakeFills, Taken, orderVars, createVars, exVars
<1>3. "takeCancel" \in OpsOf(Tail(todo[p])) /\ cached /\ cached'
  BY <1>1, <1>2 DEF Sound
<1>4. (cached => cached') /\ UNCHANGED ws /\ (create' = "trades" => create = "trades") /\ Announced' = Announced
  BY <1>2, SameAnnounced
<1>5. ASSUME bufFills = <<>>, Done(p), UNCHANGED locked PROVE AnyInv'
  <2>1. /\ Does(p) = {"takeFills"} \cup OpsOf(todo'[p])
        /\ OpsOf(todo'[p]) \subseteq {"takeCancel", "end"}
        /\ InOrder(todo'[p]) /\ StepsOf(todo'[p]) \subseteq StepsOf(todo[p])
        /\ \A o \in Tasks : o # p => todo'[o] = todo[o]
    BY <1>1, <1>5, DoneTurn DEF Later
  <2>2. Sound(OpsOf(todo'[p]), cached')
    BY <1>1, <1>3, <2>1 DEF Sound
  <2>3. Locks'
    BY <1>1, <1>5, <2>1, LocksKept
  <2>4. Watched'
    BY <1>1, <1>2, <1>5, <2>1, WatchedKept
  <2>5. Announcements'
    BY <1>1, <1>4, <2>1, AnnouncementsKept
  <2>6. p = "ws" => \A x \in StepsOf(todo'[p]) : x.src = "WebSocket" /\ x.op # "end"
    BY <1>1, <2>1, SourcesKept
  <2> QED BY <1>1, <1>3, <1>4, <2>1, <2>2, <2>3, <2>4, <2>5, <2>6, Assembled
<1>6. ASSUME Becomes(p, steps), locked' = [locked EXCEPT !["fills"] = TRUE] PROVE AnyInv'
  <2>1. /\ steps \in Seq(GoodStep) /\ InOrder(steps)
        /\ OpsOf(steps) \subseteq {"filled", "removeFills"} /\ "removeFills" \in OpsOf(steps)
        /\ \A x \in StepsOf(steps) : x.src = s.src /\ x.op # "end"
    BY <1>1, TakenFacts
  <2> HIDE DEF steps
  <2>2. \A o \in OpsOf(steps) : OpsOf(Tail(todo[p])) \subseteq Later(o)
    BY <1>1, <2>1 DEF Later
  <2>3. steps \in Seq(GoodStep)
    BY <2>1
  <2>4. PICK R : /\ R = OpsOf(Tail(todo[p]))
                 /\ OpsOf(todo'[p]) = OpsOf(steps) \cup R
                 /\ InOrder(todo'[p])
                 /\ StepsOf(todo'[p]) \subseteq StepsOf(steps) \cup StepsOf(todo[p])
                 /\ Head(todo[p]) \in StepsOf(todo[p])
                 /\ \A o \in Tasks : o # p => todo'[o] = todo[o]
    BY <1>1, <1>6, <2>1, <2>2, <2>3, Turn
  <2>5. /\ {"removeFills", "takeCancel"} \subseteq OpsOf(todo'[p])
        /\ OpsOf(todo'[p]) \subseteq {"filled", "removeFills", "takeCancel", "end"}
    BY <1>1, <1>3, <2>1, <2>4
  <2>6. Sound(OpsOf(todo'[p]), cached')
    BY <1>3, <2>5 DEF Sound
  <2>7. Locks'
    <3>1. locked'["cancel"] => locked["cancel"]
      BY <1>1, <1>6 DEF Typed, BufferTyped
    <3>2. \A o \in Tasks : o # p => OpsOf(todo'[o]) = Does(o)
      BY <2>4 DEF Does
    <3>3. "removeCancel" \notin Does(p)
      BY <1>1
    <3> QED BY <1>1, <2>5, <3>1, <3>2, <3>3, Next1 DEF AnyInv, Locks
  <2>8. Watched'
    BY <1>1, <1>2, <2>4, <2>5, WatchedKept
  <2>9. Announcements'
    BY <1>1, <1>4, <2>4, <2>5, AnnouncementsKept
  <2>10. p = "ws" => \A x \in StepsOf(todo'[p]) : x.src = "WebSocket" /\ x.op # "end"
    <3>1. p = "ws" => \A x \in StepsOf(todo[p]) : x.src = "WebSocket" /\ x.op # "end"
      BY <1>1, UpFacts
    <3>2. \A x \in StepsOf(steps) : x.src = Head(todo[p]).src /\ x.op # "end"
      BY <2>1
    <3> QED BY <2>4, <3>1, <3>2
  <2> QED BY <1>1, <1>3, <1>4, <2>4, <2>6, <2>7, <2>8, <2>9, <2>10, Assembled
<1> QED BY <1>2, <1>5, <1>6

LEMMA RemoveFillsAny ==
    ASSUME NEW p \in Tasks, Next2(p, {"removeFills"}), RemoveFills(p, Head(todo[p]))
    PROVE  AnyInv'
<1>1. /\ Up(p) /\ AnyInv /\ Typed /\ Head(todo[p]).op = "removeFills"
  BY DEF Next2, Up
<1>2. /\ UNCHANGED <<order, cached, late, events, bufCancel, create, ws>> /\ Done(p) /\ bufFills' = <<>>
      /\ locked' = [locked EXCEPT !["fills"] = FALSE]
  BY DEF RemoveFills, orderVars, createVars, exVars
<1>4. /\ Does(p) = {"removeFills"} \cup OpsOf(todo'[p])
      /\ OpsOf(todo'[p]) \subseteq {"takeCancel", "end"}
      /\ InOrder(todo'[p]) /\ StepsOf(todo'[p]) \subseteq StepsOf(todo[p])
      /\ \A o \in Tasks : o # p => todo'[o] = todo[o]
  BY <1>1, <1>2, DoneTurn DEF Later
<1>5. Sound(Does(p), cached)
  BY <1>1, UpFacts
<1>6. cached' /\ Sound(OpsOf(todo'[p]), cached') /\ "takeCancel" \in OpsOf(todo'[p])
  BY <1>2, <1>4, <1>5 DEF Sound
<1>7. Locks'
  <2>1. ~locked'["fills"] /\ (locked'["cancel"] => locked["cancel"])
    BY <1>1, <1>2 DEF Typed, BufferTyped
  <2>2. \A o \in Tasks : o # p => OpsOf(todo'[o]) = Does(o)
    BY <1>4 DEF Does
  <2>3. "removeCancel" \notin Does(p)
    BY <1>4
  <2> QED BY <1>1, <2>1, <2>2, <2>3, Next1 DEF AnyInv, Locks
<1>8. Watched'
  BY <1>1, <1>2, <1>4, <1>6, WatchedKept
<1>9. Announcements'
  BY <1>1, <1>2, <1>4, AnnouncementsKept, SameAnnounced
<1>11. p = "ws" => \A s \in StepsOf(todo'[p]) : s.src = "WebSocket" /\ s.op # "end"
  BY <1>1, <1>4, SourcesKept
<1>12. (cached => cached') /\ UNCHANGED ws /\ (create' = "trades" => create = "trades")
  BY <1>2
<1> QED BY <1>1, <1>4, <1>6, <1>7, <1>8, <1>9, <1>11, <1>12, Assembled

LEMMA TakeCancelAny ==
    ASSUME NEW p \in Tasks, Next2(p, {"takeCancel"}), TakeCancel(p, Head(todo[p]))
    PROVE  AnyInv'
<1> DEFINE s == Head(todo[p])
           a == Do("cancelled", s.src)
           b == Do("removeCancel", s.src)
           steps == <<a, b>>
<1>1. /\ Up(p) /\ AnyInv /\ Typed /\ s.op = "takeCancel" /\ s.src \in Source
      /\ Does(p) = {"takeCancel"} \cup OpsOf(Tail(todo[p]))
      /\ OpsOf(Tail(todo[p])) \subseteq {"end"} /\ todo[p] # <<>> /\ InOrder(todo[p])
      /\ Sound(Does(p), cached)
  BY UpFacts DEF Next2, Up, Later
<1>2. /\ UNCHANGED <<order, cached, late, events, bufFills, bufCancel, create, ws>>
      /\ \/ ~bufCancel /\ Done(p) /\ UNCHANGED locked
         \/ Becomes(p, steps) /\ locked' = [locked EXCEPT !["cancel"] = TRUE]
  BY DEF TakeCancel, orderVars, createVars, exVars
<1>3. cached /\ cached'
  BY <1>1, <1>2 DEF Sound
<1>4. (cached => cached') /\ UNCHANGED ws /\ (create' = "trades" => create = "trades") /\ Announced' = Announced
  BY <1>2, SameAnnounced
<1>5. ASSUME ~bufCancel, Done(p), UNCHANGED locked PROVE AnyInv'
  <2>1. /\ Does(p) = {"takeCancel"} \cup OpsOf(todo'[p])
        /\ OpsOf(todo'[p]) \subseteq {"end"}
        /\ InOrder(todo'[p]) /\ StepsOf(todo'[p]) \subseteq StepsOf(todo[p])
        /\ \A o \in Tasks : o # p => todo'[o] = todo[o]
    BY <1>1, <1>5, DoneTurn DEF Later
  <2>2. Sound(OpsOf(todo'[p]), cached')
    BY <2>1 DEF Sound
  <2>3. Locks'
    BY <1>1, <1>5, <2>1, LocksKept
  <2>4. Watched'
    BY <1>1, <1>2, <1>5, <2>1, WatchedKept
  <2>5. Announcements'
    BY <1>1, <1>4, <2>1, AnnouncementsKept
  <2>6. p = "ws" => \A x \in StepsOf(todo'[p]) : x.src = "WebSocket" /\ x.op # "end"
    BY <1>1, <2>1, SourcesKept
  <2> QED BY <1>1, <1>3, <1>4, <2>1, <2>2, <2>3, <2>4, <2>5, <2>6, Assembled
<1>6. ASSUME Becomes(p, steps), locked' = [locked EXCEPT !["cancel"] = TRUE] PROVE AnyInv'
  <2>1. a \in GoodStep /\ b \in GoodStep
    BY <1>1, DoTyped DEF Ops, FillOps
  <2>2. a.op = "cancelled" /\ b.op = "removeCancel" /\ a.src = s.src /\ b.src = s.src
    BY DoFields
  <2> HIDE DEF a, b
  <2>3. /\ steps \in Seq(GoodStep) /\ InOrder(steps) /\ OpsOf(steps) = {"cancelled", "removeCancel"}
        /\ \A x \in StepsOf(steps) : x.src = s.src /\ x.op # "end"
    <3>1. b.op \in Later(a.op)
      BY <2>2 DEF Later
    <3>2. InOrder(steps) /\ OpsOf(steps) = {a.op, b.op} /\ StepsOf(steps) = {a, b}
      BY <3>1, ShortSteps
    <3>3. steps \in Seq(GoodStep)
      BY <2>1, Short
    <3> QED BY <2>2, <3>2, <3>3
  <2> HIDE DEF steps
  <2>4. \A o \in OpsOf(steps) : OpsOf(Tail(todo[p])) \subseteq Later(o)
    BY <1>1, <2>3 DEF Later
  <2>5. steps \in Seq(GoodStep)
    BY <2>3
  <2>6. PICK R : /\ R = OpsOf(Tail(todo[p]))
                 /\ OpsOf(todo'[p]) = OpsOf(steps) \cup R
                 /\ InOrder(todo'[p])
                 /\ StepsOf(todo'[p]) \subseteq StepsOf(steps) \cup StepsOf(todo[p])
                 /\ Head(todo[p]) \in StepsOf(todo[p])
                 /\ \A o \in Tasks : o # p => todo'[o] = todo[o]
    BY <1>1, <1>6, <2>3, <2>4, <2>5, Turn
  <2>7. /\ "removeCancel" \in OpsOf(todo'[p])
        /\ OpsOf(todo'[p]) \subseteq {"cancelled", "removeCancel", "end"}
    BY <1>1, <2>3, <2>6
  <2>8. Sound(OpsOf(todo'[p]), cached')
    BY <1>3, <2>7 DEF Sound
  <2>9. Locks'
    <3>1. locked'["fills"] => locked["fills"]
      BY <1>1, <1>6 DEF Typed, BufferTyped
    <3>2. \A o \in Tasks : o # p => OpsOf(todo'[o]) = Does(o)
      BY <2>6 DEF Does
    <3>3. "removeFills" \notin Does(p)
      BY <1>1
    <3> QED BY <1>1, <2>7, <3>1, <3>2, <3>3, Next1 DEF AnyInv, Locks
  <2>10. Watched'
    BY <1>1, <1>2, <2>6, <2>7, WatchedKept
  <2>11. Announcements'
    BY <1>1, <1>4, <2>6, <2>7, AnnouncementsKept
  <2>12. p = "ws" => \A x \in StepsOf(todo'[p]) : x.src = "WebSocket" /\ x.op # "end"
    <3>1. p = "ws" => \A x \in StepsOf(todo[p]) : x.src = "WebSocket" /\ x.op # "end"
      BY <1>1, UpFacts
    <3>2. \A x \in StepsOf(steps) : x.src = Head(todo[p]).src /\ x.op # "end"
      BY <2>3
    <3> QED BY <2>6, <3>1, <3>2
  <2> QED BY <1>1, <1>3, <1>4, <2>6, <2>8, <2>9, <2>10, <2>11, <2>12, Assembled
<1> QED BY <1>2, <1>5, <1>6

LEMMA RemoveCancelAny ==
    ASSUME NEW p \in Tasks, Next2(p, {"removeCancel"}), RemoveCancel(p, Head(todo[p]))
    PROVE  AnyInv'
<1>1. /\ Up(p) /\ AnyInv /\ Typed /\ Head(todo[p]).op = "removeCancel"
  BY DEF Next2, Up
<1>2. /\ UNCHANGED <<order, cached, late, events, bufFills, create, ws>> /\ Done(p) /\ bufCancel' = FALSE
      /\ locked' = [locked EXCEPT !["cancel"] = FALSE]
  BY DEF RemoveCancel, orderVars, createVars, exVars
<1>4. /\ Does(p) = {"removeCancel"} \cup OpsOf(todo'[p])
      /\ OpsOf(todo'[p]) \subseteq {"end"}
      /\ InOrder(todo'[p]) /\ StepsOf(todo'[p]) \subseteq StepsOf(todo[p])
      /\ \A o \in Tasks : o # p => todo'[o] = todo[o]
  BY <1>1, <1>2, DoneTurn DEF Later
<1>5. Sound(Does(p), cached)
  BY <1>1, UpFacts
<1>6. cached' /\ Sound(OpsOf(todo'[p]), cached')
  BY <1>2, <1>4, <1>5 DEF Sound
<1>7. Locks'
  <2>1. ~locked'["cancel"] /\ (locked'["fills"] => locked["fills"])
    BY <1>1, <1>2 DEF Typed, BufferTyped
  <2>2. \A o \in Tasks : o # p => OpsOf(todo'[o]) = Does(o)
    BY <1>4 DEF Does
  <2>3. "removeFills" \notin Does(p)
    BY <1>4
  <2> QED BY <1>1, <2>1, <2>2, <2>3, Next1 DEF AnyInv, Locks
<1>8. Watched'
  BY <1>1, <1>2, <1>4, <1>6, WatchedKept
<1>9. Announcements'
  BY <1>1, <1>2, <1>4, AnnouncementsKept, SameAnnounced
<1>11. p = "ws" => \A s \in StepsOf(todo'[p]) : s.src = "WebSocket" /\ s.op # "end"
  BY <1>1, <1>4, SourcesKept
<1>12. (cached => cached') /\ UNCHANGED ws /\ (create' = "trades" => create = "trades")
  BY <1>2
<1> QED BY <1>1, <1>4, <1>6, <1>7, <1>8, <1>9, <1>11, <1>12, Assembled

LEMMA TakeStepAny ==
    ASSUME Typed, AnyInv, NEW p \in Tasks, TakeStep(p)
    PROVE  AnyInv'
<1>1. Up(p)
  BY DEF Up, TakeStep
<1>2. \A ops : Head(todo[p]).op \in ops => Next2(p, ops)
  BY <1>1 DEF Next2
<1> DEFINE s == Head(todo[p])
<1>3. CASE s.op = "raise" /\ RaiseOrderCreated(p, s)
  BY <1>2, <1>3, RaiseAny
<1>4. CASE s.op \in {"succeeded", "answered"} /\ HandleCreateOrderSucceeded(p, s)
  BY <1>2, <1>4, SucceededAny
<1>5. CASE s.op = "setCreated" /\ SetCreated(p, s)
  BY <1>2, <1>5, SetCreatedAny
<1>6. CASE s.op = "insert" /\ InsertIntoCache(p, s)
  BY <1>2, <1>6, InsertAny
<1>7. CASE s.op = "announce" /\ Announce(p, s)
  BY <1>2, <1>7, AnnounceAny
<1>8. CASE s.op = "takeFills" /\ TakeFills(p, s)
  BY <1>2, <1>8, TakeFillsAny
<1>9. CASE s.op = "removeFills" /\ RemoveFills(p, s)
  BY <1>2, <1>9, RemoveFillsAny
<1>10. CASE s.op = "takeCancel" /\ TakeCancel(p, s)
  BY <1>2, <1>10, TakeCancelAny
<1>11. CASE s.op = "removeCancel" /\ RemoveCancel(p, s)
  BY <1>2, <1>11, RemoveCancelAny
<1>12. CASE s.op = "filled" /\ HandleOrderFilled(p, s)
  BY <1>2, <1>12, FilledAny
<1>13. CASE s.op = "bufferFill" /\ BufferFill(p, s)
  BY <1>2, <1>13, BufferFillAny
<1>14. CASE s.op = "addFill" /\ AddFill(p, s)
  BY <1>2, <1>14, AddFillAny
<1>15. CASE s.op = "complete" /\ CompleteIfFilled(p, s)
  BY <1>2, <1>15, CompleteAny
<1>16. CASE s.op = "cancelled" /\ HandleCancelOrderSucceeded(p, s)
  BY <1>2, <1>16, CancelledAny
<1>17. CASE s.op = "bufferCancel" /\ BufferCancel(p, s)
  BY <1>2, <1>17, BufferCancelAny
<1>18. CASE s.op = "setCanceled" /\ SetCanceled(p, s)
  BY <1>2, <1>18, SetCanceledAny
<1>19. CASE s.op = "failed" /\ HandleCreateOrderFailed(p, s)
  BY <1>2, <1>19, FailedAny
<1>20. CASE s.op = "setFailed" /\ SetFailed(p, s)
  BY <1>2, <1>20, SetFailedAny
<1>21. CASE s.op = "end" /\ EndCreateOrder(p, s)
  BY <1>2, <1>21, EndAny
<1> QED BY <1>3, <1>4, <1>5, <1>6, <1>7, <1>8, <1>9, <1>10, <1>11, <1>12, <1>13, <1>14, <1>15, <1>16,
           <1>17, <1>18, <1>19, <1>20, <1>21 DEF TakeStep

LEMMA DeliverAny ==
    ASSUME Typed, AnyInv, NEW topic \in Topics, Deliver(topic)
    PROVE  AnyInv'
<1> DEFINE x == Head(ws[topic])
<1>1. /\ todo["ws"] = <<>> /\ todo' = [todo EXCEPT !["ws"] = <<x>>]
      /\ ws' = [ws EXCEPT ![topic] = Tail(@)] /\ ws[topic] # <<>>
      /\ UNCHANGED <<order, cached, events, locked, late, bufFills, bufCancel, create>>
  BY DEF Deliver, orderVars, bufferVars, createVars
<1>2. todo \in [Tasks -> Seq(GoodStep)] /\ ws[topic] \in Seq(GoodStep) /\ DOMAIN ws = Topics
      /\ "ws" \in Tasks
  BY DEF Typed, TodoTyped, WsTyped, Tasks
<1>3. /\ x \in StepsOf(ws[topic])
      /\ \A k \in DOMAIN Tail(ws[topic]) : k + 1 \in DOMAIN ws[topic] /\ Tail(ws[topic])[k] = ws[topic][k + 1]
  BY <1>1, <1>2 DEF StepsOf
<1>4. \A t \in Topics : StepsOf(ws'[t]) \subseteq StepsOf(ws[t])
  <2>1. StepsOf(Tail(ws[topic])) \subseteq StepsOf(ws[topic])
    BY <1>3 DEF StepsOf
  <2> QED BY <1>1, <1>2, <2>1
<1>5. \A t \in Topics : \A s \in StepsOf(ws[t]) : s.src = "WebSocket" /\ s.op \in {"raise", "filled", "cancelled"}
  BY DEF AnyInv, Fallback
<1>6. x.src = "WebSocket" /\ x.op \in {"raise", "filled", "cancelled"}
  BY <1>3, <1>5
<1> HIDE DEF x
<1>7. todo'["ws"] = <<x>> /\ \A o \in Tasks : o # "ws" => todo'[o] = todo[o]
  BY <1>1, <1>2
<1>8. InOrder(<<x>>) /\ StepsOf(<<x>>) = {x} /\ OpsOf(<<x>>) = {x.op} /\ OpsOf(<<>>) = {} /\ Len(<<x>>) = 1
  BY ShortSteps
<1>9. OpsOf(todo'["ws"]) \cap Marks = Does("ws") \cap Marks
  BY <1>1, <1>6, <1>7, <1>8 DEF Does, Marks
<1>10. \A s \in StepsOf(todo'["ws"]) : s.src = "WebSocket" /\ s.op # "end"
  BY <1>6, <1>7, <1>8
<1>11. /\ InOrder(todo'["ws"]) /\ Len(todo'["ws"]) = 1 /\ order'.fallback = order.fallback
       /\ Announced' = Announced
  BY <1>1, <1>7, <1>8, SameAnnounced
<1>12. create' = "trades" => cached
  BY <1>1, TradesCached
<1>13. \A t \in Topics : \A s \in StepsOf(ws'[t]) : s.src = "WebSocket" /\ s.op \in {"raise", "filled", "cancelled"}
  BY <1>4, <1>5
<1>14. UNCHANGED <<cached, locked>> /\ (~late' /\ cached => ~late /\ UNCHANGED <<bufFills, bufCancel>>)
  BY <1>1
<1> QED BY <1>2, <1>7, <1>9, <1>10, <1>11, <1>12, <1>13, <1>14, Alike

(* The task of create_order() begins a handler that is not due to mark. *)
LEMMA BeginsAny ==
    ASSUME Typed, AnyInv, NEW q, InOrder(q), Begins(q), order'.fallback = order.fallback,
           create' = "trades" => cached,
           \A o \in OpsOf(q) : o \notin Marks, "filled" \in OpsOf(q) => cached
    PROVE  AnyInv'
<1>1. /\ todo["create"] = <<>> /\ todo' = [todo EXCEPT !["create"] = q]
      /\ UNCHANGED <<cached, events, locked, late, bufFills, bufCancel, ws>>
  BY DEF Begins, bufferVars, exVars
<1>2. todo \in [Tasks -> Seq(GoodStep)] /\ "create" \in Tasks
  BY DEF Typed, TodoTyped, Tasks
<1>3. todo'["create"] = q /\ \A o \in Tasks : o # "create" => todo'[o] = todo[o]
  BY <1>1, <1>2
<1>4. OpsOf(todo'["create"]) \cap Marks = Does("create") \cap Marks
  BY <1>1, <1>3, ShortSteps DEF Does
<1>5. \A t \in Topics : \A s \in StepsOf(ws'[t]) : s.src = "WebSocket" /\ s.op \in {"raise", "filled", "cancelled"}
  BY <1>1, SameWs DEF AnyInv, Fallback
<1>6. UNCHANGED <<cached, locked>> /\ (~late' /\ cached => ~late /\ UNCHANGED <<bufFills, bufCancel>>)
  BY <1>1
<1>7. /\ InOrder(todo'["create"]) /\ ("filled" \in OpsOf(todo'["create"]) => cached)
      /\ Announced' = Announced
  BY <1>1, <1>3, SameAnnounced
<1>8. "create" = "ws" => \A s \in StepsOf(todo'["create"]) : s.src = "WebSocket" /\ s.op # "end"
  OBVIOUS
<1>9. "filled" \in OpsOf(todo'["create"]) => cached \/ Len(todo'["create"]) = 1
  BY <1>7
<1>10. InOrder(todo'["create"]) /\ Announced' = Announced
  BY <1>3, <1>7
<1> QED BY <1>2, <1>3, <1>4, <1>5, <1>6, <1>8, <1>9, <1>10, Alike

(* Fallback: the steps that it brings are such. *)
LEMMA BeginsShort ==
    ASSUME Typed, AnyInv, order'.fallback = order.fallback, create' = "trades" => cached,
           \/ Begins(<<>>)
           \/ \E a : Begins(<<a>>) /\ a.op \in {"raise", "failed", "cancelled", "end"}
           \/ \E a, b : /\ Begins(<<a, b>>) /\ b.op = "end"
                        /\ a.op \in {"raise", "failed", "cancelled", "answered"}
    PROVE  AnyInv'
<1>1. CASE Begins(<<>>)
  <2> DEFINE q == <<>>
  <2>1. InOrder(q) /\ OpsOf(q) = {} /\ Begins(q)
    BY <1>1, ShortSteps
  <2> HIDE DEF q
  <2>2. (\A o \in OpsOf(q) : o \notin Marks) /\ ("filled" \in OpsOf(q) => cached)
    BY <2>1
  <2> QED BY <2>1, <2>2, BeginsAny
<1>2. ASSUME NEW a, Begins(<<a>>), a.op \in {"raise", "failed", "cancelled", "end"} PROVE AnyInv'
  <2> DEFINE q == <<a>>
  <2>1. InOrder(q) /\ OpsOf(q) = {a.op} /\ Begins(q)
    BY <1>2, ShortSteps
  <2> HIDE DEF q
  <2>2. (\A o \in OpsOf(q) : o \notin Marks) /\ ("filled" \in OpsOf(q) => cached)
    BY <1>2, <2>1 DEF Marks
  <2> QED BY <2>1, <2>2, BeginsAny
<1>3. ASSUME NEW a, NEW b, Begins(<<a, b>>), b.op = "end",
             a.op \in {"raise", "failed", "cancelled", "answered"}
      PROVE  AnyInv'
  <2> DEFINE q == <<a, b>>
  <2>1. InOrder(q) /\ OpsOf(q) = {a.op, b.op} /\ Begins(q)
    <3>1. b.op \in Later(a.op)
      BY <1>3 DEF Later
    <3> QED BY <1>3, <3>1, ShortSteps
  <2> HIDE DEF q
  <2>2. (\A o \in OpsOf(q) : o \notin Marks) /\ ("filled" \in OpsOf(q) => cached)
    BY <1>3, <2>1 DEF Marks
  <2> QED BY <2>1, <2>2, BeginsAny
<1> QED BY <1>1, <1>2, <1>3

LEMMA CreateTaskAny ==
    ASSUME Typed, AnyInv,
           \/ RequestAccepted \/ RequestFails \/ ReceiveCreated
           \/ AskOrderInfo \/ HandleOrderInfo \/ FallbackEnds
           \/ CallerCancels \/ MinutePasses \/ CreateOrderGivesUp
           \/ \E n \in 0..trades : CheckOrderFills(n)
    PROVE  AnyInv'
<1>0. create = "trades" => cached
  BY DEF AnyInv, Fallback
<1>1. CASE RequestAccepted \/ AskOrderInfo \/ CreateOrderGivesUp
  <2>1. Begins(<<>>) /\ UNCHANGED order /\ (create' = "trades" => create = "trades")
    BY <1>1 DEF RequestAccepted, AskOrderInfo, CreateOrderGivesUp, StopsSelecting
  <2> QED BY <1>0, <2>1, BeginsShort
<1>2. CASE RequestFails
  <2> DEFINE a == Do("failed", "WebSocket")
  <2>1. (Begins(<<>>) \/ Begins(<<a>>)) /\ UNCHANGED order /\ create' # "trades"
    BY <1>2 DEF RequestFails, StopsSelecting
  <2>2. a.op = "failed"
    BY DoFields
  <2> HIDE DEF a
  <2> QED BY <2>1, <2>2, BeginsShort
<1>3. CASE ReceiveCreated
  <2> DEFINE a == Do("answered", mail)
             b == Do("end", mail)
  <2>1. Begins(<<a, b>>) /\ UNCHANGED order /\ create' # "trades"
    BY <1>3 DEF ReceiveCreated, StopsSelecting
  <2>2. a.op = "answered" /\ b.op = "end"
    BY DoFields
  <2> HIDE DEF a, b
  <2> QED BY <2>1, <2>2, BeginsShort
<1>4. CASE HandleOrderInfo
  <2> DEFINE a == Do("failed", "RestFallback")
             b == Do("end", "RestFallback")
  <2>1. a.op = "failed" /\ b.op = "end"
    BY DoFields
  <2>2. order'.fallback = order.fallback /\ (create' = "trades" => cached)
    BY <1>0, <1>4 DEF HandleOrderInfo, Typed, OrderTyped, OrderType
  <2>3. \/ Begins(<<>>) \/ Begins(<<a>>)
        \/ /\ info \notin {"none", "asked", "error", "NotFound"}
           /\ Begins(InfoSteps) \/ Begins(InfoSteps \o <<b>>)
    BY <1>4 DEF HandleOrderInfo
  <2>4. CASE Begins(<<>>)
    BY <2>2, <2>4, BeginsShort
  <2>6. CASE /\ info \notin {"none", "asked", "error", "NotFound"}
             /\ Begins(InfoSteps) \/ Begins(InfoSteps \o <<b>>)
    <3>1. InfoList(InfoSteps)
      BY <2>6, InfoStepsFacts DEF Typed
    <3>2. \/ InfoSteps = <<>> /\ InfoSteps \o <<b>> = <<b>>
          \/ \E x \in {"failed", "cancelled", "raise"} :
                InfoSteps = <<Do(x, "RestFallback")>> /\ InfoSteps \o <<b>> = <<Do(x, "RestFallback"), b>>
      BY <3>1, InfoListFacts
    <3> HIDE DEF a, b
    <3>3. CASE InfoSteps = <<>> /\ InfoSteps \o <<b>> = <<b>>
      BY <2>1, <2>2, <2>6, <3>3, BeginsShort
    <3>4. ASSUME NEW x \in {"failed", "cancelled", "raise"},
                 InfoSteps = <<Do(x, "RestFallback")>>, InfoSteps \o <<b>> = <<Do(x, "RestFallback"), b>>
          PROVE  AnyInv'
      <4> DEFINE c == Do(x, "RestFallback")
      <4>1. c.op \in {"failed", "cancelled", "raise"}
        BY DoFields
      <4>2. Begins(<<c>>) \/ Begins(<<c, b>>)
        BY <2>6, <3>4
      <4> HIDE DEF c
      <4> QED BY <2>1, <2>2, <4>1, <4>2, BeginsShort
    <3> QED BY <3>2, <3>3, <3>4
  <2>5. CASE Begins(<<a>>)
    <3> HIDE DEF a
    <3> QED BY <2>1, <2>2, <2>5, BeginsShort
  <2> QED BY <2>3, <2>4, <2>5, <2>6
<1>5. CASE FallbackEnds
  <2> DEFINE b == Do("end", "RestFallback")
  <2>1. (Begins(<<>>) \/ Begins(<<b>>)) /\ UNCHANGED order /\ create' # "trades"
    BY <1>5 DEF FallbackEnds, StopsSelecting
  <2>2. b.op = "end"
    BY DoFields
  <2> HIDE DEF b
  <2> QED BY <2>1, <2>2, BeginsShort
<1>6. CASE CallerCancels \/ MinutePasses
  <2>1. UNCHANGED <<todo, order, cached, locked, late, bufFills, bufCancel, events, ws, create>>
    BY <1>6 DEF CallerCancels, MinutePasses, orderVars, bufferVars, exVars
  <2> QED BY <1>0, <2>1, SameAny
<1>7. ASSUME NEW n \in 0..trades, CheckOrderFills(n) PROVE AnyInv'
  <2> DEFINE q == [k \in 1..n |-> DoFill("filled", [trade |-> k, total |-> FALSE], "RestFallback")]
  <2>1. Begins(q) /\ UNCHANGED order /\ create = "trades" /\ create' # "trades"
    BY <1>7 DEF CheckOrderFills
  <2>2. DOMAIN q = 1..n /\ \A k \in 1..n : q[k].op = "filled"
    BY DoFields
  <2> HIDE DEF q
  <2>3. \A o \in OpsOf(q) : o = "filled"
    BY <2>2 DEF OpsOf, StepsOf
  <2>4. InOrder(q)
    BY <2>2 DEF InOrder, Later
  <2>5. \A o \in OpsOf(q) : o \notin Marks
    BY <2>3 DEF Marks
  <2> QED BY <1>0, <2>1, <2>4, <2>5, BeginsAny
<1> QED BY <1>1, <1>2, <1>3, <1>4, <1>5, <1>6, <1>7

LEMMA ExchangeAny ==
    ASSUME Typed, AnyInv,
           \/ ExchangeDecides \/ ExchangeTrades \/ ExchangeCancels
           \/ ExchangeInforms(InfoOf(ex)) \/ ExchangeInforms({"error"})
    PROVE  AnyInv'
<1>1. UNCHANGED <<order, cached, events, locked, late, bufFills, bufCancel, create, todo>>
  BY DEF ExchangeDecides, ExchangeTrades, ExchangeCancels, ExchangeInforms, ExchangeSteps, bufferVars, orderVars
<1>2. {"orders", "executions"} \subseteq Topics
  BY DEF Topics
<1>3. \A t \in Topics : \A s \in StepsOf(ws'[t]) :
        s \in StepsOf(ws[t]) \/ (s.src = "WebSocket" /\ s.op \in {"raise", "filled", "cancelled"})
  <2> DEFINE a == Do("raise", "WebSocket")
             b == DoFill("filled", [trade |-> trades', total |-> TRUE], "WebSocket")
             c == Do("cancelled", "WebSocket")
  <2>1. UNCHANGED ws \/ Publish("orders", a) \/ Publish("executions", b) \/ Publish("orders", c)
    BY DEF ExchangeDecides, ExchangeTrades, ExchangeCancels, ExchangeInforms, exVars
  <2>2. \A m \in {a, b, c} : m.src = "WebSocket" /\ m.op \in {"raise", "filled", "cancelled"}
    BY DoFields
  <2> HIDE DEF a, b, c
  <2>3. CASE UNCHANGED ws
    BY <2>3, SameWs
  <2>4. CASE Publish("orders", a)
    <3>1. \A t \in Topics : \A s \in StepsOf(ws'[t]) : s \in StepsOf(ws[t]) \/ s = a
      BY <1>2, <2>4, Published
    <3> QED BY <2>2, <3>1
  <2>5. CASE Publish("executions", b)
    <3>1. \A t \in Topics : \A s \in StepsOf(ws'[t]) : s \in StepsOf(ws[t]) \/ s = b
      BY <1>2, <2>5, Published
    <3> QED BY <2>2, <3>1
  <2>6. CASE Publish("orders", c)
    <3>1. \A t \in Topics : \A s \in StepsOf(ws'[t]) : s \in StepsOf(ws[t]) \/ s = c
      BY <1>2, <2>6, Published
    <3> QED BY <2>2, <3>1
  <2> QED BY <2>1, <2>3, <2>4, <2>5, <2>6
<1>4. \A t \in Topics : \A s \in StepsOf(ws'[t]) : s.src = "WebSocket" /\ s.op \in {"raise", "filled", "cancelled"}
  BY <1>3 DEF AnyInv, Fallback
<1>5. /\ Announced' = Announced /\ \A p \in Tasks : todo'[p] = todo[p] /\ OpsOf(todo'[p]) = Does(p)
      /\ order'.fallback = order.fallback
  BY <1>1, SameAnnounced DEF Does
<1>6. "ws" \in Tasks /\ Handler("ws") /\ (\A s \in StepsOf(todo["ws"]) : s.src = "WebSocket" /\ s.op # "end")
  BY DEF AnyInv, Fallback, Tasks
<1>7. InOrder(todo'["ws"]) /\ ("filled" \in OpsOf(todo'["ws"]) => cached \/ Len(todo'["ws"]) = 1)
      /\ \A s \in StepsOf(todo'["ws"]) : s.src = "WebSocket" /\ s.op # "end"
  BY <1>5, <1>6 DEF Handler
<1>8. UNCHANGED <<cached, locked>> /\ (~late' /\ cached => ~late /\ UNCHANGED <<bufFills, bufCancel>>)
  BY <1>1
<1>9. create' = "trades" => cached
  BY <1>1, TradesCached
<1> QED BY <1>4, <1>5, <1>6, <1>7, <1>8, <1>9, Alike

LEMMA AnyInitially == Init => AnyInv
<1> SUFFICES ASSUME Init PROVE AnyInv
  OBVIOUS
<1>1. todo = [p \in Tasks |-> <<>>] /\ ws = [t \in Topics |-> <<>>]
  BY DEF Init
<1>2. \A p \in Tasks : Does(p) = {} /\ InOrder(todo[p]) /\ StepsOf(todo[p]) = {}
  BY <1>1, ShortSteps DEF Does
<1>3. \A p \in Tasks : Handler(p)
  BY <1>2 DEF Handler, Sound
<1>4. Fallback
  <2>1. \A t \in Topics : StepsOf(ws[t]) = {}
    BY <1>1, ShortSteps
  <2> QED BY <1>2, <2>1 DEF Init, Fallback, Tasks
<1>5. Locks /\ Watched
  BY DEF Init, Locks, Watched
<1>6. Announcements
  <2>1. Announced = {}
    <3>1. Len(events) = 0
      BY DEF Init
    <3> QED BY <3>1 DEF Announced
  <2>2. Cardinality(Announced) = 0 /\ One("create") = 0 /\ One("ws") = 0
    BY <1>2, <2>1, FS_EmptySet DEF One, Tasks
  <2> QED BY <2>1, <2>2 DEF Announcements
<1> QED BY <1>3, <1>4, <1>5, <1>6 DEF AnyInv

LEMMA AnyStep ==
    ASSUME Typed, AnyInv, [Next]_vars
    PROVE  AnyInv'
<1>1. CASE UNCHANGED vars
  <2>1. UNCHANGED <<todo, order, cached, locked, late, bufFills, bufCancel, events, ws, create>>
    BY <1>1 DEF vars, orderVars, bufferVars, createVars, exVars
  <2>2. create' = "trades" => cached
    BY <2>1, TradesCached
  <2> QED BY <2>1, <2>2, SameAny
<1> QED BY <1>1, TakeStepAny, DeliverAny, CreateTaskAny, ExchangeAny DEF Next

LEMMA AnyAlways == Spec => [](Typed /\ AnyInv)
<1>1. Init => Typed /\ AnyInv
  BY TypedInitially, AnyInitially
<1>2. Typed /\ AnyInv /\ [Next]_vars => (Typed /\ AnyInv)'
  BY TypedStep, AnyStep
<1> QED BY <1>1, <1>2, PTL DEF Spec

(* However the handlers of the two tasks overlap, they never all wait for    *)
(* the locks of the buffers: while a handler runs, one goes on.              *)
THEOREM HandlersGoOnHolds == Spec => []HandlersGoOn
<1>1. ASSUME Typed, AnyInv PROVE HandlersGoOn
  <2> SUFFICES ASSUME NEW p \in Tasks, todo[p] # <<>>,
                      \A o \in Tasks : todo[o] # <<>> => Waits(o)
               PROVE  FALSE
    BY DEF HandlersGoOn
  <2>1. \A o \in Tasks : todo[o] # <<>> =>
          /\ Does(o) = {Head(todo[o]).op} \cup OpsOf(Tail(todo[o]))
          /\ OpsOf(Tail(todo[o])) \subseteq Later(Head(todo[o]).op)
    BY <1>1, UpFacts DEF Up
  <2>2. Waits(p)
    OBVIOUS
  <2>3. PICK o \in Tasks : "removeFills" \in Does(o) \/ "removeCancel" \in Does(o)
    BY <1>1, <2>2 DEF Waits, AnyInv, Locks
  <2>4. todo[o] # <<>>
    <3>1. OpsOf(<<>>) = {}
      BY ShortSteps
    <3> QED BY <2>3, <3>1 DEF Does
  <2>5. Head(todo[o]).op \in {"takeFills", "bufferFill", "takeCancel", "bufferCancel"}
    BY <2>4 DEF Waits
  <2>6. Later(Head(todo[o]).op) \cap {"removeFills", "removeCancel"} = {}
    BY <2>5 DEF Later
  <2> QED BY <2>1, <2>3, <2>4, <2>5, <2>6
<1> QED BY <1>1, AnyAlways, PTL

(* However the handlers overlap: when they are done and the order is in the  *)
(* cache, nothing is left in a buffer, unless a handler that had not found   *)
(* it there put it into the buffer when it was.                              *)
THEOREM NothingStrandedHolds == Spec => []NothingStranded
<1>1. ASSUME Typed, AnyInv PROVE NothingStranded
  <2> SUFFICES ASSUME ~late, Quiet, cached PROVE bufFills = <<>> /\ ~bufCancel
    BY DEF NothingStranded
  <2>1. \A p \in Tasks : Does(p) = {}
    BY ShortSteps DEF Quiet, Does
  <2> QED BY <1>1, <2>1 DEF AnyInv, Watched
<1> QED BY <1>1, AnyAlways, PTL

(* However the handlers overlap, and however often the creation is reported, *)
(* it is announced at most twice: by the two tasks.                          *)
THEOREM CreatedTwiceAtMostHolds == Spec => []CreatedTwiceAtMost
<1>1. ASSUME Typed, AnyInv PROVE CreatedTwiceAtMost
  <2>1. Cardinality(Announced) \in Nat /\ One("create") \in {0, 1} /\ One("ws") \in {0, 1}
    BY <1>1, AnnouncedFinite DEF One
  <2> QED BY <1>1, <2>1 DEF AnyInv, Announcements, CreatedTwiceAtMost
<1> QED BY <1>1, AnyAlways, PTL

-----------------------------------------------------------------------------
(* What an order says of itself, however handlers overlap: it leaves         *)
(* not_finished when it is finished and not without its last event, and its  *)
(* fills are trades of the exchange, each of which was added to what is      *)
(* filled.                                                                   *)

LastEvents == {"CreateOrderFailed", "OrderCompleted", "CancelOrderSucceeded"}

Ended(e) == \E k \in 1..Len(e) : e[k] \in LastEvents

LeftInv == (IsFinished(order.status) => ~tracked) /\ (~tracked => Ended(events))

(* The trades that a buffer or a message names have happened. *)
TradedInv ==
    /\ order.fills \subseteq 1..trades /\ Cardinality(order.fills) <= order.filled
    /\ \A s \in StepsLeft : Known(s)
    /\ \A t \in Topics : \A s \in StepsOf(ws[t]) : Known(s)
    /\ \A k \in DOMAIN bufFills : bufFills[k].trade \in 1..trades

LEMMA Longer ==
    ASSUME NEW e \in Seq(OrderEventType), NEW x \in OrderEventType
    PROVE  (Ended(e) \/ x \in LastEvents) => Ended(Append(e, x))
<1> DEFINE f == Append(e, x)
<1>1. /\ Len(f) = Len(e) + 1 /\ f[Len(e) + 1] = x /\ Len(e) \in Nat
      /\ \A k \in 1..Len(e) : f[k] = e[k]
  OBVIOUS
<1>2. Len(e) + 1 \in 1..Len(f) /\ \A k \in 1..Len(e) : k \in 1..Len(f)
  BY <1>1
<1> HIDE DEF f
<1>3. Ended(e) \/ x \in LastEvents => Ended(f)
  BY <1>1, <1>2 DEF Ended
<1> QED BY <1>3 DEF f

LEMMA LeftKept ==
    ASSUME LeftInv, order'.status = order.status, UNCHANGED <<tracked, events>>
    PROVE  LeftInv'
BY DEF LeftInv, Ended

LEMMA NextEvent ==
    ASSUME Typed, LeftInv, NEW x \in OrderEventType, events' = Append(events, x),
           IsFinished(order'.status) => ~tracked', tracked' \/ ~tracked \/ x \in LastEvents
    PROVE  LeftInv'
<1>1. events \in Seq(OrderEventType)
  BY DEF Typed, OrderTyped
<1>2. Ended(events) \/ x \in LastEvents => Ended(events')
  BY <1>1, Longer
<1> QED BY <1>2 DEF LeftInv, Ended

LEMMA TakeStepLeft ==
    ASSUME Typed, LeftInv, NEW p \in Tasks, TakeStep(p)
    PROVE  LeftInv'
<1> DEFINE s == Head(todo[p])
<1>1. events \in Seq(OrderEventType) /\ order \in OrderType /\ tracked \in BOOLEAN
  BY DEF Typed, OrderTyped
<1>2. CASE \/ s.op = "raise" /\ RaiseOrderCreated(p, s)
           \/ s.op \in {"succeeded", "answered"} /\ HandleCreateOrderSucceeded(p, s)
           \/ s.op = "insert" /\ InsertIntoCache(p, s)
           \/ s.op = "takeFills" /\ TakeFills(p, s)
           \/ s.op = "removeFills" /\ RemoveFills(p, s)
           \/ s.op = "takeCancel" /\ TakeCancel(p, s)
           \/ s.op = "removeCancel" /\ RemoveCancel(p, s)
           \/ s.op = "filled" /\ HandleOrderFilled(p, s)
           \/ s.op = "bufferFill" /\ BufferFill(p, s)
           \/ s.op = "addFill" /\ AddFill(p, s)
           \/ s.op = "cancelled" /\ HandleCancelOrderSucceeded(p, s)
           \/ s.op = "bufferCancel" /\ BufferCancel(p, s)
           \/ s.op = "failed" /\ HandleCreateOrderFailed(p, s)
           \/ s.op = "end" /\ EndCreateOrder(p, s)
  <2>1. UNCHANGED <<tracked, events>>
    BY <1>2 DEF RaiseOrderCreated, HandleCreateOrderSucceeded, InsertIntoCache, TakeFills, RemoveFills,
      TakeCancel, RemoveCancel, HandleOrderFilled, BufferFill, AddFill, HandleCancelOrderSucceeded,
      BufferCancel, HandleCreateOrderFailed, EndCreateOrder, Panics, orderVars
  <2>2. order' \in {order, [order EXCEPT !.id = TRUE],
                    [order EXCEPT !.fills = @ \cup {s.fill.trade}, !.filled = @ + 1]}
    BY <1>2 DEF RaiseOrderCreated, HandleCreateOrderSucceeded, InsertIntoCache, TakeFills, RemoveFills,
      TakeCancel, RemoveCancel, HandleOrderFilled, BufferFill, AddFill, HandleCancelOrderSucceeded,
      BufferCancel, HandleCreateOrderFailed, EndCreateOrder, Panics, orderVars
  <2>3. order'.status = order.status
    BY <1>1, <2>2 DEF OrderType
  <2> QED BY <2>1, <2>3, LeftKept
<1>3. CASE s.op = "setCreated" /\ SetCreated(p, s)
  <2>1. order'.status = "Created" /\ UNCHANGED <<tracked, events>>
    BY <1>1, <1>3 DEF SetCreated, OrderType
  <2> QED BY <2>1 DEF LeftInv, IsFinished, Ended
<1>4. CASE s.op = "announce" /\ Announce(p, s)
  <2>1. /\ events' = Append(events, "CreateOrderSucceeded") /\ UNCHANGED order
        /\ tracked' = (tracked /\ ~IsFinished(order.status))
    BY <1>4 DEF Announce, Send
  <2>2. IsFinished(order.status) => ~tracked
    BY DEF LeftInv
  <2>3. (IsFinished(order'.status) => ~tracked') /\ (tracked' \/ ~tracked)
    BY <2>1, <2>2
  <2> QED BY <2>1, <2>3, NextEvent DEF OrderEventType
<1>5. CASE s.op = "complete" /\ CompleteIfFilled(p, s)
  <2>1. CASE UNCHANGED <<order, tracked, events>>
    BY <2>1, LeftKept
  <2>2. CASE Send("OrderFilled", order.status) /\ UNCHANGED order
    <3>1. /\ events' = Append(events, "OrderFilled")
          /\ tracked' = (tracked /\ ~IsFinished(order.status))
      BY <2>2 DEF Send
    <3>2. IsFinished(order.status) => ~tracked
      BY DEF LeftInv
    <3>3. (IsFinished(order'.status) => ~tracked') /\ (tracked' \/ ~tracked)
      BY <2>2, <3>1, <3>2
    <3> QED BY <3>1, <3>3, NextEvent DEF OrderEventType
  <2>3. CASE events' = events \o <<"OrderFilled", "OrderCompleted">> /\ tracked' = FALSE
    <3>1. events' = Append(Append(events, "OrderFilled"), "OrderCompleted")
      BY <1>1, <2>3, AppendTwo
    <3>2. Append(events, "OrderFilled") \in Seq(OrderEventType)
      BY <1>1, AppendTyped DEF OrderEventType
    <3>3. Ended(events')
      BY <3>1, <3>2, Longer DEF OrderEventType, LastEvents
    <3> QED BY <2>3, <3>3 DEF LeftInv, Ended
  <2> QED BY <1>5, <2>1, <2>2, <2>3 DEF CompleteIfFilled, Panics, orderVars
<1>6. CASE s.op = "setCanceled" /\ SetCanceled(p, s)
  <2>1. events' = Append(events, "CancelOrderSucceeded") /\ ~tracked'
    BY <1>6 DEF SetCanceled, Send, IsFinished
  <2> QED BY <2>1, NextEvent DEF OrderEventType, LastEvents
<1>7. CASE s.op = "setFailed" /\ SetFailed(p, s)
  <2>1. events' = Append(events, "CreateOrderFailed") /\ ~tracked'
    BY <1>7 DEF SetFailed, Send, IsFinished
  <2> QED BY <2>1, NextEvent DEF OrderEventType, LastEvents
<1> QED BY <1>2, <1>3, <1>4, <1>5, <1>6, <1>7 DEF TakeStep

LEMMA LeftStep ==
    ASSUME Typed, LeftInv, [Next]_vars
    PROVE  LeftInv'
<1>1. ASSUME NEW p \in Tasks, TakeStep(p) PROVE LeftInv'
  BY <1>1, TakeStepLeft
<1>2. CASE HandleOrderInfo
  <2>1. UNCHANGED <<tracked, events>> /\ order' \in {order, [order EXCEPT !.id = TRUE]}
    BY <1>2 DEF HandleOrderInfo, Begins
  <2>2. order'.status = order.status
    BY <2>1 DEF Typed, OrderTyped, OrderType
  <2> QED BY <2>1, <2>2, LeftKept
<1>3. CASE \/ UNCHANGED vars \/ \E topic \in Topics : Deliver(topic)
           \/ CallerCancels \/ MinutePasses
           \/ ExchangeDecides \/ ExchangeTrades \/ ExchangeCancels
           \/ ExchangeInforms(InfoOf(ex)) \/ ExchangeInforms({"error"})
  <2>1. UNCHANGED <<order, tracked, events>>
    BY <1>3 DEF vars, orderVars, Deliver, CallerCancels, MinutePasses, ExchangeDecides, ExchangeTrades,
      ExchangeCancels, ExchangeInforms, ExchangeSteps
  <2> QED BY <2>1, LeftKept
<1>4. CASE \/ RequestAccepted \/ RequestFails \/ ReceiveCreated
           \/ AskOrderInfo \/ FallbackEnds \/ CreateOrderGivesUp
           \/ \E n \in 0..trades : CheckOrderFills(n)
  <2>1. UNCHANGED <<order, tracked, events>>
    BY <1>4 DEF RequestAccepted, RequestFails, ReceiveCreated, AskOrderInfo, FallbackEnds,
      CreateOrderGivesUp, CheckOrderFills, Begins
  <2> QED BY <2>1, LeftKept
<1> QED BY <1>1, <1>2, <1>3, <1>4 DEF Next

LEMMA LeftAlways == Spec => []LeftInv
<1>1. Init => LeftInv
  BY DEF Init, LeftInv, IsFinished
<1>2. Typed /\ LeftInv /\ [Next]_vars => LeftInv'
  BY LeftStep
<1> QED BY <1>1, <1>2, TypedAlways, PTL DEF Spec

(* However the handlers overlap: an order that is finished is not in         *)
(* not_finished, and it leaves not_finished with its last event.  As long as *)
(* they have not met, it is there until it is finished.                      *)
THEOREM TrackedUntilFinishedHolds == Spec => []TrackedUntilFinished
<1>1. LeftInv /\ UnlessOverlapped => TrackedUntilFinished
  BY DEF LeftInv, Ended, LastEvents, UnlessOverlapped, SerialInv, Story, TrackedUntilFinished
<1> QED BY <1>1, LeftAlways, SerialAlways, PTL

(* What task p has left is what it had, and what it put in its place. *)
LEMMA Mixed ==
    ASSUME NEW q \in Seq(GoodStep), q # <<>>, NEW steps \in Seq(GoodStep)
    PROVE  /\ Head(q) \in StepsOf(q)
           /\ StepsOf(steps \o Tail(q)) \subseteq StepsOf(steps) \cup StepsOf(q)
<1> DEFINE r == Tail(q)
           c == steps \o r
<1>1. /\ Len(q) \in Nat /\ 1 \in DOMAIN q /\ Head(q) = q[1] /\ r \in Seq(GoodStep)
      /\ \A k \in 1..Len(r) : k + 1 \in DOMAIN q /\ r[k] = q[k + 1]
  OBVIOUS
<1>2. /\ Len(steps) \in Nat /\ Len(r) \in Nat /\ DOMAIN steps = 1..Len(steps)
  BY <1>1
<1> HIDE DEF r
<1>3. /\ DOMAIN c = 1..(Len(steps) + Len(r))
      /\ \A k \in 1..Len(steps) : c[k] = steps[k]
      /\ \A k \in 1..Len(r) : c[Len(steps) + k] = r[k]
  <2>1. steps \in Seq(GoodStep) /\ r \in Seq(GoodStep)
    BY <1>1
  <2> QED BY <2>1, Joined
<1> HIDE DEF c
<1>4. \A k \in DOMAIN c : k \in DOMAIN steps \/ (k - Len(steps) \in 1..Len(r) /\ k = Len(steps) + (k - Len(steps)))
  BY <1>2, <1>3
<1>5. \A k \in DOMAIN c : c[k] \in StepsOf(steps) \cup StepsOf(q)
  <2> SUFFICES ASSUME NEW k \in DOMAIN c PROVE c[k] \in StepsOf(steps) \cup StepsOf(q)
    OBVIOUS
  <2>1. CASE k \in DOMAIN steps
    BY <1>2, <1>3, <2>1 DEF StepsOf
  <2>2. CASE k - Len(steps) \in 1..Len(r) /\ k = Len(steps) + (k - Len(steps))
    <3>1. PICK i \in 1..Len(r) : k = Len(steps) + i
      BY <2>2
    <3>2. c[k] = q[i + 1] /\ i + 1 \in DOMAIN q
      BY <1>1, <1>3, <3>1
    <3> QED BY <3>2 DEF StepsOf
  <2> QED BY <1>4, <2>1, <2>2
<1>6. StepsOf(c) \subseteq StepsOf(steps) \cup StepsOf(q)
  BY <1>5 DEF StepsOf
<1>7. Head(q) \in StepsOf(q)
  BY <1>1 DEF StepsOf
<1> QED BY <1>6, <1>7 DEF c, r

LEMMA StepsLeftOf ==
    ASSUME NEW p \in Tasks, NEW q, \A o \in Tasks : o # p => todo'[o] = todo[o], todo'[p] = q
    PROVE  StepsLeft' \subseteq StepsLeft \cup StepsOf(q)
<1>1. StepsLeft' = StepsOf(todo'["create"]) \cup StepsOf(todo'["ws"])
  BY DEF StepsLeft, StepsOf
<1> QED BY <1>1 DEF StepsLeft, Tasks

(* A step adds no fill, or the one it is about, or those of the buffer. *)
Expected(s, x) ==
    \/ x.op \notin FillOps
    \/ s.op = "filled" /\ x.fill = s.fill
    \/ \E k \in DOMAIN bufFills : x.fill = bufFills[k]

AllExpected(s, left) == \A x \in left : x \in StepsLeft \/ Expected(s, x)

LEMMA Replaced ==
    ASSUME Typed, NEW p \in Tasks, todo[p] # <<>>, NEW steps \in Seq(GoodStep), Becomes(p, steps)
    PROVE  StepsLeft' \subseteq StepsLeft \cup StepsOf(steps)
<1>1. todo \in [Tasks -> Seq(GoodStep)] /\ todo[p] \in Seq(GoodStep)
  BY DEF Typed, TodoTyped
<1> DEFINE q == steps \o Tail(todo[p])
<1>2. todo' = [todo EXCEPT ![p] = q]
  BY DEF Becomes
<1>3. StepsOf(q) \subseteq StepsOf(steps) \cup StepsOf(todo[p])
  BY <1>1, Mixed
<1> HIDE DEF q
<1>4. todo'[p] = q /\ \A o \in Tasks : o # p => todo'[o] = todo[o]
  BY <1>1, <1>2
<1>5. StepsLeft' \subseteq StepsLeft \cup StepsOf(q)
  BY <1>4, StepsLeftOf
<1>6. StepsOf(todo[p]) \subseteq StepsLeft
  BY DEF StepsLeft, Tasks
<1> QED BY <1>3, <1>5, <1>6

LEMMA TakeStepExpected ==
    ASSUME Typed, NEW p \in Tasks, TakeStep(p)
    PROVE  /\ Head(todo[p]) \in StepsLeft
           /\ AllExpected(Head(todo[p]), StepsLeft')
<1> DEFINE s == Head(todo[p])
           c == CreationSteps(s.src)
           t == Taken(s.src)
<1>1. /\ todo[p] # <<>> /\ todo \in [Tasks -> Seq(GoodStep)] /\ todo[p] \in Seq(GoodStep)
      /\ s.src \in Source /\ (s.op \in FillOps => s.fill \in Fill)
  BY StepFacts DEF TakeStep, Typed, TodoTyped
<1>2. s \in StepsLeft
  <2>1. <<>> \in Seq(GoodStep)
    BY Short
  <2>2. s \in StepsOf(todo[p])
    BY <1>1, <2>1, Mixed
  <2> QED BY <2>2 DEF StepsLeft, Tasks
<1> SUFFICES AllExpected(s, StepsLeft')
  BY <1>2
<1>3. ASSUME UNCHANGED todo PROVE AllExpected(s, StepsLeft')
  BY <1>3 DEF StepsLeft, StepsOf, AllExpected
<1>4. ASSUME NEW steps \in Seq(GoodStep), \A x \in StepsOf(steps) : Expected(s, x), Becomes(p, steps)
      PROVE  AllExpected(s, StepsLeft')
  BY <1>1, <1>4, Replaced DEF AllExpected
<1>5. ASSUME Done(p) \/ Becomes(p, <<>>) PROVE AllExpected(s, StepsLeft')
  <2> DEFINE q == <<>>
  <2>1. q \in Seq(GoodStep) /\ StepsOf(q) = {} /\ Becomes(p, q)
    BY <1>5, ShortSteps, Short DEF Done
  <2> HIDE DEF q
  <2> QED BY <1>4, <2>1
<1>6. ASSUME NEW a \in GoodStep, Expected(s, a), Becomes(p, <<a>>)
      PROVE  AllExpected(s, StepsLeft')
  <2> DEFINE q == <<a>>
  <2>1. q \in Seq(GoodStep) /\ StepsOf(q) = {a} /\ Becomes(p, q)
    BY <1>6, ShortSteps, Short
  <2> HIDE DEF q
  <2>2. \A x \in StepsOf(q) : Expected(s, x)
    BY <1>6, <2>1
  <2> QED BY <1>4, <2>1, <2>2
<1>7. ASSUME NEW a \in GoodStep, NEW b \in GoodStep, Expected(s, a), Expected(s, b), Becomes(p, <<a, b>>)
      PROVE  AllExpected(s, StepsLeft')
  <2> DEFINE q == <<a, b>>
  <2>1. q \in Seq(GoodStep) /\ StepsOf(q) = {a, b} /\ Becomes(p, q)
    BY <1>7, ShortSteps, Short
  <2> HIDE DEF q
  <2>2. \A x \in StepsOf(q) : Expected(s, x)
    BY <1>7, <2>1
  <2> QED BY <1>4, <2>1, <2>2
<1>8. ASSUME todo' = [todo EXCEPT ![p] = <<>>] PROVE AllExpected(s, StepsLeft')
  <2> DEFINE q == <<>>
  <2>1. StepsOf(q) = {} /\ todo'[p] = q /\ \A o \in Tasks : o # p => todo'[o] = todo[o]
    BY <1>1, <1>8, ShortSteps
  <2> HIDE DEF q
  <2>2. StepsLeft' \subseteq StepsLeft \cup StepsOf(q)
    BY <2>1, StepsLeftOf
  <2> QED BY <2>1, <2>2 DEF AllExpected
<1>9. ASSUME Becomes(p, c) PROVE AllExpected(s, StepsLeft')
  <2>1. \A x \in StepsOf(c) : x.op \notin FillOps
    BY CreationStepsFacts DEF FillOps
  <2>2. c \in Seq(GoodStep)
    BY <1>1, CreationStepsTyped
  <2> HIDE DEF c
  <2>3. \A x \in StepsOf(c) : Expected(s, x)
    BY <2>1 DEF Expected
  <2> QED BY <1>4, <1>9, <2>2, <2>3
<1>10. ASSUME Becomes(p, t) PROVE AllExpected(s, StepsLeft')
  <2>1. /\ t \in Seq(GoodStep)
        /\ \A x \in StepsOf(t) : x.op = "removeFills" \/ (x.op = "filled" /\ \E k \in 1..Len(bufFills) : x.fill = bufFills[k])
    BY <1>1, TakenFacts
  <2> HIDE DEF t
  <2>2. DOMAIN bufFills = 1..Len(bufFills)
    BY DEF Typed, BufferTyped
  <2>3. \A x \in StepsOf(t) : Expected(s, x)
    BY <2>1, <2>2 DEF Expected, FillOps
  <2> QED BY <1>4, <1>10, <2>1, <2>3
<1>11. \A o \in Ops \ FillOps : Do(o, s.src) \in GoodStep /\ Expected(s, Do(o, s.src))
  BY <1>1, DoTyped, DoFields DEF Expected
<1>12. \A o \in FillOps : s.op = "filled" => DoFill(o, s.fill, s.src) \in GoodStep /\ Expected(s, DoFill(o, s.fill, s.src))
  <2>1. s.op = "filled" => s.fill \in Fill
    BY <1>1 DEF FillOps
  <2> QED BY <1>1, <2>1, DoTyped, DoFields DEF Expected
<1> HIDE DEF c, t
<1>13. CASE s.op = "raise" /\ RaiseOrderCreated(p, s)
  <2>1. Done(p) \/ Becomes(p, <<Do("succeeded", s.src)>>)
    BY <1>13 DEF RaiseOrderCreated
  <2>2. "succeeded" \in Ops \ FillOps
    BY DEF Ops, FillOps
  <2> QED BY <1>5, <1>6, <1>11, <2>1, <2>2
<1>14. CASE s.op \in {"succeeded", "answered"} /\ HandleCreateOrderSucceeded(p, s)
  <2>1. todo' = [todo EXCEPT ![p] = <<>>] \/ Becomes(p, <<>>) \/ Becomes(p, c)
    BY <1>14 DEF HandleCreateOrderSucceeded, c
  <2> QED BY <1>5, <1>8, <1>9, <2>1
<1>15. CASE s.op = "takeFills" /\ TakeFills(p, s)
  <2>1. Done(p) \/ Becomes(p, t)
    BY <1>15 DEF TakeFills, Taken, t
  <2> QED BY <1>5, <1>10, <2>1
<1>16. CASE s.op = "takeCancel" /\ TakeCancel(p, s)
  <2>1. Done(p) \/ Becomes(p, <<Do("cancelled", s.src), Do("removeCancel", s.src)>>)
    BY <1>16 DEF TakeCancel
  <2>2. {"cancelled", "removeCancel"} \subseteq Ops \ FillOps
    BY DEF Ops, FillOps
  <2> QED BY <1>5, <1>7, <1>11, <2>1, <2>2
<1>17. CASE s.op = "filled" /\ HandleOrderFilled(p, s)
  <2>1. \/ UNCHANGED todo \/ Becomes(p, <<>>)
        \/ Becomes(p, <<DoFill("bufferFill", s.fill, s.src), Do("raise", s.src)>>)
        \/ Becomes(p, <<DoFill("addFill", s.fill, s.src), Do("complete", s.src)>>)
    BY <1>17 DEF HandleOrderFilled, Panics
  <2>2. {"raise", "complete"} \subseteq Ops \ FillOps /\ {"bufferFill", "addFill"} \subseteq FillOps
    BY DEF Ops, FillOps
  <2> QED BY <1>3, <1>5, <1>7, <1>11, <1>12, <1>17, <2>1, <2>2
<1>18. CASE s.op = "cancelled" /\ HandleCancelOrderSucceeded(p, s)
  <2>1. \/ Becomes(p, <<>>) \/ Becomes(p, <<Do("setCanceled", s.src)>>)
        \/ Becomes(p, <<Do("bufferCancel", s.src), Do("raise", s.src)>>)
    BY <1>18 DEF HandleCancelOrderSucceeded
  <2>2. {"raise", "setCanceled", "bufferCancel"} \subseteq Ops \ FillOps
    BY DEF Ops, FillOps
  <2> QED BY <1>5, <1>6, <1>7, <1>11, <2>1, <2>2
<1>19. CASE s.op = "failed" /\ HandleCreateOrderFailed(p, s)
  <2>1. Becomes(p, <<>>) \/ Becomes(p, <<Do("setFailed", s.src)>>)
    BY <1>19 DEF HandleCreateOrderFailed
  <2>2. "setFailed" \in Ops \ FillOps
    BY DEF Ops, FillOps
  <2> QED BY <1>5, <1>6, <1>11, <2>1, <2>2
<1>20. CASE \/ s.op = "setCreated" /\ SetCreated(p, s)
            \/ s.op = "insert" /\ InsertIntoCache(p, s)
            \/ s.op = "announce" /\ Announce(p, s)
            \/ s.op = "removeFills" /\ RemoveFills(p, s)
            \/ s.op = "removeCancel" /\ RemoveCancel(p, s)
            \/ s.op = "bufferFill" /\ BufferFill(p, s)
            \/ s.op = "addFill" /\ AddFill(p, s)
            \/ s.op = "bufferCancel" /\ BufferCancel(p, s)
            \/ s.op = "setCanceled" /\ SetCanceled(p, s)
            \/ s.op = "setFailed" /\ SetFailed(p, s)
            \/ s.op = "end" /\ EndCreateOrder(p, s)
  <2>1. Done(p)
    BY <1>20 DEF SetCreated, InsertIntoCache, Announce, RemoveFills, RemoveCancel, BufferFill, AddFill,
      BufferCancel, SetCanceled, SetFailed, EndCreateOrder
  <2> QED BY <1>5, <2>1
<1>21. CASE s.op = "complete" /\ CompleteIfFilled(p, s)
  <2>1. UNCHANGED todo \/ Done(p)
    BY <1>21 DEF CompleteIfFilled, Panics
  <2> QED BY <1>3, <1>5, <2>1
<1> QED BY <1>13, <1>14, <1>15, <1>16, <1>17, <1>18, <1>19, <1>20, <1>21 DEF TakeStep

LEMMA ExpectedKnown ==
    ASSUME TradedInv, NEW s \in StepsLeft, NEW left, AllExpected(s, left)
    PROVE  \A x \in left : Known(x)
<1> SUFFICES ASSUME NEW x \in left, x.op \in FillOps PROVE x.fill.trade \in 1..trades
  BY DEF Known
<1>1. x \in StepsLeft \/ Expected(s, x)
  BY DEF AllExpected
<1>2. CASE x \in StepsLeft
  BY <1>2 DEF TradedInv, Known
<1>3. CASE s.op = "filled" /\ x.fill = s.fill
  BY <1>3 DEF TradedInv, Known, FillOps
<1>4. CASE \E k \in DOMAIN bufFills : x.fill = bufFills[k]
  BY <1>4 DEF TradedInv
<1> QED BY <1>1, <1>2, <1>3, <1>4 DEF Expected

LEMMA TradedKept ==
    ASSUME TradedInv, UNCHANGED <<bufFills, ws, trades>>, order'.fills = order.fills,
           order'.filled = order.filled, \A x \in StepsLeft' : Known(x)
    PROVE  TradedInv'
<1>1. \A x : Known(x)' = Known(x)
  BY DEF Known
<1>2. \A t \in Topics : StepsOf(ws'[t]) = StepsOf(ws[t])
  BY SameWs
<1>3. \A x \in StepsLeft' : Known(x)'
  BY <1>1
<1>4. \A t \in Topics : \A x \in StepsOf(ws'[t]) : Known(x)'
  BY <1>1, <1>2 DEF TradedInv
<1>5. order'.fills \subseteq 1..trades' /\ Cardinality(order'.fills) <= order'.filled
  BY DEF TradedInv
<1>6. \A k \in DOMAIN bufFills' : bufFills'[k].trade \in 1..trades'
  BY DEF TradedInv
<1> QED BY <1>3, <1>4, <1>5, <1>6 DEF TradedInv

LEMMA AddFillTraded ==
    ASSUME Typed, TradedInv, NEW s \in StepsLeft, s.op = "addFill", \A x \in StepsLeft' : Known(x),
           UNCHANGED <<bufFills, ws, trades>>,
           order' = [order EXCEPT !.fills = @ \cup {s.fill.trade}, !.filled = @ + 1]
    PROVE  TradedInv'
<1>1. order \in OrderType /\ trades \in Nat
  BY AmountAssumption DEF Typed, OrderTyped, ExTyped
<1>2. order'.fills = order.fills \cup {s.fill.trade} /\ order'.filled = order.filled + 1 /\ order.filled \in Nat
  BY <1>1 DEF OrderType
<1>3. s.fill.trade \in 1..trades /\ order.fills \subseteq 1..trades /\ Cardinality(order.fills) <= order.filled
  BY DEF TradedInv, Known, FillOps
<1>4. IsFiniteSet(order.fills)
  <2>1. IsFiniteSet(1..trades)
    BY <1>1, FS_Interval
  <2> QED BY <1>3, <2>1, FS_Subset
<1>5. /\ Cardinality(order.fills) \in Nat
      /\ Cardinality(order'.fills) \in {Cardinality(order.fills), Cardinality(order.fills) + 1}
  <2>1. Cardinality(order.fills) \in Nat
    BY <1>4, FS_CardinalityType
  <2>2. CASE s.fill.trade \in order.fills
    <3>1. order'.fills = order.fills
      BY <1>2, <2>2
    <3> QED BY <2>1, <3>1
  <2>3. CASE s.fill.trade \notin order.fills
    BY <1>2, <1>4, <2>1, <2>3, FS_AddElement
  <2> QED BY <2>2, <2>3
<1>6. order'.fills \subseteq 1..trades' /\ Cardinality(order'.fills) <= order'.filled
  BY <1>2, <1>3, <1>5
<1>7. \A x : Known(x)' = Known(x)
  BY DEF Known
<1>8. \A t \in Topics : StepsOf(ws'[t]) = StepsOf(ws[t])
  BY SameWs
<1>9. \A t \in Topics : \A x \in StepsOf(ws'[t]) : Known(x)'
  BY <1>7, <1>8 DEF TradedInv
<1>10. \A k \in DOMAIN bufFills' : bufFills'[k].trade \in 1..trades'
  BY DEF TradedInv
<1> QED BY <1>6, <1>7, <1>9, <1>10 DEF TradedInv

LEMMA BuffersTraded ==
    ASSUME Typed, TradedInv, \A x \in StepsLeft' : Known(x), UNCHANGED <<order, ws, trades>>,
           NEW f \in Fill, f.trade \in 1..trades, bufFills' = <<>> \/ bufFills' = Append(bufFills, f)
    PROVE  TradedInv'
<1>1. \A k \in DOMAIN bufFills' : bufFills'[k].trade \in 1..trades'
  <2>1. bufFills \in Seq(Fill) /\ \A k \in DOMAIN bufFills : bufFills[k].trade \in 1..trades
    BY DEF Typed, BufferTyped, TradedInv
  <2>2. \A k \in DOMAIN Append(bufFills, f) : Append(bufFills, f)[k] = f \/
          (k \in DOMAIN bufFills /\ Append(bufFills, f)[k] = bufFills[k])
    BY <2>1
  <2> QED BY <2>1, <2>2
<1>2. \A x : Known(x)' = Known(x)
  BY DEF Known
<1>3. \A t \in Topics : StepsOf(ws'[t]) = StepsOf(ws[t])
  BY SameWs
<1>4. \A t \in Topics : \A x \in StepsOf(ws'[t]) : Known(x)'
  BY <1>2, <1>3 DEF TradedInv
<1>5. order'.fills \subseteq 1..trades' /\ Cardinality(order'.fills) <= order'.filled
  BY DEF TradedInv
<1> QED BY <1>1, <1>2, <1>4, <1>5 DEF TradedInv

LEMMA TakeStepTraded ==
    ASSUME Typed, TradedInv, NEW p \in Tasks, TakeStep(p)
    PROVE  TradedInv'
<1> DEFINE s == Head(todo[p])
<1>1. s \in StepsLeft /\ AllExpected(s, StepsLeft')
  BY TakeStepExpected
<1>2. /\ s.op \in FillOps => s.fill \in Fill
      /\ order \in OrderType
  BY StepFacts DEF TakeStep, Typed, TodoTyped, OrderTyped
<1> HIDE DEF s
<1>3. (\A x \in StepsLeft' : Known(x)) /\ Known(s)
  BY <1>1, ExpectedKnown DEF TradedInv
<1> USE DEF s
<1>4. CASE s.op = "addFill" /\ AddFill(p, s)
  <2>1. /\ order' = [order EXCEPT !.fills = @ \cup {s.fill.trade}, !.filled = @ + 1]
        /\ UNCHANGED <<bufFills, ws, trades>>
    BY <1>4 DEF AddFill, bufferVars, exVars
  <2> HIDE DEF s
  <2> QED BY <1>1, <1>3, <1>4, <2>1, AddFillTraded
<1>5. CASE s.op = "bufferFill" /\ BufferFill(p, s)
  <2>1. bufFills' = Append(bufFills, s.fill) /\ UNCHANGED <<order, ws, trades>>
    BY <1>5 DEF BufferFill, orderVars, exVars
  <2> HIDE DEF s
  <2>2. s.fill \in Fill /\ s.fill.trade \in 1..trades
    BY <1>2, <1>3, <1>5 DEF Known, FillOps
  <2> QED BY <1>3, <2>1, <2>2, BuffersTraded
<1>6. CASE s.op = "removeFills" /\ RemoveFills(p, s)
  <2>1. bufFills' = <<>> /\ UNCHANGED <<order, ws, trades>>
    BY <1>6 DEF RemoveFills, orderVars, exVars
  <2>2. \A k \in DOMAIN bufFills' : bufFills'[k].trade \in 1..trades'
    BY <2>1
  <2>3. \A x : Known(x)' = Known(x)
    BY <2>1 DEF Known
  <2>4. \A t \in Topics : StepsOf(ws'[t]) = StepsOf(ws[t])
    BY <2>1, SameWs
  <2>5. order'.fills \subseteq 1..trades' /\ Cardinality(order'.fills) <= order'.filled
    BY <2>1 DEF TradedInv
  <2>6. \A t \in Topics : \A x \in StepsOf(ws'[t]) : Known(x)'
    BY <2>3, <2>4 DEF TradedInv
  <2> HIDE DEF s
  <2> QED BY <1>3, <2>2, <2>3, <2>5, <2>6 DEF TradedInv
<1>7. CASE \/ s.op = "raise" /\ RaiseOrderCreated(p, s)
           \/ s.op \in {"succeeded", "answered"} /\ HandleCreateOrderSucceeded(p, s)
           \/ s.op = "setCreated" /\ SetCreated(p, s)
           \/ s.op = "insert" /\ InsertIntoCache(p, s)
           \/ s.op = "announce" /\ Announce(p, s)
           \/ s.op = "takeFills" /\ TakeFills(p, s)
           \/ s.op = "takeCancel" /\ TakeCancel(p, s)
           \/ s.op = "removeCancel" /\ RemoveCancel(p, s)
           \/ s.op = "filled" /\ HandleOrderFilled(p, s)
           \/ s.op = "complete" /\ CompleteIfFilled(p, s)
           \/ s.op = "cancelled" /\ HandleCancelOrderSucceeded(p, s)
           \/ s.op = "bufferCancel" /\ BufferCancel(p, s)
           \/ s.op = "setCanceled" /\ SetCanceled(p, s)
           \/ s.op = "failed" /\ HandleCreateOrderFailed(p, s)
           \/ s.op = "setFailed" /\ SetFailed(p, s)
           \/ s.op = "end" /\ EndCreateOrder(p, s)
  <2>1. UNCHANGED <<bufFills, ws, trades>>
    BY <1>7 DEF RaiseOrderCreated, HandleCreateOrderSucceeded, SetCreated, InsertIntoCache, Announce, TakeFills,
      TakeCancel, RemoveCancel, HandleOrderFilled, CompleteIfFilled, HandleCancelOrderSucceeded,
      BufferCancel, SetCanceled, HandleCreateOrderFailed, SetFailed, EndCreateOrder, Panics, bufferVars, exVars
  <2>2. order' \in {order, [order EXCEPT !.id = TRUE],
                    [order EXCEPT !.status = "Created", !.fallback = (s.src = "RestFallback")],
                    [order EXCEPT !.status = "Completed"],
                    [order EXCEPT !.status = "Canceled", !.cancelRaised = TRUE],
                    [order EXCEPT !.status = "FailedToCreate"]}
    BY <1>7 DEF RaiseOrderCreated, HandleCreateOrderSucceeded, SetCreated, InsertIntoCache, Announce, TakeFills,
      TakeCancel, RemoveCancel, HandleOrderFilled, CompleteIfFilled, HandleCancelOrderSucceeded,
      BufferCancel, SetCanceled, HandleCreateOrderFailed, SetFailed, EndCreateOrder, Panics, orderVars
  <2> HIDE DEF s
  <2>3. order'.fills = order.fills /\ order'.filled = order.filled
    BY <1>2, <2>2 DEF OrderType
  <2> QED BY <1>3, <2>1, <2>3, TradedKept
<1> QED BY <1>4, <1>5, <1>6, <1>7 DEF TakeStep

LEMMA DeliverTraded ==
    ASSUME Typed, TradedInv, NEW topic \in Topics, Deliver(topic)
    PROVE  TradedInv'
<1> DEFINE x == Head(ws[topic])
<1>1. /\ todo' = [todo EXCEPT !["ws"] = <<x>>] /\ ws[topic] # <<>>
      /\ ws' = [ws EXCEPT ![topic] = Tail(@)] /\ UNCHANGED <<order, bufFills, trades>>
  BY DEF Deliver, orderVars, bufferVars
<1>2. /\ ws[topic] \in Seq(GoodStep) /\ DOMAIN ws = Topics
      /\ todo \in [Tasks -> Seq(GoodStep)] /\ "ws" \in Tasks
  BY DEF Typed, TodoTyped, WsTyped, Tasks
<1>3. /\ x \in StepsOf(ws[topic])
      /\ \A k \in DOMAIN Tail(ws[topic]) : k + 1 \in DOMAIN ws[topic] /\ Tail(ws[topic])[k] = ws[topic][k + 1]
  BY <1>1, <1>2 DEF StepsOf
<1>4. StepsOf(Tail(ws[topic])) \subseteq StepsOf(ws[topic])
  BY <1>3 DEF StepsOf
<1>5. \A t \in Topics : StepsOf(ws'[t]) \subseteq StepsOf(ws[t])
  BY <1>1, <1>2, <1>4
<1>6. Known(x)
  BY <1>3 DEF TradedInv
<1> HIDE DEF x
<1>7. StepsLeft' \subseteq StepsLeft \cup {x}
  <2> DEFINE q == <<x>>
  <2>1. StepsOf(q) = {x}
    BY ShortSteps
  <2>2. todo'["ws"] = q /\ \A o \in Tasks : o # "ws" => todo'[o] = todo[o]
    BY <1>1, <1>2
  <2> HIDE DEF q
  <2>3. StepsLeft' \subseteq StepsLeft \cup StepsOf(q)
    BY <1>2, <2>2, StepsLeftOf
  <2> QED BY <2>1, <2>3
<1>8. \A s : Known(s)' = Known(s)
  BY <1>1 DEF Known
<1>9. \A s \in StepsLeft' : Known(s)'
  BY <1>6, <1>7, <1>8 DEF TradedInv
<1>10. \A t \in Topics : \A s \in StepsOf(ws'[t]) : Known(s)'
  BY <1>5, <1>8 DEF TradedInv
<1>11. order'.fills \subseteq 1..trades' /\ Cardinality(order'.fills) <= order'.filled
  BY <1>1 DEF TradedInv
<1>12. \A k \in DOMAIN bufFills' : bufFills'[k].trade \in 1..trades'
  BY <1>1 DEF TradedInv
<1> QED BY <1>9, <1>10, <1>11, <1>12 DEF TradedInv

LEMMA BeginsTraded ==
    ASSUME Typed, TradedInv, NEW q, Begins(q), \A s \in StepsOf(q) : Known(s),
           order'.fills = order.fills, order'.filled = order.filled
    PROVE  TradedInv'
<1>1. todo' = [todo EXCEPT !["create"] = q] /\ UNCHANGED <<bufFills, ws, trades>>
  BY DEF Begins, bufferVars, exVars
<1>2. todo \in [Tasks -> Seq(GoodStep)] /\ "create" \in Tasks
  BY DEF Typed, TodoTyped, Tasks
<1>3. todo'["create"] = q /\ \A o \in Tasks : o # "create" => todo'[o] = todo[o]
  BY <1>1, <1>2
<1>4. StepsLeft' \subseteq StepsLeft \cup StepsOf(q)
  BY <1>2, <1>3, StepsLeftOf
<1>5. \A s \in StepsLeft' : Known(s)
  BY <1>4 DEF TradedInv
<1> QED BY <1>1, <1>5, TradedKept

LEMMA BeginsNoFill ==
    ASSUME Typed, TradedInv, order'.fills = order.fills, order'.filled = order.filled,
           NEW a, NEW b, a.op \notin FillOps, b.op \notin FillOps,
           Begins(<<>>) \/ Begins(<<a>>) \/ Begins(<<b>>) \/ Begins(<<a, b>>)
    PROVE  TradedInv'
<1>1. PICK q : Begins(q) /\ StepsOf(q) \subseteq {a, b}
  <2>1. ASSUME NEW q, Begins(q), StepsOf(q) \subseteq {a, b}
        PROVE  \E r : Begins(r) /\ StepsOf(r) \subseteq {a, b}
    BY <2>1
  <2>2. StepsOf(<<>>) = {} /\ StepsOf(<<a>>) = {a} /\ StepsOf(<<b>>) = {b} /\ StepsOf(<<a, b>>) = {a, b}
    BY ShortSteps
  <2>3. StepsOf(<<>>) \subseteq {a, b} /\ StepsOf(<<a>>) \subseteq {a, b} /\ StepsOf(<<b>>) \subseteq {a, b}
        /\ StepsOf(<<a, b>>) \subseteq {a, b}
    BY <2>2
  <2> QED BY <2>1, <2>3, Zenon
<1>2. \A s \in StepsOf(q) : Known(s)
  BY <1>1 DEF Known
<1> QED BY <1>1, <1>2, BeginsTraded

LEMMA CreateTaskTraded ==
    ASSUME Typed, TradedInv,
           \/ RequestAccepted \/ RequestFails \/ ReceiveCreated
           \/ AskOrderInfo \/ HandleOrderInfo \/ FallbackEnds
           \/ CallerCancels \/ MinutePasses \/ CreateOrderGivesUp
           \/ \E n \in 0..trades : CheckOrderFills(n)
    PROVE  TradedInv'
<1>0. {"failed", "cancelled", "raise", "answered", "end"} \cap FillOps = {}
  BY DEF FillOps
<1>1. CASE RequestAccepted \/ RequestFails \/ AskOrderInfo \/ CreateOrderGivesUp \/ FallbackEnds
  <2> DEFINE a == Do("failed", "WebSocket")
             b == Do("end", "RestFallback")
  <2>1. (Begins(<<>>) \/ Begins(<<a>>) \/ Begins(<<b>>)) /\ UNCHANGED order
    BY <1>1 DEF RequestAccepted, RequestFails, AskOrderInfo, CreateOrderGivesUp, FallbackEnds
  <2>2. a.op \notin FillOps /\ b.op \notin FillOps
    BY <1>0, DoFields
  <2> HIDE DEF a, b
  <2> QED BY <2>1, <2>2, BeginsNoFill
<1>2. CASE ReceiveCreated
  <2> DEFINE a == Do("answered", mail)
             b == Do("end", mail)
  <2>1. Begins(<<a, b>>) /\ UNCHANGED order
    BY <1>2 DEF ReceiveCreated
  <2>2. a.op \notin FillOps /\ b.op \notin FillOps
    BY <1>0, DoFields
  <2> HIDE DEF a, b
  <2> QED BY <2>1, <2>2, BeginsNoFill
<1>3. CASE HandleOrderInfo
  <2> DEFINE a == Do("failed", "RestFallback")
             b == Do("end", "RestFallback")
  <2>1. a.op \notin FillOps /\ b.op \notin FillOps
    BY <1>0, DoFields
  <2>2. order'.fills = order.fills /\ order'.filled = order.filled
    BY <1>3 DEF HandleOrderInfo, Typed, OrderTyped, OrderType
  <2>3. \/ Begins(<<>>) \/ Begins(<<a>>)
        \/ /\ info \notin {"none", "asked", "error", "NotFound"}
           /\ Begins(InfoSteps) \/ Begins(InfoSteps \o <<b>>)
    BY <1>3 DEF HandleOrderInfo
  <2>4. CASE Begins(<<>>) \/ Begins(<<a>>)
    <3> HIDE DEF a, b
    <3> QED BY <2>1, <2>2, <2>4, BeginsNoFill
  <2>5. CASE /\ info \notin {"none", "asked", "error", "NotFound"}
             /\ Begins(InfoSteps) \/ Begins(InfoSteps \o <<b>>)
    <3>1. InfoList(InfoSteps)
      BY <2>5, InfoStepsFacts DEF Typed
    <3>2. \/ InfoSteps = <<>> /\ InfoSteps \o <<b>> = <<b>>
          \/ \E x \in {"failed", "cancelled", "raise"} :
                InfoSteps = <<Do(x, "RestFallback")>> /\ InfoSteps \o <<b>> = <<Do(x, "RestFallback"), b>>
      BY <3>1, InfoListFacts
    <3> HIDE DEF a, b
    <3>3. CASE InfoSteps = <<>> /\ InfoSteps \o <<b>> = <<b>>
      BY <2>1, <2>2, <2>5, <3>3, BeginsNoFill
    <3>4. ASSUME NEW x \in {"failed", "cancelled", "raise"},
                 InfoSteps = <<Do(x, "RestFallback")>>, InfoSteps \o <<b>> = <<Do(x, "RestFallback"), b>>
          PROVE  TradedInv'
      <4> DEFINE c == Do(x, "RestFallback")
      <4>1. c.op \notin FillOps
        BY <1>0, DoFields
      <4>2. Begins(<<c>>) \/ Begins(<<c, b>>)
        BY <2>5, <3>4
      <4> HIDE DEF c
      <4> QED BY <2>1, <2>2, <4>1, <4>2, BeginsNoFill
    <3> QED BY <3>2, <3>3, <3>4
  <2> QED BY <2>3, <2>4, <2>5
<1>4. CASE CallerCancels \/ MinutePasses
  <2>1. UNCHANGED <<order, bufFills, ws, trades, todo>>
    BY <1>4 DEF CallerCancels, MinutePasses, orderVars, bufferVars, exVars
  <2>2. StepsLeft' = StepsLeft
    BY <2>1 DEF StepsLeft, StepsOf
  <2>3. \A x \in StepsLeft' : Known(x)
    BY <2>2 DEF TradedInv
  <2> QED BY <2>1, <2>3, TradedKept
<1>5. ASSUME NEW n \in 0..trades, CheckOrderFills(n) PROVE TradedInv'
  <2> DEFINE q == [k \in 1..n |-> DoFill("filled", [trade |-> k, total |-> FALSE], "RestFallback")]
  <2>1. Begins(q) /\ UNCHANGED order
    BY <1>5 DEF CheckOrderFills
  <2>2. n \in Nat /\ trades \in Nat /\ n <= trades
    BY AmountAssumption DEF Typed, ExTyped
  <2>3. DOMAIN q = 1..n /\ \A k \in 1..n : q[k].fill = [trade |-> k, total |-> FALSE]
    BY <2>2, DoFields
  <2> HIDE DEF q
  <2>4. \A k \in 1..n : [trade |-> k, total |-> FALSE].trade = k
    OBVIOUS
  <2>5. \A k \in 1..n : k \in 1..trades
    BY <2>2
  <2>6. \A k \in 1..n : q[k].fill.trade \in 1..trades
    BY <2>3, <2>4, <2>5, Zenon
  <2>7. \A s \in StepsOf(q) : Known(s)
    BY <2>3, <2>6 DEF StepsOf, Known
  <2> QED BY <2>1, <2>7, BeginsTraded
<1> QED BY <1>1, <1>2, <1>3, <1>4, <1>5

LEMMA ExchangeTraded ==
    ASSUME Typed, TradedInv,
           \/ ExchangeDecides \/ ExchangeTrades \/ ExchangeCancels
           \/ ExchangeInforms(InfoOf(ex)) \/ ExchangeInforms({"error"})
    PROVE  TradedInv'
<1>1. UNCHANGED <<order, bufFills, todo>>
  BY DEF ExchangeDecides, ExchangeTrades, ExchangeCancels, ExchangeInforms, ExchangeSteps, bufferVars, orderVars
<1>2. {"orders", "executions"} \subseteq Topics /\ trades \in Nat
  BY AmountAssumption DEF Topics, Typed, ExTyped
<1> DEFINE a == Do("raise", "WebSocket")
           f == [trade |-> trades', total |-> TRUE]
           b == DoFill("filled", f, "WebSocket")
           c == Do("cancelled", "WebSocket")
<1>3. \/ trades' = trades /\ (UNCHANGED ws \/ Publish("orders", a) \/ Publish("orders", c))
      \/ trades' = trades + 1 /\ Publish("executions", b)
  BY DEF ExchangeDecides, ExchangeTrades, ExchangeCancels, ExchangeInforms, exVars
<1>4. f.trade = trades' /\ b.fill = f /\ a.op \notin FillOps /\ c.op \notin FillOps
  BY DoFields DEF FillOps
<1> HIDE DEF a, b, c, f
<1>5. trades' \in Nat /\ 1..trades \subseteq 1..trades' /\ (trades' # trades => trades' \in 1..trades')
  BY <1>2, <1>3
<1>6. \A s : Known(s) => Known(s)'
  BY <1>5 DEF Known
<1>7. \A t \in Topics : \A s \in StepsOf(ws'[t]) : s \in StepsOf(ws[t]) \/ Known(s)'
  <2>1. CASE UNCHANGED ws
    BY <2>1, SameWs
  <2>2. CASE Publish("orders", a)
    <3>1. \A t \in Topics : \A s \in StepsOf(ws'[t]) : s \in StepsOf(ws[t]) \/ s = a
      BY <1>2, <2>2, Published
    <3> QED BY <1>4, <3>1 DEF Known
  <2>3. CASE Publish("orders", c)
    <3>1. \A t \in Topics : \A s \in StepsOf(ws'[t]) : s \in StepsOf(ws[t]) \/ s = c
      BY <1>2, <2>3, Published
    <3> QED BY <1>4, <3>1 DEF Known
  <2>4. CASE trades' = trades + 1 /\ Publish("executions", b)
    <3>1. \A t \in Topics : \A s \in StepsOf(ws'[t]) : s \in StepsOf(ws[t]) \/ s = b
      BY <1>2, <2>4, Published
    <3>2. trades' \in 1..trades'
      BY <1>2, <1>5, <2>4
    <3>3. b.fill.trade \in 1..trades'
      BY <1>4, <3>2
    <3> QED BY <3>1, <3>3 DEF Known
  <2> QED BY <1>3, <2>1, <2>2, <2>3, <2>4
<1>8. \A t \in Topics : \A s \in StepsOf(ws'[t]) : Known(s)'
  BY <1>6, <1>7 DEF TradedInv
<1>9. StepsLeft' = StepsLeft
  BY <1>1 DEF StepsLeft, StepsOf
<1>10. \A s \in StepsLeft' : Known(s)'
  BY <1>6, <1>9 DEF TradedInv
<1>11. order'.fills \subseteq 1..trades' /\ Cardinality(order'.fills) <= order'.filled
  BY <1>1, <1>5 DEF TradedInv
<1>12. \A k \in DOMAIN bufFills' : bufFills'[k].trade \in 1..trades'
  BY <1>1, <1>5 DEF TradedInv
<1> QED BY <1>8, <1>10, <1>11, <1>12 DEF TradedInv

LEMMA TradedAlways == Spec => [](Typed /\ TradedInv)
<1>1. ASSUME Init PROVE TradedInv
  <2>1. todo = [p \in Tasks |-> <<>>] /\ ws = [t \in Topics |-> <<>>]
    BY <1>1 DEF Init
  <2>2. StepsLeft = {}
    BY <2>1, Idle
  <2>3. \A t \in Topics : StepsOf(ws[t]) = {}
    BY <2>1, ShortSteps
  <2>4. order.fills = {} /\ order.filled = 0 /\ Cardinality({}) = 0 /\ DOMAIN bufFills = {}
    BY <1>1, FS_EmptySet DEF Init
  <2> QED BY <2>2, <2>3, <2>4 DEF TradedInv
<1>2. ASSUME Typed, TradedInv, UNCHANGED vars PROVE TradedInv'
  <2>1. UNCHANGED <<order, bufFills, ws, trades, todo>>
    BY <1>2 DEF vars, orderVars, bufferVars, exVars
  <2>2. StepsLeft' = StepsLeft
    BY <2>1 DEF StepsLeft, StepsOf
  <2>3. \A x \in StepsLeft' : Known(x)
    BY <1>2, <2>2 DEF TradedInv
  <2> QED BY <1>2, <2>1, <2>3, TradedKept
<1>3. Typed /\ TradedInv /\ [Next]_vars => (Typed /\ TradedInv)'
  BY <1>2, TypedStep, TakeStepTraded, DeliverTraded, CreateTaskTraded, ExchangeTraded DEF Next
<1> QED BY <1>1, <1>3, TypedInitially, PTL DEF Spec

(* However the handlers overlap: what fills the order are trades of the      *)
(* exchange, each counted.  As long as they have not met, each counts once,  *)
(* and the order is Completed when and only when all of it is filled.        *)
THEOREM FillsCountOnceHolds == Spec => []FillsCountOnce
<1>1. ASSUME Typed, TradedInv, UnlessOverlapped PROVE FillsCountOnce
  <2>1. order.fills \subseteq 1..trades /\ order.filled >= Cardinality(order.fills)
    <3>1. IsFiniteSet(order.fills) /\ order.filled \in Nat
      <4>1. trades \in Nat /\ order.filled \in Nat
        BY <1>1, AmountAssumption DEF Typed, ExTyped, OrderTyped, OrderType
      <4>2. IsFiniteSet(1..trades)
        BY <4>1, FS_Interval
      <4> QED BY <1>1, <4>1, <4>2, FS_Subset DEF TradedInv
    <3>2. Cardinality(order.fills) \in Nat
      BY <3>1, FS_CardinalityType
    <3> QED BY <1>1, <3>1, <3>2 DEF TradedInv
  <2>2. ASSUME ~overlapped, Quiet
        PROVE  order.filled = Cardinality(order.fills) /\ (order.status = "Completed" <=> order.filled = Amount)
    <3>1. Due = {} /\ Counted
      BY <1>1, <2>2, QuietFacts DEF UnlessOverlapped, SerialInv
    <3> QED BY <3>1 DEF Counted
  <2> QED BY <2>1, <2>2 DEF FillsCountOnce
<1> QED BY <1>1, TradedAlways, SerialAlways, PTL
=============================================================================
