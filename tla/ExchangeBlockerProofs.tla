------------------------ MODULE ExchangeBlockerProofs ------------------------
(* Proofs of the properties of ExchangeBlocker. *)
EXTENDS ExchangeBlocker, FiniteSetTheorems, TLAPS

(* What Append() and Tail() do to a queue of events. *)
LEMMA AppendFacts ==
    ASSUME NEW q \in Seq(Event), NEW e \in Event
    PROVE  /\ Append(q, e) \in Seq(Event)
           /\ Len(q) \in Nat
           /\ Len(Append(q, e)) = Len(q) + 1
           /\ \A k \in 1..Len(q) : Append(q, e)[k] = q[k] /\ q[k] \in Event
           /\ Append(q, e)[Len(q) + 1] = e
  OBVIOUS

LEMMA TailFacts ==
    ASSUME NEW q \in Seq(Event), q # <<>>
    PROVE  /\ Tail(q) \in Seq(Event)
           /\ Len(q) \in Nat \ {0}
           /\ Len(Tail(q)) = Len(q) - 1
           /\ \A k \in 1..Len(Tail(q)) : k + 1 \in 1..Len(q) /\ Tail(q)[k] = q[k + 1]
           /\ \A k \in 1..Len(q) : k # 1 => k - 1 \in 1..Len(Tail(q)) /\ Tail(q)[k - 1] = q[k]
           /\ \A k \in 1..Len(q) : q[k] \in Event
           /\ Head(q) = q[1] /\ Head(q) \in Event
  OBVIOUS

(* The bound on the events of a blocker, when one is taken from the queue  *)
(* and when one that the bound is not about is added.                      *)
LEMMA AtMostThreeTail ==
    ASSUME NEW q \in Seq(Event), NEW id \in Ids, NEW b \in Blocker, NEW c \in Blocker,
           q # <<>>, AtMostThree(q, id, b)
    PROVE  AtMostThree(Tail(q), id, c)
  <1> DEFINE p == Tail(q)
  <1>1. /\ Len(q) \in Nat \ {0} /\ Len(p) = Len(q) - 1
        /\ \A k \in 1..Len(p) : k + 1 \in 1..Len(q) /\ p[k] = q[k + 1]
    BY TailFacts
  <1> HIDE DEF p
  <1>2. ASSUME NEW k \in 1..Len(p), NEW l \in 1..Len(p), NEW m \in 1..Len(p),
               Queued(p, k, id, "MoveBlockedToBeforeUnblocked"),
               Queued(p, l, id, "MoveBlockedToBeforeUnblocked"),
               Queued(p, m, id, "MoveBlockedToBeforeUnblocked")
        PROVE  k = l \/ l = m \/ k = m
    <2>1. /\ k + 1 \in 1..Len(q) /\ Queued(q, k + 1, id, "MoveBlockedToBeforeUnblocked")
          /\ l + 1 \in 1..Len(q) /\ Queued(q, l + 1, id, "MoveBlockedToBeforeUnblocked")
          /\ m + 1 \in 1..Len(q) /\ Queued(q, m + 1, id, "MoveBlockedToBeforeUnblocked")
      BY <1>1, <1>2 DEF Queued
    <2>2. k + 1 = l + 1 \/ l + 1 = m + 1 \/ k + 1 = m + 1
      BY <2>1 DEF AtMostThree
    <2> QED BY <2>2
  <1>3. ASSUME NEW k \in 1..Len(p), NEW l \in 1..Len(p),
               Queued(p, k, id, "MoveBeforeUnblockedToUnblocked"),
               Queued(p, l, id, "MoveBeforeUnblockedToUnblocked")
        PROVE  k = l
    <2>1. /\ k + 1 \in 1..Len(q) /\ Queued(q, k + 1, id, "MoveBeforeUnblockedToUnblocked")
          /\ l + 1 \in 1..Len(q) /\ Queued(q, l + 1, id, "MoveBeforeUnblockedToUnblocked")
      BY <1>1, <1>3 DEF Queued
    <2>2. k + 1 = l + 1
      BY <2>1 DEF AtMostThree
    <2> QED BY <2>2
  <1>4. ASSUME NEW j \in 1..Len(p), NEW k \in 1..Len(p), NEW l \in 1..Len(p),
               \/ Queued(p, j, id, "MoveBeforeUnblockedToUnblocked")
               \/ Queued(p, j, id, "UnblockRequested") /\ j < k /\ j < l,
               Queued(p, k, id, "MoveBlockedToBeforeUnblocked"),
               Queued(p, l, id, "MoveBlockedToBeforeUnblocked")
        PROVE  k = l
    BY <1>1, <1>4, SMTT(40) DEF AtMostThree, Queued
  <1>5. AtMostThree(p, id, c)
    BY <1>2, <1>3, <1>4 DEF AtMostThree
  <1> QED BY <1>5 DEF p

LEMMA AtMostThreeAppend ==
    ASSUME NEW q \in Seq(Event), NEW id \in Ids, NEW b \in Blocker, NEW c \in Blocker,
           NEW e \in Event, AtMostThree(q, id, b),
           e.id # id \/ e.type \in {"MoveToBlocked", "UnblockRequested"}
    PROVE  AtMostThree(Append(q, e), id, c)
  <1> DEFINE p == Append(q, e)
  <1>1. /\ Len(q) \in Nat /\ Len(p) = Len(q) + 1
        /\ \A k \in 1..Len(q) : p[k] = q[k]
        /\ p[Len(q) + 1] = e
    BY AppendFacts
  <1> HIDE DEF p
  <1>2. ASSUME NEW k \in 1..Len(p), NEW l \in 1..Len(p), NEW m \in 1..Len(p),
               Queued(p, k, id, "MoveBlockedToBeforeUnblocked"),
               Queued(p, l, id, "MoveBlockedToBeforeUnblocked"),
               Queued(p, m, id, "MoveBlockedToBeforeUnblocked")
        PROVE  k = l \/ l = m \/ k = m
    BY <1>1, <1>2, SMTT(40) DEF AtMostThree, Queued
  <1>3. ASSUME NEW k \in 1..Len(p), NEW l \in 1..Len(p),
               Queued(p, k, id, "MoveBeforeUnblockedToUnblocked"),
               Queued(p, l, id, "MoveBeforeUnblockedToUnblocked")
        PROVE  k = l
    BY <1>1, <1>3 DEF AtMostThree, Queued
  <1>4. ASSUME NEW j \in 1..Len(p), NEW k \in 1..Len(p), NEW l \in 1..Len(p),
               \/ Queued(p, j, id, "MoveBeforeUnblockedToUnblocked")
               \/ Queued(p, j, id, "UnblockRequested") /\ j < k /\ j < l,
               Queued(p, k, id, "MoveBlockedToBeforeUnblocked"),
               Queued(p, l, id, "MoveBlockedToBeforeUnblocked")
        PROVE  k = l
    BY <1>1, <1>4 DEF AtMostThree, Queued
  <1>5. AtMostThree(p, id, c)
    BY <1>2, <1>3, <1>4 DEF AtMostThree
  <1> QED BY <1>5 DEF p

(* The events of a blocker are not disturbed by those of another one. *)
LEMMA EventsAppendOther ==
    ASSUME NEW q \in Seq(Event), NEW e \in Event, NEW id \in Ids, NEW b \in Blocker,
           e.id # id, EventsOf(q, id, b)
    PROVE  EventsOf(Append(q, e), id, b)
  <1> DEFINE p == Append(q, e)
  <1>1. /\ Len(q) \in Nat /\ Len(p) = Len(q) + 1
        /\ \A k \in 1..Len(q) : p[k] = q[k]
        /\ p[Len(q) + 1] = e
    BY AppendFacts
  <1> HIDE DEF p
  <1>2. OneRequest(p, id, b)
    BY <1>1, SMTT(40) DEF EventsOf, OneRequest, Queued
  <1>3. NotYetBlocked(p, id, b)
    BY <1>1 DEF EventsOf, NotYetBlocked, Queued
  <1>4. LeftoversFirst(p, id, b)
    BY <1>1 DEF EventsOf, LeftoversFirst, Queued
  <1>5. AboutToUnblock(p, id, b)
    BY <1>1, SMTT(40) DEF EventsOf, AboutToUnblock, Queued, LastOf
  <1>6. Unblocking(p, id, b)
    <2> SUFFICES ASSUME b.status = "WaitUnblockedMove"
                 PROVE  Unblocking(p, id, b)
      BY DEF Unblocking
    <2>1. PICK k \in 1..Len(q) :
             /\ Queued(q, k, id, "MoveBeforeUnblockedToUnblocked") /\ LastOf(q, k, id)
             /\ \A l \in 1..Len(q) :
                  Queued(q, l, id, "MoveBeforeUnblockedToUnblocked") => l = k
      BY DEF EventsOf, Unblocking
    <2>2. k \in 1..Len(p) /\ Queued(p, k, id, "MoveBeforeUnblockedToUnblocked")
      BY <1>1, <2>1 DEF Queued
    <2>3. LastOf(p, k, id)
      BY <1>1, <2>1 DEF LastOf
    <2>4. \A l \in 1..Len(p) : Queued(p, l, id, "MoveBeforeUnblockedToUnblocked") => l = k
      BY <1>1, <2>1 DEF Queued
    <2>5. ~b.inQueue
      BY DEF EventsOf, Unblocking
    <2> QED BY <2>2, <2>3, <2>4, <2>5 DEF Unblocking
  <1>7. AtMostThree(p, id, b)
    BY AtMostThreeAppend DEF EventsOf, p
  <1> QED BY <1>2, <1>3, <1>4, <1>5, <1>6, <1>7 DEF EventsOf, p

(* Taking an event of another blocker, or one that this blocker ignores,   *)
(* from the queue does not disturb them either.                            *)
LEMMA EventsTail ==
    ASSUME NEW q \in Seq(Event), NEW id \in Ids, NEW b \in Blocker,
           q # <<>>, EventsOf(q, id, b),
           \/ Head(q).id # id
           \/ Head(q).type # "UnblockRequested" /\ b.status # StatusFor(Head(q).type)
    PROVE  EventsOf(Tail(q), id, b)
  <1> DEFINE p == Tail(q)
  <1>1. /\ Len(q) \in Nat \ {0} /\ Len(p) = Len(q) - 1
        /\ \A k \in 1..Len(p) : k + 1 \in 1..Len(q) /\ p[k] = q[k + 1]
        /\ \A k \in 1..Len(q) : k # 1 => k - 1 \in 1..Len(p) /\ p[k - 1] = q[k]
        /\ \/ q[1].id # id
           \/ q[1].type # "UnblockRequested" /\ b.status # StatusFor(q[1].type)
    BY TailFacts
  <1> HIDE DEF p
  <1>2. OneRequest(p, id, b)
    BY <1>1, SMTT(40) DEF EventsOf, OneRequest, Queued
  <1>3. NotYetBlocked(p, id, b)
    <2>1. ASSUME NEW k \in 1..Len(p), Queued(p, k, id, "MoveToBlocked")
          PROVE  b.status = "WaitBlockedMove"
      BY <1>1, <2>1 DEF EventsOf, NotYetBlocked, Queued
    <2>2. ASSUME b.status = "WaitBlockedMove"
          PROVE  \E k \in 1..Len(p) :
                   /\ Queued(p, k, id, "MoveToBlocked")
                   /\ \A l \in 1..Len(p) :
                        p[l].id = id /\ l # k => p[l].type = "UnblockRequested" /\ k < l
      <3>1. PICK k \in 1..Len(q) :
               /\ Queued(q, k, id, "MoveToBlocked")
               /\ \A l \in 1..Len(q) :
                    q[l].id = id /\ l # k => q[l].type = "UnblockRequested" /\ k < l
        BY <2>2 DEF EventsOf, NotYetBlocked
      <3>2. k # 1 /\ k - 1 \in 1..Len(p) /\ Queued(p, k - 1, id, "MoveToBlocked")
        BY <1>1, <3>1, <2>2 DEF Queued, StatusFor
      <3>3. ASSUME NEW l \in 1..Len(p), p[l].id = id, l # k - 1
            PROVE  p[l].type = "UnblockRequested" /\ k - 1 < l
        BY <1>1, <3>1, <3>3
      <3> QED BY <3>2, <3>3
    <2> QED BY <2>1, <2>2 DEF NotYetBlocked
  <1>4. LeftoversFirst(p, id, b)
    BY <1>1 DEF EventsOf, LeftoversFirst, Queued
  <1>5. AboutToUnblock(p, id, b)
    <2> SUFFICES ASSUME b.status = "WaitBeforeUnblockedMove"
                 PROVE  AboutToUnblock(p, id, b)
      BY DEF AboutToUnblock
    <2>1. PICK k \in 1..Len(q) :
             Queued(q, k, id, "MoveBlockedToBeforeUnblocked") /\ LastOf(q, k, id)
      BY DEF EventsOf, AboutToUnblock
    <2>2. /\ k - 1 \in 1..Len(p)
          /\ Queued(p, k - 1, id, "MoveBlockedToBeforeUnblocked")
          /\ LastOf(p, k - 1, id)
      BY <1>1, <2>1, SMTT(40) DEF Queued, LastOf, StatusFor
    <2>3. \A l \in 1..Len(p) : ~Queued(p, l, id, "MoveBeforeUnblockedToUnblocked")
      BY <1>1 DEF EventsOf, AboutToUnblock, Queued
    <2>4. \A l, m \in 1..Len(p) :
             /\ Queued(p, l, id, "UnblockRequested")
             /\ Queued(p, m, id, "MoveBlockedToBeforeUnblocked")
             => l < m
      BY <1>1, SMTT(40) DEF EventsOf, AboutToUnblock, Queued
    <2> QED BY <2>2, <2>3, <2>4 DEF AboutToUnblock
  <1>6. Unblocking(p, id, b)
    <2> SUFFICES ASSUME b.status = "WaitUnblockedMove"
                 PROVE  Unblocking(p, id, b)
      BY DEF Unblocking
    <2>1. PICK k \in 1..Len(q) :
             /\ Queued(q, k, id, "MoveBeforeUnblockedToUnblocked") /\ LastOf(q, k, id)
             /\ \A l \in 1..Len(q) :
                  Queued(q, l, id, "MoveBeforeUnblockedToUnblocked") => l = k
      BY DEF EventsOf, Unblocking
    <2>2. /\ k - 1 \in 1..Len(p)
          /\ Queued(p, k - 1, id, "MoveBeforeUnblockedToUnblocked")
          /\ LastOf(p, k - 1, id)
      BY <1>1, <2>1 DEF Queued, LastOf, StatusFor
    <2>3. \A l \in 1..Len(p) : Queued(p, l, id, "MoveBeforeUnblockedToUnblocked") => l = k - 1
      BY <1>1, <2>1 DEF Queued
    <2>4. ~b.inQueue
      BY DEF EventsOf, Unblocking
    <2> QED BY <2>2, <2>3, <2>4 DEF Unblocking
  <1>7. AtMostThree(p, id, b)
    BY AtMostThreeTail DEF EventsOf, p
  <1> QED BY <1>2, <1>3, <1>4, <1>5, <1>6, <1>7 DEF EventsOf, p

(* block() of a pair that is not blocked: the new blocker's only event. *)
LEMMA EventsCreated ==
    ASSUME NEW q \in Seq(Event), NEW id \in Ids, NEW e \in Event, NEW c \in Blocker,
           \A k \in 1..Len(q) : q[k].id # id,
           e = Ev(id, "MoveToBlocked"),
           ~c.inQueue, c.status = "WaitBlockedMove"
    PROVE  EventsOf(Append(q, e), id, c)
  <1> DEFINE p == Append(q, e)
  <1>1. /\ Len(q) \in Nat /\ Len(p) = Len(q) + 1
        /\ \A k \in 1..Len(q) : p[k] = q[k]
        /\ p[Len(q) + 1] = e
    BY AppendFacts
  <1> HIDE DEF p
  <1>7. e.id = id /\ e.type = "MoveToBlocked"
    BY DEF Ev
  <1>2. OneRequest(p, id, c)
    BY <1>1, <1>7 DEF EventsOf, OneRequest, Queued
  <1>3. NotYetBlocked(p, id, c)
    BY <1>1, <1>7 DEF EventsOf, NotYetBlocked, Queued
  <1>4. LeftoversFirst(p, id, c)
    BY <1>1, <1>7 DEF EventsOf, LeftoversFirst, Queued
  <1>5. AboutToUnblock(p, id, c)
    BY <1>1, <1>7 DEF EventsOf, AboutToUnblock, Queued, LastOf
  <1>6. Unblocking(p, id, c)
    BY <1>1, <1>7 DEF EventsOf, Unblocking, Queued, LastOf
  <1>8. AtMostThree(p, id, c)
    BY <1>1, <1>7 DEF EventsOf, AtMostThree, Queued
  <1> QED BY <1>2, <1>3, <1>4, <1>5, <1>6, <1>8 DEF EventsOf, p

(* block() of a pair that is blocked. *)
LEMMA EventsRolledBack ==
    ASSUME NEW q \in Seq(Event), NEW id \in Ids, NEW b \in Blocker, NEW c \in Blocker,
           EventsOf(q, id, b),
           ~c.requested, c.inQueue = b.inQueue,
           c.status = IF b.status = "WaitBlockedMove" THEN b.status ELSE "ProgressBlocked"
    PROVE  EventsOf(q, id, c)
  <1>1. b.status \in ProgressStatus
    BY DEF Blocker
  <1>2. OneRequest(q, id, c)
    BY DEF EventsOf, OneRequest
  <1>3. NotYetBlocked(q, id, c)
    BY DEF EventsOf, NotYetBlocked
  <1>4. LeftoversFirst(q, id, c)
    BY <1>1 DEF EventsOf, OneRequest, LeftoversFirst, AboutToUnblock, Unblocking, ProgressStatus
  <1>5. AboutToUnblock(q, id, c) /\ Unblocking(q, id, c)
    BY DEF AboutToUnblock, Unblocking
  <1>6. AtMostThree(q, id, c)
    BY DEF EventsOf, AtMostThree, Queued
  <1> QED BY <1>2, <1>3, <1>4, <1>5, <1>6 DEF EventsOf

(* unblock() that finds no need for an event, and unblock() that adds one. *)
LEMMA EventsRequestedBefore ==
    ASSUME NEW q \in Seq(Event), NEW id \in Ids, NEW b \in Blocker, NEW c \in Blocker,
           EventsOf(q, id, b), ~NeedsEvent(b),
           c.inQueue = b.inQueue, c.status = b.status
    PROVE  EventsOf(q, id, c)
  <1>1. b.status \in ProgressStatus
    BY DEF Blocker
  <1>2. LeftoversFirst(q, id, c)
    BY DEF EventsOf, LeftoversFirst, NeedsEvent
  <1>3. /\ OneRequest(q, id, c) /\ NotYetBlocked(q, id, c)
        /\ AboutToUnblock(q, id, c) /\ Unblocking(q, id, c)
    BY DEF EventsOf, OneRequest, NotYetBlocked, AboutToUnblock, Unblocking
  <1>4. AtMostThree(q, id, c)
    BY DEF EventsOf, AtMostThree, Queued
  <1> QED BY <1>2, <1>3, <1>4 DEF EventsOf

LEMMA EventsRequested ==
    ASSUME NEW q \in Seq(Event), NEW id \in Ids, NEW b \in Blocker, NEW c \in Blocker,
           NEW e \in Event,
           EventsOf(q, id, b), NeedsEvent(b),
           e = Ev(id, "UnblockRequested"),
           c.inQueue, c.status = b.status
    PROVE  EventsOf(Append(q, e), id, c)
  <1> DEFINE p == Append(q, e)
  <1>1. /\ Len(q) \in Nat /\ Len(p) = Len(q) + 1
        /\ \A k \in 1..Len(q) : p[k] = q[k]
        /\ p[Len(q) + 1] = e
    BY AppendFacts
  <1> HIDE DEF p
  <1>7. e.id = id /\ e.type = "UnblockRequested"
    BY DEF Ev
  <1>8. ~b.inQueue /\ b.status \in {"WaitBlockedMove", "ProgressBlocked"}
    BY DEF NeedsEvent
  <1>2. OneRequest(p, id, c)
    BY <1>1, <1>7, <1>8 DEF EventsOf, OneRequest, Queued
  <1>3. NotYetBlocked(p, id, c)
    BY <1>1, <1>7, <1>8, SMTT(40) DEF EventsOf, OneRequest, NotYetBlocked, Queued
  <1>4. LeftoversFirst(p, id, c)
    BY <1>1, <1>7, <1>8 DEF EventsOf, LeftoversFirst, Queued
  <1>5. AboutToUnblock(p, id, c)
    BY <1>1, <1>7, <1>8 DEF EventsOf, AboutToUnblock, Queued, LastOf
  <1>6. Unblocking(p, id, c)
    BY <1>1, <1>7, <1>8 DEF EventsOf, Unblocking, Queued, LastOf
  <1>9. AtMostThree(p, id, c)
    BY <1>7, AtMostThreeAppend DEF EventsOf, p
  <1> QED BY <1>2, <1>3, <1>4, <1>5, <1>6, <1>9 DEF EventsOf, p

(* Taking another event from the queue leaves the request there. *)
LEMMA OneRequestTail ==
    ASSUME NEW q \in Seq(Event), NEW id \in Ids, NEW b \in Blocker, NEW c \in Blocker,
           q # <<>>, OneRequest(q, id, b), Head(q).type # "UnblockRequested",
           c.inQueue = b.inQueue
    PROVE  OneRequest(Tail(q), id, c)
  <1> DEFINE t == Tail(q)
  <1>1. /\ Len(q) \in Nat \ {0} /\ Len(t) = Len(q) - 1
        /\ \A k \in 1..Len(t) : k + 1 \in 1..Len(q) /\ t[k] = q[k + 1]
        /\ \A k \in 1..Len(q) : k # 1 => k - 1 \in 1..Len(t) /\ t[k - 1] = q[k]
        /\ q[1].type # "UnblockRequested"
    BY TailFacts
  <1> HIDE DEF t
  <1>2. (\E k \in 1..Len(t) : Queued(t, k, id, "UnblockRequested"))
          <=> (\E k \in 1..Len(q) : Queued(q, k, id, "UnblockRequested"))
    <2>1. ASSUME NEW k \in 1..Len(q), Queued(q, k, id, "UnblockRequested")
          PROVE  k - 1 \in 1..Len(t) /\ Queued(t, k - 1, id, "UnblockRequested")
      BY <1>1, <2>1 DEF Queued
    <2>2. ASSUME NEW k \in 1..Len(t), Queued(t, k, id, "UnblockRequested")
          PROVE  k + 1 \in 1..Len(q) /\ Queued(q, k + 1, id, "UnblockRequested")
      BY <1>1, <2>2 DEF Queued
    <2> QED BY <2>1, <2>2
  <1>3. \A k, l \in 1..Len(t) :
           Queued(t, k, id, "UnblockRequested") /\ Queued(t, l, id, "UnblockRequested") => k = l
    BY <1>1 DEF OneRequest, Queued
  <1> QED BY <1>2, <1>3 DEF OneRequest, t

(* move_next_blocker_state_if_can() on the first event of the queue, where *)
(* the blocker's status is the one the event is for: what remains of the   *)
(* blocker's events, and what is added to them.                            *)
LEMMA EventsMovedToBlocked ==
    ASSUME NEW q \in Seq(Event), NEW id \in Ids, NEW b \in Blocker, NEW c \in Blocker,
           q # <<>>, EventsOf(q, id, b), Head(q) = Ev(id, "MoveToBlocked"),
           ~b.requested, ~c.requested, c.inQueue = b.inQueue, c.status = "ProgressBlocked"
    PROVE  EventsOf(Tail(q), id, c)
  <1> DEFINE t == Tail(q)
  <1>1. /\ t \in Seq(Event) /\ Len(q) \in Nat \ {0} /\ Len(t) = Len(q) - 1
        /\ \A k \in 1..Len(t) : k + 1 \in 1..Len(q) /\ t[k] = q[k + 1]
        /\ \A k \in 1..Len(q) : k # 1 => k - 1 \in 1..Len(t) /\ t[k - 1] = q[k]
        /\ q[1] = Head(q) /\ 1 \in 1..Len(q)
    BY TailFacts
  <1> HIDE DEF t
  <1>2. \A k \in 1..Len(t) : t[k].id = id => t[k].type = "UnblockRequested"
    BY <1>1 DEF EventsOf, NotYetBlocked, Queued, Ev
  <1>3. OneRequest(q, id, b) /\ q[1].type = "MoveToBlocked"
    BY <1>1 DEF EventsOf, Ev
  <1>4. OneRequest(t, id, c)
    BY <1>1, <1>3, OneRequestTail DEF t
  <1>5. NotYetBlocked(t, id, c)
    BY <1>1, <1>2, <1>3 DEF NotYetBlocked, Queued, LastOf
  <1>6. LeftoversFirst(t, id, c)
    BY <1>1, <1>2, <1>3 DEF LeftoversFirst, Queued, LastOf
  <1>7. AboutToUnblock(t, id, c)
    BY <1>1, <1>2, <1>3 DEF AboutToUnblock, Queued, LastOf
  <1>8. Unblocking(t, id, c)
    BY <1>1, <1>2, <1>3 DEF Unblocking, Queued, LastOf
  <1>9. AtMostThree(t, id, c)
    BY AtMostThreeTail DEF EventsOf, t
  <1> QED BY <1>4, <1>5, <1>6, <1>7, <1>8, <1>9 DEF EventsOf, t

LEMMA EventsMovedOn ==
    ASSUME NEW q \in Seq(Event), NEW id \in Ids, NEW b \in Blocker, NEW c \in Blocker,
           q # <<>>, EventsOf(q, id, b), NEW e \in Event,
           Head(q) = Ev(id, "MoveToBlocked"), e = Ev(id, "MoveBlockedToBeforeUnblocked"),
           c.inQueue = b.inQueue, c.status = "WaitBeforeUnblockedMove"
    PROVE  EventsOf(Append(Tail(q), e), id, c)
  <1> DEFINE t == Tail(q)
  <1>1. /\ t \in Seq(Event) /\ Len(q) \in Nat \ {0} /\ Len(t) = Len(q) - 1
        /\ \A k \in 1..Len(t) : k + 1 \in 1..Len(q) /\ t[k] = q[k + 1]
        /\ \A k \in 1..Len(q) : k # 1 => k - 1 \in 1..Len(t) /\ t[k - 1] = q[k]
        /\ q[1] = Head(q) /\ 1 \in 1..Len(q)
    BY TailFacts
  <1> HIDE DEF t
  <1> DEFINE p == Append(t, e)
  <1>2. /\ Len(t) \in Nat /\ Len(p) = Len(t) + 1
        /\ \A k \in 1..Len(t) : p[k] = t[k]
        /\ p[Len(t) + 1] = e
    BY <1>1, AppendFacts
  <1> HIDE DEF p
  <1>3. \A k \in 1..Len(t) : t[k].id = id => t[k].type = "UnblockRequested"
    BY <1>1 DEF EventsOf, NotYetBlocked, Queued, Ev
  <1>4. /\ OneRequest(q, id, b) /\ q[1].type = "MoveToBlocked"
        /\ e.id = id /\ e.type = "MoveBlockedToBeforeUnblocked"
    BY <1>1 DEF EventsOf, Ev
  <1>5. OneRequest(t, id, c)
    BY <1>1, <1>4, OneRequestTail DEF t
  <1>6. OneRequest(p, id, c)
    BY <1>2, <1>3, <1>4, <1>5, SMTT(40) DEF OneRequest, Queued, LastOf
  <1>7. NotYetBlocked(p, id, c)
    BY <1>2, <1>3, <1>4, <1>5 DEF NotYetBlocked, Queued, LastOf
  <1>8. LeftoversFirst(p, id, c)
    BY <1>2, <1>3, <1>4, <1>5 DEF LeftoversFirst, Queued, LastOf
  <1>9. AboutToUnblock(p, id, c)
    BY <1>2, <1>3, <1>4, <1>5, SMTT(40) DEF AboutToUnblock, Queued, LastOf
  <1>10. Unblocking(p, id, c)
    BY <1>2, <1>3, <1>4, <1>5 DEF Unblocking, Queued, LastOf
  <1>11. AtMostThree(p, id, c)
    <2>1. \A k \in 1..Len(p) :
             p[k].id = id => p[k].type = "UnblockRequested" \/ k = Len(t) + 1
      BY <1>2, <1>3
    <2>2. \A k \in 1..Len(p) :
             /\ Queued(p, k, id, "MoveBlockedToBeforeUnblocked") => k = Len(t) + 1
             /\ ~Queued(p, k, id, "MoveBeforeUnblockedToUnblocked")
      BY <1>2, <1>4, <2>1 DEF Queued
    <2> QED BY <2>2 DEF AtMostThree
  <1> QED BY <1>6, <1>7, <1>8, <1>9, <1>10, <1>11 DEF EventsOf, p, t

LEMMA EventsStartUnblocking ==
    ASSUME NEW q \in Seq(Event), NEW id \in Ids, NEW b \in Blocker, NEW c \in Blocker,
           q # <<>>, EventsOf(q, id, b), NEW e \in Event,
           Head(q) = Ev(id, "UnblockRequested"), e = Ev(id, "MoveBlockedToBeforeUnblocked"),
           b.status = "ProgressBlocked",
           ~c.inQueue, c.status = "WaitBeforeUnblockedMove"
    PROVE  EventsOf(Append(Tail(q), e), id, c)
  <1> DEFINE t == Tail(q)
  <1>1. /\ t \in Seq(Event) /\ Len(q) \in Nat \ {0} /\ Len(t) = Len(q) - 1
        /\ \A k \in 1..Len(t) : k + 1 \in 1..Len(q) /\ t[k] = q[k + 1]
        /\ \A k \in 1..Len(q) : k # 1 => k - 1 \in 1..Len(t) /\ t[k - 1] = q[k]
        /\ q[1] = Head(q) /\ 1 \in 1..Len(q)
    BY TailFacts
  <1> HIDE DEF t
  <1> DEFINE p == Append(t, e)
  <1>2. /\ Len(t) \in Nat /\ Len(p) = Len(t) + 1
        /\ \A k \in 1..Len(t) : p[k] = t[k]
        /\ p[Len(t) + 1] = e
    BY <1>1, AppendFacts
  <1> HIDE DEF p
  <1>3. \A k \in 1..Len(t) : t[k].id = id => t[k].type \notin {"UnblockRequested", "MoveToBlocked",
                                                              "MoveBeforeUnblockedToUnblocked"}
    BY <1>1, SMTT(40) DEF EventsOf, OneRequest, NotYetBlocked, LeftoversFirst, Queued, Ev
  <1>4. e.id = id /\ e.type = "MoveBlockedToBeforeUnblocked"
    BY DEF Ev
  <1>5. OneRequest(p, id, c)
    BY <1>2, <1>3, <1>4 DEF OneRequest, Queued, LastOf
  <1>6. NotYetBlocked(p, id, c)
    BY <1>2, <1>3, <1>4 DEF NotYetBlocked, Queued, LastOf
  <1>7. LeftoversFirst(p, id, c)
    BY <1>2, <1>3, <1>4 DEF LeftoversFirst, Queued, LastOf
  <1>8. AboutToUnblock(p, id, c)
    BY <1>2, <1>3, <1>4, SMTT(40) DEF AboutToUnblock, Queued, LastOf
  <1>9. Unblocking(p, id, c)
    BY <1>2, <1>3, <1>4 DEF Unblocking, Queued, LastOf
  <1>10. AtMostThree(p, id, c)
    <2>1. \A k, l \in 1..Len(t) :
             /\ Queued(t, k, id, "MoveBlockedToBeforeUnblocked")
             /\ Queued(t, l, id, "MoveBlockedToBeforeUnblocked")
             => k = l
      BY <1>1 DEF EventsOf, AtMostThree, Queued, Ev
    <2> QED BY <1>2, <1>3, <1>4, <2>1, SMTT(40) DEF AtMostThree, Queued
  <1> QED BY <1>5, <1>6, <1>7, <1>8, <1>9, <1>10 DEF EventsOf, p, t

LEMMA EventsRequestDropped ==
    ASSUME NEW q \in Seq(Event), NEW id \in Ids, NEW b \in Blocker, NEW c \in Blocker,
           q # <<>>, EventsOf(q, id, b), Head(q) = Ev(id, "UnblockRequested"),
           b.status # "ProgressBlocked",
           ~c.inQueue, c.status = b.status
    PROVE  EventsOf(Tail(q), id, c)
  <1> DEFINE t == Tail(q)
  <1>1. /\ t \in Seq(Event) /\ Len(q) \in Nat \ {0} /\ Len(t) = Len(q) - 1
        /\ \A k \in 1..Len(t) : k + 1 \in 1..Len(q) /\ t[k] = q[k + 1]
        /\ \A k \in 1..Len(q) : k # 1 => k - 1 \in 1..Len(t) /\ t[k - 1] = q[k]
        /\ q[1] = Head(q) /\ 1 \in 1..Len(q)
    BY TailFacts
  <1> HIDE DEF t
  <1>2. q[1].id = id /\ q[1].type = "UnblockRequested"
    BY <1>1 DEF Ev
  <1>3. \A k \in 1..Len(t) : t[k].id = id => t[k].type # "UnblockRequested"
    BY <1>1, <1>2 DEF EventsOf, OneRequest, Queued
  <1>4. b.inQueue /\ b.status = "WaitBeforeUnblockedMove"
    BY <1>1, <1>2 DEF EventsOf, OneRequest, NotYetBlocked, Unblocking, Queued, Blocker, ProgressStatus
  <1>5. PICK k \in 1..Len(q) : Queued(q, k, id, "MoveBlockedToBeforeUnblocked") /\ LastOf(q, k, id)
    BY <1>4 DEF EventsOf, AboutToUnblock
  <1>6. /\ k - 1 \in 1..Len(t) /\ Queued(t, k - 1, id, "MoveBlockedToBeforeUnblocked")
        /\ LastOf(t, k - 1, id)
    BY <1>1, <1>2, <1>5 DEF Queued, LastOf
  <1>7. OneRequest(t, id, c)
    BY <1>3 DEF OneRequest, Queued
  <1>8. NotYetBlocked(t, id, c)
    BY <1>1, <1>4 DEF EventsOf, NotYetBlocked, Queued
  <1>9. LeftoversFirst(t, id, c) /\ Unblocking(t, id, c)
    BY <1>4 DEF LeftoversFirst, Unblocking
  <1>10. AboutToUnblock(t, id, c)
    <2>1. \A l \in 1..Len(t) : ~Queued(t, l, id, "MoveBeforeUnblockedToUnblocked")
      BY <1>1, <1>4 DEF EventsOf, AboutToUnblock, Queued
    <2> QED BY <1>3, <1>6, <2>1 DEF AboutToUnblock, Queued
  <1>11. AtMostThree(t, id, c)
    BY AtMostThreeTail DEF EventsOf, t
  <1> QED BY <1>7, <1>8, <1>9, <1>10, <1>11 DEF EventsOf, t

LEMMA EventsBeforeUnblocked ==
    ASSUME NEW q \in Seq(Event), NEW id \in Ids, NEW b \in Blocker, NEW c \in Blocker,
           q # <<>>, EventsOf(q, id, b), NEW e \in Event,
           Head(q) = Ev(id, "MoveBlockedToBeforeUnblocked"),
           e = Ev(id, "MoveBeforeUnblockedToUnblocked"),
           b.status = "WaitBeforeUnblockedMove",
           c.inQueue = b.inQueue, c.status = "WaitUnblockedMove"
    PROVE  EventsOf(Append(Tail(q), e), id, c)
  <1> DEFINE t == Tail(q)
  <1>1. /\ t \in Seq(Event) /\ Len(q) \in Nat \ {0} /\ Len(t) = Len(q) - 1
        /\ \A k \in 1..Len(t) : k + 1 \in 1..Len(q) /\ t[k] = q[k + 1]
        /\ \A k \in 1..Len(q) : k # 1 => k - 1 \in 1..Len(t) /\ t[k - 1] = q[k]
        /\ q[1] = Head(q) /\ 1 \in 1..Len(q)
    BY TailFacts
  <1> HIDE DEF t
  <1> DEFINE p == Append(t, e)
  <1>2. /\ Len(t) \in Nat /\ Len(p) = Len(t) + 1
        /\ \A k \in 1..Len(t) : p[k] = t[k]
        /\ p[Len(t) + 1] = e
    BY <1>1, AppendFacts
  <1> HIDE DEF p
  <1>3. q[1].id = id /\ q[1].type = "MoveBlockedToBeforeUnblocked"
    BY <1>1 DEF Ev
  <1>4. \A k \in 1..Len(q) : ~Queued(q, k, id, "UnblockRequested")
    BY <1>1, <1>3 DEF EventsOf, AboutToUnblock, Queued
  <1>5. ~b.inQueue
    BY <1>4 DEF EventsOf, OneRequest
  <1>6. \A k \in 1..Len(t) : t[k].id = id => t[k].type \notin {"UnblockRequested", "MoveToBlocked",
                                                              "MoveBeforeUnblockedToUnblocked"}
    BY <1>1, <1>4 DEF EventsOf, NotYetBlocked, AboutToUnblock, Queued
  <1>7. ~c.inQueue /\ e.id = id /\ e.type = "MoveBeforeUnblockedToUnblocked"
    BY <1>5 DEF Ev
  <1>8. OneRequest(p, id, c)
    BY <1>2, <1>6, <1>7 DEF OneRequest, Queued, LastOf
  <1>9. NotYetBlocked(p, id, c)
    BY <1>2, <1>6, <1>7 DEF NotYetBlocked, Queued, LastOf
  <1>10. LeftoversFirst(p, id, c)
    BY <1>2, <1>6, <1>7 DEF LeftoversFirst, Queued, LastOf
  <1>11. AboutToUnblock(p, id, c)
    BY <1>2, <1>6, <1>7 DEF AboutToUnblock, Queued, LastOf
  <1>12. Unblocking(p, id, c)
    BY <1>2, <1>6, <1>7 DEF Unblocking, Queued, LastOf
  <1>13. AtMostThree(p, id, c)
    <2>1. \A k, l \in 1..Len(t) :
             /\ Queued(t, k, id, "MoveBlockedToBeforeUnblocked")
             /\ Queued(t, l, id, "MoveBlockedToBeforeUnblocked")
             => k = l
      BY <1>1, <1>3 DEF EventsOf, AtMostThree, Queued
    <2> QED BY <1>2, <1>6, <1>7, <2>1, SMTT(40) DEF AtMostThree, Queued
  <1> QED BY <1>8, <1>9, <1>10, <1>11, <1>12, <1>13 DEF EventsOf, p, t

LEMMA EventsUnblockWithdrawn ==
    ASSUME NEW q \in Seq(Event), NEW id \in Ids, NEW b \in Blocker, NEW c \in Blocker,
           q # <<>>, EventsOf(q, id, b), 
           Head(q) = Ev(id, "MoveBeforeUnblockedToUnblocked"),
           b.status = "WaitUnblockedMove",
           ~c.requested, c.inQueue = b.inQueue, c.status = "ProgressBlocked"
    PROVE  EventsOf(Tail(q), id, c)
  <1> DEFINE t == Tail(q)
  <1>1. /\ t \in Seq(Event) /\ Len(q) \in Nat \ {0} /\ Len(t) = Len(q) - 1
        /\ \A k \in 1..Len(t) : k + 1 \in 1..Len(q) /\ t[k] = q[k + 1]
        /\ \A k \in 1..Len(q) : k # 1 => k - 1 \in 1..Len(t) /\ t[k - 1] = q[k]
        /\ q[1] = Head(q) /\ 1 \in 1..Len(q)
    BY TailFacts
  <1> HIDE DEF t
  <1>2. q[1].id = id /\ q[1].type = "MoveBeforeUnblockedToUnblocked"
    BY <1>1 DEF Ev
  <1>3. \A k \in 1..Len(t) : t[k].id # id
    BY <1>1, <1>2 DEF EventsOf, Unblocking, Queued, LastOf
  <1>4. ~c.inQueue
    BY DEF EventsOf, Unblocking
  <1>5. OneRequest(t, id, c)
    BY <1>3, <1>4 DEF OneRequest, Queued, LastOf
  <1>6. NotYetBlocked(t, id, c)
    BY <1>3, <1>4 DEF NotYetBlocked, Queued, LastOf
  <1>7. LeftoversFirst(t, id, c)
    BY <1>3, <1>4 DEF LeftoversFirst, Queued, LastOf
  <1>8. AboutToUnblock(t, id, c)
    BY <1>3, <1>4 DEF AboutToUnblock, Queued, LastOf
  <1>9. Unblocking(t, id, c)
    BY <1>3, <1>4 DEF Unblocking, Queued, LastOf
  <1>10. AtMostThree(t, id, c)
    BY <1>3, <1>4 DEF EventsOf, AtMostThree, Queued
  <1> QED BY <1>5, <1>6, <1>7, <1>8, <1>9, <1>10 DEF EventsOf, t

LEMMA NoEventsOfUnblocked ==
    ASSUME NEW q \in Seq(Event), NEW id \in Ids, NEW b \in Blocker,
           q # <<>>, EventsOf(q, id, b),
           Head(q) = Ev(id, "MoveBeforeUnblockedToUnblocked"),
           b.status = "WaitUnblockedMove"
    PROVE  \A k \in 1..Len(Tail(q)) : Tail(q)[k].id # id
  BY TailFacts DEF EventsOf, Unblocking, Queued, LastOf, Ev

(* A queue whose events are those of existing blockers holds at most three *)
(* of each: a request, a final event or second move, and one other.        *)
LEMMA QueueBound ==
    ASSUME NEW q \in Seq(Event),
           \A k \in 1..Len(q) : \E b \in Blocker : EventsOf(q, q[k].id, b)
    PROVE  Len(q) <= 3 * Cardinality(Ids)
  <1> DEFINE D == 1..Len(q)
             Second(k) == \E j \in D : /\ j < k /\ q[j].id = q[k].id
                                       /\ q[j].type = "MoveBlockedToBeforeUnblocked"
             slot(k) == IF q[k].type = "UnblockRequested" THEN 1
                        ELSE IF q[k].type = "MoveBeforeUnblockedToUnblocked" THEN 2
                        ELSE IF q[k].type = "MoveBlockedToBeforeUnblocked" /\ Second(k) THEN 2
                        ELSE 3
             f == [k \in D |-> <<q[k].id, slot(k)>>]
  <1>1. Len(q) \in Nat /\ \A k \in D : q[k] \in Event
    BY AppendFacts
  <1>2. /\ IsFiniteSet(Ids \X (1..3)) /\ Cardinality(Ids) \in Nat
        /\ Cardinality(Ids \X (1..3)) = 3 * Cardinality(Ids)
    <2>1. IsFiniteSet(1..3) /\ Cardinality(1..3) = IF 1 > 3 THEN 0 ELSE 3 - 1 + 1
      <3>1. 1 \in Int /\ 3 \in Int
        OBVIOUS
      <3> QED BY <3>1, FS_Interval
    <2>2. Cardinality(Ids) \in Nat
      BY CapacityAssumption, FS_CardinalityType
    <2>3. /\ IsFiniteSet(Ids \X (1..3))
          /\ Cardinality(Ids \X (1..3)) = Cardinality(Ids) * Cardinality(1..3)
      BY CapacityAssumption, <2>1, FS_Product
    <2> QED BY <2>1, <2>2, <2>3
  <1>3. IsFiniteSet(D) /\ Cardinality(D) = Len(q)
    <2>1. 1 \in Int /\ Len(q) \in Int
      BY <1>1
    <2>2. IsFiniteSet(1..Len(q)) /\ Cardinality(1..Len(q)) = IF 1 > Len(q) THEN 0 ELSE Len(q) - 1 + 1
      BY <2>1, FS_Interval
    <2> QED BY <1>1, <2>2
  <1>4. f \in [D -> Ids \X (1..3)]
    BY <1>1 DEF Event
  <1>5. ASSUME NEW k \in D, NEW l \in D, k < l, q[k].id = q[l].id, slot(k) = slot(l)
        PROVE  FALSE
    <2> DEFINE id == q[k].id
    <2>1. PICK b \in Blocker : EventsOf(q, id, b)
      OBVIOUS
    <2>2. q[k].type \in EventType /\ q[l].type \in EventType
      BY <1>1 DEF Event
    <2>3. CASE q[k].type = "UnblockRequested" \/ q[l].type = "UnblockRequested"
      BY <1>5, <2>1, <2>3 DEF EventsOf, OneRequest, Queued
    <2>4. CASE q[k].type = "MoveToBlocked" \/ q[l].type = "MoveToBlocked"
      <3>1. b.status = "WaitBlockedMove"
        BY <1>5, <2>1, <2>4 DEF EventsOf, NotYetBlocked, Queued
      <3>2. q[k].type = "UnblockRequested" \/ q[l].type = "UnblockRequested"
        <4> HIDE DEF slot
        <4> QED BY <1>1, <1>5, <2>1, <2>4, <3>1 DEF EventsOf, NotYetBlocked, Queued
      <3> QED BY <2>3, <3>2
    <2>5. CASE /\ q[k].type = "MoveBlockedToBeforeUnblocked"
               /\ q[l].type = "MoveBlockedToBeforeUnblocked"
      <3>1. Second(l)
        BY <1>5, <2>5
      <3>2. PICK j \in D : /\ j < k /\ q[j].id = id
                           /\ q[j].type = "MoveBlockedToBeforeUnblocked"
        BY <1>5, <2>5, <3>1
      <3>3. j # k /\ k # l /\ j # l
        BY <1>1, <1>5, <3>2
      <3> QED BY <1>5, <2>1, <2>5, <3>2, <3>3 DEF EventsOf, AtMostThree, Queued
    <2>6. CASE /\ q[k].type = "MoveBeforeUnblockedToUnblocked"
               /\ q[l].type = "MoveBeforeUnblockedToUnblocked"
      BY <1>5, <2>1, <2>6 DEF EventsOf, AtMostThree, Queued
    <2>7. CASE \/ /\ q[k].type = "MoveBeforeUnblockedToUnblocked"
                  /\ q[l].type = "MoveBlockedToBeforeUnblocked"
               \/ /\ q[l].type = "MoveBeforeUnblockedToUnblocked"
                  /\ q[k].type = "MoveBlockedToBeforeUnblocked"
      <3>1. PICK i \in {k, l}, j \in D :
               /\ j < i /\ q[j].id = id /\ q[j].type = "MoveBlockedToBeforeUnblocked"
               /\ q[i].type = "MoveBlockedToBeforeUnblocked"
        BY <1>5, <2>7
      <3>2. i \in D /\ j # i /\ q[i].id = id
        BY <1>1, <1>5, <3>1
      <3> QED BY <1>5, <2>1, <2>7, <3>1, <3>2 DEF EventsOf, AtMostThree, Queued
    <2> QED BY <2>2, <2>3, <2>4, <2>5, <2>6, <2>7 DEF EventType
  <1>6. ASSUME NEW k \in D, NEW l \in D, k # l, f[k] = f[l]
        PROVE  FALSE
    <2>1. q[k].id = q[l].id /\ slot(k) = slot(l)
      BY <1>6
    <2> HIDE DEF slot, f
    <2>2. k < l \/ l < k
      BY <1>1, <1>6
    <2> QED BY <1>5, <2>1, <2>2
  <1>7. ~(Cardinality(Ids \X (1..3)) < Cardinality(D))
    <2> HIDE DEF f
    <2> QED BY <1>2, <1>3, <1>4, <1>6, FS_PigeonHole, SMTT(40)
  <1> QED BY <1>1, <1>2, <1>3, <1>7

-----------------------------------------------------------------------------
(* The queue and the blockers together. *)

LEMMA OrderedBound ==
    ASSUME NEW q \in Seq(Event), NEW f, f \in [DOMAIN f -> Blocker], Ordered(q, f)
    PROVE  Len(q) <= Capacity
  <1>1. \A k \in 1..Len(q) : \E b \in Blocker : EventsOf(q, q[k].id, b)
    BY DEF Ordered
  <1>2. Len(q) \in Nat /\ Cardinality(Ids) \in Nat
    BY CapacityAssumption, FS_CardinalityType
  <1> QED BY <1>1, <1>2, QueueBound, CapacityAssumption, BoundsAssumption

(* A step on the blocker id leaves the queue as it is, adds an event of    *)
(* id, takes one away, or does both; the events of other blockers do not   *)
(* matter to it.                                                           *)
LEMMA OrderedSame ==
    ASSUME NEW q \in Seq(Event), NEW f, NEW g, NEW id, Ordered(q, f),
           DOMAIN g = DOMAIN f, \A j \in DOMAIN f : j # id => g[j] = f[j],
           id \in DOMAIN f => EventsOf(q, id, g[id])
    PROVE  Ordered(q, g)
  BY DEF Ordered

LEMMA OrderedAppend ==
    ASSUME NEW q \in Seq(Event), NEW f, NEW g, NEW e \in Event,
           f \in [DOMAIN f -> Blocker], DOMAIN f \subseteq Ids, Ordered(q, f),
           DOMAIN g = DOMAIN f \cup {e.id}, \A j \in DOMAIN f : j # e.id => g[j] = f[j],
           EventsOf(Append(q, e), e.id, g[e.id])
    PROVE  Ordered(Append(q, e), g)
  <1>1. \A k \in 1..Len(Append(q, e)) : Append(q, e)[k].id \in DOMAIN g
    BY AppendFacts DEF Ordered
  <1>2. ASSUME NEW j \in DOMAIN g, j # e.id
        PROVE  EventsOf(Append(q, e), j, g[j])
    BY <1>2, EventsAppendOther DEF Ordered
  <1> QED BY <1>1, <1>2 DEF Ordered

LEMMA OrderedTail ==
    ASSUME NEW q \in Seq(Event), NEW f, NEW g, q # <<>>,
           f \in [DOMAIN f -> Blocker], DOMAIN f \subseteq Ids, Ordered(q, f),
           DOMAIN g = DOMAIN f, \A j \in DOMAIN f : j # Head(q).id => g[j] = f[j],
           EventsOf(Tail(q), Head(q).id, g[Head(q).id])
    PROVE  Ordered(Tail(q), g)
  <1>1. \A k \in 1..Len(Tail(q)) : Tail(q)[k].id \in DOMAIN g
    BY TailFacts DEF Ordered
  <1>2. ASSUME NEW j \in DOMAIN g, j # Head(q).id
        PROVE  EventsOf(Tail(q), j, g[j])
    BY <1>2, EventsTail DEF Ordered
  <1> QED BY <1>1, <1>2 DEF Ordered

LEMMA OrderedTailAppend ==
    ASSUME NEW q \in Seq(Event), NEW f, NEW g, NEW e \in Event, q # <<>>, e.id = Head(q).id,
           f \in [DOMAIN f -> Blocker], DOMAIN f \subseteq Ids, Ordered(q, f),
           DOMAIN g = DOMAIN f, \A j \in DOMAIN f : j # e.id => g[j] = f[j],
           EventsOf(Append(Tail(q), e), e.id, g[e.id])
    PROVE  Ordered(Append(Tail(q), e), g)
  <1>1. Tail(q) \in Seq(Event) /\ e.id \in DOMAIN f
    <2>1. Tail(q) \in Seq(Event) /\ 1 \in 1..Len(q) /\ q[1] = Head(q)
      BY TailFacts
    <2> QED BY <2>1 DEF Ordered
  <1>2. \A k \in 1..Len(Tail(q)) : Tail(q)[k].id \in DOMAIN g
    BY TailFacts DEF Ordered
  <1>3. \A k \in 1..Len(Append(Tail(q), e)) : Append(Tail(q), e)[k].id \in DOMAIN g
    <2> DEFINE t == Tail(q)
    <2>1. t \in Seq(Event) /\ \A k \in 1..Len(t) : t[k].id \in DOMAIN g
      BY <1>1, <1>2
    <2> HIDE DEF t
    <2>2. \A k \in 1..Len(Append(t, e)) : Append(t, e)[k].id \in DOMAIN g
      BY <1>1, <2>1, AppendFacts
    <2> QED BY <2>2 DEF t
  <1>4. ASSUME NEW j \in DOMAIN g, j # e.id
        PROVE  EventsOf(Append(Tail(q), e), j, g[j])
    <2>1. EventsOf(Tail(q), j, g[j])
      BY <1>4, EventsTail DEF Ordered
    <2> QED BY <1>1, <1>4, <2>1, EventsAppendOther
  <1> QED BY <1>3, <1>4 DEF Ordered

LEMMA OrderedRemove ==
    ASSUME NEW q \in Seq(Event), NEW f, NEW id, q # <<>>,
           Head(q).id = id, id \in DOMAIN f,
           f \in [DOMAIN f -> Blocker], DOMAIN f \subseteq Ids, Ordered(q, f),
           \A k \in 1..Len(Tail(q)) : Tail(q)[k].id # id
    PROVE  Ordered(Tail(q), [j \in DOMAIN f \ {id} |-> f[j]])
  <1>1. \A k \in 1..Len(Tail(q)) : Tail(q)[k].id \in DOMAIN f \ {id}
    BY TailFacts DEF Ordered
  <1>2. ASSUME NEW j \in DOMAIN f \ {id}
        PROVE  EventsOf(Tail(q), j, f[j])
    BY EventsTail DEF Ordered
  <1> QED BY <1>1, <1>2 DEF Ordered

-----------------------------------------------------------------------------
(* Type correctness. *)

LEMMA InitTypeOK == Init => TypeOK
  <1> SUFFICES ASSUME Init PROVE TypeOK
    OBVIOUS
  <1>1. DOMAIN blockers \subseteq Ids /\ blockers \in [DOMAIN blockers -> Blocker]
    BY DEF Init
  <1>2. queue \in Seq(Event)
    BY DEF Init
  <1> QED BY <1>1, <1>2 DEF Init, TypeOK, Moments

LEMMA AddEventType ==
    ASSUME TypeOK, NEW q \in Seq(Event), NEW id \in Ids, NEW type \in EventType,
           AddEvent(q, id, type)
    PROVE  /\ queue' \in Seq(Event)
           /\ crashed' \in {"no", "missing_blocker", "full", "closed"}
  <1>1. Ev(id, type) \in Event
    BY DEF Ev, Event
  <1>2. Append(q, Ev(id, type)) \in Seq(Event)
    BY <1>1, AppendFacts
  <1> QED BY <1>2 DEF AddEvent, TypeOK

LEMMA RequestUnblockType ==
    ASSUME TypeOK, NEW id \in Ids, RequestUnblock(id)
    PROVE  /\ DOMAIN blockers' = DOMAIN blockers
           /\ blockers' \in [DOMAIN blockers -> Blocker]
           /\ queue' \in Seq(Event)
           /\ crashed' \in {"no", "missing_blocker", "full", "closed"}
  <1>1. CASE Exists(id) /\ ~blockers[id].requested
    <2>1. blockers[id] \in Blocker
      BY <1>1 DEF TypeOK, Exists
    <2>2. Requested(blockers[id]) \in Blocker
      BY <2>1 DEF Requested, NeedsEvent, Blocker
    <2>3. blockers' = [blockers EXCEPT ![id] = Requested(blockers[id])]
      BY <1>1 DEF RequestUnblock
    <2>4. queue' \in Seq(Event) /\ crashed' \in {"no", "missing_blocker", "full", "closed"}
      <3>1. CASE NeedsEvent(blockers[id])
        <4>1. AddEvent(queue, id, "UnblockRequested")
          BY <1>1, <3>1 DEF RequestUnblock
        <4>2. queue \in Seq(Event) /\ "UnblockRequested" \in EventType
          BY DEF TypeOK, EventType
        <4> QED BY <4>1, <4>2, AddEventType
      <3>2. CASE ~NeedsEvent(blockers[id])
        BY <1>1, <3>2 DEF RequestUnblock, TypeOK
      <3> QED BY <3>1, <3>2
    <2> QED BY <2>2, <2>3, <2>4 DEF TypeOK
  <1>2. CASE ~(Exists(id) /\ ~blockers[id].requested)
    BY <1>2 DEF RequestUnblock, TypeOK
  <1> QED BY <1>1, <1>2

LEMMA SpawnTimerType ==
    ASSUME TypeOK, NEW ts \in SUBSET timers, NEW h \in Handles, NEW id \in Ids, NEW end \in Nat,
           SpawnTimer(ts, h, id, end)
    PROVE  timers' \subseteq Timer
  BY DEF TypeOK, SpawnTimer, Timer

LEMMA FreshHandleType ==
    ASSUME FreeHandles # {}
    PROVE  FreshHandle \in Handles
  BY DEF FreshHandle, FreeHandles

LEMMA CreateBlockerType ==
    ASSUME TypeOK, NEW id \in Ids, NEW timeout \in Handles \cup {ReadyUnblock},
           CreateBlocker(id, timeout)
    PROVE  /\ DOMAIN blockers' \subseteq Ids
           /\ blockers' \in [DOMAIN blockers' -> Blocker]
           /\ queue' \in Seq(Event)
           /\ crashed' \in {"no", "missing_blocker", "full", "closed"}
  <1>1. NewBlocker(timeout) \in Blocker
    BY DEF NewBlocker, Blocker, ProgressStatus
  <1>2. queue' \in Seq(Event) /\ crashed' \in {"no", "missing_blocker", "full", "closed"}
    <2>1. AddEvent(queue, id, "MoveToBlocked") /\ queue \in Seq(Event)
      BY DEF CreateBlocker, TypeOK
    <2>2. "MoveToBlocked" \in EventType
      BY DEF EventType
    <2> QED BY <2>1, <2>2, AddEventType
  <1>3. DOMAIN blockers' \subseteq Ids /\ blockers' \in [DOMAIN blockers' -> Blocker]
    BY <1>1 DEF CreateBlocker, Insert, TypeOK
  <1> QED BY <1>2, <1>3

LEMMA HandleEventType ==
    ASSUME TypeOK, HandleEvent
    PROVE  TypeOK'
  <1> DEFINE id == Head(queue).id
             b  == blockers[id]
             Typed == /\ DOMAIN blockers' \subseteq Ids
                      /\ blockers' \in [DOMAIN blockers' -> Blocker]
                      /\ queue' \in Seq(Event)
                      /\ moments' \in [Ids -> Moments]
                      /\ crashed' \in {"no", "missing_blocker", "full", "closed"}
  <1>1. /\ Head(queue) \in Event /\ id \in Ids /\ Tail(queue) \in Seq(Event)
        /\ Head(queue).type \in EventType
    BY TailFacts DEF HandleEvent, TypeOK, Event
  <1>2. "MoveBlockedToBeforeUnblocked" \in EventType /\ "MoveBeforeUnblockedToUnblocked" \in EventType
    BY DEF EventType
  <1>3. CASE ~Exists(id)
    BY <1>3 DEF HandleEvent, TypeOK
  <1>4. CASE Exists(id)
    <2>1. b \in Blocker /\ id \in DOMAIN blockers
      BY <1>4 DEF TypeOK, Exists
    <2>2. MoveNextState(id, b, Head(queue).type)
      BY <1>4 DEF HandleEvent
    <2>10. /\ DOMAIN blockers \subseteq Ids /\ blockers \in [DOMAIN blockers -> Blocker]
           /\ moments \in [Ids -> Moments] /\ crashed \in {"no", "missing_blocker", "full", "closed"}
      BY DEF TypeOK
    <2> HIDE DEF id, b
    <2>3. ASSUME MovesToBlocked(id, b) PROVE Typed
      <3>1. queue' \in Seq(Event) /\ crashed' \in {"no", "missing_blocker", "full", "closed"}
        BY <1>1, <1>2, <2>3, AddEventType DEF MovesToBlocked, TypeOK
      <3>2. /\ DOMAIN blockers' \subseteq Ids
            /\ blockers' \in [DOMAIN blockers' -> Blocker]
        BY <1>1, <2>1, <2>10, <2>3 DEF MovesToBlocked, Blocker, ProgressStatus
      <3>3. moments' \in [Ids -> Moments]
        BY <1>1, <2>10, <2>3 DEF MovesToBlocked, Start, Moments
      <3> QED BY <3>1, <3>2, <3>3
    <2>4. ASSUME StartsUnblocking(id, b) PROVE Typed
      <3>1. queue' \in Seq(Event) /\ crashed' \in {"no", "missing_blocker", "full", "closed"}
        BY <1>1, <1>2, <2>4, AddEventType DEF StartsUnblocking, TypeOK
      <3> QED BY <1>1, <2>1, <2>10, <2>4, <3>1
            DEF StartsUnblocking, Blocker, ProgressStatus
    <2>5. ASSUME MovesBeforeUnblocked(id, b) PROVE Typed
      <3>1. queue' \in Seq(Event) /\ crashed' \in {"no", "missing_blocker", "full", "closed"}
        BY <1>1, <1>2, <2>5, AddEventType DEF MovesBeforeUnblocked, TypeOK
      <3>2. /\ DOMAIN blockers' \subseteq Ids
            /\ blockers' \in [DOMAIN blockers' -> Blocker]
        BY <1>1, <2>1, <2>10, <2>5, ZenonT(40) DEF MovesBeforeUnblocked, Blocker, ProgressStatus
      <3>3. moments' \in [Ids -> Moments]
        BY <1>1, <2>10, <2>5 DEF MovesBeforeUnblocked, Start, Moments
      <3> QED BY <3>1, <3>2, <3>3
    <2>6. ASSUME MovesToUnblocked(id, b) PROVE Typed
      BY <1>1, <2>1, <2>10, <2>6, SMTT(40)
         DEF MovesToUnblocked, Remove, Start, Blocker, ProgressStatus, Moments
    <2>7. ASSUME IgnoresEvent(b, Head(queue).type) PROVE Typed
      BY <1>1, <2>10, <2>7 DEF IgnoresEvent
    <2>8. Typed
      BY <2>2, <2>3, <2>4, <2>5, <2>6, <2>7 DEF MoveNextState
    <2>9. /\ timers' = timers /\ now' = now /\ cancelled' = cancelled /\ open' \in BOOLEAN
          /\ until' \in [Ids -> Nat]
      BY <1>4 DEF HandleEvent, TypeOK, id
    <2> QED BY <2>8, <2>9 DEF TypeOK
  <1> QED BY <1>3, <1>4

LEMMA StepTypeOK == TypeOK /\ [Next]_vars => TypeOK'
  <1> SUFFICES ASSUME TypeOK, [Next]_vars
               PROVE  TypeOK'
    OBVIOUS
  <1> USE HandlesAssumption, DurationsAssumption, BoundsAssumption
  <1>1. ASSUME NEW id \in Ids, BlockManual(id)
        PROVE  TypeOK'
    <2>1. CASE CreateBlocker(id, ReadyUnblock) /\ until' = [until EXCEPT ![id] = Never]
      BY <1>1, <2>1, CreateBlockerType DEF BlockManual, TypeOK, Never
    <2>2. CASE ~CreateBlocker(id, ReadyUnblock)
      <3>1. /\ Exists(id) /\ until' = [until EXCEPT ![id] = Never]
            /\ blockers' = [blockers EXCEPT ![id] = RolledBack(blockers[id])]
            /\ UNCHANGED <<queue, crashed, timers, now, moments, cancelled, open>>
        BY <1>1, <2>2 DEF BlockManual
      <3>2. RolledBack(blockers[id]) \in Blocker
        BY <3>1, ZenonT(40) DEF TypeOK, Exists, RolledBack, Blocker, ProgressStatus
      <3> QED BY <3>1, <3>2 DEF TypeOK, Exists, Never
    <2> QED BY <1>1, <2>1, <2>2 DEF BlockManual
  <1>2. ASSUME NEW id \in Ids, NEW d \in Durations, BlockTimed(id, d)
        PROVE  TypeOK'
    <2> DEFINE end == now + d
    <2>1. end \in Nat /\ FreshHandle \in Handles
      BY <1>2, FreshHandleType DEF BlockTimed, TypeOK
    <2>2. CASE CreateBlocker(id, FreshHandle) /\ SpawnTimer(timers, FreshHandle, id, end)
      <3>1. timers' \subseteq Timer
        BY <2>1, <2>2, SpawnTimerType
      <3> QED BY <1>2, <2>1, <2>2, <3>1, CreateBlockerType DEF BlockTimed, TypeOK
    <2>3. CASE ~(CreateBlocker(id, FreshHandle) /\ SpawnTimer(timers, FreshHandle, id, end))
      <3>1. /\ Exists(id)
            /\ blockers' = [blockers EXCEPT ![id] = [RolledBack(blockers[id]) EXCEPT !.timeout = FreshHandle]]
            /\ SpawnTimer(AfterAbort(blockers[id].timeout), FreshHandle, id, end)
            /\ UNCHANGED <<queue, crashed>>
        BY <1>2, <2>3 DEF BlockTimed
      <3>2. AfterAbort(blockers[id].timeout) \in SUBSET timers
        BY DEF AfterAbort
      <3>3. timers' \subseteq Timer
        BY <2>1, <3>1, <3>2, SpawnTimerType
      <3>4. blockers[id] \in Blocker /\ [RolledBack(blockers[id]) EXCEPT !.timeout = FreshHandle] \in Blocker
        BY <2>1, <3>1 DEF TypeOK, Exists, RolledBack, Blocker, ProgressStatus
      <3> QED BY <1>2, <2>1, <3>1, <3>3, <3>4 DEF BlockTimed, TypeOK, Exists
    <2> QED BY <2>2, <2>3
  <1>3. ASSUME NEW id \in Ids, BlockLosesReceiver(id)
        PROVE  TypeOK'
    <2>1. timers' \subseteq Timer
      <3>1. CASE timers' = timers
        BY <3>1 DEF TypeOK
      <3>2. ASSUME NEW d \in Durations, FreeHandles # {}, SpawnTimer(timers, FreshHandle, id, now + d)
            PROVE  timers' \subseteq Timer
        <4>1. now + d \in Nat
          BY DEF TypeOK
        <4> QED BY <3>2, <4>1, FreshHandleType, SpawnTimerType
      <3> QED BY <1>3, <3>1, <3>2 DEF BlockLosesReceiver
    <2> QED BY <1>3, <2>1 DEF BlockLosesReceiver, AddEventLosesReceiver, TypeOK
  <1>4. ASSUME NEW id \in Ids, Unblock(id)
        PROVE  TypeOK'
    BY <1>4, RequestUnblockType DEF Unblock, TypeOK
  <1>5. ASSUME NEW id \in Ids, UnblockLosesReceiver(id)
        PROVE  TypeOK'
    <2>1. blockers[id] \in Blocker
      BY <1>5 DEF UnblockLosesReceiver, Exists, TypeOK
    <2>2. Requested(blockers[id]) \in Blocker
      BY <2>1 DEF Requested, NeedsEvent, Blocker
    <2>3. timers' \subseteq Timer
      BY <1>5 DEF UnblockLosesReceiver, TypeOK
    <2>4. until' \in [Ids -> Nat]
      <3>1. until \in [Ids -> Nat]
        BY DEF TypeOK
      <3>2. until' = [until EXCEPT ![id] = 0] \/ until' = until
        BY <1>5 DEF UnblockLosesReceiver
      <3> QED BY <3>1, <3>2
    <2>5. DOMAIN blockers' = DOMAIN blockers /\ blockers' \in [DOMAIN blockers -> Blocker]
      BY <1>5, <2>2 DEF UnblockLosesReceiver, TypeOK
    <2> QED BY <1>5, <2>3, <2>4, <2>5 DEF UnblockLosesReceiver, AddEventLosesReceiver, TypeOK
  <1>6. ASSUME NEW t \in timers, TimerWakes(t)
        PROVE  TypeOK'
    BY <1>6 DEF TimerWakes, TypeOK, Timer
  <1>7. ASSUME NEW t \in timers, TimerMarksReady(t)
        PROVE  TypeOK'
    <2>1. timers' \subseteq Timer
      BY <1>7 DEF TimerMarksReady, TypeOK, Timer
    <2>2. DOMAIN blockers' = DOMAIN blockers /\ blockers' \in [DOMAIN blockers -> Blocker]
      BY <1>7, ZenonT(40) DEF TimerMarksReady, TypeOK, Exists, Blocker
    <2> QED BY <1>7, <2>1, <2>2 DEF TimerMarksReady, TypeOK
  <1>8. ASSUME NEW t \in timers, TimerUnblocks(t)
        PROVE  TypeOK'
    <2>1. t.id \in Ids
      BY DEF TypeOK, Timer
    <2> QED BY <1>8, <2>1, RequestUnblockType DEF TimerUnblocks, TypeOK
  <1>9. CASE HandleEvent
    BY <1>9, HandleEventType
  <1>10. CASE StopBlocker
    BY <1>10 DEF StopBlocker, TypeOK
  <1>11. CASE ProcessingEnds
    BY <1>11 DEF ProcessingEnds, TypeOK
  <1>12. CASE Tick
    BY <1>12 DEF Tick, TypeOK
  <1>13. CASE UNCHANGED vars
    BY <1>13 DEF vars, TypeOK
  <1> QED BY <1>1, <1>2, <1>3, <1>4, <1>5, <1>6, <1>7, <1>8, <1>9, <1>10, <1>11, <1>12, <1>13 DEF Next

(* Every reachable state is well typed. *)
THEOREM TypeCorrect == Spec => []TypeOK
  BY InitTypeOK, StepTypeOK, PTL DEF Spec

-----------------------------------------------------------------------------
(* The order of the queue is an invariant, and with it the absence of the  *)
(* two panics.                                                             *)

SafeInv == TypeOK /\ QueueOrder /\ crashed \in {"no", "closed"}

LEMMA AddEventOrdered ==
    ASSUME TypeOK, open, NEW q \in Seq(Event), NEW id \in Ids, NEW type \in EventType,
           NEW g, g \in [DOMAIN g -> Blocker], Ordered(Append(q, Ev(id, type)), g),
           AddEvent(q, id, type)
    PROVE  queue' = Append(q, Ev(id, type)) /\ crashed' = crashed
  <1>1. Ev(id, type) \in Event
    BY DEF Ev, Event
  <1>2. /\ Append(q, Ev(id, type)) \in Seq(Event) /\ Len(q) \in Nat
        /\ Len(Append(q, Ev(id, type))) = Len(q) + 1
    BY <1>1, AppendFacts
  <1>3. Len(Append(q, Ev(id, type))) <= Capacity
    BY <1>2, OrderedBound
  <1> QED BY <1>2, <1>3, BoundsAssumption DEF AddEvent

LEMMA CreateBlockerSafe ==
    ASSUME SafeInv, open, NEW id \in Ids, NEW timeout \in Handles \cup {ReadyUnblock},
           CreateBlocker(id, timeout)
    PROVE  Ordered(queue', blockers') /\ crashed' = crashed
  <1> DEFINE e == Ev(id, "MoveToBlocked")
             c == NewBlocker(timeout)
             g == [i \in DOMAIN blockers \cup {id} |-> IF i = id THEN c ELSE blockers[i]]
  <1>1. /\ DOMAIN blockers \subseteq Ids /\ blockers \in [DOMAIN blockers -> Blocker]
        /\ queue \in Seq(Event) /\ Ordered(queue, blockers) /\ TypeOK
    BY DEF SafeInv, TypeOK, QueueOrder
  <1>2. e \in Event /\ e.id = id /\ "MoveToBlocked" \in EventType
    BY DEF Ev, Event, EventType
  <1>3. c \in Blocker /\ ~c.inQueue /\ c.status = "WaitBlockedMove"
    BY DEF NewBlocker, Blocker, ProgressStatus
  <1>4. \A k \in 1..Len(queue) : queue[k].id # id
    BY <1>1 DEF CreateBlocker, Exists, Ordered
  <1>5. EventsOf(Append(queue, e), id, c)
    BY <1>1, <1>2, <1>3, <1>4, EventsCreated
  <1>6. g \in [DOMAIN g -> Blocker] /\ DOMAIN g = DOMAIN blockers \cup {id} /\ g[id] = c
        /\ \A j \in DOMAIN blockers : j # id => g[j] = blockers[j]
    BY <1>1, <1>3
  <1> HIDE DEF g, c, e
  <1>7. Ordered(Append(queue, e), g)
    BY <1>1, <1>2, <1>5, <1>6, OrderedAppend
  <1>8. queue' = Append(queue, e) /\ crashed' = crashed
    BY <1>1, <1>2, <1>6, <1>7, AddEventOrdered DEF CreateBlocker, e
  <1>9. blockers' = g
    BY <1>8 DEF CreateBlocker, Insert, SafeInv, g, c
  <1> QED BY <1>7, <1>8, <1>9

LEMMA RequestUnblockSafe ==
    ASSUME SafeInv, open, NEW id \in Ids, RequestUnblock(id)
    PROVE  Ordered(queue', blockers') /\ crashed' = crashed
  <1> DEFINE e == Ev(id, "UnblockRequested")
             b == blockers[id]
             c == Requested(b)
             g == [blockers EXCEPT ![id] = c]
  <1>1. /\ DOMAIN blockers \subseteq Ids /\ blockers \in [DOMAIN blockers -> Blocker]
        /\ queue \in Seq(Event) /\ Ordered(queue, blockers) /\ TypeOK
    BY DEF SafeInv, TypeOK, QueueOrder
  <1>2. CASE ~(Exists(id) /\ ~blockers[id].requested)
    BY <1>1, <1>2 DEF RequestUnblock
  <1>3. CASE Exists(id) /\ ~blockers[id].requested
    <2>1. e \in Event /\ e.id = id /\ "UnblockRequested" \in EventType
      BY DEF Ev, Event, EventType
    <2>2. id \in DOMAIN blockers /\ b \in Blocker /\ EventsOf(queue, id, b)
      BY <1>1, <1>3 DEF Exists, Ordered
    <2>3. c \in Blocker /\ c.status = b.status
      BY <2>2 DEF Requested, NeedsEvent, Blocker
    <2>4. c.inQueue = (b.inQueue \/ NeedsEvent(b))
      BY <2>2 DEF Requested, Blocker
    <2>5. /\ g \in [DOMAIN g -> Blocker] /\ DOMAIN g = DOMAIN blockers /\ g[id] = c
          /\ \A j \in DOMAIN blockers : j # id => g[j] = blockers[j]
      BY <1>1, <2>2, <2>3
    <2>6. blockers' = g
      BY <1>3 DEF RequestUnblock
    <2> HIDE DEF g, c, e, b
    <2>7. CASE NeedsEvent(b)
      <3>1. EventsOf(Append(queue, e), id, c)
        BY <1>1, <2>1, <2>2, <2>3, <2>4, <2>7, EventsRequested DEF e
      <3>2. Ordered(Append(queue, e), g)
        BY <1>1, <2>1, <2>2, <2>5, <3>1, OrderedAppend
      <3>3. queue' = Append(queue, e) /\ crashed' = crashed
        BY <1>1, <1>3, <2>1, <2>5, <2>7, <3>2, AddEventOrdered DEF RequestUnblock, e, b
      <3> QED BY <2>6, <3>2, <3>3
    <2>8. CASE ~NeedsEvent(b)
      <3>1. c.inQueue = b.inQueue
        BY <2>2, <2>4, <2>8 DEF Blocker
      <3>2. EventsOf(queue, id, c)
        BY <1>1, <2>2, <2>3, <2>8, <3>1, EventsRequestedBefore
      <3>3. Ordered(queue, g)
        BY <1>1, <2>5, <3>2, OrderedSame
      <3>4. queue' = queue /\ crashed' = crashed
        BY <1>3, <2>8 DEF RequestUnblock, b
      <3> QED BY <2>6, <3>3, <3>4
    <2> QED BY <2>7, <2>8
  <1> QED BY <1>2, <1>3

LEMMA RolledBackSafe ==
    ASSUME SafeInv, open, NEW id \in Ids, Exists(id), NEW h \in Handles \cup {ReadyUnblock},
           \/ blockers' = [blockers EXCEPT ![id] = RolledBack(@)]
           \/ blockers' = [blockers EXCEPT ![id] = [RolledBack(@) EXCEPT !.timeout = h]]
    PROVE  Ordered(queue, blockers')
  <1> DEFINE b == blockers[id]
             c == blockers'[id]
  <1>1. /\ DOMAIN blockers \subseteq Ids /\ blockers \in [DOMAIN blockers -> Blocker]
        /\ queue \in Seq(Event) /\ Ordered(queue, blockers)
    BY DEF SafeInv, TypeOK, QueueOrder
  <1>2. id \in DOMAIN blockers /\ b \in Blocker /\ EventsOf(queue, id, b)
    BY <1>1 DEF Exists, Ordered
  <1>3. /\ c \in Blocker /\ ~c.requested /\ c.inQueue = b.inQueue
        /\ c.status = IF b.status = "WaitBlockedMove" THEN b.status ELSE "ProgressBlocked"
    <2>1. c = RolledBack(b) \/ c = [RolledBack(b) EXCEPT !.timeout = h]
      BY <1>1, <1>2
    <2>2. CASE c = RolledBack(b)
      BY <1>2, <2>2 DEF RolledBack, Blocker, ProgressStatus
    <2>3. CASE c = [RolledBack(b) EXCEPT !.timeout = h]
      <3>1. /\ RolledBack(b) \in Blocker /\ ~RolledBack(b).requested /\ RolledBack(b).inQueue = b.inQueue
            /\ RolledBack(b).status = IF b.status = "WaitBlockedMove" THEN b.status ELSE "ProgressBlocked"
        BY <1>2 DEF RolledBack, Blocker, ProgressStatus
      <3> HIDE DEF c
      <3> QED BY <2>3, <3>1 DEF Blocker
    <2> QED BY <2>1, <2>2, <2>3
  <1>4. DOMAIN blockers' = DOMAIN blockers /\ \A j \in DOMAIN blockers : j # id => blockers'[j] = blockers[j]
    BY <1>1, <1>2
  <1> HIDE DEF b, c
  <1>5. EventsOf(queue, id, c)
    BY <1>1, <1>2, <1>3, EventsRolledBack
  <1> QED BY <1>1, <1>4, <1>5, OrderedSame DEF c

(* Everything a turn of the processor does to a blocker that exists. *)
LEMMA MoveNextStateSafe ==
    ASSUME SafeInv, open, queue # <<>>, Exists(Head(queue).id),
           MoveNextState(Head(queue).id, blockers[Head(queue).id], Head(queue).type)
    PROVE  Ordered(queue', blockers') /\ crashed' = crashed
  <1> DEFINE id == Head(queue).id
             b  == blockers[id]
             c  == blockers'[id]
  <1>1. /\ DOMAIN blockers \subseteq Ids /\ blockers \in [DOMAIN blockers -> Blocker]
        /\ queue \in Seq(Event) /\ Ordered(queue, blockers) /\ TypeOK
    BY DEF SafeInv, TypeOK, QueueOrder
  <1>2. /\ id \in DOMAIN blockers /\ id \in Ids /\ b \in Blocker /\ EventsOf(queue, id, b)
        /\ Tail(queue) \in Seq(Event) /\ Head(queue) = Ev(id, Head(queue).type)
    BY <1>1, TailFacts DEF Exists, Ordered, Event, Ev
  <1>3. /\ Ev(id, "MoveBlockedToBeforeUnblocked") \in Event
        /\ Ev(id, "MoveBeforeUnblockedToUnblocked") \in Event
        /\ Ev(id, "MoveBlockedToBeforeUnblocked").id = id
        /\ Ev(id, "MoveBeforeUnblockedToUnblocked").id = id
        /\ "MoveBlockedToBeforeUnblocked" \in EventType
        /\ "MoveBeforeUnblockedToUnblocked" \in EventType
    BY <1>2 DEF Ev, Event, EventType
  <1>4. MoveNextState(id, b, Head(queue).type)
    OBVIOUS
  <1>5. ASSUME NEW s \in ProgressStatus, NEW x \in BOOLEAN,
               blockers' = [blockers EXCEPT ![id].inQueue = x, ![id].status = s]
        PROVE  /\ blockers' \in [DOMAIN blockers' -> Blocker] /\ DOMAIN blockers' = DOMAIN blockers
               /\ \A j \in DOMAIN blockers : j # id => blockers'[j] = blockers[j]
               /\ c \in Blocker /\ c.requested = b.requested /\ c.inQueue = x /\ c.status = s
    BY <1>1, <1>2, <1>5 DEF Blocker
  <1>6. ASSUME NEW s \in ProgressStatus, blockers' = [blockers EXCEPT ![id].status = s]
        PROVE  /\ blockers' \in [DOMAIN blockers' -> Blocker] /\ DOMAIN blockers' = DOMAIN blockers
               /\ \A j \in DOMAIN blockers : j # id => blockers'[j] = blockers[j]
               /\ c \in Blocker /\ c.requested = b.requested /\ c.inQueue = b.inQueue /\ c.status = s
    BY <1>1, <1>2, <1>6 DEF Blocker
  <1>7. b.requested \in BOOLEAN /\ b.inQueue \in BOOLEAN /\ b.status \in ProgressStatus
    BY <1>2 DEF Blocker
  <1>8. /\ "ProgressBlocked" \in ProgressStatus /\ "WaitBeforeUnblockedMove" \in ProgressStatus
        /\ "WaitUnblockedMove" \in ProgressStatus
    BY DEF ProgressStatus
  <1> HIDE DEF id, b
  <1>9. CASE Head(queue).type = "MoveToBlocked" /\ MovesToBlocked(id, b)
    <2>1. CASE b.requested
      <3> DEFINE e == Ev(id, "MoveBlockedToBeforeUnblocked")
      <3>1. /\ blockers' = [blockers EXCEPT ![id].status = "WaitBeforeUnblockedMove"]
            /\ AddEvent(Tail(queue), id, "MoveBlockedToBeforeUnblocked")
        BY <1>9, <2>1 DEF MovesToBlocked
      <3>2. /\ blockers' \in [DOMAIN blockers' -> Blocker] /\ DOMAIN blockers' = DOMAIN blockers
            /\ \A j \in DOMAIN blockers : j # id => blockers'[j] = blockers[j]
            /\ c \in Blocker /\ c.inQueue = b.inQueue /\ c.status = "WaitBeforeUnblockedMove"
        BY <1>6, <1>7, <1>8, <3>1
      <3> HIDE DEF c
      <3>3. EventsOf(Append(Tail(queue), e), id, c)
        BY <1>1, <1>2, <1>3, <1>9, <3>2, EventsMovedOn
      <3> HIDE DEF e
      <3>4. Ordered(Append(Tail(queue), e), blockers')
        <4>1. e \in Event /\ e.id = Head(queue).id /\ c = blockers'[e.id]
          BY <1>3 DEF e, c, id
        <4> QED BY <1>1, <1>2, <3>2, <3>3, <4>1, OrderedTailAppend DEF id
      <3>5. AddEvent(Tail(queue), id, e.type) /\ e = Ev(id, e.type) /\ e.type \in EventType
        BY <1>3, <3>1 DEF e, Ev
      <3> QED BY <1>1, <1>2, <3>2, <3>4, <3>5, AddEventOrdered
    <2>2. CASE ~b.requested
      <3>1. blockers' = [blockers EXCEPT ![id].status = "ProgressBlocked"]
            /\ queue' = Tail(queue) /\ crashed' = crashed
        BY <1>9, <2>2 DEF MovesToBlocked
      <3>2. /\ blockers' \in [DOMAIN blockers' -> Blocker] /\ DOMAIN blockers' = DOMAIN blockers
            /\ \A j \in DOMAIN blockers : j # id => blockers'[j] = blockers[j]
            /\ c \in Blocker /\ ~c.requested /\ c.inQueue = b.inQueue /\ c.status = "ProgressBlocked"
        BY <1>6, <1>7, <1>8, <3>1, <2>2
      <3> HIDE DEF c
      <3>4. EventsOf(Tail(queue), id, c)
        BY <1>1, <1>2, <1>9, <2>2, <3>2, EventsMovedToBlocked
      <3>3. Ordered(Tail(queue), blockers')
        BY <1>1, <1>2, <3>2, <3>4, OrderedTail DEF id, c
      <3> QED BY <3>1, <3>3
    <2> QED BY <1>7, <2>1, <2>2
  <1>10. CASE Head(queue).type = "UnblockRequested" /\ StartsUnblocking(id, b)
    <2>1. CASE b.status = "ProgressBlocked"
      <3> DEFINE e == Ev(id, "MoveBlockedToBeforeUnblocked")
      <3>1. /\ blockers' = [blockers EXCEPT ![id].inQueue = FALSE,
                                            ![id].status = "WaitBeforeUnblockedMove"]
            /\ AddEvent(Tail(queue), id, "MoveBlockedToBeforeUnblocked")
        BY <1>1, <1>2, <1>10, <2>1 DEF StartsUnblocking, b
      <3>2. /\ blockers' \in [DOMAIN blockers' -> Blocker] /\ DOMAIN blockers' = DOMAIN blockers
            /\ \A j \in DOMAIN blockers : j # id => blockers'[j] = blockers[j]
            /\ c \in Blocker /\ c.inQueue = FALSE /\ c.status = "WaitBeforeUnblockedMove"
        BY <1>5, <1>7, <1>8, <3>1
      <3> HIDE DEF c
      <3>3. EventsOf(Append(Tail(queue), e), id, c)
        BY <1>1, <1>2, <1>3, <1>10, <2>1, <3>2, EventsStartUnblocking
      <3> HIDE DEF e
      <3>4. Ordered(Append(Tail(queue), e), blockers')
        <4>1. e \in Event /\ e.id = Head(queue).id /\ c = blockers'[e.id]
          BY <1>3 DEF e, c, id
        <4> QED BY <1>1, <1>2, <3>2, <3>3, <4>1, OrderedTailAppend DEF id
      <3>5. AddEvent(Tail(queue), id, e.type) /\ e = Ev(id, e.type) /\ e.type \in EventType
        BY <1>3, <3>1 DEF e, Ev
      <3> QED BY <1>1, <1>2, <3>2, <3>4, <3>5, AddEventOrdered
    <2>2. CASE b.status # "ProgressBlocked"
      <3>1. /\ blockers' = [blockers EXCEPT ![id].inQueue = FALSE, ![id].status = b.status]
            /\ queue' = Tail(queue) /\ crashed' = crashed
        BY <1>1, <1>2, <1>10, <2>2 DEF StartsUnblocking, b
      <3>2. /\ blockers' \in [DOMAIN blockers' -> Blocker] /\ DOMAIN blockers' = DOMAIN blockers
            /\ \A j \in DOMAIN blockers : j # id => blockers'[j] = blockers[j]
            /\ c \in Blocker /\ ~c.inQueue /\ c.status = b.status
        BY <1>5, <1>7, <1>8, <3>1
      <3> HIDE DEF c
      <3>4. EventsOf(Tail(queue), id, c)
        BY <1>1, <1>2, <1>10, <2>2, <3>2, EventsRequestDropped
      <3>3. Ordered(Tail(queue), blockers')
        BY <1>1, <1>2, <3>2, <3>4, OrderedTail DEF id, c
      <3> QED BY <3>1, <3>3
    <2> QED BY <2>1, <2>2
  <1>11. CASE Head(queue).type = "MoveBlockedToBeforeUnblocked" /\ MovesBeforeUnblocked(id, b)
    <2> DEFINE e == Ev(id, "MoveBeforeUnblockedToUnblocked")
    <2>1. /\ b.status = "WaitBeforeUnblockedMove"
          /\ blockers' = [blockers EXCEPT ![id].status = "WaitUnblockedMove"]
          /\ AddEvent(Tail(queue), id, "MoveBeforeUnblockedToUnblocked")
      BY <1>11 DEF MovesBeforeUnblocked
    <2>2. /\ blockers' \in [DOMAIN blockers' -> Blocker] /\ DOMAIN blockers' = DOMAIN blockers
          /\ \A j \in DOMAIN blockers : j # id => blockers'[j] = blockers[j]
          /\ c \in Blocker /\ c.inQueue = b.inQueue /\ c.status = "WaitUnblockedMove"
      BY <1>6, <1>7, <1>8, <2>1
    <2> HIDE DEF c
    <2>3. EventsOf(Append(Tail(queue), e), id, c)
      <3>1. /\ Head(queue) = Ev(id, "MoveBlockedToBeforeUnblocked") /\ e \in Event
            /\ e = Ev(id, "MoveBeforeUnblockedToUnblocked") /\ b.status = "WaitBeforeUnblockedMove"
        BY <1>2, <1>3, <1>11, <2>1
      <3> HIDE DEF e
      <3> QED BY <1>1, <1>2, <2>2, <3>1, EventsBeforeUnblocked
    <2> HIDE DEF e
    <2>4. Ordered(Append(Tail(queue), e), blockers')
      <3>1. e \in Event /\ e.id = Head(queue).id /\ c = blockers'[e.id]
        BY <1>3 DEF e, c, id
      <3> QED BY <1>1, <1>2, <2>2, <2>3, <3>1, OrderedTailAppend DEF id
    <2>5. AddEvent(Tail(queue), id, e.type) /\ e = Ev(id, e.type) /\ e.type \in EventType
      BY <1>3, <2>1 DEF e, Ev
    <2> QED BY <1>1, <1>2, <2>2, <2>4, <2>5, AddEventOrdered
  <1>12. CASE Head(queue).type = "MoveBeforeUnblockedToUnblocked" /\ MovesToUnblocked(id, b)
    <2>1. b.status = "WaitUnblockedMove" /\ queue' = Tail(queue) /\ crashed' = crashed
      BY <1>12 DEF MovesToUnblocked
    <2>2. CASE b.requested
      <3>1. blockers' = [j \in DOMAIN blockers \ {id} |-> blockers[j]]
        BY <1>12, <2>2 DEF MovesToUnblocked, Remove
      <3>2. \A k \in 1..Len(Tail(queue)) : Tail(queue)[k].id # id
        BY <1>1, <1>2, <1>12, <2>1, NoEventsOfUnblocked
      <3>3. Ordered(Tail(queue), [j \in DOMAIN blockers \ {id} |-> blockers[j]])
        BY <1>1, <1>2, <3>2, OrderedRemove DEF id
      <3> QED BY <2>1, <3>1, <3>3
    <2>3. CASE ~b.requested
      <3>1. blockers' = [blockers EXCEPT ![id].status = "ProgressBlocked"]
        BY <1>12, <2>3 DEF MovesToUnblocked
      <3>2. /\ blockers' \in [DOMAIN blockers' -> Blocker] /\ DOMAIN blockers' = DOMAIN blockers
            /\ \A j \in DOMAIN blockers : j # id => blockers'[j] = blockers[j]
            /\ c \in Blocker /\ ~c.requested /\ c.inQueue = b.inQueue /\ c.status = "ProgressBlocked"
        BY <1>6, <1>7, <1>8, <3>1, <2>3
      <3> HIDE DEF c
      <3>4. EventsOf(Tail(queue), id, c)
        BY <1>1, <1>2, <1>12, <2>1, <3>2, EventsUnblockWithdrawn
      <3>3. Ordered(Tail(queue), blockers')
        BY <1>1, <1>2, <3>2, <3>4, OrderedTail DEF id, c
      <3> QED BY <2>1, <3>3
    <2> QED BY <1>7, <2>2, <2>3
  <1>13. CASE IgnoresEvent(b, Head(queue).type)
    <2>1. /\ Head(queue).type # "UnblockRequested" /\ b.status # StatusFor(Head(queue).type)
          /\ queue' = Tail(queue) /\ blockers' = blockers /\ crashed' = crashed
      BY <1>13 DEF IgnoresEvent
    <2>2. EventsOf(Tail(queue), id, b)
      BY <1>1, <1>2, <2>1, EventsTail
    <2>3. Ordered(Tail(queue), blockers)
      BY <1>1, <1>2, <2>2, OrderedTail DEF id, b
    <2> QED BY <2>1, <2>3
  <1> QED BY <1>4, <1>9, <1>10, <1>11, <1>12, <1>13 DEF MoveNextState

LEMMA InitSafe == Init => SafeInv
  <1> SUFFICES ASSUME Init PROVE SafeInv
    OBVIOUS
  <1>1. Ordered(queue, blockers)
    BY DEF Init, Ordered
  <1> QED BY <1>1, InitTypeOK DEF Init, SafeInv, QueueOrder

LEMMA StepSafe == SafeInv /\ [Next]_vars => SafeInv'
  <1> SUFFICES ASSUME SafeInv, [Next]_vars
               PROVE  SafeInv'
    OBVIOUS
  <1> USE HandlesAssumption
  <1>1. TypeOK /\ TypeOK' /\ crashed \in {"no", "closed"} /\ (open => Ordered(queue, blockers))
    BY StepTypeOK DEF SafeInv, QueueOrder
  <1>2. SUFFICES (open' => Ordered(queue', blockers')) /\ crashed' \in {"no", "closed"}
    BY <1>1 DEF SafeInv, QueueOrder
  <1>3. ASSUME ~open, open' = open,
               \/ \E id \in Ids : \E h : CreateBlocker(id, h)
               \/ \E id \in Ids : RequestUnblock(id)
        PROVE  (open' => Ordered(queue', blockers')) /\ crashed' \in {"no", "closed"}
    BY <1>1, <1>3 DEF CreateBlocker, RequestUnblock, AddEvent
  <1>4. ASSUME NEW id \in Ids, BlockManual(id)
        PROVE  (open' => Ordered(queue', blockers')) /\ crashed' \in {"no", "closed"}
    <2>1. CASE CreateBlocker(id, ReadyUnblock)
      <3>1. open' = open
        BY <1>4 DEF BlockManual
      <3>2. open => Ordered(queue', blockers') /\ crashed' = crashed
        BY <2>1, CreateBlockerSafe
      <3> QED BY <1>1, <1>3, <2>1, <3>1, <3>2
    <2>2. CASE ~CreateBlocker(id, ReadyUnblock)
      <3>1. /\ Exists(id) /\ UNCHANGED <<queue, crashed, open>>
            /\ blockers' = [blockers EXCEPT ![id] = RolledBack(@)]
        BY <1>4, <2>2 DEF BlockManual
      <3>2. open => Ordered(queue, blockers')
        BY <3>1, RolledBackSafe
      <3> QED BY <1>1, <3>1, <3>2
    <2> QED BY <2>1, <2>2
  <1>5. ASSUME NEW id \in Ids, NEW d \in Durations, BlockTimed(id, d)
        PROVE  (open' => Ordered(queue', blockers')) /\ crashed' \in {"no", "closed"}
    <2>1. open' = open /\ FreshHandle \in Handles
      BY <1>5, FreshHandleType DEF BlockTimed
    <2>2. CASE CreateBlocker(id, FreshHandle)
      <3>1. open => Ordered(queue', blockers') /\ crashed' = crashed
        BY <2>1, <2>2, CreateBlockerSafe
      <3> QED BY <1>1, <1>3, <2>1, <2>2, <3>1
    <2>3. CASE ~CreateBlocker(id, FreshHandle)
      <3>1. /\ Exists(id) /\ UNCHANGED <<queue, crashed>>
            /\ blockers' = [blockers EXCEPT ![id] = [RolledBack(@) EXCEPT !.timeout = FreshHandle]]
        BY <1>5, <2>3 DEF BlockTimed
      <3>2. open => Ordered(queue, blockers')
        BY <2>1, <3>1, RolledBackSafe
      <3> QED BY <1>1, <2>1, <3>1, <3>2
    <2> QED BY <2>2, <2>3
  <1>6. ASSUME NEW id \in Ids, BlockLosesReceiver(id)
        PROVE  (open' => Ordered(queue', blockers')) /\ crashed' \in {"no", "closed"}
    BY <1>6 DEF BlockLosesReceiver, AddEventLosesReceiver
  <1>7. ASSUME NEW id \in Ids, RequestUnblock(id), open' = open
        PROVE  (open' => Ordered(queue', blockers')) /\ crashed' \in {"no", "closed"}
    <2>1. open => Ordered(queue', blockers') /\ crashed' = crashed
      BY <1>7, RequestUnblockSafe
    <2> QED BY <1>1, <1>3, <1>7, <2>1
  <1>8. ASSUME NEW id \in Ids, UnblockLosesReceiver(id)
        PROVE  (open' => Ordered(queue', blockers')) /\ crashed' \in {"no", "closed"}
    BY <1>8 DEF UnblockLosesReceiver, AddEventLosesReceiver
  <1>9. ASSUME NEW t \in timers, TimerMarksReady(t)
        PROVE  (open' => Ordered(queue', blockers')) /\ crashed' \in {"no", "closed"}
    <2>1. /\ UNCHANGED <<queue, crashed, open>> /\ DOMAIN blockers' = DOMAIN blockers
          /\ \A j \in DOMAIN blockers :
               /\ blockers[j] \in Blocker /\ blockers'[j] \in Blocker
               /\ blockers'[j].requested = blockers[j].requested
               /\ blockers'[j].inQueue = blockers[j].inQueue
               /\ blockers'[j].status = blockers[j].status
      BY <1>1, <1>9 DEF TimerMarksReady, TypeOK, Exists, Blocker
    <2>2. ASSUME open, NEW j \in DOMAIN blockers
          PROVE  EventsOf(queue, j, blockers'[j])
      BY <1>1, <2>1, <2>2
         DEF Ordered, EventsOf, OneRequest, NotYetBlocked, LeftoversFirst, AboutToUnblock,
             Unblocking, AtMostThree
    <2>3. open => Ordered(queue, blockers')
      BY <1>1, <2>1, <2>2 DEF Ordered
    <2> QED BY <1>1, <2>1, <2>3
  <1>10. CASE HandleEvent
    <2>1. open /\ queue # <<>>
      BY <1>10 DEF HandleEvent
    <2>2. Exists(Head(queue).id)
      <3>1. 1 \in 1..Len(queue) /\ Head(queue) = queue[1]
        BY <1>1, <2>1, TailFacts DEF TypeOK
      <3> QED BY <1>1, <2>1, <3>1 DEF Ordered, Exists
    <2>3. MoveNextState(Head(queue).id, blockers[Head(queue).id], Head(queue).type)
      BY <1>10, <2>2 DEF HandleEvent
    <2> QED BY <1>1, <2>1, <2>2, <2>3, MoveNextStateSafe
  <1>11. ASSUME NEW t \in timers, TimerUnblocks(t)
         PROVE  (open' => Ordered(queue', blockers')) /\ crashed' \in {"no", "closed"}
    <2>1. t.id \in Ids
      BY <1>1 DEF TypeOK, Timer
    <2> QED BY <1>7, <1>11, <2>1 DEF TimerUnblocks
  <1>12. ASSUME \/ \E t \in timers : TimerWakes(t)
                \/ StopBlocker \/ ProcessingEnds \/ Tick \/ UNCHANGED vars
         PROVE  (open' => Ordered(queue', blockers')) /\ crashed' \in {"no", "closed"}
    BY <1>1, <1>12 DEF TimerWakes, StopBlocker, ProcessingEnds, Tick, vars
  <1>13. ASSUME NEW id \in Ids, Unblock(id)
         PROVE  (open' => Ordered(queue', blockers')) /\ crashed' \in {"no", "closed"}
    BY <1>7, <1>13 DEF Unblock
  <1> QED BY <1>4, <1>5, <1>6, <1>8, <1>9, <1>10, <1>11, <1>12, <1>13 DEF Next

LEMMA SafeInvariant == Spec => []SafeInv
  BY InitSafe, StepSafe, PTL DEF Spec

(* The queue holds the events that the blockers call for, in their order,  *)
(* whatever block(), unblock(), the timers and stop_blocker() do.          *)
THEOREM QueueOrderHolds == Spec => []QueueOrder
  BY SafeInvariant, PTL DEF SafeInv

(* move_next_blocker_state_if_can() never meets an event whose blocker is  *)
(* gone, the crash that the comment on is_unblock_in_queue fears.          *)
THEOREM NoMissingBlockerHolds == Spec => []NoMissingBlocker
  <1>1. SafeInv => NoMissingBlocker
    BY DEF SafeInv, NoMissingBlocker
  <1> QED BY <1>1, SafeInvariant, PTL

(* A channel with room for three events of each blocker never fills up, so *)
(* add_event() does not panic on a full channel.                           *)
THEOREM NeverFullHolds == Spec => []NeverFull
  <1>1. SafeInv => NeverFull
    BY DEF SafeInv, NeverFull
  <1> QED BY <1>1, SafeInvariant, PTL

(* No unblock() is lost while the processor runs.                          *)
THEOREM NoLostUnblockHolds == Spec => []NoLostUnblock
  <1>1. ASSUME SafeInv PROVE NoLostUnblock
    <2> SUFFICES ASSUME open, NEW id \in DOMAIN blockers, blockers[id].requested
                 PROVE  \E k \in 1..Len(queue) : queue[k] = Ev(id, CarriedBy(blockers[id]))
      BY DEF NoLostUnblock
    <2> DEFINE b == blockers[id]
    <2>1. /\ b \in Blocker /\ EventsOf(queue, id, b) /\ queue \in Seq(Event)
      BY <1>1 DEF SafeInv, TypeOK, QueueOrder, Ordered
    <2>2. \A k \in 1..Len(queue) : queue[k] \in Event
      BY <2>1
    <2> HIDE DEF b
    <2>3. \E k \in 1..Len(queue) : Queued(queue, k, id, CarriedBy(b))
      <3>1. b.status \in ProgressStatus
        BY <2>1 DEF Blocker
      <3>2. CASE b.status = "WaitBlockedMove"
        BY <2>1, <3>2 DEF EventsOf, NotYetBlocked, CarriedBy
      <3>3. CASE b.status = "ProgressBlocked"
        <4>1. b.inQueue
          BY <2>1, <3>3 DEF EventsOf, LeftoversFirst, b
        <4>2. \E k \in 1..Len(queue) : Queued(queue, k, id, "UnblockRequested")
          BY <2>1, <4>1 DEF EventsOf, OneRequest
        <4> QED BY <3>3, <4>2 DEF CarriedBy
      <3>4. CASE b.status = "WaitBeforeUnblockedMove"
        BY <2>1, <3>4 DEF EventsOf, AboutToUnblock, CarriedBy
      <3>5. CASE b.status = "WaitUnblockedMove"
        BY <2>1, <3>5 DEF EventsOf, Unblocking, CarriedBy
      <3> QED BY <3>1, <3>2, <3>3, <3>4, <3>5 DEF ProgressStatus
    <2> QED BY <2>2, <2>3 DEF Queued, Event, Ev, b
  <1> QED BY <1>1, SafeInvariant, PTL

-----------------------------------------------------------------------------
(* What a step does to the blockers and to the moments of their handlers:   *)
(* it leaves them alone, or it changes those of one blocker in one of five  *)
(* ways.                                                                    *)

SameFor(id) ==
    /\ id \in DOMAIN blockers' <=> id \in DOMAIN blockers
    /\ id \in DOMAIN blockers => /\ blockers'[id].requested = blockers[id].requested
                                 /\ blockers'[id].status = blockers[id].status
    /\ moments'[id] = moments[id]

IsCreated(id) ==
    /\ id \notin DOMAIN blockers /\ id \in DOMAIN blockers'
    /\ blockers'[id].requested = FALSE
    /\ blockers'[id].status = "WaitBlockedMove"
    /\ moments'[id] = moments[id]

IsRolledBack(id) ==
    /\ id \in DOMAIN blockers /\ id \in DOMAIN blockers'
    /\ blockers'[id].requested = FALSE
    /\ blockers'[id].status = IF blockers[id].status = "WaitBlockedMove"
                              THEN "WaitBlockedMove" ELSE "ProgressBlocked"
    /\ moments'[id] = moments[id]

IsRequested(id) ==
    /\ id \in DOMAIN blockers /\ id \in DOMAIN blockers'
    /\ blockers[id].requested = FALSE /\ blockers'[id].requested = TRUE
    /\ blockers'[id].status = blockers[id].status
    /\ moments'[id] = moments[id]

IsMoved(id) ==
    /\ id \in DOMAIN blockers /\ id \in DOMAIN blockers'
    /\ blockers'[id].requested = blockers[id].requested
    /\ \/ /\ blockers[id].status = "WaitBlockedMove"
          /\ blockers'[id].status \in {"ProgressBlocked", "WaitBeforeUnblockedMove"}
          /\ moments'[id] = "Blocked"
       \/ /\ blockers[id].status = "ProgressBlocked"
          /\ blockers'[id].status = "WaitBeforeUnblockedMove"
          /\ moments'[id] = moments[id]
       \/ /\ blockers[id].status = "WaitBeforeUnblockedMove"
          /\ blockers'[id].status = "WaitUnblockedMove"
          /\ moments'[id] = "BeforeUnblocked"
       \/ /\ blockers[id].status = "WaitUnblockedMove"
          /\ blockers'[id].status = "ProgressBlocked"
          /\ moments'[id] = moments[id]

IsRemoved(id) ==
    /\ id \in DOMAIN blockers /\ id \notin DOMAIN blockers'
    /\ blockers[id].requested = TRUE
    /\ blockers[id].status = "WaitUnblockedMove"
    /\ moments'[id] = "Unblocked"

Changed(id) ==
    \/ SameFor(id) \/ IsCreated(id) \/ IsRolledBack(id)
    \/ IsRequested(id) \/ IsMoved(id) \/ IsRemoved(id)

OneChange ==
    \/ \A j \in Ids : SameFor(j)
    \/ \E id \in Ids : Changed(id) /\ \A j \in Ids \ {id} : SameFor(j)

LEMMA CreateBlockerChange ==
    ASSUME TypeOK, NEW id \in Ids, NEW timeout \in Handles \cup {ReadyUnblock},
           CreateBlocker(id, timeout), moments' = moments
    PROVE  OneChange
  <1>1. CASE crashed' = "full"
    BY <1>1 DEF CreateBlocker, OneChange, SameFor
  <1>2. CASE crashed' # "full"
    <2>1. Insert(id, NewBlocker(timeout)) /\ id \notin DOMAIN blockers
      BY <1>2 DEF CreateBlocker, Exists
    <2>2. IsCreated(id)
      BY <2>1 DEF Insert, NewBlocker, IsCreated
    <2>3. \A j \in Ids \ {id} : SameFor(j)
      BY <2>1 DEF Insert, SameFor
    <2> QED BY <2>2, <2>3 DEF OneChange, Changed
  <1> QED BY <1>1, <1>2

LEMMA RequestUnblockChange ==
    ASSUME TypeOK, NEW id \in Ids, moments' = moments,
           \/ RequestUnblock(id)
           \/ /\ Exists(id) /\ ~blockers[id].requested
              /\ blockers' = [blockers EXCEPT ![id] = Requested(@)]
    PROVE  OneChange
  <1>1. CASE blockers' = blockers
    BY <1>1 DEF OneChange, SameFor
  <1>2. CASE blockers' # blockers
    <2>1. /\ id \in DOMAIN blockers /\ ~blockers[id].requested /\ blockers[id] \in Blocker
          /\ blockers' = [blockers EXCEPT ![id] = Requested(blockers[id])]
      BY <1>2 DEF RequestUnblock, Exists, TypeOK
    <2>2. IsRequested(id)
      BY <2>1 DEF IsRequested, Requested, Blocker
    <2>3. \A j \in Ids \ {id} : SameFor(j)
      BY <2>1 DEF SameFor
    <2> QED BY <2>2, <2>3 DEF OneChange, Changed
  <1> QED BY <1>1, <1>2

LEMMA RolledBackChange ==
    ASSUME TypeOK, NEW id \in Ids, NEW h, Exists(id), moments' = moments,
           \/ blockers' = [blockers EXCEPT ![id] = RolledBack(@)]
           \/ blockers' = [blockers EXCEPT ![id] = [RolledBack(@) EXCEPT !.timeout = h]]
    PROVE  OneChange
  <1>1. id \in DOMAIN blockers /\ blockers[id] \in Blocker
    BY DEF Exists, TypeOK
  <1>2. IsRolledBack(id)
    BY <1>1, ZenonT(60) DEF IsRolledBack, RolledBack, Blocker
  <1>3. \A j \in Ids \ {id} : SameFor(j)
    BY <1>1 DEF SameFor
  <1> QED BY <1>2, <1>3 DEF OneChange, Changed

LEMMA HandleEventChange ==
    ASSUME TypeOK, HandleEvent
    PROVE  OneChange
  <1> DEFINE id == Head(queue).id
             b  == blockers[id]
  <1>1. id \in Ids
    BY TailFacts DEF HandleEvent, TypeOK, Event
  <1>2. CASE ~Exists(id)
    BY <1>2 DEF HandleEvent, OneChange, SameFor
  <1>3. CASE Exists(id)
    <2>1. /\ MoveNextState(id, b, Head(queue).type)
          /\ id \in DOMAIN blockers /\ b \in Blocker /\ moments \in [Ids -> Moments]
      BY <1>3 DEF HandleEvent, Exists, TypeOK
    <2> HIDE DEF id
    <2>2. CASE MovesToBlocked(id, b)
      <3>1. IsMoved(id)
        BY <1>1, <2>1, <2>2 DEF MovesToBlocked, IsMoved, Start, Blocker
      <3>2. \A j \in Ids \ {id} : SameFor(j)
        BY <1>1, <2>1, <2>2 DEF MovesToBlocked, SameFor, Start
      <3> QED BY <1>1, <3>1, <3>2 DEF OneChange, Changed
    <2>3. CASE StartsUnblocking(id, b)
      <3>1. IsMoved(id) \/ SameFor(id)
        BY <1>1, <2>1, <2>3 DEF StartsUnblocking, IsMoved, SameFor, Blocker
      <3>2. \A j \in Ids \ {id} : SameFor(j)
        BY <1>1, <2>1, <2>3 DEF StartsUnblocking, SameFor
      <3> QED BY <1>1, <3>1, <3>2 DEF OneChange, Changed
    <2>4. CASE MovesBeforeUnblocked(id, b)
      <3>1. IsMoved(id)
        BY <1>1, <2>1, <2>4 DEF MovesBeforeUnblocked, IsMoved, Start, Blocker
      <3>2. \A j \in Ids \ {id} : SameFor(j)
        BY <1>1, <2>1, <2>4 DEF MovesBeforeUnblocked, SameFor, Start
      <3> QED BY <1>1, <3>1, <3>2 DEF OneChange, Changed
    <2>5. CASE MovesToUnblocked(id, b)
      <3>1. IsMoved(id) \/ IsRemoved(id)
        BY <1>1, <2>1, <2>5 DEF MovesToUnblocked, IsMoved, IsRemoved, Remove, Start, Blocker
      <3>2. \A j \in Ids \ {id} : SameFor(j)
        BY <1>1, <2>1, <2>5 DEF MovesToUnblocked, SameFor, Remove, Start
      <3> QED BY <1>1, <3>1, <3>2 DEF OneChange, Changed
    <2>6. CASE IgnoresEvent(b, Head(queue).type)
      BY <2>6 DEF IgnoresEvent, OneChange, SameFor
    <2> QED BY <2>1, <2>2, <2>3, <2>4, <2>5, <2>6 DEF MoveNextState
  <1> QED BY <1>2, <1>3

LEMMA StepChange == TypeOK /\ [Next]_vars => OneChange
  <1> SUFFICES ASSUME TypeOK, [Next]_vars PROVE OneChange
    OBVIOUS
  <1>1. ASSUME NEW id \in Ids, BlockManual(id) PROVE OneChange
    BY <1>1, CreateBlockerChange, RolledBackChange DEF BlockManual
  <1>2. ASSUME NEW id \in Ids, NEW d \in Durations, BlockTimed(id, d) PROVE OneChange
    <2>1. FreshHandle \in Handles /\ moments' = moments
      BY <1>2, FreshHandleType DEF BlockTimed
    <2>2. \/ CreateBlocker(id, FreshHandle)
          \/ /\ Exists(id)
             /\ blockers' = [blockers EXCEPT ![id] = [RolledBack(@) EXCEPT !.timeout = FreshHandle]]
      BY <1>2 DEF BlockTimed
    <2> QED BY <2>1, <2>2, CreateBlockerChange, RolledBackChange
  <1>3. ASSUME NEW id \in Ids, Unblock(id) \/ UnblockLosesReceiver(id) PROVE OneChange
    BY <1>3, RequestUnblockChange DEF Unblock, UnblockLosesReceiver
  <1>4. ASSUME NEW t \in timers, TimerMarksReady(t) PROVE OneChange
    BY <1>4 DEF TimerMarksReady, OneChange, SameFor, Exists, TypeOK, Blocker
  <1>5. ASSUME NEW t \in timers, TimerUnblocks(t) PROVE OneChange
    <2>1. t.id \in Ids
      BY DEF TypeOK, Timer
    <2> QED BY <1>5, <2>1, RequestUnblockChange DEF TimerUnblocks
  <1>6. CASE HandleEvent
    BY <1>6, HandleEventChange
  <1>7. ASSUME \/ \E id \in Ids : BlockLosesReceiver(id)
               \/ \E t \in timers : TimerWakes(t)
               \/ StopBlocker \/ ProcessingEnds \/ Tick \/ UNCHANGED vars
        PROVE  OneChange
    BY <1>7 DEF BlockLosesReceiver, TimerWakes, StopBlocker, ProcessingEnds, Tick, vars,
                OneChange, SameFor
  <1> QED BY <1>1, <1>2, <1>3, <1>4, <1>5, <1>6, <1>7 DEF Next

-----------------------------------------------------------------------------
(* The moments for which handlers were started go with the stage of the     *)
(* blocker.                                                                 *)
MomentsFit ==
    \A id \in Ids :
      /\ id \notin DOMAIN blockers => moments[id] \in {"none", "Unblocked"}
      /\ id \in DOMAIN blockers =>
           CASE blockers[id].status = "WaitBlockedMove"   -> moments[id] \in {"none", "Unblocked"}
             [] blockers[id].status = "WaitUnblockedMove" -> moments[id] = "BeforeUnblocked"
             [] OTHER -> moments[id] \in {"Blocked", "BeforeUnblocked"}

LEMMA MomentsStep ==
    ASSUME TypeOK, MomentsFit, [Next]_vars
    PROVE  /\ MomentsFit'
           /\ \A id \in Ids :
                moments'[id] # moments[id] =>
                  <<moments[id], moments'[id]>> \in
                    {<<"none", "Blocked">>, <<"Blocked", "BeforeUnblocked">>,
                     <<"BeforeUnblocked", "Unblocked">>, <<"Unblocked", "Blocked">>}
  <1> DEFINE Fits(id) ==
          /\ id \notin DOMAIN blockers' => moments'[id] \in {"none", "Unblocked"}
          /\ id \in DOMAIN blockers' =>
               CASE blockers'[id].status = "WaitBlockedMove"   -> moments'[id] \in {"none", "Unblocked"}
                 [] blockers'[id].status = "WaitUnblockedMove" -> moments'[id] = "BeforeUnblocked"
                 [] OTHER -> moments'[id] \in {"Blocked", "BeforeUnblocked"}
             Follows(id) ==
          moments'[id] # moments[id] =>
            <<moments[id], moments'[id]>> \in
              {<<"none", "Blocked">>, <<"Blocked", "BeforeUnblocked">>,
               <<"BeforeUnblocked", "Unblocked">>, <<"Unblocked", "Blocked">>}
  <1>1. ASSUME NEW id \in Ids, Changed(id)
        PROVE  Fits(id) /\ Follows(id)
    <2>1. CASE SameFor(id)
      BY <2>1 DEF SameFor, MomentsFit
    <2>2. CASE IsCreated(id)
      BY <2>2 DEF IsCreated, MomentsFit
    <2>3. CASE IsRolledBack(id)
      BY <2>3 DEF IsRolledBack, MomentsFit
    <2>4. CASE IsRequested(id)
      BY <2>4 DEF IsRequested, MomentsFit
    <2>5. CASE IsMoved(id)
      BY <2>5 DEF IsMoved, MomentsFit
    <2>6. CASE IsRemoved(id)
      BY <2>6 DEF IsRemoved, MomentsFit
    <2> QED BY <1>1, <2>1, <2>2, <2>3, <2>4, <2>5, <2>6 DEF Changed
  <1>2. \A id \in Ids : Changed(id)
    BY StepChange DEF OneChange, Changed
  <1>3. \A id \in Ids : Fits(id) /\ Follows(id)
    BY <1>1, <1>2
  <1> QED BY <1>3 DEF MomentsFit

(* The handlers of run_handlers() are started for Blocked, BeforeUnblocked  *)
(* and Unblocked in this order, whatever events withdrawn releases leave in *)
(* the queue.                                                               *)
THEOREM MomentsInOrderHolds == Spec => MomentsInOrder
  <1>1. Init => MomentsFit
    BY DEF Init, MomentsFit
  <1>2. TypeOK /\ MomentsFit /\ [Next]_vars => MomentsFit'
    BY MomentsStep
  <1>3. TypeOK /\ MomentsFit /\ [Next]_vars
        => [\A id \in Ids :
              moments'[id] # moments[id] =>
                <<moments[id], moments'[id]>> \in
                  {<<"none", "Blocked">>, <<"Blocked", "BeforeUnblocked">>,
                   <<"BeforeUnblocked", "Unblocked">>, <<"Unblocked", "Blocked">>}]_vars
    BY MomentsStep
  <1> QED BY <1>1, <1>2, <1>3, TypeCorrect, PTL DEF Spec, MomentsInOrder

-----------------------------------------------------------------------------
(* The detailed specification implements BlockerContract.                   *)

PhaseOf(id) ==
    IF ~Exists(id) THEN "free" ELSE IF blockers[id].requested THEN "releasing" ELSE "blocked"

LEMMA ContractStep == TypeOK /\ [Next]_vars => [Contract!Next]_(Contract!vars)
  <1> SUFFICES ASSUME TypeOK, [Next]_vars
               PROVE  [Contract!Next]_(Contract!vars)
    OBVIOUS
  <1> DEFINE p == [id \in Ids |-> PhaseOf(id)]
             q == [id \in Ids |-> PhaseOf(id)']
  <1>1. ASSUME NEW id \in Ids, SameFor(id) PROVE q[id] = p[id]
    BY <1>1 DEF SameFor, PhaseOf, Exists
  <1>2. CASE \A j \in Ids : SameFor(j)
    <2>1. q = p
      BY <1>1, <1>2
    <2> QED BY <2>1 DEF Contract!vars, PhaseOf
  <1>3. ASSUME NEW id \in Ids, Changed(id), \A j \in Ids \ {id} : SameFor(j)
        PROVE  [Contract!Next]_(Contract!vars)
    <2>1. \A j \in Ids \ {id} : q[j] = p[j]
      BY <1>1, <1>3
    <2>2. CASE q[id] = p[id]
      <3>1. q = p
        BY <2>1, <2>2
      <3> QED BY <3>1 DEF Contract!vars, PhaseOf
    <2>3. CASE q[id] # p[id]
      <3>1. q = [p EXCEPT ![id] = q[id]]
        BY <2>1
      <3>2. \/ q[id] = "blocked"
            \/ p[id] = "blocked" /\ q[id] = "releasing"
            \/ p[id] = "releasing" /\ q[id] = "free"
        BY <1>3, <2>3
           DEF Changed, SameFor, IsCreated, IsRolledBack, IsRequested, IsMoved, IsRemoved,
               PhaseOf, Exists
      <3>3. \/ q = [p EXCEPT ![id] = "blocked"]
            \/ p[id] = "blocked" /\ q = [p EXCEPT ![id] = "releasing"]
            \/ p[id] = "releasing" /\ q = [p EXCEPT ![id] = "free"]
        BY <3>1, <3>2
      <3>4. Contract!Block(id) \/ Contract!Unblock(id) \/ Contract!Release(id)
        BY <3>3 DEF Contract!Block, Contract!Unblock, Contract!Release, PhaseOf
      <3> QED BY <3>4 DEF Contract!Next
    <2> QED BY <2>2, <2>3
  <1> QED BY <1>2, <1>3, StepChange DEF OneChange

(* A blocker is released only after unblock() was requested, and a later    *)
(* block() withdraws the request: to its callers the blocker, with its      *)
(* queue, its stages and its timers, is the three phases of the contract.   *)
THEOREM Implements == Spec => ImplementsContract
  <1>1. Init => Contract!Init
    BY DEF Init, Contract!Init, Exists
  <1> QED BY <1>1, ContractStep, TypeCorrect, PTL DEF Spec, ImplementsContract, Contract!Spec

-----------------------------------------------------------------------------
(* The timers.  abort() is given a handle: that it stops no other task than *)
(* the one it means rests on handles being held by one task each.           *)
HandlesDiffer == \A t, u \in timers : t.h = u.h => t = u

TimerInv == HandlesDiffer /\ TimerIsAlive

(* No step of the processor or of unblock() changes a deadline.             *)
KeepsTimeouts ==
    \A id \in DOMAIN blockers' : id \in DOMAIN blockers /\ blockers'[id].timeout = blockers[id].timeout

LEMMA RequestUnblockKeeps ==
    ASSUME TypeOK, NEW id \in Ids,
           \/ RequestUnblock(id)
           \/ blockers' = [blockers EXCEPT ![id] = Requested(@)]
    PROVE  KeepsTimeouts
  <1>1. blockers' = blockers \/ blockers' = [blockers EXCEPT ![id] = Requested(@)]
    BY DEF RequestUnblock
  <1>2. \A j \in DOMAIN blockers : Requested(blockers[j]).timeout = blockers[j].timeout
    BY DEF Requested, TypeOK, Blocker
  <1> QED BY <1>1, <1>2 DEF KeepsTimeouts

LEMMA HandleEventKeeps ==
    ASSUME TypeOK, HandleEvent
    PROVE  KeepsTimeouts
  <1> DEFINE id == Head(queue).id
             b  == blockers[id]
  <1>1. CASE ~Exists(id)
    BY <1>1 DEF HandleEvent, KeepsTimeouts
  <1>2. CASE Exists(id)
    <2>1. /\ MoveNextState(id, b, Head(queue).type)
          /\ id \in DOMAIN blockers /\ blockers \in [DOMAIN blockers -> Blocker]
      BY <1>2 DEF HandleEvent, Exists, TypeOK
    <2> HIDE DEF id
    <2>2. CASE MovesToBlocked(id, b)
      BY <2>1, <2>2 DEF MovesToBlocked, KeepsTimeouts, Blocker
    <2>3. CASE StartsUnblocking(id, b)
      BY <2>1, <2>3 DEF StartsUnblocking, KeepsTimeouts, Blocker
    <2>4. CASE MovesBeforeUnblocked(id, b)
      BY <2>1, <2>4 DEF MovesBeforeUnblocked, KeepsTimeouts, Blocker
    <2>5. CASE MovesToUnblocked(id, b)
      BY <2>1, <2>5 DEF MovesToUnblocked, Remove, KeepsTimeouts, Blocker
    <2>6. CASE IgnoresEvent(b, Head(queue).type)
      BY <2>6 DEF IgnoresEvent, KeepsTimeouts
    <2> QED BY <2>1, <2>2, <2>3, <2>4, <2>5, <2>6 DEF MoveNextState
  <1> QED BY <1>1, <1>2

(* A step that keeps the deadlines and takes no timer away but one that is  *)
(* marked.                                                                  *)
LEMMA KeepsAlive ==
    ASSUME TypeOK, TimerInv, KeepsTimeouts, timers' \subseteq timers,
           \A t \in timers : t.pc # "marked" => t \in timers'
    PROVE  TimerInv'
  BY DEF TimerInv, HandlesDiffer, TimerIsAlive, KeepsTimeouts

(* A timer is spawned among ts for id, whose deadline it becomes.           *)
LEMMA SpawnKeepsAlive ==
    ASSUME TypeOK, TimerInv, NEW id \in Ids, NEW ts \in SUBSET timers, NEW end, FreeHandles # {},
           SpawnTimer(ts, FreshHandle, id, end),
           \A j \in DOMAIN blockers' :
             \/ j = id /\ blockers'[j].timeout = FreshHandle
             \/ /\ j \in DOMAIN blockers /\ blockers'[j].timeout = blockers[j].timeout
                /\ \A t \in timers : t.h = blockers[j].timeout => t \in ts
    PROVE  TimerInv'
  <1> DEFINE n == [h |-> FreshHandle, id |-> id, end |-> end, pc |-> "asleep"]
  <1>1. timers' = ts \cup {n} /\ n.h = FreshHandle /\ n.id = id /\ n.pc = "asleep"
    BY DEF SpawnTimer
  <1>2. \A t \in timers : t.h # FreshHandle
    BY DEF FreshHandle, FreeHandles
  <1> HIDE DEF n
  <1>3. HandlesDiffer'
    BY <1>1, <1>2 DEF TimerInv, HandlesDiffer
  <1>4. ASSUME NEW j \in DOMAIN blockers', blockers'[j].timeout # ReadyUnblock
        PROVE  \E t \in timers' : t.h = blockers'[j].timeout /\ t.id = j /\ t.pc # "marked"
    <2>1. CASE j = id /\ blockers'[j].timeout = FreshHandle
      BY <1>1, <2>1
    <2>2. CASE /\ j \in DOMAIN blockers /\ blockers'[j].timeout = blockers[j].timeout
               /\ \A t \in timers : t.h = blockers[j].timeout => t \in ts
      BY <1>1, <1>4, <2>2 DEF TimerInv, TimerIsAlive
    <2> QED BY <2>1, <2>2
  <1> QED BY <1>3, <1>4 DEF TimerInv, TimerIsAlive

LEMMA BlockTimedAlive ==
    ASSUME TypeOK, TimerInv, NEW id \in Ids, NEW d \in Durations, BlockTimed(id, d)
    PROVE  TimerInv'
  <1> DEFINE end == now + d
             b   == blockers[id]
  <1>1. FreeHandles # {}
    BY DEF BlockTimed
  <1>2. CASE CreateBlocker(id, FreshHandle) /\ SpawnTimer(timers, FreshHandle, id, end)
    <2>1. ASSUME NEW j \in DOMAIN blockers'
          PROVE  \/ j = id /\ blockers'[j].timeout = FreshHandle
                 \/ j \in DOMAIN blockers /\ blockers'[j].timeout = blockers[j].timeout
      BY <1>2, <2>1 DEF CreateBlocker, Insert, NewBlocker
    <2> QED BY <1>1, <1>2, <2>1, SpawnKeepsAlive
  <1>3. CASE /\ Exists(id)
             /\ blockers' = [blockers EXCEPT ![id] = [RolledBack(b) EXCEPT !.timeout = FreshHandle]]
             /\ SpawnTimer(AfterAbort(b.timeout), FreshHandle, id, end)
    <2>1. /\ id \in DOMAIN blockers /\ blockers \in [DOMAIN blockers -> Blocker]
          /\ DOMAIN blockers' = DOMAIN blockers /\ b \in Blocker
      BY <1>3 DEF Exists, TypeOK
    <2>2. blockers'[id].timeout = FreshHandle
      BY <1>3, <2>1 DEF RolledBack, Blocker
    <2>3. ASSUME NEW j \in DOMAIN blockers, j # id, blockers[j].timeout # ReadyUnblock,
                 NEW t \in timers, t.h = blockers[j].timeout
          PROVE  t \in AfterAbort(b.timeout)
      <3>1. t.id = j
        BY <2>3 DEF TimerInv, HandlesDiffer, TimerIsAlive
      <3>2. CASE b.timeout = t.h
        <4>1. b.timeout # ReadyUnblock
          BY <2>3, <3>2
        <4>2. t.id = id
          BY <2>1, <3>2, <4>1 DEF TimerInv, HandlesDiffer, TimerIsAlive
        <4> QED BY <2>3, <3>1, <4>2
      <3>3. CASE b.timeout # t.h
        BY <3>3 DEF AfterAbort
      <3> QED BY <3>2, <3>3
    <2>4. ASSUME NEW t \in timers PROVE t.h # ReadyUnblock
      BY HandlesAssumption DEF TypeOK, Timer, ReadyUnblock
    <2>5. ASSUME NEW j \in DOMAIN blockers'
          PROVE  \/ j = id /\ blockers'[j].timeout = FreshHandle
                 \/ /\ j \in DOMAIN blockers /\ blockers'[j].timeout = blockers[j].timeout
                    /\ \A t \in timers : t.h = blockers[j].timeout => t \in AfterAbort(b.timeout)
      <3>1. CASE j = id
        BY <2>2, <3>1
      <3>2. CASE j # id
        <4>1. j \in DOMAIN blockers /\ blockers'[j].timeout = blockers[j].timeout
          BY <1>3, <2>1, <3>2
        <4> QED BY <2>3, <2>4, <3>2, <4>1
      <3> QED BY <3>1, <3>2
    <2>6. AfterAbort(b.timeout) \in SUBSET timers
      BY DEF AfterAbort
    <2> HIDE DEF b, end
    <2> QED BY <1>1, <1>3, <2>5, <2>6, SpawnKeepsAlive
  <1> QED BY <1>2, <1>3 DEF BlockTimed

LEMMA StepTimers == TypeOK /\ TimerInv /\ [Next]_vars => TimerInv'
  <1> SUFFICES ASSUME TypeOK, TimerInv, [Next]_vars PROVE TimerInv'
    OBVIOUS
  <1>1. ASSUME NEW id \in Ids, BlockManual(id) PROVE TimerInv'
    <2>1. \A j \in DOMAIN blockers' :
            \/ blockers'[j].timeout = ReadyUnblock
            \/ j \in DOMAIN blockers /\ blockers'[j].timeout = blockers[j].timeout
      <3>1. CASE CreateBlocker(id, ReadyUnblock)
        BY <3>1 DEF CreateBlocker, Insert, NewBlocker
      <3>2. CASE Exists(id) /\ blockers' = [blockers EXCEPT ![id] = RolledBack(@)]
        BY <3>2 DEF RolledBack, TypeOK, Blocker, Exists
      <3> QED BY <1>1, <3>1, <3>2 DEF BlockManual
    <2>2. timers' = timers
      BY <1>1 DEF BlockManual
    <2> QED BY <2>1, <2>2 DEF TimerInv, HandlesDiffer, TimerIsAlive
  <1>2. ASSUME NEW id \in Ids, NEW d \in Durations, BlockTimed(id, d) PROVE TimerInv'
    BY <1>2, BlockTimedAlive
  <1>3. ASSUME NEW id \in Ids, BlockLosesReceiver(id) PROVE TimerInv'
    <2>1. blockers' = blockers
      BY <1>3 DEF BlockLosesReceiver
    <2>2. CASE timers' = timers
      BY <2>1, <2>2 DEF TimerInv, HandlesDiffer, TimerIsAlive
    <2>3. ASSUME NEW d \in Durations, FreeHandles # {}, SpawnTimer(timers, FreshHandle, id, now + d)
          PROVE  TimerInv'
      BY <2>1, <2>3, SpawnKeepsAlive
    <2> QED BY <1>3, <2>2, <2>3 DEF BlockLosesReceiver
  <1>4. ASSUME NEW id \in Ids, Unblock(id) \/ UnblockLosesReceiver(id) PROVE TimerInv'
    <2>1. KeepsTimeouts
      BY <1>4, RequestUnblockKeeps DEF Unblock, UnblockLosesReceiver
    <2>2. timers' \subseteq timers /\ \A t \in timers : t.pc # "marked" => t \in timers'
      BY <1>4 DEF Unblock, UnblockLosesReceiver
    <2> QED BY <2>1, <2>2, KeepsAlive
  <1>5. ASSUME NEW t \in timers, TimerWakes(t) PROVE TimerInv'
    <2> DEFINE n == [t EXCEPT !.pc = "awake"]
    <2>1. n.h = t.h /\ n.id = t.id /\ n.pc = "awake"
      BY DEF TypeOK, Timer
    <2>2. timers' = (timers \ {t}) \cup {n} /\ blockers' = blockers
      BY <1>5 DEF TimerWakes
    <2> HIDE DEF n
    <2> QED BY <2>1, <2>2 DEF TimerInv, HandlesDiffer, TimerIsAlive
  <1>6. ASSUME NEW t \in timers, TimerMarksReady(t) PROVE TimerInv'
    <2> DEFINE n == [t EXCEPT !.pc = "marked"]
    <2>1. n.h = t.h /\ n.id = t.id /\ n.pc = "marked"
      BY DEF TypeOK, Timer
    <2>2. timers' = (timers \ {t}) \cup {n}
      BY <1>6 DEF TimerMarksReady
    <2>3. \A j \in DOMAIN blockers' :
            \/ blockers'[j].timeout = ReadyUnblock
            \/ j \in DOMAIN blockers /\ blockers'[j].timeout = blockers[j].timeout /\ j # t.id
      BY <1>6 DEF TimerMarksReady, Exists, TypeOK, Blocker
    <2> HIDE DEF n
    <2>4. HandlesDiffer'
      BY <2>1, <2>2 DEF TimerInv, HandlesDiffer
    <2>5. TimerIsAlive'
      BY <2>1, <2>2, <2>3 DEF TimerInv, TimerIsAlive
    <2> QED BY <2>4, <2>5 DEF TimerInv
  <1>7. ASSUME NEW t \in timers, TimerUnblocks(t) PROVE TimerInv'
    <2>1. t.id \in Ids
      BY DEF TypeOK, Timer
    <2>2. KeepsTimeouts
      BY <1>7, <2>1, RequestUnblockKeeps DEF TimerUnblocks
    <2>3. timers' \subseteq timers /\ \A u \in timers : u.pc # "marked" => u \in timers'
      BY <1>7 DEF TimerUnblocks
    <2> QED BY <2>2, <2>3, KeepsAlive
  <1>8. CASE HandleEvent
    BY <1>8, HandleEventKeeps, KeepsAlive DEF HandleEvent
  <1>9. ASSUME StopBlocker \/ ProcessingEnds \/ Tick \/ UNCHANGED vars PROVE TimerInv'
    BY <1>9 DEF StopBlocker, ProcessingEnds, Tick, vars, TimerInv, HandlesDiffer, TimerIsAlive
  <1> QED BY <1>1, <1>2, <1>3, <1>4, <1>5, <1>6, <1>7, <1>8, <1>9 DEF Next

(* The deadline a blocker shows always has a task that will meet it: the    *)
(* abort() of set_unblock_by_timer() never stops the timer of another       *)
(* blocker, and a prolonged block is never left without one.                *)
THEOREM TimerIsAliveHolds == Spec => []TimerIsAlive
  <1>1. Init => TimerInv
    BY DEF Init, TimerInv, HandlesDiffer, TimerIsAlive
  <1>2. TimerInv => TimerIsAlive
    BY DEF TimerInv
  <1> QED BY <1>1, <1>2, StepTimers, TypeCorrect, PTL DEF Spec

=============================================================================
