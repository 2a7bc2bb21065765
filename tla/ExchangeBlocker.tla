--------------------------- MODULE ExchangeBlocker ---------------------------
(***************************************************************************)
(* core/src/exchanges/exchange_blocker.rs: blockers of trading, one per    *)
(* (exchange account, reason).  Callers take the lock on the map for one   *)
(* step each; a single processor task moves every blocker through its      *)
(* stages by events it takes from, and puts back into, one FIFO channel;   *)
(* the timer of a timed block runs in three steps that other callers can   *)
(* come between.                                                           *)
(***************************************************************************)
EXTENDS Integers, Sequences, FiniteSets

CONSTANTS
    Ids,        \* BlockerId: the (exchange_account_id, reason) pairs
    Handles,    \* names of the timer tasks (JoinHandle); bounds the tasks alive
    Durations,  \* the durations of BlockType::Timed that callers use
    MaxTime,    \* bound on the clock
    Capacity    \* of the event channel, 20_000 in the code

ASSUME HandlesAssumption   == Handles \subseteq Nat \ {0}
ASSUME DurationsAssumption == Durations \subseteq Nat \ {0}
ASSUME BoundsAssumption    == MaxTime \in Nat /\ Capacity \in Nat
ASSUME CapacityAssumption  == IsFiniteSet(Ids) /\ Capacity >= 3 * Cardinality(Ids)

VARIABLES
    blockers,   \* the blockers that exist: a function on a subset of Ids
    queue,      \* the event channel
    timers,     \* the timer tasks that are alive
    now,        \* the clock, Instant::now()
    moments,    \* the last ExchangeBlockerMoment the handlers were started for
    cancelled,  \* stop_processing() cancelled the processor's token
    open,       \* the receiver of the channel exists
    crashed,    \* the panic that happened, if any
    until       \* history: before this time only a call of unblock() may end the block

vars == <<blockers, queue, timers, now, moments, cancelled, open, crashed, until>>

-----------------------------------------------------------------------------
(* The data. *)

ReadyUnblock == 0       \* Timeout::ReadyUnblock; InProgress is the timer's handle
Never == MaxTime + 1    \* history: a manual block ends by a call of unblock() only

ProgressStatus ==
    {"WaitBlockedMove", "ProgressBlocked", "WaitBeforeUnblockedMove", "WaitUnblockedMove"}

EventType ==
    {"MoveToBlocked", "UnblockRequested",
     "MoveBlockedToBeforeUnblocked", "MoveBeforeUnblockedToUnblocked"}

Event == [id : Ids, type : EventType]

Blocker ==
    [timeout   : Handles \cup {ReadyUnblock},
     requested : BOOLEAN,       \* is_unblock_requested
     inQueue   : BOOLEAN,       \* is_unblock_in_queue
     status    : ProgressStatus]

(* A timer task: asleep (abort() still stops it); awake but not yet holding *)
(* the lock; done with its first half, the call of unblock() still to come. *)
Timer == [h : Handles, id : Ids, end : Nat, pc : {"asleep", "awake", "marked"}]

Moments == {"none", "Blocked", "BeforeUnblocked", "Unblocked"}

Exists(id) == id \in DOMAIN blockers

TypeOK ==
    /\ DOMAIN blockers \subseteq Ids
    /\ blockers \in [DOMAIN blockers -> Blocker]
    /\ queue \in Seq(Event)
    /\ timers \subseteq Timer
    /\ now \in Nat
    /\ moments \in [Ids -> Moments]
    /\ cancelled \in BOOLEAN
    /\ open \in BOOLEAN
    /\ crashed \in {"no", "missing_blocker", "full", "closed"}
    /\ until \in [Ids -> Nat]

Init ==
    /\ blockers = [id \in {} |-> {}]
    /\ queue = <<>>
    /\ timers = {}
    /\ now = 0
    /\ moments = [id \in Ids |-> "none"]
    /\ cancelled = FALSE
    /\ open = TRUE
    /\ crashed = "no"
    /\ until = [id \in Ids |-> 0]

-----------------------------------------------------------------------------
(* The channel. *)

Ev(id, type) == [id |-> id, type |-> type]

(* add_event() on the channel contents q: dropped without a trace when the  *)
(* receiver is gone, a panic when the channel is full.                      *)
AddEvent(q, id, type) ==
    IF ~open THEN queue' = q /\ crashed' = crashed
    ELSE IF Len(q) >= Capacity THEN queue' = q /\ crashed' = "full"
    ELSE queue' = Append(q, Ev(id, type)) /\ crashed' = crashed

(* The receiver is dropped (what it had not received stays in queue, where  *)
(* nothing looks at it any more) between the is_closed() and the try_send() *)
(* of a caller's add_event(): try_send() fails and the caller panics.       *)
AddEventLosesReceiver ==
    /\ open /\ cancelled
    /\ open' = FALSE
    /\ crashed' = "closed"
    /\ UNCHANGED queue

-----------------------------------------------------------------------------
(* Timers. *)

FreeHandles == {h \in Handles : \A t \in timers : t.h # h}

FreshHandle == CHOOSE h \in FreeHandles : TRUE

(* set_unblock_by_timer() among the tasks ts *)
SpawnTimer(ts, h, id, end) ==
    timers' = ts \cup {[h |-> h, id |-> id, end |-> end, pc |-> "asleep"]}

(* timer_handle.abort(): a task that is running when it is aborted goes on. *)
AfterAbort(h) == {t \in timers : ~(t.h = h /\ t.pc = "asleep")}

InProgressEnd(b) == (CHOOSE t \in timers : t.h = b.timeout).end

-----------------------------------------------------------------------------
(* block() *)

NewBlocker(timeout) ==
    [timeout |-> timeout, requested |-> FALSE, inQueue |-> FALSE,
     status |-> "WaitBlockedMove"]

Insert(id, b) ==
    blockers' = [i \in DOMAIN blockers \cup {id} |-> IF i = id THEN b ELSE blockers[i]]

(* rollback_to_blocked_progress(): a release on its way is called off; the  *)
(* events it has in the queue stay there.                                   *)
RolledBackForgetsQueue(b) ==     \* mutant: is_unblock_in_queue is reset as well
    [b EXCEPT !.requested = FALSE, !.inQueue = FALSE,
              !.status = IF @ = "WaitBlockedMove" THEN @ ELSE "ProgressBlocked"]

RolledBackAlways(b) ==           \* mutant: the status is not compared
    [b EXCEPT !.requested = FALSE, !.status = "ProgressBlocked"]

RolledBack(b) ==
    [b EXCEPT !.requested = FALSE,
              !.status = IF @ = "WaitBlockedMove" THEN @ ELSE "ProgressBlocked"]

CreateBlocker(id, timeout) ==
    /\ ~Exists(id)
    /\ AddEvent(queue, id, "MoveToBlocked")
    /\ IF crashed' = "full" THEN blockers' = blockers
                            ELSE Insert(id, NewBlocker(timeout))

BlockManual(id) ==
    /\ \/ /\ CreateBlocker(id, ReadyUnblock)
          /\ until' = [until EXCEPT ![id] = Never]
       \/ /\ Exists(id) /\ blockers[id].timeout = ReadyUnblock
          /\ blockers' = [blockers EXCEPT ![id] = RolledBack(@)]
          /\ until' = [until EXCEPT ![id] = Never]
          /\ UNCHANGED <<queue, crashed>>
    /\ UNCHANGED <<timers, now, moments, cancelled, open>>

(* A timed block on a blocker whose timer ends later changes nothing; a     *)
(* manual one on a blocker with a timer is refused with an error in the     *)
(* log.  Neither changes the state, so neither is a step here.              *)
BlockTimed(id, d) ==
    LET end == now + d
        h   == FreshHandle
    IN  /\ end <= MaxTime
        /\ FreeHandles # {}
        /\ \/ /\ CreateBlocker(id, h)
              /\ SpawnTimer(timers, h, id, end)
           \/ /\ Exists(id)
              /\ LET b == blockers[id]
                 IN  /\ b.timeout # ReadyUnblock => end >= InProgressEnd(b)
                     /\ blockers' = [blockers EXCEPT ![id] = [RolledBack(b) EXCEPT !.timeout = h]]
                     /\ SpawnTimer(AfterAbort(b.timeout), h, id, end)
              /\ UNCHANGED <<queue, crashed>>
        /\ until' = [until EXCEPT ![id] = end]
        /\ UNCHANGED <<now, moments, cancelled, open>>

(* block() of a pair that is not blocked while stop_blocker() closes the    *)
(* channel under it: the timer is spawned, the blocker is not inserted.     *)
BlockLosesReceiver(id) ==
    /\ ~Exists(id)
    /\ AddEventLosesReceiver
    /\ \/ timers' = timers
       \/ \E d \in Durations :
             /\ now + d <= MaxTime /\ FreeHandles # {}
             /\ SpawnTimer(timers, FreshHandle, id, now + d)
    /\ UNCHANGED <<blockers, now, moments, cancelled, until>>

-----------------------------------------------------------------------------
(* unblock() *)

NeedsEventEachTime(b) ==         \* mutant: is_unblock_in_queue is not looked at
    b.status \in {"WaitBlockedMove", "ProgressBlocked"}

NeedsEventTooEarly(b) ==         \* mutant: >= for > in the test of the status
    ~b.inQueue /\ b.status = "WaitBlockedMove"

NeedsEvent(b) == ~b.inQueue /\ b.status \in {"WaitBlockedMove", "ProgressBlocked"}

Requested(b) == [b EXCEPT !.requested = TRUE, !.inQueue = @ \/ NeedsEvent(b)]

RequestUnblock(id) ==
    IF Exists(id) /\ ~blockers[id].requested
    THEN /\ blockers' = [blockers EXCEPT ![id] = Requested(@)]
         /\ IF NeedsEvent(blockers[id])
            THEN AddEvent(queue, id, "UnblockRequested")
            ELSE UNCHANGED <<queue, crashed>>
    ELSE UNCHANGED <<blockers, queue, crashed>>

Unblock(id) ==
    /\ Exists(id)
    /\ RequestUnblock(id)
    /\ until' = [until EXCEPT ![id] = 0]
    /\ UNCHANGED <<timers, now, moments, cancelled, open>>

(* The channel closes under unblock(), called by a caller or by a timer. *)
UnblockLosesReceiver(id) ==
    /\ Exists(id) /\ ~blockers[id].requested /\ NeedsEvent(blockers[id])
    /\ AddEventLosesReceiver
    /\ blockers' = [blockers EXCEPT ![id] = Requested(@)]
    /\ \/ /\ until' = [until EXCEPT ![id] = 0]
          /\ UNCHANGED timers
       \/ /\ \E t \in timers : t.id = id /\ t.pc = "marked" /\ timers' = timers \ {t}
          /\ UNCHANGED until
    /\ UNCHANGED <<now, moments, cancelled>>

-----------------------------------------------------------------------------
(* The task of set_unblock_by_timer() *)

TimerWakes(t) ==
    /\ t.pc = "asleep" /\ now >= t.end
    /\ timers' = (timers \ {t}) \cup {[t EXCEPT !.pc = "awake"]}
    /\ UNCHANGED <<blockers, queue, now, moments, cancelled, open, crashed, until>>

TimerMarksNothing(t) ==          \* mutant: timeout stays InProgress
    /\ t.pc = "awake"
    /\ timers' = (timers \ {t}) \cup {[t EXCEPT !.pc = "marked"]}
    /\ UNCHANGED <<blockers, queue, now, moments, cancelled, open, crashed, until>>

TimerMarksReady(t) ==
    /\ t.pc = "awake"
    /\ timers' = (timers \ {t}) \cup {[t EXCEPT !.pc = "marked"]}
    /\ blockers' = IF Exists(t.id)
                   THEN [blockers EXCEPT ![t.id].timeout = ReadyUnblock]
                   ELSE blockers
    /\ UNCHANGED <<queue, now, moments, cancelled, open, crashed, until>>

TimerUnblocks(t) ==
    /\ t.pc = "marked"
    /\ timers' = timers \ {t}
    /\ RequestUnblock(t.id)
    /\ UNCHANGED <<now, moments, cancelled, open, until>>

Tick ==
    /\ now < MaxTime
    /\ now' = now + 1
    /\ UNCHANGED <<blockers, queue, timers, moments, cancelled, open, crashed, until>>

-----------------------------------------------------------------------------
(* move_next_blocker_state_if_can(): one arm per row of its match *)

RemoveLeavesEntry(id) ==         \* mutant: the entry stays in the map, emptied
    blockers' = [blockers EXCEPT ![id].status = "Unblocked"]

Remove(id) == blockers' = [i \in DOMAIN blockers \ {id} |-> blockers[i]]

Start(id, moment) == moments' = [moments EXCEPT ![id] = moment]   \* run_handlers()

MovesToBlocked(id, b) ==
    /\ b.status = "WaitBlockedMove"
    /\ blockers' = [blockers EXCEPT ![id].status =
                      IF b.requested THEN "WaitBeforeUnblockedMove" ELSE "ProgressBlocked"]
    /\ IF b.requested THEN AddEvent(Tail(queue), id, "MoveBlockedToBeforeUnblocked")
                      ELSE queue' = Tail(queue) /\ UNCHANGED crashed
    /\ Start(id, "Blocked")

StartsUnblockingOnce(id, b) ==   \* mutant: is_unblock_in_queue stays set
    /\ blockers' = [blockers EXCEPT ![id].status = IF @ = "ProgressBlocked"
                                                   THEN "WaitBeforeUnblockedMove" ELSE @]
    /\ IF b.status = "ProgressBlocked"
       THEN AddEvent(Tail(queue), id, "MoveBlockedToBeforeUnblocked")
       ELSE queue' = Tail(queue) /\ UNCHANGED crashed
    /\ UNCHANGED moments

(* is_unblock_in_queue is reset whatever the status; is_unblock_requested   *)
(* is not looked at, so a request that block() withdrew still moves on.     *)
StartsUnblocking(id, b) ==
    /\ blockers' = [blockers EXCEPT ![id].inQueue = FALSE,
                                    ![id].status = IF @ = "ProgressBlocked"
                                                   THEN "WaitBeforeUnblockedMove" ELSE @]
    /\ IF b.status = "ProgressBlocked"
       THEN AddEvent(Tail(queue), id, "MoveBlockedToBeforeUnblocked")
       ELSE queue' = Tail(queue) /\ UNCHANGED crashed
    /\ UNCHANGED moments

MovesBeforeUnblockedStops(id, b) ==   \* mutant: the next event is not sent
    /\ b.status = "WaitBeforeUnblockedMove"
    /\ blockers' = [blockers EXCEPT ![id].status = "WaitUnblockedMove"]
    /\ queue' = Tail(queue) /\ UNCHANGED crashed
    /\ Start(id, "BeforeUnblocked")

MovesBeforeUnblocked(id, b) ==
    /\ b.status = "WaitBeforeUnblockedMove"
    /\ blockers' = [blockers EXCEPT ![id].status = "WaitUnblockedMove"]
    /\ AddEvent(Tail(queue), id, "MoveBeforeUnblockedToUnblocked")
    /\ Start(id, "BeforeUnblocked")

MovesToUnblockedAnyway(id, b) ==      \* mutant: is_unblock_requested is not looked at
    /\ b.status = "WaitUnblockedMove"
    /\ Remove(id) /\ Start(id, "Unblocked")
    /\ queue' = Tail(queue) /\ UNCHANGED crashed

MovesToUnblockedSticks(id, b) ==      \* mutant: the status is not set back
    /\ b.status = "WaitUnblockedMove"
    /\ IF b.requested
       THEN Remove(id) /\ Start(id, "Unblocked")
       ELSE UNCHANGED <<blockers, moments>>
    /\ queue' = Tail(queue) /\ UNCHANGED crashed

MovesToUnblocked(id, b) ==
    /\ b.status = "WaitUnblockedMove"
    /\ IF b.requested
       THEN Remove(id) /\ Start(id, "Unblocked")
       ELSE /\ blockers' = [blockers EXCEPT ![id].status = "ProgressBlocked"]
            /\ UNCHANGED moments
    /\ queue' = Tail(queue) /\ UNCHANGED crashed

(* The status of a blocker in which an event is not ignored *)
StatusFor(type) ==
    CASE type = "MoveToBlocked"                  -> "WaitBlockedMove"
      [] type = "MoveBlockedToBeforeUnblocked"   -> "WaitBeforeUnblockedMove"
      [] type = "MoveBeforeUnblockedToUnblocked" -> "WaitUnblockedMove"

IgnoresEvent(b, type) ==
    /\ type # "UnblockRequested" /\ b.status # StatusFor(type)
    /\ queue' = Tail(queue)
    /\ UNCHANGED <<blockers, moments, crashed>>

MoveNextState(id, b, type) ==
    \/ type = "MoveToBlocked" /\ MovesToBlocked(id, b)
    \/ type = "UnblockRequested" /\ StartsUnblocking(id, b)
    \/ type = "MoveBlockedToBeforeUnblocked" /\ MovesBeforeUnblocked(id, b)
    \/ type = "MoveBeforeUnblockedToUnblocked" /\ MovesToUnblocked(id, b)
    \/ IgnoresEvent(b, type)

(* One turn of processing(): an event is received and handled, then the     *)
(* token is looked at.  An event without a blocker fails the expect() on    *)
(* the map and ends the task.                                               *)
HandleEvent ==
    /\ open /\ queue # <<>>
    /\ LET id == Head(queue).id
       IN  IF Exists(id)
           THEN /\ MoveNextState(id, blockers[id], Head(queue).type)
                /\ open' = (~cancelled /\ crashed' # "full")
           ELSE /\ crashed' = "missing_blocker"
                /\ open' = FALSE
                /\ UNCHANGED <<blockers, queue, moments>>
    /\ until' = [i \in Ids |-> IF i \in DOMAIN blockers' THEN until[i] ELSE 0]
    /\ UNCHANGED <<timers, now, cancelled>>

-----------------------------------------------------------------------------
(* stop_processing(): the token first; then the task ends, at the head of   *)
(* its loop or by abort() while it waits for an event.                      *)

StopBlocker ==
    /\ ~cancelled
    /\ cancelled' = TRUE
    /\ UNCHANGED <<blockers, queue, timers, now, moments, open, crashed, until>>

ProcessingEnds ==
    /\ cancelled /\ open
    /\ open' = FALSE
    /\ UNCHANGED <<blockers, queue, timers, now, moments, cancelled, crashed, until>>

-----------------------------------------------------------------------------

Next ==
    \/ \E id \in Ids :
          \/ BlockManual(id)
          \/ \E d \in Durations : BlockTimed(id, d)
          \/ BlockLosesReceiver(id)
          \/ Unblock(id)
          \/ UnblockLosesReceiver(id)
    \/ \E t \in timers : TimerWakes(t) \/ TimerMarksReady(t) \/ TimerUnblocks(t)
    \/ HandleEvent
    \/ StopBlocker
    \/ ProcessingEnds
    \/ Tick

Spec == Init /\ [][Next]_vars

(* The runtime polls the processor while events are ready for it, and a     *)
(* timer task once its time has come; time goes on.  Callers owe nothing.   *)
Fairness ==
    /\ WF_vars(HandleEvent)
    /\ WF_vars(Tick)
    /\ \A h \in Handles :
          WF_vars(\E t \in timers :
                    t.h = h /\ (TimerWakes(t) \/ TimerMarksReady(t) \/ TimerUnblocks(t)))

FairSpec == Spec /\ Fairness

-----------------------------------------------------------------------------
(* The properties. *)

(* The expect() of move_next_blocker_state_if_can() never fails: no event   *)
(* outlives its blocker, although block() leaves events of a withdrawn      *)
(* release behind and a pair can be blocked anew at once.                   *)
NoMissingBlocker == crashed # "missing_blocker"

(* add_event() never finds the channel full: a pair never has more than     *)
(* three events in it, however often it is blocked and unblocked.           *)
NeverFull == crashed # "full"

(* The events of one blocker in the queue q, by its status. *)
Queued(q, k, id, type) == q[k].id = id /\ q[k].type = type

LastOf(q, k, id) == \A l \in 1..Len(q) : q[l].id = id => l <= k

(* is_unblock_in_queue tells whether a request is queued, and no second one is. *)
OneRequest(q, id, b) ==
    /\ b.inQueue <=> \E k \in 1..Len(q) : Queued(q, k, id, "UnblockRequested")
    /\ \A k, l \in 1..Len(q) :
          Queued(q, k, id, "UnblockRequested") /\ Queued(q, l, id, "UnblockRequested") => k = l

(* MoveToBlocked comes before anything else, a request excepted. *)
NotYetBlocked(q, id, b) ==
    /\ \A k \in 1..Len(q) : Queued(q, k, id, "MoveToBlocked") => b.status = "WaitBlockedMove"
    /\ b.status = "WaitBlockedMove" =>
         \E k \in 1..Len(q) :
           /\ Queued(q, k, id, "MoveToBlocked")
           /\ \A l \in 1..Len(q) :
                q[l].id = id /\ l # k => q[l].type = "UnblockRequested" /\ k < l

(* What a withdrawn release left behind comes before the next request. *)
LeftoversFirst(q, id, b) ==
    b.status = "ProgressBlocked" =>
      /\ b.requested => b.inQueue
      /\ \A k, l \in 1..Len(q) :
           /\ Queued(q, k, id, "UnblockRequested")
           /\ Queued(q, l, id, "MoveBeforeUnblockedToUnblocked")
           => l < k

(* A release on its way cannot be followed by a request. *)
AboutToUnblock(q, id, b) ==
    b.status = "WaitBeforeUnblockedMove" =>
      /\ \E k \in 1..Len(q) :
           Queued(q, k, id, "MoveBlockedToBeforeUnblocked") /\ LastOf(q, k, id)
      /\ \A k \in 1..Len(q) : ~Queued(q, k, id, "MoveBeforeUnblockedToUnblocked")
      /\ \A k, l \in 1..Len(q) :
           /\ Queued(q, k, id, "UnblockRequested")
           /\ Queued(q, l, id, "MoveBlockedToBeforeUnblocked")
           => k < l

(* The event that removes the blocker is the last of its events. *)
Unblocking(q, id, b) ==
    b.status = "WaitUnblockedMove" =>
      /\ ~b.inQueue
      /\ \E k \in 1..Len(q) :
           /\ Queued(q, k, id, "MoveBeforeUnblockedToUnblocked") /\ LastOf(q, k, id)
           /\ \A l \in 1..Len(q) :
                Queued(q, l, id, "MoveBeforeUnblockedToUnblocked") => l = k

(* Leftovers do not pile up: an unblocking event and a second move never   *)
(* share the queue, nor do three moves, nor two moves after a request.     *)
AtMostThree(q, id, b) ==
    /\ \A k, l, m \in 1..Len(q) :
         /\ Queued(q, k, id, "MoveBlockedToBeforeUnblocked")
         /\ Queued(q, l, id, "MoveBlockedToBeforeUnblocked")
         /\ Queued(q, m, id, "MoveBlockedToBeforeUnblocked")
         => k = l \/ l = m \/ k = m
    /\ \A k, l \in 1..Len(q) :
         /\ Queued(q, k, id, "MoveBeforeUnblockedToUnblocked")
         /\ Queued(q, l, id, "MoveBeforeUnblockedToUnblocked")
         => k = l
    /\ \A j, k, l \in 1..Len(q) :
         /\ \/ Queued(q, j, id, "MoveBeforeUnblockedToUnblocked")
            \/ Queued(q, j, id, "UnblockRequested") /\ j < k /\ j < l
         /\ Queued(q, k, id, "MoveBlockedToBeforeUnblocked")
         /\ Queued(q, l, id, "MoveBlockedToBeforeUnblocked")
         => k = l

EventsOf(q, id, b) ==
    /\ OneRequest(q, id, b)
    /\ NotYetBlocked(q, id, b)
    /\ LeftoversFirst(q, id, b)
    /\ AboutToUnblock(q, id, b)
    /\ Unblocking(q, id, b)
    /\ AtMostThree(q, id, b)

Ordered(q, bs) ==
    /\ \A k \in 1..Len(q) : q[k].id \in DOMAIN bs
    /\ \A id \in DOMAIN bs : EventsOf(q, id, bs[id])

(* The FIFO order of the channel is what keeps the events of withdrawn      *)
(* releases harmless: every event has its blocker, and the events of each   *)
(* blocker are those its status calls for.                                  *)
QueueOrder == open => Ordered(queue, blockers)

(* The event that carries a blocker in this status on to its release *)
CarriedBy(b) ==
    CASE b.status = "WaitBlockedMove"         -> "MoveToBlocked"
      [] b.status = "ProgressBlocked"         -> "UnblockRequested"
      [] b.status = "WaitBeforeUnblockedMove" -> "MoveBlockedToBeforeUnblocked"
      [] b.status = "WaitUnblockedMove"       -> "MoveBeforeUnblockedToUnblocked"

(* No unblock() is lost: while the processor runs, a blocker that has been  *)
(* asked to unblock has the event in the queue that takes it further, even  *)
(* when unblock() returned early because a request was already on its way.  *)
NoLostUnblock ==
    open => \A id \in DOMAIN blockers :
              blockers[id].requested =>
                \E k \in 1..Len(queue) : queue[k] = Ev(id, CarriedBy(blockers[id]))

(* Handlers are started for Blocked, then BeforeUnblocked (again, when a    *)
(* block() interrupts the release), then Unblocked, and so on from Blocked. *)
MomentsInOrder ==
    [][\A id \in Ids :
         moments'[id] # moments[id] =>
           <<moments[id], moments'[id]>> \in
             {<<"none", "Blocked">>, <<"Blocked", "BeforeUnblocked">>,
              <<"BeforeUnblocked", "Unblocked">>, <<"Unblocked", "Blocked">>}]_vars

(* The deadline a blocker shows is the deadline of a task that is there to  *)
(* meet it: abort() never stops the last timer of a block in progress.      *)
TimerIsAlive ==
    \A id \in DOMAIN blockers :
      blockers[id].timeout # ReadyUnblock =>
        \E t \in timers : t.h = blockers[id].timeout /\ t.id = id /\ t.pc # "marked"

(* A timed block holds until its time is up, unless unblock() is called. *)
TimedBlockHolds ==
    [][\A id \in DOMAIN blockers :
         id \notin DOMAIN blockers' => now >= until[id] \/ until[id] = Never]_vars

(* ExchangeBlocker implements BlockerContract. *)
Contract == INSTANCE BlockerContract WITH
    phase <- [id \in Ids |-> IF ~Exists(id) THEN "free"
                             ELSE IF blockers[id].requested THEN "releasing" ELSE "blocked"]

ImplementsContract == Contract!Spec

(* Liveness: a requested release comes to an end, by the removal of the     *)
(* blocker or by a block() that withdraws it, unless the processor stops.   *)
ReleaseEnds ==
    \A id \in Ids :
      (Exists(id) /\ blockers[id].requested) ~>
        (~open \/ ~Exists(id) \/ ~blockers[id].requested)

(* Liveness: a timed block ends by itself, however often it is prolonged    *)
(* while time lasts, unless a manual block takes its place or the processor *)
(* stops.                                                                   *)
TimedBlockEnds ==
    \A id \in Ids :
      (Exists(id) /\ blockers[id].timeout # ReadyUnblock) ~>
        (~open \/ ~Exists(id) \/ until[id] = Never)
=============================================================================
