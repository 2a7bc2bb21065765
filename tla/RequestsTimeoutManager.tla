----------------------- MODULE RequestsTimeoutManager -----------------------
(***************************************************************************)
(* core/src/exchanges/timeouts: the limit on the requests sent to one      *)
(* exchange account.  A request is granted at once or refused              *)
(* (try_reserve_instant), or it is given a start time and waits for it     *)
(* (reserve_when_available).  A group sets a number of requests aside.     *)
(* Every call holds the manager's lock, but it reads the clock before it   *)
(* has the lock, so calls arrive with times that are out of order.         *)
(***************************************************************************)
EXTENDS Integers, FiniteSets

CONSTANTS
    RequestsPerPeriod,
    Period,         \* period_duration
    Gap,            \* delay_to_next_time_period, one millisecond
    GroupIds,       \* RequestGroupId
    GroupSizes,     \* the requests_count that callers of try_reserve_group() use
    Skew,           \* how long before it gets the lock a call may have read the clock
    MaxTime,        \* bound on the clock
    MaxRequests     \* bound on the requests of a behaviour

ASSUME LimitAssumption == RequestsPerPeriod \in Nat \ {0}
ASSUME TimeAssumption  == Period \in Nat /\ Gap \in Nat \ {0} /\ Skew \in 0..Period
ASSUME BoundsAssumption == MaxTime \in Nat /\ MaxRequests \in Nat
ASSUME GroupAssumption == IsFiniteSet(GroupIds) /\ GroupSizes \subseteq Nat \ {0}

VARIABLES
    requests,   \* the requests the manager remembers
    groups,     \* pre_reserved_groups: the count of each group that exists
    lastTime,   \* last_time; 0 before the first call
    waiting,    \* the requests whose wait_for_request_availability() runs
    now,        \* the clock
    granted,    \* history: the requests ever granted, but for those cancelled
    issued,     \* history: how many requests were granted
    latest,     \* history: the latest time a call had, once it was not decreasing
    inOrder     \* history: did no call have a time before that of an earlier one?

vars == <<requests, groups, lastTime, waiting, now, granted, issued, latest, inOrder>>

None == "none"      \* group_id of a request outside the groups

(* n tells apart requests that are equal in the code; kind is history. *)
Request ==
    [n : Nat, start : Nat, group : GroupIds \cup {None}, kind : {"instant", "scheduled"}]

TypeOK ==
    /\ granted \subseteq Request /\ IsFiniteSet(granted)
    /\ requests \subseteq granted
    /\ waiting \subseteq granted
    /\ DOMAIN groups \subseteq GroupIds
    /\ groups \in [DOMAIN groups -> Nat]
    /\ now \in Nat
    /\ lastTime \in 0..now
    /\ issued \in Nat
    /\ latest \in 0..now
    /\ inOrder \in BOOLEAN

Init ==
    /\ requests = {}
    /\ groups = [g \in {} |-> 0]
    /\ lastTime = 0
    /\ waiting = {}
    /\ now = 0
    /\ granted = {}
    /\ issued = 0
    /\ latest = 0
    /\ inOrder = TRUE

-----------------------------------------------------------------------------
(* What is available. *)

SaturatingSub(a, b) == IF a > b THEN a - b ELSE 0

Later(s, t) == IF s < t THEN t ELSE s

GetNonDecreasingTime(t) == Later(lastTime, t)

(* A call that does not store its time lets the next one go behind it. *)
HasTime(current) ==
    /\ latest' = Later(latest, current)
    /\ inOrder' = (inOrder /\ latest <= current)

NotOutdatedTooFew(t) ==                 \* mutant: forgets before the period is over
    {r \in requests : r.start > t - Period + 1}

(* remove_outdated_requests() *)
NotOutdated(t) == {r \in requests : r.start >= t - Period}

Present(rs, t) == {r \in rs : r.start <= t}

UsedBy(rs, g) == {r \in rs : r.group = g}

(* The requests set aside for groups that rs does not use up. *)
Vacant(rs) ==
    {s \in GroupIds \X (1..RequestsPerPeriod) :
       /\ s[1] \in DOMAIN groups
       /\ s[2] <= SaturatingSub(groups[s[1]], Cardinality(UsedBy(rs, s[1])))}

(* The code adds up, for each group, the greater of its size and the        *)
(* requests it has in rs, and the other requests of rs: that is rs and the   *)
(* vacant requests.  The requests of a removed group are others.             *)
Available(rs) ==
    SaturatingSub(RequestsPerPeriod, Cardinality(rs) + Cardinality(Vacant(rs)))

-----------------------------------------------------------------------------
(* Groups *)

IsFresh(g) == g \notin DOMAIN groups /\ \A r \in granted : r.group # g

TryReserveGroup(t, g, count) ==
    LET current == GetNonDecreasingTime(t)
        rs      == NotOutdated(current)
    IN  /\ IsFresh(g)
        /\ HasTime(current)
        /\ requests' = rs
        /\ IF Available(Present(rs, current)) < count
           THEN UNCHANGED <<groups, lastTime>>
           ELSE /\ groups' = [i \in DOMAIN groups \cup {g} |-> IF i = g THEN count ELSE groups[i]]
                /\ lastTime' = current
        /\ UNCHANGED <<waiting, now, granted, issued>>

RemoveGroup(g) ==
    /\ g \in DOMAIN groups
    /\ groups' = [i \in DOMAIN groups \ {g} |-> groups[i]]
    /\ UNCHANGED <<requests, lastTime, waiting, now, granted, issued, latest, inOrder>>

-----------------------------------------------------------------------------
(* Requests *)

NewRequest(start, group, kind) ==
    [n |-> issued + 1, start |-> start, group |-> group, kind |-> kind]

AddRequest(rs, r) ==
    /\ requests' = rs \cup {r}
    /\ granted' = granted \cup {r}
    /\ issued' = r.n

(* try_reserve_request_instant() *)
TryReserveRequestInstant(t) ==
    LET current == GetNonDecreasingTime(t)
        rs      == NotOutdated(current)
    IN  /\ HasTime(current)
        /\ IF Available(Present(rs, current)) = 0
           THEN requests' = rs /\ UNCHANGED <<lastTime, granted, issued>>
           ELSE /\ AddRequest(rs, NewRequest(current, None, "instant"))
                /\ lastTime' = current
        /\ UNCHANGED <<groups, waiting, now>>

SpareInGroupOffByOne(rs, g) ==          \* mutant: <= for < against the group's size
    SaturatingSub(groups[g] + 1, Cardinality(UsedBy(rs, g)))

SpareInGroup(rs, g) == SaturatingSub(groups[g], Cardinality(UsedBy(rs, g)))

(* try_reserve_group_instant().  It does not store last_time. *)
TryReserveGroupInstant(t, g) ==
    LET current == GetNonDecreasingTime(t)
        rs      == NotOutdated(current)
        present == Present(rs, current)
    IN  /\ g \in DOMAIN groups
        /\ HasTime(current)
        /\ IF Available(present) + SpareInGroup(present, g) = 0
           THEN requests' = rs /\ UNCHANGED <<granted, issued>>
           ELSE AddRequest(rs, NewRequest(current, g, "instant"))
        /\ UNCHANGED <<groups, lastTime, waiting, now>>

(* try_reserve_instant(): an unknown group is no group. *)
TryReserveInstant(t, g) ==
    \/ g \notin DOMAIN groups /\ TryReserveRequestInstant(t)
    \/ TryReserveGroupInstant(t, g)

LastStart(rs) == CHOOSE s \in {r.start : r \in rs} : \A r \in rs : r.start <= s

LastPeriod(rs) == {r \in rs : r.start >= LastStart(rs) - Period}

StartAfterLastNow(rs, t) ==             \* mutant: room in the last period is taken at once
    IF rs = {} \/ Available(LastPeriod(rs)) # 0 THEN t
    ELSE Later(LastStart(rs) + Period + Gap, t)

StartAfterLast(rs, t) ==
    IF rs = {} THEN t
    ELSE Later(LastStart(rs) + (IF Available(LastPeriod(rs)) = 0 THEN Period + Gap ELSE 0), t)

ReserveWhenAvailable(t) ==
    LET current == GetNonDecreasingTime(t)
        rs      == NotOutdated(current)
        r       == NewRequest(StartAfterLast(rs, current), None, "scheduled")
    IN  /\ HasTime(current)
        /\ AddRequest(rs, r)
        /\ waiting' = waiting \cup {r}
        /\ lastTime' = current
        /\ UNCHANGED <<groups, now>>

(* wait_for_request_availability(): the time has come *)
RequestStarts(r) ==
    /\ now >= r.start
    /\ waiting' = waiting \ {r}
    /\ UNCHANGED <<requests, groups, lastTime, now, granted, issued, latest, inOrder>>

RequestIsCancelledButStays(r) ==        \* mutant: it is not taken out of the requests
    /\ waiting' = waiting \ {r}
    /\ granted' = granted \ {r}
    /\ UNCHANGED <<requests, groups, lastTime, now, issued, latest, inOrder>>

(* ... or the caller's token is cancelled first. *)
RequestIsCancelled(r) ==
    /\ waiting' = waiting \ {r}
    /\ requests' = requests \ {r}
    /\ granted' = granted \ {r}
    /\ UNCHANGED <<groups, lastTime, now, issued, latest, inOrder>>

Tick ==
    /\ now < MaxTime
    /\ now' = now + 1
    /\ UNCHANGED <<requests, groups, lastTime, waiting, granted, issued, latest, inOrder>>

-----------------------------------------------------------------------------

ReadTimes == {t \in now - Skew .. now : t >= 0}

MayRequest == issued < MaxRequests

Next ==
    \/ \E t \in ReadTimes, g \in GroupIds, count \in GroupSizes : TryReserveGroup(t, g, count)
    \/ \E t \in ReadTimes, g \in GroupIds \cup {None} : MayRequest /\ TryReserveInstant(t, g)
    \/ \E t \in ReadTimes : MayRequest /\ ReserveWhenAvailable(t)
    \/ \E g \in GroupIds : RemoveGroup(g)
    \/ \E r \in waiting : RequestStarts(r) \/ RequestIsCancelled(r)
    \/ Tick

Spec == Init /\ [][Next]_vars

-----------------------------------------------------------------------------
(* The properties. *)

Within(rs, len, end) == {r \in rs : end - len <= r.start /\ r.start <= end}

Granted(kind) == {r \in granted : r.kind = kind}

(* reserve_when_available() by itself keeps the limit: no period, shortened *)
(* by what the clocks of two calls may differ, has more scheduled starts in *)
(* it than the limit, whatever was forgotten or cancelled in between.       *)
ScheduledLimit ==
    \A r \in Granted("scheduled") :
      Cardinality(Within(Granted("scheduled"), Period - Skew, r.start)) <= RequestsPerPeriod

(* A later caller of reserve_when_available() never starts before an        *)
(* earlier one, also when the earlier one was cancelled or forgotten.       *)
ScheduledInOrder ==
    \A r, s \in Granted("scheduled") : r.n < s.n => r.start <= s.start

(* The requests granted at once, in groups or not, keep the limit by        *)
(* themselves: groups spend what they set aside, and no more is spent twice; *)
(* as long as get_non_decreasing_time() keeps the calls in order, which it   *)
(* does not behind a call that was refused or was for a group.               *)
InstantLimit == inOrder =>
    \A r \in Granted("instant") :
      Cardinality(Within(Granted("instant"), Period, r.start)) <= RequestsPerPeriod

(* The groups that exist at a time never set aside more than the limit,     *)
(* although a group's own requests of the period are not counted twice.     *)
GroupsFit ==
    Cardinality({s \in GroupIds \X (1..RequestsPerPeriod) :
                   s[1] \in DOMAIN groups /\ s[2] <= groups[s[1]]}) <= RequestsPerPeriod

(* At no moment do more requests start than requests_per_period allows in a *)
(* period: whichever way the exchange divides time into periods, the one    *)
(* that holds the moment would have too many.                               *)
PeriodLimit ==
    \A r \in granted : Cardinality(Within(granted, 0, r.start)) <= RequestsPerPeriod
=============================================================================
