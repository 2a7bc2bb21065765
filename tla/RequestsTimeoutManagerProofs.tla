-------------------- MODULE RequestsTimeoutManagerProofs --------------------
(* Proofs about RequestsTimeoutManager. *)
EXTENDS RequestsTimeoutManager, FiniteSetTheorems, TLAPS

(* A finite set of requests has one that no other starts after: the subsets  *)
(* of the requests that start after a given one have a smallest member.      *)
LEMMA LastExists ==
    ASSUME NEW rs, rs \subseteq Request, IsFiniteSet(rs), rs # {}
    PROVE  \E m \in rs : \A r \in rs : r.start <= m.start
<1> DEFINE After(r) == {q \in rs : q.start > r.start}
           T == {After(r) : r \in rs}
           R == StrictSubsetOrdering(rs)
<1>1. IsWellFoundedOn(R, SUBSET rs)
  BY FS_StrictSubsetOrderingWellFounded, FS_FiniteSubsetsOfFinite
<1>2. T \subseteq SUBSET rs /\ T # {}
  OBVIOUS
<1>3. \E x \in T : \A y \in T : ~(<<y, x>> \in R)
  <2> HIDE DEF T, R
  <2> QED BY <1>1, <1>2, WFMin
<1>4. PICK m \in rs : \A y \in T : ~(<<y, After(m)>> \in R)
  BY <1>3
<1>5. ASSUME NEW r \in rs, ~(r.start <= m.start) PROVE FALSE
  <2>1. r.start \in Nat /\ m.start \in Nat /\ r.start > m.start
    BY <1>5 DEF Request
  <2>2. After(r) \subseteq After(m)
    BY <2>1 DEF Request
  <2>3. r \in After(m) /\ r \notin After(r)
    BY <2>1
  <2>4. After(r) # After(m)
    BY <2>3
  <2>5. <<After(r), After(m)>> \in R
    BY <2>2, <2>4 DEF StrictSubsetOrdering
  <2> QED BY <2>5, <1>4
<1> QED BY <1>5

LEMMA LastStartFacts ==
    ASSUME NEW rs, rs \subseteq Request, IsFiniteSet(rs), rs # {}
    PROVE  /\ LastStart(rs) \in Nat
           /\ \A r \in rs : r.start <= LastStart(rs)
<1> DEFINE S == {r.start : r \in rs}
<1>1. S \subseteq Nat
  BY DEF Request
<1>2. \E s \in S : \A r \in rs : r.start <= s
  BY LastExists
<1>3. LastStart(rs) \in S /\ \A r \in rs : r.start <= LastStart(rs)
  BY <1>2 DEF LastStart
<1> QED BY <1>1, <1>3

(* What is left over of the limit is left over by the requests themselves. *)
LEMMA AvailableFacts ==
    ASSUME NEW rs, IsFiniteSet(rs), Available(rs) # 0
    PROVE  Cardinality(rs) < RequestsPerPeriod
<1>0. 1 \in Int /\ RequestsPerPeriod \in Int
  BY LimitAssumption
<1>1. IsFiniteSet(1..RequestsPerPeriod)
  BY <1>0, FS_Interval
<1>2. IsFiniteSet(GroupIds \X (1..RequestsPerPeriod))
  BY <1>1, FS_Product, GroupAssumption
<1>3. IsFiniteSet(Vacant(rs))
  BY <1>2, FS_Subset DEF Vacant
<1>4. Cardinality(Vacant(rs)) \in Nat /\ Cardinality(rs) \in Nat
  BY <1>3, FS_CardinalityType
<1> QED BY <1>4, LimitAssumption DEF Available, SaturatingSub

LEMMA EmptyIsFinite == IsFiniteSet({}) /\ Cardinality({}) = 0
BY FS_EmptySet

(* Where reserve_when_available() puts a request there is room for it. *)
LEMMA StartFacts ==
    ASSUME NEW rs, rs \subseteq Request, IsFiniteSet(rs), NEW t \in Nat
    PROVE  /\ StartAfterLast(rs, t) \in Nat
           /\ StartAfterLast(rs, t) >= t
           /\ \A p \in rs : p.start <= StartAfterLast(rs, t)
           /\ Cardinality({p \in rs : p.start >= StartAfterLast(rs, t) - (Period - Skew)})
                < RequestsPerPeriod
<1> DEFINE s == StartAfterLast(rs, t)
           W == {p \in rs : p.start >= s - (Period - Skew)}
<1> USE LimitAssumption, TimeAssumption
<1>1. CASE rs = {}
  <2>1. s = t /\ W = {}
    BY <1>1 DEF StartAfterLast
  <2> QED BY <2>1, <1>1, EmptyIsFinite
<1>2. CASE rs # {} /\ Available(LastPeriod(rs)) = 0
  <2>1. LastStart(rs) \in Nat /\ \A r \in rs : r.start <= LastStart(rs)
    BY <1>2, LastStartFacts
  <2>2. s = Later(LastStart(rs) + (Period + Gap), t)
    BY <1>2 DEF StartAfterLast
  <2>3. s \in Nat /\ s >= t /\ s >= LastStart(rs) + Period + Gap
    BY <2>1, <2>2 DEF Later
  <2>4. \A p \in rs : p.start \in Nat /\ p.start <= s /\ p.start < s - (Period - Skew)
    <3> TAKE p \in rs
    <3>1. p.start \in Nat
      BY DEF Request
    <3>2. p.start <= LastStart(rs)
      BY <2>1
    <3> HIDE DEF s
    <3> QED BY <3>1, <3>2, <2>1, <2>3
  <2>5. W = {}
    <3> SUFFICES ASSUME NEW p \in W PROVE FALSE
      OBVIOUS
    <3>1. p \in rs /\ p.start >= s - (Period - Skew)
      OBVIOUS
    <3> HIDE DEF s, W
    <3> QED BY <3>1, <2>3, <2>4
  <2>6. Cardinality(W) < RequestsPerPeriod
    <3> HIDE DEF W
    <3> QED BY <2>5, EmptyIsFinite
  <2>7. /\ s \in Nat /\ s >= t
        /\ \A p \in rs : p.start <= s
    BY <2>3, <2>4
  <2> QED BY <2>6, <2>7
<1>3. CASE rs # {} /\ Available(LastPeriod(rs)) # 0
  <2>1. LastStart(rs) \in Nat /\ \A r \in rs : r.start <= LastStart(rs)
    BY <1>3, LastStartFacts
  <2>2. s = Later(LastStart(rs) + 0, t)
    BY <1>3 DEF StartAfterLast
  <2>3. s \in Nat /\ s >= t /\ s >= LastStart(rs)
    BY <2>1, <2>2 DEF Later
  <2>4. \A p \in rs : p.start \in Nat /\ p.start <= s
    <3> TAKE p \in rs
    <3>1. p.start \in Nat
      BY DEF Request
    <3>2. p.start <= LastStart(rs)
      BY <2>1
    <3> HIDE DEF s
    <3> QED BY <3>1, <3>2, <2>1, <2>3
  <2>5. W \subseteq LastPeriod(rs)
    <3> SUFFICES ASSUME NEW p \in W PROVE p \in LastPeriod(rs)
      OBVIOUS
    <3>1. p \in rs /\ p.start >= s - (Period - Skew)
      OBVIOUS
    <3>2. p.start >= LastStart(rs) - Period
      <4> HIDE DEF s, W
      <4> QED BY <3>1, <2>1, <2>3, <2>4
    <3> QED BY <3>1, <3>2 DEF LastPeriod
  <2>6. IsFiniteSet(LastPeriod(rs))
    BY FS_Subset DEF LastPeriod
  <2>7. IsFiniteSet(W) /\ Cardinality(W) <= Cardinality(LastPeriod(rs))
    BY <2>5, <2>6, FS_Subset
  <2>8. Cardinality(W) \in Nat /\ Cardinality(LastPeriod(rs)) \in Nat
    BY <2>6, <2>7, FS_CardinalityType
  <2>9. Cardinality(LastPeriod(rs)) < RequestsPerPeriod
    BY <1>3, <2>6, AvailableFacts
  <2>10. Cardinality(W) < RequestsPerPeriod
    <3> HIDE DEF W
    <3> QED BY <2>7, <2>8, <2>9
  <2>11. /\ s \in Nat /\ s >= t
         /\ \A p \in rs : p.start <= s
    BY <2>3, <2>4
  <2> QED BY <2>10, <2>11
<1> QED BY <1>1, <1>2, <1>3

-----------------------------------------------------------------------------
(* The inductive invariant: numbers grow, and what the manager has forgotten *)
(* began more than a period ago.                                             *)

Numbered == \A r \in granted : r.n <= issued

Forgotten == \A r \in granted : r \in requests \/ r.start < latest - Period

Inv == TypeOK /\ Numbered /\ Forgotten /\ ScheduledLimit /\ ScheduledInOrder

LEMMA TimeFacts ==
    ASSUME TypeOK, NEW t \in ReadTimes
    PROVE  /\ GetNonDecreasingTime(t) \in Nat
           /\ lastTime <= GetNonDecreasingTime(t)
           /\ GetNonDecreasingTime(t) <= now
           /\ now - Skew <= GetNonDecreasingTime(t)
BY TimeAssumption DEF TypeOK, ReadTimes, GetNonDecreasingTime, Later

(* The latest time that a call had. *)
LEMMA LatestFacts ==
    ASSUME TypeOK, NEW t \in ReadTimes, HasTime(GetNonDecreasingTime(t))
    PROVE  /\ latest' = Later(latest, GetNonDecreasingTime(t)) /\ latest' \in 0..now
           /\ latest \in Nat /\ latest <= latest' /\ GetNonDecreasingTime(t) <= latest'
           /\ inOrder' \in BOOLEAN
           /\ inOrder' => inOrder /\ latest' = GetNonDecreasingTime(t)
<1> DEFINE c == GetNonDecreasingTime(t)
<1>1. c \in Nat /\ c <= now /\ now \in Nat /\ latest \in 0..now /\ inOrder \in BOOLEAN
  BY TimeFacts DEF TypeOK
<1>2. latest' = Later(latest, c) /\ inOrder' = (inOrder /\ latest <= c)
  BY DEF HasTime
<1> HIDE DEF c
<1>3. inOrder' \in BOOLEAN
  BY <1>2
<1>4. inOrder' => inOrder /\ latest <= c
  BY <1>2
<1> QED BY <1>1, <1>2, <1>3, <1>4 DEF Later, c

(* remove_outdated_requests() forgets no request of the last period. *)
LEMMA NotOutdatedFacts ==
    ASSUME TypeOK, Forgotten, NEW t \in ReadTimes
    PROVE  /\ NotOutdated(GetNonDecreasingTime(t)) \subseteq requests
           /\ NotOutdated(GetNonDecreasingTime(t)) \subseteq Request
           /\ IsFiniteSet(NotOutdated(GetNonDecreasingTime(t)))
           /\ \A r \in granted :
                 r \in NotOutdated(GetNonDecreasingTime(t)) \/ r.start < now - Period
           /\ \A r \in granted :
                 \/ r \in NotOutdated(GetNonDecreasingTime(t))
                 \/ r.start < Later(latest, GetNonDecreasingTime(t)) - Period
<1> DEFINE c == GetNonDecreasingTime(t)
<1>1. NotOutdated(c) \subseteq requests
  BY DEF NotOutdated
<1>2. requests \subseteq Request /\ IsFiniteSet(requests)
  BY FS_Subset DEF TypeOK
<1>3. IsFiniteSet(NotOutdated(c))
  BY <1>1, <1>2, FS_Subset
<1>4. ASSUME NEW r \in granted
      PROVE  r \in NotOutdated(c) \/ (r.start < now - Period /\ r.start < Later(latest, c) - Period)
  <2>1. r.start \in Nat
    BY DEF TypeOK, Request
  <2>2. c \in Nat /\ c <= now /\ now \in Nat /\ latest \in 0..now
    BY TimeFacts DEF TypeOK
  <2>3. CASE r \in requests /\ ~(r.start >= c - Period)
    <3> HIDE DEF c
    <3> QED BY <2>1, <2>2, <2>3, TimeAssumption DEF Later
  <2>4. CASE r \in requests /\ r.start >= c - Period
    BY <2>4 DEF NotOutdated
  <2>5. CASE r \notin requests
    <3>1. r.start < latest - Period
      BY <2>5 DEF Forgotten
    <3> HIDE DEF c
    <3> QED BY <2>1, <2>2, <3>1, TimeAssumption DEF Later
  <2> QED BY <2>3, <2>4, <2>5
<1> QED BY <1>1, <1>2, <1>3, <1>4

LEMMA AddOne ==
    ASSUME NEW S, NEW x, IsFiniteSet(S), NEW k \in Nat, Cardinality(S) < k
    PROVE  Cardinality(S \cup {x}) <= k
<1>1. Cardinality(S) \in Nat
  BY FS_CardinalityType
<1>2. Cardinality(S \cup {x}) = IF x \in S THEN Cardinality(S) ELSE Cardinality(S) + 1
  BY FS_AddElement
<1>3. CASE x \in S
  BY <1>1, <1>2, <1>3
<1>4. CASE x \notin S
  <2>1. Cardinality(S \cup {x}) = Cardinality(S) + 1
    BY <1>2, <1>4
  <2> QED BY <1>1, <2>1
<1> QED BY <1>3, <1>4

(* Adding a request r to a set G of requests, in which no window that ends   *)
(* at r is full and nothing starts after r, keeps the limit.                 *)
LEMMA LimitAfterAdding ==
    ASSUME NEW G, G \subseteq Request, IsFiniteSet(G), NEW r \in Request,
           \A p \in G : p.start <= r.start,
           Cardinality(Within(G, Period - Skew, r.start)) < RequestsPerPeriod,
           \A q \in G : Cardinality(Within(G, Period - Skew, q.start)) <= RequestsPerPeriod,
           NEW q \in G \cup {r}
    PROVE  Cardinality(Within(G \cup {r}, Period - Skew, q.start)) <= RequestsPerPeriod
<1> DEFINE L == Period - Skew
<1>1. r.start \in Nat /\ q.start \in Nat /\ L \in Nat /\ q.start <= r.start
  BY TimeAssumption DEF Request
<1>2. CASE q.start = r.start
  <2>1. Within(G \cup {r}, L, q.start) = Within(G, L, r.start) \cup {r}
    BY <1>1, <1>2 DEF Within
  <2>2. IsFiniteSet(Within(G, L, r.start))
    BY FS_Subset DEF Within
  <2>3. Cardinality(Within(G, L, r.start) \cup {r}) <= RequestsPerPeriod
    BY <2>2, AddOne, LimitAssumption
  <2> QED BY <2>1, <2>3
<1>3. CASE q.start # r.start
  <2>1. Within(G \cup {r}, L, q.start) = Within(G, L, q.start)
    BY <1>1, <1>3 DEF Within, Request
  <2>2. q \in G
    BY <1>3
  <2> QED BY <2>1, <2>2
<1> QED BY <1>2, <1>3

LEMMA LimitOfSubset ==
    ASSUME NEW G, IsFiniteSet(G), NEW H \in SUBSET G, NEW e,
           Cardinality(Within(G, Period - Skew, e)) <= RequestsPerPeriod
    PROVE  Cardinality(Within(H, Period - Skew, e)) <= RequestsPerPeriod
<1> DEFINE A == Within(G, Period - Skew, e)
           B == Within(H, Period - Skew, e)
<1>1. B \subseteq A /\ IsFiniteSet(A)
  BY FS_Subset DEF Within
<1>2. IsFiniteSet(B) /\ Cardinality(B) <= Cardinality(A)
  BY <1>1, FS_Subset
<1>3. Cardinality(A) \in Nat /\ Cardinality(B) \in Nat
  BY <1>1, <1>2, FS_CardinalityType
<1> HIDE DEF A, B
<1>4. Cardinality(A) <= RequestsPerPeriod
  BY DEF A
<1> QED BY <1>2, <1>3, <1>4, LimitAssumption DEF B

-----------------------------------------------------------------------------
(* The steps *)

LEMMA StepOfInstant ==
    ASSUME Inv, NEW t \in ReadTimes, NEW g \in GroupIds \cup {None},
           NEW rs, rs = NotOutdated(GetNonDecreasingTime(t)),
           AddRequest(rs, NewRequest(GetNonDecreasingTime(t), g, "instant")),
           lastTime' \in {lastTime, GetNonDecreasingTime(t)}, HasTime(GetNonDecreasingTime(t)),
           UNCHANGED <<groups, waiting, now>>
    PROVE  Inv'
<1> DEFINE r == NewRequest(GetNonDecreasingTime(t), g, "instant")
<1>1. /\ r \in Request /\ r.kind = "instant" /\ r.n = issued + 1
      /\ r.start = GetNonDecreasingTime(t) /\ issued \in Nat
  BY TimeFacts DEF Inv, TypeOK, Request, NewRequest
<1>2. /\ requests' = rs \cup {r} /\ granted' = granted \cup {r} /\ issued' = issued + 1
  BY <1>1 DEF AddRequest
<1>3. rs \subseteq requests /\ \A q \in granted : q \in rs \/ q.start < latest' - Period
  BY NotOutdatedFacts, LatestFacts DEF Inv
<1>4. TypeOK'
  <2>1. IsFiniteSet(granted')
    BY <1>2, FS_AddElement DEF Inv, TypeOK
  <2>2. lastTime' \in 0..now' /\ latest' \in 0..now' /\ inOrder' \in BOOLEAN
    BY TimeFacts, LatestFacts DEF Inv, TypeOK
  <2> HIDE DEF r
  <2> QED BY <1>1, <1>2, <1>3, <2>1, <2>2 DEF Inv, TypeOK
<1>5. Numbered'
  <2> HIDE DEF r
  <2> QED BY <1>1, <1>2 DEF Inv, TypeOK, Numbered, Request
<1>6. Forgotten'
  <2> HIDE DEF r
  <2> QED BY <1>2, <1>3 DEF Forgotten
<1>7. Granted("scheduled")' = Granted("scheduled")
  <2> HIDE DEF r
  <2> QED BY <1>1, <1>2 DEF Granted
<1>8. ScheduledLimit' /\ ScheduledInOrder'
  BY <1>7 DEF Inv, ScheduledLimit, ScheduledInOrder
<1> QED BY <1>4, <1>5, <1>6, <1>8 DEF Inv

LEMMA StepOfForgetting ==
    ASSUME Inv, NEW t \in ReadTimes,
           requests' = NotOutdated(GetNonDecreasingTime(t)),
           lastTime' \in {lastTime, GetNonDecreasingTime(t)},
           DOMAIN groups' \subseteq GroupIds, groups' \in [DOMAIN groups' -> Nat],
           HasTime(GetNonDecreasingTime(t)), UNCHANGED <<waiting, now, granted, issued>>
    PROVE  Inv'
<1>1. requests' \subseteq requests /\ \A q \in granted : q \in requests' \/ q.start < latest' - Period
  BY NotOutdatedFacts, LatestFacts DEF Inv
<1>2. lastTime' \in 0..now' /\ latest' \in 0..now' /\ inOrder' \in BOOLEAN
  BY TimeFacts, LatestFacts DEF Inv, TypeOK
<1>3. TypeOK'
  BY <1>1, <1>2 DEF Inv, TypeOK
<1>4. Numbered' /\ Forgotten'
  BY <1>1 DEF Inv, Numbered, Forgotten
<1>5. ScheduledLimit' /\ ScheduledInOrder'
  BY DEF Inv, ScheduledLimit, ScheduledInOrder, Granted
<1> QED BY <1>3, <1>4, <1>5 DEF Inv

LEMMA StepOfScheduling ==
    ASSUME Inv, NEW t \in ReadTimes, ReserveWhenAvailable(t)
    PROVE  Inv'
<1> DEFINE c  == GetNonDecreasingTime(t)
           rs == NotOutdated(c)
           r  == NewRequest(StartAfterLast(rs, c), None, "scheduled")
           G  == Granted("scheduled")
<1>0. /\ c \in Nat /\ lastTime <= c /\ c <= now /\ now - Skew <= c
      /\ now \in Nat /\ issued \in Nat /\ lastTime \in Nat
  BY TimeFacts DEF Inv, TypeOK
<1>1. /\ rs \subseteq requests /\ rs \subseteq Request /\ IsFiniteSet(rs)
      /\ \A q \in granted : q \in rs \/ q.start < now - Period
  BY NotOutdatedFacts DEF Inv
<1>15. /\ \A q \in granted : q \in rs \/ q.start < latest' - Period
       /\ latest' \in 0..now /\ inOrder' \in BOOLEAN
  BY NotOutdatedFacts, LatestFacts DEF Inv, ReserveWhenAvailable
<1>2. /\ r.start \in Nat /\ r.start >= c
      /\ \A p \in rs : p.start <= r.start
      /\ Cardinality({p \in rs : p.start >= r.start - (Period - Skew)}) < RequestsPerPeriod
  <2>1. r.start = StartAfterLast(rs, c)
    BY DEF NewRequest
  <2> HIDE DEF rs, c, r
  <2> QED BY <2>1, <1>0, <1>1, StartFacts
<1>3. r \in Request /\ r.kind = "scheduled" /\ r.n = issued + 1
  BY <1>0, <1>2 DEF Request, NewRequest
<1>4. /\ requests' = rs \cup {r} /\ granted' = granted \cup {r} /\ issued' = issued + 1
      /\ waiting' = waiting \cup {r} /\ lastTime' = c /\ UNCHANGED <<groups, now>>
  BY <1>3 DEF ReserveWhenAvailable, AddRequest
<1> HIDE DEF c, rs, r
<1>5. \A p \in granted : p.start \in Nat /\ p.n \in Nat /\ p.n <= issued
  BY DEF Inv, TypeOK, Request, Numbered
<1>6. \A p \in granted : p \in rs \/ p.start < r.start - (Period - Skew)
  BY <1>0, <1>1, <1>2, <1>5, TimeAssumption
<1>7. \A p \in granted : p.start <= r.start
  BY <1>2, <1>5, <1>6, TimeAssumption
<1>8. TypeOK'
  <2>1. IsFiniteSet(granted')
    BY <1>4, FS_AddElement DEF Inv, TypeOK
  <2>2. lastTime' \in 0..now' /\ latest' \in 0..now' /\ inOrder' \in BOOLEAN
    BY <1>0, <1>4, <1>15
  <2>3. granted' \subseteq Request /\ requests' \subseteq granted' /\ waiting' \subseteq granted'
    BY <1>1, <1>3, <1>4 DEF Inv, TypeOK
  <2> QED BY <1>0, <1>4, <2>1, <2>2, <2>3 DEF Inv, TypeOK
<1>9. Numbered'
  BY <1>0, <1>3, <1>4, <1>5 DEF Numbered
<1>10. Forgotten'
  BY <1>4, <1>15 DEF Forgotten
<1>11. G \subseteq granted /\ G \subseteq Request /\ IsFiniteSet(G)
  BY FS_Subset DEF Inv, TypeOK, Granted
<1>12. Granted("scheduled")' = G \cup {r}
  BY <1>3, <1>4 DEF Granted
<1>13. Cardinality(Within(G, Period - Skew, r.start)) < RequestsPerPeriod
  <2> DEFINE W == {p \in rs : p.start >= r.start - (Period - Skew)}
  <2>1. Within(G, Period - Skew, r.start) \subseteq W
    BY <1>2, <1>5, <1>6, <1>11, TimeAssumption DEF Within
  <2>2. IsFiniteSet(W)
    BY <1>1, FS_Subset
  <2>3. /\ IsFiniteSet(Within(G, Period - Skew, r.start))
        /\ Cardinality(Within(G, Period - Skew, r.start)) <= Cardinality(W)
    BY <2>1, <2>2, FS_Subset
  <2>4. /\ Cardinality(Within(G, Period - Skew, r.start)) \in Nat
        /\ Cardinality(W) \in Nat
    BY <2>2, <2>3, FS_CardinalityType
  <2>5. Cardinality(W) < RequestsPerPeriod
    BY <1>2
  <2> HIDE DEF W, G
  <2> QED BY <2>3, <2>4, <2>5, LimitAssumption
<1>14. ScheduledLimit'
  <2>1. \A q \in G : Cardinality(Within(G, Period - Skew, q.start)) <= RequestsPerPeriod
    BY DEF Inv, ScheduledLimit
  <2>2. \A p \in G : p.start <= r.start
    BY <1>7, <1>11
  <2> HIDE DEF G
  <2>3. \A q \in G \cup {r} :
          Cardinality(Within(G \cup {r}, Period - Skew, q.start)) <= RequestsPerPeriod
    BY <1>3, <1>11, <1>13, <2>1, <2>2, LimitAfterAdding
  <2> QED BY <1>12, <2>3 DEF ScheduledLimit, Within
<1>16. ScheduledInOrder'
  <2> HIDE DEF G
  <2> SUFFICES ASSUME NEW p \in G \cup {r}, NEW q \in G \cup {r}, p.n < q.n
               PROVE  p.start <= q.start
    BY <1>12 DEF ScheduledInOrder
  <2>1. CASE q = r
    BY <2>1, <1>2, <1>7, <1>11
  <2>2. CASE q \in G /\ p = r
    BY <2>2, <1>0, <1>3, <1>5, <1>11
  <2>3. CASE q \in G /\ p \in G
    BY <2>3 DEF Inv, ScheduledInOrder, G
  <2> QED BY <2>1, <2>2, <2>3
<1> QED BY <1>8, <1>9, <1>10, <1>14, <1>16 DEF Inv

LEMMA StepOfWaiting ==
    ASSUME Inv, NEW r \in waiting, RequestStarts(r) \/ RequestIsCancelled(r)
    PROVE  Inv'
<1>1. CASE RequestStarts(r)
  <2>1. TypeOK'
    BY <1>1 DEF Inv, TypeOK, RequestStarts
  <2>2. Numbered' /\ Forgotten'
    BY <1>1 DEF Inv, Numbered, Forgotten, RequestStarts
  <2>3. ScheduledLimit' /\ ScheduledInOrder'
    BY <1>1 DEF Inv, ScheduledLimit, ScheduledInOrder, Granted, RequestStarts
  <2> QED BY <2>1, <2>2, <2>3 DEF Inv
<1>2. CASE RequestIsCancelled(r)
  <2> DEFINE G == Granted("scheduled")
             H == {q \in granted \ {r} : q.kind = "scheduled"}
  <2>1. /\ requests' = requests \ {r} /\ granted' = granted \ {r} /\ waiting' = waiting \ {r}
        /\ UNCHANGED <<groups, lastTime, now, issued, latest, inOrder>>
    BY <1>2 DEF RequestIsCancelled
  <2>2. TypeOK'
    <3>1. IsFiniteSet(granted')
      BY <2>1, FS_Subset DEF Inv, TypeOK
    <3> QED BY <2>1, <3>1 DEF Inv, TypeOK
  <2>3. Numbered' /\ Forgotten'
    BY <2>1 DEF Inv, Numbered, Forgotten
  <2>4. H \subseteq G /\ IsFiniteSet(G) /\ Granted("scheduled")' = H
    BY <2>1, FS_Subset DEF Inv, TypeOK, Granted
  <2>5. \A q \in G : Cardinality(Within(G, Period - Skew, q.start)) <= RequestsPerPeriod
    BY DEF Inv, ScheduledLimit
  <2>6. ScheduledInOrder'
    BY <2>4 DEF Inv, ScheduledInOrder
  <2> HIDE DEF G, H
  <2>7. \A q \in H : Cardinality(Within(H, Period - Skew, q.start)) <= RequestsPerPeriod
    BY <2>4, <2>5, LimitOfSubset
  <2>8. ScheduledLimit'
    BY <2>4, <2>7 DEF ScheduledLimit, Within
  <2> QED BY <2>2, <2>3, <2>6, <2>8 DEF Inv
<1> QED BY <1>1, <1>2

LEMMA StepOfTime ==
    ASSUME Inv, Tick
    PROVE  Inv'
<1>1. now' = now + 1 /\ UNCHANGED <<requests, groups, lastTime, waiting, granted, issued, latest, inOrder>>
  BY DEF Tick
<1>2. TypeOK'
  BY <1>1 DEF Inv, TypeOK
<1>3. Numbered' /\ Forgotten'
  BY <1>1, TimeAssumption DEF Inv, TypeOK, Request, Numbered, Forgotten
<1>4. ScheduledLimit' /\ ScheduledInOrder'
  BY <1>1 DEF Inv, ScheduledLimit, ScheduledInOrder, Granted
<1> QED BY <1>2, <1>3, <1>4 DEF Inv

LEMMA StepOfTryReserveInstant ==
    ASSUME Inv, NEW t \in ReadTimes, NEW g \in GroupIds \cup {None}, TryReserveInstant(t, g)
    PROVE  Inv'
<1>0. DOMAIN groups \subseteq GroupIds /\ groups \in [DOMAIN groups -> Nat]
  BY DEF Inv, TypeOK
<1>1. CASE TryReserveRequestInstant(t)
  <2>1. CASE Available(Present(NotOutdated(GetNonDecreasingTime(t)), GetNonDecreasingTime(t))) = 0
    BY <1>0, <1>1, <2>1, StepOfForgetting DEF TryReserveRequestInstant
  <2>2. CASE Available(Present(NotOutdated(GetNonDecreasingTime(t)), GetNonDecreasingTime(t))) # 0
    BY <1>1, <2>2, StepOfInstant DEF TryReserveRequestInstant
  <2> QED BY <2>1, <2>2
<1>2. CASE TryReserveGroupInstant(t, g)
  <2> DEFINE rs == NotOutdated(GetNonDecreasingTime(t))
  <2>1. \/ requests' = rs /\ UNCHANGED <<granted, issued>>
        \/ AddRequest(rs, NewRequest(GetNonDecreasingTime(t), g, "instant"))
    BY <1>2 DEF TryReserveGroupInstant
  <2>2. HasTime(GetNonDecreasingTime(t)) /\ UNCHANGED <<groups, lastTime, waiting, now>>
    BY <1>2 DEF TryReserveGroupInstant
  <2>3. CASE requests' = rs /\ UNCHANGED <<granted, issued>>
    BY <1>0, <2>2, <2>3, StepOfForgetting
  <2>4. CASE AddRequest(rs, NewRequest(GetNonDecreasingTime(t), g, "instant"))
    BY <2>2, <2>4, StepOfInstant
  <2> QED BY <2>1, <2>3, <2>4
<1> QED BY <1>1, <1>2 DEF TryReserveInstant

LEMMA StepOfGroups ==
    ASSUME Inv,
           \/ \E t \in ReadTimes, g \in GroupIds, count \in GroupSizes : TryReserveGroup(t, g, count)
           \/ \E g \in GroupIds : RemoveGroup(g)
    PROVE  Inv'
<1>0. DOMAIN groups \subseteq GroupIds /\ groups \in [DOMAIN groups -> Nat]
  BY DEF Inv, TypeOK
<1>1. CASE \E t \in ReadTimes, g \in GroupIds, count \in GroupSizes : TryReserveGroup(t, g, count)
  <2>1. PICK t \in ReadTimes, g \in GroupIds, count \in GroupSizes : TryReserveGroup(t, g, count)
    BY <1>1
  <2>2. count \in Nat
    BY GroupAssumption
  <2>3. /\ requests' = NotOutdated(GetNonDecreasingTime(t))
        /\ lastTime' \in {lastTime, GetNonDecreasingTime(t)}
        /\ HasTime(GetNonDecreasingTime(t)) /\ UNCHANGED <<waiting, now, granted, issued>>
    BY <2>1 DEF TryReserveGroup
  <2>4. \/ groups' = groups
        \/ groups' = [i \in DOMAIN groups \cup {g} |-> IF i = g THEN count ELSE groups[i]]
    BY <2>1 DEF TryReserveGroup
  <2>5. DOMAIN groups' \subseteq GroupIds /\ groups' \in [DOMAIN groups' -> Nat]
    BY <1>0, <2>2, <2>4
  <2> QED BY <2>3, <2>5, StepOfForgetting
<1>2. CASE \E g \in GroupIds : RemoveGroup(g)
  <2>1. PICK g \in GroupIds : RemoveGroup(g)
    BY <1>2
  <2>2. /\ groups' = [i \in DOMAIN groups \ {g} |-> groups[i]]
        /\ UNCHANGED <<requests, lastTime, waiting, now, granted, issued, latest, inOrder>>
    BY <2>1 DEF RemoveGroup
  <2>3. DOMAIN groups' \subseteq GroupIds /\ groups' \in [DOMAIN groups' -> Nat]
    BY <1>0, <2>2
  <2>4. TypeOK'
    BY <2>2, <2>3 DEF Inv, TypeOK
  <2>5. Numbered' /\ Forgotten' /\ ScheduledLimit' /\ ScheduledInOrder'
    BY <2>2 DEF Inv, Numbered, Forgotten, ScheduledLimit, ScheduledInOrder, Granted
  <2> QED BY <2>4, <2>5 DEF Inv
<1> QED BY <1>1, <1>2

-----------------------------------------------------------------------------

LEMMA InvInductive ==
    ASSUME Inv, [Next]_vars
    PROVE  Inv'
<1>1. CASE \/ \E t \in ReadTimes, g \in GroupIds, count \in GroupSizes : TryReserveGroup(t, g, count)
           \/ \E g \in GroupIds : RemoveGroup(g)
  BY <1>1, StepOfGroups
<1>2. CASE \E t \in ReadTimes, g \in GroupIds \cup {None} : MayRequest /\ TryReserveInstant(t, g)
  BY <1>2, StepOfTryReserveInstant
<1>3. CASE \E t \in ReadTimes : MayRequest /\ ReserveWhenAvailable(t)
  BY <1>3, StepOfScheduling
<1>4. CASE \E r \in waiting : RequestStarts(r) \/ RequestIsCancelled(r)
  BY <1>4, StepOfWaiting
<1>5. CASE Tick
  BY <1>5, StepOfTime
<1>6. CASE UNCHANGED vars
  <2>1. TypeOK'
    BY <1>6 DEF vars, Inv, TypeOK
  <2>2. Numbered' /\ Forgotten' /\ ScheduledLimit' /\ ScheduledInOrder'
    BY <1>6 DEF vars, Inv, Numbered, Forgotten, ScheduledLimit, ScheduledInOrder, Granted
  <2> QED BY <2>1, <2>2 DEF Inv
<1> QED BY <1>1, <1>2, <1>3, <1>4, <1>5, <1>6 DEF Next

LEMMA InvInitially == Init => Inv
<1> SUFFICES ASSUME Init PROVE Inv
  OBVIOUS
<1>1. TypeOK
  BY EmptyIsFinite DEF Init, TypeOK
<1>2. Numbered /\ Forgotten /\ ScheduledLimit /\ ScheduledInOrder
  BY DEF Init, Numbered, Forgotten, ScheduledLimit, ScheduledInOrder, Granted
<1> QED BY <1>1, <1>2 DEF Inv

LEMMA InvAlways == Spec => []Inv
<1>1. Inv /\ [Next]_vars => Inv'
  BY InvInductive
<1> QED BY <1>1, InvInitially, PTL DEF Spec

(* The manager's state keeps its type: what it remembers and what waits was  *)
(* granted, and last_time never runs ahead of the clock.                     *)
THEOREM TypeCorrect == Spec => []TypeOK
<1>1. Inv => TypeOK
  BY DEF Inv
<1> QED BY <1>1, InvAlways, PTL

(* For every limit, period and clock skew, the start times handed out by     *)
(* reserve_when_available() keep the limit on requests per period, however   *)
(* instant requests, groups and cancellations come between.                  *)
THEOREM ScheduledLimitHolds == Spec => []ScheduledLimit
<1>1. Inv => ScheduledLimit
  BY DEF Inv
<1> QED BY <1>1, InvAlways, PTL

(* Start times are handed out in the order of the calls.                     *)
THEOREM ScheduledInOrderHolds == Spec => []ScheduledInOrder
<1>1. Inv => ScheduledInOrder
  BY DEF Inv
<1> QED BY <1>1, InvAlways, PTL
-----------------------------------------------------------------------------
(* Counting.  The requests set aside that rs leaves vacant, of groups gs.    *)

VacantOf(gs, rs) ==
    {s \in GroupIds \X (1..RequestsPerPeriod) :
       /\ s[1] \in DOMAIN gs
       /\ s[2] <= SaturatingSub(gs[s[1]], Cardinality(UsedBy(rs, s[1])))}

LEMMA VacantFinite == ASSUME NEW gs, NEW rs PROVE IsFiniteSet(VacantOf(gs, rs))
<1>0. 1 \in Int /\ RequestsPerPeriod \in Int
  BY LimitAssumption
<1>1. IsFiniteSet(1..RequestsPerPeriod)
  BY <1>0, FS_Interval
<1>2. IsFiniteSet(GroupIds \X (1..RequestsPerPeriod))
  BY <1>1, FS_Product, GroupAssumption
<1> QED BY <1>2, FS_Subset DEF VacantOf

(* A request that leaves the window frees at most one request set aside: the *)
(* slots that become vacant are numbered, group by group, by the requests    *)
(* that left.                                                                *)
LEMMA FreedSlots ==
    ASSUME NEW gs, DOMAIN gs \subseteq GroupIds, gs \in [DOMAIN gs -> Nat],
           NEW W, IsFiniteSet(W), NEW V \in SUBSET W
    PROVE  Cardinality(VacantOf(gs, V) \ VacantOf(gs, W)) <= Cardinality(W \ V)
<1> DEFINE D == VacantOf(gs, V) \ VacantOf(gs, W)
           U(g) == UsedBy(W, g) \ UsedBy(V, g)
           w(g) == Cardinality(UsedBy(W, g))
           v(g) == Cardinality(UsedBy(V, g))
           B(g) == CHOOSE b : b \in Bijection(1..Cardinality(U(g)), U(g))
           i(s) == s[2] - SaturatingSub(gs[s[1]], w(s[1]))
           f == [s \in D |-> B(s[1])[i(s)]]
<1>1. ASSUME NEW g
      PROVE  /\ w(g) \in Nat /\ v(g) \in Nat
             /\ Cardinality(U(g)) = w(g) - v(g)
             /\ B(g) \in Bijection(1..Cardinality(U(g)), U(g))
  <2>1. /\ IsFiniteSet(UsedBy(W, g)) /\ IsFiniteSet(UsedBy(V, g))
        /\ UsedBy(W, g) \cap UsedBy(V, g) = UsedBy(V, g)
    BY FS_Subset DEF UsedBy
  <2>2. w(g) \in Nat /\ v(g) \in Nat
    BY <2>1, FS_CardinalityType
  <2>3. IsFiniteSet(U(g)) /\ Cardinality(U(g)) = w(g) - v(g)
    <3> DEFINE S == UsedBy(W, g)
               T == UsedBy(V, g)
    <3>1. IsFiniteSet(S) /\ S \cap T = T
      BY <2>1
    <3> HIDE DEF S, T
    <3>2. IsFiniteSet(S \ T) /\ Cardinality(S \ T) = Cardinality(S) - Cardinality(T)
      BY <3>1, FS_Difference, ZenonT(60)
    <3> QED BY <3>2 DEF S, T
  <2>4. ExistsBijection(1..Cardinality(U(g)), U(g))
    BY <2>3, FS_CardinalityType
  <2>5. B(g) \in Bijection(1..Cardinality(U(g)), U(g))
    <3> HIDE DEF U
    <3> QED BY <2>4 DEF ExistsBijection
  <2> HIDE DEF U, w, v, B
  <2> QED BY <2>2, <2>3, <2>5
<1>2. ASSUME NEW s \in D
      PROVE  /\ s[1] \in DOMAIN gs /\ s[2] \in Nat /\ s = <<s[1], s[2]>>
             /\ i(s) \in 1..Cardinality(U(s[1]))
             /\ s[2] = i(s) + SaturatingSub(gs[s[1]], w(s[1]))
  <2>1. /\ s[1] \in DOMAIN gs /\ s[2] \in 1..RequestsPerPeriod /\ s = <<s[1], s[2]>>
        /\ s[2] <= SaturatingSub(gs[s[1]], v(s[1]))
        /\ ~(s[2] <= SaturatingSub(gs[s[1]], w(s[1])))
    BY DEF VacantOf
  <2>2. /\ w(s[1]) \in Nat /\ v(s[1]) \in Nat /\ gs[s[1]] \in Nat
        /\ Cardinality(U(s[1])) = w(s[1]) - v(s[1])
    BY <1>1, <2>1
  <2> HIDE DEF U, w, v, D
  <2> QED BY <2>1, <2>2, LimitAssumption DEF SaturatingSub
<1>3. ASSUME NEW s \in D PROVE f[s] \in U(s[1]) /\ f[s] = B(s[1])[i(s)]
  <2> HIDE DEF U, B, i, D
  <2> QED BY <1>1, <1>2, <1>3 DEF Bijection, Injection
<1>4. ASSUME NEW s \in D, NEW u \in D, f[s] = f[u] PROVE s = u
  <2>1. s[1] = u[1]
    <3> HIDE DEF B, i, D, f
    <3>1. f[s] \in U(s[1]) /\ f[s] \in U(u[1])
      BY <1>3, <1>4
    <3> HIDE DEF U
    <3> QED BY <3>1 DEF U, UsedBy
  <2>2. i(s) = i(u)
    <3> HIDE DEF U, B, i, D, f
    <3> QED BY <1>1, <1>2, <1>3, <1>4, <2>1 DEF Bijection, Injection, IsInjective
  <2> HIDE DEF U, B, i, D, f
  <2> QED BY <1>2, <2>1, <2>2
<1>5. f \in Injection(D, W \ V)
  <2>1. \A s \in D : f[s] \in W \ V
    BY <1>3 DEF UsedBy
  <2>2. f \in [D -> W \ V]
    <3> HIDE DEF D, B, i
    <3> QED BY <2>1
  <2> HIDE DEF f, D
  <2> QED BY <1>4, <2>2 DEF Injection, IsInjective
<1>6. IsFiniteSet(W \ V)
  BY FS_Subset
<1> HIDE DEF D, f
<1> QED BY <1>5, <1>6, FS_Injection DEF D

(* So a window that loses requests needs no more than it did before. *)
LEMMA SmallerWindow ==
    ASSUME NEW gs, DOMAIN gs \subseteq GroupIds, gs \in [DOMAIN gs -> Nat],
           NEW W, IsFiniteSet(W), NEW V \in SUBSET W
    PROVE  /\ Cardinality(V) \in Nat /\ Cardinality(VacantOf(gs, V)) \in Nat
           /\ Cardinality(W) \in Nat /\ Cardinality(VacantOf(gs, W)) \in Nat
           /\ Cardinality(V) + Cardinality(VacantOf(gs, V))
                <= Cardinality(W) + Cardinality(VacantOf(gs, W))
<1> DEFINE A == VacantOf(gs, V)
           B == VacantOf(gs, W)
<1>1. IsFiniteSet(A) /\ IsFiniteSet(B) /\ IsFiniteSet(V)
  BY VacantFinite, FS_Subset
<1>2. Cardinality(A \ B) <= Cardinality(W \ V)
  BY FreedSlots
<1> HIDE DEF A, B
<1>3. Cardinality(A \ B) = Cardinality(A) - Cardinality(A \cap B)
  BY <1>1, FS_Difference
<1>4. Cardinality(A \cap B) <= Cardinality(B)
  BY <1>1, FS_Intersection
<1>5. Cardinality(W \ V) = Cardinality(W) - Cardinality(V)
  <2>1. W \cap V = V
    OBVIOUS
  <2> QED BY <2>1, FS_Difference
<1>6. /\ Cardinality(A) \in Nat /\ Cardinality(B) \in Nat /\ Cardinality(A \cap B) \in Nat
      /\ Cardinality(V) \in Nat /\ Cardinality(W) \in Nat
  <2>1. IsFiniteSet(A \cap B)
    BY <1>1, FS_Intersection
  <2> QED BY <1>1, <2>1, FS_CardinalityType
<1>7. Cardinality(V) + Cardinality(A) <= Cardinality(W) + Cardinality(B)
  BY <1>2, <1>3, <1>4, <1>5, <1>6
<1> QED BY <1>6, <1>7 DEF A, B

(* A group that no request of W uses adds its size. *)
LEMMA GroupAdded ==
    ASSUME NEW gs, DOMAIN gs \subseteq GroupIds, gs \in [DOMAIN gs -> Nat],
           NEW g \in GroupIds \ DOMAIN gs, NEW count \in Nat, NEW W, IsFiniteSet(W)
    PROVE  Cardinality(VacantOf([i \in DOMAIN gs \cup {g} |-> IF i = g THEN count ELSE gs[i]], W))
             <= Cardinality(VacantOf(gs, W)) + count
<1> DEFINE hs == [i \in DOMAIN gs \cup {g} |-> IF i = g THEN count ELSE gs[i]]
           N == {g} \X (1..count)
           A == VacantOf(gs, W)
           C == VacantOf(hs, W)
<1>1. C \subseteq A \cup N
  <2> SUFFICES ASSUME NEW s \in C PROVE s \in A \cup N
    OBVIOUS
  <2>1. /\ s[1] \in DOMAIN hs /\ s[2] \in 1..RequestsPerPeriod /\ s = <<s[1], s[2]>>
        /\ s[1] \in GroupIds
        /\ s[2] <= SaturatingSub(hs[s[1]], Cardinality(UsedBy(W, s[1])))
    BY DEF VacantOf
  <2>2. CASE s[1] = g
    <3>1. hs[s[1]] = count
      BY <2>2
    <3>2. s[2] <= count
      <4> DEFINE k == Cardinality(UsedBy(W, s[1]))
      <4>1. s[2] <= SaturatingSub(count, k) /\ s[2] \in Nat /\ s[2] >= 1
        BY <2>1, <3>1, LimitAssumption
      <4>2. SaturatingSub(count, k) = IF count > k THEN count - k ELSE 0
        BY DEF SaturatingSub
      <4>3. k \in Nat
        <5>1. IsFiniteSet(UsedBy(W, s[1]))
          BY FS_Subset DEF UsedBy
        <5> QED BY <5>1, FS_CardinalityType
      <4> HIDE DEF k
      <4> QED BY <4>1, <4>2, <4>3
    <3> QED BY <2>1, <2>2, <3>2, LimitAssumption
  <2>3. CASE s[1] # g
    <3>1. s[1] \in DOMAIN gs /\ hs[s[1]] = gs[s[1]]
      BY <2>1, <2>3
    <3> QED BY <2>1, <3>1 DEF VacantOf
  <2> QED BY <2>2, <2>3
<1>2. IsFiniteSet(A)
  BY VacantFinite
<1>3. IsFiniteSet(N) /\ Cardinality(N) = count
  <2> DEFINE S == {g}
             T == 1..count
  <2>1. IsFiniteSet(S) /\ Cardinality(S) = 1
    BY FS_Singleton
  <2>2. IsFiniteSet(T) /\ Cardinality(T) = count
    BY FS_Interval
  <2>3. N = S \X T
    OBVIOUS
  <2> HIDE DEF S, T, N
  <2>4. IsFiniteSet(S \X T) /\ Cardinality(S \X T) = Cardinality(S) * Cardinality(T)
    BY <2>1, <2>2, FS_Product
  <2> QED BY <2>1, <2>2, <2>3, <2>4
<1> HIDE DEF A, C, N
<1>4. /\ IsFiniteSet(A \cup N)
      /\ Cardinality(A \cup N) = Cardinality(A) + Cardinality(N) - Cardinality(A \cap N)
  BY <1>2, <1>3, FS_Union
<1>5. IsFiniteSet(C) /\ Cardinality(C) <= Cardinality(A \cup N)
  BY <1>1, <1>4, FS_Subset
<1>6. /\ Cardinality(A) \in Nat /\ Cardinality(C) \in Nat /\ Cardinality(A \cup N) \in Nat
      /\ Cardinality(A \cap N) \in Nat
  <2>1. IsFiniteSet(A \cap N)
    BY <1>2, FS_Intersection
  <2> QED BY <1>2, <1>4, <1>5, <2>1, FS_CardinalityType
<1>7. Cardinality(C) <= Cardinality(A) + count
  BY <1>3, <1>4, <1>5, <1>6
<1> QED BY <1>7 DEF A, C, hs

(* What the code calls available is available to every set of requests that  *)
(* it counted.                                                               *)
LEMMA AvailableIsLeft ==
    ASSUME TypeOK, NEW P, IsFiniteSet(P), NEW V \in SUBSET P,
           NEW k \in Nat \ {0}, Available(P) >= k
    PROVE  /\ Cardinality(V) + Cardinality(VacantOf(groups, V)) + k <= RequestsPerPeriod
           /\ Cardinality(V) \in Nat /\ Cardinality(VacantOf(groups, V)) \in Nat
<1>1. DOMAIN groups \subseteq GroupIds /\ groups \in [DOMAIN groups -> Nat]
  BY DEF TypeOK
<1>2. /\ Cardinality(V) \in Nat /\ Cardinality(VacantOf(groups, V)) \in Nat
      /\ Cardinality(P) \in Nat /\ Cardinality(VacantOf(groups, P)) \in Nat
      /\ Cardinality(V) + Cardinality(VacantOf(groups, V))
           <= Cardinality(P) + Cardinality(VacantOf(groups, P))
  BY <1>1, SmallerWindow
<1>3. Available(P) = SaturatingSub(RequestsPerPeriod, Cardinality(P) + Cardinality(VacantOf(groups, P)))
  BY DEF Available, Vacant, VacantOf
<1> QED BY <1>2, <1>3, LimitAssumption DEF SaturatingSub

LEMMA EmptyWindow ==
    ASSUME NEW gs, gs \in [DOMAIN gs -> Nat]
    PROVE  VacantOf(gs, {}) = {s \in GroupIds \X (1..RequestsPerPeriod) :
                                 s[1] \in DOMAIN gs /\ s[2] <= gs[s[1]]}
<1>1. ASSUME NEW n \in Nat, NEW g PROVE SaturatingSub(n, Cardinality(UsedBy({}, g))) = n
  <2>1. UsedBy({}, g) = {}
    BY DEF UsedBy
  <2> QED BY <2>1, EmptyIsFinite DEF SaturatingSub
<1> QED BY <1>1 DEF VacantOf

-----------------------------------------------------------------------------
(* The groups *)

LEMMA PresentFinite ==
    ASSUME Inv, NEW t \in ReadTimes
    PROVE  LET c == GetNonDecreasingTime(t) IN IsFiniteSet(Present(NotOutdated(c), c))
<1> DEFINE c == GetNonDecreasingTime(t)
<1>1. IsFiniteSet(NotOutdated(c))
  BY NotOutdatedFacts DEF Inv
<1> QED BY <1>1, FS_Subset DEF Present

(* The two ways in which a step changes the groups. *)
GroupIsAdded(g, count, W) ==
    /\ groups' = [i \in DOMAIN groups \cup {g} |-> IF i = g THEN count ELSE groups[i]]
    /\ g \notin DOMAIN groups
    /\ Available(W) >= count

LEMMA GroupChange ==
    ASSUME Inv, [Next]_vars
    PROVE  \/ groups' = groups
           \/ \E t \in ReadTimes, g \in GroupIds, count \in GroupSizes :
                /\ TryReserveGroup(t, g, count)
                /\ GroupIsAdded(g, count, Present(NotOutdated(GetNonDecreasingTime(t)),
                                                  GetNonDecreasingTime(t)))
           \/ \E g \in GroupIds : RemoveGroup(g)
<1>1. ASSUME NEW t \in ReadTimes, NEW g \in GroupIds, NEW count \in GroupSizes,
             TryReserveGroup(t, g, count), groups' # groups
      PROVE  GroupIsAdded(g, count, Present(NotOutdated(GetNonDecreasingTime(t)),
                                            GetNonDecreasingTime(t)))
  <2> DEFINE a == Available(Present(NotOutdated(GetNonDecreasingTime(t)), GetNonDecreasingTime(t)))
  <2>1. /\ ~(a < count) /\ g \notin DOMAIN groups
        /\ groups' = [i \in DOMAIN groups \cup {g} |-> IF i = g THEN count ELSE groups[i]]
    BY <1>1 DEF TryReserveGroup, IsFresh
  <2>2. a \in Int /\ count \in Nat
    <3> DEFINE P == Present(NotOutdated(GetNonDecreasingTime(t)), GetNonDecreasingTime(t))
    <3>1. IsFiniteSet(P)
      BY PresentFinite
    <3>2. IsFiniteSet(Vacant(P))
      BY VacantFinite DEF Vacant, VacantOf
    <3>3. Cardinality(P) \in Nat /\ Cardinality(Vacant(P)) \in Nat
      BY <3>1, <3>2, FS_CardinalityType
    <3> HIDE DEF P
    <3>4. Available(P) \in Int
      BY <3>3, LimitAssumption DEF Available, SaturatingSub
    <3> QED BY <3>4, GroupAssumption DEF P
  <2> HIDE DEF a
  <2>3. a >= count
    BY <2>1, <2>2
  <2> QED BY <2>1, <2>3 DEF a, GroupIsAdded
<1>2. CASE \E t \in ReadTimes, g \in GroupIds \cup {None} : TryReserveInstant(t, g)
  BY <1>2 DEF TryReserveInstant, TryReserveRequestInstant, TryReserveGroupInstant
<1>3. CASE \E t \in ReadTimes : ReserveWhenAvailable(t)
  BY <1>3 DEF ReserveWhenAvailable
<1>4. CASE \E r \in waiting : RequestStarts(r) \/ RequestIsCancelled(r)
  BY <1>4 DEF RequestStarts, RequestIsCancelled
<1>5. CASE Tick \/ UNCHANGED vars
  BY <1>5 DEF Tick, vars
<1> QED BY <1>1, <1>2, <1>3, <1>4, <1>5 DEF Next

LEMMA GroupsFitStep == Inv /\ GroupsFit /\ [Next]_vars => GroupsFit'
<1> SUFFICES ASSUME Inv, GroupsFit, [Next]_vars PROVE GroupsFit'
  OBVIOUS
<1>0. DOMAIN groups \subseteq GroupIds /\ groups \in [DOMAIN groups -> Nat] /\ TypeOK
  BY DEF Inv, TypeOK
<1>1. CASE groups' = groups
  BY <1>1 DEF GroupsFit
<1>2. ASSUME NEW t \in ReadTimes, NEW g \in GroupIds, NEW count \in GroupSizes,
             GroupIsAdded(g, count, Present(NotOutdated(GetNonDecreasingTime(t)),
                                            GetNonDecreasingTime(t)))
      PROVE  GroupsFit'
  <2> DEFINE P == Present(NotOutdated(GetNonDecreasingTime(t)), GetNonDecreasingTime(t))
             hs == [i \in DOMAIN groups \cup {g} |-> IF i = g THEN count ELSE groups[i]]
  <2>1. count \in Nat \ {0} /\ Available(P) >= count /\ IsFiniteSet(P) /\ {} \in SUBSET P
    BY <1>2, GroupAssumption, PresentFinite DEF GroupIsAdded
  <2>2. /\ groups' = hs /\ g \in GroupIds \ DOMAIN groups /\ hs \in [DOMAIN hs -> Nat]
    BY <1>0, <1>2, <2>1 DEF GroupIsAdded
  <2> HIDE DEF P
  <2>3. /\ Cardinality({}) + Cardinality(VacantOf(groups, {})) + count <= RequestsPerPeriod
        /\ Cardinality({}) = 0 /\ Cardinality(VacantOf(groups, {})) \in Nat
    BY <1>0, <2>1, AvailableIsLeft, EmptyIsFinite
  <2>4. Cardinality(VacantOf(hs, {})) <= Cardinality(VacantOf(groups, {})) + count
    BY <1>0, <2>1, <2>2, GroupAdded, EmptyIsFinite
  <2>5. Cardinality(VacantOf(hs, {})) \in Nat
    BY VacantFinite, FS_CardinalityType
  <2> HIDE DEF hs
  <2>6. Cardinality(VacantOf(hs, {})) <= RequestsPerPeriod
    BY <2>1, <2>3, <2>4, <2>5, LimitAssumption
  <2> QED BY <2>2, <2>6, EmptyWindow DEF GroupsFit
<1>3. ASSUME NEW g \in GroupIds, RemoveGroup(g) PROVE GroupsFit'
  <2> DEFINE S == {s \in GroupIds \X (1..RequestsPerPeriod) :
                     s[1] \in DOMAIN groups /\ s[2] <= groups[s[1]]}
             T == {s \in GroupIds \X (1..RequestsPerPeriod) :
                     s[1] \in DOMAIN groups' /\ s[2] <= groups'[s[1]]}
  <2>1. groups' = [i \in DOMAIN groups \ {g} |-> groups[i]]
    BY <1>3 DEF RemoveGroup
  <2>2. T \subseteq S
    BY <2>1
  <2>3. IsFiniteSet(S)
    BY <1>0, VacantFinite, EmptyWindow
  <2>4. Cardinality(S) <= RequestsPerPeriod
    BY DEF GroupsFit
  <2> HIDE DEF S, T
  <2>5. /\ Cardinality(T) <= Cardinality(S)
        /\ Cardinality(T) \in Nat /\ Cardinality(S) \in Nat
    BY <2>2, <2>3, FS_Subset, FS_CardinalityType
  <2>6. Cardinality(T) <= RequestsPerPeriod
    BY <2>4, <2>5, LimitAssumption
  <2> QED BY <2>6 DEF T, GroupsFit
<1> QED BY <1>1, <1>2, <1>3, GroupChange

(* However the calls come, the groups that exist together never set aside    *)
(* more than requests_per_period: a group is made only of what neither the   *)
(* other groups nor the requests of the period need.                         *)
THEOREM GroupsFitHolds == Spec => []GroupsFit
<1>1. Init => GroupsFit
  <2> SUFFICES ASSUME Init PROVE GroupsFit
    OBVIOUS
  <2>1. {s \in GroupIds \X (1..RequestsPerPeriod) :
           s[1] \in DOMAIN groups /\ s[2] <= groups[s[1]]} = {}
    BY DEF Init
  <2> QED BY <2>1, EmptyIsFinite, LimitAssumption DEF GroupsFit
<1> QED BY <1>1, GroupsFitStep, InvAlways, PTL DEF Spec

-----------------------------------------------------------------------------
(* The requests granted at once, while the calls come in the order of their   *)
(* times.  The requests in the last period and what the groups still have    *)
(* set aside fit the limit together.  I are the requests, gs the groups and  *)
(* c the time of the latest call.                                            *)

Fits(I, gs, c) ==
    /\ \A r \in I : r.start <= c
    /\ \A g \in DOMAIN gs : gs[g] <= RequestsPerPeriod
    /\ Cardinality(Within(I, Period, c)) + Cardinality(VacantOf(gs, Within(I, Period, c)))
         <= RequestsPerPeriod
    /\ \A r \in I : Cardinality(Within(I, Period, r.start)) <= RequestsPerPeriod

InstantInv == inOrder => Fits(Granted("instant"), groups, latest)

LEMMA WindowFacts ==
    ASSUME NEW I, IsFiniteSet(I), NEW gs, NEW c
    PROVE  LET W == Within(I, Period, c) IN
           /\ W \subseteq I /\ IsFiniteSet(W) /\ Cardinality(W) \in Nat
           /\ Cardinality(VacantOf(gs, W)) \in Nat
<1> DEFINE W == Within(I, Period, c)
<1>1. W \subseteq I
  BY DEF Within
<1>2. IsFiniteSet(W)
  BY <1>1, FS_Subset
<1> QED BY <1>1, <1>2, VacantFinite, FS_CardinalityType

(* A period that ends later has fewer requests. *)
LEMMA FitsLater ==
    ASSUME NEW I, I \subseteq Request, IsFiniteSet(I), NEW J \in SUBSET I,
           NEW gs, DOMAIN gs \subseteq GroupIds, gs \in [DOMAIN gs -> Nat],
           NEW c \in Nat, NEW d \in Nat, c <= d, Fits(I, gs, c)
    PROVE  Fits(J, gs, d)
<1> DEFINE W == Within(I, Period, c)
           V == Within(J, Period, d)
<1>1. \A r \in I : r.start \in Nat /\ r.start <= c
  BY DEF Request, Fits
<1>2. V \subseteq W
  BY <1>1, TimeAssumption DEF Within
<1>3. IsFiniteSet(W) /\ Cardinality(W) + Cardinality(VacantOf(gs, W)) <= RequestsPerPeriod
  BY WindowFacts DEF Fits
<1>4. Cardinality(V) + Cardinality(VacantOf(gs, V)) <= RequestsPerPeriod
  <2> HIDE DEF V, W
  <2>1. /\ Cardinality(V) \in Nat /\ Cardinality(VacantOf(gs, V)) \in Nat
        /\ Cardinality(W) \in Nat /\ Cardinality(VacantOf(gs, W)) \in Nat
        /\ Cardinality(V) + Cardinality(VacantOf(gs, V))
             <= Cardinality(W) + Cardinality(VacantOf(gs, W))
    BY <1>2, <1>3, SmallerWindow
  <2> QED BY <1>3, <2>1, LimitAssumption
<1>5. ASSUME NEW q \in J
      PROVE  Cardinality(Within(J, Period, q.start)) <= RequestsPerPeriod
  <2> DEFINE A == Within(I, Period, q.start)
             B == Within(J, Period, q.start)
  <2>1. IsFiniteSet(A) /\ B \subseteq A
    BY FS_Subset DEF Within
  <2>2. Cardinality(A) <= RequestsPerPeriod
    BY DEF Fits
  <2> HIDE DEF A, B
  <2>3. Cardinality(B) <= Cardinality(A) /\ Cardinality(A) \in Nat /\ Cardinality(B) \in Nat
    BY <2>1, FS_Subset, FS_CardinalityType
  <2>4. Cardinality(B) <= RequestsPerPeriod
    BY <2>2, <2>3, LimitAssumption
  <2> QED BY <2>4 DEF B
<1>6. \A r \in J : r.start <= d
  BY <1>1
<1>7. \A g \in DOMAIN gs : gs[g] <= RequestsPerPeriod
  BY DEF Fits
<1> QED BY <1>4, <1>5, <1>6, <1>7 DEF Fits

(* A request at the end of the period, for which there is room. *)
LEMMA FitsAdded ==
    ASSUME NEW I, I \subseteq Request, IsFiniteSet(I), NEW gs, NEW c \in Nat, Fits(I, gs, c),
           NEW r \in Request, r.start = c,
           Cardinality(Within(I, Period, c)) + 1
             + Cardinality(VacantOf(gs, Within(I, Period, c) \cup {r})) <= RequestsPerPeriod
    PROVE  Fits(I \cup {r}, gs, c)
<1> DEFINE W == Within(I, Period, c)
           V == W \cup {r}
<1>1. Within(I \cup {r}, Period, c) = V
  BY TimeAssumption DEF Within
<1>2. Cardinality(V) \in Nat /\ Cardinality(V) + Cardinality(VacantOf(gs, V)) <= RequestsPerPeriod
      /\ Cardinality(VacantOf(gs, V)) \in Nat
  <2>1. IsFiniteSet(W) /\ Cardinality(W) \in Nat
    BY WindowFacts
  <2>2. Cardinality(W) + 1 + Cardinality(VacantOf(gs, V)) <= RequestsPerPeriod
    OBVIOUS
  <2> HIDE DEF W
  <2>3. IsFiniteSet(V) /\ Cardinality(V) = IF r \in W THEN Cardinality(W) ELSE Cardinality(W) + 1
    BY <2>1, FS_AddElement
  <2>4. Cardinality(VacantOf(gs, V)) \in Nat /\ Cardinality(V) \in Nat
    BY <2>3, VacantFinite, FS_CardinalityType
  <2> HIDE DEF V
  <2> QED BY <2>1, <2>2, <2>3, <2>4, LimitAssumption
<1>3. ASSUME NEW q \in I \cup {r}
      PROVE  Cardinality(Within(I \cup {r}, Period, q.start)) <= RequestsPerPeriod
  <2>1. q.start \in Nat /\ q.start <= c
    BY DEF Fits, Request
  <2>2. CASE q.start = c
    <3>1. Cardinality(V) <= RequestsPerPeriod
      <4> HIDE DEF V
      <4> QED BY <1>2, LimitAssumption
    <3> QED BY <1>1, <2>2, <3>1
  <2>3. CASE q.start # c
    <3>1. Within(I \cup {r}, Period, q.start) = Within(I, Period, q.start) /\ q \in I
      BY <2>1, <2>3 DEF Within
    <3> QED BY <3>1 DEF Fits
  <2> QED BY <2>2, <2>3
<1>4. \A q \in I \cup {r} : q.start <= c
  BY DEF Fits
<1>5. \A g \in DOMAIN gs : gs[g] <= RequestsPerPeriod
  BY DEF Fits
<1> HIDE DEF V
<1> QED BY <1>1, <1>2, <1>3, <1>4, <1>5 DEF Fits

LEMMA InstantFacts ==
    ASSUME Inv
    PROVE  /\ Granted("instant") \subseteq Request /\ IsFiniteSet(Granted("instant"))
           /\ DOMAIN groups \subseteq GroupIds /\ groups \in [DOMAIN groups -> Nat]
           /\ TypeOK /\ now \in Nat /\ latest \in Nat /\ inOrder \in BOOLEAN
BY FS_Subset DEF Inv, TypeOK, Granted

(* A call in order finds the requests and the groups as they fit at its time,  *)
(* and it counts every instant request of the period before it.               *)
LEMMA InstantCounted ==
    ASSUME Inv, InstantInv, NEW t \in ReadTimes, HasTime(GetNonDecreasingTime(t)), inOrder'
    PROVE  LET c == GetNonDecreasingTime(t)
               I == Granted("instant")
               P == Present(NotOutdated(c), c)
           IN  /\ c \in Nat /\ latest' = c /\ Fits(I, groups, c)
               /\ Within(I, Period, c) \subseteq P /\ IsFiniteSet(P)
<1> DEFINE c == GetNonDecreasingTime(t)
           I == Granted("instant")
<1>1. c \in Nat /\ latest \in Nat /\ latest <= c /\ latest' = c /\ inOrder
  BY TimeFacts, LatestFacts DEF Inv
<1>2. Fits(I, groups, latest)
  BY <1>1 DEF InstantInv
<1>3. Fits(I, groups, c)
  <2> HIDE DEF c, I
  <2>1. I \subseteq Request /\ IsFiniteSet(I) /\ I \in SUBSET I
    BY InstantFacts DEF I
  <2> QED BY <1>1, <1>2, <2>1, InstantFacts, FitsLater
<1>4. \A r \in granted : r \in NotOutdated(c) \/ r.start < Later(latest, c) - Period
  BY NotOutdatedFacts DEF Inv
<1>5. Later(latest, c) = c
  <2> HIDE DEF c
  <2> QED BY <1>1 DEF Later
<1>6. \A r \in granted : r.start \in Nat
  BY DEF Inv, TypeOK, Request
<1>7. Within(I, Period, c) \subseteq Present(NotOutdated(c), c)
  <2> HIDE DEF c
  <2> QED BY <1>1, <1>4, <1>5, <1>6, TimeAssumption DEF Within, Granted, Present
<1> QED BY <1>1, <1>3, <1>7, PresentFinite

(* A step that grants no request at once and changes no group. *)
LEMMA InstantKept ==
    ASSUME Inv, InstantInv, Granted("instant")' \subseteq Granted("instant"), groups' = groups,
           latest' \in Nat, latest <= latest', inOrder' => inOrder
    PROVE  InstantInv'
<1> SUFFICES ASSUME inOrder' PROVE Fits(Granted("instant")', groups', latest')
  BY DEF InstantInv, Fits, VacantOf, Within
<1>1. Fits(Granted("instant"), groups, latest)
  BY DEF InstantInv
<1>2. Granted("instant")' \in SUBSET Granted("instant")
  OBVIOUS
<1> QED BY <1>1, <1>2, InstantFacts, FitsLater

(* A request takes no slot that was not vacant, and one of its own group     *)
(* takes one if there is one.                                                *)
LEMMA SlotTaken ==
    ASSUME NEW gs, DOMAIN gs \subseteq GroupIds, gs \in [DOMAIN gs -> Nat],
           \A g \in DOMAIN gs : gs[g] <= RequestsPerPeriod,
           NEW W, IsFiniteSet(W), NEW r, r \notin W
    PROVE  /\ Cardinality(VacantOf(gs, W \cup {r})) <= Cardinality(VacantOf(gs, W))
           /\ \A g \in DOMAIN gs :
                r.group = g /\ SaturatingSub(gs[g], Cardinality(UsedBy(W, g))) # 0
                => Cardinality(VacantOf(gs, W \cup {r})) + 1 <= Cardinality(VacantOf(gs, W))
<1> DEFINE V == W \cup {r}
           A == VacantOf(gs, W)
           B == VacantOf(gs, V)
           w(g) == Cardinality(UsedBy(W, g))
           v(g) == Cardinality(UsedBy(V, g))
<1>1. ASSUME NEW g
      PROVE  w(g) \in Nat /\ v(g) = IF r.group = g THEN w(g) + 1 ELSE w(g)
  <2>1. IsFiniteSet(UsedBy(W, g)) /\ r \notin UsedBy(W, g)
    BY FS_Subset DEF UsedBy
  <2>2. UsedBy(V, g) = IF r.group = g THEN UsedBy(W, g) \cup {r} ELSE UsedBy(W, g)
    BY DEF UsedBy
  <2>3. w(g) \in Nat /\ Cardinality(UsedBy(W, g) \cup {r}) = w(g) + 1
    BY <2>1, FS_AddElement, FS_CardinalityType
  <2>4. CASE r.group = g
    BY <2>2, <2>3, <2>4
  <2>5. CASE r.group # g
    BY <2>2, <2>3, <2>5
  <2> QED BY <2>4, <2>5
<1>2. B \subseteq A
  <2> SUFFICES ASSUME NEW s \in B PROVE s \in A
    OBVIOUS
  <2>1. /\ s \in GroupIds \X (1..RequestsPerPeriod) /\ s[1] \in DOMAIN gs
        /\ s[2] \in Nat /\ s[2] <= SaturatingSub(gs[s[1]], v(s[1])) /\ gs[s[1]] \in Nat
    BY LimitAssumption DEF VacantOf
  <2>2. w(s[1]) \in Nat /\ (v(s[1]) = w(s[1]) \/ v(s[1]) = w(s[1]) + 1)
    BY <1>1
  <2>3. s[2] <= SaturatingSub(gs[s[1]], w(s[1]))
    <3> HIDE DEF v, w
    <3> QED BY <2>1, <2>2 DEF SaturatingSub
  <2> QED BY <2>1, <2>3 DEF VacantOf
<1>3. IsFiniteSet(A)
  BY VacantFinite
<1>4. ASSUME NEW g \in DOMAIN gs, r.group = g, SaturatingSub(gs[g], w(g)) # 0
      PROVE  Cardinality(B) + 1 <= Cardinality(A)
  <2> DEFINE k == SaturatingSub(gs[g], w(g))
             s == <<g, k>>
  <2>1. w(g) \in Nat /\ v(g) = w(g) + 1 /\ gs[g] \in Nat /\ gs[g] <= RequestsPerPeriod
    BY <1>1, <1>4
  <2>2. /\ k \in 1..RequestsPerPeriod
        /\ ~(k <= SaturatingSub(gs[g], v(g)))
    <3> HIDE DEF v, w
    <3> QED BY <1>4, <2>1, LimitAssumption DEF SaturatingSub
  <2>3. s \in A /\ s \notin B
    <3>1. k <= k
      BY <2>2, LimitAssumption
    <3> QED BY <2>2, <3>1 DEF VacantOf
  <2> HIDE DEF A, B, s, k
  <2>4. B \subseteq A \ {s}
    BY <1>2, <2>3
  <2>5. IsFiniteSet(A \ {s}) /\ Cardinality(A \ {s}) = Cardinality(A) - 1
    BY <1>3, <2>3, FS_RemoveElement
  <2>6. Cardinality(B) <= Cardinality(A \ {s}) /\ IsFiniteSet(B)
    BY <2>4, <2>5, FS_Subset
  <2>7. Cardinality(A) \in Nat /\ Cardinality(B) \in Nat
    BY <1>3, <2>6, FS_CardinalityType
  <2> QED BY <2>5, <2>6, <2>7
<1>5. Cardinality(B) <= Cardinality(A)
  BY <1>2, <1>3, FS_Subset
<1> QED BY <1>4, <1>5

(* A request is granted at once: something is available, or its group has    *)
(* something to spare.                                                       *)
LEMMA InstantGranted ==
    ASSUME Inv, InstantInv, NEW t \in ReadTimes, HasTime(GetNonDecreasingTime(t)), inOrder',
           NEW h \in GroupIds \cup {None}, NEW c, c = GetNonDecreasingTime(t),
           NEW P, P = Present(NotOutdated(c), c),
           AddRequest(NotOutdated(c), NewRequest(c, h, "instant")), groups' = groups,
           Available(P) # 0 \/ (h \in DOMAIN groups /\ SpareInGroup(P, h) # 0)
    PROVE  Fits(Granted("instant")', groups', latest')
<1> DEFINE I == Granted("instant")
           W == Within(I, Period, c)
           r == NewRequest(c, h, "instant")
<1>1. /\ c \in Nat /\ latest' = c /\ Fits(I, groups, c) /\ W \subseteq P /\ IsFiniteSet(P)
  BY InstantCounted
<1>2. /\ I \subseteq Request /\ IsFiniteSet(I) /\ TypeOK
      /\ DOMAIN groups \subseteq GroupIds /\ groups \in [DOMAIN groups -> Nat]
  BY InstantFacts
<1>3. /\ r \in Request /\ r.kind = "instant" /\ r.start = c /\ r.group = h /\ r.n = issued + 1
  BY <1>1 DEF NewRequest, Request, Inv, TypeOK
<1>4. r \notin granted
  <2>1. issued \in Nat
    BY DEF Inv, TypeOK
  <2>2. ~(issued + 1 <= issued)
    BY <2>1
  <2> QED BY <1>3, <2>2 DEF Inv, Numbered
<1>5. Granted("instant")' = I \cup {r}
  <2>1. granted' = granted \cup {r}
    BY DEF AddRequest
  <2> HIDE DEF r
  <2> QED BY <1>3, <2>1 DEF Granted
<1>6. /\ IsFiniteSet(W) /\ Cardinality(W) \in Nat /\ Cardinality(VacantOf(groups, W)) \in Nat
      /\ r \notin W /\ \A i \in DOMAIN groups : groups[i] <= RequestsPerPeriod
      /\ Cardinality(W) + Cardinality(VacantOf(groups, W)) <= RequestsPerPeriod
  <2>1. r \notin W
    <3> HIDE DEF r
    <3> QED BY <1>4 DEF Within, Granted
  <2> HIDE DEF r
  <2> QED BY <1>1, <1>2, <2>1, WindowFacts DEF Fits
<1> HIDE DEF I, W, r
<1>7. Cardinality(VacantOf(groups, W \cup {r})) \in Nat
  BY VacantFinite, FS_CardinalityType
<1>8. /\ Cardinality(VacantOf(groups, W \cup {r})) <= Cardinality(VacantOf(groups, W))
      /\ \A i \in DOMAIN groups :
           r.group = i /\ SaturatingSub(groups[i], Cardinality(UsedBy(W, i))) # 0
           => Cardinality(VacantOf(groups, W \cup {r})) + 1 <= Cardinality(VacantOf(groups, W))
  BY <1>2, <1>6, SlotTaken
<1>9. Cardinality(W) + 1 + Cardinality(VacantOf(groups, W \cup {r})) <= RequestsPerPeriod
  <2>1. CASE Available(P) # 0
    <3>1. Available(P) >= 1
      <4>1. Cardinality(P) \in Nat /\ Cardinality(VacantOf(groups, P)) \in Nat
        BY <1>1, VacantFinite, FS_CardinalityType
      <4>2. Available(P) =
              SaturatingSub(RequestsPerPeriod, Cardinality(P) + Cardinality(VacantOf(groups, P)))
        BY DEF Available, Vacant, VacantOf
      <4> QED BY <2>1, <4>1, <4>2, LimitAssumption DEF SaturatingSub
    <3>2. Cardinality(W) + Cardinality(VacantOf(groups, W)) + 1 <= RequestsPerPeriod
      BY <1>1, <1>2, <3>1, AvailableIsLeft
    <3> QED BY <1>6, <1>7, <1>8, <3>2, LimitAssumption
  <2>2. CASE h \in DOMAIN groups /\ SpareInGroup(P, h) # 0
    <3>1. UsedBy(W, h) \subseteq UsedBy(P, h) /\ IsFiniteSet(UsedBy(P, h))
      BY <1>1, FS_Subset DEF UsedBy
    <3>2. /\ Cardinality(UsedBy(W, h)) <= Cardinality(UsedBy(P, h))
          /\ Cardinality(UsedBy(W, h)) \in Nat /\ Cardinality(UsedBy(P, h)) \in Nat
      BY <3>1, FS_Subset, FS_CardinalityType
    <3>3. SaturatingSub(groups[h], Cardinality(UsedBy(W, h))) # 0
      <4>1. groups[h] \in Nat
        BY <1>2, <2>2
      <4> QED BY <2>2, <3>2, <4>1 DEF SpareInGroup, SaturatingSub
    <3>4. Cardinality(VacantOf(groups, W \cup {r})) + 1 <= Cardinality(VacantOf(groups, W))
      BY <1>3, <1>8, <2>2, <3>3
    <3> QED BY <1>6, <1>7, <3>4, LimitAssumption
  <2> QED BY <2>1, <2>2
<1>10. Fits(I \cup {r}, groups, c)
  BY <1>1, <1>2, <1>3, <1>9, FitsAdded DEF W
<1> QED BY <1>1, <1>5, <1>10

LEMMA InstantGrantStep ==
    ASSUME Inv, InstantInv, NEW t \in ReadTimes, NEW g \in GroupIds \cup {None},
           TryReserveInstant(t, g)
    PROVE  InstantInv'
<1> DEFINE c == GetNonDecreasingTime(t)
           P == Present(NotOutdated(c), c)
<1>1. HasTime(c) /\ groups' = groups
  BY DEF TryReserveInstant, TryReserveRequestInstant, TryReserveGroupInstant
<1>2. latest' \in Nat /\ latest <= latest' /\ (inOrder' => inOrder)
  BY <1>1, LatestFacts DEF Inv, TypeOK
<1>3. CASE granted' = granted
  <2>1. Granted("instant")' \subseteq Granted("instant")
    BY <1>3 DEF Granted
  <2> QED BY <1>1, <1>2, <2>1, InstantKept
<1>4. ASSUME NEW h \in GroupIds \cup {None}, AddRequest(NotOutdated(c), NewRequest(c, h, "instant")),
             Available(P) # 0 \/ (h \in DOMAIN groups /\ SpareInGroup(P, h) # 0)
      PROVE  InstantInv'
  <2> SUFFICES ASSUME inOrder' PROVE Fits(Granted("instant")', groups', latest')
    BY DEF InstantInv, Fits, VacantOf, Within
  <2> QED BY <1>1, <1>4, InstantGranted
<1>5. CASE TryReserveRequestInstant(t)
  <2>1. \/ granted' = granted
        \/ Available(P) # 0 /\ AddRequest(NotOutdated(c), NewRequest(c, None, "instant"))
    BY <1>5 DEF TryReserveRequestInstant
  <2> HIDE DEF P, c
  <2> QED BY <1>3, <1>4, <2>1
<1>6. CASE TryReserveGroupInstant(t, g)
  <2>1. \/ granted' = granted
        \/ /\ Available(P) + SpareInGroup(P, g) # 0
           /\ AddRequest(NotOutdated(c), NewRequest(c, g, "instant"))
           /\ g \in DOMAIN groups
    BY <1>6 DEF TryReserveGroupInstant
  <2>2. Available(P) = 0 /\ SpareInGroup(P, g) = 0 => Available(P) + SpareInGroup(P, g) = 0
    OBVIOUS
  <2> HIDE DEF P, c
  <2> QED BY <1>3, <1>4, <2>1, <2>2
<1> QED BY <1>5, <1>6 DEF TryReserveInstant

(* A group is made of what is available. *)
LEMMA InstantGroupStep ==
    ASSUME Inv, InstantInv, NEW t \in ReadTimes, NEW g \in GroupIds, NEW count \in GroupSizes,
           TryReserveGroup(t, g, count)
    PROVE  InstantInv'
<1> DEFINE c == GetNonDecreasingTime(t)
           I == Granted("instant")
           P == Present(NotOutdated(c), c)
           W == Within(I, Period, c)
           hs == [i \in DOMAIN groups \cup {g} |-> IF i = g THEN count ELSE groups[i]]
<1>1. HasTime(c) /\ granted' = granted
  BY DEF TryReserveGroup
<1>2. latest' \in Nat /\ latest <= latest' /\ (inOrder' => inOrder)
  BY <1>1, LatestFacts DEF Inv, TypeOK
<1>3. Granted("instant")' = I
  BY <1>1 DEF Granted
<1>4. CASE groups' = groups
  BY <1>2, <1>3, <1>4, InstantKept
<1>5. CASE groups' # groups
  <2> SUFFICES ASSUME inOrder' PROVE Fits(Granted("instant")', groups', latest')
    BY DEF InstantInv, Fits, VacantOf, Within
  <2>1. c \in Nat /\ latest' = c /\ Fits(I, groups, c) /\ W \in SUBSET P /\ IsFiniteSet(P)
    BY <1>1, InstantCounted
  <2>2. /\ I \subseteq Request /\ IsFiniteSet(I) /\ TypeOK
        /\ DOMAIN groups \subseteq GroupIds /\ groups \in [DOMAIN groups -> Nat]
    BY InstantFacts
  <2>3. ~(Available(P) < count) /\ groups' = hs /\ g \in GroupIds \ DOMAIN groups
    BY <1>5 DEF TryReserveGroup, IsFresh
  <2>4. count \in Nat \ {0}
    BY GroupAssumption
  <2>5. IsFiniteSet(W) /\ Cardinality(W) \in Nat /\ Cardinality(VacantOf(groups, W)) \in Nat
    BY <2>2, WindowFacts
  <2> HIDE DEF c, I, P, W
  <2>6. Available(P) >= count
    <3>1. Cardinality(P) \in Nat /\ Cardinality(VacantOf(groups, P)) \in Nat
      BY <2>1, VacantFinite, FS_CardinalityType
    <3>2. Available(P) =
            SaturatingSub(RequestsPerPeriod, Cardinality(P) + Cardinality(VacantOf(groups, P)))
      BY DEF Available, Vacant, VacantOf
    <3> QED BY <2>3, <2>4, <3>1, <3>2, LimitAssumption DEF SaturatingSub
  <2>7. Cardinality(W) + Cardinality(VacantOf(groups, W)) + count <= RequestsPerPeriod
    BY <2>1, <2>2, <2>4, <2>6, AvailableIsLeft
  <2>8. Cardinality(VacantOf(hs, W)) <= Cardinality(VacantOf(groups, W)) + count
    BY <2>2, <2>3, <2>4, <2>5, GroupAdded
  <2>9. Cardinality(VacantOf(hs, W)) \in Nat
    BY VacantFinite, FS_CardinalityType
  <2>10. \A i \in DOMAIN hs : hs[i] <= RequestsPerPeriod
    <3>1. count <= RequestsPerPeriod
      BY <2>4, <2>5, <2>7, LimitAssumption
    <3> QED BY <2>1, <3>1 DEF Fits
  <2> HIDE DEF hs
  <2>11. Cardinality(W) + Cardinality(VacantOf(hs, W)) <= RequestsPerPeriod
    BY <2>4, <2>5, <2>7, <2>8, <2>9, LimitAssumption
  <2>12. Fits(I, hs, c)
    BY <2>1, <2>10, <2>11 DEF Fits, W
  <2> QED BY <1>3, <2>1, <2>3, <2>12 DEF I
<1> QED BY <1>4, <1>5

LEMMA InstantRemoveStep ==
    ASSUME Inv, InstantInv, NEW g \in GroupIds, RemoveGroup(g)
    PROVE  InstantInv'
<1> DEFINE I == Granted("instant")
           W == Within(I, Period, latest)
           A == VacantOf(groups, W)
           B == VacantOf(groups', W)
<1>1. /\ groups' = [i \in DOMAIN groups \ {g} |-> groups[i]] /\ granted' = granted
      /\ latest' = latest /\ inOrder' = inOrder
  BY DEF RemoveGroup
<1> SUFFICES ASSUME inOrder PROVE Fits(Granted("instant")', groups', latest')
  BY <1>1 DEF InstantInv, Fits, VacantOf, Within
<1>2. Fits(I, groups, latest)
  BY DEF InstantInv
<1>3. B \subseteq A
  BY <1>1 DEF VacantOf
<1>4. /\ Cardinality(W) \in Nat /\ IsFiniteSet(A)
      /\ Cardinality(W) + Cardinality(A) <= RequestsPerPeriod
  BY <1>2, InstantFacts, WindowFacts, VacantFinite DEF Fits
<1> HIDE DEF A, B
<1>5. Cardinality(B) <= Cardinality(A) /\ Cardinality(A) \in Nat /\ Cardinality(B) \in Nat
  BY <1>3, <1>4, FS_Subset, FS_CardinalityType
<1>6. Cardinality(W) + Cardinality(B) <= RequestsPerPeriod
  BY <1>4, <1>5, LimitAssumption
<1>7. \A i \in DOMAIN groups' : groups'[i] <= RequestsPerPeriod
  BY <1>1, <1>2 DEF Fits
<1>8. Fits(I, groups', latest)
  BY <1>2, <1>6, <1>7 DEF Fits, B
<1>9. Granted("instant")' = I
  BY <1>1 DEF Granted
<1> QED BY <1>1, <1>8, <1>9

LEMMA InstantStep == Inv /\ InstantInv /\ [Next]_vars => InstantInv'
<1> SUFFICES ASSUME Inv, InstantInv, [Next]_vars PROVE InstantInv'
  OBVIOUS
<1>1. CASE \E t \in ReadTimes, g \in GroupIds \cup {None} : TryReserveInstant(t, g)
  BY <1>1, InstantGrantStep
<1>2. ASSUME NEW t \in ReadTimes, ReserveWhenAvailable(t) PROVE InstantInv'
  <2>1. groups' = groups /\ HasTime(GetNonDecreasingTime(t))
    BY <1>2 DEF ReserveWhenAvailable
  <2>2. \E r : r.kind = "scheduled" /\ granted' = granted \cup {r}
    BY <1>2 DEF ReserveWhenAvailable, AddRequest, NewRequest
  <2>3. Granted("instant")' \subseteq Granted("instant")
    BY <2>2 DEF Granted
  <2>4. latest' \in Nat /\ latest <= latest' /\ (inOrder' => inOrder)
    BY <2>1, LatestFacts DEF Inv, TypeOK
  <2> QED BY <2>1, <2>3, <2>4, InstantKept
<1>3. CASE \/ \E r \in waiting : RequestStarts(r) \/ RequestIsCancelled(r)
           \/ Tick \/ UNCHANGED vars
  <2>1. groups' = groups /\ latest' = latest /\ inOrder' = inOrder /\ granted' \subseteq granted
    BY <1>3 DEF RequestStarts, RequestIsCancelled, Tick, vars
  <2>2. Granted("instant")' \subseteq Granted("instant")
    BY <2>1 DEF Granted
  <2>3. latest' \in Nat /\ latest <= latest'
    BY <2>1, InstantFacts
  <2> QED BY <2>1, <2>2, <2>3, InstantKept
<1>4. CASE \E g \in GroupIds : RemoveGroup(g)
  BY <1>4, InstantRemoveStep
<1>5. CASE \E t \in ReadTimes, g \in GroupIds, count \in GroupSizes : TryReserveGroup(t, g, count)
  BY <1>5, InstantGroupStep
<1> QED BY <1>1, <1>2, <1>3, <1>4, <1>5 DEF Next

(* As long as get_non_decreasing_time() keeps the calls in order, the        *)
(* requests granted at once keep the limit on requests per period, for every *)
(* limit, period and set of groups, however late the calls get the lock: a   *)
(* group spends what it set aside and no more, also when its requests leave  *)
(* the period and it spends again.                                           *)
THEOREM InstantLimitHolds == Spec => []InstantLimit
<1>1. Init => InstantInv
  <2> SUFFICES ASSUME Init PROVE Fits(Granted("instant"), groups, latest)
    BY DEF InstantInv
  <2> DEFINE W == Within(Granted("instant"), Period, latest)
  <2>1. Granted("instant") = {} /\ W = {} /\ DOMAIN groups = {}
    BY DEF Init, Granted, Within
  <2>2. VacantOf(groups, W) = {}
    BY <2>1 DEF VacantOf
  <2>3. Cardinality(W) = 0 /\ Cardinality(VacantOf(groups, W)) = 0
    BY <2>1, <2>2, EmptyIsFinite
  <2>4. Cardinality(W) + Cardinality(VacantOf(groups, W)) <= RequestsPerPeriod
    BY <2>3, LimitAssumption
  <2> QED BY <2>1, <2>4 DEF Fits
<1>2. Inv /\ InstantInv /\ [Next]_vars => InstantInv'
  BY InstantStep
<1>3. InstantInv => InstantLimit
  BY DEF InstantInv, Fits, InstantLimit
<1> QED BY <1>1, <1>2, <1>3, InvAlways, PTL DEF Spec
=============================================================================
