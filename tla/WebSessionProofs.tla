-------------------------- MODULE WebSessionProofs --------------------------
(***************************************************************************)
(* WebSession for any number of tabs and any bounds: the type invariant,   *)
(* that no token is left behind, and that requests do not multiply.        *)
(***************************************************************************)
EXTENDS WebSession, SequenceTheorems, TLAPS

-----------------------------------------------------------------------------
(* The bag of requests. *)

(* The requests in flight are requests, and there is one of each at least.   *)
FlowsOK(q) == DOMAIN q \subseteq Flow /\ \A f \in DOMAIN q : q[f] \in Nat \ {0}

(* Starting a request keeps the bag a bag, and so does ending one.           *)
LEMMA StartedOK ==
    ASSUME NEW q, FlowsOK(q), NEW f \in Flow
    PROVE  FlowsOK(Started(q, f)) /\ DOMAIN Started(q, f) = DOMAIN q \cup {f}
<1>1. DOMAIN Started(q, f) = DOMAIN q \cup {f}
    BY DEF Started
<1>2. ASSUME NEW g \in DOMAIN Started(q, f)
      PROVE  Started(q, f)[g] \in Nat \ {0}
    BY <1>2 DEF FlowsOK, Started
<1>. QED
    BY <1>1, <1>2 DEF FlowsOK

LEMMA DoneOK ==
    ASSUME FlowsOK(flows), NEW f \in DOMAIN flows
    PROVE  FlowsOK(Done(f)) /\ DOMAIN Done(f) \subseteq DOMAIN flows
BY DEF FlowsOK, Done

-----------------------------------------------------------------------------
(* The tasks. *)

(* A task stores a pair or handles refusals and logs out; it intercepts only *)
(* requests that led somewhere, and after auth_token it removes              *)
(* refresh_token.                                                            *)
StoreSteps  == {"storeToken", "storeRefresh"}
ClientSteps == {"intercept", "removeToken", "removeRefresh"}

Storing(k) ==
    /\ k.pair \in Pairs
    /\ \/ k.todo = <<"storeToken", "storeRefresh">>
       \/ k.todo = <<"storeRefresh">>

Refusing(k) ==
    /\ k.todo \in Seq(ClientSteps)
    /\ \A i \in 1..Len(k.todo) : k.todo[i] = "intercept" => k.of \in Asked
    /\ \A i \in 1..Len(k.todo) : k.todo[i] = "removeToken" =>
         i + 1 \in 1..Len(k.todo) /\ k.todo[i + 1] = "removeRefresh"

TaskOK(k) == Storing(k) \/ Refusing(k)

(* The steps a task begins with are such steps.                              *)
LEMMA IdleOK == Idle \in Task /\ Refusing(Idle)
<1>1. Idle.todo = <<>> /\ Idle.of = 0 /\ Idle.retry = FALSE /\ Idle.pair = 0
    BY DEF Idle, NoToken
<1>2. 0 \in Tokens
    BY BoundsAssumption DEF Tokens
<1>3. <<>> \in Seq(StepKinds) /\ <<>> \in Seq(ClientSteps) /\ Len(<<>>) = 0
    OBVIOUS
<1>4. Refusing(Idle)
    BY <1>1, <1>3 DEF Refusing
<1>5. Idle \in Task
    BY <1>2, <1>3 DEF Idle, Task, NoToken
<1>. QED
    BY <1>4, <1>5

LEMMA LogoutSteps ==
    /\ Logout \in Seq(ClientSteps) /\ Len(Logout) = 2
    /\ Logout[1] = "removeToken" /\ Logout[2] = "removeRefresh"
BY DEF Logout, ClientSteps

LEMMA RefusalSteps ==
    /\ Refusal \in Seq(ClientSteps) /\ Len(Refusal) = 2
    /\ Refusal[1] = "intercept" /\ Refusal[2] = "intercept"
BY DEF Refusal, ClientSteps

LEMMA RefusedSteps ==
    /\ Refusal \o Logout \in Seq(ClientSteps) /\ Len(Refusal \o Logout) = 4
    /\ (Refusal \o Logout)[1] = "intercept" /\ (Refusal \o Logout)[2] = "intercept"
    /\ (Refusal \o Logout)[3] = "removeToken" /\ (Refusal \o Logout)[4] = "removeRefresh"
<1>1. /\ Refusal \o Logout \in Seq(ClientSteps)
      /\ Len(Refusal \o Logout) = Len(Refusal) + Len(Logout)
      /\ \A i \in 1..Len(Refusal) + Len(Logout) :
           (Refusal \o Logout)[i] = IF i <= Len(Refusal) THEN Refusal[i] ELSE Logout[i - Len(Refusal)]
    BY LogoutSteps, RefusalSteps, ConcatProperties
<1>. QED
    BY <1>1, LogoutSteps, RefusalSteps

(* logout() before the rest of a task.                                       *)
LEMMA LogoutBefore ==
    ASSUME NEW r \in Seq(ClientSteps)
    PROVE  /\ Logout \o r \in Seq(ClientSteps) /\ Len(Logout \o r) = Len(r) + 2
           /\ (Logout \o r)[1] = "removeToken" /\ (Logout \o r)[2] = "removeRefresh"
           /\ \A i \in 3..Len(r) + 2 : (Logout \o r)[i] = r[i - 2]
<1>1. Len(r) \in Nat
    OBVIOUS
<1>2. /\ Logout \o r \in Seq(ClientSteps)
      /\ Len(Logout \o r) = Len(Logout) + Len(r)
      /\ \A i \in 1..Len(Logout) + Len(r) :
           (Logout \o r)[i] = IF i <= Len(Logout) THEN Logout[i] ELSE r[i - Len(Logout)]
    BY LogoutSteps, ConcatProperties
<1>. QED
    BY <1>1, <1>2, LogoutSteps

LEMMA StoreSequences ==
    /\ <<>> \in Seq(StepKinds)
    /\ <<"storeRefresh">> \in Seq(StepKinds)
    /\ <<"storeToken", "storeRefresh">> \in Seq(StepKinds)
<1>1. <<>> \in Seq(StepKinds)
    OBVIOUS
<1>2. "storeToken" \in StepKinds /\ "storeRefresh" \in StepKinds
    BY DEF StepKinds
<1>. QED
    BY <1>1, <1>2

LEMMA StoreTails ==
    /\ Tail(<<"storeToken", "storeRefresh">>) = <<"storeRefresh">>
    /\ Tail(<<"storeRefresh">>) = <<>>
    /\ Head(<<"storeToken", "storeRefresh">>) = "storeToken"
    /\ Head(<<"storeRefresh">>) = "storeRefresh"
<1>1. Tail(<<"storeToken", "storeRefresh">>) = <<"storeRefresh">>
    OBVIOUS
<1>2. Tail(<<"storeRefresh">>) = <<>>
    OBVIOUS
<1>. QED
    BY <1>1, <1>2

LEMMA ClientStepKinds == ASSUME NEW s \in Seq(ClientSteps) PROVE s \in Seq(StepKinds)
BY DEF ClientSteps, StepKinds

(* A task that begins.                                                       *)
LEMMA BeginsOK ==
    ASSUME task \in [Tabs -> Task], \A u \in Tabs : TaskOK(task[u]), NEW t \in Tabs,
           NEW todo, NEW of \in {0} \cup Asked, NEW pair \in Tokens, Begins(t, todo, of, pair),
           \/ todo = Logout
           \/ todo \in {Refusal, Refusal \o Logout} /\ of \in Asked
           \/ todo = <<"storeToken", "storeRefresh">> /\ pair \in Pairs
    PROVE  task' \in [Tabs -> Task] /\ \A u \in Tabs : TaskOK(task'[u])
<1> DEFINE k == [todo |-> todo, of |-> of, retry |-> FALSE, pair |-> pair]
<1>1. task' = [task EXCEPT ![t] = k]
    BY DEF Begins
<1>2. k.todo = todo /\ k.of = of /\ k.pair = pair
    OBVIOUS
<1>3. todo \in Seq(StepKinds)
    BY StoreSequences, LogoutSteps, RefusalSteps, RefusedSteps, ClientStepKinds
<1>4. k \in Task
    BY <1>3 DEF Task
<1>. HIDE DEF k
<1>5. TaskOK(k)
    <2>1. CASE todo = Logout
        BY <1>2, <2>1, LogoutSteps DEF TaskOK, Refusing
    <2>2. CASE todo = Refusal /\ of \in Asked
        BY <1>2, <2>2, RefusalSteps DEF TaskOK, Refusing
    <2>3. CASE todo = Refusal \o Logout /\ of \in Asked
        BY <1>2, <2>3, RefusedSteps DEF TaskOK, Refusing
    <2>4. CASE todo = <<"storeToken", "storeRefresh">> /\ pair \in Pairs
        BY <1>2, <2>4 DEF TaskOK, Storing
    <2>. QED
        BY <2>1, <2>2, <2>3, <2>4
<1>. QED
    BY <1>1, <1>4, <1>5

(* A task that goes on: its first step is taken off, and an interceptor may  *)
(* put logout() in its place.                                                *)
LEMMA RefusingTail ==
    ASSUME NEW k \in Task, Refusing(k), k.todo # <<>>
    PROVE  /\ Tail(k.todo) \in Seq(ClientSteps)
           /\ Len(Tail(k.todo)) = Len(k.todo) - 1
           /\ \A i \in 1..Len(k.todo) - 1 : Tail(k.todo)[i] = k.todo[i + 1]
BY DEF Refusing

LEMMA LeftRefusing ==
    ASSUME NEW k \in Task, NEW left \in Seq(ClientSteps), NEW retry \in BOOLEAN,
           \A i \in 1..Len(left) : left[i] = "intercept" => k.of \in Asked,
           \A i \in 1..Len(left) : left[i] = "removeToken" =>
             i + 1 \in 1..Len(left) /\ left[i + 1] = "removeRefresh"
    PROVE  LET j == [k EXCEPT !.todo = left, !.retry = retry]
           IN  j \in Task /\ Refusing(j) /\ TaskOK(j)
<1> DEFINE j == [k EXCEPT !.todo = left, !.retry = retry]
<1>1. left \in Seq(StepKinds)
    BY ClientStepKinds
<1>2. j \in Task
    BY <1>1 DEF Task
<1>3. j.todo = left /\ j.of = k.of
    BY DEF Task
<1>. HIDE DEF j
<1>4. Refusing(j)
    BY <1>3 DEF Refusing
<1>. QED
    BY <1>2, <1>4 DEF TaskOK, j

LEMMA LeftOK ==
    ASSUME NEW k \in Task, TaskOK(k), k.todo # <<>>, NEW retry \in BOOLEAN,
           NEW steps, steps = <<>> \/ (steps = Logout /\ Refusing(k)), steps \o Tail(k.todo) # <<>>
    PROVE  LET j == [k EXCEPT !.todo = steps \o Tail(k.todo), !.retry = retry]
           IN  j \in Task /\ TaskOK(j) /\ (Refusing(k) => Refusing(j))
<1> DEFINE left == steps \o Tail(k.todo)
           j == [k EXCEPT !.todo = left, !.retry = retry]
<1>1. CASE Storing(k)
    <2>1. ~Refusing(k)
        <3>1. k.todo[1] \in StoreSteps /\ 1 \in 1..Len(k.todo)
            BY <1>1 DEF Storing, StoreSteps
        <3>2. \A s \in Seq(ClientSteps) : \A i \in 1..Len(s) : s[i] \in ClientSteps
            OBVIOUS
        <3>. QED
            BY <3>1, <3>2 DEF Refusing, StoreSteps, ClientSteps
    <2>2. Tail(k.todo) = <<>> \/ Tail(k.todo) = <<"storeRefresh">>
        BY <1>1, StoreTails DEF Storing
    <2>3. <<>> \in Seq(StepKinds) /\ <<"storeRefresh">> \in Seq(StepKinds)
        BY StoreSequences
    <2>4. left = <<"storeRefresh">>
        <3>1. Tail(k.todo) \in Seq(StepKinds)
            BY <2>2, <2>3
        <3>2. <<>> \o Tail(k.todo) = Tail(k.todo)
            BY <3>1, ConcatEmptySeq
        <3>3. steps = <<>>
            BY <2>1
        <3>4. left = Tail(k.todo)
            BY <3>2, <3>3
        <3>. QED
            BY <2>2, <3>4
    <2>5. left \in Seq(StepKinds)
        BY <2>3, <2>4
    <2>. HIDE DEF left
    <2>6. j \in Task
        BY <2>5 DEF Task
    <2>7. j.todo = left /\ j.pair = k.pair
        BY DEF Task
    <2>. HIDE DEF j
    <2>8. TaskOK(j)
        BY <1>1, <2>4, <2>7 DEF TaskOK, Storing
    <2>. QED
        BY <2>1, <2>6, <2>8 DEF j, left
<1>2. CASE Refusing(k)
    <2>0. /\ Tail(k.todo) \in Seq(ClientSteps)
          /\ Len(Tail(k.todo)) = Len(k.todo) - 1
          /\ \A i \in 1..Len(k.todo) - 1 : Tail(k.todo)[i] = k.todo[i + 1]
        BY <1>2, RefusingTail
    <2>1. k.todo \in Seq(ClientSteps) /\ Len(k.todo) \in Nat /\ Len(k.todo) > 0
        BY <1>2 DEF Refusing
    <2>2. CASE steps = <<>>
        <3>1. left = Tail(k.todo)
            BY <2>0, <2>2, ConcatEmptySeq
        <3>2. \A i \in 1..Len(left) : left[i] = "intercept" => k.of \in Asked
            BY <1>2, <2>0, <2>1, <3>1 DEF Refusing
        <3>3. \A i \in 1..Len(left) : left[i] = "removeToken" =>
                i + 1 \in 1..Len(left) /\ left[i + 1] = "removeRefresh"
            BY <1>2, <2>0, <2>1, <3>1 DEF Refusing
        <3>4. left \in Seq(ClientSteps)
            BY <2>0, <3>1
        <3>. HIDE DEF left
        <3>. QED
            BY <3>2, <3>3, <3>4, LeftRefusing DEF left
    <2>3. CASE steps = Logout
        <3>1. /\ left \in Seq(ClientSteps) /\ Len(left) = Len(k.todo) + 1
              /\ left[1] = "removeToken" /\ left[2] = "removeRefresh"
              /\ \A i \in 3..Len(k.todo) + 1 : left[i] = Tail(k.todo)[i - 2]
            BY <2>0, <2>1, <2>3, LogoutBefore
        <3>2. \A i \in 3..Len(k.todo) + 1 : left[i] = k.todo[i - 1]
            BY <2>0, <2>1, <3>1
        <3>. HIDE DEF left
        <3>5. \A i \in 1..Len(left) : i \in {1, 2} \/ (i \in 3..Len(left) /\ i - 1 \in 1..Len(k.todo))
            BY <2>1, <3>1
        <3>3. \A i \in 1..Len(left) : left[i] = "intercept" => k.of \in Asked
            BY <1>2, <2>1, <3>1, <3>2, <3>5 DEF Refusing
        <3>4. ASSUME NEW i \in 1..Len(left), left[i] = "removeToken"
              PROVE  i + 1 \in 1..Len(left) /\ left[i + 1] = "removeRefresh"
            <4>1. CASE i = 1
                BY <2>1, <3>1, <4>1
            <4>2. CASE i = 2
                BY <3>1, <3>4, <4>2
            <4>3. CASE i \in 3..Len(left) /\ i - 1 \in 1..Len(k.todo)
                <5>1. left[i] = k.todo[i - 1]
                    BY <2>1, <3>1, <3>2, <4>3
                <5>2. i - 1 + 1 \in 1..Len(k.todo) /\ k.todo[i - 1 + 1] = "removeRefresh"
                    BY <1>2, <3>4, <4>3, <5>1 DEF Refusing
                <5>. QED
                    BY <2>1, <3>1, <3>2, <4>3, <5>2
            <4>. QED
                BY <3>5, <4>1, <4>2, <4>3
        <3>. QED
            BY <3>1, <3>3, <3>4, LeftRefusing DEF left
    <2>. QED
        BY <2>2, <2>3
<1>. QED
    BY <1>1, <1>2 DEF TaskOK

LEMMA BecomesOK ==
    ASSUME task \in [Tabs -> Task], \A u \in Tabs : TaskOK(task[u]), NEW t \in Tabs,
           ~IsIdle(t), NEW steps, NEW retry \in BOOLEAN, Becomes(t, steps, retry),
           steps = <<>> \/ (steps = Logout /\ Refusing(task[t]))
    PROVE  /\ task' \in [Tabs -> Task] /\ \A u \in Tabs : TaskOK(task'[u])
           /\ Refusing(task[t]) => Refusing(task'[t])
<1> DEFINE left == steps \o Tail(task[t].todo)
           j == [task[t] EXCEPT !.todo = left, !.retry = retry]
           k == IF left = <<>> THEN Idle ELSE j
<1>1. task' = [task EXCEPT ![t] = k]
    BY DEF Becomes
<1>2. task[t] \in Task /\ TaskOK(task[t]) /\ task[t].todo # <<>>
    BY DEF IsIdle
<1>3. left # <<>> => j \in Task /\ TaskOK(j) /\ (Refusing(task[t]) => Refusing(j))
    BY <1>2, LeftOK
<1>4. k \in Task /\ TaskOK(k) /\ (Refusing(task[t]) => Refusing(k))
    BY <1>3, IdleOK DEF TaskOK
<1>. HIDE DEF k
<1>. QED
    BY <1>1, <1>4

(* What the next step tells about its task.                                  *)
LEMMA NextRefusing ==
    ASSUME task \in [Tabs -> Task], NEW t \in Tabs, TaskOK(task[t]), NEW step \in ClientSteps,
           IsNext(t, step)
    PROVE  /\ Refusing(task[t]) /\ Len(task[t].todo) \in Nat /\ 1 \in 1..Len(task[t].todo)
           /\ task[t].todo[1] = step /\ task[t].todo # <<>>
<1>1. Head(task[t].todo) = step /\ task[t].todo # <<>>
    BY DEF IsNext, IsIdle
<1>2. ~Storing(task[t])
    BY <1>1, StoreTails DEF Storing, ClientSteps
<1>3. Refusing(task[t])
    BY <1>2 DEF TaskOK
<1>4. task[t].todo \in Seq(ClientSteps)
    BY <1>3 DEF Refusing
<1>. QED
    BY <1>1, <1>3, <1>4

LEMMA NextStoring ==
    ASSUME task \in [Tabs -> Task], NEW t \in Tabs, TaskOK(task[t]), NEW step \in StoreSteps,
           IsNext(t, step)
    PROVE  /\ Storing(task[t]) /\ task[t].pair \in Pairs
           /\ step = "storeToken" => task[t].todo = <<"storeToken", "storeRefresh">>
           /\ step = "storeRefresh" => task[t].todo = <<"storeRefresh">>
<1>1. Head(task[t].todo) = step /\ task[t].todo # <<>>
    BY DEF IsNext, IsIdle
<1>2. ~Refusing(task[t])
    <2>1. \A s \in Seq(ClientSteps) : s # <<>> => Head(s) \in ClientSteps
        OBVIOUS
    <2>. QED
        BY <1>1, <2>1 DEF Refusing, ClientSteps, StoreSteps
<1>3. Storing(task[t])
    BY <1>2 DEF TaskOK
<1>. QED
    BY <1>1, <1>3, StoreTails DEF Storing

LEMMA GoesOK ==
    ASSUME task \in [Tabs -> Task], \A u \in Tabs : TaskOK(task[u]), NEW t \in Tabs,
           ~IsIdle(t), Goes(t)
    PROVE  /\ task' \in [Tabs -> Task] /\ \A u \in Tabs : TaskOK(task'[u])
           /\ Refusing(task[t]) => Refusing(task'[t])
<1>1. task[t].retry \in BOOLEAN
    BY ZenonT(30) DEF Task
<1>. QED
    BY <1>1, BecomesOK DEF Goes

-----------------------------------------------------------------------------
(* TypeOK. *)

(* The parts of TypeOK; what the tasks hold is stronger than their type.     *)
ClientOK ==
    /\ page \in [Tabs -> PageKinds]
    /\ authorized \in [Tabs -> BOOLEAN]
    /\ header \in [Tabs -> Tokens]
    /\ ls \in [token : Tokens, refresh : Tokens]
    /\ cut \subseteq Pairs

TasksOK == task \in [Tabs -> Task] /\ \A t \in Tabs : TaskOK(task[t])

RestOK ==
    /\ issued \in Tokens
    /\ live \subseteq Pairs
    /\ rlive \subseteq Pairs
    /\ asked \in 0..MaxRequests
    /\ faults \in 0..MaxFaults

TypeInv == ClientOK /\ TasksOK /\ FlowsOK(flows) /\ RestOK

LEMMA TypeInvImplies == TypeInv => TypeOK
BY DEF TypeInv, TypeOK, ClientOK, TasksOK, FlowsOK, RestOK

(* A refresh that is started with a stored refresh token is a request.       *)
LEMMA RefreshOK ==
    ASSUME ClientOK, NEW t \in Tabs, NEW of \in Asked, ls.refresh # NoToken
    PROVE  Refresh(t, of) \in Flow /\ Refresh(t, of).of = of /\ Refresh(t, of).tab = t
BY DEF ClientOK, Refresh, Request, Flow, Tokens, Pairs, NoToken

(* A step of a task.                                                         *)
LEMMA TakeStepOK ==
    ASSUME TypeInv, NEW t \in Tabs, TakeStep(t)
    PROVE  TypeInv'
<1>0. ClientOK /\ TasksOK /\ FlowsOK(flows) /\ RestOK
    BY DEF TypeInv
<1>1. RestOK'
    BY <1>0 DEF TakeStep, RestOK, srvVars
<1>2. task \in [Tabs -> Task] /\ \A u \in Tabs : TaskOK(task[u])
    BY <1>0 DEF TasksOK
<1>3. ASSUME NEW step, IsNext(t, step), Goes(t) PROVE TasksOK'
    <2>1. ~IsIdle(t)
        BY <1>3 DEF IsNext
    <2>. QED
        BY <1>2, <1>3, <2>1, GoesOK DEF TasksOK
<1>4. CASE Intercept(t)
    <2>1. /\ Refusing(task[t]) /\ task[t].of \in Asked
        <3>1. "intercept" \in ClientSteps
            BY DEF ClientSteps
        <3>2. /\ Refusing(task[t]) /\ 1 \in 1..Len(task[t].todo)
              /\ task[t].todo[1] = "intercept"
            BY <1>2, <1>4, <3>1, NextRefusing DEF Intercept
        <3>. QED
            BY <3>2 DEF Refusing
    <2>2. ~IsIdle(t)
        BY <1>4 DEF Intercept, IsNext
    <2>3. ClientOK'
        BY <1>0, <1>4 DEF Intercept, ClientOK, tabVars
    <2>4. TasksOK'
        BY <1>2, <1>3, <1>4, <2>1, <2>2, BecomesOK DEF Intercept, TasksOK
    <2>5. FlowsOK(flows')
        <3>1. CASE flows' = flows
            BY <1>0, <3>1
        <3>2. CASE ls.refresh # NoToken /\ flows' = Started(flows, Refresh(t, task[t].of))
            BY <1>0, <2>1, <3>2, RefreshOK, StartedOK
        <3>. QED
            BY <1>4, <3>1, <3>2 DEF Intercept
    <2>. QED
        BY <1>1, <2>3, <2>4, <2>5 DEF TypeInv
<1>5. CASE RemoveToken(t)
    <2>1. TasksOK' /\ flows' = flows
        BY <1>3, <1>5 DEF RemoveToken
    <2>2. ASSUME NEW u \in Tabs, IsNext(u, "storeRefresh") PROVE task[u].pair \in Pairs
        <3>1. "storeRefresh" \in StoreSteps
            BY DEF StoreSteps
        <3>. QED
            BY <1>2, <2>2, <3>1, NextStoring
    <2>3. cut' \subseteq Pairs
        BY <1>0, <1>5, <2>2 DEF RemoveToken, ClientOK
    <2>4. authorized' \in [Tabs -> BOOLEAN]
        BY <1>0, <1>5, ZenonT(30) DEF RemoveToken, ClientOK
    <2>5. ls' \in [token : Tokens, refresh : Tokens]
        BY <1>0, <1>5, BoundsAssumption DEF RemoveToken, ClientOK, Tokens, NoToken
    <2>6. ClientOK'
        BY <1>0, <1>5, <2>3, <2>4, <2>5 DEF RemoveToken, ClientOK
    <2>. QED
        BY <1>0, <1>1, <2>1, <2>6 DEF TypeInv
<1>6. CASE RemoveRefresh(t)
    <2>1. TasksOK' /\ flows' = flows
        BY <1>3, <1>6 DEF RemoveRefresh
    <2>2. ClientOK'
        BY <1>0, <1>6, BoundsAssumption DEF RemoveRefresh, ClientOK, Tokens, NoToken, PageKinds
    <2>. QED
        BY <1>0, <1>1, <2>1, <2>2 DEF TypeInv
<1>7. CASE StoreToken(t)
    <2>1. TasksOK' /\ flows' = flows
        BY <1>3, <1>7 DEF StoreToken
    <2>2. task[t].pair \in Tokens
        BY <1>2 DEF Task
    <2>3. ClientOK'
        BY <1>0, <1>7, <2>2 DEF StoreToken, ClientOK, tabVars
    <2>. QED
        BY <1>0, <1>1, <2>1, <2>3 DEF TypeInv
<1>8. CASE StoreRefresh(t)
    <2>1. TasksOK' /\ flows' = flows
        BY <1>3, <1>8 DEF StoreRefresh
    <2>2. task[t].pair \in Tokens
        BY <1>2 DEF Task
    <2>3. authorized' \in [Tabs -> BOOLEAN]
        BY <1>0, <1>8, ZenonT(30) DEF StoreRefresh, ClientOK
    <2>4. page' \in [Tabs -> PageKinds]
        BY <1>0, <1>8 DEF StoreRefresh, ClientOK, PageKinds
    <2>5. ClientOK'
        BY <1>0, <1>8, <2>2, <2>3, <2>4 DEF StoreRefresh, ClientOK
    <2>. QED
        BY <1>0, <1>1, <2>1, <2>5 DEF TypeInv
<1>. QED
    BY <1>4, <1>5, <1>6, <1>7, <1>8 DEF TakeStep

(* logout() begins.                                                          *)
LEMMA LogoutBegins ==
    ASSUME TasksOK, NEW t \in Tabs, Begins(t, Logout, 0, NoToken)
    PROVE  TasksOK'
<1>1. NoToken \in Tokens
    BY BoundsAssumption DEF NoToken, Tokens
<1>. QED
    BY <1>1, BeginsOK DEF TasksOK

(* A step of a tab or its user.                                              *)
LEMMA TabStepOK ==
    ASSUME TypeInv, NEW t \in Tabs,
           \/ Load(t)
           \/ \E kind \in {"data", "forbidden", "ws"} : Ask(t, kind)
           \/ UserLogout(t)
           \/ Submit(t)
    PROVE  TypeInv'
<1>0. ClientOK /\ TasksOK /\ FlowsOK(flows) /\ RestOK
    BY DEF TypeInv
<1>1. CASE Load(t)
    <2>1. FlowsOK(flows')
        BY <1>0, <1>1 DEF Load, FlowsOK, Pending
    <2>2. ClientOK'
        <3>1. page' \in [Tabs -> PageKinds]
            BY <1>0, <1>1 DEF ClientOK, Load, PageKinds
        <3>2. authorized' \in [Tabs -> BOOLEAN]
            BY <1>0, <1>1, ZenonT(30) DEF ClientOK, Load
        <3>3. header' \in [Tabs -> Tokens] /\ ls' = ls /\ cut' = cut
            BY <1>0, <1>1 DEF ClientOK, Load
        <3>. QED
            BY <1>0, <3>1, <3>2, <3>3 DEF ClientOK
    <2>3. RestOK' /\ TasksOK'
        BY <1>0, <1>1 DEF RestOK, TasksOK, Load, srvVars
    <2>. QED
        BY <2>1, <2>2, <2>3 DEF TypeInv
<1>2. ASSUME NEW kind \in {"data", "forbidden", "ws"}, Ask(t, kind) PROVE TypeInv'
    <2>1. PICK bearer \in Tokens : flows' = Started(flows, Request(t, kind, bearer, NoToken, asked + 1))
        BY <1>0, <1>2 DEF ClientOK, Ask
    <2>2. asked + 1 \in Asked
        BY <1>0, <1>2, BoundsAssumption DEF RestOK, Ask, Asked
    <2>3. Request(t, kind, bearer, NoToken, asked + 1) \in Flow
        BY <2>1, <2>2 DEF Request, Flow
    <2>4. FlowsOK(flows')
        BY <1>0, <2>1, <2>3, StartedOK
    <2>5. ClientOK' /\ TasksOK'
        BY <1>0, <1>2 DEF ClientOK, TasksOK, Ask, tabVars
    <2>6. RestOK'
        BY <1>0, <1>2, BoundsAssumption DEF RestOK, Ask, srvVars
    <2>. QED
        BY <2>4, <2>5, <2>6 DEF TypeInv
<1>3. CASE UserLogout(t)
    <2>1. TasksOK'
        BY <1>0, <1>3, LogoutBegins DEF UserLogout
    <2>2. ClientOK' /\ FlowsOK(flows') /\ RestOK'
        BY <1>0, <1>3 DEF UserLogout, ClientOK, RestOK, tabVars, srvVars
    <2>. QED
        BY <2>1, <2>2 DEF TypeInv
<1>4. CASE Submit(t)
    <2>1. Request(t, "login", NoToken, NoToken, 0) \in Flow
        BY DEF Request, Flow
    <2>2. FlowsOK(flows')
        BY <1>0, <1>4, <2>1, StartedOK DEF Submit
    <2>3. ClientOK' /\ TasksOK' /\ RestOK'
        BY <1>0, <1>4 DEF ClientOK, TasksOK, RestOK, Submit, tabVars, srvVars
    <2>. QED
        BY <2>2, <2>3 DEF TypeInv
<1>. QED
    BY <1>1, <1>2, <1>3, <1>4

(* What the kind of a pending request tells.                                 *)
LEMMA FlowOf ==
    ASSUME FlowsOK(flows), NEW f \in Pending
    PROVE  /\ f \in DOMAIN flows /\ f \in Flow /\ f.tab \in Tabs /\ f.of \in {0} \cup Asked
           /\ f.kind \notin {"login", "logintype"} => f.of \in Asked
           /\ f.kind \in {"login", "logintype"} => f.of = 0
           /\ f.kind \in {"type", "logintype"} => f.arg \in Pairs
<1>1. f \in DOMAIN flows /\ f \in Flow
    BY DEF FlowsOK, Pending
<1>. QED
    BY <1>1 DEF Flow

(* The server hands out a pair.                                              *)
LEMMA NextPair ==
    ASSUME RestOK, issued # MaxPairs
    PROVE  issued + 1 \in Pairs /\ issued + 1 \in Tokens
BY BoundsAssumption DEF RestOK, Tokens, Pairs

LEMMA IssueOK == ASSUME RestOK, issued # MaxPairs, Issue, asked' = asked, faults' = faults PROVE RestOK'
BY NextPair DEF RestOK, Issue

(* An answer.                                                                *)
LEMMA AnswerOK ==
    ASSUME TypeInv, NEW f \in Pending, Answer(f)
    PROVE  TypeInv'
<1>0. ClientOK /\ TasksOK /\ FlowsOK(flows) /\ RestOK
    BY DEF TypeInv
<1>1. /\ f \in DOMAIN flows /\ f \in Flow /\ f.tab \in Tabs /\ f.of \in {0} \cup Asked
      /\ f.kind \notin {"login", "logintype"} => f.of \in Asked
      /\ f.kind \in {"type", "logintype"} => f.arg \in Pairs
    BY <1>0, FlowOf
<1>2. FlowsOK(Done(f))
    BY <1>0, <1>1, DoneOK
<1>3. NoToken \in Tokens
    BY BoundsAssumption DEF NoToken, Tokens
<1>4. ASSUME ls' = ls, cut' = cut, UNCHANGED tabVars PROVE ClientOK'
    BY <1>0, <1>4 DEF ClientOK, tabVars
<1>5. CASE AnswerData(f)
    <2>1. FlowsOK(flows') /\ ClientOK' /\ RestOK'
        BY <1>0, <1>2, <1>4, <1>5 DEF Answer, AnswerData, RestOK, srvVars
    <2>2. f.of \in Asked
        BY <1>1, <1>5 DEF AnswerData
    <2>3. TasksOK'
        BY <1>0, <1>1, <1>3, <1>5, <2>2, BeginsOK DEF AnswerData, TasksOK
    <2>. QED
        BY <2>1, <2>3 DEF TypeInv
<1>6. CASE AnswerWs(f)
    <2>1. ClientOK' /\ RestOK'
        BY <1>0, <1>4, <1>6 DEF Answer, AnswerWs, RestOK, srvVars
    <2>2. f.of \in Asked
        BY <1>1, <1>6 DEF AnswerWs
    <2>3. TasksOK'
        BY <1>0, <1>1, <1>6, LogoutBegins DEF AnswerWs, TasksOK
    <2>4. FlowsOK(flows')
        <3>1. CASE flows' = Done(f)
            BY <1>2, <3>1
        <3>2. CASE ls.refresh # NoToken /\ flows' = Started(Done(f), Refresh(f.tab, f.of))
            BY <1>0, <1>1, <1>2, <2>2, <3>2, RefreshOK, StartedOK
        <3>. QED
            BY <1>6, <3>1, <3>2 DEF AnswerWs
    <2>. QED
        BY <2>1, <2>3, <2>4 DEF TypeInv
<1>7. CASE AnswerRefresh(f) /\ Refused(f)
    <2>1. FlowsOK(flows') /\ ClientOK' /\ RestOK'
        BY <1>0, <1>2, <1>4, <1>7 DEF Answer, AnswerRefresh, RestOK, srvVars
    <2>2. f.of \in Asked
        BY <1>1, <1>7 DEF AnswerRefresh
    <2>3. TasksOK'
        BY <1>0, <1>1, <1>3, <1>7, <2>2, BeginsOK DEF AnswerRefresh, TasksOK
    <2>. QED
        BY <2>1, <2>3 DEF TypeInv
<1>8. CASE AnswerRefresh(f) /\ ~Refused(f)
    <2>1. issued # MaxPairs
        BY <1>8 DEF AnswerRefresh, Refused
    <2>2. f.of \in Asked
        BY <1>1, <1>8 DEF AnswerRefresh
    <2>3. Request(f.tab, "type", NoToken, issued + 1, f.of) \in Flow
        BY <1>0, <1>1, <2>1, <2>2, NextPair DEF Request, Flow
    <2>4. FlowsOK(flows')
        BY <1>2, <1>8, <2>3, StartedOK DEF AnswerRefresh
    <2>5. ClientOK' /\ TasksOK'
        BY <1>0, <1>4, <1>8 DEF Answer, AnswerRefresh, TasksOK
    <2>6. RestOK'
        BY <1>0, <1>8, <2>1, IssueOK DEF Answer, AnswerRefresh
    <2>. QED
        BY <2>4, <2>5, <2>6 DEF TypeInv
<1>9. CASE AnswerLogin(f)
    <2>1. ClientOK' /\ TasksOK'
        BY <1>0, <1>4, <1>9 DEF Answer, AnswerLogin, TasksOK
    <2>2. CASE flows' = Done(f) /\ UNCHANGED srvVars
        BY <1>0, <1>2, <2>1, <2>2 DEF Answer, RestOK, srvVars, TypeInv
    <2>3. CASE /\ issued < MaxPairs
               /\ Issue
               /\ flows' = Started(Done(f), Request(f.tab, "logintype", NoToken, issued + 1, 0))
        <3>1. issued # MaxPairs
            BY <1>0, <2>3, BoundsAssumption DEF RestOK, Tokens
        <3>2. Request(f.tab, "logintype", NoToken, issued + 1, 0) \in Flow
            BY <1>0, <1>1, <3>1, NextPair DEF Request, Flow
        <3>3. FlowsOK(flows')
            BY <1>2, <2>3, <3>2, StartedOK
        <3>4. RestOK'
            BY <1>0, <2>3, <3>1, IssueOK DEF Answer
        <3>. QED
            BY <2>1, <3>3, <3>4 DEF TypeInv
    <2>. QED
        BY <1>9, <2>2, <2>3 DEF AnswerLogin
<1>10. CASE AnswerType(f)
    <2>1. FlowsOK(flows') /\ ClientOK' /\ RestOK'
        BY <1>0, <1>2, <1>4, <1>10 DEF Answer, AnswerType, RestOK, srvVars
    <2>2. f.arg \in Pairs /\ f.arg \in Tokens
        BY <1>1, <1>10 DEF AnswerType, Pairs, Tokens
    <2>3. TasksOK'
        BY <1>0, <1>1, <1>10, <2>2, BeginsOK DEF AnswerType, TasksOK
    <2>. QED
        BY <2>1, <2>3 DEF TypeInv
<1>. QED
    BY <1>5, <1>6, <1>7, <1>8, <1>9, <1>10 DEF Answer

(* A request that is lost, and a token that expires.                         *)
LEMMA LostOK ==
    ASSUME TypeInv, NEW f \in Pending, Lost(f)
    PROVE  TypeInv'
<1>0. ClientOK /\ TasksOK /\ FlowsOK(flows) /\ RestOK
    BY DEF TypeInv
<1>1. f \in DOMAIN flows /\ f.tab \in Tabs
    BY <1>0, FlowOf
<1>2. ClientOK' /\ RestOK'
    BY <1>0, BoundsAssumption DEF Lost, ClientOK, RestOK, tabVars, srvVars
<1>3. FlowsOK(flows')
    BY <1>0, <1>1, DoneOK DEF Lost
<1>4. TasksOK'
    BY <1>0, <1>1, LogoutBegins DEF Lost, TasksOK
<1>. QED
    BY <1>2, <1>3, <1>4 DEF TypeInv

LEMMA ExpireOK ==
    ASSUME TypeInv, NEW p \in Pairs, Expire(p)
    PROVE  TypeInv'
<1>0. ClientOK /\ TasksOK /\ FlowsOK(flows) /\ RestOK
    BY DEF TypeInv
<1>. QED
    BY <1>0 DEF TypeInv, ClientOK, TasksOK, RestOK, Expire, tabVars

LEMMA TypeInit == Init => TypeInv
<1>. SUFFICES ASSUME Init PROVE TypeInv
    OBVIOUS
<1>0. 0 \in Tokens /\ 1 \in Pairs /\ 1 \in Tokens
    BY BoundsAssumption DEF Tokens, Pairs
<1>1. ls \in [token : Tokens, refresh : Tokens] /\ ls.token \in {0, 1}
    BY <1>0 DEF Init, NoPair, NoToken
<1>2. page \in [Tabs -> PageKinds] /\ header \in [Tabs -> Tokens]
    BY <1>1, <1>0 DEF Init, PageKinds
<1>3. authorized \in [Tabs -> BOOLEAN]
    BY ZenonT(30) DEF Init
<1>4. FlowsOK(flows)
    BY DEF Init, FlowsOK
<1>5. RestOK
    BY <1>0, <1>1, BoundsAssumption DEF Init, RestOK, NoToken
<1>6. TasksOK
    BY IdleOK DEF Init, TasksOK, TaskOK
<1>. QED
    BY <1>1, <1>2, <1>3, <1>4, <1>5, <1>6 DEF TypeInv, ClientOK, Init

LEMMA TypeNext == ASSUME TypeInv, [Next]_vars PROVE TypeInv'
<1>1. CASE Next
    BY <1>1, TakeStepOK, TabStepOK, AnswerOK, LostOK, ExpireOK DEF Next
<1>2. CASE UNCHANGED vars
    BY <1>2 DEF TypeInv, ClientOK, TasksOK, RestOK, vars, tabVars, srvVars
<1>. QED
    BY <1>1, <1>2

LEMMA TypeInvariant == Spec => []TypeInv
<1>1. TypeInv /\ [Next]_vars => TypeInv'
    BY TypeNext
<1>. QED
    BY <1>1, TypeInit, PTL DEF Spec

(* The type invariant: the header and localStorage hold tokens that were     *)
(* handed out, the requests in flight are a bag of requests, and the tasks   *)
(* are made of steps.                                                        *)
THEOREM TypeCorrect == Spec => []TypeOK
BY TypeInvariant, TypeInvImplies, PTL

-----------------------------------------------------------------------------
(* NothingLeftBehind. *)

(* A tab that shows the login form waits for logins only and runs no task    *)
(* but setToken().                                                           *)
OnlyLogins ==
    \A t \in Tabs : page[t] = "login" =>
      /\ \A f \in Pending : f.tab = t => f.of = 0
      /\ IsIdle(t) \/ Storing(task[t])

(* Where there is a token there is a tab that shows the application, or will.*)
TokenHasTab ==
    ls.token # NoToken => \E t \in Tabs : page[t] # "login" \/ ~IsIdle(t)

(* Between the two writes of a setToken() the first is still there, or       *)
(* another tab's logout() has cut the pair.                                  *)
FirstWriteStands ==
    \A t \in Tabs : IsNext(t, "storeRefresh") => ls.token # NoToken \/ task[t].pair \in cut

(* A refresh token without a token is being removed, or of a pair cut in two.*)
RefreshGoes ==
    ls.refresh \notin {NoToken} \cup cut =>
      ls.token # NoToken \/ \E t \in Tabs : IsNext(t, "removeRefresh")

LeftInv == OnlyLogins /\ TokenHasTab /\ FirstWriteStands /\ RefreshGoes

LEMMA LeftImplies == LeftInv => NothingLeftBehind
BY DEF LeftInv, TokenHasTab, RefreshGoes, NothingLeftBehind, IsNext

(* A request that joins those in flight at a tab with the login form is of a *)
(* login.                                                                    *)
Joins(t) ==
    \A f \in Pending' : f \in Pending \/ (f.tab = t /\ (page[t] = "login" => f.of = 0))

(* A step that leaves the pages, the tasks and localStorage alone.           *)
LEMMA LeftKeeps ==
    ASSUME LeftInv, page' = page, task' = task, ls' = ls, cut' = cut, NEW t \in Tabs, Joins(t)
    PROVE  LeftInv'
<1>1. OnlyLogins'
    BY DEF LeftInv, OnlyLogins, Joins, IsIdle, Storing
<1>2. TokenHasTab' /\ FirstWriteStands' /\ RefreshGoes'
    BY DEF LeftInv, TokenHasTab, FirstWriteStands, RefreshGoes, IsIdle, IsNext
<1>. QED
    BY <1>1, <1>2 DEF LeftInv

(* A task begins, of which the first step is no second access to             *)
(* localStorage; at the login form it stores a pair.                         *)
LEMMA LeftBegins ==
    ASSUME TasksOK, LeftInv, page' = page, ls' = ls, cut' = cut, NEW t \in Tabs, Joins(t), IsIdle(t),
           NEW todo, NEW of, NEW pair, Begins(t, todo, of, pair),
           todo # <<>>, Head(todo) \notin {"storeRefresh", "removeRefresh"},
           page[t] = "login" => Storing(task'[t])
    PROVE  LeftInv'
<1>1. /\ task'[t].todo = todo
      /\ \A u \in Tabs : u # t => task'[u] = task[u]
    BY DEF Begins, TasksOK
<1>2. OnlyLogins'
    BY <1>1 DEF LeftInv, OnlyLogins, Joins, IsIdle, Storing
<1>3. TokenHasTab'
    BY <1>1 DEF TokenHasTab, IsIdle
<1>4. FirstWriteStands'
    BY <1>1 DEF LeftInv, FirstWriteStands, IsNext, IsIdle
<1>5. RefreshGoes'
    BY <1>1 DEF LeftInv, RefreshGoes, IsNext, IsIdle
<1>. QED
    BY <1>2, <1>3, <1>4, <1>5 DEF LeftInv

(* The first steps of the tasks.                                             *)
LEMMA FirstSteps ==
    /\ Logout # <<>> /\ Head(Logout) = "removeToken"
    /\ Refusal # <<>> /\ Head(Refusal) = "intercept"
    /\ Refusal \o Logout # <<>> /\ Head(Refusal \o Logout) = "intercept"
    /\ <<"storeToken", "storeRefresh">> # <<>>
    /\ Head(<<"storeToken", "storeRefresh">>) = "storeToken"
<1>1. \A s \in Seq(ClientSteps) : Len(s) > 0 => s # <<>> /\ Head(s) = s[1]
    OBVIOUS
<1>. QED
    BY <1>1, LogoutSteps, RefusalSteps, RefusedSteps

(* How a step changes the tasks.                                             *)
LEMMA GoesTail ==
    ASSUME TasksOK, NEW t \in Tabs, Goes(t), Tail(task[t].todo) \in Seq(StepKinds)
    PROVE  /\ task'[t].todo = Tail(task[t].todo)
           /\ \A u \in Tabs : u # t => task'[u] = task[u]
           /\ task'[t].todo # <<>> => task'[t].pair = task[t].pair
<1> DEFINE left == <<>> \o Tail(task[t].todo)
           j == [task[t] EXCEPT !.todo = left, !.retry = task[t].retry]
           k == IF left = <<>> THEN Idle ELSE j
<1>1. task' = [task EXCEPT ![t] = k]
    BY DEF Goes, Becomes
<1>2. left = Tail(task[t].todo)
    BY ConcatEmptySeq
<1>3. task[t] \in Task
    BY DEF TasksOK
<1>4. j.todo = left /\ j.pair = task[t].pair
    BY <1>3 DEF Task
<1>5. Idle.todo = <<>>
    BY DEF Idle
<1>. HIDE DEF left, j
<1>6. k.todo = left /\ (left # <<>> => k.pair = task[t].pair)
    BY <1>4, <1>5
<1>. HIDE DEF k
<1>. QED
    BY <1>1, <1>2, <1>6 DEF TasksOK

LEMMA RefusingHead ==
    ASSUME NEW k, Refusing(k)
    PROVE  ~Storing(k) /\ (k.todo # <<>> => Head(k.todo) \in ClientSteps)
<1>1. \A s \in Seq(ClientSteps) : s # <<>> => Head(s) \in ClientSteps
    OBVIOUS
<1>2. k.todo # <<>> => Head(k.todo) \in ClientSteps
    BY <1>1 DEF Refusing
<1>3. ~Storing(k)
    BY <1>2, StoreTails DEF Storing, ClientSteps
<1>. QED
    BY <1>2, <1>3

LEMMA LeftIntercept ==
    ASSUME TypeInv, LeftInv, NEW t \in Tabs, Intercept(t)
    PROVE  LeftInv'
<1>0. TasksOK /\ ClientOK /\ task \in [Tabs -> Task] /\ \A u \in Tabs : TaskOK(task[u])
    BY DEF TypeInv, TasksOK
<1>1. IsNext(t, "intercept") /\ ~IsIdle(t) /\ page' = page /\ ls' = ls /\ cut' = cut
    BY DEF Intercept, IsNext, tabVars
<1>2. "intercept" \in ClientSteps
    BY DEF ClientSteps
<1>3. Refusing(task[t]) /\ task[t].todo[1] = "intercept" /\ 1 \in 1..Len(task[t].todo)
    BY <1>0, <1>1, <1>2, NextRefusing
<1>4. page[t] # "login"
    BY <1>1, <1>3, RefusingHead DEF LeftInv, OnlyLogins
<1>5. Refusing(task'[t])
    BY <1>0, <1>1, <1>3, BecomesOK, GoesOK DEF Intercept
<1>6. \A u \in Tabs : u # t => task'[u] = task[u]
    BY <1>0 DEF Intercept, Goes, Becomes
<1>7. task[t].of \in Asked
    BY <1>3 DEF Refusing
<1>8. Joins(t)
    <2>1. CASE flows' = flows
        BY <2>1 DEF Joins, Pending
    <2>2. CASE ls.refresh # NoToken /\ flows' = Started(flows, Refresh(t, task[t].of))
        <3>1. Refresh(t, task[t].of) \in Flow /\ Refresh(t, task[t].of).tab = t
            BY <1>0, <1>7, <2>2, RefreshOK
        <3>2. Pending' = Pending \cup {Refresh(t, task[t].of)}
            BY <2>2, <3>1, StartedOK DEF Pending, TypeInv
        <3>. QED
            BY <1>4, <3>1, <3>2 DEF Joins
    <2>. QED
        BY <2>1, <2>2 DEF Intercept
<1>9. OnlyLogins'
    BY <1>1, <1>4, <1>6, <1>8 DEF LeftInv, OnlyLogins, Joins, IsIdle, Storing
<1>10. TokenHasTab'
    BY <1>1, <1>4 DEF TokenHasTab
<1>11. FirstWriteStands'
    <2>1. ~IsNext(t, "storeRefresh")'
        BY <1>5, RefusingHead DEF IsNext, IsIdle, ClientSteps
    <2>. QED
        BY <1>1, <1>6, <2>1 DEF LeftInv, FirstWriteStands, IsNext, IsIdle
<1>12. RefreshGoes'
    <2>1. ~IsNext(t, "removeRefresh")
        BY <1>1 DEF IsNext
    <2>. QED
        BY <1>1, <1>6, <2>1 DEF LeftInv, RefreshGoes, IsNext, IsIdle
<1>. QED
    BY <1>9, <1>10, <1>11, <1>12 DEF LeftInv

(* A step of logout(): its task goes on, and shows no login form.            *)
LEMMA RefusingGoes ==
    ASSUME TypeInv, LeftInv, NEW t \in Tabs, NEW step \in ClientSteps, IsNext(t, step), Goes(t)
    PROVE  /\ page[t] # "login"
           /\ Refusing(task[t]) /\ Refusing(task'[t])
           /\ task'[t].todo = Tail(task[t].todo)
           /\ \A u \in Tabs : u # t => task'[u] = task[u]
           /\ step = "removeToken" => IsNext(t, "removeRefresh")'
<1>0. TasksOK /\ task \in [Tabs -> Task] /\ \A u \in Tabs : TaskOK(task[u])
    BY DEF TypeInv, TasksOK
<1>1. ~IsIdle(t)
    BY DEF IsNext
<1>2. /\ Refusing(task[t]) /\ task[t].todo[1] = step /\ task[t].todo # <<>>
      /\ Len(task[t].todo) \in Nat /\ 1 \in 1..Len(task[t].todo)
    BY <1>0, NextRefusing
<1>3. page[t] # "login"
    BY <1>1, <1>2, RefusingHead DEF LeftInv, OnlyLogins
<1>4. Refusing(task'[t])
    BY <1>0, <1>1, <1>2, GoesOK
<1>5. /\ Tail(task[t].todo) \in Seq(ClientSteps)
      /\ Len(Tail(task[t].todo)) = Len(task[t].todo) - 1
      /\ \A i \in 1..Len(task[t].todo) - 1 : Tail(task[t].todo)[i] = task[t].todo[i + 1]
    BY <1>0, <1>2, RefusingTail
<1>6. /\ task'[t].todo = Tail(task[t].todo)
      /\ \A u \in Tabs : u # t => task'[u] = task[u]
    BY <1>0, <1>5, ClientStepKinds, GoesTail
<1>7. ASSUME step = "removeToken" PROVE IsNext(t, "removeRefresh")'
    <2>1. 2 \in 1..Len(task[t].todo) /\ task[t].todo[2] = "removeRefresh"
        BY <1>2, <1>7 DEF Refusing
    <2>2. Len(Tail(task[t].todo)) > 0 /\ Tail(task[t].todo)[1] = "removeRefresh"
        BY <1>2, <1>5, <2>1
    <2>3. \A s \in Seq(ClientSteps) : Len(s) > 0 => s # <<>> /\ Head(s) = s[1]
        OBVIOUS
    <2>4. Tail(task[t].todo) # <<>> /\ Head(Tail(task[t].todo)) = "removeRefresh"
        BY <1>5, <2>2, <2>3
    <2>. QED
        BY <1>6, <2>4 DEF IsNext, IsIdle
<1>. QED
    BY <1>2, <1>3, <1>4, <1>6, <1>7

LEMMA LeftRemoveToken ==
    ASSUME TypeInv, LeftInv, NEW t \in Tabs, RemoveToken(t)
    PROVE  LeftInv'
<1>1. IsNext(t, "removeToken") /\ Goes(t) /\ page' = page /\ flows' = flows
    BY DEF RemoveToken
<1>2. "removeToken" \in ClientSteps
    BY DEF ClientSteps
<1>3. /\ page[t] # "login" /\ Refusing(task'[t]) /\ IsNext(t, "removeRefresh")'
      /\ \A u \in Tabs : u # t => task'[u] = task[u]
    BY <1>1, <1>2, RefusingGoes
<1>4. OnlyLogins'
    BY <1>1, <1>3 DEF LeftInv, OnlyLogins, Pending, IsIdle, Storing
<1>5. ls'.token = NoToken
    BY DEF RemoveToken, TypeInv, ClientOK
<1>6. FirstWriteStands'
    <2>1. ~IsNext(t, "storeRefresh")'
        BY <1>3, RefusingHead DEF IsNext, IsIdle, ClientSteps
    <2>2. ASSUME NEW u \in Tabs, u # t, IsNext(u, "storeRefresh")' PROVE task'[u].pair \in cut'
        <3>1. task'[u] = task[u] /\ IsNext(u, "storeRefresh")
            BY <1>3, <2>2 DEF IsNext, IsIdle
        <3>. QED
            BY <3>1 DEF RemoveToken
    <2>. QED
        BY <2>1, <2>2 DEF FirstWriteStands
<1>. QED
    BY <1>3, <1>4, <1>5, <1>6 DEF LeftInv, TokenHasTab, RefreshGoes

LEMMA LeftRemoveRefresh ==
    ASSUME TypeInv, LeftInv, NEW t \in Tabs, RemoveRefresh(t)
    PROVE  LeftInv'
<1>1. /\ IsNext(t, "removeRefresh") /\ Goes(t) /\ flows' = flows /\ cut' = cut
      /\ page' = [page EXCEPT ![t] = "leaving"]
    BY DEF RemoveRefresh
<1>2. "removeRefresh" \in ClientSteps
    BY DEF ClientSteps
<1>3. /\ Refusing(task'[t])
      /\ \A u \in Tabs : u # t => task'[u] = task[u]
    BY <1>1, <1>2, RefusingGoes
<1>4. page \in [Tabs -> PageKinds]
    BY DEF TypeInv, ClientOK
<1>5. page'[t] # "login" /\ \A u \in Tabs : u # t => page'[u] = page[u]
    BY <1>1, <1>4
<1>6. ls'.refresh = NoToken /\ ls'.token = ls.token
    BY DEF RemoveRefresh, TypeInv, ClientOK
<1>7. OnlyLogins'
    BY <1>1, <1>3, <1>5 DEF LeftInv, OnlyLogins, Pending, IsIdle, Storing
<1>8. FirstWriteStands'
    <2>1. ~IsNext(t, "storeRefresh")'
        BY <1>3, RefusingHead DEF IsNext, IsIdle, ClientSteps
    <2>. QED
        BY <1>1, <1>3, <1>6, <2>1 DEF LeftInv, FirstWriteStands, IsNext, IsIdle
<1>. QED
    BY <1>5, <1>6, <1>7, <1>8 DEF LeftInv, TokenHasTab, RefreshGoes

LEMMA LeftStoreToken ==
    ASSUME TypeInv, LeftInv, NEW t \in Tabs, StoreToken(t)
    PROVE  LeftInv'
<1>0. TasksOK /\ task \in [Tabs -> Task] /\ \A u \in Tabs : TaskOK(task[u])
    BY DEF TypeInv, TasksOK
<1>1. IsNext(t, "storeToken") /\ Goes(t) /\ page' = page /\ flows' = flows
    BY DEF StoreToken, tabVars
<1>2. "storeToken" \in StoreSteps
    BY DEF StoreSteps
<1>3. task[t].pair \in Pairs /\ task[t].todo = <<"storeToken", "storeRefresh">>
    BY <1>0, <1>1, <1>2, NextStoring
<1>4. Tail(task[t].todo) = <<"storeRefresh">>
    BY <1>3, StoreTails
<1>5. /\ task'[t].todo = <<"storeRefresh">> /\ task'[t].pair = task[t].pair
      /\ \A u \in Tabs : u # t => task'[u] = task[u]
    <2>1. <<"storeRefresh">> # <<>>
        OBVIOUS
    <2>. QED
        BY <1>0, <1>1, <1>4, <2>1, GoesTail, StoreSequences
<1>6. Storing(task'[t])
    BY <1>3, <1>5 DEF Storing
<1>7. ls'.token # NoToken
    BY <1>3 DEF StoreToken, TypeInv, ClientOK, Pairs, NoToken
<1>8. OnlyLogins'
    BY <1>1, <1>5, <1>6 DEF LeftInv, OnlyLogins, Pending, IsIdle, Storing
<1>9. TokenHasTab'
    <2>1. ~IsIdle(t)'
        BY <1>5 DEF IsIdle
    <2>. QED
        BY <2>1 DEF TokenHasTab
<1>. QED
    BY <1>7, <1>8, <1>9 DEF LeftInv, FirstWriteStands, RefreshGoes

LEMMA LeftStoreRefresh ==
    ASSUME TypeInv, LeftInv, NEW t \in Tabs, StoreRefresh(t)
    PROVE  LeftInv'
<1>0. TasksOK /\ task \in [Tabs -> Task] /\ \A u \in Tabs : TaskOK(task[u])
    BY DEF TypeInv, TasksOK
<1>1. /\ IsNext(t, "storeRefresh") /\ Goes(t) /\ flows' = flows /\ cut' = cut
      /\ page' = [page EXCEPT ![t] = IF @ = "login" THEN "app" ELSE @]
    BY DEF StoreRefresh
<1>2. "storeRefresh" \in StoreSteps
    BY DEF StoreSteps
<1>3. task[t].todo = <<"storeRefresh">>
    BY <1>0, <1>1, <1>2, NextStoring
<1>4. Tail(task[t].todo) = <<>>
    BY <1>3, StoreTails
<1>5. /\ task'[t].todo = <<>>
      /\ \A u \in Tabs : u # t => task'[u] = task[u]
    BY <1>0, <1>1, <1>4, GoesTail, StoreSequences
<1>6. page \in [Tabs -> PageKinds]
    BY DEF TypeInv, ClientOK
<1>7. page'[t] # "login" /\ \A u \in Tabs : u # t => page'[u] = page[u]
    BY <1>1, <1>6
<1>8. ls'.token = ls.token /\ ls'.refresh = task[t].pair
    BY DEF StoreRefresh, TypeInv, ClientOK
<1>9. OnlyLogins'
    BY <1>1, <1>5, <1>7 DEF LeftInv, OnlyLogins, Pending, IsIdle, Storing
<1>10. FirstWriteStands'
    BY <1>1, <1>5, <1>8 DEF LeftInv, FirstWriteStands, IsNext, IsIdle
<1>11. RefreshGoes'
    BY <1>1, <1>8 DEF LeftInv, FirstWriteStands, RefreshGoes
<1>. QED
    BY <1>7, <1>9, <1>10, <1>11 DEF LeftInv, TokenHasTab

LEMMA LeftTabStep ==
    ASSUME TypeInv, LeftInv, NEW t \in Tabs,
           \/ TakeStep(t)
           \/ Load(t)
           \/ \E kind \in {"data", "forbidden", "ws"} : Ask(t, kind)
           \/ UserLogout(t)
           \/ Submit(t)
    PROVE  LeftInv'
<1>1. CASE TakeStep(t)
    BY <1>1, LeftIntercept, LeftRemoveToken, LeftRemoveRefresh, LeftStoreToken, LeftStoreRefresh
       DEF TakeStep
<1>2. CASE Load(t)
    <2>1. IsIdle(t) /\ task' = task /\ ls' = ls /\ cut' = cut
        BY <1>2 DEF Load
    <2>2. /\ page'[t] = IF ls.token = NoToken THEN "login" ELSE "app"
          /\ \A u \in Tabs : u # t => page'[u] = page[u]
        BY <1>2 DEF Load, TypeInv, ClientOK
    <2>3. \A f \in Pending' : f \in Pending /\ f.tab # t
        BY <1>2 DEF Load, Pending
    <2>4. OnlyLogins'
        BY <2>1, <2>2, <2>3 DEF LeftInv, OnlyLogins, IsIdle, Storing
    <2>5. TokenHasTab'
        BY <2>1, <2>2 DEF TokenHasTab
    <2>6. FirstWriteStands' /\ RefreshGoes'
        BY <2>1 DEF LeftInv, FirstWriteStands, RefreshGoes, IsNext, IsIdle
    <2>. QED
        BY <2>4, <2>5, <2>6 DEF LeftInv
<1>3. ASSUME NEW kind \in {"data", "forbidden", "ws"}, Ask(t, kind) PROVE LeftInv'
    <2>1. PICK bearer : flows' = Started(flows, Request(t, kind, bearer, NoToken, asked + 1))
        BY <1>3 DEF Ask
    <2>2. page[t] # "login"
        BY <1>3 DEF Ask
    <2>3. Pending' = Pending \cup {Request(t, kind, bearer, NoToken, asked + 1)}
        BY <2>1 DEF Started, Pending
    <2>4. Joins(t)
        BY <2>2, <2>3 DEF Joins, Request
    <2>. QED
        BY <1>3, <2>4, LeftKeeps DEF Ask, tabVars
<1>4. CASE UserLogout(t)
    <2>1. page[t] # "login" /\ IsIdle(t) /\ Begins(t, Logout, 0, NoToken)
        BY <1>4 DEF UserLogout
    <2>2. page' = page /\ ls' = ls /\ cut' = cut /\ Joins(t)
        BY <1>4 DEF UserLogout, tabVars, Joins, Pending
    <2>. QED
        BY <2>1, <2>2, FirstSteps, LeftBegins DEF TypeInv
<1>5. CASE Submit(t)
    <2>1. Pending' = Pending \cup {Request(t, "login", NoToken, NoToken, 0)}
        BY <1>5 DEF Submit, Started, Pending
    <2>2. Joins(t)
        BY <2>1 DEF Joins, Request
    <2>. QED
        BY <1>5, <2>2, LeftKeeps DEF Submit, tabVars
<1>. QED
    BY <1>1, <1>2, <1>3, <1>4, <1>5

LEMMA LeftAnswer ==
    ASSUME TypeInv, LeftInv, NEW f \in Pending, Answer(f)
    PROVE  LeftInv'
<1>0. TasksOK /\ FlowsOK(flows) /\ ClientOK
    BY DEF TypeInv
<1>1. /\ f \in DOMAIN flows /\ f.tab \in Tabs
      /\ f.kind \notin {"login", "logintype"} => f.of \in Asked
      /\ f.kind \in {"login", "logintype"} => f.of = 0
      /\ f.kind \in {"type", "logintype"} => f.arg \in Pairs
    BY <1>0, FlowOf
<1>2. f.of \in Asked => page[f.tab] # "login"
    BY <1>1 DEF LeftInv, OnlyLogins, Asked
<1>3. IsIdle(f.tab) /\ ls' = ls /\ cut' = cut
    BY DEF Answer
<1>4. FlowsOK(Done(f)) /\ DOMAIN Done(f) \subseteq Pending
    BY <1>0, <1>1, DoneOK DEF Pending
<1>5. flows' = Done(f) => Joins(f.tab)
    BY <1>4 DEF Joins, Pending
<1>6. ASSUME NEW g, flows' = Started(Done(f), g), g.tab = f.tab, g.of = f.of, f.of \in Asked \cup {0}
      PROVE  Joins(f.tab)
    <2>1. Pending' \subseteq Pending \cup {g}
        BY <1>4, <1>6 DEF Pending, Started
    <2>2. page[f.tab] = "login" => g.of = 0
        BY <1>2, <1>6
    <2>. QED
        BY <1>6, <2>1, <2>2 DEF Joins
<1>7. CASE AnswerData(f)
    <2>1. page[f.tab] # "login" /\ page' = page
        BY <1>1, <1>2, <1>7 DEF AnswerData, tabVars
    <2>2. Joins(f.tab)
        BY <1>5, <1>7 DEF AnswerData
    <2>. QED
        BY <1>0, <1>1, <1>3, <1>7, <2>1, <2>2, FirstSteps, LeftBegins, LeftKeeps DEF AnswerData
<1>8. CASE AnswerWs(f)
    <2>1. page[f.tab] # "login" /\ page' = page /\ f.of \in Asked
        BY <1>1, <1>2, <1>8 DEF AnswerWs, tabVars
    <2>2. CASE flows' = Done(f)
        BY <1>0, <1>1, <1>3, <1>5, <1>8, <2>1, <2>2, FirstSteps, LeftBegins, LeftKeeps DEF AnswerWs
    <2>3. CASE flows' = Started(Done(f), Refresh(f.tab, f.of)) /\ UNCHANGED task
        <3>1. Refresh(f.tab, f.of).tab = f.tab /\ Refresh(f.tab, f.of).of = f.of
            BY DEF Refresh, Request
        <3>2. Joins(f.tab)
            BY <1>6, <2>1, <2>3, <3>1
        <3>. QED
            BY <1>1, <1>3, <2>1, <2>3, <3>2, LeftKeeps
    <2>. QED
        BY <1>8, <2>2, <2>3 DEF AnswerWs
<1>9. CASE AnswerRefresh(f)
    <2>1. page[f.tab] # "login" /\ page' = page /\ f.of \in Asked
        BY <1>1, <1>2, <1>9 DEF AnswerRefresh, tabVars
    <2>2. CASE Refused(f)
        BY <1>0, <1>1, <1>3, <1>5, <1>9, <2>1, <2>2, FirstSteps, LeftBegins DEF AnswerRefresh
    <2>3. CASE ~Refused(f)
        <3>1. flows' = Started(Done(f), Request(f.tab, "type", NoToken, issued + 1, f.of)) /\ task' = task
            BY <1>9, <2>3 DEF AnswerRefresh
        <3>2. Joins(f.tab)
            BY <1>6, <2>1, <3>1 DEF Request
        <3>. QED
            BY <1>1, <1>3, <2>1, <3>1, <3>2, LeftKeeps
    <2>. QED
        BY <2>2, <2>3
<1>10. CASE AnswerLogin(f)
    <2>1. page' = page /\ task' = task /\ f.of = 0
        BY <1>1, <1>10 DEF AnswerLogin, tabVars
    <2>2. Joins(f.tab)
        <3>1. CASE flows' = Done(f)
            BY <1>5, <3>1
        <3>2. CASE flows' = Started(Done(f), Request(f.tab, "logintype", NoToken, issued + 1, 0))
            BY <1>6, <2>1, <3>2 DEF Request
        <3>. QED
            BY <1>10, <3>1, <3>2 DEF AnswerLogin
    <2>. QED
        BY <1>1, <1>3, <2>1, <2>2, LeftKeeps
<1>11. CASE AnswerType(f)
    <2>1. page' = page /\ Begins(f.tab, <<"storeToken", "storeRefresh">>, 0, f.arg) /\ f.arg \in Pairs
        BY <1>1, <1>11 DEF AnswerType, tabVars
    <2>2. Joins(f.tab)
        BY <1>5, <1>11 DEF AnswerType
    <2>3. Storing(task'[f.tab])
        BY <1>0, <1>1, <2>1 DEF Begins, TasksOK, Storing
    <2>. QED
        BY <1>0, <1>1, <1>3, <2>1, <2>2, <2>3, FirstSteps, LeftBegins
<1>. QED
    BY <1>7, <1>8, <1>9, <1>10, <1>11 DEF Answer

LEMMA LeftLost ==
    ASSUME TypeInv, LeftInv, NEW f \in Pending, Lost(f)
    PROVE  LeftInv'
<1>0. TasksOK /\ FlowsOK(flows)
    BY DEF TypeInv
<1>1. /\ f \in DOMAIN flows /\ f.tab \in Tabs
      /\ f.kind \notin {"login", "logintype"} => f.of \in Asked
    BY <1>0, FlowOf
<1>2. IsIdle(f.tab) /\ ls' = ls /\ cut' = cut /\ page' = page
    BY DEF Lost, tabVars
<1>3. Joins(f.tab)
    BY <1>0, <1>1, DoneOK DEF Lost, Joins, Pending
<1>4. f.kind \in {"refresh", "type"} => page[f.tab] # "login"
    BY <1>1 DEF LeftInv, OnlyLogins, Asked
<1>. QED
    BY <1>0, <1>1, <1>2, <1>3, <1>4, FirstSteps, LeftBegins, LeftKeeps DEF Lost

LEMMA LeftNext == ASSUME TypeInv, LeftInv, [Next]_vars PROVE LeftInv'
<1>0. PICK t \in Tabs : TRUE
    BY TabsAssumption
<1>1. ASSUME NEW p \in Pairs, Expire(p) PROVE LeftInv'
    BY <1>0, <1>1, LeftKeeps DEF Expire, tabVars, Joins, Pending
<1>2. CASE UNCHANGED vars
    BY <1>0, <1>2, LeftKeeps DEF vars, tabVars, Joins, Pending
<1>. QED
    BY <1>1, <1>2, LeftTabStep, LeftAnswer, LeftLost DEF Next

LEMMA LeftInit == Init => LeftInv
<1>. SUFFICES ASSUME Init PROVE LeftInv
    OBVIOUS
<1>1. PICK t \in Tabs : TRUE
    BY TabsAssumption
<1>2. \A u \in Tabs : IsIdle(u)
    BY DEF Init, IsIdle, Idle
<1>3. page[t] = "login" => ls.token = NoToken
    BY DEF Init
<1>4. ls.token = NoToken => ls.refresh = NoToken
    BY DEF Init, NoPair, NoToken
<1>5. Pending = {}
    BY DEF Init, Pending
<1>. QED
    BY <1>1, <1>2, <1>3, <1>4, <1>5
       DEF LeftInv, OnlyLogins, TokenHasTab, FirstWriteStands, RefreshGoes, IsNext

(* However many tabs there are, and however their accesses to localStorage   *)
(* alternate: when all of them show the login form and run nothing, there is *)
(* no auth_token, and no refresh_token but of a pair that a logout() of      *)
(* another tab has cut in two.                                               *)
THEOREM NoTokenIsLeft == Spec => []NothingLeftBehind
<1>1. TypeInv /\ LeftInv /\ [Next]_vars => LeftInv'
    BY LeftNext
<1>. QED
    BY <1>1, LeftInit, LeftImplies, TypeInvariant, PTL DEF Spec

-----------------------------------------------------------------------------
(* RequestsDoNotMultiply. *)

(* There is one request at most of each number.                              *)
Single(q) ==
    \A f \in DOMAIN q : f.of # 0 =>
      q[f] = 1 /\ \A g \in DOMAIN q : g.of = f.of => g = f

LEMMA SingleImplies == Single(flows) => RequestsDoNotMultiply
BY DEF Single, RequestsDoNotMultiply, Pending

LEMMA SingleStarted ==
    ASSUME NEW q, Single(q), NEW g, g.of = 0 \/ \A h \in DOMAIN q : h.of # g.of
    PROVE  Single(Started(q, g))
<1>1. /\ DOMAIN Started(q, g) = DOMAIN q \cup {g}
      /\ \A f \in DOMAIN q \cup {g} :
           Started(q, g)[f] = (IF f \in DOMAIN q THEN q[f] ELSE 0) + (IF f = g THEN 1 ELSE 0)
    BY DEF Started
<1>2. ASSUME NEW f \in DOMAIN q \cup {g}, f.of # 0
      PROVE  /\ Started(q, g)[f] = 1
             /\ \A h \in DOMAIN q \cup {g} : h.of = f.of => h = f
    <2>1. CASE f = g
        <3>1. g \notin DOMAIN q
            BY <1>2, <2>1
        <3>2. Started(q, g)[f] = 0 + 1
            BY <1>1, <2>1, <3>1
        <3>. QED
            BY <1>2, <2>1, <3>2
    <2>2. CASE f # g
        <3>1. f \in DOMAIN q /\ q[f] = 1 /\ \A h \in DOMAIN q : h.of = f.of => h = f
            BY <1>2, <2>2 DEF Single
        <3>2. Started(q, g)[f] = 1 + 0
            BY <1>1, <2>2, <3>1
        <3>3. g.of # f.of
            BY <1>2, <3>1
        <3>. QED
            BY <3>1, <3>2, <3>3
    <2>. QED
        BY <2>1, <2>2
<1>. QED
    BY <1>1, <1>2 DEF Single

LEMMA SingleDone ==
    ASSUME FlowsOK(flows), Single(flows), NEW f \in DOMAIN flows
    PROVE  /\ Single(Done(f)) /\ DOMAIN Done(f) \subseteq DOMAIN flows
           /\ f.of # 0 => \A g \in DOMAIN Done(f) : g.of # f.of
<1>1. CASE flows[f] = 1
    <2>1. /\ DOMAIN Done(f) = DOMAIN flows \ {f}
          /\ \A g \in DOMAIN flows \ {f} : Done(f)[g] = flows[g]
        BY <1>1 DEF Done
    <2>. QED
        BY <2>1 DEF Single
<1>2. CASE flows[f] # 1
    <2>1. f.of = 0
        BY <1>2 DEF Single
    <2>2. /\ DOMAIN Done(f) = DOMAIN flows
          /\ \A g \in DOMAIN flows : g # f => Done(f)[g] = flows[g]
        BY <1>2 DEF Done
    <2>. QED
        BY <2>1, <2>2 DEF Single
<1>. QED
    BY <1>1, <1>2

(* A task that may start a refresh: an interceptor is to come, and the       *)
(* request is not marked.                                                    *)
MayStart(k) == k.retry = FALSE /\ \E i \in 1..Len(k.todo) : k.todo[i] = "intercept"

(* The numbers are those of requests that were sent; and a request whose     *)
(* refusal may start a refresh is neither in flight nor refused elsewhere.   *)
Numbered ==
    /\ \A f \in Pending : f.of <= asked
    /\ \A t \in Tabs : MayStart(task[t]) => task[t].of \in 1..asked

MarkInv ==
    /\ Numbered
    /\ Single(flows)
    /\ \A t \in Tabs : MayStart(task[t]) =>
         /\ \A f \in Pending : f.of # task[t].of
         /\ \A u \in Tabs : u # t /\ MayStart(task[u]) => task[u].of # task[t].of

(* The tasks that may start a refresh become no more.                        *)
NoNewStart ==
    \A t \in Tabs : MayStart(task'[t]) => MayStart(task[t]) /\ task'[t].of = task[t].of

LEMMA SameTasks == ASSUME task' = task PROVE NoNewStart
BY DEF NoNewStart

LEMMA IdleStarts == ~MayStart(Idle)
<1>1. Idle.todo = <<>> /\ Len(<<>>) = 0
    BY DEF Idle
<1>. QED
    BY <1>1 DEF MayStart

(* A marked task, one without an interceptor, and one that goes on.          *)
LEMMA MarkedStarts ==
    ASSUME TasksOK, NEW t \in Tabs, NEW steps, Becomes(t, steps, TRUE)
    PROVE  NoNewStart /\ ~MayStart(task'[t])
<1> DEFINE left == steps \o Tail(task[t].todo)
           j == [task[t] EXCEPT !.todo = left, !.retry = TRUE]
           k == IF left = <<>> THEN Idle ELSE j
<1>1. task' = [task EXCEPT ![t] = k]
    BY DEF Becomes
<1>2. task[t] \in Task
    BY DEF TasksOK
<1>3. j.retry = TRUE
    BY <1>2 DEF Task
<1>4. ~MayStart(j)
    BY <1>3 DEF MayStart
<1>5. ~MayStart(Idle)
    BY IdleStarts
<1>6. ~MayStart(k)
    BY <1>4, <1>5
<1>. HIDE DEF k
<1>. QED
    BY <1>1, <1>6 DEF NoNewStart, TasksOK

LEMMA GoesStarts ==
    ASSUME TasksOK, NEW t \in Tabs, ~IsIdle(t), Goes(t)
    PROVE  NoNewStart
<1> DEFINE left == <<>> \o Tail(task[t].todo)
           j == [task[t] EXCEPT !.todo = left, !.retry = task[t].retry]
           k == IF left = <<>> THEN Idle ELSE j
<1>1. task' = [task EXCEPT ![t] = k]
    BY DEF Goes, Becomes
<1>2. task[t] \in Task
    BY DEF TasksOK
<1>3. j.todo = left /\ j.of = task[t].of /\ j.retry = task[t].retry
    BY <1>2 DEF Task
<1>4. task[t].todo \in Seq(StepKinds) /\ task[t].todo # <<>>
    BY <1>2 DEF Task, IsIdle
<1>5. /\ Tail(task[t].todo) \in Seq(StepKinds)
      /\ Len(Tail(task[t].todo)) = Len(task[t].todo) - 1 /\ Len(task[t].todo) \in Nat
      /\ \A i \in 1..Len(task[t].todo) - 1 : Tail(task[t].todo)[i] = task[t].todo[i + 1]
    BY <1>4
<1>6. left = Tail(task[t].todo)
    BY <1>5, ConcatEmptySeq
<1>. HIDE DEF left
<1>7. MayStart(j) => MayStart(task[t])
    <2>. HIDE DEF j
    <2>1. ASSUME NEW i \in 1..Len(j.todo), j.todo[i] = "intercept"
          PROVE  \E n \in 1..Len(task[t].todo) : task[t].todo[n] = "intercept"
        <3>1. i + 1 \in 1..Len(task[t].todo) /\ task[t].todo[i + 1] = "intercept"
            BY <1>3, <1>5, <1>6, <2>1
        <3>. QED
            BY <3>1
    <2>. QED
        BY <1>3, <2>1 DEF MayStart
<1>8. ~MayStart(Idle)
    BY IdleStarts
<1>. HIDE DEF j
<1>9. MayStart(k) => MayStart(task[t]) /\ k.of = task[t].of
    BY <1>3, <1>7, <1>8
<1>. HIDE DEF k
<1>. QED
    BY <1>1, <1>9 DEF NoNewStart, TasksOK

LEMMA BeginsStarts ==
    ASSUME TasksOK, NEW t \in Tabs, NEW todo, NEW of, NEW pair, Begins(t, todo, of, pair),
           todo = Logout \/ todo = <<"storeToken", "storeRefresh">>
    PROVE  NoNewStart
<1>1. task'[t].todo = todo /\ \A u \in Tabs : u # t => task'[u] = task[u]
    BY DEF Begins, TasksOK
<1>2. \A i \in 1..Len(Logout) : Logout[i] # "intercept"
    BY LogoutSteps
<1>3. \A i \in 1..Len(<<"storeToken", "storeRefresh">>) :
        <<"storeToken", "storeRefresh">>[i] # "intercept"
    OBVIOUS
<1>4. ~MayStart(task'[t])
    BY <1>1, <1>2, <1>3 DEF MayStart
<1>. QED
    BY <1>1, <1>4 DEF NoNewStart

(* A step that only ends requests; that passes one on; that refuses one;     *)
(* and that starts one in the place of a refusal.                            *)
LEMMA MarkEnds ==
    ASSUME MarkInv, NoNewStart, asked' = asked, Single(flows'), DOMAIN flows' \subseteq DOMAIN flows
    PROVE  MarkInv'
BY DEF MarkInv, Numbered, NoNewStart, Pending

LEMMA MarkPasses ==
    ASSUME FlowsOK(flows), MarkInv, NoNewStart, asked' = asked,
           NEW f \in DOMAIN flows, NEW g, g.of = f.of, flows' = Started(Done(f), g)
    PROVE  MarkInv'
<1>1. /\ Single(Done(f)) /\ DOMAIN Done(f) \subseteq DOMAIN flows
      /\ f.of # 0 => \A h \in DOMAIN Done(f) : h.of # f.of
    BY SingleDone DEF MarkInv
<1>2. Single(flows')
    BY <1>1, SingleStarted
<1>3. Pending' \subseteq Pending \cup {g} /\ f \in Pending
    BY <1>1 DEF Pending, Started
<1>4. \A h \in Pending' : \E e \in Pending : h.of = e.of
    BY <1>3
<1>. QED
    BY <1>2, <1>4 DEF MarkInv, Numbered, NoNewStart

LEMMA MarkRefused ==
    ASSUME TasksOK, FlowsOK(flows), MarkInv, asked' = asked,
           NEW f \in DOMAIN flows, f.of \in Asked, flows' = Done(f),
           NEW t \in Tabs, NEW todo, NEW pair, Begins(t, todo, f.of, pair)
    PROVE  MarkInv'
<1>1. /\ Single(flows') /\ DOMAIN flows' \subseteq DOMAIN flows
      /\ \A h \in DOMAIN flows' : h.of # f.of
    BY SingleDone DEF MarkInv, Asked
<1>2. task'[t].of = f.of /\ \A u \in Tabs : u # t => task'[u] = task[u]
    BY DEF Begins, TasksOK
<1>3. \A u \in Tabs : MayStart(task[u]) => task[u].of # f.of
    BY DEF MarkInv, Pending
<1>4. f.of \in 1..asked
    BY DEF MarkInv, Numbered, Pending, Asked
<1>5. Numbered'
    BY <1>1, <1>2, <1>4 DEF MarkInv, Numbered, Pending
<1>6. ASSUME NEW u \in Tabs, MayStart(task'[u])
      PROVE  /\ \A h \in Pending' : h.of # task'[u].of
             /\ \A v \in Tabs : v # u /\ MayStart(task'[v]) => task'[v].of # task'[u].of
    <2>1. CASE u = t
        BY <1>1, <1>2, <1>3, <2>1 DEF Pending
    <2>2. CASE u # t
        BY <1>1, <1>2, <1>3, <1>6, <2>2 DEF MarkInv, Pending
    <2>. QED
        BY <2>1, <2>2
<1>. QED
    BY <1>1, <1>5, <1>6 DEF MarkInv

LEMMA MarkStarts ==
    ASSUME TasksOK, MarkInv, NoNewStart, asked' = asked,
           NEW t \in Tabs, MayStart(task[t]), ~MayStart(task'[t]),
           NEW g, g.of = task[t].of, flows' = Started(flows, g)
    PROVE  MarkInv'
<1>1. Pending' = Pending \cup {g}
    BY DEF Pending, Started
<1>2. \A h \in Pending : h.of # g.of
    BY DEF MarkInv
<1>3. Single(flows')
    BY <1>2, SingleStarted DEF MarkInv, Pending
<1>4. Numbered'
    BY <1>1 DEF MarkInv, Numbered, NoNewStart
<1>5. ASSUME NEW u \in Tabs, MayStart(task'[u])
      PROVE  u # t /\ MayStart(task[u]) /\ task'[u].of = task[u].of /\ g.of # task[u].of
    BY <1>5 DEF NoNewStart, MarkInv
<1>. QED
    BY <1>1, <1>3, <1>4, <1>5 DEF MarkInv

(* A request that leads to no other yet: of a login, or a new one.           *)
LEMMA MarkLogin ==
    ASSUME MarkInv, NoNewStart, asked' = asked, asked \in Nat, NEW q, Single(q),
           DOMAIN q \subseteq DOMAIN flows, NEW g, g.of = 0, flows' = Started(q, g)
    PROVE  MarkInv'
<1>1. Pending' \subseteq Pending \cup {g}
    BY DEF Pending, Started
<1>2. Single(flows')
    BY SingleStarted
<1>3. Numbered'
    BY <1>1 DEF MarkInv, Numbered, NoNewStart
<1>4. \A t \in Tabs : MayStart(task[t]) => task[t].of # 0
    BY DEF MarkInv, Numbered
<1>. QED
    BY <1>1, <1>2, <1>3, <1>4 DEF MarkInv, NoNewStart

LEMMA MarkAsk ==
    ASSUME MarkInv, NoNewStart, asked \in Nat, asked' = asked + 1, FlowsOK(flows),
           NEW g, g.of = asked + 1, flows' = Started(flows, g)
    PROVE  MarkInv'
<1>1. Pending' = Pending \cup {g}
    BY DEF Pending, Started
<1>2. \A h \in Pending : h.of \in Nat /\ h.of < asked + 1
    BY BoundsAssumption DEF MarkInv, Numbered, Pending, FlowsOK, Flow, Asked
<1>3. Single(flows')
    BY <1>2, SingleStarted DEF MarkInv, Pending
<1>4. Numbered'
    BY <1>1, <1>2 DEF MarkInv, Numbered, NoNewStart
<1>5. \A t \in Tabs : MayStart(task[t]) => task[t].of # asked + 1
    BY DEF MarkInv, Numbered
<1>. QED
    BY <1>1, <1>3, <1>4, <1>5 DEF MarkInv, NoNewStart

LEMMA MarkTabStep ==
    ASSUME TypeInv, MarkInv, NEW t \in Tabs,
           \/ TakeStep(t)
           \/ Load(t)
           \/ \E kind \in {"data", "forbidden", "ws"} : Ask(t, kind)
           \/ UserLogout(t)
           \/ Submit(t)
    PROVE  MarkInv'
<1>0. /\ TasksOK /\ FlowsOK(flows) /\ asked \in Nat
      /\ task \in [Tabs -> Task] /\ \A u \in Tabs : TaskOK(task[u])
    BY DEF TypeInv, TasksOK, RestOK
<1>1. ASSUME NoNewStart, flows' = flows, asked' = asked PROVE MarkInv'
    BY <1>1, MarkEnds DEF MarkInv
<1>2. CASE Intercept(t) /\ asked' = asked
    <2>1. IsNext(t, "intercept") /\ ~IsIdle(t)
        BY <1>2 DEF Intercept, IsNext
    <2>2. CASE Goes(t) /\ flows' = flows
        BY <1>0, <1>1, <1>2, <2>1, <2>2, GoesStarts
    <2>3. CASE Becomes(t, Logout, TRUE) /\ flows' = flows
        BY <1>0, <1>1, <1>2, <2>3, MarkedStarts
    <2>4. CASE /\ ~task[t].retry /\ Becomes(t, <<>>, TRUE)
               /\ flows' = Started(flows, Refresh(t, task[t].of))
        <3>1. task[t].retry = FALSE
            BY <1>0, <2>4, ZenonT(30) DEF Task
        <3>2. task[t].todo[1] = "intercept" /\ 1 \in 1..Len(task[t].todo)
            <4>1. "intercept" \in ClientSteps
                BY DEF ClientSteps
            <4>. QED
                BY <1>0, <2>1, <4>1, NextRefusing
        <3>3. MayStart(task[t])
            BY <3>1, <3>2 DEF MayStart
        <3>4. NoNewStart /\ ~MayStart(task'[t])
            BY <1>0, <2>4, MarkedStarts
        <3>5. Refresh(t, task[t].of).of = task[t].of
            BY DEF Refresh, Request
        <3>. QED
            BY <1>0, <1>2, <2>4, <3>3, <3>4, <3>5, MarkStarts
    <2>. QED
        BY <1>2, <2>2, <2>3, <2>4 DEF Intercept
<1>3. CASE RemoveToken(t) /\ asked' = asked
    BY <1>0, <1>1, <1>3, GoesStarts DEF RemoveToken, IsNext
<1>4. CASE RemoveRefresh(t) /\ asked' = asked
    BY <1>0, <1>1, <1>4, GoesStarts DEF RemoveRefresh, IsNext
<1>5. CASE StoreToken(t) /\ asked' = asked
    BY <1>0, <1>1, <1>5, GoesStarts DEF StoreToken, IsNext
<1>6. CASE StoreRefresh(t) /\ asked' = asked
    BY <1>0, <1>1, <1>6, GoesStarts DEF StoreRefresh, IsNext
<1>7. CASE Load(t)
    <2>1. /\ DOMAIN flows' \subseteq DOMAIN flows
          /\ \A f \in DOMAIN flows' : flows'[f] = flows[f]
        BY <1>7 DEF Load, Pending
    <2>2. Single(flows')
        BY <2>1 DEF MarkInv, Single
    <2>. QED
        BY <1>7, <2>1, <2>2, SameTasks, MarkEnds DEF Load
<1>8. ASSUME NEW kind \in {"data", "forbidden", "ws"}, Ask(t, kind) PROVE MarkInv'
    <2>1. PICK bearer : flows' = Started(flows, Request(t, kind, bearer, NoToken, asked + 1))
        BY <1>8 DEF Ask
    <2>2. Request(t, kind, bearer, NoToken, asked + 1).of = asked + 1
        BY DEF Request
    <2>. QED
        BY <1>0, <1>8, <2>1, <2>2, SameTasks, MarkAsk DEF Ask
<1>9. CASE UserLogout(t)
    BY <1>0, <1>1, <1>9, BeginsStarts DEF UserLogout
<1>10. CASE Submit(t)
    <2>1. Request(t, "login", NoToken, NoToken, 0).of = 0
        BY DEF Request
    <2>. QED
        BY <1>0, <1>10, <2>1, SameTasks, MarkLogin DEF Submit, MarkInv
<1>. QED
    BY <1>2, <1>3, <1>4, <1>5, <1>6, <1>7, <1>8, <1>9, <1>10 DEF TakeStep

LEMMA MarkAnswer ==
    ASSUME TypeInv, MarkInv, NEW f \in Pending, Answer(f)
    PROVE  MarkInv'
<1>0. TasksOK /\ FlowsOK(flows) /\ asked \in Nat /\ asked' = asked
    BY DEF TypeInv, RestOK, Answer
<1>1. /\ f \in DOMAIN flows /\ f.tab \in Tabs
      /\ f.kind \notin {"login", "logintype"} => f.of \in Asked
    BY <1>0, FlowOf
<1>2. Single(Done(f)) /\ DOMAIN Done(f) \subseteq DOMAIN flows
    BY <1>0, <1>1, SingleDone DEF MarkInv
<1>3. CASE AnswerData(f)
    <2>1. f.of \in Asked /\ flows' = Done(f)
        BY <1>1, <1>3 DEF AnswerData
    <2>2. CASE Refused(f)
        BY <1>0, <1>1, <1>3, <2>1, <2>2, MarkRefused DEF AnswerData
    <2>3. CASE ~Refused(f)
        BY <1>0, <1>2, <1>3, <2>1, <2>3, SameTasks, MarkEnds DEF AnswerData
    <2>. QED
        BY <2>2, <2>3
<1>4. CASE AnswerWs(f)
    <2>1. NoNewStart
        BY <1>0, <1>1, <1>4, SameTasks, BeginsStarts DEF AnswerWs
    <2>2. CASE flows' = Done(f)
        BY <1>0, <1>2, <2>1, <2>2, MarkEnds
    <2>3. CASE flows' = Started(Done(f), Refresh(f.tab, f.of))
        <3>1. Refresh(f.tab, f.of).of = f.of
            BY DEF Refresh, Request
        <3>. QED
            BY <1>0, <1>1, <2>1, <2>3, <3>1, MarkPasses
    <2>. QED
        BY <1>4, <2>2, <2>3 DEF AnswerWs
<1>5. CASE AnswerRefresh(f)
    <2>1. CASE Refused(f)
        <3>1. f.of \in Asked
            BY <1>1, <1>5 DEF AnswerRefresh
        <3>. QED
            BY <1>0, <1>1, <1>5, <2>1, <3>1, MarkRefused DEF AnswerRefresh
    <2>2. CASE ~Refused(f)
        <3>1. Request(f.tab, "type", NoToken, issued + 1, f.of).of = f.of
            BY DEF Request
        <3>. QED
            BY <1>0, <1>1, <1>5, <2>2, <3>1, SameTasks, MarkPasses DEF AnswerRefresh
    <2>. QED
        BY <2>1, <2>2
<1>6. CASE AnswerLogin(f)
    <2>1. NoNewStart
        BY <1>6, SameTasks DEF AnswerLogin
    <2>2. CASE flows' = Done(f)
        BY <1>0, <1>2, <2>1, <2>2, MarkEnds
    <2>3. CASE flows' = Started(Done(f), Request(f.tab, "logintype", NoToken, issued + 1, 0))
        <3>1. Request(f.tab, "logintype", NoToken, issued + 1, 0).of = 0
            BY DEF Request
        <3>. QED
            BY <1>0, <1>2, <2>1, <2>3, <3>1, MarkLogin
    <2>. QED
        BY <1>6, <2>2, <2>3 DEF AnswerLogin
<1>7. CASE AnswerType(f)
    BY <1>0, <1>1, <1>2, <1>7, BeginsStarts, MarkEnds DEF AnswerType
<1>. QED
    BY <1>3, <1>4, <1>5, <1>6, <1>7 DEF Answer

LEMMA MarkNext == ASSUME TypeInv, MarkInv, [Next]_vars PROVE MarkInv'
<1>0. TasksOK /\ FlowsOK(flows)
    BY DEF TypeInv
<1>1. ASSUME NEW f \in Pending, Lost(f) PROVE MarkInv'
    <2>1. f \in DOMAIN flows /\ f.tab \in Tabs
        BY <1>0, FlowOf
    <2>2. Single(Done(f)) /\ DOMAIN Done(f) \subseteq DOMAIN flows
        BY <1>0, <2>1, SingleDone DEF MarkInv
    <2>3. NoNewStart
        BY <1>0, <1>1, <2>1, SameTasks, BeginsStarts DEF Lost
    <2>. QED
        BY <1>1, <2>2, <2>3, MarkEnds DEF Lost
<1>2. ASSUME flows' = flows, task' = task, asked' = asked PROVE MarkInv'
    BY <1>2, SameTasks, MarkEnds DEF MarkInv
<1>3. ASSUME NEW p \in Pairs, Expire(p) PROVE MarkInv'
    BY <1>2, <1>3 DEF Expire
<1>4. CASE UNCHANGED vars
    BY <1>2, <1>4 DEF vars
<1>. QED
    BY <1>1, <1>3, <1>4, MarkTabStep, MarkAnswer DEF Next

LEMMA MarkInit == Init => MarkInv
<1>. SUFFICES ASSUME Init PROVE MarkInv
    OBVIOUS
<1>1. DOMAIN flows = {}
    BY DEF Init
<1>2. \A t \in Tabs : ~MayStart(task[t])
    <2>1. \A t \in Tabs : task[t] = Idle
        BY DEF Init
    <2>. QED
        BY <2>1, IdleStarts
<1>. QED
    BY <1>1, <1>2 DEF MarkInv, Numbered, Single, Pending

(* A refused request never becomes two: a request of a page, or of the       *)
(* websocket, has one successor in flight at most, although each refusal     *)
(* passes two interceptors and a refused refresh is refused like any other,  *)
(* because the first interceptor marks the request.                          *)
THEOREM NoRequestMultiplies == Spec => []RequestsDoNotMultiply
<1>1. TypeInv /\ MarkInv /\ [Next]_vars => MarkInv'
    BY MarkNext
<1>2. MarkInv => RequestsDoNotMultiply
    BY SingleImplies DEF MarkInv
<1>. QED
    BY <1>1, <1>2, MarkInit, TypeInvariant, PTL DEF Spec
=============================================================================
