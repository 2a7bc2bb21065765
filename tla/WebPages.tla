------------------------------ MODULE WebPages ------------------------------
(***************************************************************************)
(* visualization/web: one document of the web client.  App's routes choose *)
(* the page, the header keeps the address and the selection in step        *)
(* (WebSelection), and the pages that load their data over HTTP ask for it *)
(* through CryptolpAxios.getResponse() and keep it in containers that      *)
(* outlive them.                                                           *)
(*                                                                         *)
(* A container applies a setState() in a microtask and renders what shows  *)
(* it at once: jobs is the queue of microtasks, a "render" at its head is  *)
(* the rest of the microtask before it.  The continuation of an await      *)
(* comes a few microtasks after the setState(): conts are those that wait, *)
(* and they run in order, at any point between the other jobs.  Users,     *)
(* answers and timers are tasks: they wait until both are empty.           *)
(***************************************************************************)
EXTENDS WebSelection, FiniteSets

CONSTANTS
    Profiles,    \* the role and the client type of a user
    Typed,       \* the addresses a document may be opened with
    Texts,       \* the texts of the configuration
    BadTexts,    \* external: those that the server finds invalid
    MaxClicks,   \* bound: what users do
    MaxPending,  \* bound: requests that users do not wait for
    MaxFaults    \* bound: requests that fail or are answered with nothing

NoText == "none"

ASSUME TextsAssumption == BadTexts \subseteq Texts /\ NoText \notin Texts
ASSUME TypedAssumption ==
    Typed \subseteq [page : STRING, interval : STRING, exchange : STRING, pair : Seq(STRING)]
ASSUME BoundsAssumption == MaxClicks \in Nat /\ MaxPending \in Nat /\ MaxFaults \in Nat

VARIABLES
    who,       \* CryptolpAxios.role and clientType
    url,       \* history.location
    entry,     \* the address the document was opened with
    ex,        \* ExchangeContainer.state
    mounted,   \* the page that is mounted
    con,       \* the containers of the pages that load data
    editor,    \* Editor of the configuration: its text and its timer
    orphans,   \* the texts of timers whose Editor is gone
    item,      \* the Item of the one user in the list: is it saving?
    started,   \* CryptolpAxios.allStartedRequests
    net,       \* the bag of requests that wait for an answer or to be repeated
    jobs,      \* the microtasks
    conts,     \* the continuations that wait
    clicks, faults,
    gaveUp,    \* ghost: a request failed, or was not repeated
    strayed    \* ghost: a verdict came out of turn

pageVars == <<mounted, con, editor, orphans, item>>
netVars  == <<started, net>>
ghosts   == <<gaveUp, strayed>>
vars     == <<who, url, entry, ex, pageVars, netVars, jobs, conts, clicks, faults, ghosts>>

-----------------------------------------------------------------------------
(* The data. *)

(* Pages that ask for the selection, and pages that ask when they open.      *)
Followers == {"explanation", "plgraph", "signals"}
Openers   == {"configuration", "postponed-fills", "users"}
Loaders   == Followers \cup Openers

FirstRequest ==
    [p \in Loaders |->
        CASE p = "explanation"     -> "explanations"
          [] p = "plgraph"         -> "plGraph"
          [] p = "signals"         -> "signals"
          [] p = "configuration"   -> "config"
          [] p = "postponed-fills" -> "postponedFills"
          [] p = "users"           -> "roles"]

(* What getResponse() is called with, and the plain requests; an "oldUpdate" *)
(* is an update whose Item is gone.                                          *)
Repeated == {"supportedExchanges", "users"} \cup {FirstRequest[p] : p \in Loaders}
Plain    == {"validate", "save"}
Updates  == {"update", "oldUpdate"}

NoArg            == [exchange |-> Blank, code |-> NoCode, text |-> NoText]
SelectionArg(s)  == [NoArg EXCEPT !.exchange = s.exchangeName, !.code = s.currencyCodePair]
TextArg(text)    == [NoArg EXCEPT !.text = text]

Request(name, arg) == [name |-> name, arg |-> arg, phase |-> "sent"]
Ask(name, arg)     == [k |-> "ask", request |-> Request(name, arg)]

(* The containers.  Data is told apart by what was asked for.  A Follower    *)
(* keeps the names of its selection, which PLGraph starts with null; Signals *)
(* starts as if it were loading.  modal: is modalData set?                   *)
Null   == "null"
NoData == [NoArg EXCEPT !.exchange = Null]

clearState == [loading |-> TRUE, data |-> NoData, exchange |-> Blank, code |-> NoCode]

emptyContainer ==
    [p \in Loaders |->
        CASE p = "configuration" ->
               [loading |-> FALSE, data |-> NoData, verdict |-> NoText, saving |-> FALSE]
          [] p = "plgraph" -> [clearState EXCEPT !.loading = FALSE, !.exchange = Null]
          [] p = "signals" -> clearState
          [] p = "postponed-fills" -> [loading |-> FALSE, data |-> NoData, modal |-> FALSE]
          [] OTHER         -> [clearState EXCEPT !.loading = FALSE]]

noItem == "none"

noEditor == [on |-> FALSE, text |-> NoText, timer |-> FALSE]

Render(header) == [k |-> "render", header |-> header]

Sent(q, r) == [x \in DOMAIN q \cup {r} |-> (IF x \in DOMAIN q THEN q[x] ELSE 0) + (IF x = r THEN 1 ELSE 0)]
Gone(q, r) == IF q[r] = 1 THEN [x \in DOMAIN q \ {r} |-> q[x]] ELSE [q EXCEPT ![r] = @ - 1]

(* getResponse() before its loop, and a plain request.                       *)
Starts(name) == IF name \in Repeated THEN [started EXCEPT ![name] = TRUE] ELSE started

-----------------------------------------------------------------------------
(* A document that is opened: ExchangeContainer asks for the exchanges.      *)

Opened(u) ==
    /\ url' = u
    /\ entry' = u
    /\ ex' = emptySelection
    /\ mounted' = Blank
    /\ con' = emptyContainer
    /\ editor' = noEditor
    /\ orphans' = {}
    /\ item' = noItem
    /\ started' = [n \in Repeated |-> n = "supportedExchanges"]
    /\ net' = Sent(<<>>, Request("supportedExchanges", NoArg))
    /\ jobs' = <<Render(TRUE)>>
    /\ conts' = <<>>
    /\ gaveUp' = FALSE
    /\ strayed' = FALSE

Init ==
    /\ who \in Profiles
    /\ url \in Typed
    /\ entry = url
    /\ ex = emptySelection
    /\ mounted = Blank
    /\ con = emptyContainer
    /\ editor = noEditor
    /\ orphans = {}
    /\ item = noItem
    /\ started = [n \in Repeated |-> n = "supportedExchanges"]
    /\ net = Sent(<<>>, Request("supportedExchanges", NoArg))
    /\ jobs = <<Render(TRUE)>>
    /\ conts = <<>>
    /\ clicks = 0
    /\ faults = 0
    /\ gaveUp = FALSE
    /\ strayed = FALSE

-----------------------------------------------------------------------------
(* Rendering: the pages and the header. *)

Shown(p) == ~con[p].loading /\ con[p].data # NoData

DiffersFrom(p) == con[p].exchange # ex.exchangeName \/ con[p].code # ex.currencyCodePair

(* componentDidMount() and componentDidUpdate() of the page.                 *)
OpenerSets(p) ==
    IF p = mounted THEN <<>>
    ELSE <<Set(p, [loading |-> TRUE], Ask(FirstRequest[p], NoArg))>>

ExplanationSets ==
    IF ex.exchangeName # Blank /\ ex.currencyCodePair # NoCode /\ DiffersFrom("explanation")
    THEN <<Set("explanation",
               [loading |-> TRUE, data |-> NoData,
                exchange |-> ex.exchangeName, code |-> ex.currencyCodePair],
               Ask("explanations", SelectionArg(ex)))>>
    ELSE <<>>

PLGraphSets ==
    IF DiffersFrom("plgraph") /\ ~con["plgraph"].loading
    THEN <<Set("plgraph", [loading |-> TRUE], Ask("plGraph", SelectionArg(ex)))>>
    ELSE <<>>

SignalsSets ==
    IF ex.exchangeName # Blank /\ ex.currencyCodePair # NoCode
         /\ ~con["signals"].loading /\ DiffersFrom("signals")
    THEN <<Set("signals",
               [loading |-> TRUE, data |-> NoData,
                exchange |-> ex.exchangeName, code |-> ex.currencyCodePair],
               Ask("signals", SelectionArg(ex)))>>
    ELSE <<>>

(* Signals clears its container when it is left.                             *)
LeaveSets(p) ==
    IF mounted = "signals" /\ p # "signals" THEN <<Set("signals", clearState, NoThen)>> ELSE <<>>

PageSets(p) ==
    CASE p \in Openers       -> OpenerSets(p)
      [] p = "signals"       -> SignalsSets
      [] p = "explanation"   -> ExplanationSets
      [] p = "plgraph"       -> PLGraphSets
      [] OTHER               -> <<>>

(* stopTryingGetResponses(), which these pages call when they are left.      *)
Stopped(n) == started[n] /\ n \in {"supportedExchanges", "users", "roles"}

Unmount(p) ==
    started' = IF mounted # p /\ mounted \in {"configuration", "postponed-fills"}
               THEN [n \in Repeated |-> Stopped(n)] ELSE started

(* Editor takes the text of the container when it is mounted; its timer      *)
(* outlives it.                                                              *)
(* The mutant keeps it when the page is left.                                *)
MutShowEditor(p) ==
    /\ editor' = IF editor.on \/ p # "configuration" \/ ~Shown(p) THEN editor
                 ELSE [on |-> TRUE, text |-> con[p].data.text, timer |-> FALSE]
    /\ UNCHANGED orphans

ShowEditor(p) ==
    LET shown == p = "configuration" /\ Shown(p)
    IN  /\ editor' = IF ~shown THEN noEditor
                     ELSE IF editor.on THEN editor
                     ELSE [on |-> TRUE, text |-> con[p].data.text, timer |-> FALSE]
        /\ orphans' = IF editor.timer /\ ~shown THEN orphans \cup {editor.text} ELSE orphans

(* The Items of the list go when it is loading or left, and do not hear of   *)
(* the answers they wait for.                                                *)
Disowned(q) ==
    IF Request("update", NoArg) \in DOMAIN q
    THEN Sent(Gone(q, Request("update", NoArg)), Request("oldUpdate", NoArg)) ELSE q

ShowItem(p) ==
    LET shown == p = "users" /\ Shown(p)
    IN  /\ item' = IF ~shown THEN noItem ELSE IF item = noItem THEN "idle" ELSE item
        /\ net' = IF shown THEN net ELSE Disowned(net)

Rendering == jobs # <<>> /\ Head(jobs).k = "render"

Redirect ==
    /\ Rendering
    /\ url.page \notin Routes(who)
    /\ url' = Redirected(who)
    /\ mounted' = Blank
    /\ Unmount(Blank)
    /\ ShowEditor(Blank)
    /\ ShowItem(Blank)
    /\ jobs' = <<Render(TRUE)>> \o Tail(jobs) \o LeaveSets(Blank)
    /\ UNCHANGED <<who, entry, ex, con, conts, clicks, faults, ghosts>>

(* "/" sets window.location.                                                 *)
Home ==
    /\ Rendering
    /\ url.page = "home" /\ "home" \in Routes(who)
    /\ Opened(FrontPage)
    /\ UNCHANGED <<who, clicks, faults>>

(* The header first, whose push renders everything once more; then the page. *)
Show ==
    LET p     == url.page
        check == Head(jobs).header /\ p \in Headers(who) /\ Ready(ex)
        path  == NewPath(url, ex)
        moved == check /\ path # url
    IN  /\ Rendering
        /\ p \in Routes(who) \ {"home"}
        /\ url' = IF moved THEN path ELSE url
        /\ mounted' = p
        /\ Unmount(p)
        /\ ShowEditor(p)
        /\ ShowItem(p)
        /\ jobs' = (IF moved THEN <<Render(TRUE)>> ELSE <<>>)
                     \o Tail(jobs)
                     \o LeaveSets(p)
                     \o (IF check /\ ~moved THEN Sets(url, ex) ELSE <<>>)
                     \o PageSets(p)
        /\ UNCHANGED <<who, entry, ex, con, conts, clicks, faults, ghosts>>

-----------------------------------------------------------------------------
(* Microtasks. *)

(* setState() of unstated's Container.                                       *)
Apply ==
    LET j == Head(jobs)
    IN  /\ jobs # <<>> /\ j.k = "set"
        /\ IF j.container = "exchange"
           THEN /\ ex' = Patched(ex, j.patch)
                /\ jobs' = <<Render(TRUE)>> \o Tail(jobs)
                /\ UNCHANGED con
           ELSE /\ con' = [con EXCEPT ![j.container] = Patched(@, j.patch)]
                /\ jobs' = (IF mounted = j.container THEN <<Render(FALSE)>> ELSE <<>>) \o Tail(jobs)
                /\ UNCHANGED ex
        /\ conts' = IF j.then = NoThen THEN conts ELSE Append(conts, j.then)
        /\ UNCHANGED <<who, url, entry, mounted, editor, orphans, item, netVars, clicks, faults, ghosts>>

(* A request is sent.  The verdict on a text comes out of turn if another    *)
(* one is awaited, or if the text is not the one that is shown.              *)
Send(r) ==
    /\ net' = Sent(net, r)
    /\ started' = Starts(r.name)
    /\ strayed' = IF r.name # "validate" THEN strayed
                  ELSE r.arg.text # editor.text \/ \E x \in DOMAIN net : x.name = "validate"

(* What follows an await.                                                    *)
Continue ==
    LET c == Head(conts)
    IN  /\ conts # <<>> /\ ~Rendering
        /\ conts' = Tail(conts)
        /\ \/ /\ c.k = "ask"
              /\ Send(c.request)
              /\ UNCHANGED jobs
           \/ /\ c.k # "ask"
              /\ jobs' = jobs \o
                    CASE c.k = "selected"  -> <<Set("exchange", updateSelected(ex), NoThen)>>
                      [] c.k = "selection" -> SelectionSets(c.url, ex)
                      [] c.k = "symbol"    -> SymbolSets(c.url, ex)
              /\ UNCHANGED <<netVars, strayed>>
        /\ UNCHANGED <<who, url, entry, ex, pageVars, clicks, faults, gaveUp>>

Microtask == Redirect \/ Home \/ Show \/ Apply \/ Continue

Quiet == jobs = <<>> /\ conts = <<>>

-----------------------------------------------------------------------------
(* Answers. *)

(* What is done with the answer to r, or with the undefined of a loop that   *)
(* was stopped (NoData).                                                     *)

(* The mutant does not ask whether the answer is still wanted.               *)
MutExplanationResult(r, data) ==
    IF data # NoData THEN <<Set("explanation", [loading |-> FALSE, data |-> data], NoThen)>> ELSE <<>>

ExplanationResult(r, data) ==
    IF data # NoData /\ r.arg.exchange = con["explanation"].exchange
                    /\ r.arg.code = con["explanation"].code
    THEN <<Set("explanation", [loading |-> FALSE, data |-> data], NoThen)>> ELSE <<>>

(* The mutant does not end the loading.                                      *)
MutPLGraphResult(r, data) ==
    <<Set("plgraph", [data |-> data, exchange |-> r.arg.exchange, code |-> r.arg.code], NoThen)>>

PLGraphResult(r, data) ==
    <<Set("plgraph", [loading |-> FALSE, data |-> data,
                      exchange |-> r.arg.exchange, code |-> r.arg.code], NoThen)>>

(* loadConfig(): undefined has no field config, which is an error.           *)
ConfigResult(data) ==
    IF data = NoData THEN <<>>
    ELSE <<Set("configuration", [loading |-> FALSE, data |-> data], Ask("validate", data))>>

ListResult(p, data) == <<Set(p, [loading |-> FALSE, data |-> data], NoThen)>>

Result(r, data) ==
    CASE r.name = "supportedExchanges" -> <<Set("exchange", Loaded, [k |-> "selected"])>>
      [] r.name = "explanations"       -> ExplanationResult(r, data)
      [] r.name = "plGraph"            -> PLGraphResult(r, data)
      [] r.name = "signals"            -> ListResult("signals", data)
      [] r.name = "config"             -> ConfigResult(data)
      [] r.name = "postponedFills"     -> ListResult("postponed-fills", data)
      [] r.name = "users"              -> ListResult("users", data)
      [] r.name = "roles"              -> <<>>

(* loadUserList() asks for the users after the roles.                        *)
After(r) ==
    IF r.name = "roles"
    THEN /\ net' = Sent(Gone(net, r), Request("users", NoArg))
         /\ started' = [started EXCEPT !["roles"] = FALSE, !["users"] = TRUE]
    ELSE /\ net' = Gone(net, r)
         /\ started' = [started EXCEPT ![r.name] = FALSE]

Waiting(r, phase) == Quiet /\ r \in DOMAIN net /\ r.phase = phase

Answer(r) ==
    /\ Waiting(r, "sent") /\ r.name \in Repeated
    /\ After(r)
    /\ \E data \in IF r.name = "config" THEN {TextArg(text) : text \in Texts} ELSE {r.arg} :
         jobs' = Result(r, data)
    /\ UNCHANGED <<who, url, entry, ex, pageVars, conts, clicks, faults, ghosts>>

(* The answer has no body: delay(5000).                                      *)
AnswerEmpty(r) ==
    /\ Waiting(r, "sent") /\ r.name \in Repeated
    /\ faults < MaxFaults
    /\ faults' = faults + 1
    /\ net' = Sent(Gone(net, r), [r EXCEPT !.phase = "delay"])
    /\ UNCHANGED <<who, url, entry, ex, pageVars, started, jobs, conts, clicks, ghosts>>

(* The loop goes on, unless another answer of that name or stopLoad() has    *)
(* ended it.                                                                 *)
Repeat(r) ==
    /\ Waiting(r, "delay")
    /\ IF started[r.name]
       THEN /\ net' = Sent(Gone(net, r), [r EXCEPT !.phase = "sent"])
            /\ UNCHANGED <<started, jobs, gaveUp>>
       ELSE /\ After(r)
            /\ jobs' = Result(r, NoData)
            /\ gaveUp' = TRUE
    /\ UNCHANGED <<who, url, entry, ex, pageVars, conts, clicks, faults, strayed>>

(* The verdict on a text, and the end of saving it.                          *)
PlainResult(r) ==
    <<Set("configuration",
          IF r.name = "save" THEN [saving |-> FALSE] ELSE [verdict |-> r.arg.text], NoThen)>>

AnswerPlain(r) ==
    /\ Waiting(r, "sent") /\ r.name \in Plain
    /\ net' = Gone(net, r)
    /\ jobs' = PlainResult(r)
    /\ UNCHANGED <<who, url, entry, ex, pageVars, started, conts, clicks, faults, ghosts>>

(* An update is put: the Item ends its submitting, if it is still there.     *)
AnswerUpdate(r) ==
    /\ Waiting(r, "sent") /\ r.name \in Updates
    /\ net' = Gone(net, r)
    /\ item' = IF r.name = "update" THEN "idle" ELSE item
    /\ UNCHANGED <<who, url, entry, ex, mounted, con, editor, orphans, started, jobs, conts,
                   clicks, faults, ghosts>>

(* A request that fails: only saveConfig() goes on after it.                 *)
Fail(r) ==
    /\ Waiting(r, "sent")
    /\ faults < MaxFaults
    /\ faults' = faults + 1
    /\ net' = Gone(net, r)
    /\ jobs' = IF r.name = "save" THEN PlainResult(r) ELSE <<>>
    /\ gaveUp' = TRUE
    /\ UNCHANGED <<who, url, entry, ex, pageVars, started, conts, clicks, strayed>>

-----------------------------------------------------------------------------
(* Users and timers. *)

UserAct ==
    /\ Quiet
    /\ Cardinality(DOMAIN net) <= MaxPending
    /\ clicks < MaxClicks
    /\ clicks' = clicks + 1

Links == NavLinks(who, ex)
           \cup (IF mounted \in Headers(who) THEN ExchangeLinks(mounted, ex) \cup SymbolLinks(mounted, ex) ELSE {})

Go(u) ==
    /\ url' = u
    /\ jobs' = <<Render(TRUE)>>
    /\ UNCHANGED <<who, entry, ex, pageVars, netVars, conts, faults, ghosts>>

(* The modal of a postponed fill, which lies over the links.                 *)
ModalShown == mounted = "postponed-fills" /\ Shown(mounted) /\ con[mounted].modal

Click(u) == UserAct /\ ~ModalShown /\ Go(u)

(* Back to the first address of the document.                                *)
Back == UserAct /\ url # entry /\ Go(entry)

Open(u) == UserAct /\ Opened(u) /\ UNCHANGED <<who, faults>>

onChangeText(text) ==
    /\ UserAct /\ editor.on
    /\ editor' = [editor EXCEPT !.text = text, !.timer = TRUE]
    /\ UNCHANGED <<who, url, entry, ex, mounted, con, orphans, item, netVars, jobs, conts, faults, ghosts>>

(* Save: LaddaButton, and saveConfig().                                      *)
saveConfig ==
    /\ UserAct /\ editor.on
    /\ con["configuration"].verdict \notin BadTexts
    /\ ~con["configuration"].saving
    /\ jobs' = <<Set("configuration", [saving |-> TRUE], Ask("save", TextArg(editor.text)))>>
    /\ UNCHANGED <<who, url, entry, ex, pageVars, netVars, conts, faults, ghosts>>

(* The button of a fill, or onHide: the whole state is copied and set again. *)
showModal ==
    LET state == con["postponed-fills"]
    IN  /\ UserAct /\ mounted = "postponed-fills" /\ Shown(mounted)
        /\ jobs' = <<Set("postponed-fills", [state EXCEPT !.modal = ~@], NoThen)>>
        /\ UNCHANGED <<who, url, entry, ex, pageVars, netVars, conts, faults, ghosts>>

(* The Dropdown with the roles of an Item; no property tells roles apart.    *)
CanEdit == item # noItem

updateUserRole ==
    /\ UserAct /\ CanEdit
    /\ jobs' = <<Set("users", [data |-> con["users"].data], NoThen)>>
    /\ UNCHANGED <<who, url, entry, ex, pageVars, netVars, conts, faults, ghosts>>

(* Update: LaddaButton, which is disabled while it is loading.               *)
CanSave == item = "idle"

saveUser ==
    /\ UserAct /\ CanSave
    /\ item' = "submitting"
    /\ Send(Request("update", NoArg))
    /\ UNCHANGED <<who, url, entry, ex, mounted, con, editor, orphans, jobs, conts, faults, gaveUp>>

(* runValidateTimer(): the timer of the Editor, or of one that is gone.      *)
TimerFires ==
    /\ Quiet
    /\ \/ /\ editor.timer
          /\ editor' = [editor EXCEPT !.timer = FALSE]
          /\ Send(Request("validate", TextArg(editor.text)))
          /\ UNCHANGED orphans
       \/ \E text \in orphans :
            /\ orphans' = orphans \ {text}
            /\ Send(Request("validate", TextArg(text)))
            /\ UNCHANGED editor
    /\ UNCHANGED <<who, url, entry, ex, mounted, con, item, jobs, conts, clicks, faults, gaveUp>>

User ==
    \/ \E u \in Links : Click(u)
    \/ Back
    \/ \E u \in Typed : Open(u)
    \/ \E text \in Texts : onChangeText(text)
    \/ saveConfig
    \/ showModal
    \/ updateUserRole
    \/ saveUser

Answers == \E r \in DOMAIN net : Answer(r) \/ Repeat(r) \/ AnswerPlain(r) \/ AnswerUpdate(r)

Next ==
    \/ Microtask
    \/ Answers
    \/ TimerFires
    \/ \E r \in DOMAIN net : AnswerEmpty(r) \/ Fail(r)
    \/ User

Spec == Init /\ [][Next]_vars

(* The event loop runs its microtasks, timers fire, requests are answered.   *)
FairSpec == Spec /\ WF_vars(Microtask) /\ WF_vars(TimerFires) /\ WF_vars(Answers)

-----------------------------------------------------------------------------
(* Properties. *)

Requests == [name : Repeated \cup Plain \cup Updates, phase : {"sent", "delay"},
             arg : [exchange : Exchanges \cup {Blank, All},
                    code : {NoCode, AllCode} \cup {AllSymbols[k].code : k \in DOMAIN AllSymbols},
                    text : Texts \cup {NoText}]]

TypeOK ==
    /\ who \in Profiles
    /\ ex.exchangeName \in Exchanges \cup {Blank, All}
    /\ ex.symbols \in {<<>>, AllSymbols} \cup {SymbolsOf(i) : i \in DOMAIN Catalogue}
    /\ ex.selectedSymbol \in 0..Len(AllSymbols)
    /\ mounted \in {Blank} \cup (Routes(who) \ {"home"})
    /\ editor \in [on : BOOLEAN, text : Texts \cup {NoText}, timer : BOOLEAN]
    /\ editor.on => mounted = "configuration"
    /\ orphans \subseteq Texts
    /\ item \in {noItem, "idle", "submitting"}
    /\ item # noItem => mounted = "users"
    /\ started \in [Repeated -> BOOLEAN]
    /\ DOMAIN net \subseteq Requests
    /\ clicks \in 0..MaxClicks
    /\ faults \in 0..MaxFaults

(* When the page is at rest, the address and the selection agree, whatever   *)
(* links, jumps and addresses were taken and however their setStates         *)
(* overlapped; the symbols are those of the exchange, and the record of the  *)
(* selected symbol is too, unless the pair is the first of its exchange.     *)
UrlMatchesSelection ==
    Quiet /\ mounted \in Headers(who) /\ Ready(ex) =>
        /\ url.exchange = ex.exchangeName
        /\ normalCodePair(url.pair) = ex.currencyCodePair
        /\ NeedsInterval(mounted) => url.interval = ex.interval
        /\ ex.symbols = updateSelectedExchange(ex.selectedExchange).symbols
        /\ ex.exchangeName = NameOf(ex.selectedExchange)
        /\ ex.currencyCodePair \in {AllCode, ex.symbols[1].code}
             \/ ex.symbol = ex.symbols[ex.selectedSymbol]

(* The microtasks come to an end: checkParameters(), which changes the       *)
(* address and the selection and is run again by each change, and the pages, *)
(* which ask again on each change, do not chase each other for ever.         *)
Settles == []<>Quiet

(* What a page shows at rest is of the selection, although answers come in   *)
(* any order and the containers outlive their pages.                         *)
PaintedIsSelected ==
    Quiet /\ mounted \in Followers /\ Shown(mounted) => con[mounted].data = SelectionArg(ex)

(* A page does not wait for ever: when users and faults come to an end, the  *)
(* page that is open has its data and nothing is being saved, unless a       *)
(* request failed or was given up.  Signals is left out: it waits until a    *)
(* loading is over that was never begun, and asks for nothing.               *)
PagesFillIn ==
    <>[](~gaveUp => /\ Ready(ex)
                    /\ mounted \in Loaders \ {"signals"} => Shown(mounted)
                    /\ ~con["configuration"].saving
                    /\ item # "submitting")

(* The verdict on the configuration is the one on the text in the editor,    *)
(* once the timer has fired and the answer has come, unless the last         *)
(* validation overlapped another one or was of another text.                 *)
VerdictIsCurrent ==
    Quiet /\ editor.on /\ ~editor.timer /\ ~gaveUp /\ ~strayed
      /\ (\A r \in DOMAIN net : r.name # "validate")
        => con["configuration"].verdict = editor.text
=============================================================================
