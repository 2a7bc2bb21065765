--------------------------- MODULE WebPagesProofs ---------------------------
(***************************************************************************)
(* The invariants of WebPages, proved for every catalogue, every set of    *)
(* texts and every bound.  What they need is said of the whole queue of    *)
(* microtasks and of every request that is under way: an answer is put     *)
(* into the queue alone, the exchanges are loaded in stages, the header    *)
(* looks at the selection after every change of it, and a patch that was   *)
(* made from the symbols of another exchange is followed by one that was   *)
(* not, unless the address makes it harmless.                              *)
(***************************************************************************)
EXTENDS WebPages, WebSelectionProofs

In(s) == {s[i] : i \in DOMAIN s}

-----------------------------------------------------------------------------
(* The values of the variables. *)

Names == Exchanges \cup {Blank, All}
Codes == {NoCode, AllCode} \cup AllCodes
Lists == {AllSymbols} \cup {SymbolsOf(i) : i \in DOMAIN Catalogue}
URLs  == [page : Words, interval : Words, exchange : Words, pair : Seq(Words)]

Selections ==
    [exchanges : BOOLEAN, symbols : {<<>>} \cup Lists, exchangeName : Names,
     currencyCodePair : Codes, symbol : Symbols, selectedExchange : 0..Len(Catalogue),
     selectedSymbol : 0..Len(AllSymbols), interval : Words]

Arg(name, code) == [exchange |-> name, code |-> code, text |-> NoText]

AnyText  == Texts \cup {NoText}
TextArgs == {TextArg(text) : text \in AnyText}
Args     == [exchange : Names, code : Codes, text : {NoText}]
FullArgs == [exchange : Names \ {Blank}, code : Codes \ {NoCode}, text : {NoText}]
Empties  == {NoArg, NoData}

(* The containers. *)
ConfigStates == [loading : BOOLEAN, data : {NoData} \cup {TextArg(text) : text \in Texts},
                 verdict : AnyText, saving : BOOLEAN]
FollowStates == [loading : BOOLEAN, data : {NoData} \cup Args,
                 exchange : Names \cup {Null}, code : Codes]
FillStates   == [loading : BOOLEAN, data : Empties, modal : BOOLEAN]
UserStates   == [loading : BOOLEAN, data : Empties, exchange : {Blank}, code : {NoCode}]

ContainersOf(c) ==
    /\ c = [p \in Loaders |-> c[p]]
    /\ c["configuration"] \in ConfigStates
    /\ c["explanation"] \in FollowStates
    /\ c["plgraph"] \in FollowStates
    /\ c["signals"] = clearState
    /\ c["postponed-fills"] \in FillStates
    /\ c["users"] \in UserStates

(* Requests. *)
Plainly == {"supportedExchanges", "users", "roles", "config", "postponedFills"} \cup Updates

Fits(name, arg) ==
    \/ name \in Plainly /\ arg = NoArg
    \/ name = "explanations" /\ arg \in FullArgs
    \/ name = "plGraph" /\ arg \in Args
    \/ name \in Plain /\ arg \in TextArgs

Pending(r) ==
    /\ r \in Requests
    /\ Fits(r.name, r.arg)
    /\ r.phase = "delay" => r.name \in Repeated

(* Microtasks. *)
Renders == {Render(TRUE), Render(FALSE)}

LoadedJob == Set("exchange", Loaded, [k |-> "selected"])
Started   == Patched(emptySelection, Loaded)
FirstJob  == Set("exchange", updateSelected(Started), NoThen)

SetsOf(container, patches, thens) == [k : {"set"}, container : {container}, patch : patches, then : thens]

IntervalJobs == SetsOf("exchange", [interval : Words], [k : {"selection"}, url : URLs])
ExchangeJobs == SetsOf("exchange", {updateSelectedExchange(i) : i \in 0..Len(Catalogue)},
                       {NoThen} \cup [k : {"symbol"}, url : URLs])
SymbolJobs   == SetsOf("exchange", [selectedSymbol : 0..Len(AllSymbols),
                                    currencyCodePair : AllCodes \cup {AllCode}, symbol : Symbols],
                       {NoThen})
HeaderJobs == IntervalJobs \cup ExchangeJobs \cup SymbolJobs
SelectJobs == {LoadedJob, FirstJob} \cup HeaderJobs

OpeningJob(p)   == Set(p, [loading |-> TRUE], Ask(FirstRequest[p], NoArg))
ConfigJob(text) == Set("configuration", [loading |-> FALSE, data |-> TextArg(text)],
                       Ask("validate", TextArg(text)))
SavingJob(text) == Set("configuration", [saving |-> TRUE], Ask("save", TextArg(text)))
SavedJob        == Set("configuration", [saving |-> FALSE], NoThen)
VerdictJob(text) == Set("configuration", [verdict |-> text], NoThen)

ConfigTaskJobs == {ConfigJob(text) : text \in Texts} \cup {SavingJob(text) : text \in AnyText}
                    \cup {SavedJob} \cup {VerdictJob(text) : text \in AnyText}

AskExplanation(arg) ==
    Set("explanation", [loading |-> TRUE, data |-> NoData, exchange |-> arg.exchange, code |-> arg.code],
        Ask("explanations", arg))
Explained(arg) == Set("explanation", [loading |-> FALSE, data |-> arg], NoThen)

AskPLGraph(arg) == Set("plgraph", [loading |-> TRUE], Ask("plGraph", arg))
GraphJobs == SetsOf("plgraph", [loading : {FALSE}, data : Args \cup {NoData},
                                exchange : Names, code : Codes], {NoThen})

ClearJob == Set("signals", clearState, NoThen)

ListTaskJobs ==
    SetsOf("postponed-fills", [loading : {FALSE}, data : Empties] \cup FillStates, {NoThen})
      \cup SetsOf("users", [loading : {FALSE}, data : Empties] \cup [data : Empties], {NoThen})

(* Those that answers and users put into the queue, and those of a render.   *)
TaskJobs ==
    {LoadedJob} \cup ConfigTaskJobs \cup ListTaskJobs
      \cup {Explained(arg) : arg \in FullArgs} \cup GraphJobs
PageJobs ==
    {OpeningJob(p) : p \in Openers} \cup {AskExplanation(arg) : arg \in FullArgs}
      \cup {AskPLGraph(arg) : arg \in Args} \cup {ClearJob}

Jobs == Renders \cup SelectJobs \cup PageJobs \cup TaskJobs

SelectConts == {[k |-> "selected"]} \cup [k : {"selection", "symbol"}, url : URLs]
AskConts ==
    {Ask(FirstRequest[p], NoArg) : p \in Openers}
      \cup {Ask("explanations", arg) : arg \in FullArgs} \cup {Ask("plGraph", arg) : arg \in Args}
      \cup [k : {"ask"}, request : [name : Plain, arg : TextArgs, phase : {"sent"}]]
Conts == SelectConts \cup AskConts

SelectionTyped == url \in URLs /\ entry \in URLs /\ ex \in Selections

PageTyped == mounted \in {Blank} \cup (Routes(who) \ {"home"}) /\ ContainersOf(con)

EditorTyped ==
    /\ editor \in [on : BOOLEAN, text : AnyText, timer : BOOLEAN]
    /\ editor.timer => editor.text \in Texts
    /\ editor.on => mounted = "configuration"
    /\ orphans \subseteq Texts

ItemTyped ==
    /\ item \in {noItem, "idle", "submitting"}
    /\ item # noItem => mounted = "users"

StartedTyped == started \in [Repeated -> BOOLEAN]
NetTyped(q)  == \A r \in DOMAIN q : Pending(r)

QueueTyped == jobs \in Seq(Jobs) /\ conts \in Seq(Conts)

BoundsTyped == clicks \in 0..MaxClicks /\ faults \in 0..MaxFaults

Typing ==
    /\ who \in Profiles
    /\ SelectionTyped
    /\ PageTyped
    /\ EditorTyped
    /\ ItemTyped
    /\ StartedTyped
    /\ NetTyped(net)
    /\ QueueTyped
    /\ BoundsTyped

-----------------------------------------------------------------------------
(* The parts of the inductive invariant. *)

Selects(j) == j.k = "set" /\ j.container = "exchange"
Renews(j)  == j.k = "render" /\ j.header
Sets1(j, p) == j.k = "set" /\ j.container = p

(* What a task puts into the queue is alone there, and nothing waits.        *)
Alone == \A j \in In(jobs) : j \in TaskJobs => Tail(jobs) = <<>> /\ conts = <<>>

(* The exchanges are asked for, put into the container, and selected from.   *)
Once(s) == \A i, m \in DOMAIN s : Selects(s[i]) /\ Selects(s[m]) => i = m

AskedIn(q) == \E r \in DOMAIN q : r.name = "supportedExchanges"

AskedOnceIn(q) ==
    \A r, x \in DOMAIN q : r.name = "supportedExchanges" /\ x.name = "supportedExchanges"
                             => r = x /\ q[r] = 1

OnlyAsks(c) == \A x \in In(c) : x.k = "ask"
NoSelect(s) == \A j \in In(s) : ~Selects(j)

ListOf(i) == IF i = 0 THEN AllSymbols ELSE SymbolsOf(i)

Going(s) ==
    /\ s.exchanges
    /\ s.symbols = ListOf(s.selectedExchange)
    /\ s.exchangeName = NameOf(s.selectedExchange)
    /\ s.currencyCodePair \in AllCodes \cup {AllCode}

Stage ==
    \/ ex = emptySelection /\ NoSelect(jobs) /\ OnlyAsks(conts) /\ AskedOnceIn(net)
    \/ ex = emptySelection /\ jobs = <<LoadedJob>> /\ conts = <<>> /\ ~AskedIn(net)
    \/ /\ ex = Started /\ NoSelect(jobs) /\ ~AskedIn(net)
       /\ conts # <<>> /\ Head(conts).k = "selected" /\ OnlyAsks(Tail(conts))
    \/ /\ ex = Started /\ OnlyAsks(conts) /\ ~AskedIn(net)
       /\ FirstJob \in In(jobs) /\ Once(jobs) /\ \A j \in In(jobs) : Selects(j) => j = FirstJob
    \/ /\ Going(ex) /\ ~AskedIn(net)
       /\ \A j \in In(jobs) : Selects(j) => j \in HeaderJobs
       /\ \A c \in In(conts) : c.k # "selected"

(* The address. *)
MountedIsUrl == mounted = url.page \/ \E j \in In(jobs) : j.k = "render"

HeaderIsShown ==
    Going(ex) /\ ((\E j \in In(jobs) : Selects(j)) \/ ~OnlyAsks(conts)) => url.page \in Headers(who)

Settled ==
    Going(ex) /\ url.page \in Headers(who) =>
        \/ \E j \in In(jobs) : Renews(j) \/ Selects(j)
        \/ NewPath(url, ex) = url /\ Sets(url, ex) = <<>>

MovesExchange(j) == Selects(j) /\ j \in ExchangeJobs
MovesSymbol(j)   == Selects(j) /\ j \in SymbolJobs
MovesInterval(j) == Selects(j) /\ j \in IntervalJobs

(* The interval comes before the rest of the selection.                      *)
IntervalIsSet ==
    Going(ex) =>
        /\ (\E j \in In(jobs) : Selects(j)) \/ ~OnlyAsks(conts) => NewInterval(url) = url.interval
        /\ \A j \in In(jobs) : MovesInterval(j) => j.patch.interval = url.interval
        /\ (\E j \in In(jobs) : MovesExchange(j) \/ MovesSymbol(j)) \/ ~OnlyAsks(conts) =>
             url.interval \in {Blank, ex.interval}

Valid(j, symbols) ==
    j.patch.currencyCodePair = AllCode \/ j.patch.symbol = symbols[j.patch.selectedSymbol]

Initial(s) == s.currencyCodePair \in {AllCode, s.symbols[1].code}

Fixed(s) == Initial(s) \/ s.symbol = s.symbols[s.selectedSymbol]

Mended(s, symbols) ==
    \E i \in DOMAIN s :
        /\ MovesSymbol(s[i]) /\ Valid(s[i], symbols)
        /\ \A m \in DOMAIN s : m > i /\ MovesSymbol(s[m]) => Valid(s[m], symbols)

UrlCode == normalCodePair(url.pair)

Harmless ==
    /\ url.page \in Headers(who)
    /\ UrlCode = ex.symbols[1].code \/ (UrlCode = AllCode /\ NeedsAll(url.page))

SymbolIsMended ==
    Going(ex) =>
        \/ \E j \in In(jobs) : MovesExchange(j)
        \/ Rendering /\ Head(jobs).header /\ url.page \in Headers(who) /\ Initial(ex)
        \/ Harmless
        \/ Mended(jobs, ex.symbols)
        \/ Fixed(ex) /\ \A j \in In(jobs) : MovesSymbol(j) => Valid(j, ex.symbols)

(* The pages that follow the selection. *)
DataIsOwn(p) == con[p].data \in {NoData, Arg(con[p].exchange, con[p].code)}

PLGraphFollows ==
    /\ DataIsOwn("plgraph")
    /\ mounted = "plgraph" /\ DiffersFrom("plgraph") /\ ~con["plgraph"].loading =>
         \E j \in In(jobs) : j.k = "render" \/ Sets1(j, "plgraph")
    /\ \A j \in In(jobs) : Sets1(j, "plgraph") /\ j \in TaskJobs =>
         j.patch.data \in {NoData, Arg(j.patch.exchange, j.patch.code)}

ExplanationFollows ==
    LET c == con["explanation"]
    IN  /\ DataIsOwn("explanation")
        /\ c.data # NoData => c.exchange # Blank
        /\ c.exchange # Blank => Ready(ex)
        /\ \A j \in In(jobs) : Sets1(j, "explanation") /\ j \in TaskJobs =>
             j.patch.data = Arg(c.exchange, c.code)
        /\ \A j \in In(jobs) : Sets1(j, "explanation") => Ready(ex)
        /\ mounted = "explanation" /\ DiffersFrom("explanation") /\ Ready(ex) =>
             \E j \in In(jobs) : j.k = "render" \/ Sets1(j, "explanation")

(* An update that is awaited is the one of the Item.                         *)
UpdateIsOwn == \A r \in DOMAIN net : r.name = "update" => item = "submitting" /\ net[r] = 1

(* The verdict. *)
Config == con["configuration"]

EditorIsShown ==
    /\ editor.on => Rendering \/ Shown("configuration")
    /\ mounted = "configuration" /\ ~editor.on /\ Shown("configuration") =>
         Rendering /\ Ask("validate", Config.data) \in In(conts)

Reloads   == OpeningJob("configuration") \in In(jobs) \/ Config.loading
ToBeAsked == Ask("validate", TextArg(editor.text)) \in In(conts)

VerdictComes ==
    editor.on /\ ~editor.timer /\ ~gaveUp /\ ~strayed =>
        \/ Reloads
        \/ ToBeAsked
        \/ /\ \A r \in DOMAIN net : r.name = "validate" => r.arg.text = editor.text
           /\ \A text \in AnyText : VerdictJob(text) \in In(jobs) => text = editor.text
           /\ \/ \E r \in DOMAIN net : r.name = "validate"
              \/ VerdictJob(editor.text) \in In(jobs)
              \/ Config.verdict = editor.text

Inv ==
    /\ Typing /\ Stage /\ Alone /\ UpdateIsOwn
    /\ MountedIsUrl /\ HeaderIsShown /\ Settled /\ IntervalIsSet /\ SymbolIsMended
    /\ PLGraphFollows /\ ExplanationFollows
    /\ EditorIsShown /\ VerdictComes


-----------------------------------------------------------------------------
(* Sequences. *)

LEMMA InSmall ==
    ASSUME NEW S, NEW j \in S
    PROVE  /\ <<>> \in Seq(S) /\ In(<<>>) = {}
           /\ <<j>> \in Seq(S) /\ In(<<j>>) = {j} /\ <<j>> # <<>>
           /\ Head(<<j>>) = j /\ Tail(<<j>>) = <<>>
BY DEF In

LEMMA InConcat ==
    ASSUME NEW S, NEW s \in Seq(S), NEW t \in Seq(S)
    PROVE  s \o t \in Seq(S) /\ In(s \o t) = In(s) \cup In(t)
<1>. DEFINE c == s \o t
<1>1. /\ c \in Seq(S)
      /\ \A x \in DOMAIN s : x \in DOMAIN c /\ c[x] = s[x]
      /\ \A x \in DOMAIN t : x + Len(s) \in DOMAIN c /\ c[x + Len(s)] = t[x]
      /\ \A x \in DOMAIN c : \/ x \in DOMAIN s /\ c[x] = s[x]
                             \/ x - Len(s) \in DOMAIN t /\ c[x] = t[x - Len(s)]
    OBVIOUS
<1>. HIDE DEF c
<1>2. In(c) \subseteq In(s) \cup In(t)
    BY <1>1 DEF In
<1>3. In(s) \subseteq In(c)
    BY <1>1 DEF In
<1>4. In(t) \subseteq In(c)
    BY <1>1 DEF In
<1>. QED
    BY <1>1, <1>2, <1>3, <1>4 DEF c

LEMMA InParts ==
    ASSUME NEW S, NEW s \in Seq(S), s # <<>>
    PROVE  /\ Head(s) \in S /\ Head(s) \in In(s)
           /\ Tail(s) \in Seq(S)
           /\ In(s) = {Head(s)} \cup In(Tail(s))
<1>. DEFINE t == Tail(s)
<1>1. /\ Len(s) \in Nat /\ Len(s) > 0 /\ DOMAIN s = 1..Len(s)
      /\ t \in Seq(S) /\ DOMAIN t = 1..(Len(s) - 1)
      /\ \A x \in DOMAIN t : t[x] = s[x + 1]
      /\ Head(s) = s[1] /\ s[1] \in S
    OBVIOUS
<1>. HIDE DEF t
<1>2. \A x \in DOMAIN s : x = 1 \/ (x - 1 \in DOMAIN t /\ s[x] = t[x - 1])
    BY <1>1
<1>3. \A x \in DOMAIN t : x + 1 \in DOMAIN s /\ s[x + 1] = t[x]
    BY <1>1
<1>4. 1 \in DOMAIN s
    BY <1>1
<1>5. In(s) \subseteq {Head(s)} \cup In(t)
    BY <1>1, <1>2 DEF In
<1>6. In(t) \subseteq In(s)
    BY <1>3 DEF In
<1>7. Head(s) \in In(s)
    BY <1>1, <1>4 DEF In
<1>. QED
    BY <1>1, <1>5, <1>6, <1>7 DEF t

LEMMA InAppend ==
    ASSUME NEW S, NEW s \in Seq(S), NEW x \in S
    PROVE  Append(s, x) \in Seq(S) /\ In(Append(s, x)) = In(s) \cup {x}
<1>. DEFINE t == <<x>>
<1>1. Append(s, x) = s \o t
    OBVIOUS
<1>2. t \in Seq(S) /\ In(t) = {x}
    BY InSmall
<1>. HIDE DEF t
<1>3. s \o t \in Seq(S) /\ In(s \o t) = In(s) \cup In(t)
    BY <1>2, InConcat
<1>. QED
    BY <1>1, <1>2, <1>3

LEMMA InEmpty ==
    ASSUME NEW S, NEW s \in Seq(S)
    PROVE  s = <<>> <=> In(s) = {}
<1>1. s # <<>> => Head(s) \in In(s)
    BY InParts
<1>2. In(<<>>) = {}
    BY DEF In
<1>. QED
    BY Zenon, <1>1, <1>2

LEMMA InElements ==
    ASSUME NEW S, NEW s \in Seq(S), NEW x \in In(s)
    PROVE  x \in S
BY DEF In

-----------------------------------------------------------------------------
(* Values. *)

LEMMA BlankIsNoName ==
    /\ Blank # All /\ Blank # Null /\ Blank \notin Exchanges /\ Blank # "home"
    /\ Blank \notin Loaders
<1>1. Blank # All /\ Blank # Null /\ Blank # "home"
    BY Zenon DEF Blank, All, Null
<1>2. Blank \notin Exchanges
    BY Zenon, CatalogueAssumption DEF Exchanges
<1>3. Blank \notin Loaders
    BY Zenon DEF Blank, Loaders, Followers, Openers
<1>. QED
    BY <1>1, <1>2, <1>3

LEMMA RepeatedNames ==
    Repeated = {"supportedExchanges", "users", "explanations", "plGraph", "signals", "config",
                "postponedFills", "roles"}
BY DEF Repeated, FirstRequest, Loaders, Followers, Openers

LEMMA FirstRequests ==
    /\ FirstRequest["configuration"] = "config"
    /\ FirstRequest["postponed-fills"] = "postponedFills"
    /\ FirstRequest["users"] = "roles"
    /\ Openers \subseteq Loaders
BY DEF FirstRequest, Loaders, Followers, Openers

LEMMA ArgFacts ==
    /\ NoArg = Arg(Blank, NoCode)
    /\ NoArg \in Args
    /\ NoArg # NoData
    /\ NoData = Arg(Null, NoCode)
    /\ \A text : TextArg(text) = [exchange |-> Blank, code |-> NoCode, text |-> text]
    /\ \A text : TextArg(text) # NoData
    /\ \A s : SelectionArg(s) = Arg(s.exchangeName, s.currencyCodePair)
    /\ \A name, code : Arg(name, code).exchange = name /\ Arg(name, code).code = code
    /\ \A text : TextArg(text).text = text
<1>1. NoArg = Arg(Blank, NoCode) /\ NoData = Arg(Null, NoCode)
    BY DEF NoArg, NoData, Arg
<1>2. NoArg \in Args
    <2>1. Blank \in Names /\ NoCode \in Codes
        BY DEF Names, Codes
    <2>. QED
        BY <1>1, <2>1 DEF Args, Arg
<1>3. \A text : TextArg(text) = [exchange |-> Blank, code |-> NoCode, text |-> text]
    BY DEF TextArg, NoArg
<1>4. ASSUME NEW s PROVE SelectionArg(s) = Arg(s.exchangeName, s.currencyCodePair)
    <2>. DEFINE name == s.exchangeName
                code == s.currencyCodePair
    <2>1. SelectionArg(s) = [NoArg EXCEPT !.exchange = name, !.code = code]
        BY DEF SelectionArg
    <2>. HIDE DEF name, code
    <2>2. SelectionArg(s) = Arg(name, code)
        BY <2>1 DEF NoArg, Arg
    <2>. QED
        BY <2>2 DEF name, code
<1>5. \A name, code : Arg(name, code).exchange = name /\ Arg(name, code).code = code
    BY DEF Arg
<1>6. Blank # Null
    BY Zenon DEF Blank, Null
<1>7. NoArg # NoData
    BY <1>1, <1>5, <1>6
<1>8. \A text : TextArg(text).text = text /\ TextArg(text).exchange = Blank
    BY <1>3
<1>9. \A text : TextArg(text) # NoData
    BY <1>1, <1>5, <1>6, <1>8
<1>. QED
    BY <1>1, <1>2, <1>3, <1>4, <1>5, <1>7, <1>8, <1>9

LEMMA ArgParts ==
    ASSUME NEW arg \in Args
    PROVE  arg = Arg(arg.exchange, arg.code) /\ arg.exchange \in Names /\ arg.code \in Codes
BY DEF Args, Arg

LEMMA FullArgParts ==
    ASSUME NEW arg \in FullArgs
    PROVE  /\ arg = Arg(arg.exchange, arg.code) /\ arg \in Args
           /\ arg.exchange \in Names \ {Blank} /\ arg.code \in Codes \ {NoCode}
BY DEF FullArgs, Args, Arg

LEMMA SentFacts ==
    ASSUME NEW q, NEW r
    PROVE  /\ DOMAIN Sent(q, r) = DOMAIN q \cup {r}
           /\ \A x \in DOMAIN q : x # r => Sent(q, r)[x] = q[x] + 0
           /\ r \notin DOMAIN q => Sent(q, r)[r] = 0 + 1
BY DEF Sent

LEMMA GoneFacts ==
    ASSUME NEW q, NEW r \in DOMAIN q
    PROVE  /\ DOMAIN Gone(q, r) \subseteq DOMAIN q
           /\ \A x \in DOMAIN q : x # r => x \in DOMAIN Gone(q, r) /\ Gone(q, r)[x] = q[x]
           /\ q[r] = 1 => DOMAIN Gone(q, r) = DOMAIN q \ {r}
BY DEF Gone

-----------------------------------------------------------------------------
(* Codes, lists of symbols and names. *)

LEMMA ListFacts ==
    ASSUME NEW L \in Lists
    PROVE  /\ L \in Seq(Symbols) /\ L # <<>>
           /\ Len(L) \in 1..Len(AllSymbols) /\ DOMAIN L = 1..Len(L) /\ 1 \in DOMAIN L
           /\ \A k \in DOMAIN L : L[k] \in Symbols /\ L[k].code \in AllCodes
<1>1. Len(AllSymbols) \in Nat /\ DOMAIN AllSymbols = 1..Len(AllSymbols) /\ AllSymbols \in Seq(Symbols)
    BY AllSymbolsType
<1>2. ASSUME NEW i \in DOMAIN Catalogue
      PROVE  /\ SymbolsOf(i) \in Seq(Symbols) /\ Len(SymbolsOf(i)) > 0
             /\ Len(SymbolsOf(i)) <= Len(AllSymbols)
             /\ \A k \in DOMAIN SymbolsOf(i) : SymbolsOf(i)[k].code \in AllCodes
    BY SymbolsOfType, AllIsLongest, AllSymbolsType DEF AllCodes
<1>3. 1 \in DOMAIN Catalogue
    BY CatalogueType
<1>4. Len(SymbolsOf(1)) \in Nat
    BY <1>2, <1>3
<1>5. Len(AllSymbols) > 0
    BY <1>1, <1>2, <1>3, <1>4
<1>6. \A k \in DOMAIN AllSymbols : AllSymbols[k].code \in AllCodes
    BY DEF AllCodes
<1>7. /\ L \in Seq(Symbols) /\ Len(L) > 0 /\ Len(L) <= Len(AllSymbols)
      /\ \A k \in DOMAIN L : L[k].code \in AllCodes
    BY <1>1, <1>2, <1>5, <1>6 DEF Lists
<1>. QED
    BY <1>1, <1>7

LEMMA CodeFacts ==
    /\ NoCode \in Seq(Words) /\ Clean(NoCode)
    /\ AllCode \in Seq(Words) /\ Clean(AllCode) /\ AllCode # NoCode
    /\ \A c \in AllCodes : Proper(c)
    /\ \A c \in Codes : c \in Seq(Words) /\ Clean(c)
<1>1. NoCode \in Seq(Words) /\ Clean(NoCode)
    <2>1. \A n \in DOMAIN <<>> : FALSE
        OBVIOUS
    <2>2. <<>> \in Seq(Words)
        OBVIOUS
    <2>. QED
        BY Zenon, <2>1, <2>2 DEF NoCode, Clean
<1>2. AllCode \in Seq(Words) /\ Clean(AllCode) /\ AllCode # NoCode
    <2>0. All # "-"
        BY DEF All
    <2>1. All \in Words
        BY Zenon DEF Words
    <2>2. AllCode = <<All>> /\ NoCode = <<>>
        BY DEF AllCode, NoCode
    <2>3. <<All>> \in Seq(Words)
        BY <2>1
    <2>4. \A n \in DOMAIN <<All>> : <<All>>[n] = All
        OBVIOUS
    <2>5. <<All>> # <<>>
        OBVIOUS
    <2>. QED
        BY Zenon, <2>0, <2>2, <2>3, <2>4, <2>5 DEF Clean
<1>3. \A c \in AllCodes : Proper(c)
    BY AllSymbolsType DEF AllCodes
<1>4. \A c : Clean(c) => c \in Seq(Words)
    BY DEF Clean
<1>5. \A c \in Codes : Clean(c)
    BY Zenon, <1>1, <1>2, <1>3 DEF Codes, Proper
<1>. QED
    BY Zenon, <1>1, <1>2, <1>3, <1>4, <1>5

LEMMA ListOfFacts ==
    ASSUME NEW i \in 0..Len(Catalogue)
    PROVE  /\ ListOf(i) \in Lists
           /\ NameOf(i) \in Exchanges \cup {All} /\ NameOf(i) \in Names \ {Blank}
<1>1. i = 0 \/ i \in DOMAIN Catalogue
    BY CatalogueType
<1>2. ListOf(i) \in Lists
    BY <1>1 DEF ListOf, Lists
<1>3. NameOf(i) \in Exchanges \cup {All}
    BY <1>1 DEF NameOf, Exchanges
<1>. QED
    BY <1>2, <1>3, BlankIsNoName DEF Names

LEMMA ExchangeNames == \A name \in Exchanges : name \in Words /\ name \in Names
BY Zenon, CatalogueType DEF Exchanges, Names, Words

LEMMA NameTypes ==
    /\ Names \subseteq Words /\ Blank \in Words /\ All \in Words
    /\ Blank \in Names /\ NoCode \in Codes /\ AllCode \in Codes /\ AllCodes \subseteq Codes
<1>1. Blank \in Words /\ All \in Words
    BY Zenon DEF Words
<1>2. Names \subseteq Words
    BY Zenon, <1>1, ExchangeNames DEF Names
<1>. QED
    BY Zenon, <1>1, <1>2 DEF Names, Codes

LEMMA NoSymbolType == NoSymbol \in Symbols
BY NameTypes, CodeFacts DEF NoSymbol, Symbols

(* What ExchangeContainer's methods patch.                                   *)
LEMMA ExchangePatch ==
    ASSUME NEW i \in 0..Len(Catalogue)
    PROVE  LET p == updateSelectedExchange(i)
           IN  /\ p = [selectedExchange |-> i, exchangeName |-> NameOf(i), symbols |-> ListOf(i),
                       selectedSymbol |-> p.selectedSymbol, currencyCodePair |-> p.currencyCodePair,
                       symbol |-> p.symbol]
               /\ p.selectedSymbol \in 0..Len(AllSymbols)
               /\ p.currencyCodePair \in AllCodes \cup {AllCode}
               /\ p.currencyCodePair \in {AllCode, ListOf(i)[1].code}
               /\ p.symbol \in Symbols
<1>. DEFINE p == updateSelectedExchange(i)
            L == ListOf(i)
            k == IF i = 0 THEN 0 ELSE 1
            code == IF k = 0 THEN AllCode ELSE L[k].code
            symbol == IF k = 0 THEN NoSymbol ELSE L[k]
<1>1. p = [selectedExchange |-> i, exchangeName |-> NameOf(i), symbols |-> L,
           selectedSymbol |-> k, currencyCodePair |-> code, symbol |-> symbol]
    BY DEF updateSelectedExchange, ListOf, getSymbol
<1>2. 1 \in DOMAIN L /\ L[1] \in Symbols /\ L[1].code \in AllCodes /\ 1 \in 0..Len(AllSymbols)
    <2>1. L \in Lists
        BY ListOfFacts
    <2>. HIDE DEF L
    <2>. QED
        BY <2>1, ListFacts
<1>3. /\ k \in 0..Len(AllSymbols)
      /\ code \in AllCodes \cup {AllCode}
      /\ code \in {AllCode, L[1].code}
      /\ symbol \in Symbols
    <2>1. 0 \in 0..Len(AllSymbols)
        BY AllSymbolsType
    <2>. QED
        BY <1>2, <2>1, NoSymbolType
<1>4. p.selectedSymbol = k /\ p.currencyCodePair = code /\ p.symbol = symbol
    BY <1>1
<1>. HIDE DEF p, k, code, symbol, L
<1>5. p = [selectedExchange |-> i, exchangeName |-> NameOf(i), symbols |-> L,
           selectedSymbol |-> p.selectedSymbol, currencyCodePair |-> p.currencyCodePair, symbol |-> p.symbol]
    BY <1>1, <1>4
<1>. QED
    BY <1>3, <1>4, <1>5 DEF p, L

Fields == {"exchanges", "symbols", "exchangeName", "currencyCodePair", "symbol", "selectedExchange",
           "selectedSymbol", "interval"}

Whole(s) == s = [x \in Fields |-> s[x]]

LEMMA WholeSelection == \A s \in Selections : Whole(s)
BY DEF Selections, Whole, Fields

LEMMA WholeEmpty == Whole(emptySelection)
<1>. DEFINE n == <<>>
<1>1. emptySelection = [exchanges |-> FALSE, symbols |-> n, exchangeName |-> Blank,
                        currencyCodePair |-> NoCode, symbol |-> NoSymbol, selectedExchange |-> 0,
                        selectedSymbol |-> 0, interval |-> "now"]
    BY DEF emptySelection
<1>. HIDE DEF n
<1>. QED
    BY <1>1 DEF Whole, Fields

LEMMA PatchedFields ==
    ASSUME NEW s, Whole(s), NEW p
    PROVE  /\ Whole(Patched(s, p))
           /\ \A x \in Fields : Patched(s, p)[x] = IF x \in DOMAIN p THEN p[x] ELSE s[x]
<1>1. DOMAIN s = Fields
    BY DEF Whole
<1>. QED
    BY <1>1 DEF Whole, Patched

LEMMA PatchedInterval ==
    ASSUME NEW s, Whole(s), NEW a
    PROVE  LET t == Patched(s, [interval |-> a])
           IN  /\ Whole(t)
               /\ t.interval = a
               /\ t.exchanges = s.exchanges /\ t.symbols = s.symbols /\ t.exchangeName = s.exchangeName
               /\ t.currencyCodePair = s.currencyCodePair /\ t.symbol = s.symbol
               /\ t.selectedExchange = s.selectedExchange /\ t.selectedSymbol = s.selectedSymbol
<1>1. DOMAIN [interval |-> a] = {"interval"}
    OBVIOUS
<1>. QED
    BY <1>1, PatchedFields DEF Fields

LEMMA PatchedLoaded ==
    ASSUME NEW s, Whole(s), NEW a, NEW b, NEW c, NEW d
    PROVE  LET p == [exchanges |-> a, symbols |-> b, selectedExchange |-> c, selectedSymbol |-> d]
               t == Patched(s, p)
           IN  /\ Whole(t)
               /\ t.exchanges = a /\ t.symbols = b /\ t.selectedExchange = c /\ t.selectedSymbol = d
               /\ t.exchangeName = s.exchangeName /\ t.currencyCodePair = s.currencyCodePair
               /\ t.symbol = s.symbol /\ t.interval = s.interval
BY PatchedFields DEF Fields

LEMMA PatchedFirst ==
    ASSUME NEW s, Whole(s), NEW a, NEW b, NEW c
    PROVE  LET p == [exchangeName |-> a, currencyCodePair |-> b, symbol |-> c]
               t == Patched(s, p)
           IN  /\ Whole(t)
               /\ t.exchangeName = a /\ t.currencyCodePair = b /\ t.symbol = c
               /\ t.exchanges = s.exchanges /\ t.symbols = s.symbols
               /\ t.selectedExchange = s.selectedExchange /\ t.selectedSymbol = s.selectedSymbol
               /\ t.interval = s.interval
BY PatchedFields DEF Fields

LEMMA PatchedSymbol ==
    ASSUME NEW s, Whole(s), NEW a, NEW b, NEW c
    PROVE  LET p == [selectedSymbol |-> a, currencyCodePair |-> b, symbol |-> c]
               t == Patched(s, p)
           IN  /\ Whole(t)
               /\ t.selectedSymbol = a /\ t.currencyCodePair = b /\ t.symbol = c
               /\ t.exchanges = s.exchanges /\ t.symbols = s.symbols
               /\ t.selectedExchange = s.selectedExchange /\ t.exchangeName = s.exchangeName
               /\ t.interval = s.interval
BY PatchedFields DEF Fields

LEMMA PatchedExchange ==
    ASSUME NEW s, Whole(s), NEW a, NEW b, NEW c, NEW d, NEW e, NEW f
    PROVE  LET p == [selectedExchange |-> a, exchangeName |-> b, symbols |-> c,
                     selectedSymbol |-> d, currencyCodePair |-> e, symbol |-> f]
               t == Patched(s, p)
           IN  /\ Whole(t)
               /\ t.selectedExchange = a /\ t.exchangeName = b /\ t.symbols = c
               /\ t.selectedSymbol = d /\ t.currencyCodePair = e /\ t.symbol = f
               /\ t.exchanges = s.exchanges /\ t.interval = s.interval
BY PatchedFields DEF Fields

LEMMA LoadedIs ==
    /\ Loaded = [exchanges |-> TRUE, symbols |-> ListOf(1), selectedExchange |-> 1, selectedSymbol |-> 1]
    /\ Whole(Started)
    /\ Started.exchanges = TRUE /\ Started.symbols = ListOf(1)
    /\ Started.selectedExchange = 1 /\ Started.selectedSymbol = 1
    /\ Started.exchangeName = Blank /\ Started.currencyCodePair = NoCode
    /\ Started.symbol = NoSymbol /\ Started.interval = "now"
<1>1. Loaded = [exchanges |-> TRUE, symbols |-> ListOf(1), selectedExchange |-> 1, selectedSymbol |-> 1]
    BY DEF Loaded, ListOf
<1>2. /\ emptySelection.exchangeName = Blank /\ emptySelection.currencyCodePair = NoCode
      /\ emptySelection.symbol = NoSymbol /\ emptySelection.interval = "now"
    BY DEF emptySelection
<1>. QED
    BY <1>1, <1>2, PatchedLoaded, WholeEmpty DEF Started

LEMMA FirstIs ==
    /\ updateSelected(Started) = [exchangeName |-> NameOf(1), currencyCodePair |-> ListOf(1)[1].code,
                                  symbol |-> ListOf(1)[1]]
    /\ ListOf(1) \in Lists /\ 1 \in 0..Len(Catalogue) /\ 1 \in 0..Len(AllSymbols)
    /\ ListOf(1)[1] \in Symbols /\ ListOf(1)[1].code \in AllCodes
<1>1. Started.symbols = ListOf(1) /\ Started.selectedSymbol = 1 /\ Started.selectedExchange = 1
    BY LoadedIs
<1>2. getSymbol(ListOf(1), 1) = [currencyCodePair |-> ListOf(1)[1].code, symbol |-> ListOf(1)[1]]
    BY DEF getSymbol
<1>3. 1 \in 0..Len(Catalogue)
    BY CatalogueType
<1>4. ListOf(1) \in Lists
    BY <1>3, ListOfFacts
<1>5. ListOf(1)[1] \in Symbols /\ ListOf(1)[1].code \in AllCodes /\ 1 \in 0..Len(AllSymbols)
    BY <1>4, ListFacts
<1>. QED
    BY <1>1, <1>2, <1>3, <1>4, <1>5 DEF updateSelected

-----------------------------------------------------------------------------
(* The container after a patch. *)

SameButInterval(t, s) ==
    /\ t.exchanges = s.exchanges /\ t.symbols = s.symbols /\ t.exchangeName = s.exchangeName
    /\ t.currencyCodePair = s.currencyCodePair /\ t.symbol = s.symbol
    /\ t.selectedExchange = s.selectedExchange /\ t.selectedSymbol = s.selectedSymbol

SelectionFields(s) ==
    /\ Whole(s)
    /\ s.exchanges \in BOOLEAN /\ s.symbols \in {<<>>} \cup Lists /\ s.exchangeName \in Names
    /\ s.currencyCodePair \in Codes /\ s.symbol \in Symbols
    /\ s.selectedExchange \in 0..Len(Catalogue) /\ s.selectedSymbol \in 0..Len(AllSymbols)
    /\ s.interval \in Words

LEMMA SelectionsAre == \A s : s \in Selections <=> SelectionFields(s)
<1>. DEFINE N == {<<>>} \cup Lists
            A == 0..Len(Catalogue)
            B == 0..Len(AllSymbols)
<1>. HIDE DEF N, A, B
<1>1. ASSUME NEW s, s \in [exchanges : BOOLEAN, symbols : N, exchangeName : Names,
               currencyCodePair : Codes, symbol : Symbols, selectedExchange : A,
               selectedSymbol : B, interval : Words]
      PROVE  /\ s = [x \in Fields |-> s[x]]
             /\ s.exchanges \in BOOLEAN /\ s.symbols \in N /\ s.exchangeName \in Names
             /\ s.currencyCodePair \in Codes /\ s.symbol \in Symbols
             /\ s.selectedExchange \in A /\ s.selectedSymbol \in B /\ s.interval \in Words
    BY <1>1 DEF Fields
<1>2. ASSUME NEW s, s = [x \in Fields |-> s[x]],
             s.exchanges \in BOOLEAN, s.symbols \in N, s.exchangeName \in Names,
             s.currencyCodePair \in Codes, s.symbol \in Symbols,
             s.selectedExchange \in A, s.selectedSymbol \in B, s.interval \in Words
      PROVE  s \in [exchanges : BOOLEAN, symbols : N, exchangeName : Names,
               currencyCodePair : Codes, symbol : Symbols, selectedExchange : A,
               selectedSymbol : B, interval : Words]
    BY <1>2 DEF Fields
<1>. QED
    BY Zenon, <1>1, <1>2 DEF Selections, SelectionFields, Whole, N, A, B

LEMMA EmptySelectionType == emptySelection \in Selections
<1>1. /\ emptySelection.exchanges = FALSE /\ emptySelection.symbols = <<>>
      /\ emptySelection.exchangeName = Blank /\ emptySelection.currencyCodePair = NoCode
      /\ emptySelection.symbol = NoSymbol /\ emptySelection.selectedExchange = 0
      /\ emptySelection.selectedSymbol = 0 /\ emptySelection.interval = "now"
    BY DEF emptySelection
<1>2. "now" \in Words
    BY Zenon DEF Words
<1>3. 0 \in 0..Len(Catalogue) /\ 0 \in 0..Len(AllSymbols)
    BY CatalogueType, AllSymbolsType
<1>. QED
    BY Zenon, <1>1, <1>2, <1>3, WholeEmpty, NameTypes, NoSymbolType, SelectionsAre DEF SelectionFields

(* Jobs and their parts. *)
LEMMA IntervalJobParts ==
    ASSUME NEW j \in IntervalJobs
    PROVE  /\ j.k = "set" /\ j.container = "exchange" /\ j.patch = [interval |-> j.patch.interval]
           /\ j.patch.interval \in Words /\ j.then \in [k : {"selection"}, url : URLs]
<1>1. j.patch \in [interval : Words]
    BY DEF IntervalJobs, SetsOf
<1>2. j.patch = [interval |-> j.patch.interval] /\ j.patch.interval \in Words
    BY <1>1
<1>. QED
    BY <1>2 DEF IntervalJobs, SetsOf

LEMMA ExchangeJobParts ==
    ASSUME NEW j \in ExchangeJobs
    PROVE  /\ j.k = "set" /\ j.container = "exchange"
           /\ \E i \in 0..Len(Catalogue) : j.patch = updateSelectedExchange(i)
           /\ j.then \in {NoThen} \cup [k : {"symbol"}, url : URLs]
<1>. DEFINE P == {updateSelectedExchange(i) : i \in 0..Len(Catalogue)}
            T == {NoThen} \cup [k : {"symbol"}, url : URLs]
<1>1. \A p \in P : \E i \in 0..Len(Catalogue) : p = updateSelectedExchange(i)
    BY Zenon
<1>. HIDE DEF P, T
<1>2. j \in [k : {"set"}, container : {"exchange"}, patch : P, then : T]
    BY DEF ExchangeJobs, SetsOf, P, T
<1>3. j.k = "set" /\ j.container = "exchange" /\ j.patch \in P /\ j.then \in T
    BY <1>2
<1>. QED
    BY Zenon, <1>1, <1>3 DEF T

LEMMA SymbolJobParts ==
    ASSUME NEW j \in SymbolJobs
    PROVE  /\ j.k = "set" /\ j.container = "exchange" /\ j.then = NoThen
           /\ j.patch = [selectedSymbol |-> j.patch.selectedSymbol,
                         currencyCodePair |-> j.patch.currencyCodePair, symbol |-> j.patch.symbol]
           /\ j.patch.selectedSymbol \in 0..Len(AllSymbols)
           /\ j.patch.currencyCodePair \in AllCodes \cup {AllCode}
           /\ j.patch.symbol \in Symbols
<1>. DEFINE A == 0..Len(AllSymbols)
            C == AllCodes \cup {AllCode}
<1>. HIDE DEF A, C
<1>1. j \in [k : {"set"}, container : {"exchange"},
             patch : [selectedSymbol : A, currencyCodePair : C, symbol : Symbols], then : {NoThen}]
    BY DEF SymbolJobs, SetsOf, A, C
<1>2. /\ j.k = "set" /\ j.container = "exchange" /\ j.then = NoThen
      /\ j.patch \in [selectedSymbol : A, currencyCodePair : C, symbol : Symbols]
    BY <1>1
<1>3. /\ j.patch = [selectedSymbol |-> j.patch.selectedSymbol,
                    currencyCodePair |-> j.patch.currencyCodePair, symbol |-> j.patch.symbol]
      /\ j.patch.selectedSymbol \in A
      /\ j.patch.currencyCodePair \in C
      /\ j.patch.symbol \in Symbols
    BY <1>2
<1>. QED
    BY <1>2, <1>3 DEF A, C

LEMMA IntervalApplied ==
    ASSUME NEW s \in Selections, NEW j \in IntervalJobs
    PROVE  LET t == Patched(s, j.patch)
           IN  t \in Selections /\ t.interval = j.patch.interval /\ SameButInterval(t, s)
<1>. DEFINE v == j.patch.interval
            t == Patched(s, j.patch)
<1>1. j.patch = [interval |-> v] /\ v \in Words
    BY IntervalJobParts
<1>2. Whole(s)
    BY WholeSelection
<1>. HIDE DEF v
<1>3. Whole(t) /\ t.interval = v /\ SameButInterval(t, s)
    BY <1>1, <1>2, PatchedInterval DEF SameButInterval
<1>. HIDE DEF t
<1>4. SelectionFields(t)
    BY Zenon, <1>1, <1>3, SelectionsAre DEF SelectionFields, SameButInterval
<1>. QED
    BY <1>3, <1>4, SelectionsAre DEF t, v

LEMMA ExchangeApplied ==
    ASSUME NEW s \in Selections, NEW j \in ExchangeJobs
    PROVE  LET t == Patched(s, j.patch)
           IN  /\ t \in Selections /\ t.exchanges = s.exchanges /\ t.interval = s.interval
               /\ t.symbols = ListOf(t.selectedExchange) /\ t.symbols \in Lists
               /\ t.exchangeName = NameOf(t.selectedExchange) /\ t.exchangeName # Blank
               /\ t.currencyCodePair \in AllCodes \cup {AllCode}
               /\ Initial(t)
<1>. DEFINE t == Patched(s, j.patch)
<1>1. PICK i \in 0..Len(Catalogue) : j.patch = updateSelectedExchange(i)
    BY ExchangeJobParts
<1>. DEFINE p == updateSelectedExchange(i)
<1>2. /\ p = [selectedExchange |-> i, exchangeName |-> NameOf(i), symbols |-> ListOf(i),
              selectedSymbol |-> p.selectedSymbol, currencyCodePair |-> p.currencyCodePair,
              symbol |-> p.symbol]
      /\ p.selectedSymbol \in 0..Len(AllSymbols)
      /\ p.currencyCodePair \in AllCodes \cup {AllCode}
      /\ p.currencyCodePair \in {AllCode, ListOf(i)[1].code}
      /\ p.symbol \in Symbols
    BY ExchangePatch
<1>3. t = Patched(s, p)
    BY <1>1
<1>. HIDE DEF p, t
<1>4. Whole(s)
    BY WholeSelection
<1>5. /\ Whole(t) /\ t.selectedExchange = i /\ t.exchangeName = NameOf(i) /\ t.symbols = ListOf(i)
      /\ t.selectedSymbol = p.selectedSymbol /\ t.currencyCodePair = p.currencyCodePair
      /\ t.symbol = p.symbol /\ t.exchanges = s.exchanges /\ t.interval = s.interval
    BY <1>2, <1>3, <1>4, PatchedExchange
<1>6. ListOf(i) \in Lists /\ NameOf(i) \in Names /\ NameOf(i) # Blank
    BY ListOfFacts
<1>7. p.currencyCodePair \in Codes
    BY Zenon, <1>2, NameTypes
<1>8. SelectionFields(t)
    BY Zenon, <1>2, <1>5, <1>6, <1>7, SelectionsAre DEF SelectionFields
<1>9. Initial(t)
    BY Zenon, <1>2, <1>5 DEF Initial
<1>. QED
    BY Zenon, <1>2, <1>5, <1>6, <1>8, <1>9, SelectionsAre DEF t

LEMMA SymbolApplied ==
    ASSUME NEW s \in Selections, NEW j \in SymbolJobs
    PROVE  LET t == Patched(s, j.patch)
           IN  /\ t \in Selections /\ t.exchanges = s.exchanges /\ t.interval = s.interval
               /\ t.symbols = s.symbols /\ t.exchangeName = s.exchangeName
               /\ t.selectedExchange = s.selectedExchange
               /\ t.currencyCodePair \in AllCodes \cup {AllCode}
               /\ Valid(j, s.symbols) => Fixed(t)
<1>. DEFINE t == Patched(s, j.patch)
            a == j.patch.selectedSymbol
            b == j.patch.currencyCodePair
            c == j.patch.symbol
<1>1. /\ j.patch = [selectedSymbol |-> a, currencyCodePair |-> b, symbol |-> c]
      /\ a \in 0..Len(AllSymbols) /\ b \in AllCodes \cup {AllCode} /\ c \in Symbols
    BY SymbolJobParts
<1>2. Whole(s)
    BY WholeSelection
<1>3. Valid(j, s.symbols) => b = AllCode \/ c = s.symbols[a]
    BY DEF Valid
<1>. HIDE DEF a, b, c
<1>4. /\ Whole(t) /\ t.selectedSymbol = a /\ t.currencyCodePair = b /\ t.symbol = c
      /\ t.exchanges = s.exchanges /\ t.symbols = s.symbols
      /\ t.selectedExchange = s.selectedExchange /\ t.exchangeName = s.exchangeName
      /\ t.interval = s.interval
    BY <1>1, <1>2, PatchedSymbol
<1>. HIDE DEF t
<1>5. b \in Codes
    BY Zenon, <1>1, NameTypes
<1>6. SelectionFields(t)
    BY Zenon, <1>1, <1>4, <1>5, SelectionsAre DEF SelectionFields
<1>7. Valid(j, s.symbols) => Fixed(t)
    BY Zenon, <1>3, <1>4 DEF Fixed, Initial
<1>. QED
    BY Zenon, <1>1, <1>4, <1>6, <1>7, SelectionsAre DEF t

LEMMA LoadedApplied ==
    ASSUME NEW s \in Selections
    PROVE  Patched(s, Loaded) \in Selections
<1>. DEFINE t == Patched(s, Loaded)
<1>1. Whole(s)
    BY WholeSelection
<1>2. /\ Whole(t) /\ t.exchanges = TRUE /\ t.symbols = ListOf(1) /\ t.selectedExchange = 1
      /\ t.selectedSymbol = 1 /\ t.exchangeName = s.exchangeName
      /\ t.currencyCodePair = s.currencyCodePair
      /\ t.symbol = s.symbol /\ t.interval = s.interval
    BY <1>1, LoadedIs, PatchedLoaded
<1>. HIDE DEF t
<1>3. SelectionFields(t)
    BY Zenon, <1>2, FirstIs, SelectionsAre DEF SelectionFields
<1>. QED
    BY <1>3, SelectionsAre DEF t

LEMMA FirstApplied ==
    ASSUME NEW s \in Selections
    PROVE  LET t == Patched(s, updateSelected(Started))
           IN  /\ t \in Selections
               /\ s = Started => Going(t) /\ Initial(t)
<1>. DEFINE t == Patched(s, updateSelected(Started))
            L == ListOf(1)
<1>1. Whole(s)
    BY WholeSelection
<1>2. /\ Whole(t) /\ t.exchangeName = NameOf(1) /\ t.currencyCodePair = L[1].code /\ t.symbol = L[1]
      /\ t.exchanges = s.exchanges /\ t.symbols = s.symbols
      /\ t.selectedExchange = s.selectedExchange /\ t.selectedSymbol = s.selectedSymbol
      /\ t.interval = s.interval
    BY <1>1, FirstIs, PatchedFirst
<1>3. NameOf(1) \in Names
    BY FirstIs, ListOfFacts
<1>. HIDE DEF t
<1>4. SelectionFields(t)
    BY Zenon, <1>2, <1>3, FirstIs, NameTypes, SelectionsAre DEF SelectionFields
<1>5. s = Started => Going(t) /\ Initial(t)
    BY Zenon, <1>2, FirstIs, LoadedIs DEF Going, Initial
<1>. QED
    BY <1>4, <1>5, SelectionsAre DEF t

-----------------------------------------------------------------------------
(* A container that has been selected from. *)

Applied(s) ==
    /\ s.symbols \in Lists /\ 1 \in DOMAIN s.symbols
    /\ s.exchangeName \in Exchanges \cup {All} /\ s.exchangeName # Blank
    /\ s.currencyCodePair \in AllCodes \cup {AllCode}
    /\ s.currencyCodePair # NoCode
    /\ CodesOf(s) \subseteq AllCodes /\ s.symbols[1].code \in CodesOf(s)
    /\ Ready(s) /\ Selected(s)

LEMMA CodesAre ==
    ASSUME NEW s, s.symbols \in Lists
    PROVE  CodesOf(s) \subseteq AllCodes /\ s.symbols[1].code \in CodesOf(s) /\ 1 \in DOMAIN s.symbols
<1>. DEFINE L == s.symbols
<1>1. 1 \in DOMAIN L /\ \A k \in DOMAIN L : L[k].code \in AllCodes
    BY ListFacts
<1>. QED
    BY Zenon, <1>1 DEF CodesOf

LEMMA GoingFacts ==
    ASSUME NEW s \in Selections, Going(s)
    PROVE  Applied(s)
<1>1. s.selectedExchange \in 0..Len(Catalogue)
    BY SelectionsAre DEF SelectionFields
<1>2. s.symbols \in Lists /\ s.exchangeName \in Exchanges \cup {All} /\ s.exchangeName # Blank
    BY <1>1, ListOfFacts DEF Going
<1>3. CodesOf(s) \subseteq AllCodes /\ s.symbols[1].code \in CodesOf(s) /\ 1 \in DOMAIN s.symbols
    BY <1>2, CodesAre
<1>4. s.currencyCodePair \in AllCodes \cup {AllCode}
    BY DEF Going
<1>5. s.currencyCodePair # NoCode /\ Clean(s.currencyCodePair)
    BY Zenon, <1>4, CodeFacts DEF Proper
<1>6. Ready(s)
    BY Zenon, <1>2, <1>5 DEF Ready, Going
<1>7. \A k \in DOMAIN s.symbols : Clean(s.symbols[k].code) /\ s.symbols[k].code # AllCode
    BY Zenon, <1>3, CodeFacts DEF CodesOf, Proper
<1>8. Selected(s)
    BY Zenon, <1>2, <1>3, <1>5, <1>7 DEF Selected
<1>. QED
    BY Zenon, <1>2, <1>3, <1>4, <1>5, <1>6, <1>8 DEF Applied

LEMMA NotReady ==
    /\ ~Ready(emptySelection) /\ ~Going(emptySelection) /\ ~Ready(Started) /\ ~Going(Started)
    /\ emptySelection.exchangeName = Blank /\ emptySelection.currencyCodePair = NoCode
<1>1. emptySelection.exchanges = FALSE /\ emptySelection.exchangeName = Blank
      /\ emptySelection.currencyCodePair = NoCode
    BY DEF emptySelection
<1>2. ~Ready(emptySelection) /\ ~Going(emptySelection)
    BY Zenon, <1>1 DEF Ready, Going
<1>3. Started.exchangeName = Blank /\ Started.currencyCodePair = NoCode
    BY LoadedIs
<1>4. NoCode \notin AllCodes \cup {AllCode}
    BY Zenon, CodeFacts DEF Proper
<1>5. ~Ready(Started) /\ ~Going(Started)
    BY Zenon, <1>3, <1>4 DEF Ready, Going
<1>. QED
    BY <1>1, <1>2, <1>5

-----------------------------------------------------------------------------
(* Addresses. *)

LEMMA AddressType ==
    ASSUME NEW page \in Words, NEW interval \in Words, NEW exchange \in Words, NEW pair \in Seq(Words)
    PROVE  /\ Address(page, interval, exchange, pair) \in URLs
           /\ Address(page, interval, exchange, pair).page = page
BY DEF Address, URLs

LEMMA UrlCodeType ==
    ASSUME NEW c \in Seq(Words)
    PROVE  urlCodePair(c) \in Seq(Words)
<1>1. "-" \in Words
    BY Zenon DEF Words
<1>. QED
    BY <1>1 DEF urlCodePair, ReplaceToken

LEMMA UrlParts ==
    ASSUME NEW u \in URLs
    PROVE  u.page \in Words /\ u.interval \in Words /\ u.exchange \in Words /\ u.pair \in Seq(Words)
BY DEF URLs

LEMMA PageAddressType ==
    ASSUME NEW page \in Words
    PROVE  PageAddress(page) \in URLs
<1>1. NoCode \in Seq(Words) /\ Blank \in Words
    BY CodeFacts, NameTypes
<1>. QED
    BY <1>1, AddressType DEF PageAddress

LEMMA NewCodeType ==
    ASSUME NEW u, NEW s \in Selections, Going(s)
    PROVE  /\ NewCode(u, s) \in AllCodes \cup {AllCode} /\ NewCode(u, s) \in Seq(Words)
           /\ normalCodePair(urlCodePair(NewCode(u, s))) = NewCode(u, s)
<1>1. Applied(s)
    BY GoingFacts
<1>2. NewCode(u, s) \in AllCodes \cup {AllCode}
    BY Zenon, <1>1 DEF NewCode, Applied
<1>3. Clean(NewCode(u, s)) /\ NewCode(u, s) \in Seq(Words)
    BY Zenon, <1>2, CodeFacts, NameTypes
<1>. QED
    BY <1>2, <1>3, CodeRoundTrip

LEMMA NewPathType ==
    ASSUME NEW u \in URLs, NEW s \in Selections, Going(s)
    PROVE  /\ NewPath(u, s) \in URLs
           /\ NewPath(u, s).page = u.page
           /\ NewPath(u, s).interval = NewInterval(u)
           /\ NewPath(u, s).exchange = NewExchange(u, s)
           /\ NewPath(u, s).pair = urlCodePair(NewCode(u, s))
<1>1. Applied(s)
    BY GoingFacts
<1>2. u.page \in Words /\ u.interval \in Words /\ u.exchange \in Words
    BY UrlParts
<1>3. NewInterval(u) \in Words
    <2>1. "day" \in Words /\ Blank \in Words
        BY Zenon DEF Words
    <2>. QED
        BY Zenon, <1>2, <2>1 DEF NewInterval
<1>4. NewExchange(u, s) \in Words
    <2>1. Catalogue[1].name \in Words
        BY FirstExchange, ExchangeNames
    <2>2. s.exchangeName \in Words
        BY Zenon, <1>1, ExchangeNames, NameTypes DEF Applied
    <2>. QED
        BY Zenon, <1>2, <2>1, <2>2 DEF NewExchange
<1>5. urlCodePair(NewCode(u, s)) \in Seq(Words)
    BY NewCodeType, UrlCodeType
<1>. DEFINE a == NewInterval(u)
            b == NewExchange(u, s)
            c == urlCodePair(NewCode(u, s))
<1>6. NewPath(u, s) = Address(u.page, a, b, c)
    BY DEF NewPath
<1>. HIDE DEF a, b, c
<1>7. /\ Address(u.page, a, b, c).page = u.page /\ Address(u.page, a, b, c).interval = a
      /\ Address(u.page, a, b, c).exchange = b /\ Address(u.page, a, b, c).pair = c
    BY DEF Address
<1>8. a \in Words /\ b \in Words /\ c \in Seq(Words)
    BY <1>3, <1>4, <1>5 DEF a, b, c
<1>9. Address(u.page, a, b, c) \in URLs
    BY <1>2, <1>8, AddressType
<1>. QED
    BY <1>6, <1>7, <1>9 DEF a, b, c

LEMMA NewIntervalStable ==
    ASSUME NEW u, NEW v, v.page = u.page, v.interval = NewInterval(u)
    PROVE  NewInterval(v) = v.interval
BY IntervalStable

LEMMA TypedType == Typed \subseteq URLs
<1>1. STRING \subseteq Words
    BY Zenon DEF Words
<1>2. \A c \in Seq(STRING) : c \in Seq(Words)
    BY <1>1, SeqSubset
<1>. DEFINE S == STRING
            Q == Seq(STRING)
            W == Words
            R == Seq(Words)
<1>3. Typed \subseteq [page : S, interval : S, exchange : S, pair : Q]
    BY TypedAssumption
<1>4. S \subseteq W /\ Q \subseteq R
    BY Zenon, <1>1, <1>2
<1>. HIDE DEF S, Q, W, R
<1>5. Typed \subseteq [page : W, interval : W, exchange : W, pair : R]
    BY <1>3, <1>4
<1>. QED
    BY <1>5 DEF URLs, W, R

LEMMA RedirectedType == \A w : Redirected(w) \in URLs
<1>1. "arbitrage" \in Words /\ "home" \in Words
    BY Zenon DEF Words
<1>. QED
    BY <1>1, PageAddressType DEF Redirected

LEMMA FrontPageType == FrontPage \in URLs
<1>1. "liquidity" \in Words /\ "now" \in Words /\ Blank \in Words
    BY Zenon DEF Words
<1>. QED
    BY <1>1, CodeFacts, AddressType DEF FrontPage

LEMMA LinkType ==
    ASSUME NEW page \in Words, NEW interval \in Words, NEW name \in Words, NEW code \in Seq(Words)
    PROVE  Link(page, interval, name, code) \in URLs
<1>1. Blank \in Words
    BY NameTypes
<1>2. Unmatched \in URLs
    BY <1>1, PageAddressType DEF Unmatched
<1>3. urlCodePair(code) \in Seq(Words)
    BY UrlCodeType
<1>4. Address(page, interval, name, urlCodePair(code)) \in URLs
    BY <1>3, AddressType
<1>. QED
    BY Zenon, <1>2, <1>4 DEF Link

LEMMA LinksType ==
    ASSUME ex \in Selections, mounted \in {Blank} \cup Routes(who)
    PROVE  Links \subseteq URLs
<1>1. /\ "arbitrage" \in Words /\ "liquidity" \in Words /\ "now" \in Words /\ "signals" \in Words
      /\ "home" \in Words /\ "rebalancing" \in Words /\ "price" \in Words /\ "users" \in Words
      /\ "configuration" \in Words /\ "explanation" \in Words /\ Blank \in Words /\ All \in Words
    BY Zenon DEF Words
<1>2. /\ ex.exchangeName \in Words /\ ex.currencyCodePair \in Seq(Words) /\ ex.interval \in Words
      /\ ex.symbols \in {<<>>} \cup Lists
    BY Zenon, SelectionsAre, NameTypes, CodeFacts DEF SelectionFields
<1>3. NavLinks(who, ex) \subseteq URLs
    <2>1. /\ PageAddress("home") \in URLs /\ PageAddress("rebalancing") \in URLs
          /\ PageAddress("price") \in URLs /\ PageAddress("users") \in URLs
          /\ PageAddress("configuration") \in URLs /\ PageAddress("explanation") \in URLs
        BY <1>1, PageAddressType
    <2>2. /\ Link("arbitrage", Blank, ex.exchangeName, ex.currencyCodePair) \in URLs
          /\ Link("liquidity", "now", ex.exchangeName, ex.currencyCodePair) \in URLs
          /\ Link("signals", Blank, ex.exchangeName, ex.currencyCodePair) \in URLs
        BY <1>1, <1>2, LinkType
    <2>. QED
        BY Zenon, <2>1, <2>2 DEF NavLinks
<1>. DEFINE interval == IF NeedsInterval(mounted) THEN ex.interval ELSE Blank
<1>4. interval \in Words
    BY <1>1, <1>2
<1>. HIDE DEF interval
<1>5. CASE mounted \notin Headers(who)
    BY Zenon, <1>3, <1>5 DEF Links
<1>6. CASE mounted \in Headers(who)
    <2>1. mounted \in Words
        <3>1. mounted \in {"volume", "liquidity", "explanation", "plgraph", "arbitrage", "signals", "profits"}
            BY Zenon, <1>6 DEF Headers
        <3>. QED
            BY Zenon, <3>1 DEF Words
    <2>2. ExchangeLinks(mounted, ex) \subseteq URLs
        <3>1. ASSUME NEW name \in Exchanges \cup {All}
              PROVE  Address(mounted, interval, name, urlCodePair(ex.currencyCodePair)) \in URLs
            <4>1. name \in Words
                BY Zenon, ExchangeNames, <1>1
            <4>2. urlCodePair(ex.currencyCodePair) \in Seq(Words)
                BY <1>2, UrlCodeType
            <4>. QED
                BY <1>4, <2>1, <4>1, <4>2, AddressType
        <3>. QED
            BY Zenon, <3>1 DEF ExchangeLinks, interval
    <2>3. SymbolLinks(mounted, ex) \subseteq URLs
        <3>1. ASSUME NEW code \in AllCodes \cup {AllCode}
              PROVE  Address(mounted, interval, ex.exchangeName, urlCodePair(code)) \in URLs
            <4>1. code \in Seq(Words)
                BY Zenon, CodeFacts, NameTypes
            <4>2. urlCodePair(code) \in Seq(Words)
                BY <4>1, UrlCodeType
            <4>. QED
                BY <1>2, <1>4, <2>1, <4>2, AddressType
        <3>2. ex.symbols # <<>> => CodesOf(ex) \subseteq AllCodes
            BY Zenon, <1>2, CodesAre
        <3>. QED
            BY Zenon, <3>1, <3>2 DEF SymbolLinks, interval
    <2>. QED
        BY Zenon, <1>3, <1>6, <2>2, <2>3 DEF Links
<1>. QED
    BY <1>5, <1>6

-----------------------------------------------------------------------------
(* The patches of checkParameters(). *)

SymbolJob(symbols, k) == Set("exchange", updateSelectedSymbol(symbols, k), NoThen)

LEMMA SymbolJobIs ==
    ASSUME NEW L \in Lists, NEW k \in {0} \cup DOMAIN L
    PROVE  SymbolJob(L, k) \in SymbolJobs /\ Valid(SymbolJob(L, k), L)
<1>. DEFINE code == IF k = 0 THEN AllCode ELSE L[k].code
            symbol == IF k = 0 THEN NoSymbol ELSE L[k]
            patch == [selectedSymbol |-> k, currencyCodePair |-> code, symbol |-> symbol]
            C == AllCodes \cup {AllCode}
            A == 0..Len(AllSymbols)
<1>1. updateSelectedSymbol(L, k) = patch
    BY DEF updateSelectedSymbol, getSymbol
<1>2. k \in A
    BY ListFacts, AllSymbolsType
<1>3. code \in C /\ symbol \in Symbols
    BY ListFacts, NoSymbolType
<1>4. code = AllCode \/ symbol = L[k]
    OBVIOUS
<1>. HIDE DEF code, symbol, C, A
<1>5. patch \in [selectedSymbol : A, currencyCodePair : C, symbol : Symbols]
    BY <1>2, <1>3
<1>6. patch.selectedSymbol = k /\ patch.currencyCodePair = code /\ patch.symbol = symbol
    OBVIOUS
<1>. HIDE DEF patch
<1>7. SymbolJob(L, k) = [k |-> "set", container |-> "exchange", patch |-> patch, then |-> NoThen]
    BY <1>1 DEF SymbolJob, Set
<1>8. SymbolJob(L, k).patch = patch
    BY <1>7
<1>9. Valid(SymbolJob(L, k), L)
    BY Zenon, <1>4, <1>6, <1>8 DEF Valid
<1>10. SymbolJob(L, k) \in SymbolJobs
    BY <1>5, <1>7 DEF SymbolJobs, SetsOf, A, C
<1>. QED
    BY <1>9, <1>10

LEMMA ListedJobs ==
    ASSUME NEW n \in Nat, NEW D, D \subseteq 0..n, NEW f, NEW T, f \in [D -> T],
           \A x \in T : \E k \in D : x = f[k]
    PROVE  SetToSeq(T) \in Seq(T) /\ (SetToSeq(T) = <<>> <=> D = {})
<1>0. DOMAIN f = D /\ f = [k \in D |-> f[k]] /\ T = {f[k] : k \in D} /\ (T = {} <=> D = {})
    OBVIOUS
<1>1. IsFiniteSet(T)
    BY <1>0, FiniteImage
<1>. QED
    BY <1>0, <1>1, SetToSeqLists

Reaches(u, s) ==
    normalCodePair(u.pair) \in CodesOf(s) \/ (normalCodePair(u.pair) = AllCode /\ NeedsAll(u.page))

LEMMA SymbolSetsAre ==
    ASSUME NEW u, NEW s \in Selections, Going(s)
    PROVE  LET q == SymbolSets(u, s)
           IN  /\ q \in Seq(SymbolJobs)
               /\ \A j \in In(q) : Valid(j, s.symbols)
               /\ q = <<>> <=> (normalCodePair(u.pair) = s.currencyCodePair \/ ~Reaches(u, s))
<1>. DEFINE code == normalCodePair(u.pair)
            L == s.symbols
            toAll == code = AllCode /\ NeedsAll(u.page)
            matches == {k \in DOMAIN L : L[k].code = code}
            D == IF s.currencyCodePair = code THEN {} ELSE IF toAll THEN {0} ELSE matches
            f == [k \in D |-> SymbolJob(L, k)]
<1>1. L \in Lists
    BY GoingFacts DEF Applied
<1>2. Len(L) \in Nat /\ DOMAIN L = 1..Len(L)
    BY <1>1, ListFacts
<1>3. D \in SUBSET ({0} \cup DOMAIN L)
    BY Zenon
<1>4. D = {} <=> (code = s.currencyCodePair \/ ~Reaches(u, s))
    <2>1. matches = {} <=> code \notin CodesOf(s)
        BY Zenon DEF CodesOf
    <2>2. {0} # {}
        OBVIOUS
    <2>. HIDE DEF matches
    <2>. QED
        BY Zenon, <2>1, <2>2 DEF Reaches
<1>5. SymbolSets(u, s) = SetToSeq({SymbolJob(L, k) : k \in D})
    BY Zenon DEF SymbolSets, SymbolJob
<1>. DEFINE T == {SymbolJob(L, k) : k \in D}
<1>. HIDE DEF D, L
<1>6. \A k \in D : SymbolJob(L, k) \in SymbolJobs /\ Valid(SymbolJob(L, k), L)
    BY Zenon, <1>1, <1>3, SymbolJobIs
<1>7. T \subseteq SymbolJobs /\ \A j \in T : Valid(j, L)
    BY <1>6
<1>8. f \in [D -> T] /\ \A x \in T : \E k \in D : x = f[k]
    OBVIOUS
<1>9. D \subseteq 0..Len(L)
    <2>1. {0} \cup DOMAIN L \subseteq 0..Len(L)
        BY <1>2
    <2>. QED
        BY Zenon, <1>3, <2>1
<1>10. SymbolSets(u, s) = SetToSeq(T)
    BY <1>5
<1>. HIDE DEF f, T
<1>11. SetToSeq(T) \in Seq(T) /\ (SetToSeq(T) = <<>> <=> D = {})
    BY <1>2, <1>8, <1>9, ListedJobs
<1>. DEFINE q == SetToSeq(T)
<1>. HIDE DEF q
<1>12. q \in Seq(T) /\ (q = <<>> <=> D = {})
    BY <1>11 DEF q
<1>13. q \in Seq(SymbolJobs) /\ \A j \in In(q) : Valid(j, L)
    BY <1>7, <1>12, SeqSubset, InElements
<1>. QED
    BY Zenon, <1>4, <1>10, <1>12, <1>13 DEF L, q

LEMMA ExchangeJobIs ==
    ASSUME NEW i \in 0..Len(Catalogue), NEW then \in {NoThen} \cup [k : {"symbol"}, url : URLs]
    PROVE  Set("exchange", updateSelectedExchange(i), then) \in ExchangeJobs
<1>. DEFINE P == {updateSelectedExchange(n) : n \in 0..Len(Catalogue)}
            T == {NoThen} \cup [k : {"symbol"}, url : URLs]
            p == updateSelectedExchange(i)
<1>1. p \in P /\ then \in T
    BY Zenon
<1>. HIDE DEF P, T, p
<1>2. [k |-> "set", container |-> "exchange", patch |-> p, then |-> then]
        \in [k : {"set"}, container : {"exchange"}, patch : P, then : T]
    BY <1>1
<1>. QED
    BY <1>2 DEF ExchangeJobs, SetsOf, Set, P, T, p

LEMMA ExchangeSetsAre ==
    ASSUME NEW u, NEW s
    PROVE  LET q == ExchangeSets(u, s)
           IN  /\ q \in Seq(ExchangeJobs)
               /\ q = <<>> <=> (u.exchange = s.exchangeName \/ u.exchange \notin Exchanges)
<1>. DEFINE matches == {i \in DOMAIN Catalogue : Catalogue[i].name = u.exchange}
            D == IF s.exchangeName = u.exchange THEN {} ELSE matches
            f == [i \in D |-> Set("exchange", updateSelectedExchange(i), NoThen)]
            T == {Set("exchange", updateSelectedExchange(i), NoThen) : i \in D}
<1>1. Len(Catalogue) \in Nat /\ DOMAIN Catalogue = 1..Len(Catalogue)
    BY CatalogueType
<1>2. D \in SUBSET DOMAIN Catalogue
    BY Zenon
<1>3. D = {} <=> (u.exchange = s.exchangeName \/ u.exchange \notin Exchanges)
    BY Zenon DEF Exchanges
<1>4. ExchangeSets(u, s) = SetToSeq(T)
    BY Zenon DEF ExchangeSets
<1>. HIDE DEF D
<1>5. f \in [D -> T] /\ \A x \in T : \E k \in D : x = f[k]
    OBVIOUS
<1>6. D \subseteq 0..Len(Catalogue)
    BY <1>1, <1>2
<1>7. T \subseteq ExchangeJobs
    <2>1. \A i \in D : Set("exchange", updateSelectedExchange(i), NoThen) \in ExchangeJobs
        BY Zenon, <1>6, ExchangeJobIs
    <2>. QED
        BY <2>1
<1>. HIDE DEF f, T
<1>8. SetToSeq(T) \in Seq(T) /\ (SetToSeq(T) = <<>> <=> D = {})
    BY <1>1, <1>5, <1>6, ListedJobs
<1>9. SetToSeq(T) \in Seq(ExchangeJobs)
    BY <1>7, <1>8, SeqSubset
<1>. QED
    BY Zenon, <1>3, <1>4, <1>8, <1>9

MustLeave(u, s) == u.exchange = All /\ NeedsAll(u.page) /\ s.exchangeName # All

LEMMA SelectionSetsAre ==
    ASSUME NEW u \in URLs, NEW s \in Selections, Going(s)
    PROVE  LET q == SelectionSets(u, s)
           IN  /\ q \in Seq(HeaderJobs)
               /\ \A j \in In(q) : j \in ExchangeJobs \cup SymbolJobs
               /\ \A j \in In(q) : j \in SymbolJobs => Valid(j, s.symbols) \/ \E x \in In(q) : x \in ExchangeJobs
               /\ \/ \E j \in In(q) : j \in ExchangeJobs
                  \/ /\ q = SymbolSets(u, s) /\ ~MustLeave(u, s)
                     /\ u.exchange = s.exchangeName \/ u.exchange \notin Exchanges
<1>. DEFINE q == SelectionSets(u, s)
            a == ExchangeSets(u, s)
            b == SymbolSets(u, s)
            J == Set("exchange", updateSelectedExchange(0), Then("symbol", u))
            both == ExchangeJobs \cup SymbolJobs
<1>0. both \subseteq HeaderJobs /\ ExchangeJobs \subseteq both /\ SymbolJobs \subseteq both
    BY Zenon DEF HeaderJobs
<1>1. CASE MustLeave(u, s)
    <2>1. q = <<J>>
        BY Zenon, <1>1 DEF SelectionSets, MustLeave
    <2>2. Then("symbol", u) \in [k : {"symbol"}, url : URLs]
        BY DEF Then
    <2>3. 0 \in 0..Len(Catalogue)
        BY CatalogueType
    <2>4. J \in ExchangeJobs
        BY <2>2, <2>3, ExchangeJobIs
    <2>. HIDE DEF J, q, both
    <2>5. q \in Seq(HeaderJobs) /\ In(q) = {J}
        BY <2>1, <2>4, <1>0, InSmall
    <2>. QED
        BY Zenon, <1>0, <2>4, <2>5 DEF q, both
<1>2. CASE ~MustLeave(u, s)
    <2>1. q = a \o b
        BY Zenon, <1>2 DEF SelectionSets, MustLeave
    <2>2. /\ a \in Seq(ExchangeJobs)
          /\ a = <<>> <=> (u.exchange = s.exchangeName \/ u.exchange \notin Exchanges)
        BY ExchangeSetsAre
    <2>3. b \in Seq(SymbolJobs) /\ \A j \in In(b) : Valid(j, s.symbols)
        BY SymbolSetsAre
    <2>. HIDE DEF q, a, b, both
    <2>4. a \in Seq(both) /\ b \in Seq(both)
        BY <1>0, <2>2, <2>3, SeqSubset
    <2>5. q \in Seq(both) /\ In(q) = In(a) \cup In(b)
        BY <2>1, <2>4, InConcat
    <2>6. q \in Seq(HeaderJobs)
        BY <1>0, <2>5, SeqSubset
    <2>7. /\ \A j \in In(a) : j \in ExchangeJobs
          /\ \A j \in In(b) : j \in SymbolJobs
        BY <2>2, <2>3, InElements
    <2>8. CASE a = <<>>
        <3>1. q = b
            BY <2>1, <2>3, <2>8
        <3>2. In(q) = In(b)
            BY <3>1
        <3>. QED
            BY Zenon, <1>2, <2>2, <2>3, <2>6, <2>7, <2>8, <3>1, <3>2 DEF q, b
    <2>9. CASE a # <<>>
        <3>1. PICK x \in In(a) : TRUE
            BY <2>2, <2>9, InEmpty
        <3>2. x \in In(q) /\ x \in ExchangeJobs
            BY Zenon, <2>5, <2>7
        <3>. QED
            BY Zenon, <2>5, <2>6, <2>7, <3>2 DEF q
    <2>. QED
        BY <2>8, <2>9
<1>. QED
    BY <1>1, <1>2

LEMMA SetsAre ==
    ASSUME NEW u \in URLs, NEW s \in Selections, Going(s)
    PROVE  LET q == Sets(u, s)
           IN  /\ q \in Seq(HeaderJobs)
               /\ \/ /\ u.interval \notin {Blank, s.interval} /\ q # <<>>
                     /\ \A j \in In(q) : j \in IntervalJobs /\ j.patch.interval = u.interval
                     /\ \E j \in IntervalJobs : In(q) = {j}
                  \/ u.interval \in {Blank, s.interval} /\ q = SelectionSets(u, s)
<1>. DEFINE q == Sets(u, s)
            v == u.interval
            J == Set("exchange", [interval |-> v], Then("selection", u))
<1>1. CASE v \in {Blank, s.interval}
    <2>1. q = SelectionSets(u, s)
        BY Zenon, <1>1 DEF Sets
    <2>2. q \in Seq(HeaderJobs)
        BY <2>1, SelectionSetsAre
    <2>. QED
        BY Zenon, <1>1, <2>1, <2>2
<1>2. CASE v \notin {Blank, s.interval}
    <2>1. q = <<J>>
        BY Zenon, <1>2 DEF Sets
    <2>2. Then("selection", u) \in [k : {"selection"}, url : URLs]
        BY DEF Then
    <2>3. v \in Words
        BY UrlParts
    <2>. HIDE DEF v
    <2>4. [interval |-> v] \in [interval : Words] /\ [interval |-> v].interval = v
        BY <2>3
    <2>. DEFINE p == [interval |-> v]
                t == Then("selection", u)
    <2>. HIDE DEF p, t
    <2>5. p \in [interval : Words] /\ p.interval = v /\ t \in [k : {"selection"}, url : URLs]
        BY <2>2, <2>4 DEF p, t
    <2>6. J = [k |-> "set", container |-> "exchange", patch |-> p, then |-> t]
        BY Zenon DEF Set, p, t
    <2>. HIDE DEF J
    <2>7. J \in IntervalJobs /\ J.patch.interval = v
        BY <2>5, <2>6 DEF IntervalJobs, SetsOf
    <2>8. J \in HeaderJobs
        BY Zenon, <2>7 DEF HeaderJobs
    <2>. HIDE DEF q
    <2>9. q \in Seq(HeaderJobs) /\ In(q) = {J} /\ q # <<>>
        BY <2>1, <2>8, InSmall
    <2>. QED
        BY Zenon, <1>2, <2>7, <2>9 DEF q, v
<1>. QED
    BY <1>1, <1>2

-----------------------------------------------------------------------------
(* An address that checkParameters() leaves alone. *)

(* The pair: it is the selected one, or one that is patched in.              *)
LEMMA CodeArrives ==
    ASSUME NEW u \in URLs, NEW s \in Selections, Going(s), NewPath(u, s) = u
    PROVE  /\ normalCodePair(u.pair) = NewCode(u, s)
           /\ normalCodePair(u.pair) = s.currencyCodePair \/ Reaches(u, s)
           /\ s.currencyCodePair = AllCode /\ normalCodePair(u.pair) = AllCode => NeedsAll(u.page)
<1>. DEFINE c == normalCodePair(u.pair)
<1>1. Applied(s)
    BY GoingFacts
<1>2. u.pair = urlCodePair(NewCode(u, s))
    BY NewPathType
<1>3. c = NewCode(u, s)
    BY <1>2, NewCodeType
<1>4. s.symbols[1].code \in CodesOf(s) /\ s.symbols[1].code # AllCode
    BY Zenon, <1>1, CodeFacts DEF Applied, Proper
<1>5. c = s.currencyCodePair \/ Reaches(u, s)
    BY Zenon, <1>3, <1>4 DEF NewCode, Reaches
<1>6. s.currencyCodePair = AllCode /\ c = AllCode => NeedsAll(u.page)
    BY Zenon, <1>3, <1>4 DEF NewCode
<1>. QED
    BY <1>3, <1>5, <1>6

LEMMA ExchangeArrives ==
    ASSUME NEW u \in URLs, NEW s \in Selections, Going(s), NewPath(u, s) = u, ~MustLeave(u, s),
           u.exchange = s.exchangeName \/ u.exchange \notin Exchanges
    PROVE  u.exchange = s.exchangeName
<1>1. u.exchange = NewExchange(u, s)
    BY NewPathType
<1>2. Catalogue[1].name \in Exchanges
    BY FirstExchange
<1>. QED
    BY Zenon, <1>1, <1>2 DEF NewExchange, MustLeave

LEMMA IntervalArrives ==
    ASSUME NEW u, NewInterval(u) = u.interval, NeedsInterval(u.page)
    PROVE  u.interval # Blank
<1>1. Blank \notin {"now", "day", "week", "month"}
    BY Zenon DEF Blank
<1>2. "day" # Blank
    BY Zenon DEF Blank
<1>. QED
    BY Zenon, <1>1, <1>2 DEF NewInterval

LEMMA SettledMeans ==
    ASSUME NEW u \in URLs, NEW s \in Selections, Going(s), NewPath(u, s) = u, Sets(u, s) = <<>>
    PROVE  /\ u.exchange = s.exchangeName
           /\ normalCodePair(u.pair) = s.currencyCodePair
           /\ NeedsInterval(u.page) => u.interval = s.interval
<1>1. u.interval \in {Blank, s.interval} /\ SelectionSets(u, s) = <<>>
    BY Zenon, SetsAre
<1>2. NeedsInterval(u.page) => u.interval = s.interval
    <2>1. NewInterval(u) = u.interval
        BY NewPathType
    <2>. QED
        BY Zenon, <1>1, <2>1, IntervalArrives
<1>3. In(SelectionSets(u, s)) = {}
    BY <1>1 DEF In
<1>4. /\ SelectionSets(u, s) = SymbolSets(u, s) /\ ~MustLeave(u, s)
      /\ u.exchange = s.exchangeName \/ u.exchange \notin Exchanges
    BY Zenon, <1>3, SelectionSetsAre
<1>5. u.exchange = s.exchangeName
    BY <1>4, ExchangeArrives
<1>6. normalCodePair(u.pair) = s.currencyCodePair \/ ~Reaches(u, s)
    BY Zenon, <1>1, <1>4, SymbolSetsAre
<1>. QED
    BY Zenon, <1>2, <1>5, <1>6, CodeArrives

(* The address makes a patch from other symbols harmless: its code is the    *)
(* first of the exchange, or "all".                                          *)
HarmlessAt(u, s) ==
    normalCodePair(u.pair) = s.symbols[1].code \/ (normalCodePair(u.pair) = AllCode /\ NeedsAll(u.page))

LEMMA HarmlessWhenInitial ==
    ASSUME NEW u \in URLs, NEW s \in Selections, Going(s), NewPath(u, s) = u, Initial(s),
           SymbolSets(u, s) = <<>>
    PROVE  HarmlessAt(u, s)
<1>1. normalCodePair(u.pair) = s.currencyCodePair
    BY Zenon, SymbolSetsAre, CodeArrives
<1>. QED
    BY Zenon, <1>1, CodeArrives DEF Initial, HarmlessAt

LEMMA HarmlessStays ==
    ASSUME NEW u \in URLs, NEW s \in Selections, Going(s), HarmlessAt(u, s)
    PROVE  HarmlessAt(NewPath(u, s), s)
<1>1. Applied(s)
    BY GoingFacts
<1>2. s.symbols[1].code \in CodesOf(s) /\ s.symbols[1].code # AllCode
    BY Zenon, <1>1, CodeFacts DEF Applied, Proper
<1>3. NewCode(u, s) = normalCodePair(u.pair)
    BY Zenon, <1>2 DEF NewCode, HarmlessAt
<1>4. normalCodePair(NewPath(u, s).pair) = NewCode(u, s) /\ NewPath(u, s).page = u.page
    BY NewPathType, NewCodeType
<1>. QED
    BY Zenon, <1>3, <1>4 DEF HarmlessAt

LEMMA HarmlessIsFixed ==
    ASSUME NEW u \in URLs, NEW s \in Selections, Going(s), NewPath(u, s) = u, Sets(u, s) = <<>>,
           HarmlessAt(u, s)
    PROVE  Fixed(s)
<1>1. normalCodePair(u.pair) = s.currencyCodePair
    BY SettledMeans
<1>. QED
    BY Zenon, <1>1 DEF HarmlessAt, Fixed, Initial

-----------------------------------------------------------------------------
(* Patches of symbols in a queue. *)

AllValid(q, symbols) == \A j \in In(q) : MovesSymbol(j) => Valid(j, symbols)

LEMMA MendedMore ==
    ASSUME NEW S, NEW s \in Seq(S), NEW t \in Seq(S), NEW L, Mended(s, L), AllValid(t, L)
    PROVE  Mended(s \o t, L)
<1>. DEFINE c == s \o t
<1>1. PICK i \in DOMAIN s :
        /\ MovesSymbol(s[i]) /\ Valid(s[i], L)
        /\ \A m \in DOMAIN s : m > i /\ MovesSymbol(s[m]) => Valid(s[m], L)
    BY DEF Mended
<1>2. /\ i \in DOMAIN c /\ c[i] = s[i]
      /\ \A x \in DOMAIN c : \/ x \in DOMAIN s /\ c[x] = s[x]
                             \/ x - Len(s) \in DOMAIN t /\ c[x] = t[x - Len(s)]
    OBVIOUS
<1>3. \A x \in DOMAIN t : MovesSymbol(t[x]) => Valid(t[x], L)
    BY Zenon DEF AllValid, In
<1>. HIDE DEF c
<1>4. ASSUME NEW m \in DOMAIN c, m > i, MovesSymbol(c[m]) PROVE Valid(c[m], L)
    BY <1>1, <1>2, <1>3, <1>4
<1>. QED
    BY Zenon, <1>1, <1>2, <1>4 DEF Mended, c

LEMMA MendedBehind ==
    ASSUME NEW S, NEW s \in Seq(S), NEW t \in Seq(S), NEW L, Mended(t, L)
    PROVE  Mended(s \o t, L)
<1>. DEFINE c == s \o t
            n == Len(s)
<1>1. PICK i \in DOMAIN t :
        /\ MovesSymbol(t[i]) /\ Valid(t[i], L)
        /\ \A m \in DOMAIN t : m > i /\ MovesSymbol(t[m]) => Valid(t[m], L)
    BY DEF Mended
<1>2. /\ i + n \in DOMAIN c /\ c[i + n] = t[i]
      /\ \A x \in DOMAIN c : x > i + n => x - n \in DOMAIN t /\ c[x] = t[x - n] /\ x - n > i
    OBVIOUS
<1>. HIDE DEF c, n
<1>3. ASSUME NEW m \in DOMAIN c, m > i + n, MovesSymbol(c[m]) PROVE Valid(c[m], L)
    BY <1>1, <1>2, <1>3
<1>4. MovesSymbol(c[i + n]) /\ Valid(c[i + n], L)
    BY <1>1, <1>2
<1>. QED
    BY Zenon, <1>2, <1>3, <1>4 DEF Mended, c

LEMMA MendedStart ==
    ASSUME NEW S, NEW t \in Seq(S), t # <<>>, NEW L,
           \A j \in In(t) : MovesSymbol(j) /\ Valid(j, L)
    PROVE  Mended(t, L)
<1>1. 1 \in DOMAIN t
    OBVIOUS
<1>2. \A x \in DOMAIN t : MovesSymbol(t[x]) /\ Valid(t[x], L)
    BY Zenon DEF In
<1>. QED
    BY Zenon, <1>1, <1>2 DEF Mended

LEMMA MendedTail ==
    ASSUME NEW S, NEW s \in Seq(S), s # <<>>, NEW L, Mended(s, L)
    PROVE  \/ Mended(Tail(s), L)
           \/ MovesSymbol(Head(s)) /\ Valid(Head(s), L) /\ AllValid(Tail(s), L)
<1>. DEFINE t == Tail(s)
<1>1. PICK i \in DOMAIN s :
        /\ MovesSymbol(s[i]) /\ Valid(s[i], L)
        /\ \A m \in DOMAIN s : m > i /\ MovesSymbol(s[m]) => Valid(s[m], L)
    BY DEF Mended
<1>2. /\ Head(s) = s[1] /\ i \in Nat /\ i > 0
      /\ \A x \in DOMAIN t : x \in Nat /\ x > 0 /\ x + 1 \in DOMAIN s /\ t[x] = s[x + 1]
      /\ i # 1 => i - 1 \in DOMAIN t
    OBVIOUS
<1>. HIDE DEF t
<1>3. CASE i = 1
    <2>1. \A x \in DOMAIN t : MovesSymbol(t[x]) => Valid(t[x], L)
        BY <1>1, <1>2, <1>3
    <2>2. AllValid(t, L)
        BY Zenon, <2>1 DEF AllValid, In
    <2>. QED
        BY <1>1, <1>2, <1>3, <2>2 DEF t
<1>4. CASE i # 1
    <2>1. i - 1 \in DOMAIN t /\ t[i - 1] = s[i]
        BY <1>2, <1>4
    <2>2. \A x \in DOMAIN t : x > i - 1 /\ MovesSymbol(t[x]) => Valid(t[x], L)
        BY <1>1, <1>2
    <2>. QED
        BY <1>1, <2>1, <2>2 DEF Mended, t
<1>. QED
    BY <1>3, <1>4

-----------------------------------------------------------------------------
(* Jobs by what they set. *)

LEMMA SetParts ==
    ASSUME NEW c, NEW p, NEW t
    PROVE  /\ Set(c, p, t).k = "set" /\ Set(c, p, t).container = c
           /\ Set(c, p, t).patch = p /\ Set(c, p, t).then = t
BY DEF Set

LEMMA SetsOfParts ==
    ASSUME NEW c, NEW P, NEW T, NEW j \in SetsOf(c, P, T)
    PROVE  /\ j.k = "set" /\ j.container = c /\ j.patch \in P /\ j.then \in T
           /\ j = Set(c, j.patch, j.then)
BY DEF SetsOf, Set

LEMMA SetsOfMember ==
    ASSUME NEW c, NEW P, NEW T, NEW p \in P, NEW t \in T
    PROVE  Set(c, p, t) \in SetsOf(c, P, T)
BY DEF SetsOf, Set

LEMMA RenderParts ==
    /\ \A j \in Renders : j.k = "render" /\ j.header \in BOOLEAN
    /\ Render(TRUE) \in Renders /\ Render(FALSE) \in Renders
    /\ Render(TRUE).header = TRUE /\ Render(FALSE).header = FALSE
BY DEF Renders, Render

FillListPatches == [loading : {FALSE}, data : Empties] \cup FillStates
UserListPatches == [loading : {FALSE}, data : Empties] \cup [data : Empties]
FillTaskJobs == SetsOf("postponed-fills", FillListPatches, {NoThen})
UserTaskJobs == SetsOf("users", UserListPatches, {NoThen})

ExplanationJobs == {AskExplanation(arg) : arg \in FullArgs} \cup {Explained(arg) : arg \in FullArgs}
PLGraphJobs     == {AskPLGraph(arg) : arg \in Args} \cup GraphJobs

JobsOf(p) ==
    CASE p = "exchange"        -> SelectJobs
      [] p = "configuration"   -> ConfigTaskJobs \cup {OpeningJob(p)}
      [] p = "postponed-fills" -> FillTaskJobs \cup {OpeningJob(p)}
      [] p = "users"           -> UserTaskJobs \cup {OpeningJob(p)}
      [] p = "explanation"     -> ExplanationJobs
      [] p = "plgraph"         -> PLGraphJobs
      [] p = "signals"         -> {ClearJob}

Settable == {"exchange", "configuration", "postponed-fills", "users", "explanation", "plgraph", "signals"}

IsJobOf(j, p) == j.k = "set" /\ j.container = p

LEMMA SelectJobKind == \A j \in SelectJobs : IsJobOf(j, "exchange")
<1>1. IsJobOf(LoadedJob, "exchange") /\ IsJobOf(FirstJob, "exchange")
    BY SetParts DEF LoadedJob, FirstJob, IsJobOf
<1>2. \A j \in HeaderJobs : IsJobOf(j, "exchange")
    BY IntervalJobParts, ExchangeJobParts, SymbolJobParts DEF HeaderJobs, IsJobOf
<1>. QED
    BY Zenon, <1>1, <1>2 DEF SelectJobs

LEMMA ConfigJobKind == \A j \in ConfigTaskJobs \cup {OpeningJob("configuration")} : IsJobOf(j, "configuration")
<1>1. \A text : /\ IsJobOf(ConfigJob(text), "configuration") /\ IsJobOf(SavingJob(text), "configuration")
                /\ IsJobOf(VerdictJob(text), "configuration")
    BY SetParts DEF ConfigJob, SavingJob, VerdictJob, IsJobOf
<1>2. IsJobOf(SavedJob, "configuration") /\ IsJobOf(OpeningJob("configuration"), "configuration")
    BY SetParts DEF SavedJob, OpeningJob, IsJobOf
<1>. QED
    BY <1>1, <1>2 DEF ConfigTaskJobs

LEMMA FillJobKind == \A j \in FillTaskJobs \cup {OpeningJob("postponed-fills")} : IsJobOf(j, "postponed-fills")
<1>1. IsJobOf(OpeningJob("postponed-fills"), "postponed-fills")
    BY SetParts DEF OpeningJob, IsJobOf
<1>2. ASSUME NEW j \in FillTaskJobs PROVE IsJobOf(j, "postponed-fills")
    BY SetsOfParts DEF FillTaskJobs, IsJobOf
<1>. QED
    BY Zenon, <1>1, <1>2

LEMMA UserJobKind == \A j \in UserTaskJobs \cup {OpeningJob("users")} : IsJobOf(j, "users")
<1>1. IsJobOf(OpeningJob("users"), "users")
    BY SetParts DEF OpeningJob, IsJobOf
<1>2. ASSUME NEW j \in UserTaskJobs PROVE IsJobOf(j, "users")
    BY SetsOfParts DEF UserTaskJobs, IsJobOf
<1>. QED
    BY Zenon, <1>1, <1>2

LEMMA ExplanationJobKind == \A j \in ExplanationJobs : IsJobOf(j, "explanation")
<1>1. \A arg : IsJobOf(AskExplanation(arg), "explanation") /\ IsJobOf(Explained(arg), "explanation")
    BY SetParts DEF AskExplanation, Explained, IsJobOf
<1>. QED
    BY <1>1 DEF ExplanationJobs

LEMMA PLGraphJobKind == \A j \in PLGraphJobs : IsJobOf(j, "plgraph")
<1>1. \A arg : IsJobOf(AskPLGraph(arg), "plgraph")
    BY SetParts DEF AskPLGraph, IsJobOf
<1>2. ASSUME NEW j \in GraphJobs PROVE IsJobOf(j, "plgraph")
    BY SetsOfParts DEF GraphJobs, IsJobOf
<1>. QED
    BY <1>1, <1>2 DEF PLGraphJobs

LEMMA ClearJobKind == IsJobOf(ClearJob, "signals")
BY SetParts DEF ClearJob, IsJobOf

LEMMA JobsAre ==
    Jobs = Renders \cup SelectJobs \cup (ConfigTaskJobs \cup {OpeningJob("configuration")})
             \cup (FillTaskJobs \cup {OpeningJob("postponed-fills")})
             \cup (UserTaskJobs \cup {OpeningJob("users")})
             \cup ExplanationJobs \cup PLGraphJobs \cup {ClearJob}
<1>. DEFINE A == {AskExplanation(arg) : arg \in FullArgs}
            B == {AskPLGraph(arg) : arg \in Args}
            C == {Explained(arg) : arg \in FullArgs}
            O == {OpeningJob(p) : p \in Openers}
<1>1. O = {OpeningJob("configuration"), OpeningJob("postponed-fills"), OpeningJob("users")}
    BY DEF Openers
<1>2. ExplanationJobs = A \cup C /\ PLGraphJobs = B \cup GraphJobs
    BY DEF ExplanationJobs, PLGraphJobs
<1>3. TaskJobs = {LoadedJob} \cup ConfigTaskJobs \cup (FillTaskJobs \cup UserTaskJobs) \cup C \cup GraphJobs
    BY DEF TaskJobs, ListTaskJobs, FillTaskJobs, UserTaskJobs, FillListPatches, UserListPatches
<1>4. PageJobs = O \cup A \cup B \cup {ClearJob}
    BY DEF PageJobs
<1>5. LoadedJob \in SelectJobs
    BY DEF SelectJobs
<1>. HIDE DEF A, B, C, O
<1>. QED
    BY <1>1, <1>2, <1>3, <1>4, <1>5 DEF Jobs

LEMMA JobKinds ==
    ASSUME NEW j \in Jobs
    PROVE  \/ j \in Renders
           \/ \E p \in Settable : IsJobOf(j, p) /\ j \in JobsOf(p)
<1>. DEFINE K(p) == IsJobOf(j, p) /\ j \in JobsOf(p)
<1>1. CASE j \in SelectJobs
    <2>1. K("exchange")
        BY <1>1, SelectJobKind DEF JobsOf
    <2>. QED
        BY <2>1 DEF Settable
<1>2. CASE j \in ConfigTaskJobs \cup {OpeningJob("configuration")}
    <2>1. K("configuration")
        BY <1>2, ConfigJobKind DEF JobsOf
    <2>. QED
        BY <2>1 DEF Settable
<1>3. CASE j \in FillTaskJobs \cup {OpeningJob("postponed-fills")}
    <2>1. K("postponed-fills")
        BY <1>3, FillJobKind DEF JobsOf
    <2>. QED
        BY <2>1 DEF Settable
<1>4. CASE j \in UserTaskJobs \cup {OpeningJob("users")}
    <2>1. K("users")
        BY <1>4, UserJobKind DEF JobsOf
    <2>. QED
        BY <2>1 DEF Settable
<1>5. CASE j \in ExplanationJobs
    <2>1. K("explanation")
        BY <1>5, ExplanationJobKind DEF JobsOf
    <2>. QED
        BY <2>1 DEF Settable
<1>6. CASE j \in PLGraphJobs
    <2>1. K("plgraph")
        BY <1>6, PLGraphJobKind DEF JobsOf
    <2>. QED
        BY <2>1 DEF Settable
<1>7. CASE j = ClearJob
    <2>1. K("signals")
        BY <1>7, ClearJobKind DEF JobsOf
    <2>. QED
        BY <2>1 DEF Settable
<1>. QED
    BY Zenon, <1>1, <1>2, <1>3, <1>4, <1>5, <1>6, <1>7, JobsAre

LEMMA JobsOfAre ==
    /\ JobsOf("exchange") = SelectJobs
    /\ JobsOf("configuration") = ConfigTaskJobs \cup {OpeningJob("configuration")}
    /\ JobsOf("postponed-fills") = FillTaskJobs \cup {OpeningJob("postponed-fills")}
    /\ JobsOf("users") = UserTaskJobs \cup {OpeningJob("users")}
    /\ JobsOf("explanation") = ExplanationJobs
    /\ JobsOf("plgraph") = PLGraphJobs
    /\ JobsOf("signals") = {ClearJob}
BY DEF JobsOf

LEMMA JobContainer ==
    ASSUME NEW j \in Jobs, j.k = "set"
    PROVE  j.container \in Settable /\ j \in JobsOf(j.container)
<1>1. j \notin Renders
    BY RenderParts
<1>2. PICK p \in Settable : IsJobOf(j, p) /\ j \in JobsOf(p)
    BY <1>1, JobKinds
<1>3. j.container = p
    BY <1>2 DEF IsJobOf
<1>. QED
    BY <1>2, <1>3

LEMMA JobRenders ==
    ASSUME NEW j \in Jobs, j.k = "render"
    PROVE  j \in Renders
BY JobKinds DEF IsJobOf


-----------------------------------------------------------------------------
(* The containers of the pages after a patch. *)

(* Patches and what they make. *)
LoadPatch(a)            == [loading |-> a]
SavePatch(a)            == [saving |-> a]
VerdictPatch(a)         == [verdict |-> a]
DataPatch(a, b)         == [loading |-> a, data |-> b]
FollowPatch(a, b, c, d) == [loading |-> a, data |-> b, exchange |-> c, code |-> d]

LEMMA PatchedWhole ==
    ASSUME NEW s, NEW p, DOMAIN s = DOMAIN p, p = [x \in DOMAIN p |-> p[x]]
    PROVE  Patched(s, p) = p
BY DEF Patched

LEMMA PatchedAt ==
    ASSUME NEW s, NEW p, NEW x \in DOMAIN s
    PROVE  /\ DOMAIN Patched(s, p) = DOMAIN s
           /\ Patched(s, p) = [y \in DOMAIN s |-> Patched(s, p)[y]]
           /\ x \in DOMAIN p => Patched(s, p)[x] = p[x]
           /\ x \notin DOMAIN p => Patched(s, p)[x] = s[x]
BY DEF Patched

ConfigFields(s) ==
    /\ s = [x \in {"loading", "data", "verdict", "saving"} |-> s[x]]
    /\ s.loading \in BOOLEAN /\ s.data \in {NoData} \cup {TextArg(text) : text \in Texts}
    /\ s.verdict \in AnyText /\ s.saving \in BOOLEAN

LEMMA ConfigStatesAre == \A s : s \in ConfigStates <=> ConfigFields(s)
<1>. DEFINE D == {NoData} \cup {TextArg(text) : text \in Texts}
<1>. HIDE DEF D
<1>1. ASSUME NEW s, s \in [loading : BOOLEAN, data : D, verdict : AnyText, saving : BOOLEAN]
      PROVE  /\ s = [x \in {"loading", "data", "verdict", "saving"} |-> s[x]]
             /\ s.loading \in BOOLEAN /\ s.data \in D /\ s.verdict \in AnyText /\ s.saving \in BOOLEAN
    BY <1>1
<1>2. ASSUME NEW s, s = [x \in {"loading", "data", "verdict", "saving"} |-> s[x]],
             s.loading \in BOOLEAN, s.data \in D, s.verdict \in AnyText, s.saving \in BOOLEAN
      PROVE  s \in [loading : BOOLEAN, data : D, verdict : AnyText, saving : BOOLEAN]
    BY <1>2
<1>. QED
    BY Zenon, <1>1, <1>2 DEF ConfigStates, ConfigFields, D

FollowFields(s) ==
    /\ s = [x \in {"loading", "data", "exchange", "code"} |-> s[x]]
    /\ s.loading \in BOOLEAN /\ s.data \in {NoData} \cup Args
    /\ s.exchange \in Names \cup {Null} /\ s.code \in Codes

LEMMA FollowStatesAre == \A s : s \in FollowStates <=> FollowFields(s)
<1>. DEFINE D == {NoData} \cup Args
            N == Names \cup {Null}
<1>. HIDE DEF D, N
<1>1. ASSUME NEW s, s \in [loading : BOOLEAN, data : D, exchange : N, code : Codes]
      PROVE  /\ s = [x \in {"loading", "data", "exchange", "code"} |-> s[x]]
             /\ s.loading \in BOOLEAN /\ s.data \in D /\ s.exchange \in N /\ s.code \in Codes
    BY <1>1
<1>2. ASSUME NEW s, s = [x \in {"loading", "data", "exchange", "code"} |-> s[x]],
             s.loading \in BOOLEAN, s.data \in D, s.exchange \in N, s.code \in Codes
      PROVE  s \in [loading : BOOLEAN, data : D, exchange : N, code : Codes]
    BY <1>2
<1>. QED
    BY Zenon, <1>1, <1>2 DEF FollowStates, FollowFields, D, N

LEMMA ConfigPatched ==
    ASSUME NEW s \in ConfigStates, NEW p
    PROVE  LET t == Patched(s, p)
           IN  /\ t = [x \in {"loading", "data", "verdict", "saving"} |-> t[x]]
               /\ \A x \in {"loading", "data", "verdict", "saving"} :
                    /\ x \in DOMAIN p => t[x] = p[x]
                    /\ x \notin DOMAIN p => t[x] = s[x]
<1>1. DOMAIN s = {"loading", "data", "verdict", "saving"}
    BY ConfigStatesAre DEF ConfigFields
<1>. QED
    BY <1>1, PatchedAt

LEMMA FollowPatched ==
    ASSUME NEW s \in FollowStates, NEW p
    PROVE  LET t == Patched(s, p)
           IN  /\ t = [x \in {"loading", "data", "exchange", "code"} |-> t[x]]
               /\ \A x \in {"loading", "data", "exchange", "code"} :
                    /\ x \in DOMAIN p => t[x] = p[x]
                    /\ x \notin DOMAIN p => t[x] = s[x]
<1>1. DOMAIN s = {"loading", "data", "exchange", "code"}
    BY FollowStatesAre DEF FollowFields
<1>. QED
    BY <1>1, PatchedAt

LEMMA FillPatched ==
    ASSUME NEW s \in FillStates, NEW p \in {LoadPatch(TRUE)} \cup FillListPatches
    PROVE  Patched(s, p) \in FillStates
<1>1. CASE p = LoadPatch(TRUE)
    BY <1>1 DEF FillStates, Patched, LoadPatch
<1>2. CASE p \in [loading : {FALSE}, data : Empties]
    BY <1>2 DEF FillStates, Patched
<1>3. CASE p \in FillStates
    <2>1. DOMAIN s = DOMAIN p /\ p = [x \in DOMAIN p |-> p[x]]
        BY <1>3 DEF FillStates
    <2>. QED
        BY <1>3, <2>1, PatchedWhole
<1>. QED
    BY <1>1, <1>2, <1>3 DEF FillListPatches

LEMMA UserPatched ==
    ASSUME NEW s \in UserStates, NEW p \in {LoadPatch(TRUE)} \cup UserListPatches
    PROVE  Patched(s, p) \in UserStates
<1>1. CASE p = LoadPatch(TRUE)
    BY <1>1 DEF UserStates, Patched, LoadPatch
<1>2. CASE p \in [loading : {FALSE}, data : Empties]
    BY <1>2 DEF UserStates, Patched
<1>3. CASE p \in [data : Empties]
    BY <1>3 DEF UserStates, Patched
<1>. QED
    BY <1>1, <1>2, <1>3 DEF UserListPatches

LEMMA ClearPatched == Patched(clearState, clearState) = clearState
<1>. DEFINE n == NoData
            e == Blank
            c == NoCode
<1>1. clearState = [loading |-> TRUE, data |-> n, exchange |-> e, code |-> c]
    BY DEF clearState
<1>. HIDE DEF n, e, c
<1>. QED
    BY <1>1 DEF Patched

(* Each job by its patch and by what follows it.                             *)
LEMMA ConfigJobIs ==
    ASSUME NEW j \in JobsOf("configuration")
    PROVE  \/ \E text \in Texts : j = ConfigJob(text)
           \/ \E text \in AnyText : j = SavingJob(text)
           \/ j = SavedJob
           \/ \E text \in AnyText : j = VerdictJob(text)
           \/ j = OpeningJob("configuration")
BY JobsOfAre DEF ConfigTaskJobs

LEMMA ConfigJobParts ==
    ASSUME NEW text
    PROVE  /\ ConfigJob(text).patch = DataPatch(FALSE, TextArg(text))
           /\ ConfigJob(text).then = Ask("validate", TextArg(text))
           /\ SavingJob(text).patch = SavePatch(TRUE)
           /\ SavingJob(text).then = Ask("save", TextArg(text))
           /\ SavedJob.patch = SavePatch(FALSE) /\ SavedJob.then = NoThen
           /\ VerdictJob(text).patch = VerdictPatch(text) /\ VerdictJob(text).then = NoThen
BY SetParts DEF ConfigJob, SavingJob, SavedJob, VerdictJob, DataPatch, SavePatch, VerdictPatch

LEMMA OpeningJobParts ==
    ASSUME NEW p
    PROVE  /\ OpeningJob(p).patch = LoadPatch(TRUE)
           /\ OpeningJob(p).then = Ask(FirstRequest[p], NoArg)
BY SetParts DEF OpeningJob, LoadPatch

LEMMA FollowJobParts ==
    ASSUME NEW arg
    PROVE  /\ AskExplanation(arg).patch = FollowPatch(TRUE, NoData, arg.exchange, arg.code)
           /\ AskExplanation(arg).then = Ask("explanations", arg)
           /\ Explained(arg).patch = DataPatch(FALSE, arg) /\ Explained(arg).then = NoThen
           /\ AskPLGraph(arg).patch = LoadPatch(TRUE)
           /\ AskPLGraph(arg).then = Ask("plGraph", arg)
BY SetParts DEF AskExplanation, Explained, AskPLGraph, LoadPatch, DataPatch, FollowPatch

LEMMA GraphJobParts ==
    ASSUME NEW j \in GraphJobs
    PROVE  /\ DOMAIN j.patch = {"loading", "data", "exchange", "code"}
           /\ j.patch.loading = FALSE
           /\ j.patch.data \in Args \cup {NoData} /\ j.patch.exchange \in Names /\ j.patch.code \in Codes
           /\ j.then = NoThen
<1>. DEFINE D == Args \cup {NoData}
<1>. HIDE DEF D
<1>. DEFINE P == [loading : {FALSE}, data : D, exchange : Names, code : Codes]
<1>0. GraphJobs = SetsOf("plgraph", P, {NoThen})
    BY DEF GraphJobs, D
<1>. HIDE DEF P
<1>1. j.patch \in P /\ j.then \in {NoThen}
    BY <1>0, SetsOfParts
<1>2. /\ DOMAIN j.patch = {"loading", "data", "exchange", "code"} /\ j.patch.loading = FALSE
      /\ j.patch.data \in D /\ j.patch.exchange \in Names /\ j.patch.code \in Codes
    BY <1>1 DEF P
<1>. QED
    BY <1>1, <1>2 DEF D

LEMMA ListJobParts ==
    /\ \A j \in JobsOf("postponed-fills") :
         /\ j.patch \in {LoadPatch(TRUE)} \cup FillListPatches
         /\ j.then \in {NoThen, Ask(FirstRequest["postponed-fills"], NoArg)}
    /\ \A j \in JobsOf("users") :
         /\ j.patch \in {LoadPatch(TRUE)} \cup UserListPatches
         /\ j.then \in {NoThen, Ask(FirstRequest["users"], NoArg)}
<1>1. ASSUME NEW j \in FillTaskJobs PROVE j.patch \in FillListPatches /\ j.then = NoThen
    BY SetsOfParts DEF FillTaskJobs
<1>2. ASSUME NEW j \in UserTaskJobs PROVE j.patch \in UserListPatches /\ j.then = NoThen
    BY SetsOfParts DEF UserTaskJobs
<1>3. ASSUME NEW j \in JobsOf("postponed-fills")
      PROVE  /\ j.patch \in {LoadPatch(TRUE)} \cup FillListPatches
             /\ j.then \in {NoThen, Ask(FirstRequest["postponed-fills"], NoArg)}
    <2>1. j \in FillTaskJobs \/ j = OpeningJob("postponed-fills")
        BY Zenon, JobsOfAre
    <2>. QED
        BY <2>1, <1>1, OpeningJobParts
<1>4. ASSUME NEW j \in JobsOf("users")
      PROVE  /\ j.patch \in {LoadPatch(TRUE)} \cup UserListPatches
             /\ j.then \in {NoThen, Ask(FirstRequest["users"], NoArg)}
    <2>1. j \in UserTaskJobs \/ j = OpeningJob("users")
        BY Zenon, JobsOfAre
    <2>. QED
        BY <2>1, <1>2, OpeningJobParts
<1>. QED
    BY Zenon, <1>3, <1>4

LEMMA LoadPatchParts ==
    ASSUME NEW a
    PROVE  DOMAIN LoadPatch(a) = {"loading"} /\ LoadPatch(a)["loading"] = a
BY DEF LoadPatch

LEMMA ConfigApplied ==
    ASSUME NEW s \in ConfigStates, NEW j \in JobsOf("configuration")
    PROVE  LET t == Patched(s, j.patch)
           IN  /\ t \in ConfigStates
               /\ \/ \E text \in Texts :
                       /\ j = ConfigJob(text) /\ t.loading = FALSE /\ t.data = TextArg(text)
                       /\ t.verdict = s.verdict
                  \/ /\ (\E text \in AnyText : j = SavingJob(text)) \/ j = SavedJob
                     /\ t.loading = s.loading /\ t.data = s.data /\ t.verdict = s.verdict
                  \/ \E text \in AnyText :
                       /\ j = VerdictJob(text) /\ t.loading = s.loading /\ t.data = s.data
                       /\ t.verdict = text
                  \/ /\ j = OpeningJob("configuration") /\ t.loading = TRUE /\ t.data = s.data
                     /\ t.verdict = s.verdict
<1>. DEFINE t == Patched(s, j.patch)
<1>0. /\ ConfigFields(s)
      /\ t = [x \in {"loading", "data", "verdict", "saving"} |-> t[x]]
      /\ \A x \in {"loading", "data", "verdict", "saving"} :
           /\ x \in DOMAIN j.patch => t[x] = j.patch[x]
           /\ x \notin DOMAIN j.patch => t[x] = s[x]
    BY ConfigPatched, ConfigStatesAre
<1>. HIDE DEF t
<1>1. CASE \E text \in Texts : j = ConfigJob(text)
    <2>1. PICK text \in Texts : j = ConfigJob(text)
        BY <1>1
    <2>2. j.patch = DataPatch(FALSE, TextArg(text))
        BY <2>1, ConfigJobParts
    <2>0. DOMAIN j.patch = {"loading", "data"} /\ j.patch.loading = FALSE /\ j.patch.data = TextArg(text)
        BY <2>2 DEF DataPatch
    <2>3. t.loading = FALSE /\ t.data = TextArg(text) /\ t.verdict = s.verdict /\ t.saving = s.saving
        BY <1>0, <2>0
    <2>4. ConfigFields(t)
        BY Zenon, <1>0, <2>3 DEF ConfigFields
    <2>. QED
        BY <2>1, <2>3, <2>4, ConfigStatesAre DEF t
<1>2. CASE (\E text \in AnyText : j = SavingJob(text)) \/ j = SavedJob
    <2>1. j.patch = SavePatch(TRUE) \/ j.patch = SavePatch(FALSE)
        BY <1>2, ConfigJobParts
    <2>2. /\ t.loading = s.loading /\ t.data = s.data /\ t.verdict = s.verdict
          /\ t.saving = TRUE \/ t.saving = FALSE
        BY <1>0, <2>1 DEF SavePatch
    <2>3. ConfigFields(t)
        BY Zenon, <1>0, <2>2 DEF ConfigFields
    <2>. QED
        BY Zenon, <1>2, <2>2, <2>3, ConfigStatesAre DEF t
<1>3. CASE \E text \in AnyText : j = VerdictJob(text)
    <2>1. PICK text \in AnyText : j = VerdictJob(text)
        BY <1>3
    <2>2. j.patch = VerdictPatch(text)
        BY <2>1, ConfigJobParts
    <2>3. t.loading = s.loading /\ t.data = s.data /\ t.verdict = text /\ t.saving = s.saving
        BY <1>0, <2>2 DEF VerdictPatch
    <2>4. ConfigFields(t)
        BY Zenon, <1>0, <2>3 DEF ConfigFields
    <2>. QED
        BY Zenon, <2>1, <2>3, <2>4, ConfigStatesAre DEF t
<1>4. CASE j = OpeningJob("configuration")
    <2>1. j.patch = LoadPatch(TRUE)
        BY <1>4, OpeningJobParts
    <2>0. DOMAIN j.patch = {"loading"} /\ j.patch.loading = TRUE
        BY <2>1, LoadPatchParts
    <2>2. t.loading = TRUE /\ t.data = s.data /\ t.verdict = s.verdict /\ t.saving = s.saving
        BY <1>0, <2>0
    <2>3. ConfigFields(t)
        BY Zenon, <1>0, <2>2 DEF ConfigFields
    <2>. QED
        BY Zenon, <1>4, <2>2, <2>3, ConfigStatesAre DEF t
<1>. QED
    BY Zenon, <1>1, <1>2, <1>3, <1>4, ConfigJobIs

LEMMA ExplanationApplied ==
    ASSUME NEW s \in FollowStates, NEW j \in JobsOf("explanation")
    PROVE  LET t == Patched(s, j.patch)
           IN  /\ t \in FollowStates
               /\ \/ \E arg \in FullArgs :
                       /\ j = AskExplanation(arg) /\ t.loading = TRUE /\ t.data = NoData
                       /\ t.exchange = arg.exchange /\ t.code = arg.code
                  \/ \E arg \in FullArgs :
                       /\ j = Explained(arg) /\ j.patch.data = arg
                       /\ t.loading = FALSE /\ t.data = arg
                       /\ t.exchange = s.exchange /\ t.code = s.code
<1>. DEFINE t == Patched(s, j.patch)
<1>0. /\ FollowFields(s)
      /\ t = [x \in {"loading", "data", "exchange", "code"} |-> t[x]]
      /\ \A x \in {"loading", "data", "exchange", "code"} :
           /\ x \in DOMAIN j.patch => t[x] = j.patch[x]
           /\ x \notin DOMAIN j.patch => t[x] = s[x]
    BY FollowPatched, FollowStatesAre
<1>. HIDE DEF t
<1>1. CASE \E arg \in FullArgs : j = AskExplanation(arg)
    <2>1. PICK arg \in FullArgs : j = AskExplanation(arg)
        BY <1>1
    <2>2. j.patch = FollowPatch(TRUE, NoData, arg.exchange, arg.code)
        BY <2>1, FollowJobParts
    <2>0. /\ DOMAIN j.patch = {"loading", "data", "exchange", "code"} /\ j.patch.loading = TRUE
          /\ j.patch.data = NoData /\ j.patch.exchange = arg.exchange /\ j.patch.code = arg.code
        BY <2>2 DEF FollowPatch
    <2>3. t.loading = TRUE /\ t.data = NoData /\ t.exchange = arg.exchange /\ t.code = arg.code
        BY <1>0, <2>0
    <2>4. FollowFields(t)
        BY Zenon, <1>0, <2>3, FullArgParts DEF FollowFields
    <2>. QED
        BY Zenon, <2>1, <2>3, <2>4, FollowStatesAre DEF t
<1>2. CASE \E arg \in FullArgs : j = Explained(arg)
    <2>1. PICK arg \in FullArgs : j = Explained(arg)
        BY <1>2
    <2>2. j.patch = DataPatch(FALSE, arg)
        BY <2>1, FollowJobParts
    <2>0. DOMAIN j.patch = {"loading", "data"} /\ j.patch.loading = FALSE /\ j.patch.data = arg
        BY <2>2 DEF DataPatch
    <2>3. /\ t.loading = FALSE /\ t.data = arg /\ t.exchange = s.exchange /\ t.code = s.code
          /\ j.patch.data = arg
        BY <1>0, <2>0
    <2>4. FollowFields(t)
        BY Zenon, <1>0, <2>3, FullArgParts DEF FollowFields
    <2>. QED
        BY Zenon, <2>1, <2>3, <2>4, FollowStatesAre DEF t
<1>3. j \in ExplanationJobs
    BY JobsOfAre
<1>. QED
    BY <1>1, <1>2, <1>3 DEF ExplanationJobs

LEMMA PLGraphApplied ==
    ASSUME NEW s \in FollowStates, NEW j \in JobsOf("plgraph")
    PROVE  LET t == Patched(s, j.patch)
           IN  /\ t \in FollowStates
               /\ \/ \E arg \in Args :
                       /\ j = AskPLGraph(arg) /\ t.loading = TRUE /\ t.data = s.data
                       /\ t.exchange = s.exchange /\ t.code = s.code
                  \/ /\ j \in GraphJobs /\ t.loading = FALSE /\ t.data = j.patch.data
                     /\ t.exchange = j.patch.exchange /\ t.code = j.patch.code
<1>. DEFINE t == Patched(s, j.patch)
<1>0. /\ FollowFields(s)
      /\ t = [x \in {"loading", "data", "exchange", "code"} |-> t[x]]
      /\ \A x \in {"loading", "data", "exchange", "code"} :
           /\ x \in DOMAIN j.patch => t[x] = j.patch[x]
           /\ x \notin DOMAIN j.patch => t[x] = s[x]
    BY FollowPatched, FollowStatesAre
<1>. HIDE DEF t
<1>1. CASE \E arg \in Args : j = AskPLGraph(arg)
    <2>1. PICK arg \in Args : j = AskPLGraph(arg)
        BY <1>1
    <2>2. j.patch = LoadPatch(TRUE)
        BY <2>1, FollowJobParts
    <2>0. DOMAIN j.patch = {"loading"} /\ j.patch.loading = TRUE
        BY <2>2, LoadPatchParts
    <2>3. t.loading = TRUE /\ t.data = s.data /\ t.exchange = s.exchange /\ t.code = s.code
        BY <1>0, <2>0
    <2>4. FollowFields(t)
        BY Zenon, <1>0, <2>3 DEF FollowFields
    <2>. QED
        BY Zenon, <2>1, <2>3, <2>4, FollowStatesAre DEF t
<1>2. CASE j \in GraphJobs
    <2>1. /\ DOMAIN j.patch = {"loading", "data", "exchange", "code"} /\ j.patch.loading = FALSE
          /\ j.patch.data \in Args \cup {NoData} /\ j.patch.exchange \in Names /\ j.patch.code \in Codes
        BY <1>2, GraphJobParts
    <2>2. /\ t.loading = FALSE /\ t.data = j.patch.data
          /\ t.exchange = j.patch.exchange /\ t.code = j.patch.code
        BY <1>0, <2>1
    <2>3. FollowFields(t)
        BY Zenon, <1>0, <2>1, <2>2 DEF FollowFields
    <2>. QED
        BY Zenon, <1>2, <2>2, <2>3, FollowStatesAre DEF t
<1>3. j \in PLGraphJobs
    BY JobsOfAre
<1>. QED
    BY <1>1, <1>2, <1>3 DEF PLGraphJobs

LEMMA LoaderNames ==
    /\ Loaders = {"explanation", "plgraph", "signals", "configuration", "postponed-fills", "users"}
    /\ Settable = Loaders \cup {"exchange"}
BY DEF Loaders, Followers, Openers, Settable

LEMMA ConApplied ==
    ASSUME NEW c, ContainersOf(c), NEW j \in Jobs, j.k = "set", j.container # "exchange"
    PROVE  /\ j.container \in Loaders
           /\ ContainersOf([c EXCEPT ![j.container] = Patched(@, j.patch)])
<1>. DEFINE p == j.container
            s == Patched(c[p], j.patch)
            d == [c EXCEPT ![p] = s]
<1>1. p \in Loaders /\ j \in JobsOf(p)
    BY JobContainer, LoaderNames
<1>2. /\ p = "configuration" => s \in ConfigStates
      /\ p = "explanation" => s \in FollowStates
      /\ p = "plgraph" => s \in FollowStates
    BY <1>1, ConfigApplied, ExplanationApplied, PLGraphApplied DEF ContainersOf
<1>3. /\ p = "postponed-fills" => s \in FillStates
      /\ p = "users" => s \in UserStates
    BY Zenon, <1>1, ListJobParts, FillPatched, UserPatched DEF ContainersOf
<1>4. p = "signals" => s = clearState
    <2>1. ClearJob.patch = clearState
        BY SetParts DEF ClearJob
    <2>. QED
        BY Zenon, <1>1, <2>1, ClearPatched, JobsOfAre DEF ContainersOf
<1>5. DOMAIN c = Loaders /\ c = [x \in Loaders |-> c[x]]
    BY DEF ContainersOf
<1>. HIDE DEF p, s
<1>6. /\ d = [x \in Loaders |-> d[x]]
      /\ \A x \in Loaders : d[x] = IF x = p THEN s ELSE c[x]
    BY <1>1, <1>5
<1>. HIDE DEF d
<1>7. ContainersOf(d)
    BY Zenon, <1>2, <1>3, <1>4, <1>6, LoaderNames DEF ContainersOf
<1>. QED
    BY <1>1, <1>7 DEF p, s, d

-----------------------------------------------------------------------------
(* What follows a job. *)

LEMMA AskParts ==
    ASSUME NEW name, NEW arg
    PROVE  /\ Ask(name, arg).k = "ask" /\ Ask(name, arg).request = Request(name, arg)
           /\ Request(name, arg).name = name /\ Request(name, arg).arg = arg
           /\ Request(name, arg).phase = "sent"
           /\ Ask(name, arg) # NoThen
BY DEF Ask, Request, NoThen

LEMMA PlainAsk ==
    ASSUME NEW name \in Plain, NEW text \in AnyText
    PROVE  Ask(name, TextArg(text)) \in AskConts
<1>. DEFINE arg == TextArg(text)
<1>1. arg \in TextArgs
    BY DEF TextArgs
<1>. HIDE DEF arg
<1>2. Ask(name, arg) \in [k : {"ask"}, request : [name : Plain, arg : TextArgs, phase : {"sent"}]]
    BY <1>1 DEF Ask, Request
<1>. QED
    BY <1>2 DEF AskConts, arg

LEMMA ThenType ==
    ASSUME NEW j \in Jobs, j.k = "set"
    PROVE  /\ j.container = "exchange" => j.then \in SelectConts \cup {NoThen}
           /\ j.container # "exchange" => j.then \in AskConts \cup {NoThen}
<1>1. j.container \in Settable /\ j \in JobsOf(j.container)
    BY JobContainer
<1>2. CASE j.container = "exchange"
    <2>1. j \in SelectJobs
        BY <1>1, <1>2, JobsOfAre
    <2>2. LoadedJob.then = [k |-> "selected"] /\ FirstJob.then = NoThen
        BY SetParts DEF LoadedJob, FirstJob
    <2>3. [k : {"selection"}, url : URLs] \subseteq SelectConts
        BY DEF SelectConts
    <2>4. [k : {"symbol"}, url : URLs] \subseteq SelectConts /\ [k |-> "selected"] \in SelectConts
        BY DEF SelectConts
    <2>. QED
        BY Zenon, <1>2, <2>1, <2>2, <2>3, <2>4, IntervalJobParts, ExchangeJobParts, SymbolJobParts
           DEF SelectJobs, HeaderJobs
<1>3. CASE j.container \in Openers
    <2>1. Ask(FirstRequest[j.container], NoArg) \in AskConts
        BY <1>3 DEF AskConts
    <2>2. CASE j.container = "configuration"
        <3>1. j \in JobsOf("configuration")
            BY <1>1, <2>2
        <3>2. "validate" \in Plain /\ "save" \in Plain /\ Texts \subseteq AnyText
            BY DEF Plain, AnyText
        <3>3. /\ \A text \in AnyText : Ask("validate", TextArg(text)) \in AskConts
              /\ \A text \in AnyText : Ask("save", TextArg(text)) \in AskConts
            BY <3>2, PlainAsk
        <3>. QED
            <4>1. ASSUME NEW text
                  PROVE  /\ ConfigJob(text).then = Ask("validate", TextArg(text))
                         /\ SavingJob(text).then = Ask("save", TextArg(text))
                         /\ SavedJob.then = NoThen /\ VerdictJob(text).then = NoThen
                BY ConfigJobParts
            <4>2. OpeningJob("configuration").then = Ask(FirstRequest["configuration"], NoArg)
                BY OpeningJobParts
            <4>3. \/ \E text \in Texts : j = ConfigJob(text)
                  \/ \E text \in AnyText : j = SavingJob(text)
                  \/ j = SavedJob
                  \/ \E text \in AnyText : j = VerdictJob(text)
                  \/ j = OpeningJob("configuration")
                BY <3>1, ConfigJobIs
            <4>4. j.then \in AskConts \cup {NoThen}
                BY Zenon, <2>1, <2>2, <3>2, <3>3, <4>1, <4>2, <4>3
            <4>. QED
                BY Zenon, <1>3, <2>2, <4>4
    <2>3. CASE j.container # "configuration"
        <3>1. j.container = "postponed-fills" \/ j.container = "users"
            BY <1>3, <2>3 DEF Openers
        <3>. QED
            BY Zenon, <1>1, <2>1, <2>3, <3>1, ListJobParts
    <2>. QED
        BY Zenon, <1>3, <2>2, <2>3 DEF Openers
<1>4. CASE j.container = "explanation"
    <2>1. j \in ExplanationJobs
        BY <1>1, <1>4, JobsOfAre
    <2>2. \A arg \in FullArgs : Ask("explanations", arg) \in AskConts
        BY DEF AskConts
    <2>. QED
        BY <1>4, <2>1, <2>2, FollowJobParts DEF ExplanationJobs
<1>5. CASE j.container = "plgraph"
    <2>1. j \in PLGraphJobs
        BY <1>1, <1>5, JobsOfAre
    <2>2. \A arg \in Args : Ask("plGraph", arg) \in AskConts
        BY DEF AskConts
    <2>. QED
        BY <1>5, <2>1, <2>2, FollowJobParts, GraphJobParts DEF PLGraphJobs
<1>6. CASE j.container = "signals"
    <2>1. j = ClearJob
        BY <1>1, <1>6, JobsOfAre
    <2>. QED
        BY <1>6, <2>1, SetParts DEF ClearJob
<1>. QED
    BY Zenon, <1>1, <1>2, <1>3, <1>4, <1>5, <1>6, LoaderNames DEF Settable, Openers

LEMMA SelectContParts ==
    ASSUME NEW c \in SelectConts
    PROVE  /\ c.k \in {"selected", "selection", "symbol"}
           /\ c.k # "selected" => c.url \in URLs
BY DEF SelectConts

LEMMA AskContParts ==
    ASSUME NEW c \in AskConts
    PROVE  /\ c.k = "ask" /\ c.request.phase = "sent"
           /\ \/ c.request.name \in {"config", "postponedFills", "roles"} /\ c.request.arg = NoArg
              \/ c.request.name = "explanations" /\ c.request.arg \in FullArgs
              \/ c.request.name = "plGraph" /\ c.request.arg \in Args
              \/ c.request.name \in Plain /\ c.request.arg \in TextArgs
           /\ c.request = [name |-> c.request.name, arg |-> c.request.arg, phase |-> "sent"]
           /\ c = Ask(c.request.name, c.request.arg)
<1>. DEFINE K == \E name, arg :
                   /\ c = Ask(name, arg)
                   /\ \/ name \in {"config", "postponedFills", "roles"} /\ arg = NoArg
                      \/ name = "explanations" /\ arg \in FullArgs
                      \/ name = "plGraph" /\ arg \in Args
                      \/ name \in Plain /\ arg \in TextArgs
<1>1. ASSUME NEW p \in Openers, c = Ask(FirstRequest[p], NoArg) PROVE K
    <2>1. FirstRequest[p] \in {"config", "postponedFills", "roles"}
        BY FirstRequests DEF Openers
    <2>. QED
        BY Zenon, <1>1, <2>1
<1>2. ASSUME NEW arg \in FullArgs, c = Ask("explanations", arg) PROVE K
    BY Zenon, <1>2
<1>3. ASSUME NEW arg \in Args, c = Ask("plGraph", arg) PROVE K
    BY Zenon, <1>3
<1>4. ASSUME c \in [k : {"ask"}, request : [name : Plain, arg : TextArgs, phase : {"sent"}]] PROVE K
    <2>1. c = Ask(c.request.name, c.request.arg) /\ c.request.name \in Plain /\ c.request.arg \in TextArgs
        BY <1>4 DEF Ask, Request
    <2>. QED
        BY Zenon, <2>1
<1>. HIDE DEF K
<1>10. K
    BY <1>1, <1>2, <1>3, <1>4 DEF AskConts
<1>5. PICK name, arg :
        /\ c = Ask(name, arg)
        /\ \/ name \in {"config", "postponedFills", "roles"} /\ arg = NoArg
           \/ name = "explanations" /\ arg \in FullArgs
           \/ name = "plGraph" /\ arg \in Args
           \/ name \in Plain /\ arg \in TextArgs
    BY Zenon, <1>10 DEF K
<1>6. /\ c.k = "ask" /\ c.request = Request(name, arg)
      /\ c.request.name = name /\ c.request.arg = arg /\ c.request.phase = "sent"
    BY <1>5, AskParts
<1>7. Request(name, arg) = [name |-> name, arg |-> arg, phase |-> "sent"]
    BY DEF Request
<1>. QED
    BY Zenon, <1>5, <1>6, <1>7

-----------------------------------------------------------------------------
(* Requests. *)

AnyArgs == [exchange : Names, code : Codes, text : AnyText]

LEMMA RequestsAre ==
    Requests = [name : Repeated \cup Plain \cup Updates, phase : {"sent", "delay"}, arg : AnyArgs]
BY DEF Requests, AnyArgs, Names, Codes, AllCodes, AnyText

LEMMA ArgsAreAny == Args \subseteq AnyArgs /\ TextArgs \subseteq AnyArgs /\ FullArgs \subseteq Args
<1>1. NoText \in AnyText
    BY DEF AnyText
<1>2. Args \subseteq AnyArgs
    BY <1>1 DEF Args, AnyArgs
<1>3. Blank \in Names /\ NoCode \in Codes
    BY NameTypes
<1>4. ASSUME NEW text \in AnyText PROVE TextArg(text) \in AnyArgs
    <2>1. TextArg(text) = [exchange |-> Blank, code |-> NoCode, text |-> text]
        BY ArgFacts
    <2>. QED
        BY <1>3, <2>1 DEF AnyArgs
<1>5. TextArgs \subseteq AnyArgs
    BY <1>4 DEF TextArgs
<1>6. FullArgs \subseteq Args
    BY FullArgParts
<1>. QED
    BY <1>2, <1>5, <1>6

LEMMA FitsTypes ==
    ASSUME NEW name, NEW arg, Fits(name, arg)
    PROVE  name \in Repeated \cup Plain \cup Updates /\ arg \in AnyArgs
<1>1. Plainly \subseteq Repeated \cup Updates /\ "explanations" \in Repeated /\ "plGraph" \in Repeated
    BY RepeatedNames DEF Plainly
<1>. QED
    BY Zenon, <1>1, ArgsAreAny, ArgFacts DEF Fits

LEMMA RequestPending ==
    ASSUME NEW name, NEW arg, Fits(name, arg)
    PROVE  Pending(Request(name, arg))
<1>1. name \in Repeated \cup Plain \cup Updates /\ arg \in AnyArgs
    BY FitsTypes
<1>. DEFINE N == Repeated \cup Plain \cup Updates
<1>. HIDE DEF N
<1>2. [name |-> name, arg |-> arg, phase |-> "sent"]
        \in [name : N, phase : {"sent", "delay"}, arg : AnyArgs]
    BY <1>1 DEF N
<1>3. Request(name, arg) \in Requests
    BY <1>2, RequestsAre DEF Request, N
<1>4. /\ Request(name, arg).name = name /\ Request(name, arg).arg = arg
      /\ Request(name, arg).phase = "sent"
    BY AskParts
<1>5. "sent" # "delay"
    OBVIOUS
<1>. QED
    BY Zenon, <1>3, <1>4, <1>5 DEF Pending

LEMMA PhasePending ==
    ASSUME NEW r, Pending(r), NEW phase \in {"sent", "delay"}, r.name \in Repeated
    PROVE  /\ Pending([r EXCEPT !.phase = phase])
           /\ [r EXCEPT !.phase = phase].name = r.name /\ [r EXCEPT !.phase = phase].arg = r.arg
           /\ [r EXCEPT !.phase = phase].phase = phase
<1>. DEFINE x == [r EXCEPT !.phase = phase]
            N == Repeated \cup Plain \cup Updates
<1>. HIDE DEF N
<1>1. r \in [name : N, phase : {"sent", "delay"}, arg : AnyArgs]
    BY RequestsAre DEF Pending, N
<1>2. /\ x \in [name : N, phase : {"sent", "delay"}, arg : AnyArgs]
      /\ x.name = r.name /\ x.arg = r.arg /\ x.phase = phase
    BY <1>1
<1>3. x \in Requests
    BY <1>2, RequestsAre DEF N
<1>. HIDE DEF x
<1>4. Pending(x)
    BY Zenon, <1>2, <1>3 DEF Pending
<1>. QED
    BY <1>2, <1>4 DEF x

LEMMA ContPending ==
    ASSUME NEW c \in AskConts
    PROVE  Pending(c.request) /\ c.request.name # "supportedExchanges"
<1>1. Fits(c.request.name, c.request.arg) /\ c.request.name # "supportedExchanges"
    BY AskContParts DEF Fits, Plainly, Plain
<1>2. c.request = Request(c.request.name, c.request.arg)
    BY AskContParts DEF Request
<1>. QED
    BY <1>1, <1>2, RequestPending

LEMMA SentTyped ==
    ASSUME NEW q, NEW r, NetTyped(q), Pending(r)
    PROVE  NetTyped(Sent(q, r))
<1>1. DOMAIN Sent(q, r) = DOMAIN q \cup {r}
    BY SentFacts
<1>. QED
    BY Zenon, <1>1 DEF NetTyped

LEMMA GoneTyped ==
    ASSUME NEW q, NEW r \in DOMAIN q, NetTyped(q)
    PROVE  NetTyped(Gone(q, r))
BY GoneFacts DEF NetTyped

LEMMA SentAsked ==
    ASSUME NEW q, NEW r, r.name # "supportedExchanges"
    PROVE  /\ ~AskedIn(q) => ~AskedIn(Sent(q, r))
           /\ AskedOnceIn(q) => AskedOnceIn(Sent(q, r))
<1>1. /\ DOMAIN Sent(q, r) = DOMAIN q \cup {r}
      /\ \A x \in DOMAIN q : x # r => Sent(q, r)[x] = q[x] + 0
    BY SentFacts
<1>2. ~AskedIn(q) => ~AskedIn(Sent(q, r))
    BY Zenon, <1>1 DEF AskedIn
<1>3. 1 + 0 = 1
    OBVIOUS
<1>4. AskedOnceIn(q) => AskedOnceIn(Sent(q, r))
    BY <1>1, <1>3 DEF AskedOnceIn
<1>. QED
    BY <1>2, <1>4

LEMMA GoneAsked ==
    ASSUME NEW q, NEW r \in DOMAIN q
    PROVE  /\ ~AskedIn(q) => ~AskedIn(Gone(q, r))
           /\ AskedOnceIn(q) => AskedOnceIn(Gone(q, r))
           /\ AskedOnceIn(q) /\ r.name = "supportedExchanges" => ~AskedIn(Gone(q, r))
<1>1. /\ DOMAIN Gone(q, r) \subseteq DOMAIN q
      /\ \A x \in DOMAIN q : x # r => x \in DOMAIN Gone(q, r) /\ Gone(q, r)[x] = q[x]
      /\ q[r] = 1 => DOMAIN Gone(q, r) = DOMAIN q \ {r}
    BY GoneFacts
<1>2. ~AskedIn(q) => ~AskedIn(Gone(q, r))
    BY Zenon, <1>1 DEF AskedIn
<1>3. ASSUME AskedOnceIn(q), r.name = "supportedExchanges" PROVE ~AskedIn(Gone(q, r))
    <2>1. q[r] = 1 /\ \A x \in DOMAIN q : x.name = "supportedExchanges" => x = r
        BY <1>3 DEF AskedOnceIn
    <2>. QED
        BY <1>1, <2>1 DEF AskedIn
<1>4. ASSUME AskedOnceIn(q), r.name # "supportedExchanges" PROVE AskedOnceIn(Gone(q, r))
    BY <1>1, <1>4 DEF AskedOnceIn
<1>5. ASSUME AskedOnceIn(q), r.name = "supportedExchanges" PROVE AskedOnceIn(Gone(q, r))
    BY Zenon, <1>3, <1>5 DEF AskedOnceIn, AskedIn
<1>. QED
    BY <1>2, <1>3, <1>4, <1>5

LEMMA MovedAsked ==
    ASSUME NEW q, NEW r \in DOMAIN q, NEW x, x.name = r.name
    PROVE  /\ ~AskedIn(q) => ~AskedIn(Sent(Gone(q, r), x))
           /\ AskedOnceIn(q) => AskedOnceIn(Sent(Gone(q, r), x))
<1>. DEFINE g == Gone(q, r)
<1>1. /\ ~AskedIn(q) => ~AskedIn(g)
      /\ AskedOnceIn(q) => AskedOnceIn(g)
      /\ AskedOnceIn(q) /\ r.name = "supportedExchanges" => ~AskedIn(g)
    BY GoneAsked
<1>. HIDE DEF g
<1>2. CASE r.name # "supportedExchanges"
    BY <1>1, <1>2, SentAsked DEF g
<1>3. CASE r.name = "supportedExchanges"
    <2>1. AskedIn(q)
        BY <1>3 DEF AskedIn
    <2>2. ASSUME AskedOnceIn(q) PROVE AskedOnceIn(Sent(g, x))
        <3>1. ~AskedIn(g)
            BY <1>1, <1>3, <2>2
        <3>2. x \notin DOMAIN g
            BY <1>3, <3>1 DEF AskedIn
        <3>3. DOMAIN Sent(g, x) = DOMAIN g \cup {x} /\ Sent(g, x)[x] = 1
            <4>1. DOMAIN Sent(g, x) = DOMAIN g \cup {x}
                BY SentFacts
            <4>2. Sent(g, x)[x] = 0 + 1
                BY <3>2 DEF Sent
            <4>. QED
                BY <4>1, <4>2
        <3>. QED
            BY Zenon, <3>1, <3>3 DEF AskedOnceIn, AskedIn
    <2>. QED
        BY <2>1, <2>2 DEF g
<1>. QED
    BY <1>2, <1>3

LEMMA DisownedFacts ==
    ASSUME NEW q, NetTyped(q)
    PROVE  /\ NetTyped(Disowned(q))
           /\ ~AskedIn(q) => ~AskedIn(Disowned(q))
           /\ AskedOnceIn(q) => AskedOnceIn(Disowned(q))
           /\ \A x : x.name \notin Updates => (x \in DOMAIN Disowned(q) <=> x \in DOMAIN q)
<1>. DEFINE r == Request("update", NoArg)
            x == Request("oldUpdate", NoArg)
<1>1. r.name = "update" /\ x.name = "oldUpdate" /\ Pending(x)
    <2>1. Fits("oldUpdate", NoArg)
        BY DEF Fits, Plainly, Updates
    <2>. QED
        BY <2>1, AskParts, RequestPending
<1>. HIDE DEF r, x
<1>2. CASE r \notin DOMAIN q
    BY Zenon, <1>2 DEF Disowned, r
<1>3. CASE r \in DOMAIN q
    <2>. DEFINE g == Gone(q, r)
    <2>1. Disowned(q) = Sent(g, x)
        BY Zenon, <1>3 DEF Disowned, r, x
    <2>2. /\ NetTyped(g) /\ (~AskedIn(q) => ~AskedIn(g)) /\ (AskedOnceIn(q) => AskedOnceIn(g))
          /\ DOMAIN g \subseteq DOMAIN q /\ \A y \in DOMAIN q : y # r => y \in DOMAIN g
        BY <1>3, GoneTyped, GoneAsked, GoneFacts
    <2>. HIDE DEF g
    <2>3. /\ NetTyped(Sent(g, x)) /\ (~AskedIn(g) => ~AskedIn(Sent(g, x)))
          /\ (AskedOnceIn(g) => AskedOnceIn(Sent(g, x))) /\ DOMAIN Sent(g, x) = DOMAIN g \cup {x}
        BY <1>1, <2>2, SentTyped, SentAsked, SentFacts
    <2>4. \A y : y.name \notin Updates => (y \in DOMAIN Sent(g, x) <=> y \in DOMAIN q)
        BY <1>1, <2>2, <2>3 DEF Updates
    <2>. QED
        BY <2>1, <2>2, <2>3, <2>4
<1>. QED
    BY <1>2, <1>3

-----------------------------------------------------------------------------
(* What a render puts into the queue. *)

LEMMA PageThens ==
    ASSUME NEW j \in PageJobs
    PROVE  \/ j.container = "signals"
           \/ /\ j.container # "exchange"
              /\ \E name \in Repeated : \E arg : j.then = Ask(name, arg)
<1>1. ASSUME NEW p \in Openers, j = OpeningJob(p)
      PROVE  j.container # "exchange" /\ \E name \in Repeated : \E arg : j.then = Ask(name, arg)
    <2>1. j.container = p /\ j.then = Ask(FirstRequest[p], NoArg)
        BY <1>1, SetParts, OpeningJobParts DEF OpeningJob
    <2>2. p # "exchange" /\ FirstRequest[p] \in Repeated
        BY FirstRequests DEF Openers, Repeated
    <2>. QED
        BY Zenon, <2>1, <2>2
<1>2. ASSUME NEW arg \in FullArgs, j = AskExplanation(arg)
      PROVE  j.container # "exchange" /\ \E name \in Repeated : \E a : j.then = Ask(name, a)
    <2>1. j.container = "explanation" /\ j.then = Ask("explanations", arg)
        BY <1>2, SetParts, FollowJobParts DEF AskExplanation
    <2>. QED
        BY <2>1, RepeatedNames
<1>3. ASSUME NEW arg \in Args, j = AskPLGraph(arg)
      PROVE  j.container # "exchange" /\ \E name \in Repeated : \E a : j.then = Ask(name, a)
    <2>1. j.container = "plgraph" /\ j.then = Ask("plGraph", arg)
        BY <1>3, SetParts, FollowJobParts DEF AskPLGraph
    <2>. QED
        BY <2>1, RepeatedNames
<1>4. ASSUME j = ClearJob PROVE j.container = "signals"
    BY <1>4, ClearJobKind DEF IsJobOf
<1>. QED
    BY Zenon, <1>1, <1>2, <1>3, <1>4 DEF PageJobs

LEMMA TaskThens ==
    ASSUME NEW j \in TaskJobs
    PROVE  /\ j.k = "set" /\ j.container \in Settable \ {"signals"}
           /\ \/ j = LoadedJob
              \/ j.container # "exchange" /\ j.then = NoThen
              \/ j.container # "exchange" /\ \E name \in Plain : \E arg : j.then = Ask(name, arg)
<1>. DEFINE Goal == /\ j.k = "set" /\ j.container \in Settable \ {"signals"}
                    /\ \/ j = LoadedJob
                       \/ j.container # "exchange" /\ j.then = NoThen
                       \/ j.container # "exchange" /\ \E name \in Plain : \E arg : j.then = Ask(name, arg)
<1>1. ASSUME j = LoadedJob PROVE Goal
    BY <1>1, SetParts DEF LoadedJob, Settable
<1>2. ASSUME NEW text, j = ConfigJob(text) PROVE Goal
    <2>1. j.k = "set" /\ j.container = "configuration" /\ j.then = Ask("validate", TextArg(text))
        BY <1>2, SetParts DEF ConfigJob
    <2>. QED
        BY <2>1 DEF Settable, Plain
<1>3. ASSUME NEW text, j = SavingJob(text) PROVE Goal
    <2>1. j.k = "set" /\ j.container = "configuration" /\ j.then = Ask("save", TextArg(text))
        BY <1>3, SetParts DEF SavingJob
    <2>. QED
        BY <2>1 DEF Settable, Plain
<1>4. ASSUME j = SavedJob PROVE Goal
    BY <1>4, SetParts DEF SavedJob, Settable
<1>5. ASSUME NEW text, j = VerdictJob(text) PROVE Goal
    BY <1>5, SetParts DEF VerdictJob, Settable
<1>6. ASSUME NEW arg, j = Explained(arg) PROVE Goal
    BY <1>6, SetParts DEF Explained, Settable
<1>7. ASSUME j \in GraphJobs PROVE Goal
    <2>1. j.k = "set" /\ j.container = "plgraph" /\ j.then = NoThen
        <3>1. j \in SetsOf("plgraph", [loading : {FALSE}, data : Args \cup {NoData},
                                exchange : Names, code : Codes], {NoThen})
            BY <1>7 DEF GraphJobs
        <3>. QED
            BY <3>1, SetsOfParts
    <2>. QED
        BY <2>1 DEF Settable
<1>8. ASSUME j \in FillTaskJobs PROVE Goal
    <2>1. j.k = "set" /\ j.container = "postponed-fills" /\ j.then \in {NoThen}
        BY <1>8, SetsOfParts DEF FillTaskJobs
    <2>. QED
        BY <2>1 DEF Settable
<1>9. ASSUME j \in UserTaskJobs PROVE Goal
    <2>1. j.k = "set" /\ j.container = "users" /\ j.then \in {NoThen}
        BY <1>9, SetsOfParts DEF UserTaskJobs
    <2>. QED
        BY <2>1 DEF Settable
<1>10. ListTaskJobs = FillTaskJobs \cup UserTaskJobs
    BY Zenon DEF ListTaskJobs, FillTaskJobs, UserTaskJobs, FillListPatches, UserListPatches
<1>. HIDE DEF Goal
<1>11. Goal
    BY Zenon, <1>1, <1>2, <1>3, <1>4, <1>5, <1>6, <1>7, <1>8, <1>9, <1>10 DEF TaskJobs, ConfigTaskJobs
<1>. QED
    BY <1>11 DEF Goal

LEMMA AskNames ==
    ASSUME NEW name \in Repeated, NEW other \in Plain, NEW a, NEW b
    PROVE  Ask(name, a) # Ask(other, b)
<1>1. Ask(name, a).request.name = name /\ Ask(other, b).request.name = other
    BY AskParts
<1>2. name # other
    BY RepeatedNames DEF Plain
<1>. QED
    BY <1>1, <1>2

LEMMA HeaderThens ==
    ASSUME NEW j \in HeaderJobs
    PROVE  Selects(j) /\ j # LoadedJob /\ j # FirstJob
<1>1. LoadedJob.then.k = "selected"
    BY SetParts DEF LoadedJob
<1>2. DOMAIN FirstJob.patch = {"exchangeName", "currencyCodePair", "symbol"}
    <2>1. FirstJob.patch = updateSelected(Started)
        BY SetParts DEF FirstJob
    <2>. QED
        BY <2>1, FirstIs
<1>3. ASSUME j \in IntervalJobs PROVE Selects(j) /\ j # LoadedJob /\ j # FirstJob
    <2>1. Selects(j) /\ j.then.k = "selection"
        BY <1>3, IntervalJobParts DEF Selects
    <2>2. FirstJob.then.k = "none"
        BY SetParts DEF FirstJob, NoThen
    <2>. QED
        BY <1>1, <2>1, <2>2
<1>4. ASSUME j \in ExchangeJobs PROVE Selects(j) /\ j # LoadedJob /\ j # FirstJob
    <2>1. Selects(j) /\ j.then.k \in {"none", "symbol"}
        BY <1>4, ExchangeJobParts DEF Selects, NoThen
    <2>2. PICK i \in 0..Len(Catalogue) : j.patch = updateSelectedExchange(i)
        BY <1>4, ExchangeJobParts
    <2>3. "symbols" \in DOMAIN j.patch
        BY <2>2, ExchangePatch
    <2>. QED
        BY <1>1, <1>2, <2>1, <2>3
<1>5. ASSUME j \in SymbolJobs PROVE Selects(j) /\ j # LoadedJob /\ j # FirstJob
    <2>1. j.k = "set" /\ j.container = "exchange" /\ j.then = NoThen
        BY Zenon, <1>5, SymbolJobParts
    <2>2. Selects(j) /\ j.then.k = "none"
        BY <2>1 DEF Selects, NoThen
    <2>3. "selectedSymbol" \in DOMAIN j.patch
        <3>. DEFINE A == 0..Len(AllSymbols)
                    C == AllCodes \cup {AllCode}
        <3>. HIDE DEF A, C
        <3>1. j \in [k : {"set"}, container : {"exchange"},
                     patch : [selectedSymbol : A, currencyCodePair : C, symbol : Symbols], then : {NoThen}]
            BY <1>5 DEF SymbolJobs, SetsOf, A, C
        <3>. QED
            BY <3>1
    <2>. QED
        BY <1>1, <1>2, <2>2, <2>3
<1>. QED
    BY <1>3, <1>4, <1>5 DEF HeaderJobs


(* Only a task puts a job of a task into the queue.                          *)
LEMMA JobsApart ==
    /\ \A j \in PageJobs : j \in Jobs /\ j \notin TaskJobs /\ ~Selects(j) /\ j.k = "set"
    /\ \A j \in HeaderJobs : j \in Jobs /\ j \notin TaskJobs /\ Selects(j) /\ j.k = "set" /\ j # FirstJob
    /\ FirstJob \notin TaskJobs /\ Selects(FirstJob) /\ Selects(LoadedJob) /\ FirstJob # LoadedJob
    /\ LoadedJob \in TaskJobs /\ LoadedJob \in Jobs /\ FirstJob \in Jobs
    /\ \A j \in Renders : j \in Jobs /\ j \notin TaskJobs /\ ~Selects(j) /\ j.k = "render"
    /\ \A j \in TaskJobs : j \in Jobs /\ j.k = "set" /\ (Selects(j) => j = LoadedJob)
<1>1. ASSUME NEW j \in TaskJobs
      PROVE  j \in Jobs /\ j.k = "set" /\ (Selects(j) => j = LoadedJob)
    <2>1. j.k = "set" /\ (j.container = "exchange" => j = LoadedJob)
        BY Zenon, TaskThens
    <2>. QED
        BY Zenon, <2>1 DEF Jobs, Selects
<1>2. ASSUME NEW j \in PageJobs
      PROVE  j \in Jobs /\ j \notin TaskJobs /\ ~Selects(j) /\ j.k = "set"
    <2>1. j \in Jobs
        BY Zenon DEF Jobs
    <2>2. j.container # "exchange"
        BY PageThens
    <2>3. j.k = "set"
        <3>1. \A p \in Openers : OpeningJob(p).k = "set"
            BY SetParts DEF OpeningJob
        <3>2. \A arg : AskExplanation(arg).k = "set" /\ AskPLGraph(arg).k = "set"
            BY SetParts DEF AskExplanation, AskPLGraph
        <3>3. ClearJob.k = "set"
            BY SetParts DEF ClearJob
        <3>. QED
            BY Zenon, <3>1, <3>2, <3>3 DEF PageJobs
    <2>4. j \notin TaskJobs
        <3>1. ASSUME j \in TaskJobs, j.container = "signals" PROVE FALSE
            BY <3>1, TaskThens
        <3>2. ASSUME j \in TaskJobs, NEW name \in Repeated, NEW arg, j.then = Ask(name, arg) PROVE FALSE
            <4>1. j.then # NoThen
                BY <3>2, AskParts
            <4>2. j # LoadedJob
                BY <2>2, SetParts DEF LoadedJob
            <4>3. PICK other \in Plain : \E b : j.then = Ask(other, b)
                BY Zenon, <3>2, <4>1, <4>2, TaskThens
            <4>4. PICK b : j.then = Ask(other, b)
                BY <4>3
            <4>. QED
                BY Zenon, <3>2, <4>4, AskNames
        <3>. QED
            BY Zenon, <3>1, <3>2, PageThens
    <2>. QED
        BY Zenon, <2>1, <2>2, <2>3, <2>4 DEF Selects
<1>3. FirstJob \in Jobs /\ LoadedJob \in Jobs /\ LoadedJob \in TaskJobs
    BY Zenon DEF Jobs, SelectJobs, TaskJobs
<1>4. Selects(FirstJob) /\ Selects(LoadedJob) /\ FirstJob # LoadedJob
    <2>1. FirstJob.then.k = "none" /\ LoadedJob.then.k = "selected"
        BY SetParts DEF FirstJob, LoadedJob, NoThen
    <2>2. Selects(FirstJob) /\ Selects(LoadedJob)
        BY SetParts DEF FirstJob, LoadedJob, Selects
    <2>. QED
        BY <2>1, <2>2
<1>5. FirstJob \notin TaskJobs
    BY Zenon, <1>1, <1>4
<1>6. ASSUME NEW j \in HeaderJobs
      PROVE  j \in Jobs /\ j \notin TaskJobs /\ Selects(j) /\ j.k = "set" /\ j # FirstJob
    <2>1. Selects(j) /\ j # LoadedJob /\ j # FirstJob
        BY HeaderThens
    <2>. QED
        BY Zenon, <1>1, <2>1 DEF Jobs, SelectJobs, Selects
<1>7. ASSUME NEW j \in Renders
      PROVE  j \in Jobs /\ j \notin TaskJobs /\ ~Selects(j) /\ j.k = "render"
    <2>1. j.k = "render" /\ "render" # "set"
        BY RenderParts
    <2>. QED
        BY Zenon, <1>1, <2>1 DEF Jobs, Selects
<1>. QED
    BY Zenon, <1>1, <1>2, <1>3, <1>4, <1>5, <1>6, <1>7

LEMMA Single ==
    ASSUME NEW S, NEW j \in S, NEW q, q = <<j>>
    PROVE  q \in Seq(S) /\ In(q) = {j} /\ q # <<>> /\ Head(q) = j /\ Tail(q) = <<>>
BY InSmall

LEMMA Nothing ==
    ASSUME NEW S, NEW q, q = <<>>
    PROVE  q \in Seq(S) /\ In(q) = {}
BY DEF In

LEMMA LeaveSetsAre ==
    ASSUME NEW p
    PROVE  LeaveSets(p) \in Seq(PageJobs) /\ \A j \in In(LeaveSets(p)) : j = ClearJob
<1>1. ClearJob \in PageJobs
    BY DEF PageJobs
<1>2. LeaveSets(p) = <<ClearJob>> \/ LeaveSets(p) = <<>>
    BY Zenon DEF LeaveSets, ClearJob
<1>. DEFINE q == LeaveSets(p)
<1>. HIDE DEF q
<1>3. q = <<ClearJob>> => q \in Seq(PageJobs) /\ In(q) = {ClearJob}
    BY Zenon, <1>1, Single
<1>4. q = <<>> => q \in Seq(PageJobs) /\ In(q) = {}
    BY Zenon, Nothing
<1>. QED
    BY Zenon, <1>2, <1>3, <1>4 DEF q

Selected2(s) == s.exchangeName # Blank /\ s.currencyCodePair # NoCode

LEMMA SelectionArgType ==
    ASSUME ex \in Selections
    PROVE  /\ SelectionArg(ex) = Arg(ex.exchangeName, ex.currencyCodePair)
           /\ SelectionArg(ex).exchange = ex.exchangeName
           /\ SelectionArg(ex).code = ex.currencyCodePair
           /\ SelectionArg(ex) \in Args
           /\ Selected2(ex) => SelectionArg(ex) \in FullArgs
<1>1. ex.exchangeName \in Names /\ ex.currencyCodePair \in Codes
    BY DEF Selections
<1>2. /\ SelectionArg(ex) = Arg(ex.exchangeName, ex.currencyCodePair)
      /\ SelectionArg(ex).exchange = ex.exchangeName
      /\ SelectionArg(ex).code = ex.currencyCodePair
    BY ArgFacts
<1>. DEFINE n == ex.exchangeName
            c == ex.currencyCodePair
<1>. HIDE DEF n, c
<1>3. n \in Names /\ c \in Codes => Arg(n, c) \in Args
    BY DEF Args, Arg
<1>4. n \in Names /\ c \in Codes /\ n # Blank /\ c # NoCode => Arg(n, c) \in FullArgs
    BY DEF FullArgs, Arg
<1>. QED
    BY <1>1, <1>2, <1>3, <1>4 DEF n, c, Selected2

LEMMA PageSetsAre ==
    ASSUME ex \in Selections, ContainersOf(con), NEW p
    PROVE  /\ PageSets(p) \in Seq(PageJobs)
           /\ \A j \in In(PageSets(p)) : j \in PageJobs /\ IsJobOf(j, p) /\ p \in Loaders
           /\ p \in Openers /\ p # mounted => In(PageSets(p)) = {OpeningJob(p)}
           /\ p \in Openers /\ p = mounted => PageSets(p) = <<>>
           /\ p = "explanation" =>
                /\ \A j \in In(PageSets(p)) : j = AskExplanation(SelectionArg(ex)) /\ Selected2(ex)
                /\ Selected2(ex) /\ DiffersFrom(p) => AskExplanation(SelectionArg(ex)) \in In(PageSets(p))
           /\ p = "plgraph" =>
                /\ \A j \in In(PageSets(p)) : j = AskPLGraph(SelectionArg(ex))
                /\ DiffersFrom(p) /\ ~con[p].loading => AskPLGraph(SelectionArg(ex)) \in In(PageSets(p))
<1>1. CASE p \in Openers
    <2>1. PageSets(p) = OpenerSets(p) /\ p # "explanation" /\ p # "plgraph"
        BY <1>1 DEF PageSets, Openers
    <2>2. CASE p = mounted
        <3>1. PageSets(p) = <<>>
            BY Zenon, <2>1, <2>2 DEF OpenerSets
        <3>. QED
            BY Zenon, <2>1, <2>2, <3>1, Nothing
    <2>3. CASE p # mounted
        <3>1. PageSets(p) = <<OpeningJob(p)>> /\ OpeningJob(p) \in PageJobs
            BY Zenon, <1>1, <2>1, <2>3 DEF OpenerSets, OpeningJob, PageJobs
        <3>2. IsJobOf(OpeningJob(p), p) /\ p \in Loaders
            BY <1>1, SetParts DEF IsJobOf, OpeningJob, Loaders
        <3>3. PageSets(p) \in Seq(PageJobs) /\ In(PageSets(p)) = {OpeningJob(p)}
            BY Zenon, <3>1, Single
        <3>. QED
            BY Zenon, <2>1, <2>3, <3>1, <3>2, <3>3
    <2>. QED
        BY <2>2, <2>3
<1>2. CASE p = "explanation"
    <2>. DEFINE j == AskExplanation(SelectionArg(ex))
    <2>1. PageSets(p) = ExplanationSets /\ p \notin Openers
        BY <1>2 DEF PageSets, Openers
    <2>2. CASE Selected2(ex) /\ DiffersFrom(p)
        <3>1. PageSets(p) = <<j>>
            <4>1. /\ SelectionArg(ex).exchange = ex.exchangeName
                  /\ SelectionArg(ex).code = ex.currencyCodePair
                BY SelectionArgType
            <4>. QED
                BY Zenon, <1>2, <2>1, <2>2, <4>1 DEF ExplanationSets, AskExplanation, Selected2
        <3>2. j \in PageJobs
            BY Zenon, <2>2, SelectionArgType DEF PageJobs
        <3>3. IsJobOf(j, p) /\ p \in Loaders
            BY <1>2, SetParts DEF IsJobOf, AskExplanation, Loaders, Followers
        <3>. HIDE DEF j
        <3>4. PageSets(p) \in Seq(PageJobs) /\ In(PageSets(p)) = {j}
            BY Zenon, <3>1, <3>2, Single
        <3>5. p # "plgraph"
            BY <1>2
        <3>. QED
            BY Zenon, <2>1, <2>2, <3>2, <3>3, <3>4, <3>5 DEF j
    <2>3. CASE ~(Selected2(ex) /\ DiffersFrom(p))
        <3>1. PageSets(p) = <<>>
            BY Zenon, <1>2, <2>1, <2>3 DEF ExplanationSets, Selected2
        <3>2. p # "plgraph"
            BY <1>2
        <3>4. PageSets(p) \in Seq(PageJobs) /\ In(PageSets(p)) = {}
            BY Zenon, <3>1, Nothing
        <3>. QED
            BY Zenon, <2>1, <2>3, <3>2, <3>4
    <2>. QED
        BY <2>2, <2>3
<1>3. CASE p = "plgraph"
    <2>. DEFINE j == AskPLGraph(SelectionArg(ex))
    <2>1. PageSets(p) = PLGraphSets /\ p \notin Openers /\ p # "explanation"
        BY <1>3 DEF PageSets, Openers
    <2>2. CASE DiffersFrom(p) /\ ~con[p].loading
        <3>1. PageSets(p) = <<j>>
            BY Zenon, <1>3, <2>1, <2>2 DEF PLGraphSets, AskPLGraph
        <3>2. j \in PageJobs
            BY Zenon, SelectionArgType DEF PageJobs
        <3>3. IsJobOf(j, p) /\ p \in Loaders
            BY <1>3, SetParts DEF IsJobOf, AskPLGraph, Loaders, Followers
        <3>. HIDE DEF j
        <3>4. PageSets(p) \in Seq(PageJobs) /\ In(PageSets(p)) = {j}
            BY Zenon, <3>1, <3>2, Single
        <3>. QED
            BY Zenon, <2>1, <2>2, <3>2, <3>3, <3>4 DEF j
    <2>3. CASE ~(DiffersFrom(p) /\ ~con[p].loading)
        <3>1. PageSets(p) = <<>>
            BY Zenon, <1>3, <2>1, <2>3 DEF PLGraphSets
        <3>4. PageSets(p) \in Seq(PageJobs) /\ In(PageSets(p)) = {}
            BY Zenon, <3>1, Nothing
        <3>. QED
            BY Zenon, <2>1, <2>3, <3>4
    <2>. QED
        BY <2>2, <2>3
<1>4. CASE p \notin Openers \cup {"explanation", "plgraph"}
    <2>1. con["signals"].loading
        BY DEF ContainersOf, clearState
    <2>2. SignalsSets = <<>>
        BY Zenon, <2>1 DEF SignalsSets
    <2>3. PageSets(p) = <<>>
        BY <1>4, <2>2 DEF PageSets
    <2>5. PageSets(p) \in Seq(PageJobs) /\ In(PageSets(p)) = {}
        BY Zenon, <2>3, Nothing
    <2>. QED
        BY <1>4, <2>5
<1>. QED
    BY <1>1, <1>2, <1>3, <1>4

LEMMA ShowEditorTyped ==
    ASSUME EditorTyped, PageTyped, NEW p, ShowEditor(p), mounted' = p
    PROVE  EditorTyped'
<1>1. ASSUME Shown("configuration")
      PROVE  \E text \in Texts : con["configuration"].data = TextArg(text) /\ con["configuration"].data.text = text
    <2>1. con["configuration"] \in ConfigStates
        BY Zenon DEF PageTyped, ContainersOf
    <2>2. con["configuration"].data \in {NoData} \cup {TextArg(text) : text \in Texts}
        BY <2>1, ConfigStatesAre DEF ConfigFields
    <2>. QED
        BY <1>1, <2>2, ArgFacts DEF Shown
<1>2. /\ editor \in [on : BOOLEAN, text : AnyText, timer : BOOLEAN]
      /\ editor.timer => editor.text \in Texts
      /\ orphans \subseteq Texts
    BY DEF EditorTyped
<1>3. NoText \in AnyText /\ Texts \subseteq AnyText
    BY DEF AnyText
<1>4. CASE p = "configuration" /\ Shown(p)
    <2>1. orphans' = orphans
        BY <1>4 DEF ShowEditor
    <2>2. CASE editor.on
        <3>1. editor' = editor
            BY <1>4, <2>2 DEF ShowEditor
        <3>. QED
            BY <1>2, <1>4, <2>1, <3>1 DEF EditorTyped
    <2>3. CASE ~editor.on
        <3>1. editor' = [on |-> TRUE, text |-> con[p].data.text, timer |-> FALSE]
            BY <1>4, <2>3 DEF ShowEditor
        <3>2. con[p].data.text \in AnyText
            BY <1>1, <1>3, <1>4
        <3>3. /\ editor' \in [on : BOOLEAN, text : AnyText, timer : BOOLEAN]
              /\ editor'.timer = FALSE
            BY <3>1, <3>2
        <3>. QED
            BY <1>2, <1>4, <2>1, <3>3 DEF EditorTyped
    <2>. QED
        BY <2>2, <2>3
<1>5. CASE ~(p = "configuration" /\ Shown(p))
    <2>1. editor' = noEditor /\ orphans' = IF editor.timer THEN orphans \cup {editor.text} ELSE orphans
        BY <1>5 DEF ShowEditor
    <2>2. /\ noEditor \in [on : BOOLEAN, text : AnyText, timer : BOOLEAN]
          /\ noEditor.timer = FALSE /\ noEditor.on = FALSE
        BY <1>3 DEF noEditor
    <2>3. orphans' \subseteq Texts
        BY <1>2, <2>1
    <2>. QED
        BY <2>1, <2>2, <2>3 DEF EditorTyped
<1>. QED
    BY <1>4, <1>5

LEMMA ShowItemTyped ==
    ASSUME ItemTyped, NetTyped(net), NEW p, ShowItem(p), mounted' = p
    PROVE  /\ ItemTyped' /\ NetTyped(net)'
           /\ ~AskedIn(net) => ~AskedIn(net)'
           /\ AskedOnceIn(net) => AskedOnceIn(net)'
           /\ \A x : x.name \notin Updates => (x \in DOMAIN net' <=> x \in DOMAIN net)
<1>1. net' = net \/ net' = Disowned(net)
    BY Zenon DEF ShowItem
<1>2. ItemTyped'
    BY DEF ItemTyped, ShowItem, noItem
<1>. QED
    BY Zenon, <1>1, <1>2, DisownedFacts

LEMMA UnmountTyped ==
    ASSUME StartedTyped, NEW p, Unmount(p)
    PROVE  StartedTyped'
<1>1. \A n \in Repeated : Stopped(n) \in BOOLEAN
    BY DEF Stopped, StartedTyped
<1>2. [n \in Repeated |-> Stopped(n)] \in [Repeated -> BOOLEAN]
    BY <1>1
<1>. QED
    BY Zenon, <1>2 DEF Unmount, StartedTyped

LEMMA InJoin3 ==
    ASSUME NEW S, NEW f \in Seq(S), NEW t \in Seq(S), NEW l \in Seq(S)
    PROVE  /\ (f \o t) \o l \in Seq(S)
           /\ In((f \o t) \o l) = In(f) \cup In(t) \cup In(l)
<1>. DEFINE a == f \o t
<1>1. a \in Seq(S) /\ In(a) = In(f) \cup In(t)
    BY InConcat
<1>. HIDE DEF a
<1>2. a \o l \in Seq(S) /\ In(a \o l) = In(a) \cup In(l)
    BY <1>1, InConcat
<1>. QED
    BY <1>1, <1>2 DEF a

LEMMA InJoin5 ==
    ASSUME NEW S, NEW f \in Seq(S), NEW t \in Seq(S), NEW l \in Seq(S), NEW m \in Seq(S), NEW g \in Seq(S)
    PROVE  /\ f \o t \in Seq(S)
           /\ (f \o t) \o l \in Seq(S)
           /\ ((f \o t) \o l) \o m \in Seq(S)
           /\ (((f \o t) \o l) \o m) \o g \in Seq(S)
           /\ In(f \o t) = In(f) \cup In(t)
           /\ In((((f \o t) \o l) \o m) \o g) = In(f) \cup In(t) \cup In(l) \cup In(m) \cup In(g)
<1>. DEFINE a == f \o t
            b == a \o l
            c == b \o m
<1>1. a \in Seq(S) /\ In(a) = In(f) \cup In(t)
    BY InConcat
<1>2. b \in Seq(S) /\ In(b) = In(a) \cup In(l)
    <2>. HIDE DEF a
    <2>. QED
        BY <1>1, InConcat
<1>3. c \in Seq(S) /\ In(c) = In(b) \cup In(m)
    <2>. HIDE DEF b
    <2>. QED
        BY <1>2, InConcat
<1>4. c \o g \in Seq(S) /\ In(c \o g) = In(c) \cup In(g)
    <2>. HIDE DEF c
    <2>. QED
        BY <1>3, InConcat
<1>. QED
    BY <1>1, <1>2, <1>3, <1>4

-----------------------------------------------------------------------------
(* Rendering. *)

LEMMA StageOf ==
    ASSUME ex \in Selections, Stage
    PROVE  Going(ex) <=> Selected2(ex)
<1>1. ASSUME Going(ex) PROVE Selected2(ex)
    BY <1>1, GoingFacts, NotReady DEF Applied, Ready, Selected2
<1>2. ASSUME ex = emptySelection \/ ex = Started PROVE ~Selected2(ex)
    BY <1>2, NotReady, LoadedIs DEF Selected2
<1>. QED
    BY <1>1, <1>2 DEF Stage

LEMMA ReadyMeans ==
    ASSUME ex \in Selections, Stage
    PROVE  Ready(ex) <=> Going(ex)
<1>1. ASSUME Going(ex) PROVE Ready(ex)
    BY <1>1, GoingFacts DEF Applied
<1>2. ASSUME Ready(ex) PROVE Going(ex)
    BY <1>2, StageOf DEF Ready, Selected2
<1>. QED
    BY <1>1, <1>2

(* What a render does to the page p.                                         *)
Rendered(p) ==
    /\ Rendering
    /\ mounted' = p
    /\ Unmount(p)
    /\ ShowEditor(p)
    /\ ShowItem(p)
    /\ UNCHANGED <<who, entry, ex, con, conts, clicks, faults, ghosts>>

LEMMA RenderedTyping ==
    ASSUME Typing, NEW p \in {Blank} \cup (Routes(who) \ {"home"}), Rendered(p)
    PROVE  /\ who' \in Profiles /\ PageTyped' /\ EditorTyped' /\ ItemTyped'
           /\ StartedTyped' /\ NetTyped(net)' /\ BoundsTyped'
           /\ who' = who /\ entry' = entry /\ ex' = ex /\ con' = con /\ conts' = conts
           /\ mounted' = p
           /\ entry' \in URLs /\ ex' \in Selections /\ conts' \in Seq(Conts)
           /\ ~AskedIn(net) => ~AskedIn(net)'
           /\ AskedOnceIn(net) => AskedOnceIn(net)'
           /\ \A x : x.name \notin Updates => (x \in DOMAIN net' <=> x \in DOMAIN net)
<1>1. /\ who' = who /\ entry' = entry /\ ex' = ex /\ con' = con /\ conts' = conts
      /\ mounted' = p /\ clicks' = clicks /\ faults' = faults
      /\ Unmount(p) /\ ShowEditor(p) /\ ShowItem(p)
    BY DEF Rendered
<1>2. PageTyped'
    BY Zenon, <1>1 DEF Typing, PageTyped
<1>3. EditorTyped' /\ StartedTyped'
    BY Zenon, <1>1, ShowEditorTyped, UnmountTyped DEF Typing
<1>4. /\ ItemTyped' /\ NetTyped(net)'
      /\ ~AskedIn(net) => ~AskedIn(net)'
      /\ AskedOnceIn(net) => AskedOnceIn(net)'
      /\ \A x : x.name \notin Updates => (x \in DOMAIN net' <=> x \in DOMAIN net)
    BY Zenon, <1>1, ShowItemTyped DEF Typing
<1>5. BoundsTyped' /\ who' \in Profiles /\ entry' \in URLs /\ ex' \in Selections /\ conts' \in Seq(Conts)
    BY Zenon, <1>1 DEF Typing, BoundsTyped, SelectionTyped, QueueTyped
<1>. QED
    BY Zenon, <1>1, <1>2, <1>3, <1>4, <1>5

LEMMA RenderingHead ==
    ASSUME Typing, Rendering
    PROVE  /\ Head(jobs) \in Renders /\ Head(jobs) \in In(jobs) /\ Tail(jobs) \in Seq(Jobs)
           /\ In(jobs) = {Head(jobs)} \cup In(Tail(jobs))
           /\ jobs # <<>> /\ jobs \in Seq(Jobs)
<1>1. jobs \in Seq(Jobs) /\ jobs # <<>> /\ Head(jobs).k = "render"
    BY DEF Typing, QueueTyped, Rendering
<1>. QED
    BY <1>1, InParts, JobRenders

LEMMA RedirectShape ==
    ASSUME Typing, Redirect
    PROVE  LET t == Tail(jobs)
               l == LeaveSets(Blank)
           IN  /\ Rendered(Blank) /\ url' = Redirected(who) /\ url' \in URLs
               /\ jobs' = (<<Render(TRUE)>> \o t) \o l
               /\ <<Render(TRUE)>> \o t \in Seq(Jobs) /\ l \in Seq(PageJobs) /\ l \in Seq(Jobs)
               /\ jobs' \in Seq(Jobs) /\ In(jobs') = {Render(TRUE)} \cup In(t) \cup In(l)
               /\ \A j \in In(l) : j = ClearJob
<1>. DEFINE t == Tail(jobs)
            l == LeaveSets(Blank)
            f == <<Render(TRUE)>>
<1>1. t \in Seq(Jobs) /\ Render(TRUE) \in Jobs
    BY RenderingHead, RenderParts, JobsApart DEF Redirect
<1>2. l \in Seq(PageJobs) /\ \A j \in In(l) : j = ClearJob
    BY LeaveSetsAre
<1>3. l \in Seq(Jobs)
    BY Zenon, <1>2, JobsApart, SeqSubset
<1>4. f \in Seq(Jobs) /\ In(f) = {Render(TRUE)}
    BY Zenon, <1>1, Single
<1>5. jobs' = (f \o t) \o l /\ url' = Redirected(who) /\ Rendered(Blank)
    BY Zenon DEF Redirect, Rendered
<1>. HIDE DEF t, l, f
<1>6. f \o t \in Seq(Jobs)
    BY <1>1, <1>4, InConcat
<1>7. (f \o t) \o l \in Seq(Jobs) /\ In((f \o t) \o l) = In(f) \cup In(t) \cup In(l)
    <2>1. f \in Seq(Jobs) /\ t \in Seq(Jobs) /\ l \in Seq(Jobs)
        BY <1>1, <1>3, <1>4
    <2>. QED
        BY <2>1, InJoin3
<1>8. url' \in URLs
    BY Zenon, <1>5, RedirectedType
<1>9. jobs' \in Seq(Jobs) /\ In(jobs') = {Render(TRUE)} \cup In(t) \cup In(l)
    BY Zenon, <1>4, <1>5, <1>7
<1>. QED
    BY Zenon, <1>9, <1>2, <1>3, <1>4, <1>5, <1>6, <1>7, <1>8 DEF t, l, f

LEMMA RedirectTyping ==
    ASSUME Typing, Redirect
    PROVE  Typing'
<1>1. Rendered(Blank) /\ url' \in URLs /\ jobs' \in Seq(Jobs)
    BY RedirectShape
<1>2. /\ who' \in Profiles /\ PageTyped' /\ EditorTyped' /\ ItemTyped'
      /\ StartedTyped' /\ NetTyped(net)' /\ BoundsTyped'
      /\ entry' \in URLs /\ ex' \in Selections /\ conts' \in Seq(Conts)
    BY Zenon, <1>1, RenderedTyping
<1>. QED
    BY Zenon, <1>1, <1>2 DEF Typing, SelectionTyped, QueueTyped

(* checkParameters() in a render.                                            *)
Checks == Head(jobs).header /\ url.page \in Headers(who) /\ Ready(ex)
Moves  == Checks /\ NewPath(url, ex) # url

ShowFirst == IF Moves THEN <<Render(TRUE)>> ELSE <<>>
ShowSets  == IF Checks /\ ~Moves THEN Sets(url, ex) ELSE <<>>

LEMMA ShowIs ==
    ASSUME Show
    PROVE  /\ url.page \in Routes(who) \ {"home"} /\ Rendered(url.page)
           /\ url' = IF Moves THEN NewPath(url, ex) ELSE url
           /\ jobs' = (((ShowFirst \o Tail(jobs)) \o LeaveSets(url.page)) \o ShowSets) \o PageSets(url.page)
BY Zenon DEF Show, Checks, Moves, ShowFirst, ShowSets, Rendered

LEMMA ShowParts ==
    ASSUME Typing, Stage, Show
    PROVE  LET t == Tail(jobs)
               l == LeaveSets(url.page)
               g == PageSets(url.page)
           IN  /\ ShowFirst \in Seq(Jobs) /\ t \in Seq(Jobs) /\ l \in Seq(Jobs)
               /\ ShowSets \in Seq(Jobs) /\ g \in Seq(Jobs)
               /\ ShowFirst \o t \in Seq(Jobs)
               /\ (ShowFirst \o t) \o l \in Seq(Jobs)
               /\ ((ShowFirst \o t) \o l) \o ShowSets \in Seq(Jobs)
               /\ In(ShowFirst \o t) = In(ShowFirst) \cup In(t)
               /\ jobs' \in Seq(Jobs)
               /\ In(jobs') = In(ShowFirst) \cup In(t) \cup In(l) \cup In(ShowSets) \cup In(g)
               /\ \A j \in In(l) : j = ClearJob
               /\ Checks => Going(ex)
               /\ Moves => In(ShowFirst) = {Render(TRUE)} /\ ShowSets = <<>> /\ In(ShowSets) = {}
               /\ ~Moves => ShowFirst = <<>> /\ In(ShowFirst) = {}
               /\ Checks /\ ~Moves => ShowSets = Sets(url, ex)
               /\ ~Checks => ShowSets = <<>> /\ In(ShowSets) = {}
               /\ \A j \in In(ShowSets) : j \in HeaderJobs
               /\ \A j \in In(g) : j \in PageJobs /\ IsJobOf(j, url.page)
               /\ url' \in URLs /\ url'.page = url.page
<1>. DEFINE t == Tail(jobs)
            l == LeaveSets(url.page)
            g == PageSets(url.page)
            f == ShowFirst
            m == ShowSets
<1>1. t \in Seq(Jobs) /\ Render(TRUE) \in Jobs
    BY RenderingHead, RenderParts, JobsApart DEF Show
<1>2. l \in Seq(PageJobs) /\ \A j \in In(l) : j = ClearJob
    BY LeaveSetsAre
<1>3. l \in Seq(Jobs)
    BY Zenon, <1>2, JobsApart, SeqSubset
<1>4. ex \in Selections /\ url \in URLs /\ ContainersOf(con)
    BY Zenon DEF Typing, SelectionTyped, PageTyped
<1>5. g \in Seq(PageJobs) /\ \A j \in In(g) : j \in PageJobs /\ IsJobOf(j, url.page)
    BY Zenon, <1>4, PageSetsAre
<1>6. g \in Seq(Jobs)
    BY Zenon, <1>5, JobsApart, SeqSubset
<1>7. Checks => Going(ex)
    BY <1>4, ReadyMeans DEF Checks
<1>8. /\ Moves => f \in Seq(Jobs) /\ In(f) = {Render(TRUE)}
      /\ ~Moves => f = <<>> /\ f \in Seq(Jobs) /\ In(f) = {}
    <2>1. Moves => f = <<Render(TRUE)>>
        BY Zenon DEF ShowFirst
    <2>2. ~Moves => f = <<>>
        BY Zenon DEF ShowFirst
    <2>. HIDE DEF f
    <2>3. Moves => f \in Seq(Jobs) /\ In(f) = {Render(TRUE)}
        BY Zenon, <1>1, <2>1, Single
    <2>4. ~Moves => f \in Seq(Jobs) /\ In(f) = {}
        BY Zenon, <2>2, Nothing
    <2>. QED
        BY Zenon, <2>2, <2>3, <2>4
<1>9. /\ ~Checks => m = <<>> /\ In(m) = {}
      /\ Moves => m = <<>> /\ In(m) = {}
      /\ Checks /\ ~Moves => m = Sets(url, ex)
      /\ m \in Seq(HeaderJobs)
    <2>1. ~Checks \/ Moves => m = <<>>
        BY Zenon DEF ShowSets
    <2>2. Checks /\ ~Moves => m = Sets(url, ex)
        BY Zenon DEF ShowSets
    <2>. HIDE DEF m
    <2>3. ~Checks \/ Moves => m \in Seq(HeaderJobs) /\ In(m) = {}
        BY Zenon, <2>1, Nothing
    <2>4. Checks /\ ~Moves => m \in Seq(HeaderJobs)
        BY <1>4, <1>7, <2>2, SetsAre
    <2>. QED
        BY Zenon, <2>1, <2>2, <2>3, <2>4
<1>10. \A j \in In(m) : j \in HeaderJobs
    BY Zenon, <1>9, InElements
<1>11. m \in Seq(Jobs)
    BY Zenon, <1>9, JobsApart, SeqSubset
<1>12. jobs' = (((f \o t) \o l) \o m) \o g
    BY Zenon, ShowIs
<1>13. url' \in URLs /\ url'.page = url.page
    BY Zenon, <1>4, <1>7, ShowIs, NewPathType DEF Moves
<1>18. f \in Seq(Jobs)
    BY <1>8
<1>. HIDE DEF t, l, g, f, m
<1>14. /\ f \o t \in Seq(Jobs)
       /\ (f \o t) \o l \in Seq(Jobs)
       /\ ((f \o t) \o l) \o m \in Seq(Jobs)
       /\ (((f \o t) \o l) \o m) \o g \in Seq(Jobs)
       /\ In(f \o t) = In(f) \cup In(t)
       /\ In((((f \o t) \o l) \o m) \o g) = In(f) \cup In(t) \cup In(l) \cup In(m) \cup In(g)
    BY <1>1, <1>3, <1>6, <1>11, <1>18, InJoin5
<1>15. /\ jobs' \in Seq(Jobs)
       /\ In(jobs') = In(f) \cup In(t) \cup In(l) \cup In(m) \cup In(g)
    BY Zenon, <1>12, <1>14
<1>. QED
    BY Zenon, <1>1, <1>2, <1>3, <1>5, <1>6, <1>7, <1>8, <1>9, <1>10, <1>11, <1>13, <1>14, <1>15
       DEF t, l, g, f, m

LEMMA ShowTyping ==
    ASSUME Typing, Stage, Show
    PROVE  Typing'
<1>1. Rendered(url.page) /\ url' \in URLs /\ jobs' \in Seq(Jobs) /\ url.page \in Routes(who) \ {"home"}
    BY Zenon, ShowIs, ShowParts
<1>2. /\ who' \in Profiles /\ PageTyped' /\ EditorTyped' /\ ItemTyped'
      /\ StartedTyped' /\ NetTyped(net)' /\ BoundsTyped'
      /\ entry' \in URLs /\ ex' \in Selections /\ conts' \in Seq(Conts)
    BY Zenon, <1>1, RenderedTyping
<1>. QED
    BY Zenon, <1>1, <1>2 DEF Typing, SelectionTyped, QueueTyped

-----------------------------------------------------------------------------
(* Microtasks. *)

LEMMA ApplyParts ==
    ASSUME Typing, Apply
    PROVE  LET j == Head(jobs)
               t == Tail(jobs)
           IN  /\ jobs # <<>> /\ jobs \in Seq(Jobs) /\ j \in Jobs /\ j.k = "set" /\ j \in In(jobs)
               /\ t \in Seq(Jobs) /\ In(jobs) = {j} \cup In(t)
               /\ UNCHANGED <<who, url, entry, mounted, editor, orphans, item, netVars, clicks, faults, ghosts>>
               /\ j.container = "exchange" =>
                    /\ ex' = Patched(ex, j.patch) /\ con' = con
                    /\ jobs' = <<Render(TRUE)>> \o t
                    /\ In(jobs') = {Render(TRUE)} \cup In(t) /\ Head(jobs') = Render(TRUE) /\ jobs' # <<>>
               /\ j.container # "exchange" =>
                    /\ ex' = ex /\ con' = [con EXCEPT ![j.container] = Patched(@, j.patch)]
                    /\ mounted = j.container =>
                         /\ jobs' = <<Render(FALSE)>> \o t
                         /\ In(jobs') = {Render(FALSE)} \cup In(t) /\ Head(jobs') = Render(FALSE)
                         /\ jobs' # <<>>
                    /\ mounted # j.container => jobs' = t
               /\ jobs' \in Seq(Jobs)
               /\ j.then = NoThen => conts' = conts
               /\ j.then # NoThen => conts' = Append(conts, j.then) /\ In(conts') = In(conts) \cup {j.then}
               /\ conts' \in Seq(Conts)
<1>. DEFINE j == Head(jobs)
            t == Tail(jobs)
<1>1. jobs # <<>> /\ jobs \in Seq(Jobs) /\ conts \in Seq(Conts) /\ j.k = "set"
    BY Zenon DEF Typing, QueueTyped, Apply
<1>2. j \in Jobs /\ j \in In(jobs) /\ t \in Seq(Jobs) /\ In(jobs) = {j} \cup In(t)
    BY <1>1, InParts
<1>3. /\ UNCHANGED <<who, url, entry, mounted, editor, orphans, item, netVars, clicks, faults, ghosts>>
      /\ conts' = IF j.then = NoThen THEN conts ELSE Append(conts, j.then)
      /\ j.container = "exchange" =>
           ex' = Patched(ex, j.patch) /\ con' = con /\ jobs' = <<Render(TRUE)>> \o t
      /\ j.container # "exchange" =>
           /\ ex' = ex /\ con' = [con EXCEPT ![j.container] = Patched(@, j.patch)]
           /\ mounted = j.container => jobs' = <<Render(FALSE)>> \o t
           /\ mounted # j.container => jobs' = <<>> \o t
    BY Zenon DEF Apply
<1>4. Render(TRUE) \in Jobs /\ Render(FALSE) \in Jobs
    BY Zenon, RenderParts, JobsApart
<1>5. j.then \in Conts \cup {NoThen}
    BY Zenon, <1>1, <1>2, ThenType DEF Conts
<1>6. j.then # NoThen => In(conts') = In(conts) \cup {j.then} /\ conts' \in Seq(Conts)
    <2>1. j.then # NoThen => conts' = Append(conts, j.then) /\ j.then \in Conts
        BY <1>3, <1>5
    <2>2. ASSUME NEW x \in Conts
          PROVE  Append(conts, x) \in Seq(Conts) /\ In(Append(conts, x)) = In(conts) \cup {x}
        BY <1>1, InAppend
    <2>. HIDE DEF j
    <2>. QED
        BY Zenon, <2>1, <2>2
<1>. HIDE DEF j, t
<1>7. <<>> \o t = t
    BY <1>2
<1>8. /\ j.container = "exchange" =>
           /\ jobs' \in Seq(Jobs) /\ In(jobs') = {Render(TRUE)} \cup In(t)
           /\ Head(jobs') = Render(TRUE) /\ jobs' # <<>>
      /\ j.container # "exchange" /\ mounted = j.container =>
           /\ jobs' \in Seq(Jobs) /\ In(jobs') = {Render(FALSE)} \cup In(t)
           /\ Head(jobs') = Render(FALSE) /\ jobs' # <<>>
    <2>1. ASSUME NEW x \in Jobs, jobs' = <<x>> \o t
          PROVE  /\ jobs' \in Seq(Jobs) /\ In(jobs') = {x} \cup In(t)
                 /\ Head(jobs') = x /\ jobs' # <<>>
        <3>1. t \in Seq(Jobs)
            BY <1>2
        <3>. DEFINE f == <<x>>
        <3>2. f \in Seq(Jobs) /\ In(f) = {x}
            BY Zenon, Single
        <3>3. Head(f \o t) = x /\ f \o t # <<>>
            BY <3>1
        <3>. HIDE DEF f
        <3>4. f \o t \in Seq(Jobs) /\ In(f \o t) = In(f) \cup In(t)
            BY <3>1, <3>2, InConcat
        <3>5. jobs' = f \o t
            BY <2>1 DEF f
        <3>. QED
            BY Zenon, <3>2, <3>3, <3>4, <3>5
    <2>2. ASSUME jobs' = <<Render(TRUE)>> \o t
          PROVE  /\ jobs' \in Seq(Jobs) /\ In(jobs') = {Render(TRUE)} \cup In(t)
                 /\ Head(jobs') = Render(TRUE) /\ jobs' # <<>>
        BY <1>4, <2>1, <2>2
    <2>3. ASSUME jobs' = <<Render(FALSE)>> \o t
          PROVE  /\ jobs' \in Seq(Jobs) /\ In(jobs') = {Render(FALSE)} \cup In(t)
                 /\ Head(jobs') = Render(FALSE) /\ jobs' # <<>>
        BY <1>4, <2>1, <2>3
    <2>. QED
        BY Zenon, <1>3, <2>2, <2>3
<1>9. j.then = NoThen => conts' = conts /\ conts' \in Seq(Conts)
    BY Zenon, <1>1, <1>3
<1>10. j.container # "exchange" /\ mounted # j.container => jobs' = t /\ jobs' \in Seq(Jobs)
    BY <1>2, <1>3, <1>7
<1>. QED
    BY Zenon, <1>1, <1>2, <1>3, <1>6, <1>8, <1>9, <1>10 DEF j, t

LEMMA SelectApplied ==
    ASSUME NEW s \in Selections, NEW j \in SelectJobs
    PROVE  Patched(s, j.patch) \in Selections
<1>1. LoadedJob.patch = Loaded /\ FirstJob.patch = updateSelected(Started)
    BY SetParts DEF LoadedJob, FirstJob
<1>2. j = LoadedJob \/ j = FirstJob \/ j \in IntervalJobs \/ j \in ExchangeJobs \/ j \in SymbolJobs
    BY Zenon DEF SelectJobs, HeaderJobs
<1>3. CASE j = LoadedJob
    BY Zenon, <1>1, <1>3, LoadedApplied
<1>4. CASE j = FirstJob
    BY Zenon, <1>1, <1>4, FirstApplied
<1>5. CASE j \in IntervalJobs
    BY Zenon, <1>5, IntervalApplied
<1>6. CASE j \in ExchangeJobs
    BY Zenon, <1>6, ExchangeApplied
<1>7. CASE j \in SymbolJobs
    BY Zenon, <1>7, SymbolApplied
<1>. QED
    BY Zenon, <1>2, <1>3, <1>4, <1>5, <1>6, <1>7

LEMMA ApplyTyping ==
    ASSUME Typing, Apply
    PROVE  Typing'
<1>. DEFINE j == Head(jobs)
<1>1. /\ who' = who /\ url' = url /\ entry' = entry /\ mounted' = mounted /\ editor' = editor
      /\ orphans' = orphans /\ item' = item /\ started' = started /\ net' = net
      /\ clicks' = clicks /\ faults' = faults
      /\ j \in Jobs /\ j.k = "set" /\ jobs' \in Seq(Jobs) /\ conts' \in Seq(Conts)
      /\ j.container = "exchange" => ex' = Patched(ex, j.patch) /\ con' = con
      /\ j.container # "exchange" => ex' = ex /\ con' = [con EXCEPT ![j.container] = Patched(@, j.patch)]
    BY Zenon, ApplyParts DEF netVars
<1>. HIDE DEF j
<1>2. ex' \in Selections
    <2>1. ex \in Selections
        BY Zenon DEF Typing, SelectionTyped
    <2>2. j.container = "exchange" => j \in SelectJobs
        BY Zenon, <1>1, JobContainer, JobsOfAre
    <2>. QED
        BY Zenon, <1>1, <2>1, <2>2, SelectApplied
<1>3. PageTyped'
    <2>1. ContainersOf(con)
        BY Zenon DEF Typing, PageTyped
    <2>2. j.container # "exchange" => ContainersOf([con EXCEPT ![j.container] = Patched(@, j.patch)])
        BY <1>1, <2>1, ConApplied
    <2>3. ContainersOf(con')
        BY Zenon, <1>1, <2>1, <2>2
    <2>. QED
        BY Zenon, <1>1, <2>3 DEF Typing, PageTyped
<1>4. EditorTyped' /\ ItemTyped' /\ StartedTyped' /\ NetTyped(net)' /\ BoundsTyped'
    <2>1. EditorTyped'
        BY Zenon, <1>1 DEF Typing, EditorTyped
    <2>2. ItemTyped' /\ StartedTyped' /\ NetTyped(net)' /\ BoundsTyped'
        BY Zenon, <1>1 DEF Typing, ItemTyped, StartedTyped, BoundsTyped
    <2>. QED
        BY <2>1, <2>2
<1>. QED
    BY Zenon, <1>1, <1>2, <1>3, <1>4 DEF Typing, SelectionTyped, QueueTyped

LEMMA SendTyped ==
    ASSUME Typing, NEW r, Pending(r), Send(r)
    PROVE  NetTyped(net)' /\ StartedTyped'
<1>1. started \in [Repeated -> BOOLEAN]
    BY Zenon DEF Typing, StartedTyped
<1>2. started' = IF r.name \in Repeated THEN [started EXCEPT ![r.name] = TRUE] ELSE started
    BY Zenon DEF Send, Starts
<1>3. started' \in [Repeated -> BOOLEAN]
    BY <1>1, <1>2
<1>. QED
    BY Zenon, <1>3, SentTyped DEF Typing, StartedTyped, Send

ContSets(c) ==
    CASE c.k = "selected"  -> <<Set("exchange", updateSelected(ex), NoThen)>>
      [] c.k = "selection" -> SelectionSets(c.url, ex)
      [] c.k = "symbol"    -> SymbolSets(c.url, ex)

LEMMA ContSetsAre ==
    ASSUME Typing, Stage, Continue, Head(conts).k # "ask"
    PROVE  LET c == Head(conts)
           IN  \/ c.k = "selected" /\ ex = Started /\ ContSets(c) = <<FirstJob>>
               \/ /\ Going(ex) /\ c.url \in URLs
                  /\ \/ c.k = "selection" /\ ContSets(c) = SelectionSets(c.url, ex)
                     \/ c.k = "symbol" /\ ContSets(c) = SymbolSets(c.url, ex)
<1>. DEFINE c == Head(conts)
<1>1. conts \in Seq(Conts) /\ conts # <<>> /\ ex \in Selections
    BY Zenon DEF Typing, QueueTyped, SelectionTyped, Continue
<1>2. c \in Conts /\ c \in In(conts)
    BY <1>1, InParts
<1>3. c \in SelectConts
    BY Zenon, <1>2, AskContParts DEF Conts
<1>4. c.k \in {"selected", "selection", "symbol"} /\ (c.k # "selected" => c.url \in URLs)
    BY <1>3, SelectContParts
<1>5. CASE c.k = "selected"
    <2>1. ex = Started
        BY Zenon, <1>1, <1>2, <1>5 DEF Stage, OnlyAsks
    <2>2. ContSets(c) = <<FirstJob>>
        BY <1>5, <2>1 DEF ContSets, FirstJob
    <2>. QED
        BY <1>5, <2>1, <2>2
<1>6. CASE c.k # "selected"
    <2>1. Going(ex)
        BY Zenon, <1>1, <1>2, <1>6 DEF Stage, OnlyAsks
    <2>2. c.k = "selection" => ContSets(c) = SelectionSets(c.url, ex)
        BY DEF ContSets
    <2>3. c.k = "symbol" => ContSets(c) = SymbolSets(c.url, ex)
        BY DEF ContSets
    <2>. QED
        BY <1>4, <1>6, <2>1, <2>2, <2>3
<1>. QED
    BY <1>5, <1>6

LEMMA ContinueParts ==
    ASSUME Typing, Stage, Continue
    PROVE  LET c == Head(conts)
           IN  /\ conts # <<>> /\ ~Rendering /\ c \in Conts /\ c \in In(conts)
               /\ Tail(conts) \in Seq(Conts) /\ In(conts) = {c} \cup In(Tail(conts))
               /\ conts' = Tail(conts)
               /\ UNCHANGED <<who, url, entry, ex, pageVars, clicks, faults, gaveUp>>
               /\ c.k = "ask" => c \in AskConts /\ Send(c.request) /\ jobs' = jobs
               /\ c.k # "ask" =>
                    /\ jobs' = jobs \o ContSets(c) /\ UNCHANGED <<netVars, strayed>>
                    /\ ContSets(c) \in Seq(SelectJobs) /\ ContSets(c) \in Seq(Jobs)
                    /\ \A j \in In(ContSets(c)) : j \in SelectJobs
                    /\ In(jobs') = In(jobs) \cup In(ContSets(c))
               /\ jobs \in Seq(Jobs) /\ jobs' \in Seq(Jobs)
<1>. DEFINE c == Head(conts)
            x == ContSets(c)
<1>1. conts \in Seq(Conts) /\ conts # <<>> /\ ex \in Selections /\ jobs \in Seq(Jobs) /\ ~Rendering
    BY Zenon DEF Typing, QueueTyped, SelectionTyped, Continue
<1>2. /\ c \in Conts /\ c \in In(conts) /\ Tail(conts) \in Seq(Conts) /\ In(conts) = {c} \cup In(Tail(conts))
    BY <1>1, InParts
<1>3. /\ conts' = Tail(conts)
      /\ UNCHANGED <<who, url, entry, ex, pageVars, clicks, faults, gaveUp>>
      /\ c.k = "ask" => Send(c.request) /\ jobs' = jobs
      /\ c.k # "ask" => jobs' = jobs \o x /\ UNCHANGED <<netVars, strayed>>
    BY Zenon DEF Continue, ContSets
<1>4. c.k = "ask" => c \in AskConts
    BY <1>2, SelectContParts DEF Conts
<1>5. ASSUME c.k # "ask" PROVE x \in Seq(SelectJobs)
    <2>1. CASE ex = Started /\ x = <<FirstJob>>
        <3>1. FirstJob \in SelectJobs
            BY Zenon DEF SelectJobs
        <3>2. x = <<FirstJob>>
            BY <2>1
        <3>. HIDE DEF x
        <3>. QED
            BY Zenon, <3>1, <3>2, Single
    <2>2. CASE Going(ex) /\ c.url \in URLs /\ x = SelectionSets(c.url, ex)
        <3>1. x \in Seq(HeaderJobs)
            BY <1>1, <2>2, SelectionSetsAre
        <3>2. HeaderJobs \subseteq SelectJobs
            BY Zenon DEF SelectJobs
        <3>. HIDE DEF x
        <3>. QED
            BY Zenon, <3>1, <3>2, SeqSubset
    <2>3. CASE Going(ex) /\ c.url \in URLs /\ x = SymbolSets(c.url, ex)
        <3>1. x \in Seq(SymbolJobs)
            BY <1>1, <2>3, SymbolSetsAre
        <3>2. SymbolJobs \subseteq SelectJobs
            BY Zenon DEF SelectJobs, HeaderJobs
        <3>. HIDE DEF x
        <3>. QED
            BY Zenon, <3>1, <3>2, SeqSubset
    <2>. QED
        BY Zenon, <1>5, <2>1, <2>2, <2>3, ContSetsAre
<1>6. SelectJobs \subseteq Jobs
    BY Zenon DEF Jobs
<1>. HIDE DEF x
<1>7. ASSUME c.k # "ask"
      PROVE  /\ x \in Seq(Jobs) /\ In(jobs') = In(jobs) \cup In(x) /\ jobs' \in Seq(Jobs)
             /\ \A j \in In(x) : j \in SelectJobs
    <2>1. x \in Seq(Jobs)
        BY Zenon, <1>5, <1>6, <1>7, SeqSubset
    <2>2. jobs \in Seq(Jobs) /\ jobs' = jobs \o x
        BY <1>1, <1>3, <1>7
    <2>3. In(jobs') = In(jobs) \cup In(x) /\ jobs' \in Seq(Jobs)
        BY <2>1, <2>2, InConcat
    <2>4. \A j \in In(x) : j \in SelectJobs
        BY Zenon, <1>5, <1>7, InElements
    <2>. QED
        BY <2>1, <2>3, <2>4
<1>. QED
    BY Zenon, <1>1, <1>2, <1>3, <1>4, <1>5, <1>7 DEF x

LEMMA ContinueTyping ==
    ASSUME Typing, Stage, Continue
    PROVE  Typing'
<1>. DEFINE c == Head(conts)
<1>1. /\ UNCHANGED <<who, url, entry, ex, pageVars, clicks, faults, gaveUp>>
      /\ conts' \in Seq(Conts) /\ jobs' \in Seq(Jobs)
      /\ c.k = "ask" => c \in AskConts /\ Send(c.request)
      /\ c.k # "ask" => UNCHANGED netVars
    BY Zenon, ContinueParts
<1>2. NetTyped(net)' /\ StartedTyped'
    <2>1. CASE c.k = "ask"
        BY Zenon, <1>1, <2>1, ContPending, SendTyped
    <2>2. CASE c.k # "ask"
        BY Zenon, <1>1, <2>2 DEF Typing, StartedTyped, netVars
    <2>. QED
        BY <2>1, <2>2
<1>3. PageTyped' /\ EditorTyped' /\ ItemTyped'
    BY Zenon, <1>1 DEF Typing, PageTyped, EditorTyped, ItemTyped, pageVars
<1>. QED
    BY Zenon, <1>1, <1>2, <1>3 DEF Typing, SelectionTyped, QueueTyped, BoundsTyped

-----------------------------------------------------------------------------
(* Tasks: what answers, users and timers do.                                 *)

Verdicts(x) == x.name = "validate"

SameVerdicts == \A x : Verdicts(x) => (x \in DOMAIN net' <=> x \in DOMAIN net)

KeepsAsked ==
    /\ AskedOnceIn(net) => AskedOnceIn(net')
    /\ ~AskedIn(net) => ~AskedIn(net')

TaskFacts(j) ==
    /\ j \in TaskJobs
    /\ Sets1(j, "plgraph") => j.patch.data \in {NoData, Arg(j.patch.exchange, j.patch.code)}
    /\ Sets1(j, "explanation") =>
         /\ con["explanation"].exchange # Blank
         /\ j.patch.data = Arg(con["explanation"].exchange, con["explanation"].code)

(* How a task may change what the verdict depends on.                        *)
VerdictStep ==
    \/ gaveUp' = TRUE
    \/ editor'.timer = TRUE
    \/ /\ editor' = editor /\ SameVerdicts /\ strayed' = strayed /\ gaveUp' = gaveUp
       /\ \A text : VerdictJob(text) \notin In(jobs')
    \/ \E r \in DOMAIN net :
         /\ Verdicts(r) /\ r.arg.text \in AnyText /\ jobs' = <<VerdictJob(r.arg.text)>>
         /\ editor' = editor /\ DOMAIN net' \subseteq DOMAIN net
         /\ strayed' = strayed /\ gaveUp' = gaveUp
    \/ /\ gaveUp' = gaveUp /\ jobs' = <<>>
       /\ strayed' \/ /\ \E r \in DOMAIN net' : Verdicts(r)
                      /\ \A r \in DOMAIN net' : Verdicts(r) => r.arg.text = editor'.text

TaskStep ==
    /\ Quiet
    /\ who' = who /\ ex' = ex /\ mounted' = mounted /\ con' = con /\ conts' = conts
    /\ editor'.on = editor.on
    /\ \/ jobs' = <<Render(TRUE)>>
       \/ url' = url /\ jobs' = <<>>
       \/ url' = url /\ \E j : TaskFacts(j) /\ jobs' = <<j>>
    /\ KeepsAsked
    /\ LoadedJob \in In(jobs') => AskedIn(net) /\ (AskedOnceIn(net) => ~AskedIn(net'))
    /\ VerdictStep

LEMMA TaskTyping ==
    ASSUME Typing, TaskStep, entry' = entry, url' \in URLs, EditorTyped', ItemTyped', StartedTyped',
           NetTyped(net'), BoundsTyped'
    PROVE  Typing'
<1>1. /\ who' = who /\ ex' = ex /\ mounted' = mounted /\ con' = con /\ conts' = conts
      /\ \/ jobs' = <<Render(TRUE)>>
         \/ jobs' = <<>>
         \/ \E j \in TaskJobs : jobs' = <<j>>
    BY Zenon DEF TaskStep, TaskFacts
<1>2. jobs' \in Seq(Jobs)
    <2>1. jobs' = <<>> => jobs' \in Seq(Jobs)
        BY Zenon, Nothing
    <2>2. ASSUME NEW j \in Jobs, jobs' = <<j>> PROVE jobs' \in Seq(Jobs)
        BY Zenon, <2>2, Single
    <2>3. Render(TRUE) \in Jobs
        BY Zenon, RenderParts, JobsApart
    <2>4. TaskJobs \subseteq Jobs
        BY Zenon, JobsApart
    <2>. QED
        BY Zenon, <1>1, <2>1, <2>2, <2>3, <2>4
<1>3. PageTyped'
    BY Zenon, <1>1 DEF Typing, PageTyped
<1>. QED
    BY Zenon, <1>1, <1>2, <1>3 DEF Typing, SelectionTyped, QueueTyped

LEMMA SameEditor ==
    ASSUME Typing, editor' = editor, orphans' = orphans, mounted' = mounted
    PROVE  EditorTyped' /\ editor'.on = editor.on
BY Zenon DEF Typing, EditorTyped

LEMMA SameItem ==
    ASSUME Typing, item' = item, mounted' = mounted
    PROVE  ItemTyped'
BY Zenon DEF Typing, ItemTyped

LEMMA SameNet ==
    ASSUME Typing, net' = net, started' = started
    PROVE  StartedTyped' /\ NetTyped(net') /\ KeepsAsked /\ SameVerdicts
BY Zenon DEF Typing, StartedTyped, KeepsAsked, SameVerdicts

LEMMA SameBounds ==
    ASSUME Typing, clicks' = clicks, faults' = faults
    PROVE  BoundsTyped'
BY Zenon DEF Typing, BoundsTyped

LEMMA UserBounds ==
    ASSUME Typing, UserAct, faults' = faults
    PROVE  BoundsTyped'
<1>1. clicks \in 0..MaxClicks /\ faults' \in 0..MaxFaults /\ clicks < MaxClicks /\ clicks' = clicks + 1
    BY DEF Typing, BoundsTyped, UserAct
<1>. QED
    BY <1>1, BoundsAssumption DEF BoundsTyped

LEMMA FaultBounds ==
    ASSUME Typing, faults < MaxFaults, faults' = faults + 1, clicks' = clicks
    PROVE  BoundsTyped'
<1>1. clicks' \in 0..MaxClicks /\ faults \in 0..MaxFaults
    BY DEF Typing, BoundsTyped
<1>. QED
    BY <1>1, BoundsAssumption DEF BoundsTyped

LEMMA NoLoading ==
    /\ jobs' = <<>> => /\ LoadedJob \notin In(jobs') /\ \A text : VerdictJob(text) \notin In(jobs')
    /\ jobs' = <<Render(TRUE)>> => /\ LoadedJob \notin In(jobs') /\ \A text : VerdictJob(text) \notin In(jobs')
<1>1. ASSUME jobs' = <<>> PROVE In(jobs') = {}
    BY Zenon, <1>1, Nothing
<1>2. ASSUME jobs' = <<Render(TRUE)>> PROVE In(jobs') = {Render(TRUE)}
    <2>1. Render(TRUE) \in {Render(TRUE)}
        OBVIOUS
    <2>. QED
        BY Zenon, <1>2, <2>1, Single
<1>3. LoadedJob.k = "set" /\ \A text : VerdictJob(text).k = "set"
    BY SetParts DEF LoadedJob, VerdictJob
<1>4. Render(TRUE).k = "render" /\ "render" # "set"
    BY RenderParts
<1>. QED
    BY Zenon, <1>1, <1>2, <1>3, <1>4

(* A link, a jump back.                                                      *)
LEMMA GoTask ==
    ASSUME Typing, UserAct, NEW u \in URLs, Go(u)
    PROVE  Typing' /\ TaskStep
<1>1. /\ url' = u /\ jobs' = <<Render(TRUE)>> /\ Quiet
      /\ who' = who /\ entry' = entry /\ ex' = ex /\ mounted' = mounted /\ con' = con
      /\ editor' = editor /\ orphans' = orphans /\ item' = item /\ started' = started
      /\ net' = net /\ conts' = conts /\ faults' = faults /\ gaveUp' = gaveUp /\ strayed' = strayed
    BY Zenon DEF Go, UserAct, pageVars, netVars, ghosts
<1>2. /\ EditorTyped' /\ editor'.on = editor.on /\ ItemTyped' /\ StartedTyped' /\ NetTyped(net')
      /\ KeepsAsked /\ SameVerdicts /\ BoundsTyped'
    BY Zenon, <1>1, SameEditor, SameItem, SameNet, UserBounds
<1>3. TaskStep
    BY Zenon, <1>1, <1>2, NoLoading DEF TaskStep, VerdictStep
<1>. QED
    BY Zenon, <1>1, <1>2, <1>3, TaskTyping

LEMMA PlainJob ==
    ASSUME NEW j, jobs' = <<j>>
    PROVE  In(jobs') = {j}
<1>1. j \in {j}
    OBVIOUS
<1>. QED
    BY Zenon, <1>1, Single

(* A job of the configuration, the fills or the users.                       *)
LEMMA OtherTask ==
    ASSUME NEW j \in TaskJobs, j.container \in {"configuration", "postponed-fills", "users"}
    PROVE  TaskFacts(j) /\ j # LoadedJob
<1>1. j # LoadedJob
    BY SetParts DEF LoadedJob
<1>2. ~Sets1(j, "plgraph") /\ ~Sets1(j, "explanation")
    BY DEF Sets1
<1>. QED
    BY Zenon, <1>1, <1>2 DEF TaskFacts

(* A user act that only puts a job into the queue.                           *)
LEMMA UserJobTask ==
    ASSUME Typing, UserAct, NEW j \in TaskJobs, jobs' = <<j>>,
           j.container \in {"configuration", "postponed-fills", "users"},
           \A text : j # VerdictJob(text),
           UNCHANGED <<who, url, entry, ex, pageVars, netVars, conts, faults, ghosts>>
    PROVE  Typing' /\ TaskStep
<1>1. /\ url' = url /\ Quiet
      /\ who' = who /\ entry' = entry /\ ex' = ex /\ mounted' = mounted /\ con' = con
      /\ editor' = editor /\ orphans' = orphans /\ item' = item /\ started' = started
      /\ net' = net /\ conts' = conts /\ faults' = faults /\ gaveUp' = gaveUp /\ strayed' = strayed
    BY Zenon DEF UserAct, pageVars, netVars, ghosts
<1>2. /\ EditorTyped' /\ editor'.on = editor.on /\ ItemTyped' /\ StartedTyped' /\ NetTyped(net')
      /\ KeepsAsked /\ SameVerdicts /\ BoundsTyped'
    BY Zenon, <1>1, SameEditor, SameItem, SameNet, UserBounds
<1>3. TaskFacts(j) /\ j # LoadedJob /\ In(jobs') = {j}
    BY Zenon, OtherTask, PlainJob
<1>4. VerdictStep
    BY Zenon, <1>1, <1>2, <1>3 DEF VerdictStep
<1>5. LoadedJob \notin In(jobs')
    BY Zenon, <1>3
<1>6. TaskStep
    BY Zenon, <1>1, <1>2, <1>3, <1>4, <1>5 DEF TaskStep
<1>7. url' \in URLs
    BY Zenon, <1>1 DEF Typing, SelectionTyped
<1>. QED
    BY Zenon, <1>1, <1>2, <1>6, <1>7, TaskTyping

LEMMA VerdictPatches ==
    ASSUME NEW j, j.container # "configuration" \/ "verdict" \notin DOMAIN j.patch
    PROVE  \A text : j # VerdictJob(text)
<1>1. ASSUME NEW text PROVE VerdictJob(text).container = "configuration" /\ "verdict" \in DOMAIN VerdictJob(text).patch
    <2>1. VerdictJob(text).container = "configuration"
        BY SetParts DEF VerdictJob
    <2>2. VerdictJob(text).patch = [verdict |-> text]
        BY SetParts DEF VerdictJob
    <2>. QED
        BY <2>1, <2>2
<1>. QED
    BY Zenon, <1>1

LEMMA saveConfigTask ==
    ASSUME Typing, saveConfig
    PROVE  Typing' /\ TaskStep
<1>. DEFINE j == SavingJob(editor.text)
<1>1. /\ UserAct /\ jobs' = <<j>>
      /\ UNCHANGED <<who, url, entry, ex, pageVars, netVars, conts, faults, ghosts>>
    BY Zenon DEF saveConfig, SavingJob
<1>2. editor.text \in AnyText
    BY DEF Typing, EditorTyped
<1>3. j \in TaskJobs
    BY Zenon, <1>2 DEF TaskJobs, ConfigTaskJobs
<1>4. j.container = "configuration" /\ j.patch = [saving |-> TRUE]
    BY SetParts DEF SavingJob
<1>5. "verdict" \notin DOMAIN j.patch
    BY <1>4
<1>. HIDE DEF j
<1>6. \A text : j # VerdictJob(text)
    BY Zenon, <1>5, VerdictPatches
<1>7. j.container \in {"configuration", "postponed-fills", "users"}
    BY <1>4
<1>. QED
    BY Zenon, <1>1, <1>3, <1>6, <1>7, UserJobTask

LEMMA showModalTask ==
    ASSUME Typing, showModal
    PROVE  Typing' /\ TaskStep
<1>. DEFINE s == con["postponed-fills"]
            v == [s EXCEPT !.modal = ~@]
            j == Set("postponed-fills", v, NoThen)
<1>1. /\ UserAct /\ jobs' = <<j>>
      /\ UNCHANGED <<who, url, entry, ex, pageVars, netVars, conts, faults, ghosts>>
    BY Zenon DEF showModal
<1>2. v \in FillStates
    <2>1. s \in FillStates
        BY Zenon DEF Typing, PageTyped, ContainersOf
    <2>. HIDE DEF s
    <2>. QED
        BY <2>1 DEF FillStates
<1>. HIDE DEF v
<1>3. j \in TaskJobs
    <2>1. j \in FillTaskJobs
        BY Zenon, <1>2, SetsOfMember DEF FillTaskJobs, FillListPatches
    <2>. HIDE DEF j
    <2>. QED
        BY Zenon, <2>1 DEF TaskJobs, ListTaskJobs, FillTaskJobs, FillListPatches
<1>4. j.container = "postponed-fills"
    BY SetParts
<1>. HIDE DEF j
<1>5. \A text : j # VerdictJob(text)
    BY <1>4, VerdictPatches
<1>6. j.container \in {"configuration", "postponed-fills", "users"}
    BY <1>4
<1>. QED
    BY Zenon, <1>1, <1>3, <1>5, <1>6, UserJobTask

LEMMA updateUserRoleTask ==
    ASSUME Typing, updateUserRole
    PROVE  Typing' /\ TaskStep
<1>. DEFINE d == con["users"].data
            v == [data |-> d]
            j == Set("users", v, NoThen)
<1>1. /\ UserAct /\ jobs' = <<j>>
      /\ UNCHANGED <<who, url, entry, ex, pageVars, netVars, conts, faults, ghosts>>
    BY Zenon DEF updateUserRole
<1>2. v \in [data : Empties]
    <2>1. con["users"] \in UserStates
        BY Zenon DEF Typing, PageTyped, ContainersOf
    <2>2. d \in Empties
        BY <2>1 DEF UserStates
    <2>. HIDE DEF d
    <2>. QED
        BY <2>2
<1>. HIDE DEF v
<1>3. j \in TaskJobs
    <2>1. j \in UserTaskJobs
        BY Zenon, <1>2, SetsOfMember DEF UserTaskJobs, UserListPatches
    <2>. HIDE DEF j
    <2>. QED
        BY Zenon, <2>1 DEF TaskJobs, ListTaskJobs, UserTaskJobs, UserListPatches
<1>4. j.container = "users"
    BY SetParts
<1>. HIDE DEF j
<1>5. \A text : j # VerdictJob(text)
    BY <1>4, VerdictPatches
<1>6. j.container \in {"configuration", "postponed-fills", "users"}
    BY <1>4
<1>. QED
    BY Zenon, <1>1, <1>3, <1>5, <1>6, UserJobTask

LEMMA onChangeTextTask ==
    ASSUME Typing, NEW text \in Texts, onChangeText(text)
    PROVE  Typing' /\ TaskStep
<1>1. /\ UserAct /\ Quiet /\ jobs = <<>> /\ editor.on /\ editor' = [editor EXCEPT !.text = text, !.timer = TRUE]
      /\ url' = url /\ who' = who /\ entry' = entry /\ ex' = ex /\ mounted' = mounted /\ con' = con
      /\ orphans' = orphans /\ item' = item /\ started' = started /\ jobs' = jobs
      /\ net' = net /\ conts' = conts /\ faults' = faults /\ gaveUp' = gaveUp /\ strayed' = strayed
    BY Zenon DEF onChangeText, UserAct, Quiet, netVars, ghosts
<1>2. /\ editor \in [on : BOOLEAN, text : AnyText, timer : BOOLEAN]
      /\ editor.on => mounted = "configuration" /\ orphans \subseteq Texts
    BY DEF Typing, EditorTyped
<1>3. orphans \subseteq Texts /\ text \in AnyText
    BY DEF Typing, EditorTyped, AnyText
<1>4. /\ editor' \in [on : BOOLEAN, text : AnyText, timer : BOOLEAN]
      /\ editor'.timer = TRUE /\ editor'.on = editor.on /\ editor'.text = text
    BY <1>1, <1>2, <1>3
<1>5. EditorTyped'
    BY Zenon, <1>1, <1>2, <1>3, <1>4 DEF EditorTyped
<1>6. ItemTyped' /\ StartedTyped' /\ NetTyped(net') /\ KeepsAsked /\ BoundsTyped'
    BY Zenon, <1>1, SameItem, SameNet, UserBounds
<1>7. jobs' = <<>> /\ LoadedJob \notin In(jobs')
    BY Zenon, <1>1, NoLoading
<1>8. TaskStep
    BY Zenon, <1>1, <1>4, <1>6, <1>7 DEF TaskStep, VerdictStep
<1>9. url' \in URLs
    BY Zenon, <1>1 DEF Typing, SelectionTyped
<1>. QED
    BY Zenon, <1>1, <1>5, <1>6, <1>8, <1>9, TaskTyping

(* Requests that do not ask for the exchanges.                               *)
LEMMA SendKeeps ==
    ASSUME Typing, NEW name, NEW arg, Fits(name, arg), name # "supportedExchanges",
           Send(Request(name, arg))
    PROVE  /\ NetTyped(net') /\ StartedTyped' /\ KeepsAsked
           /\ DOMAIN net' = DOMAIN net \cup {Request(name, arg)}
           /\ name # "validate" => strayed' = strayed /\ SameVerdicts
<1>. DEFINE r == Request(name, arg)
<1>1. r.name = name /\ r.arg = arg
    BY AskParts
<1>2. Pending(r)
    BY Zenon, RequestPending
<1>. HIDE DEF r
<1>3. net' = Sent(net, r) /\ (r.name # "validate" => strayed' = strayed)
    BY Zenon DEF Send, r
<1>4. NetTyped(net') /\ StartedTyped'
    BY Zenon, <1>2, SendTyped DEF r
<1>5. KeepsAsked
    BY Zenon, <1>1, <1>3, SentAsked DEF KeepsAsked
<1>6. DOMAIN net' = DOMAIN net \cup {r}
    <2>1. DOMAIN Sent(net, r) = DOMAIN net \cup {r}
        BY SentFacts
    <2>. QED
        BY <1>3, <2>1
<1>7. name # "validate" => SameVerdicts
    BY Zenon, <1>1, <1>6 DEF SameVerdicts, Verdicts
<1>. QED
    BY Zenon, <1>1, <1>3, <1>4, <1>5, <1>6, <1>7 DEF r

LEMMA saveUserTask ==
    ASSUME Typing, saveUser
    PROVE  Typing' /\ TaskStep
<1>1. /\ UserAct /\ Quiet /\ jobs = <<>> /\ item = "idle" /\ item' = "submitting"
      /\ Send(Request("update", NoArg))
      /\ url' = url /\ who' = who /\ entry' = entry /\ ex' = ex /\ mounted' = mounted /\ con' = con
      /\ editor' = editor /\ orphans' = orphans /\ jobs' = jobs
      /\ conts' = conts /\ faults' = faults /\ gaveUp' = gaveUp
    BY Zenon DEF saveUser, UserAct, Quiet, CanSave
<1>2. ItemTyped'
    BY <1>1 DEF Typing, ItemTyped, noItem
<1>3. Fits("update", NoArg)
    BY DEF Fits, Plainly, Updates
<1>4. "update" # "supportedExchanges" /\ "update" # "validate"
    OBVIOUS
<1>5. NetTyped(net') /\ StartedTyped' /\ KeepsAsked /\ strayed' = strayed /\ SameVerdicts
    BY Zenon, <1>1, <1>3, <1>4, SendKeeps
<1>6. EditorTyped' /\ editor'.on = editor.on /\ BoundsTyped'
    BY Zenon, <1>1, SameEditor, UserBounds
<1>7. jobs' = <<>> /\ LoadedJob \notin In(jobs') /\ \A text : VerdictJob(text) \notin In(jobs')
    BY Zenon, <1>1, NoLoading
<1>8. TaskStep
    BY Zenon, <1>1, <1>5, <1>6, <1>7 DEF TaskStep, VerdictStep
<1>9. url' \in URLs
    BY Zenon, <1>1 DEF Typing, SelectionTyped
<1>. QED
    BY Zenon, <1>1, <1>2, <1>5, <1>6, <1>8, <1>9, TaskTyping

(* The validation of a text.                                                 *)
LEMMA ValidateSent ==
    ASSUME Typing, NEW text \in Texts, Send(Request("validate", TextArg(text)))
    PROVE  /\ NetTyped(net') /\ StartedTyped' /\ KeepsAsked
           /\ strayed' \/ /\ \E r \in DOMAIN net' : Verdicts(r)
                          /\ \A r \in DOMAIN net' : Verdicts(r) => r.arg.text = editor.text
<1>. DEFINE x == Request("validate", TextArg(text))
<1>1. Fits("validate", TextArg(text))
    BY Zenon DEF Fits, Plain, TextArgs, AnyText
<1>2. NetTyped(net') /\ StartedTyped' /\ KeepsAsked /\ DOMAIN net' = DOMAIN net \cup {x}
    <2>1. "validate" # "supportedExchanges"
        OBVIOUS
    <2>. QED
        BY Zenon, <1>1, <2>1, SendKeeps
<1>3. x.name = "validate" /\ x.arg = TextArg(text) /\ x.arg.text = text
    BY AskParts, ArgFacts
<1>. HIDE DEF x
<1>4. strayed' = (x.arg.text # editor.text \/ \E y \in DOMAIN net : y.name = "validate")
    BY Zenon, <1>3 DEF Send, x
<1>. QED
    BY Zenon, <1>2, <1>3, <1>4 DEF Verdicts

LEMMA TimerTask ==
    ASSUME Typing, TimerFires
    PROVE  Typing' /\ TaskStep
<1>1. /\ Quiet /\ jobs = <<>>
      /\ url' = url /\ who' = who /\ entry' = entry /\ ex' = ex /\ mounted' = mounted /\ con' = con
      /\ item' = item /\ jobs' = jobs /\ conts' = conts /\ clicks' = clicks /\ faults' = faults
      /\ gaveUp' = gaveUp
    BY Zenon DEF TimerFires, Quiet
<1>2. /\ editor \in [on : BOOLEAN, text : AnyText, timer : BOOLEAN]
      /\ editor.timer => editor.text \in Texts
      /\ editor.on => mounted = "configuration"
      /\ orphans \subseteq Texts
    BY Zenon DEF Typing, EditorTyped
<1>3. PICK text \in Texts :
        /\ Send(Request("validate", TextArg(text)))
        /\ editor'.on = editor.on /\ editor'.text = editor.text
        /\ EditorTyped'
    <2>1. CASE /\ editor.timer /\ editor' = [editor EXCEPT !.timer = FALSE]
               /\ Send(Request("validate", TextArg(editor.text))) /\ orphans' = orphans
        <3>1. /\ editor' \in [on : BOOLEAN, text : AnyText, timer : BOOLEAN]
              /\ editor'.on = editor.on /\ editor'.text = editor.text /\ editor'.timer = FALSE
            BY <1>2, <2>1
        <3>2. EditorTyped'
            BY Zenon, <1>1, <1>2, <2>1, <3>1 DEF EditorTyped
        <3>. QED
            BY Zenon, <1>2, <2>1, <3>1, <3>2
    <2>2. ASSUME NEW text \in orphans, orphans' = orphans \ {text},
                 Send(Request("validate", TextArg(text))), editor' = editor
          PROVE  \E z \in Texts : /\ Send(Request("validate", TextArg(z)))
                                  /\ editor'.on = editor.on /\ editor'.text = editor.text
                                  /\ EditorTyped'
        <3>1. EditorTyped'
            BY Zenon, <1>1, <1>2, <2>2 DEF EditorTyped
        <3>. QED
            BY Zenon, <1>2, <2>2, <3>1
    <2>. QED
        BY Zenon, <2>1, <2>2 DEF TimerFires
<1>4. /\ NetTyped(net') /\ StartedTyped' /\ KeepsAsked
      /\ strayed' \/ /\ \E r \in DOMAIN net' : Verdicts(r)
                     /\ \A r \in DOMAIN net' : Verdicts(r) => r.arg.text = editor.text
    BY Zenon, <1>3, ValidateSent
<1>5. ItemTyped' /\ BoundsTyped'
    BY Zenon, <1>1, SameItem, SameBounds
<1>6. jobs' = <<>> /\ LoadedJob \notin In(jobs')
    BY Zenon, <1>1, NoLoading
<1>7. VerdictStep
    BY Zenon, <1>1, <1>3, <1>4, <1>6 DEF VerdictStep
<1>8. TaskStep
    BY Zenon, <1>1, <1>3, <1>4, <1>6, <1>7 DEF TaskStep
<1>9. url' \in URLs
    BY Zenon, <1>1 DEF Typing, SelectionTyped
<1>. QED
    BY Zenon, <1>1, <1>3, <1>4, <1>5, <1>8, <1>9, TaskTyping

(* Answers. *)

LEMMA WaitingParts ==
    ASSUME Typing, NEW r, NEW phase, Waiting(r, phase)
    PROVE  /\ Quiet /\ jobs = <<>> /\ r \in DOMAIN net /\ Pending(r) /\ r.phase = phase
           /\ phase = "delay" => r.name \in Repeated
BY Zenon DEF Waiting, Quiet, Typing, NetTyped, Pending

LEMMA GoneKeeps ==
    ASSUME Typing, NEW r \in DOMAIN net, net' = Gone(net, r)
    PROVE  /\ NetTyped(net') /\ KeepsAsked /\ DOMAIN net' \subseteq DOMAIN net
           /\ r.name = "supportedExchanges" => AskedIn(net) /\ (AskedOnceIn(net) => ~AskedIn(net'))
           /\ r.name # "validate" => SameVerdicts
<1>1. NetTyped(net') /\ DOMAIN net' \subseteq DOMAIN net /\ \A x \in DOMAIN net : x # r => x \in DOMAIN net'
    BY Zenon, GoneTyped, GoneFacts DEF Typing
<1>2. KeepsAsked /\ (r.name = "supportedExchanges" => (AskedOnceIn(net) => ~AskedIn(net')))
    BY Zenon, GoneAsked DEF KeepsAsked
<1>3. r.name = "supportedExchanges" => AskedIn(net)
    BY Zenon DEF AskedIn
<1>4. r.name # "validate" => SameVerdicts
    BY Zenon, <1>1 DEF SameVerdicts, Verdicts
<1>. QED
    BY Zenon, <1>1, <1>2, <1>3, <1>4

LEMMA SentKeeps ==
    ASSUME NEW q, NEW x, NetTyped(q), Pending(x), net' = Sent(q, x),
           NEW r, q = Gone(net, r), r \in DOMAIN net, r.name # "validate", x.name # "validate"
    PROVE  NetTyped(net') /\ SameVerdicts
<1>1. DOMAIN Sent(q, x) = DOMAIN q \cup {x}
    BY SentFacts
<1>2. DOMAIN q \subseteq DOMAIN net /\ \A y \in DOMAIN net : y # r => y \in DOMAIN q
    BY Zenon, GoneFacts
<1>3. SameVerdicts
    BY Zenon, <1>1, <1>2 DEF SameVerdicts, Verdicts
<1>. QED
    BY Zenon, <1>3, SentTyped

LEMMA AfterFacts ==
    ASSUME Typing, NEW r \in DOMAIN net, r.name \in Repeated, After(r)
    PROVE  /\ NetTyped(net') /\ StartedTyped' /\ KeepsAsked /\ SameVerdicts
           /\ r.name = "supportedExchanges" => AskedIn(net) /\ (AskedOnceIn(net) => ~AskedIn(net'))
<1>1. started \in [Repeated -> BOOLEAN] /\ r.name # "validate" /\ NetTyped(net)
    BY RepeatedNames DEF Typing, StartedTyped
<1>2. CASE r.name # "roles"
    <2>1. net' = Gone(net, r) /\ started' = [started EXCEPT ![r.name] = FALSE]
        BY Zenon, <1>2 DEF After
    <2>2. StartedTyped'
        BY <1>1, <2>1 DEF StartedTyped
    <2>. QED
        BY Zenon, <1>1, <2>1, <2>2, GoneKeeps
<1>3. CASE r.name = "roles"
    <2>. DEFINE x == Request("users", NoArg)
                q == Gone(net, r)
    <2>1. net' = Sent(q, x) /\ started' = [started EXCEPT !["roles"] = FALSE, !["users"] = TRUE]
        BY Zenon, <1>3 DEF After
    <2>2. StartedTyped'
        BY <1>1, <2>1 DEF StartedTyped
    <2>3. x.name = "users" /\ x.name # "validate" /\ x.name # "supportedExchanges"
        BY AskParts
    <2>4. Pending(x)
        <3>1. Fits("users", NoArg)
            BY DEF Fits, Plainly
        <3>. QED
            BY Zenon, <3>1, RequestPending
    <2>5. NetTyped(q) /\ (~AskedIn(net) => ~AskedIn(q)) /\ (AskedOnceIn(net) => AskedOnceIn(q))
        BY Zenon, <1>1, GoneTyped, GoneAsked
    <2>. HIDE DEF x
    <2>6. NetTyped(net') /\ SameVerdicts
        BY Zenon, <1>1, <2>1, <2>3, <2>4, <2>5, SentKeeps
    <2>. HIDE DEF q
    <2>7. KeepsAsked
        BY Zenon, <2>1, <2>3, <2>5, SentAsked DEF KeepsAsked
    <2>8. r.name # "supportedExchanges"
        BY <1>3
    <2>. QED
        BY Zenon, <2>2, <2>6, <2>7, <2>8
<1>. QED
    BY <1>2, <1>3

LEMMA PhaseKeeps ==
    ASSUME Typing, NEW r \in DOMAIN net, r.name \in Repeated, NEW phase \in {"sent", "delay"},
           net' = Sent(Gone(net, r), [r EXCEPT !.phase = phase])
    PROVE  NetTyped(net') /\ KeepsAsked /\ SameVerdicts
<1>. DEFINE x == [r EXCEPT !.phase = phase]
            q == Gone(net, r)
<1>1. r.name # "validate" /\ NetTyped(net) /\ Pending(r)
    BY RepeatedNames DEF Typing, NetTyped
<1>2. Pending(x) /\ x.name = r.name
    BY Zenon, <1>1, PhasePending
<1>3. NetTyped(q)
    BY Zenon, <1>1, GoneTyped
<1>. HIDE DEF x
<1>4. KeepsAsked
    BY Zenon, <1>2, MovedAsked DEF KeepsAsked, x
<1>5. net' = Sent(q, x)
    BY DEF x
<1>6. NetTyped(net') /\ SameVerdicts
    BY Zenon, <1>1, <1>2, <1>3, <1>5, SentKeeps
<1>. QED
    BY <1>4, <1>6

(* What an answer puts into the queue. *)
DataOf(r) == IF r.name = "config" THEN {TextArg(text) : text \in Texts} ELSE {r.arg}

LEMMA ListResultIs ==
    ASSUME NEW data \in Empties
    PROVE  /\ \E j \in TaskJobs : /\ ListResult("postponed-fills", data) = <<j>>
                                  /\ j.container = "postponed-fills"
           /\ \E j \in TaskJobs : /\ ListResult("users", data) = <<j>>
                                  /\ j.container = "users"
<1>. DEFINE v == [loading |-> FALSE, data |-> data]
            a == Set("postponed-fills", v, NoThen)
            b == Set("users", v, NoThen)
<1>1. v \in [loading : {FALSE}, data : Empties]
    OBVIOUS
<1>. HIDE DEF v
<1>2. a \in FillTaskJobs /\ b \in UserTaskJobs
    BY Zenon, <1>1, SetsOfMember DEF FillTaskJobs, FillListPatches, UserTaskJobs, UserListPatches
<1>3. a.container = "postponed-fills" /\ b.container = "users"
    BY SetParts
<1>4. ListResult("postponed-fills", data) = <<a>> /\ ListResult("users", data) = <<b>>
    BY Zenon DEF ListResult, v
<1>. HIDE DEF a, b
<1>5. a \in TaskJobs /\ b \in TaskJobs
    BY Zenon, <1>2 DEF TaskJobs, ListTaskJobs, UserTaskJobs, UserListPatches, FillTaskJobs, FillListPatches
<1>. QED
    BY Zenon, <1>3, <1>4, <1>5

LEMMA PLGraphResultIs ==
    ASSUME NEW r, r.arg \in Args, NEW data \in {r.arg, NoData}
    PROVE  \E j \in TaskJobs : /\ PLGraphResult(r, data) = <<j>> /\ j.container = "plgraph"
                               /\ TaskFacts(j) /\ j # LoadedJob
<1>. DEFINE v == [loading |-> FALSE, data |-> data, exchange |-> r.arg.exchange, code |-> r.arg.code]
            j == Set("plgraph", v, NoThen)
<1>1. /\ r.arg = Arg(r.arg.exchange, r.arg.code) /\ r.arg.exchange \in Names /\ r.arg.code \in Codes
    BY Zenon, ArgParts
<1>2. data \in Args \cup {NoData}
    OBVIOUS
<1>3. /\ v \in [loading : {FALSE}, data : Args \cup {NoData}, exchange : Names, code : Codes]
      /\ v.data = data /\ v.exchange = r.arg.exchange /\ v.code = r.arg.code
    BY <1>1, <1>2
<1>. HIDE DEF v
<1>4. j \in GraphJobs
    BY Zenon, <1>3, SetsOfMember DEF GraphJobs
<1>5. j.container = "plgraph" /\ j.patch = v
    BY SetParts
<1>6. PLGraphResult(r, data) = <<j>>
    BY Zenon DEF PLGraphResult, v
<1>. HIDE DEF j
<1>7. j \in TaskJobs
    BY Zenon, <1>4 DEF TaskJobs
<1>8. ~Sets1(j, "explanation")
    BY <1>5 DEF Sets1
<1>9. j # LoadedJob
    BY <1>5, SetParts DEF LoadedJob
<1>10. TaskFacts(j)
    BY Zenon, <1>1, <1>3, <1>5, <1>7, <1>8 DEF TaskFacts
<1>. QED
    BY Zenon, <1>5, <1>6, <1>7, <1>9, <1>10

LEMMA ExplanationResultIs ==
    ASSUME NEW r, r.arg \in FullArgs, NEW data \in {r.arg, NoData}
    PROVE  \/ ExplanationResult(r, data) = <<>>
           \/ \E j \in TaskJobs : /\ ExplanationResult(r, data) = <<j>> /\ j.container = "explanation"
                                  /\ TaskFacts(j) /\ j # LoadedJob
<1>. DEFINE c == con["explanation"]
            j == Explained(r.arg)
<1>1. CASE data # NoData /\ r.arg.exchange = c.exchange /\ r.arg.code = c.code
    <2>1. r.arg = Arg(c.exchange, c.code) /\ c.exchange # Blank
        BY <1>1, FullArgParts
    <2>2. data = r.arg
        BY <1>1
    <2>3. ExplanationResult(r, data) = <<j>>
        BY Zenon, <1>1, <2>2 DEF ExplanationResult, Explained
    <2>4. j.container = "explanation" /\ j.patch = [loading |-> FALSE, data |-> r.arg]
        BY SetParts DEF Explained
    <2>5. j.patch.data = r.arg
        BY <2>4
    <2>6. j \in TaskJobs
        BY Zenon DEF TaskJobs
    <2>. HIDE DEF j
    <2>7. ~Sets1(j, "plgraph")
        BY <2>4 DEF Sets1
    <2>8. j # LoadedJob
        BY <2>4, SetParts DEF LoadedJob
    <2>9. TaskFacts(j)
        BY Zenon, <2>1, <2>5, <2>6, <2>7 DEF TaskFacts
    <2>. QED
        BY Zenon, <2>3, <2>4, <2>6, <2>8, <2>9
<1>2. CASE ~(data # NoData /\ r.arg.exchange = c.exchange /\ r.arg.code = c.code)
    <2>1. ExplanationResult(r, data) = <<>>
        BY Zenon, <1>2 DEF ExplanationResult
    <2>. QED
        BY <2>1
<1>. QED
    BY <1>1, <1>2

LEMMA ConfigResultIs ==
    ASSUME NEW data \in {TextArg(text) : text \in Texts} \cup {NoData}
    PROVE  \/ ConfigResult(data) = <<>>
           \/ \E text \in Texts : ConfigResult(data) = <<ConfigJob(text)>>
BY Zenon DEF ConfigResult, ConfigJob

LEMMA ResultIs ==
    ASSUME NEW r, Pending(r), r.name \in Repeated, NEW data \in DataOf(r) \cup {NoData}
    PROVE  \/ Result(r, data) = <<>>
           \/ \E j : /\ Result(r, data) = <<j>> /\ TaskFacts(j)
                     /\ j = LoadedJob => r.name = "supportedExchanges"
                     /\ \A text : j # VerdictJob(text)
<1>. DEFINE q == Result(r, data)
            Goal == \/ q = <<>>
                    \/ \E j : /\ q = <<j>> /\ TaskFacts(j)
                              /\ j = LoadedJob => r.name = "supportedExchanges"
                              /\ \A text : j # VerdictJob(text)
<1>. SUFFICES Goal
    BY Zenon DEF Goal
<1>. HIDE DEF Goal
<1>1. r.name \in {"supportedExchanges", "users", "explanations", "plGraph", "signals", "config",
                 "postponedFills", "roles"} /\ Fits(r.name, r.arg)
    BY RepeatedNames DEF Pending
<1>2. CASE r.name = "supportedExchanges"
    <2>1. q = <<LoadedJob>>
        BY <1>2 DEF Result, LoadedJob
    <2>2. LoadedJob.container = "exchange" /\ LoadedJob \in TaskJobs
        BY SetParts, JobsApart DEF LoadedJob
    <2>3. TaskFacts(LoadedJob)
        BY <2>2 DEF TaskFacts, Sets1
    <2>4. \A text : LoadedJob # VerdictJob(text)
        BY <2>2, VerdictPatches
    <2>. QED
        BY Zenon, <1>2, <2>1, <2>3, <2>4 DEF Goal
<1>3. CASE r.name = "explanations"
    <2>1. q = ExplanationResult(r, data) /\ DataOf(r) = {r.arg}
        BY <1>3 DEF Result, DataOf
    <2>2. r.arg \in FullArgs
        BY <1>1, <1>3 DEF Fits, Plainly, Updates, Plain
    <2>. HIDE DEF q
    <2>3. \/ q = <<>>
          \/ \E j \in TaskJobs : q = <<j>> /\ j.container = "explanation" /\ TaskFacts(j) /\ j # LoadedJob
        BY Zenon, <2>1, <2>2, ExplanationResultIs
    <2>4. "explanation" # "configuration"
        OBVIOUS
    <2>. QED
        BY Zenon, <2>3, <2>4, VerdictPatches DEF Goal
<1>4. CASE r.name = "plGraph"
    <2>1. q = PLGraphResult(r, data) /\ DataOf(r) = {r.arg}
        BY <1>4 DEF Result, DataOf
    <2>2. r.arg \in Args
        BY <1>1, <1>4 DEF Fits, Plainly, Updates, Plain
    <2>. HIDE DEF q
    <2>3. \E j \in TaskJobs : q = <<j>> /\ j.container = "plgraph" /\ TaskFacts(j) /\ j # LoadedJob
        BY Zenon, <2>1, <2>2, PLGraphResultIs
    <2>4. "plgraph" # "configuration"
        OBVIOUS
    <2>. QED
        BY Zenon, <2>3, <2>4, VerdictPatches DEF Goal
<1>5. CASE r.name = "config"
    <2>1. q = ConfigResult(data) /\ DataOf(r) = {TextArg(text) : text \in Texts}
        BY <1>5 DEF Result, DataOf
    <2>. HIDE DEF q
    <2>2. q = <<>> \/ \E text \in Texts : q = <<ConfigJob(text)>>
        BY Zenon, <2>1, ConfigResultIs
    <2>3. ASSUME NEW text \in Texts
          PROVE  /\ TaskFacts(ConfigJob(text)) /\ ConfigJob(text) # LoadedJob
                 /\ \A x : ConfigJob(text) # VerdictJob(x)
        <3>. DEFINE j == ConfigJob(text)
        <3>1. j.container = "configuration" /\ j.patch = [loading |-> FALSE, data |-> TextArg(text)]
            BY SetParts DEF ConfigJob
        <3>2. "verdict" \notin DOMAIN j.patch /\ j.container \in {"configuration", "postponed-fills", "users"}
            BY <3>1
        <3>3. j \in TaskJobs
            BY Zenon DEF TaskJobs, ConfigTaskJobs
        <3>. HIDE DEF j
        <3>4. (TaskFacts(j) /\ j # LoadedJob) /\ \A x : j # VerdictJob(x)
            BY Zenon, <3>2, <3>3, OtherTask, VerdictPatches
        <3>. QED
            BY Zenon, <3>4 DEF j
    <2>. QED
        BY Zenon, <2>2, <2>3 DEF Goal
<1>6. ASSUME r.arg = NoArg, r.name # "config" PROVE data \in Empties
    BY Zenon, <1>6 DEF DataOf, Empties
<1>7. CASE r.name \in {"users", "postponedFills"}
    <2>1. q = ListResult(IF r.name = "users" THEN "users" ELSE "postponed-fills", data)
        BY <1>7 DEF Result
    <2>2. r.arg = NoArg /\ r.name # "config"
        BY <1>1, <1>7 DEF Fits, Plain
    <2>3. data \in Empties
        BY <1>6, <2>2
    <2>. HIDE DEF q
    <2>4. \E j \in TaskJobs : q = <<j>> /\ j.container \in {"postponed-fills", "users"}
        BY <2>1, <2>3, ListResultIs
    <2>5. PICK j \in TaskJobs : q = <<j>> /\ j.container \in {"postponed-fills", "users"}
        BY <2>4
    <2>6. j.container # "configuration" /\ j.container \in {"configuration", "postponed-fills", "users"}
        BY <2>5
    <2>7. (TaskFacts(j) /\ j # LoadedJob) /\ \A text : j # VerdictJob(text)
        BY Zenon, <2>6, OtherTask, VerdictPatches
    <2>. QED
        BY Zenon, <2>5, <2>7 DEF Goal
<1>8. CASE r.name = "roles"
    <2>1. q = <<>>
        BY <1>8 DEF Result
    <2>. QED
        BY <2>1 DEF Goal
<1>9. r.name # "signals"
    BY <1>1 DEF Fits, Plain, Plainly, Updates
<1>. QED
    BY <1>1, <1>2, <1>3, <1>4, <1>5, <1>7, <1>8, <1>9

(* The steps of answers share what they leave alone. *)
LEMMA AnswerTask ==
    ASSUME Typing, Quiet, NetTyped(net'), StartedTyped', BoundsTyped', ItemTyped',
           KeepsAsked, VerdictStep,
           UNCHANGED <<who, url, entry, ex, mounted, con, editor, orphans, conts>>,
           jobs' = <<>> \/ \E j : TaskFacts(j) /\ jobs' = <<j>>,
           LoadedJob \in In(jobs') => AskedIn(net) /\ (AskedOnceIn(net) => ~AskedIn(net'))
    PROVE  Typing' /\ TaskStep
<1>1. /\ who' = who /\ url' = url /\ entry' = entry /\ ex' = ex /\ mounted' = mounted /\ con' = con
      /\ editor' = editor /\ orphans' = orphans /\ conts' = conts
    BY Zenon
<1>2. EditorTyped' /\ editor'.on = editor.on
    BY Zenon, <1>1, SameEditor
<1>3. TaskStep
    BY Zenon, <1>1, <1>2 DEF TaskStep
<1>4. url' \in URLs
    BY Zenon, <1>1 DEF Typing, SelectionTyped
<1>. QED
    BY Zenon, <1>1, <1>2, <1>3, <1>4, TaskTyping

LEMMA ResultStep ==
    ASSUME NEW r, Pending(r), r.name \in Repeated, NEW data \in DataOf(r) \cup {NoData}, jobs' = Result(r, data)
    PROVE  /\ jobs' = <<>> \/ \E j : TaskFacts(j) /\ jobs' = <<j>>
           /\ LoadedJob \in In(jobs') => r.name = "supportedExchanges"
           /\ \A text : VerdictJob(text) \notin In(jobs')
<1>1. \/ jobs' = <<>>
      \/ \E j : /\ jobs' = <<j>> /\ TaskFacts(j)
                /\ j = LoadedJob => r.name = "supportedExchanges"
                /\ \A text : j # VerdictJob(text)
    BY ZenonT(40), ResultIs
<1>2. CASE jobs' = <<>>
    BY Zenon, <1>2, NoLoading
<1>3. ASSUME NEW j, jobs' = <<j>>, TaskFacts(j), j = LoadedJob => r.name = "supportedExchanges",
             \A text : j # VerdictJob(text)
      PROVE  /\ jobs' = <<>> \/ \E x : TaskFacts(x) /\ jobs' = <<x>>
             /\ LoadedJob \in In(jobs') => r.name = "supportedExchanges"
             /\ \A text : VerdictJob(text) \notin In(jobs')
    <2>1. In(jobs') = {j}
        BY Zenon, <1>3, PlainJob
    <2>. QED
        BY Zenon, <1>3, <2>1
<1>. QED
    BY Zenon, <1>1, <1>2, <1>3

LEMMA AnswerIs ==
    ASSUME Typing, NEW r, Answer(r)
    PROVE  Typing' /\ TaskStep
<1>1. /\ Waiting(r, "sent") /\ r.name \in Repeated /\ After(r)
      /\ \E data \in DataOf(r) : jobs' = Result(r, data)
      /\ UNCHANGED <<who, url, entry, ex, pageVars, conts, clicks, faults, ghosts>>
    BY Zenon DEF Answer, DataOf
<1>2. Quiet /\ r \in DOMAIN net /\ Pending(r)
    BY Zenon, <1>1, WaitingParts
<1>3. /\ NetTyped(net') /\ StartedTyped' /\ KeepsAsked /\ SameVerdicts
      /\ r.name = "supportedExchanges" => AskedIn(net) /\ (AskedOnceIn(net) => ~AskedIn(net'))
    BY Zenon, <1>1, <1>2, AfterFacts
<1>4. PICK data \in DataOf(r) : jobs' = Result(r, data)
    BY <1>1
<1>5. /\ jobs' = <<>> \/ \E j : TaskFacts(j) /\ jobs' = <<j>>
      /\ LoadedJob \in In(jobs') => r.name = "supportedExchanges"
      /\ \A text : VerdictJob(text) \notin In(jobs')
    BY Zenon, <1>1, <1>2, <1>4, ResultStep
<1>6. /\ who' = who /\ url' = url /\ entry' = entry /\ ex' = ex /\ mounted' = mounted /\ con' = con
      /\ editor' = editor /\ orphans' = orphans /\ item' = item /\ conts' = conts /\ clicks' = clicks
      /\ faults' = faults /\ gaveUp' = gaveUp /\ strayed' = strayed
    BY Zenon, <1>1 DEF pageVars, ghosts
<1>7. ItemTyped' /\ BoundsTyped'
    BY Zenon, <1>6, SameItem, SameBounds
<1>8. VerdictStep
    BY Zenon, <1>3, <1>5, <1>6 DEF VerdictStep
<1>9. UNCHANGED <<who, url, entry, ex, mounted, con, editor, orphans, conts>>
    BY Zenon, <1>6
<1>. QED
    BY Zenon, <1>2, <1>3, <1>5, <1>7, <1>8, <1>9, AnswerTask

LEMMA AnswerEmptyIs ==
    ASSUME Typing, NEW r, AnswerEmpty(r)
    PROVE  Typing' /\ TaskStep
<1>1. /\ Waiting(r, "sent") /\ r.name \in Repeated /\ faults < MaxFaults /\ faults' = faults + 1
      /\ net' = Sent(Gone(net, r), [r EXCEPT !.phase = "delay"])
      /\ who' = who /\ url' = url /\ entry' = entry /\ ex' = ex /\ mounted' = mounted /\ con' = con
      /\ editor' = editor /\ orphans' = orphans /\ item' = item /\ conts' = conts /\ clicks' = clicks
      /\ started' = started /\ jobs' = jobs /\ gaveUp' = gaveUp /\ strayed' = strayed
    BY Zenon DEF AnswerEmpty, pageVars, ghosts
<1>2. Quiet /\ jobs = <<>> /\ r \in DOMAIN net
    BY Zenon, <1>1, WaitingParts
<1>3. NetTyped(net') /\ KeepsAsked /\ SameVerdicts
    <2>1. "delay" \in {"sent", "delay"}
        OBVIOUS
    <2>. QED
        BY Zenon, <1>1, <1>2, <2>1, PhaseKeeps
<1>4. StartedTyped' /\ ItemTyped' /\ BoundsTyped'
    <2>1. ItemTyped' /\ BoundsTyped'
        BY Zenon, <1>1, SameItem, FaultBounds
    <2>. QED
        BY Zenon, <1>1, <2>1 DEF Typing, StartedTyped
<1>5. jobs' = <<>> /\ LoadedJob \notin In(jobs') /\ \A text : VerdictJob(text) \notin In(jobs')
    BY Zenon, <1>1, <1>2, NoLoading
<1>6. VerdictStep
    BY Zenon, <1>1, <1>3, <1>5 DEF VerdictStep
<1>7. UNCHANGED <<who, url, entry, ex, mounted, con, editor, orphans, conts>>
    BY Zenon, <1>1
<1>. QED
    BY Zenon, <1>2, <1>3, <1>4, <1>5, <1>6, <1>7, AnswerTask

LEMMA RepeatIs ==
    ASSUME Typing, NEW r, Repeat(r)
    PROVE  Typing' /\ TaskStep
<1>1. /\ Waiting(r, "delay")
      /\ who' = who /\ url' = url /\ entry' = entry /\ ex' = ex /\ mounted' = mounted /\ con' = con
      /\ editor' = editor /\ orphans' = orphans /\ item' = item /\ conts' = conts /\ clicks' = clicks
      /\ faults' = faults /\ strayed' = strayed
    BY Zenon DEF Repeat, pageVars
<1>2. Quiet /\ jobs = <<>> /\ r \in DOMAIN net /\ Pending(r) /\ r.name \in Repeated
    BY Zenon, <1>1, WaitingParts
<1>3. ItemTyped' /\ BoundsTyped'
    BY Zenon, <1>1, SameItem, SameBounds
<1>4. UNCHANGED <<who, url, entry, ex, mounted, con, editor, orphans, conts>>
    BY Zenon, <1>1
<1>5. CASE started[r.name]
    <2>1. /\ net' = Sent(Gone(net, r), [r EXCEPT !.phase = "sent"])
          /\ started' = started /\ jobs' = jobs /\ gaveUp' = gaveUp
        BY Zenon, <1>5 DEF Repeat
    <2>2. NetTyped(net') /\ KeepsAsked /\ SameVerdicts
        <3>1. "sent" \in {"sent", "delay"}
            OBVIOUS
        <3>. QED
            BY Zenon, <1>2, <2>1, <3>1, PhaseKeeps
    <2>3. StartedTyped'
        BY Zenon, <2>1 DEF Typing, StartedTyped
    <2>4. jobs' = <<>> /\ LoadedJob \notin In(jobs') /\ \A text : VerdictJob(text) \notin In(jobs')
        BY Zenon, <1>2, <2>1, NoLoading
    <2>5. VerdictStep
        BY Zenon, <1>1, <2>1, <2>2, <2>4 DEF VerdictStep
    <2>. QED
        BY Zenon, <1>2, <1>3, <1>4, <2>2, <2>3, <2>4, <2>5, AnswerTask
<1>6. CASE ~started[r.name]
    <2>1. After(r) /\ jobs' = Result(r, NoData) /\ gaveUp' = TRUE
        BY Zenon, <1>6 DEF Repeat
    <2>2. /\ NetTyped(net') /\ StartedTyped' /\ KeepsAsked
          /\ r.name = "supportedExchanges" => AskedIn(net) /\ (AskedOnceIn(net) => ~AskedIn(net'))
        BY Zenon, <1>2, <2>1, AfterFacts
    <2>3. /\ jobs' = <<>> \/ \E j : TaskFacts(j) /\ jobs' = <<j>>
          /\ LoadedJob \in In(jobs') => r.name = "supportedExchanges"
        BY Zenon, <1>2, <2>1, ResultStep
    <2>4. VerdictStep
        BY Zenon, <2>1 DEF VerdictStep
    <2>. QED
        BY Zenon, <1>2, <1>3, <1>4, <2>2, <2>3, <2>4, AnswerTask
<1>. QED
    BY <1>5, <1>6

LEMMA PlainResultIs ==
    ASSUME NEW r, Pending(r), r.name \in Plain
    PROVE  /\ r.name = "save" => PlainResult(r) = <<SavedJob>>
           /\ r.name # "save" =>
                r.name = "validate" /\ r.arg.text \in AnyText /\ PlainResult(r) = <<VerdictJob(r.arg.text)>>
           /\ TaskFacts(SavedJob) /\ SavedJob # LoadedJob /\ \A text : SavedJob # VerdictJob(text)
           /\ \A text \in AnyText : TaskFacts(VerdictJob(text)) /\ VerdictJob(text) # LoadedJob
<1>1. r.name \in {"validate", "save"}
    BY DEF Plain
<1>2. r.name = "save" => PlainResult(r) = <<SavedJob>>
    BY Zenon DEF PlainResult, SavedJob
<1>3. r.name # "save" => r.name = "validate" /\ PlainResult(r) = <<VerdictJob(r.arg.text)>>
    BY Zenon, <1>1 DEF PlainResult, VerdictJob
<1>4. r.arg.text \in AnyText
    <2>1. r.arg \in TextArgs
        BY <1>1 DEF Pending, Fits, Plainly, Updates, Plain
    <2>. QED
        BY <2>1, ArgFacts DEF TextArgs
<1>5. ASSUME NEW j \in TaskJobs, j.container = "configuration" PROVE TaskFacts(j) /\ j # LoadedJob
    BY <1>5, OtherTask
<1>6. SavedJob \in TaskJobs /\ SavedJob.container = "configuration" /\ SavedJob.patch = [saving |-> FALSE]
    <2>1. SavedJob.container = "configuration" /\ SavedJob.patch = [saving |-> FALSE]
        BY SetParts DEF SavedJob
    <2>2. SavedJob \in TaskJobs
        BY Zenon DEF TaskJobs, ConfigTaskJobs
    <2>. QED
        BY Zenon, <2>1, <2>2
<1>7. "verdict" \notin DOMAIN SavedJob.patch
    BY <1>6
<1>8. \A text : SavedJob # VerdictJob(text)
    BY Zenon, <1>7, VerdictPatches
<1>9. ASSUME NEW text \in AnyText PROVE VerdictJob(text) \in TaskJobs /\ VerdictJob(text).container = "configuration"
    <2>1. VerdictJob(text).container = "configuration"
        BY SetParts DEF VerdictJob
    <2>2. VerdictJob(text) \in TaskJobs
        BY Zenon DEF TaskJobs, ConfigTaskJobs
    <2>. QED
        BY Zenon, <2>1, <2>2
<1>. QED
    BY Zenon, <1>2, <1>3, <1>4, <1>5, <1>6, <1>8, <1>9

LEMMA AnswerPlainIs ==
    ASSUME Typing, NEW r, AnswerPlain(r)
    PROVE  Typing' /\ TaskStep
<1>1. /\ Waiting(r, "sent") /\ r.name \in Plain /\ net' = Gone(net, r) /\ jobs' = PlainResult(r)
      /\ who' = who /\ url' = url /\ entry' = entry /\ ex' = ex /\ mounted' = mounted /\ con' = con
      /\ editor' = editor /\ orphans' = orphans /\ item' = item /\ conts' = conts /\ clicks' = clicks
      /\ started' = started /\ faults' = faults /\ gaveUp' = gaveUp /\ strayed' = strayed
    BY Zenon DEF AnswerPlain, pageVars, ghosts
<1>2. Quiet /\ r \in DOMAIN net /\ Pending(r)
    BY Zenon, <1>1, WaitingParts
<1>3. /\ NetTyped(net') /\ KeepsAsked /\ DOMAIN net' \subseteq DOMAIN net
      /\ r.name # "validate" => SameVerdicts
    BY Zenon, <1>1, <1>2, GoneKeeps
<1>4. ItemTyped' /\ BoundsTyped' /\ StartedTyped'
    <2>1. ItemTyped' /\ BoundsTyped'
        BY Zenon, <1>1, SameItem, SameBounds
    <2>. QED
        BY Zenon, <1>1, <2>1 DEF Typing, StartedTyped
<1>5. UNCHANGED <<who, url, entry, ex, mounted, con, editor, orphans, conts>>
    BY Zenon, <1>1
<1>6. PICK j : /\ jobs' = <<j>> /\ TaskFacts(j) /\ j # LoadedJob
               /\ \/ r.name # "validate" /\ \A text : j # VerdictJob(text)
                  \/ r.name = "validate" /\ r.arg.text \in AnyText /\ j = VerdictJob(r.arg.text)
    <2>1. "save" # "validate"
        OBVIOUS
    <2>. QED
        BY Zenon, <1>1, <1>2, <2>1, PlainResultIs
<1>7. In(jobs') = {j}
    BY Zenon, <1>6, PlainJob
<1>8. LoadedJob \notin In(jobs')
    BY Zenon, <1>6, <1>7
<1>9. VerdictStep
    BY Zenon, <1>1, <1>2, <1>3, <1>6, <1>7 DEF VerdictStep, Verdicts
<1>. QED
    BY Zenon, <1>2, <1>3, <1>4, <1>5, <1>6, <1>8, <1>9, AnswerTask

LEMMA AnswerUpdateIs ==
    ASSUME Typing, NEW r, AnswerUpdate(r), item # noItem \/ r.name # "update"
    PROVE  Typing' /\ TaskStep
<1>1. /\ Waiting(r, "sent") /\ r.name \in Updates /\ net' = Gone(net, r) /\ jobs' = jobs
      /\ item' = IF r.name = "update" THEN "idle" ELSE item
      /\ who' = who /\ url' = url /\ entry' = entry /\ ex' = ex /\ mounted' = mounted /\ con' = con
      /\ editor' = editor /\ orphans' = orphans /\ conts' = conts /\ clicks' = clicks
      /\ started' = started /\ faults' = faults /\ gaveUp' = gaveUp /\ strayed' = strayed
    BY Zenon DEF AnswerUpdate, ghosts
<1>2. Quiet /\ r \in DOMAIN net /\ jobs = <<>>
    BY Zenon, <1>1, WaitingParts
<1>3. r.name # "validate"
    BY <1>1 DEF Updates
<1>4. NetTyped(net') /\ KeepsAsked /\ SameVerdicts
    BY Zenon, <1>1, <1>2, <1>3, GoneKeeps
<1>5. ItemTyped'
    BY <1>1 DEF Typing, ItemTyped, noItem
<1>6. BoundsTyped' /\ StartedTyped'
    BY Zenon, <1>1, SameBounds DEF Typing, StartedTyped
<1>7. UNCHANGED <<who, url, entry, ex, mounted, con, editor, orphans, conts>>
    BY Zenon, <1>1
<1>8. jobs' = <<>> /\ LoadedJob \notin In(jobs') /\ \A text : VerdictJob(text) \notin In(jobs')
    BY Zenon, <1>1, <1>2, NoLoading
<1>9. VerdictStep
    BY Zenon, <1>1, <1>4, <1>8 DEF VerdictStep
<1>. QED
    BY Zenon, <1>2, <1>4, <1>5, <1>6, <1>7, <1>8, <1>9, AnswerTask

LEMMA FailIs ==
    ASSUME Typing, NEW r, Fail(r)
    PROVE  Typing' /\ TaskStep
<1>1. /\ Waiting(r, "sent") /\ net' = Gone(net, r) /\ jobs' = IF r.name = "save" THEN PlainResult(r) ELSE <<>>
      /\ faults < MaxFaults /\ faults' = faults + 1 /\ gaveUp' = TRUE
      /\ who' = who /\ url' = url /\ entry' = entry /\ ex' = ex /\ mounted' = mounted /\ con' = con
      /\ editor' = editor /\ orphans' = orphans /\ item' = item /\ conts' = conts /\ clicks' = clicks
      /\ started' = started
    BY Zenon DEF Fail, pageVars
<1>2. Quiet /\ r \in DOMAIN net /\ Pending(r)
    BY Zenon, <1>1, WaitingParts
<1>3. NetTyped(net') /\ KeepsAsked
    BY Zenon, <1>1, <1>2, GoneKeeps
<1>4. ItemTyped' /\ BoundsTyped' /\ StartedTyped'
    <2>1. ItemTyped' /\ BoundsTyped'
        BY Zenon, <1>1, SameItem, FaultBounds
    <2>. QED
        BY Zenon, <1>1, <2>1 DEF Typing, StartedTyped
<1>5. UNCHANGED <<who, url, entry, ex, mounted, con, editor, orphans, conts>>
    BY Zenon, <1>1
<1>6. VerdictStep
    BY Zenon, <1>1 DEF VerdictStep
<1>7. CASE r.name = "save"
    <2>1. r.name \in Plain
        BY <1>7 DEF Plain
    <2>2. jobs' = <<SavedJob>> /\ TaskFacts(SavedJob) /\ SavedJob # LoadedJob
        BY Zenon, <1>1, <1>2, <1>7, <2>1, PlainResultIs
    <2>3. LoadedJob \notin In(jobs')
        BY Zenon, <2>2, PlainJob
    <2>. QED
        BY Zenon, <1>2, <1>3, <1>4, <1>5, <1>6, <2>2, <2>3, AnswerTask
<1>8. CASE r.name # "save"
    <2>1. jobs' = <<>> /\ LoadedJob \notin In(jobs')
        BY Zenon, <1>1, <1>8, NoLoading
    <2>. QED
        BY Zenon, <1>2, <1>3, <1>4, <1>5, <1>6, <2>1, AnswerTask
<1>. QED
    BY <1>7, <1>8

-----------------------------------------------------------------------------
(* A document that was just opened. *)

Fresh ==
    /\ url \in URLs
    /\ entry = url
    /\ ex = emptySelection
    /\ mounted = Blank
    /\ con = emptyContainer
    /\ editor = noEditor
    /\ orphans = {}
    /\ item = noItem
    /\ started = [n \in Repeated |-> n = "supportedExchanges"]
    /\ net = Sent(<<>>, Request("supportedExchanges", NoArg))
    /\ jobs = <<Render(TRUE)>>
    /\ conts = <<>>

LEMMA EmptyContainers ==
    /\ ContainersOf(emptyContainer)
    /\ emptyContainer["explanation"] = [loading |-> FALSE, data |-> NoData, exchange |-> Blank, code |-> NoCode]
    /\ emptyContainer["plgraph"] = [loading |-> FALSE, data |-> NoData, exchange |-> Null, code |-> NoCode]
    /\ emptyContainer["configuration"].data = NoData
<1>1. /\ emptyContainer["explanation"] = [loading |-> FALSE, data |-> NoData, exchange |-> Blank, code |-> NoCode]
      /\ emptyContainer["plgraph"] = [loading |-> FALSE, data |-> NoData, exchange |-> Null, code |-> NoCode]
    BY LoaderNames DEF emptyContainer, clearState
<1>2. /\ emptyContainer["users"] = [loading |-> FALSE, data |-> NoData, exchange |-> Blank, code |-> NoCode]
      /\ emptyContainer["signals"] = clearState
    BY LoaderNames DEF emptyContainer, clearState
<1>3. /\ emptyContainer["configuration"] =
           [loading |-> FALSE, data |-> NoData, verdict |-> NoText, saving |-> FALSE]
      /\ emptyContainer["postponed-fills"] = [loading |-> FALSE, data |-> NoData, modal |-> FALSE]
    BY LoaderNames DEF emptyContainer
<1>4. emptyContainer = [p \in Loaders |-> emptyContainer[p]]
    BY Zenon DEF emptyContainer
<1>. DEFINE c == emptyContainer
<1>. HIDE DEF c
<1>5. Blank \in Names /\ NoCode \in Codes /\ NoText \in AnyText /\ NoData \in Empties
    BY NameTypes DEF AnyText, Empties
<1>6. emptyContainer["explanation"] \in FollowStates /\ emptyContainer["plgraph"] \in FollowStates
    BY <1>1, <1>5 DEF FollowStates
<1>7. emptyContainer["users"] \in UserStates
    BY <1>2, <1>5 DEF UserStates
<1>8. emptyContainer["configuration"] \in ConfigStates
    BY <1>3, <1>5 DEF ConfigStates
<1>9. emptyContainer["postponed-fills"] \in FillStates
    BY <1>3, <1>5 DEF FillStates
<1>10. emptyContainer["configuration"].data = NoData
    BY <1>3
<1>. QED
    BY Zenon, <1>1, <1>2, <1>4, <1>6, <1>7, <1>8, <1>9, <1>10 DEF ContainersOf

LEMMA FreshNet ==
    ASSUME Fresh
    PROVE  /\ DOMAIN net = {Request("supportedExchanges", NoArg)}
           /\ NetTyped(net) /\ AskedOnceIn(net) /\ UpdateIsOwn
<1>. DEFINE r == Request("supportedExchanges", NoArg)
<1>1. r.name = "supportedExchanges"
    BY AskParts
<1>2. Pending(r)
    <2>1. Fits("supportedExchanges", NoArg)
        BY DEF Fits, Plainly
    <2>. QED
        BY Zenon, <2>1, RequestPending
<1>. HIDE DEF r
<1>3. net = Sent(<<>>, r)
    BY Zenon DEF Fresh, r
<1>4. DOMAIN net = {r} /\ net[r] = 1
    BY <1>3 DEF Sent
<1>5. NetTyped(net) /\ AskedOnceIn(net)
    BY Zenon, <1>2, <1>4 DEF NetTyped, AskedOnceIn
<1>6. "update" # "supportedExchanges"
    OBVIOUS
<1>7. UpdateIsOwn
    BY Zenon, <1>1, <1>4, <1>6 DEF UpdateIsOwn
<1>. QED
    BY Zenon, <1>4, <1>5, <1>7 DEF r

LEMMA FreshTyping ==
    ASSUME Fresh, who \in Profiles, BoundsTyped
    PROVE  Typing
<1>1. SelectionTyped
    BY Zenon, EmptySelectionType DEF SelectionTyped, Fresh
<1>2. PageTyped
    BY Zenon, EmptyContainers DEF PageTyped, Fresh
<1>3. EditorTyped
    <2>1. NoText \in AnyText
        BY DEF AnyText
    <2>2. /\ noEditor \in [on : BOOLEAN, text : AnyText, timer : BOOLEAN]
          /\ noEditor.timer = FALSE /\ noEditor.on = FALSE
        BY <2>1 DEF noEditor
    <2>. QED
        BY Zenon, <2>2 DEF EditorTyped, Fresh
<1>4. ItemTyped
    BY DEF ItemTyped, Fresh
<1>5. StartedTyped
    BY DEF StartedTyped, Fresh
<1>6. QueueTyped
    <2>1. Render(TRUE) \in Jobs
        BY Zenon, RenderParts, JobsApart
    <2>2. jobs = <<Render(TRUE)>> /\ conts = <<>>
        BY Zenon DEF Fresh
    <2>. QED
        BY Zenon, <2>1, <2>2, Single, Nothing DEF QueueTyped
<1>. QED
    BY Zenon, <1>1, <1>2, <1>3, <1>4, <1>5, <1>6, FreshNet DEF Typing

LEMMA FreshInv ==
    ASSUME Fresh, who \in Profiles, BoundsTyped
    PROVE  Inv
<1>1. jobs = <<Render(TRUE)>> /\ conts = <<>> /\ ex = emptySelection /\ mounted = Blank
    BY Zenon DEF Fresh
<1>2. In(jobs) = {Render(TRUE)} /\ In(conts) = {}
    <2>1. Render(TRUE) \in {Render(TRUE)}
        OBVIOUS
    <2>. QED
        BY Zenon, <1>1, <2>1, Single, Nothing
<1>3. Render(TRUE).k = "render" /\ ~Selects(Render(TRUE)) /\ Render(TRUE) \notin TaskJobs
    BY Zenon, RenderParts, JobsApart
<1>4. Typing /\ AskedOnceIn(net) /\ UpdateIsOwn
    BY Zenon, FreshTyping, FreshNet
<1>5. Stage
    BY Zenon, <1>1, <1>2, <1>3, <1>4 DEF Stage, NoSelect, OnlyAsks
<1>6. Alone
    BY Zenon, <1>2, <1>3 DEF Alone
<1>7. MountedIsUrl
    BY Zenon, <1>2, <1>3 DEF MountedIsUrl
<1>8. ~Going(ex)
    BY Zenon, <1>1, NotReady
<1>9. HeaderIsShown /\ Settled /\ IntervalIsSet /\ SymbolIsMended
    BY Zenon, <1>8 DEF HeaderIsShown, Settled, IntervalIsSet, SymbolIsMended
<1>10. con = emptyContainer
    BY Zenon DEF Fresh
<1>11. PLGraphFollows
    <2>1. con["plgraph"].data = NoData
        BY <1>10, EmptyContainers
    <2>2. Blank # "plgraph"
        BY BlankIsNoName, LoaderNames
    <2>. QED
        BY Zenon, <1>1, <1>2, <1>3, <2>1, <2>2 DEF PLGraphFollows, DataIsOwn
<1>12. ExplanationFollows
    <2>1. con["explanation"].data = NoData /\ con["explanation"].exchange = Blank
        BY <1>10, EmptyContainers
    <2>2. Blank # "explanation"
        BY BlankIsNoName, LoaderNames
    <2>3. ~Sets1(Render(TRUE), "explanation")
        BY <1>3 DEF Sets1
    <2>. QED
        BY Zenon, <1>1, <1>2, <1>3, <2>1, <2>2, <2>3 DEF ExplanationFollows, DataIsOwn
<1>13. EditorIsShown /\ VerdictComes
    <2>1. editor.on = FALSE
        BY DEF Fresh, noEditor
    <2>2. Blank # "configuration"
        BY BlankIsNoName, LoaderNames
    <2>. QED
        BY Zenon, <1>1, <2>1, <2>2 DEF EditorIsShown, VerdictComes
<1>. QED
    BY Zenon, <1>4, <1>5, <1>6, <1>7, <1>9, <1>11, <1>12, <1>13 DEF Inv

LEMMA InitFresh == Init => Fresh /\ who \in Profiles /\ BoundsTyped
<1>. SUFFICES ASSUME Init PROVE Fresh /\ who \in Profiles /\ BoundsTyped
    OBVIOUS
<1>1. Fresh /\ who \in Profiles
    BY Zenon, TypedType DEF Init, Fresh
<1>2. BoundsTyped
    BY BoundsAssumption DEF Init, BoundsTyped
<1>. QED
    BY <1>1, <1>2

Starting == Fresh /\ who \in Profiles /\ BoundsTyped

LEMMA StartingInv == Starting => Inv
BY FreshInv DEF Starting

LEMMA FreshStep == Starting' => Inv'
BY StartingInv, PTL

LEMMA OpenedFresh ==
    ASSUME Typing, NEW u \in URLs, Opened(u), who' = who, BoundsTyped'
    PROVE  Inv'
<1>1. Fresh'
    BY Zenon DEF Opened, Fresh
<1>2. who' \in Profiles
    BY DEF Typing
<1>. QED
    BY Zenon, <1>1, <1>2, FreshStep DEF Starting

-----------------------------------------------------------------------------
(* The exchanges are loaded in stages. *)

LEMMA OnceLeft ==
    ASSUME NEW S, NEW s \in Seq(S), NEW t \in Seq(S), Once(s), NoSelect(t)
    PROVE  Once(s \o t)
<1>. SUFFICES ASSUME NEW i \in DOMAIN (s \o t), NEW m \in DOMAIN (s \o t),
                     Selects((s \o t)[i]), Selects((s \o t)[m])
              PROVE  i = m
    BY DEF Once
<1>1. ASSUME NEW n \in DOMAIN (s \o t), Selects((s \o t)[n]) PROVE n \in DOMAIN s /\ (s \o t)[n] = s[n]
    <2>1. n \notin DOMAIN s => n - Len(s) \in DOMAIN t /\ (s \o t)[n] = t[n - Len(s)]
        OBVIOUS
    <2>2. n \in DOMAIN s
        BY <1>1, <2>1 DEF NoSelect, In
    <2>. QED
        BY <2>2
<1>2. i \in DOMAIN s /\ (s \o t)[i] = s[i] /\ m \in DOMAIN s /\ (s \o t)[m] = s[m]
    BY <1>1
<1>3. Selects(s[i]) /\ Selects(s[m])
    BY Zenon, <1>2
<1>. QED
    BY Zenon, <1>2, <1>3 DEF Once

LEMMA OnceRight ==
    ASSUME NEW S, NEW s \in Seq(S), NEW t \in Seq(S), NoSelect(s), Once(t)
    PROVE  Once(s \o t)
<1>. SUFFICES ASSUME NEW i \in DOMAIN (s \o t), NEW m \in DOMAIN (s \o t),
                     Selects((s \o t)[i]), Selects((s \o t)[m])
              PROVE  i = m
    BY DEF Once
<1>1. ASSUME NEW n \in DOMAIN (s \o t), Selects((s \o t)[n])
      PROVE  n - Len(s) \in DOMAIN t /\ (s \o t)[n] = t[n - Len(s)]
    <2>1. n \in DOMAIN s => (s \o t)[n] = s[n]
        OBVIOUS
    <2>2. n \notin DOMAIN s
        BY <1>1, <2>1 DEF NoSelect, In
    <2>. QED
        BY <2>2
<1>2. /\ i - Len(s) \in DOMAIN t /\ (s \o t)[i] = t[i - Len(s)]
      /\ m - Len(s) \in DOMAIN t /\ (s \o t)[m] = t[m - Len(s)]
    BY <1>1
<1>. DEFINE x == i - Len(s)
            y == m - Len(s)
<1>3. x \in DOMAIN t /\ y \in DOMAIN t /\ Selects(t[x]) /\ Selects(t[y])
    BY Zenon, <1>2
<1>. HIDE DEF x, y
<1>4. x = y
    BY Zenon, <1>3 DEF Once
<1>. QED
    BY <1>4 DEF x, y

LEMMA OnceTail ==
    ASSUME NEW S, NEW s \in Seq(S), s # <<>>, Once(s)
    PROVE  Once(Tail(s)) /\ (Selects(Head(s)) => NoSelect(Tail(s)))
<1>. DEFINE t == Tail(s)
<1>1. \A n \in DOMAIN t : n + 1 \in DOMAIN s /\ t[n] = s[n + 1] /\ n \in Nat /\ n >= 1
    OBVIOUS
<1>2. 1 \in DOMAIN s /\ Head(s) = s[1]
    OBVIOUS
<1>. HIDE DEF t
<1>3. Once(t)
    <2>. SUFFICES ASSUME NEW i \in DOMAIN t, NEW m \in DOMAIN t, Selects(t[i]), Selects(t[m])
                  PROVE  i = m
        BY DEF Once
    <2>1. i + 1 \in DOMAIN s /\ m + 1 \in DOMAIN s /\ Selects(s[i + 1]) /\ Selects(s[m + 1])
        BY Zenon, <1>1
    <2>2. i + 1 = m + 1
        BY Zenon, <2>1 DEF Once
    <2>. QED
        BY <1>1, <2>2
<1>4. ASSUME Selects(Head(s)), NEW n \in DOMAIN t, Selects(t[n]) PROVE FALSE
    <2>1. n + 1 \in DOMAIN s /\ Selects(s[n + 1]) /\ Selects(s[1])
        BY Zenon, <1>1, <1>2, <1>4
    <2>2. n + 1 = 1
        BY Zenon, <1>2, <2>1 DEF Once
    <2>. QED
        BY <1>1, <2>2
<1>5. Selects(Head(s)) => NoSelect(t)
    BY Zenon, <1>4 DEF NoSelect, In
<1>. QED
    BY <1>3, <1>5 DEF t

LEMMA OnceSingle ==
    ASSUME NEW j, NEW s, s = <<j>>
    PROVE  Once(s)
BY DEF Once

Stage1(e, q, c, n) == e = emptySelection /\ NoSelect(q) /\ OnlyAsks(c) /\ AskedOnceIn(n)
Stage2(e, q, c, n) == e = emptySelection /\ q = <<LoadedJob>> /\ c = <<>> /\ ~AskedIn(n)
Stage3(e, q, c, n) ==
    /\ e = Started /\ NoSelect(q) /\ ~AskedIn(n)
    /\ c # <<>> /\ Head(c).k = "selected" /\ OnlyAsks(Tail(c))
Stage4(e, q, c, n) ==
    /\ e = Started /\ OnlyAsks(c) /\ ~AskedIn(n)
    /\ FirstJob \in In(q) /\ Once(q) /\ \A j \in In(q) : Selects(j) => j = FirstJob
Stage5(e, q, c, n) ==
    /\ Going(e) /\ ~AskedIn(n)
    /\ \A j \in In(q) : Selects(j) => j \in HeaderJobs
    /\ \A x \in In(c) : x.k # "selected"

LEMMA StageIs ==
    /\ Stage <=> \/ Stage1(ex, jobs, conts, net) \/ Stage2(ex, jobs, conts, net)
                 \/ Stage3(ex, jobs, conts, net) \/ Stage4(ex, jobs, conts, net)
                 \/ Stage5(ex, jobs, conts, net)
    /\ Stage' <=> \/ Stage1(ex', jobs', conts', net') \/ Stage2(ex', jobs', conts', net')
                  \/ Stage3(ex', jobs', conts', net') \/ Stage4(ex', jobs', conts', net')
                  \/ Stage5(ex', jobs', conts', net')
BY Zenon DEF Stage, Stage1, Stage2, Stage3, Stage4, Stage5

LEMMA TaskStage ==
    ASSUME Typing, Stage, TaskStep
    PROVE  Stage'
<1>1. jobs = <<>> /\ conts = <<>> /\ conts' = conts /\ ex' = ex /\ KeepsAsked
    BY Zenon DEF TaskStep, Quiet
<1>2. In(jobs) = {} /\ In(conts) = {}
    BY Zenon, <1>1, Nothing
<1>3. Stage1(ex, jobs, conts, net) \/ Stage5(ex, jobs, conts, net)
    <2>1. jobs # <<LoadedJob>>
        BY <1>1
    <2>. QED
        BY Zenon, <1>1, <1>2, <2>1, StageIs DEF Stage2, Stage3, Stage4
<1>4. LoadedJob \in In(jobs') => AskedIn(net) /\ (AskedOnceIn(net) => ~AskedIn(net'))
    BY Zenon DEF TaskStep
<1>5. CASE LoadedJob \notin In(jobs')
    <2>1. \A j \in In(jobs') : ~Selects(j)
        <3>1. jobs' = <<Render(TRUE)>> => In(jobs') = {Render(TRUE)}
            BY Zenon, PlainJob
        <3>2. jobs' = <<>> => In(jobs') = {}
            BY Zenon, Nothing
        <3>3. ~Selects(Render(TRUE))
            BY Zenon, RenderParts, JobsApart
        <3>4. ASSUME NEW j \in TaskJobs, jobs' = <<j>> PROVE \A x \in In(jobs') : ~Selects(x)
            <4>1. In(jobs') = {j}
                BY Zenon, <3>4, PlainJob
            <4>. QED
                BY Zenon, <1>5, <4>1, JobsApart
        <3>. QED
            BY Zenon, <3>1, <3>2, <3>3, <3>4 DEF TaskStep, TaskFacts
    <2>2. Stage1(ex, jobs, conts, net) => Stage1(ex', jobs', conts', net')
        BY Zenon, <1>1, <2>1 DEF Stage1, KeepsAsked, NoSelect
    <2>3. Stage5(ex, jobs, conts, net) => Stage5(ex', jobs', conts', net')
        BY Zenon, <1>1, <2>1 DEF Stage5, KeepsAsked
    <2>. QED
        BY Zenon, <1>3, <2>2, <2>3, StageIs
<1>6. CASE LoadedJob \in In(jobs')
    <2>1. AskedIn(net) /\ (AskedOnceIn(net) => ~AskedIn(net'))
        BY <1>4, <1>6
    <2>2. Stage1(ex, jobs, conts, net)
        BY Zenon, <1>3, <2>1 DEF Stage5
    <2>3. jobs' = <<LoadedJob>>
        <3>1. jobs' # <<Render(TRUE)>> /\ jobs' # <<>>
            BY Zenon, <1>6, NoLoading
        <3>2. PICK j : jobs' = <<j>>
            BY Zenon, <3>1 DEF TaskStep
        <3>3. In(jobs') = {j}
            BY Zenon, <3>2, PlainJob
        <3>4. j = LoadedJob
            BY Zenon, <1>6, <3>3
        <3>. QED
            BY <3>2, <3>4
    <2>4. Stage2(ex', jobs', conts', net')
        BY Zenon, <1>1, <2>1, <2>2, <2>3 DEF Stage1, Stage2
    <2>. QED
        BY Zenon, <2>4, StageIs
<1>. QED
    BY <1>5, <1>6

(* What Redirect and Show have in common. *)
Asks(j) == j \in Renders \/ j \in PageJobs
Fetched(j) == Checks /\ ~Moves /\ j \in In(Sets(url, ex)) /\ j \in HeaderJobs

RenderStep ==
    /\ Typing /\ Stage /\ Rendering /\ Rendered(mounted')
    /\ who' = who /\ ex' = ex /\ con' = con /\ conts' = conts
    /\ ~AskedIn(net) => ~AskedIn(net)'
    /\ AskedOnceIn(net) => AskedOnceIn(net)'
    /\ In(jobs) = {Head(jobs)} \cup In(Tail(jobs)) /\ Head(jobs) \in Renders
    /\ In(Tail(jobs)) \subseteq In(jobs')
    /\ \A j \in In(jobs') : j \in In(Tail(jobs)) \/ Asks(j) \/ Fetched(j)
    /\ Once(jobs) /\ ~Checks => Once(jobs')

LEMMA AsksNothing == \A j : Asks(j) => ~Selects(j) /\ j \notin TaskJobs /\ j \in Jobs
BY Zenon, JobsApart DEF Asks

LEMMA RenderingOnce ==
    ASSUME Typing, Rendering, Once(jobs)
    PROVE  Once(Tail(jobs))
BY Zenon, RenderingHead, OnceTail

LEMMA RedirectIs ==
    ASSUME Typing, Stage, Redirect
    PROVE  RenderStep /\ url.page \notin Headers(who) /\ url' \in URLs /\ Render(TRUE) \in In(jobs')
<1>. DEFINE t == Tail(jobs)
            l == LeaveSets(Blank)
            f == <<Render(TRUE)>>
<1>1. /\ Rendered(Blank) /\ url' \in URLs /\ jobs' = (f \o t) \o l
      /\ f \o t \in Seq(Jobs) /\ l \in Seq(Jobs) /\ In(jobs') = {Render(TRUE)} \cup In(t) \cup In(l)
      /\ \A j \in In(l) : j = ClearJob
    BY Zenon, RedirectShape
<1>2. /\ Head(jobs) \in Renders /\ t \in Seq(Jobs) /\ In(jobs) = {Head(jobs)} \cup In(t) /\ Rendering
    BY Zenon, RenderingHead DEF Redirect
<1>3. Blank \in {Blank} \cup (Routes(who) \ {"home"})
    BY Zenon
<1>4. /\ who' = who /\ ex' = ex /\ con' = con /\ conts' = conts /\ mounted' = Blank
      /\ ~AskedIn(net) => ~AskedIn(net)'
      /\ AskedOnceIn(net) => AskedOnceIn(net)'
    BY Zenon, <1>1, <1>3, RenderedTyping
<1>5. ClearJob \in PageJobs /\ Render(TRUE) \in Renders /\ Render(TRUE) \in Jobs
    BY Zenon, RenderParts, JobsApart DEF PageJobs
<1>6. \A j \in In(jobs') : j \in In(t) \/ Asks(j)
    BY Zenon, <1>1, <1>5 DEF Asks
<1>7. f \in Seq(Jobs) /\ In(f) = {Render(TRUE)}
    BY Zenon, <1>5, Single
<1>. HIDE DEF t, l, f
<1>8. ASSUME Once(jobs) PROVE Once(jobs')
    <2>1. Once(t)
        BY Zenon, <1>2, <1>8, RenderingOnce DEF t
    <2>2. NoSelect(f) /\ NoSelect(l)
        BY Zenon, <1>1, <1>5, <1>7, JobsApart DEF NoSelect
    <2>3. Once(f \o t)
        BY Zenon, <1>2, <1>7, <2>1, <2>2, OnceRight
    <2>4. Once((f \o t) \o l)
        BY Zenon, <1>1, <2>2, <2>3, OnceLeft
    <2>. QED
        BY Zenon, <1>1, <2>4
<1>9. url.page \notin Headers(who)
    BY Zenon DEF Redirect, Headers
<1>10. In(t) \subseteq In(jobs') /\ Render(TRUE) \in In(jobs')
    BY Zenon, <1>1
<1>. QED
    BY Zenon, <1>1, <1>2, <1>4, <1>6, <1>8, <1>9, <1>10 DEF RenderStep, t

LEMMA ShowStep ==
    ASSUME Typing, Stage, Show
    PROVE  /\ RenderStep /\ url' \in URLs /\ url'.page = url.page /\ mounted' = url.page
           /\ url.page \in Routes(who) \ {"home"}
           /\ Checks => Going(ex)
           /\ Moves => Render(TRUE) \in In(jobs') /\ url' = NewPath(url, ex)
           /\ ~Moves => url' = url
           /\ Checks /\ ~Moves => \A j \in In(Sets(url, ex)) : j \in In(jobs')
           /\ \A j \in In(PageSets(url.page)) : j \in In(jobs')
           /\ \A j \in In(jobs') : j \in PageJobs =>
                j \in In(Tail(jobs)) \/ j = ClearJob \/ j \in In(PageSets(url.page))
<1>. DEFINE t == Tail(jobs)
            l == LeaveSets(url.page)
            g == PageSets(url.page)
            f == ShowFirst
            m == ShowSets
<1>1. /\ f \in Seq(Jobs) /\ t \in Seq(Jobs) /\ l \in Seq(Jobs) /\ m \in Seq(Jobs) /\ g \in Seq(Jobs)
      /\ f \o t \in Seq(Jobs) /\ (f \o t) \o l \in Seq(Jobs) /\ ((f \o t) \o l) \o m \in Seq(Jobs)
      /\ In(jobs') = In(f) \cup In(t) \cup In(l) \cup In(m) \cup In(g)
      /\ \A j \in In(l) : j = ClearJob
    BY Zenon, ShowParts
<1>2. /\ Checks => Going(ex)
      /\ Moves => In(f) = {Render(TRUE)} /\ m = <<>> /\ In(m) = {}
      /\ ~Moves => f = <<>> /\ In(f) = {}
      /\ Checks /\ ~Moves => m = Sets(url, ex)
      /\ ~Checks => m = <<>> /\ In(m) = {}
      /\ \A j \in In(m) : j \in HeaderJobs
      /\ \A j \in In(g) : j \in PageJobs
      /\ url' \in URLs /\ url'.page = url.page
    BY Zenon, ShowParts
<1>3. /\ jobs' = (((f \o t) \o l) \o m) \o g
      /\ url.page \in Routes(who) \ {"home"} /\ Rendered(url.page)
      /\ url' = IF Moves THEN NewPath(url, ex) ELSE url
    BY Zenon, ShowIs
<1>. HIDE DEF t, l, g, f, m
<1>4. /\ Head(jobs) \in Renders /\ t \in Seq(Jobs) /\ In(jobs) = {Head(jobs)} \cup In(t) /\ Rendering
    BY Zenon, <1>3, RenderingHead DEF Rendered, t
<1>5. /\ who' = who /\ ex' = ex /\ con' = con /\ conts' = conts /\ mounted' = url.page
      /\ ~AskedIn(net) => ~AskedIn(net)'
      /\ AskedOnceIn(net) => AskedOnceIn(net)'
    <2>1. url.page \in {Blank} \cup (Routes(who) \ {"home"})
        BY Zenon, <1>3
    <2>. QED
        BY Zenon, <1>3, <2>1, RenderedTyping
<1>6. ClearJob \in PageJobs /\ Render(TRUE) \in Renders
    BY Zenon, RenderParts DEF PageJobs
<1>7. \A j \in In(m) : Fetched(j)
    BY Zenon, <1>2 DEF Fetched
<1>8. \A j \in In(f) : j = Render(TRUE)
    BY Zenon, <1>2
<1>9. \A j \in In(jobs') : j \in In(t) \/ Asks(j) \/ Fetched(j)
    BY Zenon, <1>1, <1>2, <1>6, <1>7, <1>8 DEF Asks
<1>10. ASSUME Once(jobs), ~Checks PROVE Once(jobs')
    <2>1. Once(t)
        BY Zenon, <1>4, <1>10, RenderingOnce DEF t
    <2>2. NoSelect(f) /\ NoSelect(l) /\ NoSelect(m) /\ NoSelect(g)
        BY Zenon, <1>1, <1>2, <1>6, <1>8, <1>10, JobsApart DEF NoSelect
    <2>3. Once(f \o t)
        BY Zenon, <1>1, <2>1, <2>2, OnceRight
    <2>4. Once((f \o t) \o l)
        BY Zenon, <1>1, <2>2, <2>3, OnceLeft
    <2>5. Once(((f \o t) \o l) \o m)
        BY Zenon, <1>1, <2>2, <2>4, OnceLeft
    <2>6. Once((((f \o t) \o l) \o m) \o g)
        BY Zenon, <1>1, <2>2, <2>5, OnceLeft
    <2>. QED
        BY Zenon, <1>3, <2>6
<1>11. In(t) \subseteq In(jobs')
    BY Zenon, <1>1
<1>12. RenderStep
    BY Zenon, <1>3, <1>4, <1>5, <1>9, <1>10, <1>11 DEF RenderStep, t
<1>13. \A j \in In(jobs') : j \in PageJobs => j \in In(t) \/ j = ClearJob \/ j \in In(g)
    <2>1. \A j \in PageJobs : j \notin Renders /\ j \notin HeaderJobs
        BY Zenon, JobsApart
    <2>. QED
        BY Zenon, <1>1, <1>2, <1>6, <1>8, <2>1
<1>14. /\ Moves => Render(TRUE) \in In(jobs') /\ url' = NewPath(url, ex)
       /\ ~Moves => url' = url
       /\ Checks /\ ~Moves => \A j \in In(Sets(url, ex)) : j \in In(jobs')
       /\ \A j \in In(g) : j \in In(jobs')
    BY Zenon, <1>1, <1>2, <1>3
<1>. QED
    BY Zenon, <1>2, <1>3, <1>5, <1>12, <1>13, <1>14 DEF t, g

LEMMA RenderStage ==
    ASSUME RenderStep
    PROVE  Stage'
<1>. DEFINE t == Tail(jobs)
<1>1. /\ Typing /\ Stage /\ Rendering /\ ex' = ex /\ conts' = conts
      /\ ~AskedIn(net) => ~AskedIn(net')
      /\ AskedOnceIn(net) => AskedOnceIn(net')
      /\ In(jobs) = {Head(jobs)} \cup In(t) /\ Head(jobs) \in Renders
      /\ In(t) \subseteq In(jobs')
      /\ \A j \in In(jobs') : j \in In(t) \/ Asks(j) \/ Fetched(j)
      /\ Once(jobs) /\ ~Checks => Once(jobs')
    BY Zenon DEF RenderStep
<1>2. ex \in Selections
    BY Zenon, <1>1 DEF Typing, SelectionTyped
<1>3. Checks => Going(ex)
    BY Zenon, <1>1, <1>2, ReadyMeans DEF Checks
<1>4. \A j \in In(jobs') : Selects(j) => j \in In(t) \/ (Going(ex) /\ j \in HeaderJobs)
    BY Zenon, <1>1, <1>3, AsksNothing DEF Fetched
<1>. HIDE DEF t
<1>5. ~Going(ex) => \A j \in In(jobs') : Selects(j) => j \in In(jobs)
    BY Zenon, <1>1, <1>4
<1>6. ~Stage2(ex, jobs, conts, net)
    <2>1. LoadedJob \notin Renders
        BY Zenon, JobsApart
    <2>2. jobs = <<LoadedJob>> => Head(jobs) = LoadedJob
        OBVIOUS
    <2>. QED
        BY Zenon, <1>1, <2>1, <2>2 DEF Stage2
<1>7. Stage1(ex, jobs, conts, net) => Stage1(ex', jobs', conts', net')
    BY Zenon, <1>1, <1>5, NotReady DEF Stage1, NoSelect
<1>8. Stage3(ex, jobs, conts, net) => Stage3(ex', jobs', conts', net')
    BY Zenon, <1>1, <1>5, NotReady DEF Stage3, NoSelect
<1>9. ASSUME Stage4(ex, jobs, conts, net) PROVE Stage4(ex', jobs', conts', net')
    <2>1. ~Going(ex) /\ ~Checks
        BY Zenon, <1>3, <1>9, NotReady DEF Stage4
    <2>2. FirstJob \in In(jobs')
        <3>1. FirstJob # Head(jobs)
            BY Zenon, <1>1, JobsApart
        <3>. QED
            BY Zenon, <1>1, <1>9, <3>1 DEF Stage4
    <2>. QED
        BY Zenon, <1>1, <1>5, <1>9, <2>1, <2>2 DEF Stage4
<1>10. Stage5(ex, jobs, conts, net) => Stage5(ex', jobs', conts', net')
    BY Zenon, <1>1, <1>4 DEF Stage5
<1>. QED
    BY Zenon, <1>1, <1>6, <1>7, <1>8, <1>9, <1>10, StageIs

(* Stages: microtasks. *)
LEMMA AppendBehind ==
    ASSUME NEW S, NEW s \in Seq(S), s # <<>>, NEW x \in S
    PROVE  /\ Append(s, x) # <<>> /\ Head(Append(s, x)) = Head(s)
           /\ In(Tail(Append(s, x))) = In(Tail(s)) \cup {x}
<1>1. Append(s, x) # <<>> /\ Head(Append(s, x)) = Head(s) /\ Tail(Append(s, x)) = Append(Tail(s), x)
    OBVIOUS
<1>2. Tail(s) \in Seq(S)
    OBVIOUS
<1>. DEFINE t == Tail(s)
<1>4. t \in Seq(S)
    BY <1>2
<1>. HIDE DEF t
<1>3. In(Append(t, x)) = In(t) \cup {x}
    BY SMT, <1>4, InAppend
<1>. QED
    BY Zenon, <1>1, <1>3 DEF t

LEMMA HeaderThenKinds ==
    ASSUME NEW j \in HeaderJobs
    PROVE  /\ j.then = NoThen \/ j.then.k \in {"selection", "symbol"}
           /\ j \in SymbolJobs => j.then = NoThen
           /\ j \in ExchangeJobs => j.then = NoThen \/ j.then.k = "symbol"
<1>1. j \in IntervalJobs => j.then.k = "selection" /\ "interval" \in DOMAIN j.patch
    <2>. SUFFICES ASSUME j \in IntervalJobs PROVE j.then.k = "selection" /\ "interval" \in DOMAIN j.patch
        OBVIOUS
    <2>1. j.then \in [k : {"selection"}, url : URLs] /\ j.patch = [interval |-> j.patch.interval]
        BY IntervalJobParts
    <2>. QED
        BY <2>1
<1>2. j \in ExchangeJobs => j.then = NoThen \/ j.then.k = "symbol"
    BY ExchangeJobParts
<1>3. j \in SymbolJobs => j.then = NoThen
    BY SymbolJobParts
<1>. QED
    BY <1>1, <1>2, <1>3 DEF HeaderJobs

LEMMA HeaderApplied ==
    ASSUME NEW s \in Selections, Going(s), NEW j \in HeaderJobs
    PROVE  Going(Patched(s, j.patch)) /\ Patched(s, j.patch) \in Selections
<1>. DEFINE t == Patched(s, j.patch)
<1>1. CASE j \in IntervalJobs
    <2>1. t \in Selections /\ SameButInterval(t, s)
        BY <1>1, IntervalApplied
    <2>. QED
        BY <2>1 DEF SameButInterval, Going
<1>2. CASE j \in ExchangeJobs
    <2>1. /\ t \in Selections /\ t.exchanges = s.exchanges
          /\ t.symbols = ListOf(t.selectedExchange)
          /\ t.exchangeName = NameOf(t.selectedExchange)
          /\ t.currencyCodePair \in AllCodes \cup {AllCode}
        BY <1>2, ExchangeApplied
    <2>. HIDE DEF t
    <2>2. Going(t)
        BY <2>1 DEF Going
    <2>. QED
        BY <2>1, <2>2 DEF t
<1>3. CASE j \in SymbolJobs
    <2>1. /\ t \in Selections /\ t.exchanges = s.exchanges
          /\ t.symbols = s.symbols /\ t.exchangeName = s.exchangeName
          /\ t.selectedExchange = s.selectedExchange
          /\ t.currencyCodePair \in AllCodes \cup {AllCode}
        BY <1>3, SymbolApplied
    <2>. HIDE DEF t
    <2>2. Going(t)
        BY <2>1 DEF Going
    <2>. QED
        BY <2>1, <2>2 DEF t
<1>. QED
    BY <1>1, <1>2, <1>3 DEF HeaderJobs

(* A setState of a page.                                                     *)
OtherApply ==
    LET j == Head(jobs)
        t == Tail(jobs)
    IN  /\ Typing /\ jobs # <<>> /\ jobs \in Seq(Jobs) /\ t \in Seq(Jobs) /\ In(jobs) = {j} \cup In(t)
        /\ j \in Jobs /\ j.k = "set" /\ j.container # "exchange" /\ ~Selects(j)
        /\ who' = who /\ url' = url /\ ex' = ex /\ mounted' = mounted /\ editor' = editor
        /\ net' = net /\ gaveUp' = gaveUp /\ strayed' = strayed
        /\ j.container \in Loaders /\ con' = [con EXCEPT ![j.container] = Patched(@, j.patch)]
        /\ In(t) \subseteq In(jobs') /\ \A x \in In(jobs') : x \in In(t) \/ x = Render(FALSE)
        /\ mounted = j.container => Render(FALSE) \in In(jobs') /\ Head(jobs') = Render(FALSE) /\ jobs' # <<>>
        /\ jobs' = t \/ jobs' = <<Render(FALSE)>> \o t
        /\ \/ j.then = NoThen /\ conts' = conts
           \/ j.then \in AskConts /\ j.then.k = "ask" /\ conts' = Append(conts, j.then)
        /\ In(conts') = In(conts) \/ In(conts') = In(conts) \cup {j.then}

SelectApply ==
    LET j == Head(jobs)
        t == Tail(jobs)
    IN  /\ Typing /\ jobs # <<>> /\ jobs \in Seq(Jobs) /\ t \in Seq(Jobs) /\ In(jobs) = {j} \cup In(t)
        /\ j \in SelectJobs /\ Selects(j)
        /\ who' = who /\ url' = url /\ mounted' = mounted /\ editor' = editor /\ con' = con
        /\ net' = net /\ gaveUp' = gaveUp /\ strayed' = strayed
        /\ ex' = Patched(ex, j.patch)
        /\ In(jobs') = {Render(TRUE)} \cup In(t) /\ Head(jobs') = Render(TRUE) /\ jobs' # <<>>
        /\ jobs' = <<Render(TRUE)>> \o t
        /\ j.then = NoThen => conts' = conts
        /\ j.then # NoThen => conts' = Append(conts, j.then) /\ In(conts') = In(conts) \cup {j.then}

LEMMA ApplySame ==
    ASSUME Typing, Apply
    PROVE  /\ who' = who /\ url' = url /\ mounted' = mounted /\ editor' = editor
           /\ net' = net /\ gaveUp' = gaveUp /\ strayed' = strayed
           /\ item' = item
BY Zenon, ApplyParts DEF netVars, ghosts

LEMMA ApplyKinds ==
    ASSUME Typing, Apply
    PROVE  OtherApply \/ SelectApply
<1>. DEFINE j == Head(jobs)
            t == Tail(jobs)
<1>1. /\ jobs # <<>> /\ jobs \in Seq(Jobs) /\ j \in Jobs /\ j.k = "set"
      /\ t \in Seq(Jobs) /\ In(jobs) = {j} \cup In(t)
    BY Zenon, ApplyParts
<1>2. CASE j.container = "exchange"
    <2>1. j \in SelectJobs
        BY <1>1, <1>2, JobContainer, JobsOfAre
    <2>2. /\ ex' = Patched(ex, j.patch) /\ con' = con
          /\ In(jobs') = {Render(TRUE)} \cup In(t) /\ Head(jobs') = Render(TRUE) /\ jobs' # <<>>
          /\ jobs' = <<Render(TRUE)>> \o t
          /\ j.then = NoThen => conts' = conts
          /\ j.then # NoThen => conts' = Append(conts, j.then) /\ In(conts') = In(conts) \cup {j.then}
        BY Zenon, <1>2, ApplyParts
    <2>3. Selects(j)
        BY Zenon, <1>1, <1>2 DEF Selects
    <2>. QED
        BY Zenon, <1>1, <2>1, <2>2, <2>3, ApplySame DEF SelectApply
<1>3. CASE j.container # "exchange"
    <2>1. /\ ex' = ex /\ con' = [con EXCEPT ![j.container] = Patched(@, j.patch)]
          /\ mounted = j.container =>
               /\ jobs' = <<Render(FALSE)>> \o t
               /\ In(jobs') = {Render(FALSE)} \cup In(t) /\ Head(jobs') = Render(FALSE)
               /\ jobs' # <<>>
          /\ mounted # j.container => jobs' = t
          /\ j.then = NoThen => conts' = conts
          /\ j.then # NoThen => conts' = Append(conts, j.then) /\ In(conts') = In(conts) \cup {j.then}
        BY Zenon, <1>3, ApplyParts
    <2>2. ~Selects(j)
        BY Zenon, <1>3 DEF Selects
    <2>3. j.container \in Loaders
        BY Zenon, <1>1, <1>3, JobContainer, LoaderNames
    <2>4. j.then \in AskConts \cup {NoThen}
        BY Zenon, <1>1, <1>3, ThenType
    <2>5. j.then \in AskConts => j.then.k = "ask"
        BY Zenon, AskContParts
    <2>6. In(t) \subseteq In(jobs') /\ \A x \in In(jobs') : x \in In(t) \/ x = Render(FALSE)
        BY Zenon, <2>1
    <2>. HIDE DEF j, t
    <2>7. \/ j.then = NoThen /\ conts' = conts
          \/ j.then \in AskConts /\ j.then.k = "ask" /\ conts' = Append(conts, j.then)
        BY Zenon, <2>1, <2>4, <2>5
    <2>8. In(conts') = In(conts) \/ In(conts') = In(conts) \cup {j.then}
        BY Zenon, <2>1
    <2>9. /\ mounted = j.container => Render(FALSE) \in In(jobs') /\ Head(jobs') = Render(FALSE) /\ jobs' # <<>>
          /\ jobs' = t \/ jobs' = <<Render(FALSE)>> \o t
        BY Zenon, <2>1
    <2>. QED
        BY Zenon, <1>1, <1>3, <2>1, <2>2, <2>3, <2>6, <2>7, <2>8, <2>9, ApplySame DEF OtherApply, j, t
<1>. QED
    BY <1>2, <1>3

LEMMA OtherApplyStage ==
    ASSUME OtherApply, Stage
    PROVE  Stage'
<1>. DEFINE j == Head(jobs)
            t == Tail(jobs)
<1>1. /\ Typing /\ jobs # <<>> /\ jobs \in Seq(Jobs) /\ t \in Seq(Jobs) /\ In(jobs) = {j} \cup In(t)
      /\ ~Selects(j) /\ ex' = ex /\ net' = net
      /\ In(t) \subseteq In(jobs') /\ \A x \in In(jobs') : x \in In(t) \/ x = Render(FALSE)
      /\ jobs' = t \/ jobs' = <<Render(FALSE)>> \o t
      /\ conts' = conts \/ (j.then \in AskConts /\ j.then.k = "ask" /\ conts' = Append(conts, j.then))
    BY Zenon DEF OtherApply
<1>2. conts \in Seq(Conts) /\ AskConts \subseteq Conts
    BY Zenon, <1>1 DEF Typing, QueueTyped, Conts
<1>. HIDE DEF j, t
<1>3. Render(FALSE) \in Jobs /\ ~Selects(Render(FALSE)) /\ Render(FALSE) \in Renders
    BY Zenon, RenderParts, JobsApart
<1>4. \A x \in In(jobs') : Selects(x) => x \in In(jobs)
    BY Zenon, <1>1, <1>3
<1>5. In(conts') = In(conts) \/ (In(conts') = In(conts) \cup {j.then} /\ j.then.k = "ask")
    <2>1. conts' = conts => In(conts') = In(conts)
        BY Zenon
    <2>2. ASSUME j.then \in Conts PROVE In(Append(conts, j.then)) = In(conts) \cup {j.then}
        <3>. DEFINE x == j.then
        <3>1. x \in Conts /\ conts \in Seq(Conts)
            BY <1>2, <2>2
        <3>. HIDE DEF x
        <3>2. In(Append(conts, x)) = In(conts) \cup {x}
            BY SMT, <3>1, InAppend
        <3>. QED
            BY <3>2 DEF x
    <2>. QED
        BY Zenon, <1>1, <1>2, <2>1, <2>2
<1>6. OnlyAsks(conts) => OnlyAsks(conts')
    BY Zenon, <1>5 DEF OnlyAsks
<1>7. Stage1(ex, jobs, conts, net) => Stage1(ex', jobs', conts', net')
    BY Zenon, <1>1, <1>4, <1>6 DEF Stage1, NoSelect
<1>8. ~Stage2(ex, jobs, conts, net)
    <2>1. jobs = <<LoadedJob>> => j = LoadedJob
        BY DEF j
    <2>. QED
        BY Zenon, <1>1, <2>1, JobsApart DEF Stage2
<1>9. ASSUME Stage3(ex, jobs, conts, net) PROVE Stage3(ex', jobs', conts', net')
    <2>1. conts # <<>> /\ Head(conts).k = "selected" /\ OnlyAsks(Tail(conts))
        BY Zenon, <1>9 DEF Stage3
    <2>2. conts' # <<>> /\ Head(conts').k = "selected" /\ OnlyAsks(Tail(conts'))
        <3>1. CASE conts' = conts
            BY Zenon, <2>1, <3>1
        <3>2. CASE j.then \in Conts /\ j.then.k = "ask" /\ conts' = Append(conts, j.then)
            <4>1. /\ conts' # <<>> /\ Head(conts') = Head(conts)
                  /\ In(Tail(conts')) = In(Tail(conts)) \cup {j.then}
                BY ZenonT(40), <1>2, <2>1, <3>2, AppendBehind
            <4>. QED
                BY Zenon, <2>1, <3>2, <4>1 DEF OnlyAsks
        <3>. QED
            BY Zenon, <1>1, <1>2, <3>1, <3>2
    <2>. QED
        BY Zenon, <1>1, <1>4, <1>9, <2>2 DEF Stage3, NoSelect
<1>10. ASSUME Stage4(ex, jobs, conts, net) PROVE Stage4(ex', jobs', conts', net')
    <2>1. Once(jobs')
        <3>1. Once(t)
            BY Zenon, <1>1, <1>10, OnceTail DEF Stage4, t
        <3>. DEFINE f == <<Render(FALSE)>>
        <3>2. f \in Seq(Jobs) /\ In(f) = {Render(FALSE)}
            BY Zenon, <1>3, Single
        <3>. HIDE DEF f
        <3>3. NoSelect(f)
            BY Zenon, <1>3, <3>2 DEF NoSelect
        <3>4. Once(f \o t)
            BY Zenon, <1>1, <3>1, <3>2, <3>3, OnceRight
        <3>. QED
            BY Zenon, <1>1, <3>1, <3>4 DEF f
    <2>2. FirstJob \in In(jobs')
        BY Zenon, <1>1, <1>10, JobsApart DEF Stage4
    <2>. QED
        BY Zenon, <1>1, <1>4, <1>6, <1>10, <2>1, <2>2 DEF Stage4
<1>11. ASSUME Stage5(ex, jobs, conts, net) PROVE Stage5(ex', jobs', conts', net')
    <2>1. "ask" # "selected"
        OBVIOUS
    <2>2. \A x \in In(conts') : x.k # "selected"
        BY Zenon, <1>5, <1>11, <2>1 DEF Stage5
    <2>. QED
        BY Zenon, <1>1, <1>4, <1>11, <2>2 DEF Stage5
<1>. QED
    BY Zenon, <1>7, <1>8, <1>9, <1>10, <1>11, StageIs

LEMMA SelectApplyStage ==
    ASSUME SelectApply, Stage
    PROVE  /\ Stage'
           /\ \/ ex = emptySelection /\ ~Going(ex') /\ Tail(jobs) = <<>>
              \/ Head(jobs) = FirstJob /\ Going(ex') /\ Initial(ex') /\ ~Going(ex) /\ OnlyAsks(conts')
                   /\ NoSelect(Tail(jobs))
              \/ Head(jobs) \in HeaderJobs /\ Going(ex) /\ Going(ex')
<1>. DEFINE j == Head(jobs)
            t == Tail(jobs)
<1>1. /\ Typing /\ jobs # <<>> /\ jobs \in Seq(Jobs) /\ t \in Seq(Jobs) /\ In(jobs) = {j} \cup In(t)
      /\ j \in SelectJobs /\ Selects(j) /\ net' = net /\ ex' = Patched(ex, j.patch)
      /\ In(jobs') = {Render(TRUE)} \cup In(t)
      /\ jobs' = <<Render(TRUE)>> \o t
      /\ j.then = NoThen => conts' = conts
      /\ j.then # NoThen => conts' = Append(conts, j.then) /\ In(conts') = In(conts) \cup {j.then}
    BY Zenon DEF SelectApply
<1>2. ex \in Selections
    BY Zenon, <1>1 DEF Typing, SelectionTyped
<1>3. ~Selects(Render(TRUE)) /\ Render(TRUE) \in Renders
    BY Zenon, RenderParts, JobsApart
<1>. HIDE DEF j, t
<1>4. ~Stage1(ex, jobs, conts, net) /\ ~Stage3(ex, jobs, conts, net)
    BY Zenon, <1>1 DEF Stage1, Stage3, NoSelect
<1>5. ASSUME Stage2(ex, jobs, conts, net)
      PROVE  Stage3(ex', jobs', conts', net') /\ ex = emptySelection /\ ~Going(ex') /\ t = <<>>
    <2>1. ex = emptySelection /\ jobs = <<LoadedJob>> /\ conts = <<>> /\ ~AskedIn(net)
        BY Zenon, <1>5 DEF Stage2
    <2>2. j = LoadedJob /\ t = <<>>
        BY <2>1 DEF j, t
    <2>3. LoadedJob.patch = Loaded /\ LoadedJob.then = [k |-> "selected"] /\ LoadedJob.then # NoThen
        BY SetParts DEF LoadedJob, NoThen
    <2>4. ex' = Started
        BY Zenon, <1>1, <2>1, <2>2, <2>3 DEF Started
    <2>5. conts' = Append(<<>>, [k |-> "selected"])
        BY Zenon, <1>1, <2>1, <2>2, <2>3
    <2>6. conts' # <<>> /\ Head(conts').k = "selected" /\ Tail(conts') = <<>>
        BY <2>5
    <2>7. OnlyAsks(Tail(conts')) /\ In(t) = {}
        BY Zenon, <2>2, <2>6, Nothing DEF OnlyAsks
    <2>8. NoSelect(jobs')
        BY Zenon, <1>1, <1>3, <2>7 DEF NoSelect
    <2>. QED
        BY Zenon, <1>1, <2>1, <2>2, <2>4, <2>6, <2>7, <2>8, NotReady DEF Stage3
<1>6. ASSUME Stage4(ex, jobs, conts, net)
      PROVE  /\ Stage5(ex', jobs', conts', net') /\ j = FirstJob /\ Going(ex') /\ Initial(ex') /\ ~Going(ex)
             /\ OnlyAsks(conts') /\ NoSelect(t)
    <2>1. j = FirstJob /\ ex = Started /\ OnlyAsks(conts) /\ Once(jobs) /\ ~AskedIn(net)
        BY Zenon, <1>1, <1>6 DEF Stage4
    <2>2. FirstJob.patch = updateSelected(Started) /\ FirstJob.then = NoThen
        BY SetParts DEF FirstJob
    <2>3. Going(ex') /\ Initial(ex')
        BY Zenon, <1>1, <1>2, <2>1, <2>2, FirstApplied
    <2>4. conts' = conts
        BY Zenon, <1>1, <2>1, <2>2
    <2>5. NoSelect(t)
        BY Zenon, <1>1, <2>1, OnceTail DEF t, j
    <2>6. "ask" # "selected"
        OBVIOUS
    <2>7. \A x \in In(conts') : x.k # "selected"
        BY Zenon, <2>1, <2>4, <2>6 DEF OnlyAsks
    <2>8. \A x \in In(jobs') : ~Selects(x)
        BY Zenon, <1>1, <1>3, <2>5 DEF NoSelect
    <2>. QED
        BY Zenon, <1>1, <2>1, <2>3, <2>4, <2>5, <2>7, <2>8, NotReady DEF Stage5
<1>7. ASSUME Stage5(ex, jobs, conts, net)
      PROVE  Stage5(ex', jobs', conts', net') /\ j \in HeaderJobs /\ Going(ex) /\ Going(ex')
    <2>1. j \in HeaderJobs /\ Going(ex) /\ ~AskedIn(net) /\ \A x \in In(conts) : x.k # "selected"
        BY Zenon, <1>1, <1>7 DEF Stage5
    <2>2. Going(ex')
        BY Zenon, <1>1, <1>2, <2>1, HeaderApplied
    <2>3. j.then # NoThen => j.then.k # "selected"
        BY <2>1, HeaderThenKinds
    <2>4. \A x \in In(conts') : x.k # "selected"
        BY Zenon, <1>1, <2>1, <2>3
    <2>5. \A x \in In(jobs') : Selects(x) => x \in HeaderJobs
        BY Zenon, <1>1, <1>3, <1>7 DEF Stage5
    <2>. QED
        BY Zenon, <1>1, <2>1, <2>2, <2>4, <2>5 DEF Stage5
<1>. QED
    BY Zenon, <1>4, <1>5, <1>6, <1>7, StageIs DEF j, t

(* What follows an await: a request, or more patches. *)
ContinueStep ==
    /\ Typing /\ Stage /\ conts # <<>> /\ ~Rendering /\ Head(conts) \in Conts /\ Head(conts) \in In(conts)
    /\ In(conts) = {Head(conts)} \cup In(Tail(conts)) /\ conts' = Tail(conts)
    /\ who' = who /\ url' = url /\ ex' = ex /\ mounted' = mounted /\ con' = con /\ editor' = editor
    /\ item' = item /\ gaveUp' = gaveUp
    /\ jobs \in Seq(Jobs) /\ jobs' \in Seq(Jobs)

AskContinue ==
    /\ ContinueStep /\ Head(conts) \in AskConts /\ Head(conts).k = "ask"
    /\ Send(Head(conts).request) /\ jobs' = jobs

FirstContinue ==
    /\ ContinueStep /\ Head(conts).k = "selected" /\ ex = Started
    /\ net' = net /\ strayed' = strayed
    /\ jobs' = jobs \o <<FirstJob>> /\ In(jobs') = In(jobs) \cup {FirstJob}

MoreContinue ==
    LET c == Head(conts)
    IN  /\ ContinueStep /\ c.k \in {"selection", "symbol"} /\ Going(ex) /\ c.url \in URLs
        /\ net' = net /\ strayed' = strayed
        /\ ContSets(c) \in {SelectionSets(c.url, ex), SymbolSets(c.url, ex)}
        /\ ContSets(c) \in Seq(Jobs)
        /\ \A j \in In(ContSets(c)) : j \in ExchangeJobs \cup SymbolJobs
        /\ \A j \in In(ContSets(c)) : j \in SymbolJobs =>
             Valid(j, ex.symbols) \/ \E x \in In(ContSets(c)) : x \in ExchangeJobs
        /\ jobs' = jobs \o ContSets(c) /\ In(jobs') = In(jobs) \cup In(ContSets(c))

LEMMA ContinueKinds ==
    ASSUME Typing, Stage, Continue
    PROVE  AskContinue \/ FirstContinue \/ MoreContinue
<1>. DEFINE c == Head(conts)
            x == ContSets(c)
<1>1. /\ conts # <<>> /\ ~Rendering /\ c \in Conts /\ c \in In(conts)
      /\ In(conts) = {c} \cup In(Tail(conts)) /\ conts' = Tail(conts)
      /\ UNCHANGED <<who, url, entry, ex, pageVars, clicks, faults, gaveUp>>
      /\ jobs \in Seq(Jobs) /\ jobs' \in Seq(Jobs)
    BY Zenon, ContinueParts
<1>2. ContinueStep
    BY Zenon, <1>1 DEF ContinueStep, pageVars
<1>3. CASE c.k = "ask"
    BY Zenon, <1>2, <1>3, ContinueParts DEF AskContinue
<1>4. CASE c.k # "ask"
    <2>1. /\ jobs' = jobs \o x /\ UNCHANGED <<netVars, strayed>> /\ x \in Seq(Jobs)
          /\ In(jobs') = In(jobs) \cup In(x)
        BY Zenon, <1>4, ContinueParts
    <2>2. net' = net /\ strayed' = strayed
        BY Zenon, <2>1 DEF netVars
    <2>3. ex \in Selections
        BY Zenon DEF Typing, SelectionTyped
    <2>4. CASE c.k = "selected" /\ ex = Started /\ x = <<FirstJob>>
        <3>1. x = <<FirstJob>> /\ FirstJob \in Jobs
            BY Zenon, <2>4, JobsApart
        <3>. HIDE DEF x
        <3>2. In(x) = {FirstJob}
            BY Zenon, <3>1, Single
        <3>. QED
            BY Zenon, <1>2, <2>1, <2>2, <2>4, <3>2 DEF FirstContinue
    <2>5. CASE Going(ex) /\ c.url \in URLs /\ c.k = "selection" /\ x = SelectionSets(c.url, ex)
        <3>1. /\ \A j \in In(x) : j \in ExchangeJobs \cup SymbolJobs
              /\ \A j \in In(x) : j \in SymbolJobs => Valid(j, ex.symbols) \/ \E y \in In(x) : y \in ExchangeJobs
            BY Zenon, <2>3, <2>5, SelectionSetsAre
        <3>. QED
            BY Zenon, <1>2, <2>1, <2>2, <2>5, <3>1 DEF MoreContinue
    <2>6. CASE Going(ex) /\ c.url \in URLs /\ c.k = "symbol" /\ x = SymbolSets(c.url, ex)
        <3>1. x \in Seq(SymbolJobs) /\ \A j \in In(x) : Valid(j, ex.symbols)
            BY Zenon, <2>3, <2>6, SymbolSetsAre
        <3>2. \A j \in In(x) : j \in SymbolJobs
            BY Zenon, <3>1, InElements
        <3>. QED
            BY Zenon, <1>2, <2>1, <2>2, <2>6, <3>1, <3>2 DEF MoreContinue
    <2>. QED
        BY Zenon, <1>4, <2>4, <2>5, <2>6, ContSetsAre
<1>. QED
    BY <1>3, <1>4

LEMMA ContinueStage ==
    ASSUME AskContinue \/ FirstContinue \/ MoreContinue
    PROVE  Stage'
<1>1. /\ Typing /\ Stage /\ conts # <<>> /\ In(conts) = {Head(conts)} \cup In(Tail(conts))
      /\ conts' = Tail(conts) /\ ex' = ex /\ jobs \in Seq(Jobs)
    BY Zenon DEF AskContinue, FirstContinue, MoreContinue, ContinueStep
<1>2. ~Stage2(ex, jobs, conts, net)
    BY Zenon, <1>1 DEF Stage2
<1>3. CASE AskContinue
    <2>1. Head(conts) \in AskConts /\ Head(conts).k = "ask" /\ Send(Head(conts).request) /\ jobs' = jobs
        BY Zenon, <1>3 DEF AskContinue
    <2>. DEFINE r == Head(conts).request
    <2>2. r.name # "supportedExchanges" /\ net' = Sent(net, r)
        BY Zenon, <2>1, ContPending DEF Send
    <2>. HIDE DEF r
    <2>3. /\ ~AskedIn(net) => ~AskedIn(net')
          /\ AskedOnceIn(net) => AskedOnceIn(net')
        BY Zenon, <2>2, SentAsked
    <2>4. OnlyAsks(conts) => OnlyAsks(conts')
        BY Zenon, <1>1 DEF OnlyAsks
    <2>5. ~Stage3(ex, jobs, conts, net)
        BY <2>1 DEF Stage3
    <2>6. /\ Stage1(ex, jobs, conts, net) => Stage1(ex', jobs', conts', net')
          /\ Stage4(ex, jobs, conts, net) => Stage4(ex', jobs', conts', net')
        BY Zenon, <1>1, <2>1, <2>3, <2>4 DEF Stage1, Stage4
    <2>7. Stage5(ex, jobs, conts, net) => Stage5(ex', jobs', conts', net')
        BY Zenon, <1>1, <2>1, <2>3 DEF Stage5
    <2>. QED
        BY Zenon, <1>1, <1>2, <2>5, <2>6, <2>7, StageIs
<1>4. CASE FirstContinue
    <2>1. /\ Head(conts).k = "selected" /\ ex = Started /\ net' = net
          /\ jobs' = jobs \o <<FirstJob>> /\ In(jobs') = In(jobs) \cup {FirstJob}
        BY Zenon, <1>4 DEF FirstContinue
    <2>2. Head(conts).k # "ask" /\ Head(conts) \in In(conts)
        BY <1>1, <2>1
    <2>3. ~Stage1(ex, jobs, conts, net) /\ ~Stage4(ex, jobs, conts, net)
        BY Zenon, <2>2 DEF Stage1, Stage4, OnlyAsks
    <2>4. ~Stage5(ex, jobs, conts, net)
        BY Zenon, <2>1, NotReady DEF Stage5
    <2>5. Stage3(ex, jobs, conts, net)
        BY Zenon, <1>1, <1>2, <2>3, <2>4, StageIs
    <2>6. Once(jobs')
        <3>. DEFINE q == <<FirstJob>>
        <3>1. q \in Seq(Jobs) /\ Once(q)
            BY Zenon, Single, OnceSingle, JobsApart
        <3>2. NoSelect(jobs)
            BY Zenon, <2>5 DEF Stage3
        <3>. HIDE DEF q
        <3>3. Once(jobs \o q)
            BY Zenon, <1>1, <3>1, <3>2, OnceRight
        <3>. QED
            BY Zenon, <2>1, <3>3 DEF q
    <2>7. Stage4(ex', jobs', conts', net')
        BY Zenon, <1>1, <2>1, <2>5, <2>6 DEF Stage3, Stage4, NoSelect
    <2>. QED
        BY Zenon, <2>7, StageIs
<1>5. CASE MoreContinue
    <2>. DEFINE x == ContSets(Head(conts))
    <2>1. /\ Going(ex) /\ net' = net /\ In(jobs') = In(jobs) \cup In(x)
          /\ \A j \in In(x) : j \in ExchangeJobs \cup SymbolJobs
        BY Zenon, <1>5 DEF MoreContinue
    <2>2. Stage5(ex, jobs, conts, net)
        BY Zenon, <1>1, <1>2, <2>1, StageIs, NotReady DEF Stage1, Stage3, Stage4
    <2>3. Stage5(ex', jobs', conts', net')
        BY Zenon, <1>1, <2>1, <2>2 DEF Stage5, HeaderJobs
    <2>. QED
        BY Zenon, <2>3, StageIs
<1>. QED
    BY <1>3, <1>4, <1>5

-----------------------------------------------------------------------------
(* The update of a user. *)

Owns(q, i) == \A r \in DOMAIN q : r.name = "update" => i = "submitting" /\ q[r] = 1

LEMMA OwnsIs == (UpdateIsOwn <=> Owns(net, item)) /\ (UpdateIsOwn' <=> Owns(net', item'))
BY Zenon DEF UpdateIsOwn, Owns

LEMMA UpdateRequest ==
    ASSUME NEW r, Pending(r), r.name = "update"
    PROVE  r = Request("update", NoArg)
<1>1. r.phase = "sent"
    BY RepeatedNames, RequestsAre DEF Pending
<1>2. r.arg = NoArg
    BY DEF Pending, Fits, Plain
<1>. QED
    BY <1>1, <1>2, RequestsAre DEF Pending, Request

LEMMA OwnsSent ==
    ASSUME NEW q, NEW i, Owns(q, i), NEW x, x.name # "update"
    PROVE  Owns(Sent(q, x), i)
<1>. SUFFICES ASSUME NEW r \in DOMAIN Sent(q, x), r.name = "update"
              PROVE  i = "submitting" /\ Sent(q, x)[r] = 1
    BY DEF Owns
<1>3. /\ DOMAIN Sent(q, x) = DOMAIN q \cup {x}
      /\ \A y \in DOMAIN q : y # x => Sent(q, x)[y] = q[y] + 0
    BY SentFacts
<1>1. r \in DOMAIN q /\ r # x /\ Sent(q, x)[r] = q[r] + 0
    BY Zenon, <1>3
<1>2. i = "submitting" /\ q[r] = 1
    BY Zenon, <1>1 DEF Owns
<1>. QED
    BY <1>1, <1>2

LEMMA OwnsGone ==
    ASSUME NEW q, NEW i, Owns(q, i), NEW x \in DOMAIN q
    PROVE  Owns(Gone(q, x), i)
<1>. SUFFICES ASSUME NEW r \in DOMAIN Gone(q, x), r.name = "update"
              PROVE  i = "submitting" /\ Gone(q, x)[r] = 1
    BY DEF Owns
<1>4. /\ DOMAIN Gone(q, x) \subseteq DOMAIN q
      /\ \A y \in DOMAIN q : y # x => y \in DOMAIN Gone(q, x) /\ Gone(q, x)[y] = q[y]
      /\ q[x] = 1 => DOMAIN Gone(q, x) = DOMAIN q \ {x}
    BY GoneFacts
<1>1. r \in DOMAIN q
    BY Zenon, <1>4
<1>2. i = "submitting" /\ q[r] = 1
    BY Zenon, <1>1 DEF Owns
<1>3. r # x
    BY Zenon, <1>2, <1>4
<1>. QED
    BY Zenon, <1>1, <1>2, <1>3, <1>4

LEMMA NothingToOwn ==
    ASSUME NEW q, NetTyped(q), Request("update", NoArg) \notin DOMAIN q, NEW i
    PROVE  Owns(q, i)
BY Zenon, UpdateRequest DEF Owns, NetTyped

LEMMA OwnsNoMore ==
    ASSUME NEW q, NetTyped(q), NEW i, Owns(q, i), NEW x \in DOMAIN q, x.name = "update", NEW k
    PROVE  Owns(Gone(q, x), k)
<1>1. NetTyped(Gone(q, x))
    BY Zenon, GoneTyped
<1>2. Pending(x) /\ q[x] = 1
    BY Zenon DEF NetTyped, Owns
<1>3. x = Request("update", NoArg)
    BY Zenon, <1>2, UpdateRequest
<1>4. x \notin DOMAIN Gone(q, x)
    <2>1. q[x] = 1 => DOMAIN Gone(q, x) = DOMAIN q \ {x}
        BY GoneFacts
    <2>. QED
        BY Zenon, <1>2, <2>1
<1>. QED
    BY Zenon, <1>1, <1>3, <1>4, NothingToOwn

LEMMA RenderOwns ==
    ASSUME Typing, UpdateIsOwn, NEW p, ShowItem(p)
    PROVE  UpdateIsOwn'
<1>. DEFINE r == Request("update", NoArg)
            x == Request("oldUpdate", NoArg)
<1>1. NetTyped(net) /\ Owns(net, item)
    BY Zenon, OwnsIs DEF Typing
<1>2. CASE p = "users" /\ Shown(p)
    <2>1. net' = net /\ (item = noItem \/ item' = item)
        BY Zenon, <1>2 DEF ShowItem
    <2>2. item = "submitting" => item' = "submitting"
        BY <2>1 DEF noItem
    <2>. QED
        BY Zenon, <1>1, <2>1, <2>2, OwnsIs DEF Owns
<1>3. CASE ~(p = "users" /\ Shown(p))
    <2>1. net' = Disowned(net)
        BY Zenon, <1>3 DEF ShowItem
    <2>2. r.name = "update" /\ x.name = "oldUpdate" /\ "oldUpdate" # "update"
        BY AskParts
    <2>. HIDE DEF r, x
    <2>3. CASE r \in DOMAIN net
        <3>1. net' = Sent(Gone(net, r), x)
            BY Zenon, <2>1, <2>3 DEF Disowned, r, x
        <3>2. Owns(Gone(net, r), item')
            BY Zenon, <1>1, <2>2, <2>3, OwnsNoMore
        <3>. QED
            BY Zenon, <2>2, <3>1, <3>2, OwnsSent, OwnsIs
    <2>4. CASE r \notin DOMAIN net
        <3>1. net' = net
            BY Zenon, <2>1, <2>4 DEF Disowned, r
        <3>. QED
            BY Zenon, <1>1, <2>4, <3>1, NothingToOwn, OwnsIs DEF r
    <2>. QED
        BY <2>3, <2>4
<1>. QED
    BY <1>2, <1>3

LEMMA SendOwns ==
    ASSUME UpdateIsOwn, NEW r, Send(r), r.name # "update", item' = item
    PROVE  UpdateIsOwn'
BY Zenon, OwnsIs, OwnsSent DEF Send

LEMMA AfterOwns ==
    ASSUME UpdateIsOwn, NEW r \in DOMAIN net, After(r), item' = item
    PROVE  UpdateIsOwn'
<1>1. Owns(Gone(net, r), item)
    BY Zenon, OwnsIs, OwnsGone
<1>2. Request("users", NoArg).name # "update"
    BY AskParts
<1>3. Owns(Sent(Gone(net, r), Request("users", NoArg)), item)
    BY Zenon, <1>1, <1>2, OwnsSent
<1>. QED
    BY Zenon, <1>1, <1>3, OwnsIs DEF After

LEMMA AnswerOwns ==
    ASSUME Typing, UpdateIsOwn, NEW r \in DOMAIN net,
           Answer(r) \/ Repeat(r) \/ AnswerPlain(r) \/ AnswerUpdate(r) \/ AnswerEmpty(r) \/ Fail(r)
    PROVE  UpdateIsOwn' /\ (AnswerUpdate(r) => item # noItem \/ r.name # "update")
<1>1. Pending(r)
    BY Zenon DEF Typing, NetTyped
<1>2. r.name = "update" => item # noItem
    BY DEF UpdateIsOwn, noItem
<1>3. Owns(Gone(net, r), item)
    BY Zenon, OwnsIs, OwnsGone
<1>4. CASE Answer(r)
    <2>1. After(r) /\ item' = item
        BY Zenon, <1>4 DEF Answer, pageVars
    <2>. QED
        BY Zenon, <1>2, <2>1, AfterOwns
<1>5. ASSUME r.name \in Repeated, NEW phase \in {"sent", "delay"}
      PROVE  Owns(Sent(Gone(net, r), [r EXCEPT !.phase = phase]), item)
    <2>. DEFINE x == [r EXCEPT !.phase = phase]
    <2>1. x.name = r.name
        BY Zenon, <1>1, <1>5, PhasePending
    <2>2. x.name # "update"
        BY <1>5, <2>1, RepeatedNames
    <2>. HIDE DEF x
    <2>3. Owns(Sent(Gone(net, r), x), item)
        BY Zenon, <1>3, <2>2, OwnsSent
    <2>. QED
        BY Zenon, <2>3 DEF x
<1>6. CASE Repeat(r)
    <2>1. item' = item /\ r.name \in Repeated
        BY Zenon, <1>6, WaitingParts DEF Repeat, pageVars
    <2>2. CASE started[r.name]
        <3>1. net' = Sent(Gone(net, r), [r EXCEPT !.phase = "sent"])
            BY Zenon, <1>6, <2>2 DEF Repeat
        <3>. QED
            BY Zenon, <1>2, <1>5, <2>1, <3>1, OwnsIs
    <2>3. CASE ~started[r.name]
        <3>1. After(r)
            BY Zenon, <1>6, <2>3 DEF Repeat
        <3>. QED
            BY Zenon, <1>2, <2>1, <3>1, AfterOwns
    <2>. QED
        BY <2>2, <2>3
<1>7. CASE AnswerPlain(r)
    <2>1. net' = Gone(net, r) /\ item' = item
        BY Zenon, <1>7 DEF AnswerPlain, pageVars
    <2>. QED
        BY Zenon, <1>2, <1>3, <2>1, OwnsIs
<1>8. CASE AnswerUpdate(r)
    <2>1. net' = Gone(net, r) /\ item' = IF r.name = "update" THEN "idle" ELSE item
        BY Zenon, <1>8 DEF AnswerUpdate
    <2>2. NetTyped(net) /\ Owns(net, item)
        BY Zenon, OwnsIs DEF Typing
    <2>3. r.name = "update" => Owns(Gone(net, r), "idle")
        BY Zenon, <2>2, OwnsNoMore
    <2>. QED
        BY Zenon, <1>2, <1>3, <2>1, <2>3, OwnsIs
<1>9. CASE AnswerEmpty(r)
    <2>1. net' = Sent(Gone(net, r), [r EXCEPT !.phase = "delay"]) /\ item' = item /\ r.name \in Repeated
        BY Zenon, <1>9 DEF AnswerEmpty, pageVars
    <2>. QED
        BY Zenon, <1>2, <1>5, <2>1, OwnsIs
<1>10. CASE Fail(r)
    <2>1. net' = Gone(net, r) /\ item' = item
        BY Zenon, <1>10 DEF Fail, pageVars
    <2>. QED
        BY Zenon, <1>2, <1>3, <2>1, OwnsIs
<1>. QED
    BY <1>4, <1>6, <1>7, <1>8, <1>9, <1>10

LEMMA saveUserOwns ==
    ASSUME Typing, UpdateIsOwn, saveUser
    PROVE  UpdateIsOwn'
<1>. DEFINE r == Request("update", NoArg)
<1>1. item = "idle" /\ item' = "submitting" /\ net' = Sent(net, r)
    BY Zenon DEF saveUser, CanSave, Send
<1>2. \A x \in DOMAIN net : x.name # "update"
    BY <1>1 DEF UpdateIsOwn
<1>3. r.name = "update"
    BY AskParts
<1>. HIDE DEF r
<1>4. r \notin DOMAIN net
    BY Zenon, <1>2, <1>3
<1>5. \A x \in DOMAIN net' : x.name = "update" => x = r
    <2>1. DOMAIN Sent(net, r) = DOMAIN net \cup {r}
        BY SentFacts
    <2>. QED
        BY Zenon, <1>1, <1>2, <2>1
<1>6. net'[r] = 0 + 1
    BY <1>1, <1>4, SentFacts
<1>. QED
    BY <1>1, <1>5, <1>6 DEF UpdateIsOwn

LEMMA TimerOwns ==
    ASSUME UpdateIsOwn, TimerFires
    PROVE  UpdateIsOwn'
<1>1. PICK text : Send(Request("validate", TextArg(text)))
    BY Zenon DEF TimerFires
<1>2. Request("validate", TextArg(text)).name # "update"
    BY AskParts
<1>3. item' = item
    BY Zenon DEF TimerFires
<1>. QED
    BY Zenon, <1>1, <1>2, <1>3, SendOwns

-----------------------------------------------------------------------------
(* The steps of a document. *)

Steps ==
    TaskStep \/ Redirect \/ Show \/ OtherApply \/ SelectApply \/ AskContinue \/ FirstContinue \/ MoreContinue

LEMMA GoingStage ==
    ASSUME Stage, Going(ex)
    PROVE  /\ ~AskedIn(net)
           /\ \A j \in In(jobs) : Selects(j) => j \in HeaderJobs
           /\ \A c \in In(conts) : c.k # "selected"
BY Zenon, StageIs, NotReady DEF Stage1, Stage2, Stage3, Stage4, Stage5

LEMMA GoingTask ==
    ASSUME Typing, Stage, TaskStep
    PROVE  /\ Going(ex) => NoSelect(jobs')
           /\ In(jobs) = {} /\ In(conts) = {} /\ OnlyAsks(conts') /\ jobs = <<>> /\ conts' = <<>>
           /\ who' = who /\ ex' = ex /\ mounted' = mounted /\ con' = con
           /\ Render(TRUE) \in In(jobs') \/ url' = url
<1>1. jobs = <<>> /\ conts = <<>> /\ conts' = conts /\ ex' = ex /\ mounted' = mounted /\ con' = con /\ who' = who
    BY Zenon DEF TaskStep, Quiet
<1>2. In(jobs) = {} /\ In(conts) = {}
    BY Zenon, <1>1, Nothing
<1>3. Render(TRUE) \in Renders
    BY RenderParts
<1>4. jobs' = <<Render(TRUE)>> => In(jobs') = {Render(TRUE)}
    BY Zenon, PlainJob
<1>5. jobs' = <<>> => In(jobs') = {}
    BY Zenon, Nothing
<1>6. ASSUME Going(ex) PROVE NoSelect(jobs')
    <2>1. LoadedJob \notin In(jobs')
        BY Zenon, <1>6, GoingStage DEF TaskStep
    <2>2. ASSUME NEW j, TaskFacts(j), jobs' = <<j>> PROVE NoSelect(jobs')
        <3>1. In(jobs') = {j}
            BY Zenon, <2>2, PlainJob
        <3>. QED
            BY Zenon, <2>1, <2>2, <3>1, JobsApart DEF TaskFacts, NoSelect
    <2>3. jobs' = <<Render(TRUE)>> => NoSelect(jobs')
        BY Zenon, <1>3, <1>4, JobsApart DEF NoSelect
    <2>4. jobs' = <<>> => NoSelect(jobs')
        BY Zenon, <1>5 DEF NoSelect
    <2>. QED
        BY Zenon, <2>2, <2>3, <2>4 DEF TaskStep
<1>7. OnlyAsks(conts')
    BY Zenon, <1>1, <1>2 DEF OnlyAsks
<1>8. Render(TRUE) \in In(jobs') \/ url' = url
    BY Zenon, <1>4 DEF TaskStep
<1>. QED
    BY Zenon, <1>1, <1>2, <1>6, <1>7, <1>8

LEMMA StepsStage ==
    ASSUME Typing, Stage, Steps
    PROVE  Stage'
BY Zenon, TaskStage, RedirectIs, ShowStep, RenderStage, OtherApplyStage, SelectApplyStage, ContinueStage
   DEF Steps

-----------------------------------------------------------------------------
(* A task is alone. *)

NoTask(q) == \A j \in In(q) : j \notin TaskJobs

LEMMA AloneTail ==
    ASSUME Alone, jobs # <<>>, jobs \in Seq(Jobs)
    PROVE  NoTask(Tail(jobs))
<1>1. In(jobs) = {Head(jobs)} \cup In(Tail(jobs))
    BY InParts
<1>2. Tail(jobs) = <<>> => In(Tail(jobs)) = {}
    BY Zenon, Nothing
<1>. QED
    BY Zenon, <1>1, <1>2 DEF Alone, NoTask

LEMMA AloneRender ==
    ASSUME Alone, RenderStep
    PROVE  NoTask(jobs) /\ NoTask(jobs')
<1>1. /\ In(jobs) = {Head(jobs)} \cup In(Tail(jobs)) /\ Head(jobs) \in Renders
      /\ \A j \in In(jobs') : j \in In(Tail(jobs)) \/ Asks(j) \/ Fetched(j)
      /\ Typing /\ Rendering
    BY Zenon DEF RenderStep
<1>2. jobs # <<>> /\ jobs \in Seq(Jobs)
    BY Zenon, <1>1 DEF Typing, QueueTyped, Rendering
<1>3. NoTask(Tail(jobs))
    BY Zenon, <1>2, AloneTail
<1>. QED
    BY Zenon, <1>1, <1>3, AsksNothing, JobsApart DEF NoTask, Fetched

LEMMA StepsAlone ==
    ASSUME Typing, Stage, Alone, Steps
    PROVE  Alone' /\ (~TaskStep => NoTask(jobs'))
<1>1. NoTask(jobs') => Alone'
    BY Zenon DEF NoTask, Alone
<1>2. ASSUME TaskStep PROVE Alone'
    <2>1. conts' = <<>>
        BY Zenon, <1>2, GoingTask
    <2>2. \A j : jobs' = <<j>> => Tail(jobs') = <<>>
        OBVIOUS
    <2>3. jobs' = <<>> => In(jobs') = {}
        BY Zenon, Nothing
    <2>. QED
        BY Zenon, <1>2, <2>1, <2>2, <2>3 DEF TaskStep, Alone
<1>3. CASE Redirect \/ Show
    <2>1. RenderStep
        BY Zenon, <1>3, RedirectIs, ShowStep
    <2>. QED
        BY Zenon, <1>1, <2>1, AloneRender
<1>4. Render(TRUE) \notin TaskJobs /\ Render(FALSE) \notin TaskJobs
    BY Zenon, RenderParts, JobsApart
<1>5. CASE OtherApply
    <2>1. jobs # <<>> /\ jobs \in Seq(Jobs) /\ \A x \in In(jobs') : x \in In(Tail(jobs)) \/ x = Render(FALSE)
        BY Zenon, <1>5 DEF OtherApply
    <2>. QED
        BY Zenon, <1>1, <1>4, <2>1, AloneTail DEF NoTask
<1>6. CASE SelectApply
    <2>1. jobs # <<>> /\ jobs \in Seq(Jobs) /\ In(jobs') = {Render(TRUE)} \cup In(Tail(jobs))
        BY Zenon, <1>6 DEF SelectApply
    <2>. QED
        BY Zenon, <1>1, <1>4, <2>1, AloneTail DEF NoTask
<1>7. ContinueStep => NoTask(jobs)
    BY Zenon DEF ContinueStep, Alone, NoTask
<1>8. CASE AskContinue
    BY Zenon, <1>1, <1>7, <1>8 DEF AskContinue
<1>9. CASE FirstContinue
    BY Zenon, <1>1, <1>7, <1>9, JobsApart DEF FirstContinue, NoTask
<1>10. CASE MoreContinue
    BY Zenon, <1>1, <1>7, <1>10, JobsApart DEF MoreContinue, NoTask, HeaderJobs
<1>. QED
    BY Zenon, <1>2, <1>3, <1>5, <1>6, <1>8, <1>9, <1>10 DEF Steps

-----------------------------------------------------------------------------
(* The address. *)

(* A continuation leaves the queue as it is, or adds to it.                  *)
LEMMA ContinueKeeps ==
    ASSUME AskContinue \/ FirstContinue \/ MoreContinue
    PROVE  /\ ContinueStep /\ In(jobs) \subseteq In(jobs')
           /\ who' = who /\ url' = url /\ ex' = ex /\ mounted' = mounted /\ con' = con /\ editor' = editor
           /\ Typing /\ Stage /\ In(conts') \subseteq In(conts)
           /\ \A j \in In(jobs') : j \in In(jobs) \/ j \in SelectJobs
<1>1. ContinueStep
    BY Zenon DEF AskContinue, FirstContinue, MoreContinue
<1>2. CASE AskContinue
    BY Zenon, <1>1, <1>2 DEF AskContinue, ContinueStep
<1>3. CASE FirstContinue
    BY Zenon, <1>1, <1>3 DEF FirstContinue, ContinueStep, SelectJobs
<1>4. CASE MoreContinue
    BY Zenon, <1>1, <1>4 DEF MoreContinue, ContinueStep, SelectJobs, HeaderJobs
<1>. QED
    BY <1>2, <1>3, <1>4

LEMMA StepsMounted ==
    ASSUME Typing, Stage, MountedIsUrl, Steps
    PROVE  MountedIsUrl'
<1>1. Render(TRUE) \in In(jobs') => MountedIsUrl'
    BY Zenon, RenderParts DEF MountedIsUrl
<1>2. CASE TaskStep
    BY Zenon, <1>1, <1>2, GoingTask DEF MountedIsUrl
<1>3. CASE Redirect
    BY Zenon, <1>1, <1>3, RedirectIs
<1>4. CASE Show
    BY Zenon, <1>4, ShowStep DEF MountedIsUrl
<1>5. "set" # "render"
    OBVIOUS
<1>6. CASE OtherApply
    BY Zenon, <1>5, <1>6 DEF OtherApply, MountedIsUrl
<1>7. CASE SelectApply
    BY Zenon, <1>1, <1>7 DEF SelectApply
<1>8. CASE AskContinue \/ FirstContinue \/ MoreContinue
    BY Zenon, <1>8, ContinueKeeps DEF MountedIsUrl
<1>. QED
    BY Zenon, <1>2, <1>3, <1>4, <1>6, <1>7, <1>8 DEF Steps

(* What the header has under way.                                            *)
Busy(q, c) == (\E j \in In(q) : Selects(j)) \/ ~OnlyAsks(c)

LEMMA HeaderIs == /\ HeaderIsShown <=> (Going(ex) /\ Busy(jobs, conts) => url.page \in Headers(who))
                  /\ HeaderIsShown' <=> (Going(ex') /\ Busy(jobs', conts') => url'.page \in Headers(who'))
BY Zenon DEF HeaderIsShown, Busy

LEMMA RenderBusy ==
    ASSUME RenderStep, Busy(jobs', conts')
    PROVE  Busy(jobs, conts) \/ \E j \in In(jobs') : Fetched(j)
<1>1. /\ In(jobs) = {Head(jobs)} \cup In(Tail(jobs)) /\ conts' = conts
      /\ \A j \in In(jobs') : j \in In(Tail(jobs)) \/ Asks(j) \/ Fetched(j)
    BY Zenon DEF RenderStep
<1>. QED
    BY Zenon, <1>1, AsksNothing DEF Busy

LEMMA OtherBusy ==
    ASSUME OtherApply, Busy(jobs', conts')
    PROVE  Busy(jobs, conts)
<1>1. ~Selects(Render(FALSE))
    BY Zenon, RenderParts, JobsApart
<1>3. OnlyAsks(conts) => OnlyAsks(conts')
    <2>1. In(conts') = In(conts) \/ (Head(jobs).then.k = "ask" /\ In(conts') = In(conts) \cup {Head(jobs).then})
        BY Zenon DEF OtherApply
    <2>. QED
        BY Zenon, <2>1 DEF OnlyAsks
<1>. QED
    BY Zenon, <1>1, <1>3 DEF OtherApply, Busy

LEMMA AskBusy ==
    ASSUME AskContinue, Busy(jobs', conts')
    PROVE  Busy(jobs, conts)
BY Zenon, ContinueKeeps DEF AskContinue, Busy, OnlyAsks

LEMMA MoreBusy ==
    ASSUME MoreContinue
    PROVE  Busy(jobs, conts) /\ ~OnlyAsks(conts)
<1>1. Head(conts).k \in {"selection", "symbol"} /\ Head(conts) \in In(conts)
    BY Zenon DEF MoreContinue, ContinueStep
<1>2. Head(conts).k # "ask"
    BY <1>1
<1>. QED
    BY Zenon, <1>1, <1>2 DEF Busy, OnlyAsks

LEMMA TaskIdle ==
    ASSUME Typing, Stage, TaskStep, Going(ex)
    PROVE  ~Busy(jobs', conts')
BY Zenon, GoingTask DEF Busy, NoSelect

LEMMA FirstIdle ==
    ASSUME SelectApply, OnlyAsks(conts'), NoSelect(Tail(jobs))
    PROVE  ~Busy(jobs', conts')
<1>1. ~Selects(Render(TRUE))
    BY Zenon, RenderParts, JobsApart
<1>. QED
    BY Zenon, <1>1 DEF SelectApply, Busy, NoSelect

LEMMA StepsHeader ==
    ASSUME Typing, Stage, HeaderIsShown, Steps
    PROVE  HeaderIsShown'
<1>. SUFFICES ASSUME Going(ex'), Busy(jobs', conts') PROVE url'.page \in Headers(who')
    BY Zenon, HeaderIs
<1>1. ~TaskStep
    BY Zenon, TaskIdle, GoingTask
<1>2. ASSUME Redirect PROVE FALSE
    <2>1. RenderStep /\ url.page \notin Headers(who) /\ ex' = ex
        BY Zenon, <1>2, RedirectIs DEF RenderStep
    <2>2. \A j : ~Fetched(j)
        BY Zenon, <2>1 DEF Fetched, Checks
    <2>. QED
        BY Zenon, <2>1, <2>2, RenderBusy, HeaderIs
<1>3. CASE Show
    <2>1. RenderStep /\ ex' = ex /\ who' = who /\ url'.page = url.page
        BY Zenon, <1>3, ShowStep DEF RenderStep
    <2>. QED
        BY Zenon, <2>1, RenderBusy, HeaderIs DEF Fetched, Checks
<1>4. CASE OtherApply
    BY Zenon, <1>4, OtherBusy, HeaderIs DEF OtherApply
<1>5. CASE SelectApply
    <2>1. Head(jobs) \in HeaderJobs /\ Going(ex)
        BY Zenon, <1>5, SelectApplyStage, FirstIdle
    <2>2. /\ jobs # <<>> /\ Selects(Head(jobs)) /\ In(jobs) = {Head(jobs)} \cup In(Tail(jobs))
          /\ url' = url /\ who' = who
        BY Zenon, <1>5 DEF SelectApply
    <2>. QED
        BY Zenon, <2>1, <2>2, HeaderIs DEF Busy
<1>6. CASE AskContinue \/ MoreContinue
    BY Zenon, <1>6, AskBusy, MoreBusy, ContinueKeeps, HeaderIs
<1>7. ASSUME FirstContinue PROVE FALSE
    BY Zenon, <1>7, NotReady DEF FirstContinue, ContinueStep
<1>. QED
    BY Zenon, <1>1, <1>2, <1>3, <1>4, <1>5, <1>6, <1>7 DEF Steps

LEMMA StepsSettled ==
    ASSUME Typing, Stage, Settled, Steps
    PROVE  Settled'
<1>1. Render(TRUE) \in In(jobs') => Settled'
    BY Zenon, RenderParts DEF Settled, Renews
<1>2. CASE TaskStep
    BY Zenon, <1>1, <1>2, GoingTask DEF Settled
<1>3. CASE Redirect
    BY Zenon, <1>1, <1>3, RedirectIs
<1>4. CASE Show
    <2>1. CASE Moves
        BY Zenon, <1>1, <1>4, <2>1, ShowStep
    <2>2. /\ In(jobs) = {Head(jobs)} \cup In(Tail(jobs)) /\ Head(jobs) \in Renders
          /\ In(Tail(jobs)) \subseteq In(jobs') /\ ex' = ex /\ who' = who
        BY Zenon, <1>4, ShowStep DEF RenderStep
    <2>3. CASE ~Moves /\ Checks
        <3>1. url' = url /\ NewPath(url, ex) = url /\ Going(ex) /\ \A j \in In(Sets(url, ex)) : j \in In(jobs')
            BY Zenon, <1>4, <2>3, ShowStep DEF Moves
        <3>2. ex \in Selections /\ url \in URLs
            BY Zenon DEF Typing, SelectionTyped
        <3>. DEFINE q == Sets(url, ex)
        <3>3. q \in Seq(HeaderJobs)
            BY <3>1, <3>2, SetsAre
        <3>. HIDE DEF q
        <3>4. q = <<>> \/ \E j \in In(q) : j \in HeaderJobs
            BY Zenon, <3>3, InEmpty, InElements
        <3>. QED
            BY Zenon, <2>2, <3>1, <3>4, JobsApart DEF Settled, q
    <2>4. CASE ~Checks
        <3>1. url' = url
            BY Zenon, <1>4, <2>4, ShowStep DEF Moves
        <3>. SUFFICES ASSUME Going(ex), url.page \in Headers(who)
                      PROVE  \/ \E j \in In(jobs') : Renews(j) \/ Selects(j)
                             \/ NewPath(url, ex) = url /\ Sets(url, ex) = <<>>
            BY Zenon, <2>2, <3>1 DEF Settled
        <3>2. ~Head(jobs).header
            <4>1. Ready(ex)
                BY Zenon, ReadyMeans DEF Typing, SelectionTyped
            <4>. QED
                BY Zenon, <2>4, <4>1 DEF Checks
        <3>3. ~Renews(Head(jobs)) /\ ~Selects(Head(jobs))
            BY Zenon, <2>2, <3>2, JobsApart DEF Renews
        <3>. QED
            BY Zenon, <2>2, <3>3 DEF Settled
    <2>. QED
        BY <2>1, <2>3, <2>4
<1>5. CASE OtherApply
    <2>1. Head(jobs).k # "render"
        BY <1>5 DEF OtherApply
    <2>. QED
        BY Zenon, <1>5, <2>1 DEF OtherApply, Settled, Renews
<1>6. CASE SelectApply
    BY Zenon, <1>1, <1>6 DEF SelectApply
<1>7. CASE AskContinue \/ FirstContinue \/ MoreContinue
    BY Zenon, <1>7, ContinueKeeps DEF Settled
<1>. QED
    BY Zenon, <1>2, <1>3, <1>4, <1>5, <1>6, <1>7 DEF Steps

(* The interval. *)
IntervalFits(e, u, q, c) ==
    /\ Busy(q, c) => NewInterval(u) = u.interval
    /\ \A j \in In(q) : MovesInterval(j) => j.patch.interval = u.interval
    /\ (\E j \in In(q) : MovesExchange(j) \/ MovesSymbol(j)) \/ ~OnlyAsks(c) => u.interval \in {Blank, e.interval}

LEMMA IntervalIs ==
    /\ IntervalIsSet <=> (Going(ex) => IntervalFits(ex, url, jobs, conts))
    /\ IntervalIsSet' <=> (Going(ex') => IntervalFits(ex', url', jobs', conts'))
BY Zenon DEF IntervalIsSet, IntervalFits, Busy

LEMMA MovesSelect == \A j : MovesInterval(j) \/ MovesExchange(j) \/ MovesSymbol(j) => Selects(j)
BY Zenon DEF MovesInterval, MovesExchange, MovesSymbol

LEMMA IdleFits ==
    ASSUME NEW e, NEW u, NEW q, NEW c, ~Busy(q, c)
    PROVE  IntervalFits(e, u, q, c)
BY Zenon, MovesSelect DEF IntervalFits, Busy

(* The patches of the header are told apart by their fields.                 *)
LEMMA HeaderApart ==
    ASSUME NEW j
    PROVE  /\ j \in IntervalJobs => j \notin ExchangeJobs /\ j \notin SymbolJobs
           /\ j \in ExchangeJobs => j \notin SymbolJobs
<1>1. ASSUME j \in IntervalJobs PROVE "selectedSymbol" \notin DOMAIN j.patch
    <2>1. j.patch = [interval |-> j.patch.interval]
        BY <1>1, IntervalJobParts
    <2>. QED
        BY <2>1
<1>2. ASSUME j \in ExchangeJobs PROVE "selectedSymbol" \in DOMAIN j.patch /\ "symbols" \in DOMAIN j.patch
    <2>1. PICK i \in 0..Len(Catalogue) : j.patch = updateSelectedExchange(i)
        BY <1>2, ExchangeJobParts
    <2>. QED
        BY <2>1 DEF updateSelectedExchange
<1>3. ASSUME j \in SymbolJobs PROVE "selectedSymbol" \in DOMAIN j.patch /\ "symbols" \notin DOMAIN j.patch
    <2>1. j.patch = [selectedSymbol |-> j.patch.selectedSymbol,
                     currencyCodePair |-> j.patch.currencyCodePair, symbol |-> j.patch.symbol]
        BY <1>3, SymbolJobParts
    <2>. QED
        BY <2>1
<1>. QED
    BY Zenon, <1>1, <1>2, <1>3

LEMMA SameFits ==
    ASSUME NEW e, NEW u, NEW q, NEW c, NEW p, NEW d, IntervalFits(e, u, q, c),
           \A j \in In(p) : Selects(j) => j \in In(q), Busy(p, d) => Busy(q, c), OnlyAsks(c) => OnlyAsks(d)
    PROVE  IntervalFits(e, u, p, d)
BY Zenon, MovesSelect DEF IntervalFits

LEMMA StepsInterval ==
    ASSUME Typing, Stage, HeaderIsShown, IntervalIsSet, Steps
    PROVE  IntervalIsSet'
<1>. DEFINE Goal == IntervalFits(ex', url', jobs', conts')
<1>. SUFFICES ASSUME Going(ex') PROVE Goal
    BY Zenon, IntervalIs
<1>1. ~Busy(jobs', conts') => Goal
    BY Zenon, IdleFits
<1>2. ex \in Selections /\ url \in URLs
    BY Zenon DEF Typing, SelectionTyped
<1>. HIDE DEF Goal
<1>3. CASE TaskStep
    BY Zenon, <1>1, <1>3, TaskIdle, GoingTask
<1>4. CASE Redirect
    <2>1. RenderStep /\ url.page \notin Headers(who) /\ ex' = ex
        BY Zenon, <1>4, RedirectIs DEF RenderStep
    <2>2. \A j : ~Fetched(j)
        BY Zenon, <2>1 DEF Fetched, Checks
    <2>. QED
        BY Zenon, <1>1, <2>1, <2>2, RenderBusy, HeaderIs
<1>5. CASE Show
    <2>1. /\ RenderStep /\ url' \in URLs /\ url'.page = url.page
          /\ Moves => url' = NewPath(url, ex)
          /\ ~Moves => url' = url
        BY Zenon, <1>5, ShowStep
    <2>2. /\ ex' = ex /\ conts' = conts /\ In(jobs) = {Head(jobs)} \cup In(Tail(jobs))
          /\ \A j \in In(jobs') : j \in In(Tail(jobs)) \/ Asks(j) \/ Fetched(j)
        BY Zenon, <2>1 DEF RenderStep
    <2>3. IntervalFits(ex, url, jobs, conts)
        BY Zenon, <2>2, IntervalIs
    <2>4. CASE ~Checks \/ Moves
        <3>1. \A j \in In(jobs') : Selects(j) => j \in In(jobs)
            BY Zenon, <2>2, <2>4, AsksNothing DEF Fetched
        <3>2. Busy(jobs', conts') => Busy(jobs, conts)
            BY Zenon, <2>2, <3>1 DEF Busy
        <3>3. IntervalFits(ex, url, jobs', conts')
            BY Zenon, <2>2, <2>3, <3>1, <3>2, SameFits
        <3>4. CASE ~Moves
            BY Zenon, <2>1, <2>2, <3>3, <3>4 DEF Goal
        <3>5. CASE Moves /\ Busy(jobs', conts')
            <4>1. NewInterval(url) = url.interval
                BY Zenon, <3>3, <3>5 DEF IntervalFits
            <4>2. url'.interval = NewInterval(url) /\ url'.page = url.page
                BY Zenon, <1>2, <2>1, <2>2, <3>5, NewPathType
            <4>3. NewInterval(url') = url'.interval
                BY Zenon, <4>2, NewIntervalStable
            <4>. QED
                BY Zenon, <2>2, <3>3, <4>1, <4>2, <4>3 DEF IntervalFits, Goal
        <3>. QED
            BY Zenon, <1>1, <3>4, <3>5
    <2>5. CASE Checks /\ ~Moves
        <3>1. url' = url /\ NewPath(url, ex) = url
            BY Zenon, <2>1, <2>5 DEF Moves
        <3>2. NewInterval(url) = url.interval
            BY Zenon, <1>2, <2>2, <3>1, NewPathType
        <3>. DEFINE q == Sets(url, ex)
        <3>3. \/ /\ url.interval \notin {Blank, ex.interval}
                 /\ \A j \in In(q) : j \in IntervalJobs /\ j.patch.interval = url.interval
              \/ url.interval \in {Blank, ex.interval} /\ q = SelectionSets(url, ex)
            BY Zenon, <1>2, <2>2, SetsAre
        <3>. HIDE DEF q
        <3>4. \A j \in In(jobs') : Selects(j) => j \in In(jobs) \/ j \in In(q)
            BY Zenon, <2>2, AsksNothing DEF Fetched, q
        <3>5. CASE /\ url.interval \notin {Blank, ex.interval}
                   /\ \A j \in In(q) : j \in IntervalJobs /\ j.patch.interval = url.interval
            <4>1. /\ OnlyAsks(conts) /\ \A j \in In(jobs) : ~MovesExchange(j) /\ ~MovesSymbol(j)
                  /\ \A j \in In(jobs) : MovesInterval(j) => j.patch.interval = url.interval
                BY Zenon, <2>3, <3>5 DEF IntervalFits
            <4>2. \A j \in In(q) : ~MovesExchange(j) /\ ~MovesSymbol(j)
                BY Zenon, <3>5, HeaderApart DEF MovesExchange, MovesSymbol
            <4>3. \A j \in In(jobs') : ~MovesExchange(j) /\ ~MovesSymbol(j)
                BY Zenon, <3>4, <4>1, <4>2, MovesSelect
            <4>4. \A j \in In(jobs') : MovesInterval(j) => j.patch.interval = url.interval
                BY Zenon, <3>4, <3>5, <4>1, MovesSelect
            <4>. QED
                BY Zenon, <2>2, <3>1, <3>2, <4>1, <4>3, <4>4 DEF IntervalFits, Goal
        <3>6. CASE url.interval \in {Blank, ex.interval} /\ q = SelectionSets(url, ex)
            <4>1. \A j \in In(q) : j \in ExchangeJobs \cup SymbolJobs
                BY Zenon, <1>2, <2>2, <3>6, SelectionSetsAre
            <4>2. \A j \in In(q) : ~MovesInterval(j)
                BY Zenon, <4>1, HeaderApart DEF MovesInterval
            <4>3. \A j \in In(jobs') : MovesInterval(j) => j.patch.interval = url.interval
                BY Zenon, <2>3, <3>4, <4>2, MovesSelect DEF IntervalFits
            <4>. QED
                BY Zenon, <2>2, <3>1, <3>2, <3>6, <4>3 DEF IntervalFits, Goal
        <3>. QED
            BY <3>3, <3>5, <3>6
    <2>. QED
        BY <2>4, <2>5
<1>6. CASE OtherApply
    <2>1. ~Selects(Render(FALSE))
        BY Zenon, RenderParts, JobsApart
    <2>2. /\ ex' = ex /\ url' = url
          /\ \A j \in In(jobs') : Selects(j) => j \in In(jobs)
        BY Zenon, <1>6, <2>1 DEF OtherApply
    <2>3. IntervalFits(ex, url, jobs, conts)
        BY Zenon, <2>2, IntervalIs
    <2>4. OnlyAsks(conts) => OnlyAsks(conts')
        <3>1. \/ In(conts') = In(conts)
              \/ (Head(jobs).then.k = "ask" /\ In(conts') = In(conts) \cup {Head(jobs).then})
            BY Zenon, <1>6 DEF OtherApply
        <3>. QED
            BY Zenon, <3>1 DEF OnlyAsks
    <2>. QED
        BY Zenon, <1>6, <2>2, <2>3, <2>4, OtherBusy, SameFits DEF Goal
<1>7. CASE SelectApply
    <2>. DEFINE j == Head(jobs)
                t == Tail(jobs)
    <2>1. CASE j \in HeaderJobs /\ Going(ex)
        <3>1. /\ In(jobs) = {j} \cup In(t) /\ Selects(j) /\ url' = url /\ ex' = Patched(ex, j.patch)
              /\ In(jobs') = {Render(TRUE)} \cup In(t)
            BY Zenon, <1>7 DEF SelectApply
        <3>. HIDE DEF j, t
        <3>2. ~Selects(Render(TRUE))
            BY Zenon, RenderParts, JobsApart
        <3>3. IntervalFits(ex, url, jobs, conts)
            BY Zenon, <2>1, IntervalIs
        <3>4. NewInterval(url) = url.interval
            BY Zenon, <3>1, <3>3 DEF IntervalFits, Busy
        <3>5. \A x \in In(jobs') : Selects(x) => x \in In(jobs)
            BY Zenon, <3>1, <3>2
        <3>6. \A x \in In(jobs') : MovesInterval(x) => x.patch.interval = url.interval
            BY Zenon, <3>3, <3>5, MovesSelect DEF IntervalFits
        <3>7. url.interval \in {Blank, ex'.interval}
            <4>1. CASE j \in IntervalJobs
                <5>1. ex'.interval = j.patch.interval
                    BY Zenon, <1>2, <3>1, <4>1, IntervalApplied
                <5>2. j.patch.interval = url.interval
                    BY Zenon, <3>1, <3>3, <4>1 DEF IntervalFits, MovesInterval
                <5>. QED
                    BY Zenon, <5>1, <5>2
            <4>2. ASSUME j \in ExchangeJobs \/ j \in SymbolJobs PROVE url.interval \in {Blank, ex'.interval}
                <5>1. ex'.interval = ex.interval
                    BY Zenon, <1>2, <3>1, <4>2, ExchangeApplied, SymbolApplied
                <5>2. url.interval \in {Blank, ex.interval}
                    BY Zenon, <3>1, <3>3, <4>2 DEF IntervalFits, MovesExchange, MovesSymbol
                <5>. QED
                    BY Zenon, <5>1, <5>2
            <4>. QED
                BY Zenon, <2>1, <4>1, <4>2 DEF HeaderJobs
        <3>. QED
            BY Zenon, <3>1, <3>4, <3>6, <3>7 DEF IntervalFits, Goal
    <2>2. CASE OnlyAsks(conts') /\ NoSelect(t)
        BY Zenon, <1>1, <1>7, <2>2, FirstIdle
    <2>. QED
        BY Zenon, <1>7, <2>1, <2>2, SelectApplyStage
<1>8. CASE AskContinue
    <2>1. ex' = ex /\ url' = url /\ jobs' = jobs /\ (OnlyAsks(conts) => OnlyAsks(conts'))
        BY Zenon, <1>8, ContinueKeeps DEF AskContinue, OnlyAsks
    <2>2. IntervalFits(ex, url, jobs, conts)
        BY Zenon, <2>1, IntervalIs
    <2>. QED
        BY Zenon, <1>8, <2>1, <2>2, AskBusy, SameFits DEF Goal
<1>9. ASSUME FirstContinue PROVE FALSE
    BY Zenon, <1>9, NotReady DEF FirstContinue, ContinueStep
<1>10. CASE MoreContinue
    <2>. DEFINE q == ContSets(Head(conts))
    <2>1. /\ ex' = ex /\ url' = url /\ In(jobs') = In(jobs) \cup In(q)
          /\ \A j \in In(q) : j \in ExchangeJobs \cup SymbolJobs
        BY Zenon, <1>10 DEF MoreContinue, ContinueStep
    <2>. HIDE DEF q
    <2>2. IntervalFits(ex, url, jobs, conts)
        BY Zenon, <2>1, IntervalIs
    <2>3. \A j \in In(q) : ~MovesInterval(j)
        BY Zenon, <2>1, HeaderApart DEF MovesInterval
    <2>4. NewInterval(url) = url.interval /\ url.interval \in {Blank, ex.interval}
        BY Zenon, <1>10, <2>2, MoreBusy DEF IntervalFits
    <2>5. \A j \in In(jobs') : MovesInterval(j) => j.patch.interval = url.interval
        BY Zenon, <2>1, <2>2, <2>3 DEF IntervalFits
    <2>. QED
        BY Zenon, <2>1, <2>4, <2>5 DEF IntervalFits, Goal
<1>. QED
    BY Zenon, <1>3, <1>4, <1>5, <1>6, <1>7, <1>8, <1>9, <1>10 DEF Steps

(* The symbol. *)
ExchangeComes(q) == \E j \in In(q) : MovesExchange(j)
Renewed(q, u, w, e) ==
    q # <<>> /\ Head(q).k = "render" /\ Head(q).header /\ u.page \in Headers(w) /\ Initial(e)
HarmlessFor(u, w, e) == u.page \in Headers(w) /\ HarmlessAt(u, e)
FixedFor(q, e) == Fixed(e) /\ AllValid(q, e.symbols)

SymbolFits(e, u, w, q) ==
    ExchangeComes(q) \/ Renewed(q, u, w, e) \/ HarmlessFor(u, w, e) \/ Mended(q, e.symbols) \/ FixedFor(q, e)

LEMMA SymbolIs ==
    /\ SymbolIsMended <=> (Going(ex) => SymbolFits(ex, url, who, jobs))
    /\ SymbolIsMended' <=> (Going(ex') => SymbolFits(ex', url', who', jobs'))
<1>1. SymbolIsMended <=> (Going(ex) => SymbolFits(ex, url, who, jobs))
    BY Zenon DEF SymbolIsMended, SymbolFits, ExchangeComes, Renewed, Rendering, HarmlessFor, Harmless,
                 HarmlessAt, UrlCode, FixedFor, AllValid
<1>2. SymbolIsMended' <=> (Going(ex') => SymbolFits(ex', url', who', jobs'))
    BY Zenon DEF SymbolIsMended, SymbolFits, ExchangeComes, Renewed, Rendering, HarmlessFor, Harmless,
                 HarmlessAt, UrlCode, FixedFor, AllValid
<1>. QED
    BY <1>1, <1>2

LEMMA MendedMoves ==
    ASSUME NEW q, NEW L, Mended(q, L)
    PROVE  \E j \in In(q) : MovesSymbol(j)
BY Zenon DEF Mended, In

LEMMA InitialFixed == \A s : Initial(s) => Fixed(s)
BY Zenon DEF Fixed

LEMMA NoSelectValid ==
    ASSUME NEW q, NoSelect(q), NEW L
    PROVE  AllValid(q, L)
BY Zenon, MovesSelect DEF NoSelect, AllValid

LEMMA MendedKept ==
    ASSUME NEW S, NEW q \in Seq(S), q # <<>>, NEW L, Mended(q, L), ~MovesSymbol(Head(q))
    PROVE  Mended(Tail(q), L)
BY Zenon, MendedTail

LEMMA TaskSymbol ==
    ASSUME Typing, Stage, Settled, SymbolIsMended, TaskStep, Going(ex)
    PROVE  SymbolFits(ex', url', who', jobs')
<1>1. /\ NoSelect(jobs') /\ In(jobs) = {} /\ jobs = <<>> /\ ex' = ex
    BY Zenon, GoingTask
<1>2. SymbolFits(ex, url, who, jobs) /\ ex \in Selections /\ url \in URLs
    BY Zenon, SymbolIs DEF Typing, SelectionTyped
<1>3. HarmlessFor(url, who, ex) \/ FixedFor(jobs, ex)
    BY Zenon, <1>1, <1>2, MendedMoves DEF SymbolFits, ExchangeComes, Renewed
<1>4. ASSUME HarmlessFor(url, who, ex) PROVE Fixed(ex)
    <2>1. NewPath(url, ex) = url /\ Sets(url, ex) = <<>>
        BY Zenon, <1>1, <1>4 DEF Settled, HarmlessFor
    <2>. QED
        BY Zenon, <1>2, <1>4, <2>1, HarmlessIsFixed DEF HarmlessFor
<1>5. Fixed(ex)
    BY Zenon, <1>3, <1>4 DEF FixedFor
<1>. QED
    BY Zenon, <1>1, <1>5, NoSelectValid DEF SymbolFits, FixedFor

LEMMA RedirectSymbol ==
    ASSUME Typing, Stage, HeaderIsShown, SymbolIsMended, Redirect, Going(ex)
    PROVE  SymbolFits(ex', url', who', jobs')
<1>1. RenderStep /\ url.page \notin Headers(who) /\ ex' = ex
    BY Zenon, RedirectIs DEF RenderStep
<1>2. \A j : ~Fetched(j)
    BY Zenon, <1>1 DEF Fetched, Checks
<1>3. ~Busy(jobs, conts) /\ ~Busy(jobs', conts')
    BY Zenon, <1>1, <1>2, RenderBusy, HeaderIs
<1>4. NoSelect(jobs) /\ NoSelect(jobs')
    BY Zenon, <1>3 DEF Busy, NoSelect
<1>5. SymbolFits(ex, url, who, jobs)
    BY Zenon, SymbolIs
<1>6. Fixed(ex)
    BY Zenon, <1>1, <1>4, <1>5, MendedMoves, MovesSelect
       DEF SymbolFits, ExchangeComes, Renewed, HarmlessFor, FixedFor, NoSelect
<1>. QED
    BY Zenon, <1>1, <1>4, <1>6, NoSelectValid DEF SymbolFits, FixedFor

LEMMA HeadStays ==
    ASSUME NEW S, NEW a \in Seq(S), a # <<>>, NEW b \in Seq(S)
    PROVE  a \o b # <<>> /\ Head(a \o b) = Head(a)
OBVIOUS

(* What the queue of Show keeps, and what it adds.                           *)
LEMMA ShowMended ==
    ASSUME Typing, Stage, Show, NEW L
    PROVE  /\ Mended(jobs, L) /\ AllValid(ShowSets, L) => Mended(jobs', L)
           /\ Mended(ShowSets, L) => Mended(jobs', L)
           /\ AllValid(jobs, L) /\ AllValid(ShowSets, L) => AllValid(jobs', L)
           /\ ExchangeComes(jobs) => ExchangeComes(jobs')
           /\ In(ShowSets) \subseteq In(jobs')
           /\ Moves => jobs' # <<>> /\ Head(jobs') = Render(TRUE)
<1>. DEFINE t == Tail(jobs)
            l == LeaveSets(url.page)
            g == PageSets(url.page)
            f == ShowFirst
            m == ShowSets
<1>1. /\ f \in Seq(Jobs) /\ t \in Seq(Jobs) /\ l \in Seq(Jobs) /\ m \in Seq(Jobs) /\ g \in Seq(Jobs)
      /\ f \o t \in Seq(Jobs) /\ (f \o t) \o l \in Seq(Jobs) /\ ((f \o t) \o l) \o m \in Seq(Jobs)
      /\ In(jobs') = In(f) \cup In(t) \cup In(l) \cup In(m) \cup In(g)
      /\ \A j \in In(l) : j = ClearJob
      /\ \A j \in In(g) : j \in PageJobs
    BY Zenon, ShowParts
<1>2. jobs' = (((f \o t) \o l) \o m) \o g
    BY Zenon, ShowIs
<1>3. Moves => f = <<Render(TRUE)>>
    BY Zenon DEF ShowFirst
<1>4. \A j \in In(f) : j = Render(TRUE)
    BY Zenon, ShowParts
<1>. HIDE DEF f, m, l, g, t
<1>5. /\ jobs # <<>> /\ jobs \in Seq(Jobs) /\ In(jobs) = {Head(jobs)} \cup In(t) /\ Head(jobs) \in Renders
    BY Zenon, RenderingHead DEF Show, t
<1>6. ~Selects(Head(jobs)) /\ Render(TRUE) \in Jobs /\ ~Selects(Render(TRUE))
    BY Zenon, <1>5, RenderParts, JobsApart
<1>7. NoSelect(f) /\ NoSelect(l) /\ NoSelect(g)
    <2>1. ~Selects(ClearJob)
        BY Zenon, JobsApart DEF PageJobs
    <2>. QED
        BY Zenon, <1>1, <1>4, <1>6, <2>1, JobsApart DEF NoSelect
<1>8. AllValid(l, L) /\ AllValid(g, L) /\ AllValid(f, L)
    BY Zenon, <1>7, NoSelectValid
<1>9. ASSUME Mended(jobs, L), AllValid(m, L) PROVE Mended(jobs', L)
    <2>1. Mended(t, L)
        BY Zenon, <1>5, <1>6, <1>9, MendedKept, MovesSelect DEF t
    <2>2. Mended(f \o t, L)
        BY Zenon, <1>1, <2>1, MendedBehind
    <2>3. Mended((f \o t) \o l, L)
        BY Zenon, <1>1, <1>8, <2>2, MendedMore
    <2>4. Mended(((f \o t) \o l) \o m, L)
        BY Zenon, <1>1, <1>9, <2>3, MendedMore
    <2>5. Mended((((f \o t) \o l) \o m) \o g, L)
        BY Zenon, <1>1, <1>8, <2>4, MendedMore
    <2>. QED
        BY Zenon, <1>2, <2>5
<1>10. ASSUME Mended(m, L) PROVE Mended(jobs', L)
    <2>1. Mended(((f \o t) \o l) \o m, L)
        BY Zenon, <1>1, <1>10, MendedBehind
    <2>2. Mended((((f \o t) \o l) \o m) \o g, L)
        BY Zenon, <1>1, <1>8, <2>1, MendedMore
    <2>. QED
        BY Zenon, <1>2, <2>2
<1>11. AllValid(jobs, L) /\ AllValid(m, L) => AllValid(jobs', L)
    BY Zenon, <1>1, <1>5, <1>8 DEF AllValid
<1>12. ExchangeComes(jobs) => ExchangeComes(jobs')
    BY Zenon, <1>1, <1>5, <1>6, MovesSelect DEF ExchangeComes
<1>13. ASSUME Moves PROVE jobs' # <<>> /\ Head(jobs') = Render(TRUE)
    <2>1. f # <<>> /\ Head(f) = Render(TRUE)
        BY Zenon, <1>3, <1>6, <1>13, Single
    <2>2. f \o t # <<>> /\ Head(f \o t) = Render(TRUE)
        BY Zenon, <1>1, <2>1, HeadStays
    <2>3. (f \o t) \o l # <<>> /\ Head((f \o t) \o l) = Render(TRUE)
        BY Zenon, <1>1, <2>2, HeadStays
    <2>4. ((f \o t) \o l) \o m # <<>> /\ Head(((f \o t) \o l) \o m) = Render(TRUE)
        BY Zenon, <1>1, <2>3, HeadStays
    <2>. DEFINE a == ((f \o t) \o l) \o m
    <2>5. a \in Seq(Jobs) /\ a # <<>> /\ Head(a) = Render(TRUE) /\ jobs' = a \o g
        BY Zenon, <1>1, <1>2, <2>4
    <2>. HIDE DEF a
    <2>6. a \o g # <<>> /\ Head(a \o g) = Render(TRUE)
        BY Zenon, <1>1, <2>5, HeadStays
    <2>. QED
        BY Zenon, <2>5, <2>6
<1>14. In(m) \subseteq In(jobs')
    BY Zenon, <1>1
<1>. QED
    BY Zenon, <1>9, <1>10, <1>11, <1>12, <1>13, <1>14 DEF m

LEMMA ExchangeJobMoves == \A j \in ExchangeJobs : MovesExchange(j)
BY Zenon, JobsApart DEF MovesExchange, HeaderJobs

LEMMA SymbolJobMoves == \A j \in SymbolJobs : MovesSymbol(j)
BY Zenon, JobsApart DEF MovesSymbol, HeaderJobs

LEMMA ShowSymbol ==
    ASSUME Typing, Stage, IntervalIsSet, SymbolIsMended, Show, Going(ex)
    PROVE  SymbolFits(ex', url', who', jobs')
<1>. DEFINE L == ex.symbols
            m == ShowSets
            Goal == SymbolFits(ex', url', who', jobs')
<1>1. /\ ex' = ex /\ who' = who /\ url'.page = url.page
      /\ Moves => url' = NewPath(url, ex)
      /\ ~Moves => url' = url
    BY Zenon, ShowStep DEF RenderStep
<1>2. /\ Mended(jobs, L) /\ AllValid(m, L) => Mended(jobs', L)
      /\ Mended(m, L) => Mended(jobs', L)
      /\ AllValid(jobs, L) /\ AllValid(m, L) => AllValid(jobs', L)
      /\ ExchangeComes(jobs) => ExchangeComes(jobs')
      /\ In(m) \subseteq In(jobs')
      /\ Moves => jobs' # <<>> /\ Head(jobs') = Render(TRUE)
    BY Zenon, ShowMended
<1>3. SymbolFits(ex, url, who, jobs) /\ ex \in Selections /\ url \in URLs /\ IntervalFits(ex, url, jobs, conts)
    BY Zenon, SymbolIs, IntervalIs DEF Typing, SelectionTyped
<1>4. /\ ExchangeComes(jobs') => Goal
      /\ Renewed(jobs', url', who', ex') => Goal
      /\ HarmlessFor(url', who', ex') => Goal
      /\ Mended(jobs', L) => Goal
      /\ FixedFor(jobs', ex) => Goal
    BY Zenon, <1>1 DEF SymbolFits
<1>5. HarmlessFor(url, who, ex) => HarmlessFor(url', who', ex')
    BY Zenon, <1>1, <1>3, HarmlessStays DEF HarmlessFor
<1>. HIDE DEF m, L, Goal
<1>. SUFFICES Goal
    BY Zenon DEF Goal
<1>6. ASSUME AllValid(m, L), ~Renewed(jobs, url, who, ex) PROVE Goal
    BY Zenon, <1>2, <1>3, <1>4, <1>5, <1>6 DEF SymbolFits, FixedFor, L
<1>7. In(<<>>) = {} /\ AllValid(<<>>, L)
    BY Zenon, Nothing DEF AllValid
<1>8. CASE Moves
    <2>1. AllValid(m, L)
        BY Zenon, <1>7, <1>8, ShowParts DEF m
    <2>2. Renewed(jobs, url, who, ex) => Renewed(jobs', url', who', ex')
        BY Zenon, <1>1, <1>2, <1>8, RenderParts DEF Renewed
    <2>. QED
        BY Zenon, <1>4, <1>6, <2>1, <2>2
<1>9. CASE ~Checks
    <2>1. AllValid(m, L)
        BY Zenon, <1>7, <1>9, ShowParts DEF m
    <2>2. Ready(ex)
        BY Zenon, <1>3, ReadyMeans
    <2>3. ~Renewed(jobs, url, who, ex)
        BY Zenon, <1>9, <2>2 DEF Renewed, Checks
    <2>. QED
        BY Zenon, <1>6, <2>1, <2>3
<1>10. CASE Checks /\ ~Moves
    <2>1. m = Sets(url, ex)
        BY Zenon, <1>10, ShowParts DEF m
    <2>2. url' = url /\ NewPath(url, ex) = url
        BY Zenon, <1>1, <1>10 DEF Moves
    <2>3. CASE /\ url.interval \notin {Blank, ex.interval}
               /\ \A j \in In(m) : j \in IntervalJobs
        <3>1. \A j \in In(m) : ~MovesSymbol(j)
            BY Zenon, <2>3, HeaderApart DEF MovesSymbol
        <3>2. AllValid(m, L)
            BY Zenon, <3>1 DEF AllValid
        <3>3. AllValid(jobs, L)
            BY Zenon, <1>3, <2>3 DEF IntervalFits, AllValid
        <3>4. Renewed(jobs, url, who, ex) => FixedFor(jobs', ex)
            BY Zenon, <1>2, <3>2, <3>3, InitialFixed DEF Renewed, FixedFor, L
        <3>. QED
            BY Zenon, <1>4, <1>6, <3>2, <3>4
    <2>4. CASE m = SelectionSets(url, ex)
        <3>1. /\ \A j \in In(m) : j \in ExchangeJobs \cup SymbolJobs
              /\ \A j \in In(m) : j \in SymbolJobs => Valid(j, L) \/ \E x \in In(m) : x \in ExchangeJobs
              /\ (\E j \in In(m) : j \in ExchangeJobs) \/ m = SymbolSets(url, ex)
            BY Zenon, <1>3, <2>4, SelectionSetsAre DEF L
        <3>2. CASE \E j \in In(m) : j \in ExchangeJobs
            BY Zenon, <1>2, <1>4, <3>2, ExchangeJobMoves DEF ExchangeComes
        <3>3. CASE ~\E j \in In(m) : j \in ExchangeJobs
            <4>1. \A j \in In(m) : j \in SymbolJobs /\ Valid(j, L)
                BY Zenon, <3>1, <3>3
            <4>2. \A j \in In(m) : MovesSymbol(j) /\ Valid(j, L)
                BY Zenon, <4>1, SymbolJobMoves
            <4>3. AllValid(m, L)
                BY Zenon, <4>2 DEF AllValid
            <4>4. CASE m = <<>> /\ Renewed(jobs, url, who, ex)
                <5>1. HarmlessAt(url, ex)
                    BY Zenon, <1>3, <2>2, <3>1, <3>3, <4>4, HarmlessWhenInitial DEF Renewed
                <5>2. HarmlessFor(url', who', ex')
                    BY Zenon, <1>1, <2>2, <4>4, <5>1 DEF HarmlessFor, Renewed
                <5>. QED
                    BY Zenon, <1>4, <5>2
            <4>5. CASE m # <<>>
                <5>1. m \in Seq(Jobs)
                    BY Zenon, ShowParts DEF m
                <5>2. Mended(m, L)
                    BY Zenon, <4>2, <4>5, <5>1, MendedStart
                <5>. QED
                    BY Zenon, <1>2, <1>4, <5>2
            <4>. QED
                BY Zenon, <1>6, <4>3, <4>4, <4>5
        <3>. QED
            BY <3>2, <3>3
    <2>. QED
        BY Zenon, <1>3, <2>1, <2>3, <2>4, SetsAre
<1>. QED
    BY Zenon, <1>8, <1>9, <1>10

LEMMA OtherSymbol ==
    ASSUME OtherApply, SymbolIsMended, Going(ex)
    PROVE  SymbolFits(ex', url', who', jobs')
<1>. DEFINE L == ex.symbols
            t == Tail(jobs)
            f == <<Render(FALSE)>>
<1>1. /\ jobs # <<>> /\ jobs \in Seq(Jobs) /\ t \in Seq(Jobs) /\ In(jobs) = {Head(jobs)} \cup In(t)
      /\ Head(jobs).k = "set" /\ ~Selects(Head(jobs)) /\ ex' = ex /\ url' = url /\ who' = who
      /\ In(t) \subseteq In(jobs') /\ \A x \in In(jobs') : x \in In(t) \/ x = Render(FALSE)
      /\ jobs' = t \/ jobs' = f \o t
    BY Zenon DEF OtherApply
<1>2. SymbolFits(ex, url, who, jobs)
    BY Zenon, SymbolIs
<1>3. ~Selects(Render(FALSE)) /\ Render(FALSE) \in Jobs
    BY Zenon, RenderParts, JobsApart
<1>4. ~Renewed(jobs, url, who, ex)
    BY <1>1 DEF Renewed
<1>5. ExchangeComes(jobs) => ExchangeComes(jobs')
    BY Zenon, <1>1, MovesSelect DEF ExchangeComes
<1>6. FixedFor(jobs, ex) => FixedFor(jobs', ex)
    BY Zenon, <1>1, <1>3, MovesSelect DEF FixedFor, AllValid
<1>7. f \in Seq(Jobs)
    BY Zenon, <1>3, Single
<1>. HIDE DEF f, L
<1>8. ASSUME Mended(jobs, L) PROVE Mended(jobs', L)
    <2>1. Mended(t, L)
        BY Zenon, <1>1, <1>8, MendedKept, MovesSelect
    <2>. HIDE DEF t
    <2>2. Mended(f \o t, L)
        BY Zenon, <1>1, <1>7, <2>1, MendedBehind
    <2>. QED
        BY Zenon, <1>1, <2>1, <2>2
<1>. QED
    BY Zenon, <1>1, <1>2, <1>4, <1>5, <1>6, <1>8 DEF SymbolFits, L

LEMMA SelectSymbol ==
    ASSUME SelectApply, Stage, HeaderIsShown, SymbolIsMended, Going(ex')
    PROVE  SymbolFits(ex', url', who', jobs')
<1>. DEFINE L == ex.symbols
            j == Head(jobs)
            t == Tail(jobs)
            f == <<Render(TRUE)>>
            Goal == SymbolFits(ex', url', who', jobs')
<1>1. /\ jobs # <<>> /\ jobs \in Seq(Jobs) /\ t \in Seq(Jobs) /\ In(jobs) = {j} \cup In(t)
      /\ Selects(j) /\ ex' = Patched(ex, j.patch) /\ url' = url /\ who' = who
      /\ In(jobs') = {Render(TRUE)} \cup In(t) /\ Head(jobs') = Render(TRUE) /\ jobs' # <<>>
      /\ jobs' = f \o t
      /\ ex \in Selections
    BY Zenon DEF SelectApply, Typing, SelectionTyped
<1>2. ~Selects(Render(TRUE)) /\ Render(TRUE) \in Jobs /\ Render(TRUE).k = "render" /\ Render(TRUE).header
    BY Zenon, RenderParts, JobsApart
<1>3. f \in Seq(Jobs)
    BY Zenon, <1>2, Single
<1>. HIDE DEF L, t, f, Goal
<1>. SUFFICES Goal
    BY Zenon DEF Goal
<1>4. NoSelect(t) => NoSelect(jobs')
    BY Zenon, <1>1, <1>2 DEF NoSelect
<1>5. CASE Initial(ex') /\ NoSelect(t)
    BY Zenon, <1>4, <1>5, InitialFixed, NoSelectValid DEF FixedFor, SymbolFits, Goal
<1>6. CASE j \in HeaderJobs /\ Going(ex)
    <2>1. SymbolFits(ex, url, who, jobs)
        BY Zenon, <1>6, SymbolIs
    <2>2. ~Renewed(jobs, url, who, ex)
        BY <1>1 DEF Renewed, Selects
    <2>3. CASE j \in ExchangeJobs
        <3>1. Initial(ex')
            BY Zenon, <1>1, <2>3, ExchangeApplied
        <3>2. url.page \in Headers(who)
            BY Zenon, <1>1, <1>6, HeaderIs DEF Busy
        <3>. QED
            BY Zenon, <1>1, <1>2, <3>1, <3>2 DEF SymbolFits, Renewed, Goal
    <2>. SUFFICES ASSUME j \notin ExchangeJobs PROVE Goal
        BY Zenon, <2>3
    <2>4. ExchangeComes(jobs) => ExchangeComes(jobs')
        BY Zenon, <1>1 DEF ExchangeComes, MovesExchange
    <2>5. Mended(t, L) => Mended(jobs', L)
        BY Zenon, <1>1, <1>3, MendedBehind
    <2>6. AllValid(t, L) => AllValid(jobs', L)
        BY Zenon, <1>1, <1>2, MovesSelect DEF AllValid
    <2>7. Mended(jobs, L) => Mended(t, L) \/ (MovesSymbol(j) /\ Valid(j, L) /\ AllValid(t, L))
        BY Zenon, <1>1, MendedTail DEF t
    <2>8. AllValid(jobs, L) => AllValid(t, L) /\ (MovesSymbol(j) => Valid(j, L))
        BY Zenon, <1>1 DEF AllValid
    <2>9. CASE j \in IntervalJobs
        <3>1. SameButInterval(ex', ex)
            BY Zenon, <1>1, <2>9, IntervalApplied
        <3>2. ~MovesSymbol(j)
            BY Zenon, <2>9, HeaderApart DEF MovesSymbol
        <3>3. ex'.symbols = L /\ (Fixed(ex) => Fixed(ex'))
            BY Zenon, <3>1 DEF SameButInterval, Fixed, Initial, L
        <3>4. HarmlessFor(url, who, ex) => HarmlessFor(url', who', ex')
            BY Zenon, <1>1, <3>3 DEF HarmlessFor, HarmlessAt, L
        <3>5. Mended(jobs, L) => Mended(jobs', ex'.symbols)
            BY Zenon, <2>5, <2>7, <3>2, <3>3
        <3>6. FixedFor(jobs, ex) => FixedFor(jobs', ex')
            BY Zenon, <2>6, <2>8, <3>3 DEF FixedFor, L
        <3>. QED
            BY Zenon, <2>1, <2>2, <2>4, <3>4, <3>5, <3>6 DEF SymbolFits, Goal, L
    <2>10. CASE j \in SymbolJobs
        <3>1. ex'.symbols = L /\ (Valid(j, L) => Fixed(ex'))
            BY Zenon, <1>1, <2>10, SymbolApplied DEF L
        <3>2. MovesSymbol(j)
            BY Zenon, <2>10, SymbolJobMoves
        <3>3. HarmlessFor(url, who, ex) => HarmlessFor(url', who', ex')
            BY Zenon, <1>1, <3>1 DEF HarmlessFor, HarmlessAt, L
        <3>4. Mended(jobs, L) => Mended(jobs', ex'.symbols) \/ FixedFor(jobs', ex')
            BY Zenon, <2>5, <2>6, <2>7, <3>1 DEF FixedFor
        <3>5. FixedFor(jobs, ex) => FixedFor(jobs', ex')
            BY Zenon, <2>6, <2>8, <3>1, <3>2 DEF FixedFor, L
        <3>. QED
            BY Zenon, <2>1, <2>2, <2>4, <3>3, <3>4, <3>5 DEF SymbolFits, Goal, L
    <2>. QED
        BY Zenon, <1>6, <2>9, <2>10 DEF HeaderJobs
<1>. QED
    BY Zenon, <1>5, <1>6, SelectApplyStage DEF t

LEMMA MoreSymbol ==
    ASSUME MoreContinue, SymbolIsMended, Going(ex)
    PROVE  SymbolFits(ex', url', who', jobs')
<1>. DEFINE L == ex.symbols
            q == ContSets(Head(conts))
<1>1. /\ ex' = ex /\ url' = url /\ who' = who /\ In(jobs') = In(jobs) \cup In(q) /\ jobs' = jobs \o q
      /\ jobs \in Seq(Jobs) /\ q \in Seq(Jobs) /\ ~Rendering
      /\ \A j \in In(q) : j \in ExchangeJobs \cup SymbolJobs
      /\ \A j \in In(q) : j \in SymbolJobs => Valid(j, L) \/ \E x \in In(q) : x \in ExchangeJobs
    BY Zenon DEF MoreContinue, ContinueStep
<1>. HIDE DEF L, q
<1>2. SymbolFits(ex, url, who, jobs)
    BY Zenon, SymbolIs
<1>3. ~Renewed(jobs, url, who, ex)
    BY Zenon, <1>1 DEF Renewed, Rendering
<1>4. ExchangeComes(jobs) => ExchangeComes(jobs')
    BY Zenon, <1>1 DEF ExchangeComes
<1>5. (\E j \in In(q) : j \in ExchangeJobs) => ExchangeComes(jobs')
    BY Zenon, <1>1, ExchangeJobMoves DEF ExchangeComes
<1>6. (~\E j \in In(q) : j \in ExchangeJobs) => AllValid(q, L)
    BY Zenon, <1>1 DEF AllValid
<1>7. AllValid(q, L) => /\ Mended(jobs, L) => Mended(jobs', L)
                        /\ FixedFor(jobs, ex) => FixedFor(jobs', ex)
    BY Zenon, <1>1, MendedMore DEF FixedFor, AllValid, L
<1>. QED
    BY Zenon, <1>1, <1>2, <1>3, <1>4, <1>5, <1>6, <1>7 DEF SymbolFits, L

LEMMA StepsSymbol ==
    ASSUME Typing, Stage, HeaderIsShown, Settled, IntervalIsSet, SymbolIsMended, Steps
    PROVE  SymbolIsMended'
<1>. SUFFICES ASSUME Going(ex') PROVE SymbolFits(ex', url', who', jobs')
    BY Zenon, SymbolIs
<1>1. CASE TaskStep
    BY Zenon, <1>1, TaskSymbol, GoingTask
<1>2. CASE Redirect
    BY Zenon, <1>2, RedirectSymbol, RedirectIs DEF RenderStep
<1>3. CASE Show
    BY Zenon, <1>3, ShowSymbol, ShowStep DEF RenderStep
<1>4. CASE OtherApply
    BY Zenon, <1>4, OtherSymbol DEF OtherApply
<1>5. CASE SelectApply
    BY Zenon, <1>5, SelectSymbol
<1>6. CASE AskContinue
    <2>1. jobs' = jobs /\ ex' = ex /\ url' = url /\ who' = who
        BY Zenon, <1>6 DEF AskContinue, ContinueStep
    <2>2. SymbolFits(ex, url, who, jobs)
        BY Zenon, <2>1, SymbolIs
    <2>. QED
        BY Zenon, <2>1, <2>2
<1>7. ASSUME FirstContinue PROVE FALSE
    BY Zenon, <1>7, NotReady DEF FirstContinue, ContinueStep
<1>8. CASE MoreContinue
    BY Zenon, <1>8, MoreSymbol DEF MoreContinue
<1>. QED
    BY Zenon, <1>1, <1>2, <1>3, <1>4, <1>5, <1>6, <1>7, <1>8 DEF Steps

-----------------------------------------------------------------------------
(* The pages that follow the selection. *)

LEMMA OtherCon ==
    ASSUME OtherApply
    PROVE  LET j == Head(jobs)
           IN  /\ j \in JobsOf(j.container)
               /\ con'[j.container] = Patched(con[j.container], j.patch)
               /\ \A p \in Loaders : p # j.container => con'[p] = con[p]
               /\ ContainersOf(con)
<1>. DEFINE j == Head(jobs)
<1>1. /\ j \in Jobs /\ j.k = "set" /\ j.container \in Loaders
      /\ con' = [con EXCEPT ![j.container] = Patched(@, j.patch)] /\ ContainersOf(con)
    BY Zenon DEF OtherApply, Typing, PageTyped
<1>2. con = [p \in Loaders |-> con[p]]
    BY Zenon, <1>1 DEF ContainersOf
<1>. DEFINE x == j.container
            y == Patched(con[x], j.patch)
<1>3. x \in Loaders /\ con' = [con EXCEPT ![x] = y]
    BY Zenon, <1>1
<1>. HIDE DEF x, y, j
<1>4. con'[x] = y /\ \A p \in Loaders : p # x => con'[p] = con[p]
    BY <1>2, <1>3
<1>5. j \in JobsOf(x)
    BY Zenon, <1>1, JobContainer DEF x
<1>. QED
    BY Zenon, <1>1, <1>4, <1>5 DEF x, y, j

Apart(c, e) == c.exchange # e.exchangeName \/ c.code # e.currencyCodePair
Own(d, c)   == d \in {NoData, Arg(c.exchange, c.code)}
Coming(p, q) == \E j \in In(q) : j.k = "render" \/ Sets1(j, p)

PLGraphFits(c, e, q, m) ==
    /\ Own(c.data, c)
    /\ m = "plgraph" /\ Apart(c, e) /\ ~c.loading => Coming("plgraph", q)
    /\ \A j \in In(q) : Sets1(j, "plgraph") /\ j \in TaskJobs => Own(j.patch.data, j.patch)

LEMMA PLGraphIs ==
    /\ PLGraphFollows <=> PLGraphFits(con["plgraph"], ex, jobs, mounted)
    /\ PLGraphFollows' <=> PLGraphFits(con'["plgraph"], ex', jobs', mounted')
<1>1. PLGraphFollows <=> PLGraphFits(con["plgraph"], ex, jobs, mounted)
    BY Zenon DEF PLGraphFollows, PLGraphFits, DataIsOwn, Own, Apart, DiffersFrom, Coming
<1>2. PLGraphFollows' <=> PLGraphFits(con'["plgraph"], ex', jobs', mounted')
    BY Zenon DEF PLGraphFollows, PLGraphFits, DataIsOwn, Own, Apart, DiffersFrom, Coming
<1>. QED
    BY <1>1, <1>2

LEMMA RenderComes ==
    ASSUME NEW q, NEW p, Render(TRUE) \in In(q) \/ Render(FALSE) \in In(q)
    PROVE  Coming(p, q)
BY Zenon, RenderParts DEF Coming

LEMMA OtherComes ==
    ASSUME OtherApply, NEW p, Coming(p, jobs)
    PROVE  Head(jobs).container = p \/ Coming(p, jobs')
<1>1. Head(jobs).k # "render"
    BY DEF OtherApply
<1>. QED
    BY Zenon, <1>1 DEF OtherApply, Coming, Sets1

LEMMA ContinueComes ==
    ASSUME AskContinue \/ FirstContinue \/ MoreContinue, NEW p, Coming(p, jobs)
    PROVE  Coming(p, jobs')
BY Zenon, ContinueKeeps DEF Coming

LEMMA TaskComes ==
    ASSUME Typing, Stage, TaskStep, NEW p
    PROVE  /\ ~Coming(p, jobs)
           /\ \A j \in In(jobs') : j \in TaskJobs => TaskFacts(j)
           /\ \A j \in In(jobs') : j \in TaskJobs \/ j = Render(TRUE)
<1>1. In(jobs) = {}
    BY Zenon, GoingTask
<1>2. ASSUME NEW j, TaskFacts(j), jobs' = <<j>> PROVE In(jobs') = {j}
    BY Zenon, <1>2, PlainJob
<1>3. jobs' = <<Render(TRUE)>> => In(jobs') = {Render(TRUE)}
    BY Zenon, PlainJob
<1>4. jobs' = <<>> => In(jobs') = {}
    BY Zenon, Nothing
<1>5. Render(TRUE) \notin TaskJobs
    BY Zenon, RenderParts, JobsApart
<1>6. (\E j : TaskFacts(j) /\ In(jobs') = {j}) \/ In(jobs') = {Render(TRUE)} \/ In(jobs') = {}
    BY Zenon, <1>2, <1>3, <1>4 DEF TaskStep
<1>7. \A j : TaskFacts(j) => j \in TaskJobs
    BY Zenon DEF TaskFacts
<1>. QED
    BY Zenon, <1>1, <1>5, <1>6, <1>7 DEF Coming

LEMMA StepsPLGraph ==
    ASSUME Typing, Stage, Alone, PLGraphFollows, Steps
    PROVE  PLGraphFollows'
<1>. DEFINE c == con["plgraph"]
            d == con'["plgraph"]
            Goal == PLGraphFits(d, ex', jobs', mounted')
<1>. SUFFICES Goal
    BY Zenon, PLGraphIs
<1>1. PLGraphFits(c, ex, jobs, mounted)
    BY Zenon, PLGraphIs
<1>2. NoTask(jobs') => \A j \in In(jobs') : Sets1(j, "plgraph") /\ j \in TaskJobs => Own(j.patch.data, j.patch)
    BY Zenon DEF NoTask
<1>3. ~TaskStep => NoTask(jobs')
    BY Zenon, StepsAlone
<1>4. "plgraph" \in Loaders
    BY LoaderNames
<1>. HIDE DEF Goal
<1>5. CASE TaskStep
    <2>1. d = c /\ ex' = ex /\ mounted' = mounted /\ ~Coming("plgraph", jobs)
        BY Zenon, <1>5, GoingTask, TaskComes
    <2>2. \A j \in In(jobs') : j \in TaskJobs => TaskFacts(j)
        BY Zenon, <1>5, TaskComes
    <2>3. \A j \in In(jobs') : Sets1(j, "plgraph") /\ j \in TaskJobs => Own(j.patch.data, j.patch)
        BY Zenon, <2>2 DEF TaskFacts, Own
    <2>. HIDE DEF c, d
    <2>. QED
        BY Zenon, <1>1, <2>1, <2>3 DEF PLGraphFits, Goal
<1>. SUFFICES ASSUME ~TaskStep PROVE Goal
    BY Zenon, <1>5
<1>6. ASSUME Own(d.data, d), mounted' = "plgraph" /\ Apart(d, ex') /\ ~d.loading => Coming("plgraph", jobs')
      PROVE  Goal
    BY Zenon, <1>2, <1>3, <1>6 DEF PLGraphFits, Goal
<1>7. Own(c.data, c) /\ (mounted = "plgraph" /\ Apart(c, ex) /\ ~c.loading => Coming("plgraph", jobs))
    BY Zenon, <1>1 DEF PLGraphFits
<1>8. CASE Redirect
    <2>1. d = c /\ Render(TRUE) \in In(jobs')
        BY Zenon, <1>8, RedirectIs DEF RenderStep
    <2>. HIDE DEF c, d
    <2>. QED
        BY Zenon, <1>6, <1>7, <2>1, RenderComes
<1>9. CASE Show
    <2>1. d = c /\ ex' = ex /\ mounted' = url.page /\ \A j \in In(PageSets(url.page)) : j \in In(jobs')
        BY Zenon, <1>9, ShowStep DEF RenderStep
    <2>2. ASSUME mounted' = "plgraph", Apart(c, ex), ~c.loading PROVE Coming("plgraph", jobs')
        <3>. DEFINE a == AskPLGraph(SelectionArg(ex))
        <3>1. ex \in Selections /\ ContainersOf(con)
            BY Zenon DEF Typing, SelectionTyped, PageTyped
        <3>2. url.page = "plgraph" /\ DiffersFrom("plgraph") /\ ~con["plgraph"].loading
            BY Zenon, <2>1, <2>2 DEF Apart, DiffersFrom
        <3>3. a \in In(PageSets(url.page))
            BY Zenon, <3>1, <3>2, PageSetsAre
        <3>4. IsJobOf(a, url.page)
            BY Zenon, <3>1, <3>3, PageSetsAre
        <3>. QED
            BY Zenon, <2>1, <3>2, <3>3, <3>4 DEF Coming, Sets1, IsJobOf
    <2>. HIDE DEF c, d
    <2>. QED
        BY Zenon, <1>6, <1>7, <2>1, <2>2
<1>10. CASE OtherApply
    <2>. DEFINE j == Head(jobs)
    <2>1. ex' = ex /\ mounted' = mounted /\ (mounted = j.container => Render(FALSE) \in In(jobs'))
        BY Zenon, <1>10 DEF OtherApply
    <2>2. CASE j.container # "plgraph"
        <3>1. d = c
            BY Zenon, <1>4, <1>10, <2>2, OtherCon
        <3>. HIDE DEF c, d
        <3>. QED
            BY Zenon, <1>6, <1>7, <1>10, <2>1, <2>2, <3>1, OtherComes
    <2>3. CASE j.container = "plgraph"
        <3>1. j \in JobsOf("plgraph") /\ d = Patched(c, j.patch) /\ c \in FollowStates
            BY Zenon, <1>10, <2>3, OtherCon DEF ContainersOf
        <3>2. mounted' = "plgraph" => Coming("plgraph", jobs')
            BY Zenon, <2>1, <2>3, RenderComes
        <3>3. ASSUME d.data = c.data, d.exchange = c.exchange, d.code = c.code PROVE Own(d.data, d)
            BY Zenon, <1>7, <3>3 DEF Own
        <3>4. ASSUME j \in GraphJobs, d.data = j.patch.data, d.exchange = j.patch.exchange, d.code = j.patch.code
              PROVE  Own(d.data, d)
            <4>1. j \in In(jobs) /\ Sets1(j, "plgraph") /\ j \in TaskJobs
                BY Zenon, <1>10, <2>3, <3>4 DEF OtherApply, Sets1, TaskJobs
            <4>2. Own(j.patch.data, j.patch)
                BY Zenon, <1>1, <4>1 DEF PLGraphFits
            <4>. QED
                BY Zenon, <3>4, <4>2 DEF Own
        <3>5. \/ d.data = c.data /\ d.exchange = c.exchange /\ d.code = c.code
              \/ /\ j \in GraphJobs /\ d.data = j.patch.data /\ d.exchange = j.patch.exchange
                 /\ d.code = j.patch.code
            <4>. HIDE DEF c, d, j
            <4>. QED
                BY <3>1, PLGraphApplied
        <3>. QED
            BY Zenon, <1>6, <3>2, <3>3, <3>4, <3>5
    <2>. QED
        BY <2>2, <2>3
<1>11. CASE SelectApply
    <2>1. d = c /\ Render(TRUE) \in In(jobs')
        BY Zenon, <1>11 DEF SelectApply
    <2>. HIDE DEF c, d
    <2>. QED
        BY Zenon, <1>6, <1>7, <2>1, RenderComes
<1>12. CASE AskContinue \/ FirstContinue \/ MoreContinue
    <2>1. d = c /\ ex' = ex /\ mounted' = mounted
        BY Zenon, <1>12, ContinueKeeps
    <2>. HIDE DEF c, d
    <2>. QED
        BY Zenon, <1>6, <1>7, <1>12, <2>1, ContinueComes
<1>. QED
    BY Zenon, <1>8, <1>9, <1>10, <1>11, <1>12 DEF Steps

ExplanationFits(c, e, q, m) ==
    /\ Own(c.data, c)
    /\ c.data # NoData => c.exchange # Blank
    /\ c.exchange # Blank => Ready(e)
    /\ \A j \in In(q) : Sets1(j, "explanation") /\ j \in TaskJobs => j.patch.data = Arg(c.exchange, c.code)
    /\ \A j \in In(q) : Sets1(j, "explanation") => Ready(e)
    /\ m = "explanation" /\ Apart(c, e) /\ Ready(e) => Coming("explanation", q)

LEMMA ExplanationIs ==
    /\ ExplanationFollows <=> ExplanationFits(con["explanation"], ex, jobs, mounted)
    /\ ExplanationFollows' <=> ExplanationFits(con'["explanation"], ex', jobs', mounted')
<1>1. ExplanationFollows <=> ExplanationFits(con["explanation"], ex, jobs, mounted)
    BY Zenon DEF ExplanationFollows, ExplanationFits, DataIsOwn, Own, Apart, DiffersFrom, Coming
<1>2. ExplanationFollows' <=> ExplanationFits(con'["explanation"], ex', jobs', mounted')
    BY Zenon DEF ExplanationFollows, ExplanationFits, DataIsOwn, Own, Apart, DiffersFrom, Coming
<1>. QED
    BY <1>1, <1>2

LEMMA ReadyKept ==
    ASSUME SelectApply, Stage, Ready(ex)
    PROVE  Ready(ex')
<1>1. Typing /\ ex \in Selections /\ ex' = Patched(ex, Head(jobs).patch)
    BY Zenon DEF SelectApply, Typing, SelectionTyped
<1>2. Going(ex) /\ ex # emptySelection
    BY Zenon, <1>1, ReadyMeans, NotReady
<1>3. Head(jobs) \in HeaderJobs
    BY Zenon, <1>2, SelectApplyStage
<1>. DEFINE j == Head(jobs)
<1>. HIDE DEF j
<1>4. Going(ex') /\ ex' \in Selections
    BY <1>1, <1>2, <1>3, HeaderApplied DEF j
<1>. QED
    BY Zenon, <1>4, GoingFacts DEF Applied

LEMMA HeaderKind == \A j : j \in HeaderJobs \/ j \in SelectJobs => j.k = "set" /\ j.container = "exchange"
<1>1. \A j \in HeaderJobs : Selects(j)
    BY Zenon, JobsApart
<1>2. \A j \in SelectJobs : Selects(j)
    BY Zenon, SelectJobKind DEF IsJobOf, Selects
<1>. QED
    BY Zenon, <1>1, <1>2 DEF Selects

(* A render asks for an explanation only when there is a selection.          *)
LEMMA RenderExplains ==
    ASSUME Typing, Stage, Redirect \/ Show, NEW j \in In(jobs'), Sets1(j, "explanation")
    PROVE  j \in In(jobs) \/ Ready(ex)
<1>1. RenderStep
    BY Zenon, RedirectIs, ShowStep
<1>2. "explanation" # "signals" /\ "explanation" # "exchange" /\ "render" # "set"
    OBVIOUS
<1>3. j # ClearJob /\ j \notin Renders /\ j \notin HeaderJobs
    BY Zenon, <1>2, ClearJobKind, RenderParts, HeaderKind DEF Sets1, IsJobOf
<1>4. j \in In(Tail(jobs)) => j \in In(jobs)
    BY Zenon, <1>1 DEF RenderStep
<1>5. j \in In(Tail(jobs)) \/ j \in PageJobs
    BY Zenon, <1>1, <1>3 DEF RenderStep, Asks, Fetched
<1>6. CASE Redirect
    <2>1. j \in In(Tail(jobs))
        BY Zenon, <1>3, <1>6, RedirectShape, RenderParts
    <2>. QED
        BY <1>4, <2>1
<1>7. CASE Show
    <2>1. j \in In(Tail(jobs)) \/ j \in In(PageSets(url.page))
        BY Zenon, <1>3, <1>5, <1>7, ShowStep
    <2>2. ASSUME j \in In(PageSets(url.page)) PROVE Ready(ex)
        <3>1. ex \in Selections /\ ContainersOf(con)
            BY Zenon DEF Typing, SelectionTyped, PageTyped
        <3>2. url.page = "explanation"
            BY Zenon, <2>2, <3>1, PageSetsAre DEF IsJobOf, Sets1
        <3>3. Selected2(ex)
            BY Zenon, <2>2, <3>1, <3>2, PageSetsAre
        <3>. QED
            BY Zenon, <3>1, <3>3, StageOf, ReadyMeans
    <2>. QED
        BY <1>4, <2>1, <2>2
<1>. QED
    BY <1>6, <1>7

LEMMA StepsExplanation ==
    ASSUME Typing, Stage, Alone, ExplanationFollows, Steps
    PROVE  ExplanationFollows'
<1>. DEFINE c == con["explanation"]
            d == con'["explanation"]
            Goal == ExplanationFits(d, ex', jobs', mounted')
<1>. SUFFICES Goal
    BY Zenon, ExplanationIs
<1>1. ExplanationFits(c, ex, jobs, mounted)
    BY Zenon, ExplanationIs
<1>2. NoTask(jobs') => \A j \in In(jobs') : Sets1(j, "explanation") /\ j \in TaskJobs
                                              => j.patch.data = Arg(d.exchange, d.code)
    BY Zenon DEF NoTask
<1>3. ~TaskStep => NoTask(jobs')
    BY Zenon, StepsAlone
<1>4. "explanation" \in Loaders /\ "explanation" # "exchange" /\ "render" # "set"
    BY LoaderNames
<1>. HIDE DEF Goal
<1>5. CASE TaskStep
    <2>1. d = c /\ ex' = ex /\ mounted' = mounted /\ ~Coming("explanation", jobs)
        BY Zenon, <1>5, GoingTask, TaskComes
    <2>2. /\ \A j \in In(jobs') : j \in TaskJobs => TaskFacts(j)
          /\ \A j \in In(jobs') : j \in TaskJobs \/ j = Render(TRUE)
        BY Zenon, <1>5, TaskComes
    <2>3. \A j \in In(jobs') : Sets1(j, "explanation") => j \in TaskJobs
        BY Zenon, <1>4, <2>2, RenderParts DEF Sets1
    <2>4. \A j \in In(jobs') : Sets1(j, "explanation") => c.exchange # Blank /\ j.patch.data = Arg(c.exchange, c.code)
        BY Zenon, <2>2, <2>3 DEF TaskFacts
    <2>. HIDE DEF c, d
    <2>. QED
        BY Zenon, <1>1, <2>1, <2>4 DEF ExplanationFits, Goal
<1>. SUFFICES ASSUME ~TaskStep PROVE Goal
    BY Zenon, <1>5
<1>6. ASSUME Own(d.data, d), d.data # NoData => d.exchange # Blank, d.exchange # Blank => Ready(ex'),
             \A j \in In(jobs') : Sets1(j, "explanation") => Ready(ex'),
             mounted' = "explanation" /\ Apart(d, ex') /\ Ready(ex') => Coming("explanation", jobs')
      PROVE  Goal
    BY Zenon, <1>2, <1>3, <1>6 DEF ExplanationFits, Goal
<1>7. /\ Own(c.data, c) /\ (c.data # NoData => c.exchange # Blank) /\ (c.exchange # Blank => Ready(ex))
      /\ \A j \in In(jobs) : Sets1(j, "explanation") => Ready(ex)
      /\ mounted = "explanation" /\ Apart(c, ex) /\ Ready(ex) => Coming("explanation", jobs)
    BY Zenon, <1>1 DEF ExplanationFits
<1>8. CASE Redirect
    <2>1. d = c /\ ex' = ex /\ Render(TRUE) \in In(jobs')
        BY Zenon, <1>8, RedirectIs DEF RenderStep
    <2>2. \A j \in In(jobs') : Sets1(j, "explanation") => Ready(ex)
        BY Zenon, <1>7, <1>8, RenderExplains
    <2>. HIDE DEF c, d
    <2>. QED
        BY Zenon, <1>6, <1>7, <2>1, <2>2, RenderComes
<1>9. CASE Show
    <2>1. d = c /\ ex' = ex /\ mounted' = url.page /\ \A j \in In(PageSets(url.page)) : j \in In(jobs')
        BY Zenon, <1>9, ShowStep DEF RenderStep
    <2>2. ASSUME mounted' = "explanation", Apart(c, ex), Ready(ex) PROVE Coming("explanation", jobs')
        <3>. DEFINE a == AskExplanation(SelectionArg(ex))
        <3>1. ex \in Selections /\ ContainersOf(con)
            BY Zenon DEF Typing, SelectionTyped, PageTyped
        <3>2. url.page = "explanation" /\ DiffersFrom("explanation")
            BY Zenon, <2>1, <2>2 DEF Apart, DiffersFrom
        <3>3. Selected2(ex)
            BY Zenon, <2>2, <3>1, StageOf, ReadyMeans
        <3>4. a \in In(PageSets(url.page))
            BY Zenon, <3>1, <3>2, <3>3, PageSetsAre
        <3>5. IsJobOf(a, url.page)
            BY Zenon, <3>1, <3>4, PageSetsAre
        <3>. QED
            BY Zenon, <2>1, <3>2, <3>4, <3>5 DEF Coming, Sets1, IsJobOf
    <2>3. \A j \in In(jobs') : Sets1(j, "explanation") => Ready(ex)
        BY Zenon, <1>7, <1>9, RenderExplains
    <2>. HIDE DEF c, d
    <2>. QED
        BY Zenon, <1>6, <1>7, <2>1, <2>2, <2>3
<1>10. CASE OtherApply
    <2>. DEFINE j == Head(jobs)
    <2>1. /\ ex' = ex /\ mounted' = mounted /\ (mounted = j.container => Render(FALSE) \in In(jobs'))
          /\ j \in In(jobs) /\ j.k = "set" /\ \A x \in In(jobs') : x \in In(jobs) \/ x = Render(FALSE)
        BY Zenon, <1>10 DEF OtherApply
    <2>2. \A x \in In(jobs') : Sets1(x, "explanation") => Ready(ex)
        BY Zenon, <1>4, <1>7, <2>1, RenderParts DEF Sets1
    <2>3. CASE j.container # "explanation"
        <3>1. d = c
            BY Zenon, <1>4, <1>10, <2>3, OtherCon
        <3>. HIDE DEF c, d
        <3>. QED
            BY Zenon, <1>6, <1>7, <1>10, <2>1, <2>2, <2>3, <3>1, OtherComes
    <2>4. CASE j.container = "explanation"
        <3>1. j \in JobsOf("explanation") /\ d = Patched(c, j.patch) /\ c \in FollowStates
            BY Zenon, <1>10, <2>4, OtherCon DEF ContainersOf
        <3>2. mounted' = "explanation" => Coming("explanation", jobs')
            BY Zenon, <2>1, <2>4, RenderComes
        <3>3. Ready(ex)
            BY Zenon, <1>7, <2>1, <2>4 DEF Sets1
        <3>4. \/ d.data = NoData
              \/ \E arg \in FullArgs : /\ j = Explained(arg) /\ j.patch.data = arg /\ d.data = arg
                                       /\ d.exchange = c.exchange /\ d.code = c.code
            <4>. HIDE DEF c, d, j
            <4>. QED
                BY <3>1, ExplanationApplied
        <3>5. ASSUME d.data # NoData PROVE d.data = Arg(d.exchange, d.code) /\ d.exchange # Blank
            <4>1. PICK arg \in FullArgs : /\ j = Explained(arg) /\ j.patch.data = arg /\ d.data = arg
                                          /\ d.exchange = c.exchange /\ d.code = c.code
                BY <3>4, <3>5
            <4>2. j \in TaskJobs
                BY Zenon, <4>1 DEF TaskJobs
            <4>3. arg = Arg(c.exchange, c.code)
                BY Zenon, <1>1, <2>1, <2>4, <4>1, <4>2 DEF ExplanationFits, Sets1
            <4>4. arg.exchange # Blank /\ arg.exchange = c.exchange
                BY <4>3, FullArgParts, ArgFacts
            <4>. HIDE DEF c, d
            <4>. QED
                BY Zenon, <4>1, <4>3, <4>4
        <3>6. Own(d.data, d)
            BY Zenon, <3>5 DEF Own
        <3>. HIDE DEF d
        <3>. QED
            BY Zenon, <1>6, <2>1, <2>2, <3>2, <3>3, <3>5, <3>6
    <2>. QED
        BY <2>3, <2>4
<1>11. CASE SelectApply
    <2>1. d = c /\ Render(TRUE) \in In(jobs') /\ (Ready(ex) => Ready(ex'))
          /\ \A x \in In(jobs') : x \in In(jobs) \/ x = Render(TRUE)
        BY Zenon, <1>11, ReadyKept DEF SelectApply
    <2>2. \A x \in In(jobs') : Sets1(x, "explanation") => Ready(ex')
        BY Zenon, <1>4, <1>7, <2>1, RenderParts DEF Sets1
    <2>. HIDE DEF c, d
    <2>. QED
        BY Zenon, <1>6, <1>7, <2>1, <2>2, RenderComes
<1>12. CASE AskContinue \/ FirstContinue \/ MoreContinue
    <2>1. d = c /\ ex' = ex /\ mounted' = mounted
        BY Zenon, <1>12, ContinueKeeps
    <2>2. \A x \in In(jobs') : Sets1(x, "explanation") => Ready(ex)
        BY Zenon, <1>4, <1>7, <1>12, ContinueKeeps, HeaderKind DEF Sets1
    <2>. HIDE DEF c, d
    <2>. QED
        BY Zenon, <1>6, <1>7, <1>12, <2>1, <2>2, ContinueComes
<1>. QED
    BY Zenon, <1>8, <1>9, <1>10, <1>11, <1>12 DEF Steps

-----------------------------------------------------------------------------
(* The editor of the configuration. *)

Shows(c) == ~c.loading /\ c.data # NoData
Rends(q) == q # <<>> /\ Head(q).k = "render"

EditorFits(on, c, q, t, m) ==
    /\ on => Rends(q) \/ Shows(c)
    /\ m = "configuration" /\ ~on /\ Shows(c) => Rends(q) /\ Ask("validate", c.data) \in In(t)

LEMMA EditorIs ==
    /\ EditorIsShown <=> EditorFits(editor.on, con["configuration"], jobs, conts, mounted)
    /\ EditorIsShown' <=> EditorFits(editor'.on, con'["configuration"], jobs', conts', mounted')
<1>1. EditorIsShown <=> EditorFits(editor.on, con["configuration"], jobs, conts, mounted)
    BY Zenon DEF EditorIsShown, EditorFits, Rendering, Shown, Rends, Shows, Config
<1>2. EditorIsShown' <=> EditorFits(editor'.on, con'["configuration"], jobs', conts', mounted')
    BY Zenon DEF EditorIsShown, EditorFits, Rendering, Shown, Rends, Shows, Config
<1>. QED
    BY <1>1, <1>2

LEMMA EditorStays ==
    ASSUME EditorIsShown, ~Rends(jobs), con'["configuration"] = con["configuration"],
           editor'.on = editor.on, mounted' = mounted
    PROVE  EditorIsShown'
BY Zenon, EditorIs DEF EditorFits

LEMMA EditorRendered ==
    ASSUME RenderStep
    PROVE  /\ editor'.on <=> mounted' = "configuration" /\ Shows(con["configuration"])
           /\ editor'.on /\ editor.on => editor' = editor
           /\ editor'.on /\ ~editor.on => editor'.text = con["configuration"].data.text
<1>. DEFINE shown == mounted' = "configuration" /\ Shown(mounted')
            fresh == [on |-> TRUE, text |-> con[mounted'].data.text, timer |-> FALSE]
<1>1. editor' = IF ~shown THEN noEditor ELSE IF editor.on THEN editor ELSE fresh
    BY Zenon DEF RenderStep, Rendered, ShowEditor
<1>2. ~noEditor.on /\ fresh.on /\ fresh.text = con[mounted'].data.text
    BY DEF noEditor
<1>3. shown <=> mounted' = "configuration" /\ Shows(con["configuration"])
    BY Zenon DEF Shown, Shows
<1>4. shown => mounted' = "configuration"
    OBVIOUS
<1>. HIDE DEF shown, fresh
<1>. QED
    BY Zenon, <1>1, <1>2, <1>3, <1>4

LEMMA EditorApplied ==
    ASSUME OtherApply, EditorIsShown
    PROVE  EditorIsShown'
<1>. DEFINE j == Head(jobs)
            c == con["configuration"]
            d == con'["configuration"]
<1>0. "render" # "set" /\ "configuration" \in Loaders
    BY LoaderNames
<1>1. /\ Typing /\ j.k = "set" /\ editor' = editor /\ mounted' = mounted
      /\ mounted = j.container => Head(jobs') = Render(FALSE) /\ jobs' # <<>>
      /\ \/ j.then = NoThen /\ conts' = conts
         \/ j.then \in AskConts /\ conts' = Append(conts, j.then)
    BY Zenon DEF OtherApply
<1>2. ~Rends(jobs)
    BY Zenon, <1>0, <1>1 DEF Rends
<1>3. CASE j.container # "configuration"
    <2>1. d = c
        BY Zenon, <1>0, <1>3, OtherCon
    <2>. QED
        BY Zenon, <1>1, <1>2, <2>1, EditorStays
<1>4. CASE j.container = "configuration"
    <2>1. j \in JobsOf("configuration") /\ d = Patched(c, j.patch) /\ c \in ConfigStates
        BY Zenon, <1>4, OtherCon DEF ContainersOf
    <2>2. mounted = "configuration" => Rends(jobs')
        BY Zenon, <1>1, <1>4, RenderParts DEF Rends
    <2>3. editor.on => mounted = "configuration"
        BY Zenon, <1>1 DEF Typing, EditorTyped
    <2>4. mounted = "configuration" /\ ~editor.on => ~Shows(c)
        BY Zenon, <1>2, EditorIs DEF EditorFits
    <2>5. \/ \E text \in Texts : j = ConfigJob(text) /\ d.data = TextArg(text)
          \/ d.loading = c.loading /\ d.data = c.data
          \/ d.loading = TRUE
        <3>. HIDE DEF c, d, j
        <3>. QED
            BY <2>1, ConfigApplied
    <2>6. ASSUME NEW text \in Texts, j = ConfigJob(text), d.data = TextArg(text)
          PROVE  Ask("validate", d.data) \in In(conts')
        <3>0. ConfigJob(text).then = Ask("validate", TextArg(text))
            BY Zenon, ConfigJobParts
        <3>9. Ask("validate", TextArg(text)) # NoThen
            BY AskParts
        <3>1. j.then = Ask("validate", d.data) /\ j.then # NoThen
            <4>. HIDE DEF d, j
            <4>. QED
                BY Zenon, <2>6, <3>0, <3>9
        <3>2. conts \in Seq(Conts) /\ j.then \in Conts /\ conts' = Append(conts, j.then)
            BY Zenon, <1>1, <3>1 DEF Typing, QueueTyped, Conts
        <3>. DEFINE x == j.then
        <3>. HIDE DEF x
        <3>3. x \in Conts /\ conts' = Append(conts, x)
            BY <3>2 DEF x
        <3>4. In(conts') = In(conts) \cup {x}
            BY <3>2, <3>3, InAppend
        <3>. QED
            BY Zenon, <3>1, <3>4 DEF x
    <2>7. mounted = "configuration" /\ ~editor.on /\ Shows(d) => Ask("validate", d.data) \in In(conts')
        <3>. HIDE DEF c, d, j
        <3>. QED
            BY Zenon, <2>4, <2>5, <2>6 DEF Shows
    <2>. HIDE DEF c
    <2>. QED
        BY Zenon, <1>1, <2>2, <2>3, <2>7, EditorIs DEF EditorFits
<1>. QED
    BY <1>3, <1>4

LEMMA SetIsNoRender ==
    ASSUME OtherApply \/ SelectApply
    PROVE  ~Rends(jobs)
<1>1. "render" # "set"
    OBVIOUS
<1>. QED
    BY Zenon, <1>1 DEF OtherApply, SelectApply, Selects, Rends

LEMMA StepsEditor ==
    ASSUME Typing, Stage, EditorIsShown, Steps
    PROVE  EditorIsShown'
<1>1. CASE TaskStep
    <2>1. jobs = <<>> /\ con' = con /\ mounted' = mounted /\ editor'.on = editor.on
        BY Zenon, <1>1, GoingTask DEF TaskStep
    <2>. QED
        BY Zenon, <2>1, EditorStays DEF Rends
<1>2. CASE Redirect \/ Show
    <2>1. RenderStep /\ con' = con
        BY Zenon, <1>2, RedirectIs, ShowStep DEF RenderStep
    <2>. QED
        BY Zenon, <2>1, EditorRendered, EditorIs DEF EditorFits
<1>3. CASE OtherApply
    BY Zenon, <1>3, EditorApplied
<1>4. CASE SelectApply
    <2>1. con' = con /\ mounted' = mounted /\ editor' = editor
        BY Zenon, <1>4 DEF SelectApply
    <2>. QED
        BY Zenon, <1>4, <2>1, SetIsNoRender, EditorStays
<1>5. CASE AskContinue \/ FirstContinue \/ MoreContinue
    <2>1. con' = con /\ mounted' = mounted /\ editor' = editor /\ ~Rends(jobs)
        BY Zenon, <1>5, ContinueKeeps DEF ContinueStep, Rendering, Rends
    <2>. QED
        BY Zenon, <2>1, EditorStays
<1>. QED
    BY Zenon, <1>1, <1>2, <1>3, <1>4, <1>5 DEF Steps

-----------------------------------------------------------------------------
(* The verdict. *)

ReloadsIn(c, q) == OpeningJob("configuration") \in In(q) \/ c.loading

Judged(text, c, q, n) ==
    /\ \A r \in DOMAIN n : Verdicts(r) => r.arg.text = text
    /\ \A x \in AnyText : VerdictJob(x) \in In(q) => x = text
    /\ (\E r \in DOMAIN n : Verdicts(r)) \/ VerdictJob(text) \in In(q) \/ c.verdict = text

Awaits(e, c, q, t, n) ==
    ReloadsIn(c, q) \/ Ask("validate", TextArg(e.text)) \in In(t) \/ Judged(e.text, c, q, n)

LEMMA VerdictIs ==
    /\ VerdictComes <=>
         (editor.on /\ ~editor.timer /\ ~gaveUp /\ ~strayed =>
            Awaits(editor, con["configuration"], jobs, conts, net))
    /\ VerdictComes' <=>
         (editor'.on /\ ~editor'.timer /\ ~gaveUp' /\ ~strayed' =>
            Awaits(editor', con'["configuration"], jobs', conts', net'))
<1>1. VerdictComes <=>
         (editor.on /\ ~editor.timer /\ ~gaveUp /\ ~strayed =>
            Awaits(editor, con["configuration"], jobs, conts, net))
    BY Zenon DEF VerdictComes, Awaits, ReloadsIn, Judged, Reloads, ToBeAsked, Config, Verdicts
<1>2. VerdictComes' <=>
         (editor'.on /\ ~editor'.timer /\ ~gaveUp' /\ ~strayed' =>
            Awaits(editor', con'["configuration"], jobs', conts', net'))
    BY Zenon DEF VerdictComes, Awaits, ReloadsIn, Judged, Reloads, ToBeAsked, Config, Verdicts
<1>. QED
    BY <1>1, <1>2

LEMMA VerdictJobKinds ==
    /\ \A x \in AnyText : VerdictJob(x) \in TaskJobs
    /\ \A x, y : VerdictJob(x) = VerdictJob(y) => x = y
    /\ OpeningJob("configuration") \in PageJobs
    /\ OpeningJob("configuration") \notin TaskJobs
    /\ OpeningJob("configuration") \notin Renders /\ ~Selects(OpeningJob("configuration"))
    /\ \A x \in AnyText : ~Selects(VerdictJob(x)) /\ VerdictJob(x) \notin Renders
<1>1. \A x \in AnyText : VerdictJob(x) \in TaskJobs /\ VerdictJob(x) \in ConfigTaskJobs
    BY Zenon DEF TaskJobs, ConfigTaskJobs
<1>2. ASSUME NEW x, NEW y, VerdictJob(x) = VerdictJob(y) PROVE x = y
    <2>1. VerdictJob(x).patch = VerdictPatch(x) /\ VerdictJob(y).patch = VerdictPatch(y)
        BY ConfigJobParts
    <2>2. VerdictPatch(x).verdict = x /\ VerdictPatch(y).verdict = y
        BY DEF VerdictPatch
    <2>. QED
        BY Zenon, <1>2, <2>1, <2>2
<1>3. OpeningJob("configuration") \in PageJobs
    BY Zenon DEF PageJobs, Openers
<1>4. "configuration" # "exchange" /\ "set" # "render"
    OBVIOUS
<1>5. \A x \in AnyText : VerdictJob(x).k = "set" /\ VerdictJob(x).container = "configuration"
    BY Zenon, <1>1, ConfigJobKind DEF IsJobOf
<1>6. OpeningJob("configuration").k = "set" /\ OpeningJob("configuration").container = "configuration"
    BY Zenon, ConfigJobKind DEF IsJobOf
<1>7. OpeningJob("configuration") \notin TaskJobs
    BY Zenon, <1>3, JobsApart
<1>. QED
    BY Zenon, <1>1, <1>2, <1>3, <1>4, <1>5, <1>6, <1>7, RenderParts DEF Selects

(* What was awaited is still awaited. *)
LEMMA AwaitsStill ==
    ASSUME NEW e, NEW c, NEW d, NEW q, NEW p, NEW t, NEW w, NEW n, NEW m,
           Awaits(e, c, q, t, n), e.text \in AnyText,
           ReloadsIn(c, q) => ReloadsIn(d, p),
           Ask("validate", TextArg(e.text)) \in In(t) => Ask("validate", TextArg(e.text)) \in In(w),
           \A x : Verdicts(x) => (x \in DOMAIN m <=> x \in DOMAIN n),
           \A x \in AnyText : VerdictJob(x) \in In(p) <=> VerdictJob(x) \in In(q),
           d.verdict = c.verdict
    PROVE  Awaits(e, d, p, w, m)
<1>1. ASSUME Judged(e.text, c, q, n) PROVE Judged(e.text, d, p, m)
    BY Zenon, <1>1 DEF Judged
<1>. QED
    BY Zenon, <1>1 DEF Awaits

LEMMA TaskVerdict ==
    ASSUME Typing, Stage, TaskStep, VerdictComes
    PROVE  VerdictComes'
<1>. DEFINE c == con["configuration"]
            Good == Awaits(editor', c, jobs', conts', net')
<1>1. /\ con' = con /\ conts' = conts /\ In(jobs) = {} /\ In(conts) = {} /\ In(conts') = {}
      /\ editor'.on = editor.on /\ VerdictStep
    BY Zenon, GoingTask, InEmpty DEF TaskStep
<1>2. SUFFICES ASSUME editor'.on, ~editor'.timer, ~gaveUp', ~strayed' PROVE Good
    BY Zenon, <1>1, VerdictIs
<1>3. editor.text \in AnyText
    <2>1. editor \in [on : BOOLEAN, text : AnyText, timer : BOOLEAN]
        BY Zenon DEF Typing, EditorTyped
    <2>. QED
        BY <2>1
<1>4. ASSUME editor' = editor, gaveUp' = gaveUp, strayed' = strayed PROVE Awaits(editor, c, jobs, conts, net)
    BY Zenon, <1>2, <1>4, VerdictIs
<1>. HIDE DEF Good, c
<1>5. CASE /\ editor' = editor /\ SameVerdicts /\ strayed' = strayed /\ gaveUp' = gaveUp
           /\ \A text : VerdictJob(text) \notin In(jobs')
    <2>1. Awaits(editor, c, jobs', conts', net')
        <3>1. ReloadsIn(c, jobs) => ReloadsIn(c, jobs')
            BY Zenon, <1>1 DEF ReloadsIn
        <3>2. \A x \in AnyText : VerdictJob(x) \in In(jobs') <=> VerdictJob(x) \in In(jobs)
            BY Zenon, <1>1, <1>5
        <3>3. \A x : Verdicts(x) => (x \in DOMAIN net' <=> x \in DOMAIN net)
            BY Zenon, <1>5 DEF SameVerdicts
        <3>4. Awaits(editor, c, jobs, conts, net) /\ conts' = conts
            BY Zenon, <1>1, <1>4, <1>5
        <3>. QED
            BY Zenon, <1>3, <3>1, <3>2, <3>3, <3>4, AwaitsStill
    <2>. QED
        BY Zenon, <1>5, <2>1 DEF Good
<1>6. CASE \E r \in DOMAIN net :
             /\ Verdicts(r) /\ r.arg.text \in AnyText /\ jobs' = <<VerdictJob(r.arg.text)>>
             /\ editor' = editor /\ DOMAIN net' \subseteq DOMAIN net
             /\ strayed' = strayed /\ gaveUp' = gaveUp
    <2>1. PICK r \in DOMAIN net :
             /\ Verdicts(r) /\ r.arg.text \in AnyText /\ jobs' = <<VerdictJob(r.arg.text)>>
             /\ editor' = editor /\ DOMAIN net' \subseteq DOMAIN net
             /\ strayed' = strayed /\ gaveUp' = gaveUp
        BY Zenon, <1>6
    <2>2. In(jobs') = {VerdictJob(r.arg.text)}
        BY Zenon, <2>1, PlainJob
    <2>3. Awaits(editor, c, jobs, conts, net)
        BY Zenon, <1>4, <2>1
    <2>4. CASE Judged(editor.text, c, jobs, net)
        <3>1. r.arg.text = editor.text /\ \A x \in DOMAIN net' : Verdicts(x) => x.arg.text = editor.text
            BY Zenon, <2>1, <2>4 DEF Judged
        <3>2. \A x \in AnyText : VerdictJob(x) \in In(jobs') => x = editor.text
            BY Zenon, <2>2, <3>1, VerdictJobKinds
        <3>3. VerdictJob(editor.text) \in In(jobs')
            BY Zenon, <2>2, <3>1
        <3>. QED
            BY Zenon, <2>1, <3>1, <3>2, <3>3 DEF Judged, Awaits, Good
    <2>5. CASE c.loading
        BY Zenon, <2>5 DEF ReloadsIn, Awaits, Good
    <2>. QED
        BY Zenon, <1>1, <2>3, <2>4, <2>5 DEF Awaits, ReloadsIn
<1>7. CASE /\ gaveUp' = gaveUp /\ jobs' = <<>>
           /\ strayed' \/ /\ \E r \in DOMAIN net' : Verdicts(r)
                          /\ \A r \in DOMAIN net' : Verdicts(r) => r.arg.text = editor'.text
    <2>1. In(jobs') = {}
        BY Zenon, <1>7, Nothing
    <2>. QED
        BY Zenon, <1>2, <1>7, <2>1 DEF Judged, Awaits, Good
<1>. QED
    BY Zenon, <1>1, <1>2, <1>5, <1>6, <1>7 DEF VerdictStep

LEMMA EditorText ==
    ASSUME Typing
    PROVE  editor.text \in AnyText /\ (editor.on => mounted = "configuration")
<1>1. editor \in [on : BOOLEAN, text : AnyText, timer : BOOLEAN] /\ (editor.on => mounted = "configuration")
    BY Zenon DEF Typing, EditorTyped
<1>. QED
    BY <1>1

LEMMA NoVerdictJob ==
    ASSUME NEW q, NoTask(q)
    PROVE  \A x \in AnyText : VerdictJob(x) \notin In(q)
BY Zenon, VerdictJobKinds DEF NoTask

LEMMA ShownText ==
    ASSUME Typing, Shows(con["configuration"])
    PROVE  TextArg(con["configuration"].data.text) = con["configuration"].data
<1>. DEFINE c == con["configuration"]
<1>1. c \in ConfigStates /\ c.data # NoData
    BY Zenon DEF Typing, PageTyped, ContainersOf, Shows
<1>. HIDE DEF c
<1>2. c.data \in {TextArg(text) : text \in Texts}
    BY Zenon, <1>1, ConfigStatesAre DEF ConfigFields
<1>3. PICK text \in Texts : c.data = TextArg(text)
    BY Zenon, <1>2
<1>4. TextArg(text).text = text
    BY Zenon, ArgFacts
<1>. QED
    BY Zenon, <1>3, <1>4 DEF c

LEMMA RenderVerdict ==
    ASSUME Typing, Stage, Alone, EditorIsShown, VerdictComes, Redirect \/ Show
    PROVE  VerdictComes'
<1>. DEFINE c == con["configuration"]
            Good == Awaits(editor', c, jobs', conts', net')
<1>1. RenderStep /\ con' = con /\ conts' = conts
    BY Zenon, RedirectIs, ShowStep DEF RenderStep
<1>2. SUFFICES ASSUME editor'.on, ~editor'.timer, ~gaveUp', ~strayed' PROVE Good
    BY Zenon, <1>1, VerdictIs
<1>3. mounted' = "configuration" /\ Shows(c) /\ gaveUp' = gaveUp /\ strayed' = strayed
    BY Zenon, <1>1, <1>2, EditorRendered DEF RenderStep, Rendered, ghosts
<1>4. NoTask(jobs) /\ NoTask(jobs')
    BY Zenon, <1>1, AloneRender
<1>5. OpeningJob("configuration") \in In(jobs) => OpeningJob("configuration") \in In(jobs')
    BY Zenon, <1>1, VerdictJobKinds DEF RenderStep
<1>. HIDE DEF Good
<1>6. CASE editor.on
    <2>1. editor' = editor
        BY Zenon, <1>1, <1>2, <1>6, EditorRendered
    <2>2. Awaits(editor, c, jobs, conts, net)
        BY Zenon, <1>2, <1>3, <1>6, <2>1, VerdictIs
    <2>3. \A x : Verdicts(x) => (x \in DOMAIN net' <=> x \in DOMAIN net)
        <3>1. "validate" \notin Updates
            BY DEF Updates
        <3>2. mounted' \in {Blank} \cup (Routes(who) \ {"home"}) /\ Rendered(mounted')
            <4>1. mounted' \in Routes(who) \ {"home"}
                BY Zenon, <1>3, ShowStep, RedirectShape, BlankIsNoName DEF Loaders, Openers, Rendered
            <4>. QED
                BY Zenon, <1>1, <4>1 DEF RenderStep
        <3>3. \A x : x.name \notin Updates => (x \in DOMAIN net' <=> x \in DOMAIN net)
            BY Zenon, <3>2, RenderedTyping
        <3>. QED
            BY Zenon, <3>1, <3>3 DEF Verdicts
    <2>4. \A x \in AnyText : VerdictJob(x) \in In(jobs') <=> VerdictJob(x) \in In(jobs)
        BY Zenon, <1>4, NoVerdictJob
    <2>5. ReloadsIn(c, jobs) => ReloadsIn(c, jobs')
        BY Zenon, <1>5 DEF ReloadsIn
    <2>6. editor.text \in AnyText
        BY Zenon, EditorText
    <2>. HIDE DEF c
    <2>7. Awaits(editor, c, jobs', conts, net')
        BY Zenon, <2>2, <2>3, <2>4, <2>5, <2>6, AwaitsStill
    <2>. QED
        BY Zenon, <1>1, <2>1, <2>7 DEF Good
<1>7. CASE ~editor.on
    <2>1. TextArg(editor'.text) = c.data
        BY Zenon, <1>1, <1>2, <1>3, <1>7, EditorRendered, ShownText
    <2>2. CASE mounted = "configuration"
        <3>1. Ask("validate", c.data) \in In(conts)
            BY Zenon, <1>3, <1>7, <2>2, EditorIs DEF EditorFits
        <3>. QED
            BY Zenon, <1>1, <2>1, <3>1 DEF Good, Awaits
    <2>3. CASE mounted # "configuration"
        <3>1. Show
            BY Zenon, <1>3, RedirectShape, BlankIsNoName DEF Loaders, Openers, Rendered
        <3>2. url.page = "configuration" /\ \A j \in In(PageSets(url.page)) : j \in In(jobs')
            BY Zenon, <1>3, <3>1, ShowStep
        <3>3. ex \in Selections /\ ContainersOf(con) /\ "configuration" \in Openers
            BY Zenon DEF Typing, SelectionTyped, PageTyped, Openers
        <3>4. In(PageSets(url.page)) = {OpeningJob(url.page)}
            BY Zenon, <2>3, <3>2, <3>3, PageSetsAre
        <3>. QED
            BY Zenon, <3>2, <3>4 DEF Good, Awaits, ReloadsIn
    <2>. QED
        BY <2>2, <2>3
<1>. QED
    BY <1>6, <1>7

LEMMA SelectVerdict ==
    ASSUME Typing, Stage, VerdictComes, SelectApply \/ FirstContinue \/ MoreContinue
    PROVE  VerdictComes'
<1>. DEFINE c == con["configuration"]
            a == Ask("validate", TextArg(editor.text))
<1>1. /\ con' = con /\ editor' = editor /\ gaveUp' = gaveUp /\ strayed' = strayed /\ net' = net
    BY Zenon DEF SelectApply, FirstContinue, MoreContinue, ContinueStep
<1>2. SUFFICES ASSUME Awaits(editor, c, jobs, conts, net) PROVE Awaits(editor, c, jobs', conts', net)
    BY Zenon, <1>1, VerdictIs
<1>3. \A j : ~Selects(j) /\ j \notin Renders => (j \in In(jobs') <=> j \in In(jobs))
    <2>1. CASE SelectApply
        BY Zenon, <2>1, RenderParts DEF SelectApply
    <2>2. CASE FirstContinue \/ MoreContinue
        <3>1. \A j \in SelectJobs : Selects(j)
            BY Zenon, SelectJobKind DEF IsJobOf, Selects
        <3>. QED
            BY Zenon, <2>2, <3>1, ContinueKeeps
    <2>. QED
        BY <2>1, <2>2
<1>4. a \in In(conts) => a \in In(conts')
    <2>1. CASE SelectApply
        BY Zenon, <2>1 DEF SelectApply
    <2>2. CASE FirstContinue \/ MoreContinue
        <3>1. a.k = "ask"
            BY AskParts
        <3>2. Head(conts).k \in {"selected", "selection", "symbol"}
            BY Zenon, <2>2 DEF FirstContinue, MoreContinue
        <3>3. "ask" \notin {"selected", "selection", "symbol"}
            OBVIOUS
        <3>4. In(conts) = {Head(conts)} \cup In(Tail(conts)) /\ conts' = Tail(conts)
            BY Zenon, <2>2, ContinueKeeps DEF ContinueStep
        <3>. HIDE DEF a
        <3>. QED
            BY Zenon, <3>1, <3>2, <3>3, <3>4
    <2>. QED
        BY <2>1, <2>2
<1>5. \A x \in AnyText : VerdictJob(x) \in In(jobs') <=> VerdictJob(x) \in In(jobs)
    BY Zenon, <1>3, VerdictJobKinds
<1>6. ReloadsIn(c, jobs) => ReloadsIn(c, jobs')
    BY Zenon, <1>3, VerdictJobKinds DEF ReloadsIn
<1>7. editor.text \in AnyText
    BY Zenon, EditorText
<1>. HIDE DEF c
<1>. QED
    BY Zenon, <1>2, <1>4, <1>5, <1>6, <1>7, AwaitsStill DEF a

LEMMA OtherVerdict ==
    ASSUME Alone, EditorIsShown, VerdictComes, OtherApply, NoTask(jobs')
    PROVE  VerdictComes'
<1>. DEFINE j == Head(jobs)
            t == Tail(jobs)
            c == con["configuration"]
            d == con'["configuration"]
            o == OpeningJob("configuration")
<1>1. /\ Typing /\ editor' = editor /\ gaveUp' = gaveUp /\ strayed' = strayed /\ net' = net
      /\ In(jobs) = {j} \cup In(t) /\ In(t) \subseteq In(jobs') /\ In(conts) \subseteq In(conts')
      /\ jobs # <<>> /\ jobs \in Seq(Jobs)
    BY Zenon DEF OtherApply
<1>2. SUFFICES ASSUME editor.on, Awaits(editor, c, jobs, conts, net)
               PROVE  Awaits(editor, d, jobs', conts', net)
    BY Zenon, <1>1, VerdictIs
<1>3. ~c.loading
    BY Zenon, <1>2, SetIsNoRender, EditorIs DEF EditorFits, Shows
<1>4. editor.text \in AnyText
    BY Zenon, <1>1, EditorText
<1>5. \A x \in AnyText : VerdictJob(x) \notin In(jobs')
    BY Zenon, NoVerdictJob
<1>6. \A x \in AnyText : VerdictJob(x) \in In(jobs) => VerdictJob(x) = j
    BY Zenon, <1>1, <1>5
<1>7. ASSUME d.verdict = c.verdict, \A x \in AnyText : j # VerdictJob(x), j = o => d.loading
      PROVE  Awaits(editor, d, jobs', conts', net)
    <2>1. \A x \in AnyText : VerdictJob(x) \in In(jobs') <=> VerdictJob(x) \in In(jobs)
        BY Zenon, <1>5, <1>6, <1>7
    <2>2. ReloadsIn(c, jobs) => ReloadsIn(d, jobs')
        <3>. HIDE DEF c, d, j
        <3>. QED
            BY Zenon, <1>1, <1>3, <1>7 DEF ReloadsIn
    <2>3. /\ Ask("validate", TextArg(editor.text)) \in In(conts) => Ask("validate", TextArg(editor.text)) \in In(conts')
          /\ \A x : Verdicts(x) => (x \in DOMAIN net <=> x \in DOMAIN net)
        BY Zenon, <1>1
    <2>4. d.verdict = c.verdict
        BY <1>7
    <2>. HIDE DEF c, d, j
    <2>. QED
        BY Zenon, <1>2, <1>4, <2>1, <2>2, <2>3, <2>4, AwaitsStill
<1>8. ASSUME NEW text \in AnyText, j = VerdictJob(text), d.verdict = text
      PROVE  Awaits(editor, d, jobs', conts', net)
    <2>1. CASE Judged(editor.text, c, jobs, net)
        <3>1. text = editor.text
            BY Zenon, <1>1, <1>8, <2>1 DEF Judged
        <3>2. Judged(editor.text, d, jobs', net)
            BY Zenon, <1>5, <1>8, <2>1, <3>1 DEF Judged
        <3>. QED
            BY Zenon, <3>2 DEF Awaits
    <2>2. CASE ReloadsIn(c, jobs)
        <3>1. o # j
            BY Zenon, <1>8, VerdictJobKinds
        <3>. QED
            BY Zenon, <1>1, <1>3, <2>2, <3>1 DEF ReloadsIn, Awaits
    <2>3. CASE Ask("validate", TextArg(editor.text)) \in In(conts)
        BY Zenon, <1>1, <2>3 DEF Awaits
    <2>. QED
        BY Zenon, <1>2, <2>1, <2>2, <2>3 DEF Awaits
<1>9. CASE j.container # "configuration"
    <2>1. d = c
        <3>1. "configuration" \in Loaders
            BY LoaderNames
        <3>. QED
            BY Zenon, <1>9, <3>1, OtherCon
    <2>2. \A x \in AnyText : VerdictJob(x).container = "configuration"
        BY Zenon, ConfigJobKind DEF IsJobOf, ConfigTaskJobs
    <2>3. o.container = "configuration"
        BY Zenon, ConfigJobKind DEF IsJobOf
    <2>. HIDE DEF c, d, j, o
    <2>. QED
        BY Zenon, <1>7, <1>9, <2>1, <2>2, <2>3
<1>10. CASE j.container = "configuration"
    <2>1. j \in JobsOf("configuration") /\ d = Patched(c, j.patch) /\ c \in ConfigStates
        BY Zenon, <1>10, OtherCon DEF ContainersOf
    <2>2. \/ \E text \in Texts : j = ConfigJob(text) /\ d.verdict = c.verdict
          \/ ((\E text \in AnyText : j = SavingJob(text)) \/ j = SavedJob) /\ d.verdict = c.verdict
          \/ \E text \in AnyText : j = VerdictJob(text) /\ d.verdict = text
          \/ j = o /\ d.loading = TRUE /\ d.verdict = c.verdict
        <3>. HIDE DEF c, d, j
        <3>. QED
            BY <2>1, ConfigApplied
    <2>3. \/ d.verdict = c.verdict /\ (j = o => d.loading)
          \/ \E text \in AnyText : j = VerdictJob(text) /\ d.verdict = text
        <3>1. \A text \in Texts : ConfigJob(text) \in TaskJobs
            BY Zenon DEF TaskJobs, ConfigTaskJobs
        <3>2. \A text \in AnyText : SavingJob(text) \in TaskJobs
            BY Zenon DEF TaskJobs, ConfigTaskJobs
        <3>3. SavedJob \in TaskJobs /\ o \notin TaskJobs
            BY Zenon, VerdictJobKinds DEF TaskJobs, ConfigTaskJobs
        <3>. HIDE DEF c, d, j, o
        <3>. QED
            BY Zenon, <2>2, <3>1, <3>2, <3>3
    <2>4. \/ \E text \in AnyText : j = VerdictJob(text) /\ d.verdict = text
          \/ d.verdict = c.verdict /\ (j = o => d.loading) /\ \A x \in AnyText : j # VerdictJob(x)
        <3>1. ASSUME NEW x \in AnyText, j = VerdictJob(x) PROVE d.verdict = x
            <4>1. \A text \in Texts : ConfigJob(text) # VerdictJob(x)
                <5>1. ASSUME NEW text \in Texts, ConfigJob(text) = VerdictJob(x) PROVE FALSE
                    <6>1. DataPatch(FALSE, TextArg(text)) = VerdictPatch(x)
                        BY <5>1, ConfigJobParts
                    <6>. QED
                        BY <6>1 DEF DataPatch, VerdictPatch
                <5>. QED
                    BY Zenon, <5>1
            <4>2. \A text \in AnyText : SavingJob(text) # VerdictJob(x)
                <5>1. ASSUME NEW text \in AnyText, SavingJob(text) = VerdictJob(x) PROVE FALSE
                    <6>1. SavePatch(TRUE) = VerdictPatch(x)
                        BY <5>1, ConfigJobParts
                    <6>. QED
                        BY <6>1 DEF SavePatch, VerdictPatch
                <5>. QED
                    BY Zenon, <5>1
            <4>3. SavedJob # VerdictJob(x)
                <5>1. ASSUME SavedJob = VerdictJob(x) PROVE FALSE
                    <6>1. SavePatch(FALSE) = VerdictPatch(x)
                        BY <5>1, ConfigJobParts
                    <6>. QED
                        BY <6>1 DEF SavePatch, VerdictPatch
                <5>. QED
                    BY Zenon, <5>1
            <4>4. o # VerdictJob(x)
                BY Zenon, VerdictJobKinds
            <4>5. \A y : VerdictJob(y) = VerdictJob(x) => y = x
                BY Zenon, VerdictJobKinds
            <4>. HIDE DEF c, d, j, o
            <4>. QED
                BY Zenon, <2>2, <3>1, <4>1, <4>2, <4>3, <4>4, <4>5
        <3>. HIDE DEF c, d, j, o
        <3>. QED
            BY Zenon, <2>3, <3>1
    <2>. HIDE DEF c, d, j, o
    <2>. QED
        BY Zenon, <1>7, <1>8, <2>4
<1>. QED
    BY <1>9, <1>10

LEMMA AskVerdict ==
    ASSUME Typing, Alone, VerdictComes, AskContinue
    PROVE  VerdictComes'
<1>. DEFINE c == con["configuration"]
            h == Head(conts)
            r == h.request
            a == Ask("validate", TextArg(editor.text))
<1>1. /\ con' = con /\ editor' = editor /\ gaveUp' = gaveUp /\ jobs' = jobs /\ Send(r)
      /\ In(conts) = {h} \cup In(conts') /\ conts # <<>>
    BY Zenon DEF AskContinue, ContinueStep
<1>2. /\ DOMAIN net' = DOMAIN net \cup {r}
      /\ r.name # "validate" => strayed' = strayed
      /\ r.name = "validate" => (strayed' <=> (r.arg.text # editor.text \/ \E x \in DOMAIN net : x.name = "validate"))
    <2>1. net' = Sent(net, r)
        BY Zenon, <1>1 DEF Send
    <2>2. DOMAIN net' = DOMAIN net \cup {r}
        <3>. HIDE DEF r
        <3>. QED
            BY <2>1, SentFacts
    <2>3. strayed' = IF r.name # "validate" THEN strayed
                     ELSE r.arg.text # editor.text \/ \E x \in DOMAIN net : x.name = "validate"
        BY Zenon, <1>1 DEF Send
    <2>. HIDE DEF r
    <2>. QED
        BY Zenon, <2>2, <2>3
<1>3. CASE r.name = "validate"
    <2>1. \A x \in AnyText : VerdictJob(x) \notin In(jobs')
        BY Zenon, <1>1, VerdictJobKinds DEF Alone
    <2>2. ASSUME ~strayed' PROVE Judged(editor.text, c, jobs', net')
        <3>1. r.arg.text = editor.text /\ \A x \in DOMAIN net : x.name # "validate"
            BY Zenon, <1>2, <1>3, <2>2
        <3>. HIDE DEF r
        <3>. QED
            BY Zenon, <1>2, <1>3, <2>1, <3>1 DEF Judged, Verdicts
    <2>. QED
        BY Zenon, <1>1, <2>2, VerdictIs DEF Awaits
<1>4. CASE r.name # "validate"
    <2>1. SUFFICES ASSUME Awaits(editor, c, jobs, conts, net) PROVE Awaits(editor, c, jobs, conts', net')
        BY Zenon, <1>1, <1>2, <1>4, VerdictIs
    <2>2. a.request.name = "validate"
        BY AskParts
    <2>3. a \in In(conts) => a \in In(conts')
        <3>. HIDE DEF a
        <3>. QED
            BY Zenon, <1>1, <1>4, <2>2
    <2>4. \A x : Verdicts(x) => (x \in DOMAIN net' <=> x \in DOMAIN net)
        <3>. HIDE DEF r
        <3>. QED
            BY Zenon, <1>2, <1>4 DEF Verdicts
    <2>5. editor.text \in AnyText
        BY Zenon, EditorText
    <2>. HIDE DEF c
    <2>. QED
        BY Zenon, <2>1, <2>3, <2>4, <2>5, AwaitsStill DEF a
<1>. QED
    BY <1>3, <1>4

LEMMA StepsVerdict ==
    ASSUME Typing, Stage, Alone, EditorIsShown, VerdictComes, Steps
    PROVE  VerdictComes'
<1>1. ~TaskStep => NoTask(jobs')
    BY Zenon, StepsAlone
<1>. QED
    BY Zenon, <1>1, TaskVerdict, RenderVerdict, OtherVerdict, SelectVerdict, AskVerdict DEF Steps

-----------------------------------------------------------------------------
(* The invariant is inductive. *)

LEMMA InvSteps ==
    ASSUME Inv, Steps, Typing', UpdateIsOwn'
    PROVE  Inv'
<1>1. /\ Typing /\ Stage /\ Alone /\ UpdateIsOwn
      /\ MountedIsUrl /\ HeaderIsShown /\ Settled /\ IntervalIsSet /\ SymbolIsMended
      /\ PLGraphFollows /\ ExplanationFollows
      /\ EditorIsShown /\ VerdictComes
    BY Zenon DEF Inv
<1>2. Stage' /\ Alone' /\ MountedIsUrl'
    BY Zenon, <1>1, StepsStage, StepsAlone, StepsMounted
<1>3. HeaderIsShown' /\ Settled' /\ IntervalIsSet' /\ SymbolIsMended'
    BY Zenon, <1>1, StepsHeader, StepsSettled, StepsInterval, StepsSymbol
<1>4. PLGraphFollows' /\ ExplanationFollows'
    BY Zenon, <1>1, StepsPLGraph, StepsExplanation
<1>5. EditorIsShown' /\ VerdictComes'
    BY Zenon, <1>1, StepsEditor, StepsVerdict
<1>. QED
    BY Zenon, <1>2, <1>3, <1>4, <1>5 DEF Inv

LEMMA SameOwns ==
    ASSUME UpdateIsOwn, net' = net, item' = item
    PROVE  UpdateIsOwn'
BY Zenon, OwnsIs

LEMMA MicrotaskInv ==
    ASSUME Inv, Microtask
    PROVE  Inv'
<1>1. Typing /\ Stage /\ UpdateIsOwn
    BY Zenon DEF Inv
<1>2. CASE Redirect
    <2>1. Typing' /\ Steps
        BY Zenon, <1>1, <1>2, RedirectTyping DEF Steps
    <2>2. ShowItem(Blank)
        BY Zenon, <1>2 DEF Redirect
    <2>. QED
        BY Zenon, <1>1, <2>1, <2>2, RenderOwns, InvSteps
<1>3. CASE Home
    <2>1. Opened(FrontPage) /\ who' = who /\ clicks' = clicks /\ faults' = faults
        BY Zenon, <1>3 DEF Home
    <2>2. BoundsTyped'
        BY Zenon, <1>1, <2>1, SameBounds
    <2>. QED
        BY Zenon, <1>1, <2>1, <2>2, FrontPageType, OpenedFresh
<1>4. CASE Show
    <2>1. Typing' /\ Steps
        BY Zenon, <1>1, <1>4, ShowTyping DEF Steps
    <2>2. ShowItem(url.page)
        BY Zenon, <1>4, ShowIs DEF Rendered
    <2>. QED
        BY Zenon, <1>1, <2>1, <2>2, RenderOwns, InvSteps
<1>5. CASE Apply
    <2>1. Typing' /\ Steps
        BY Zenon, <1>1, <1>5, ApplyTyping, ApplyKinds DEF Steps
    <2>2. UpdateIsOwn'
        BY Zenon, <1>1, <1>5, ApplySame, SameOwns
    <2>. QED
        BY Zenon, <2>1, <2>2, InvSteps
<1>6. CASE Continue
    <2>1. Typing' /\ (AskContinue \/ FirstContinue \/ MoreContinue)
        BY Zenon, <1>1, <1>6, ContinueTyping, ContinueKinds
    <2>2. CASE AskContinue
        <3>. DEFINE r == Head(conts).request
        <3>1. Head(conts) \in AskConts /\ Send(r) /\ item' = item
            BY Zenon, <2>2 DEF AskContinue, ContinueStep
        <3>2. r.name \in {"config", "postponedFills", "roles", "explanations", "plGraph"} \cup Plain
            BY Zenon, <3>1, AskContParts
        <3>3. r.name # "update"
            BY <3>2 DEF Plain
        <3>4. UpdateIsOwn'
            BY Zenon, <1>1, <3>1, <3>3, SendOwns
        <3>. QED
            BY Zenon, <2>1, <2>2, <3>4, InvSteps DEF Steps
    <2>3. CASE FirstContinue \/ MoreContinue
        <3>1. net' = net /\ item' = item
            BY Zenon, <2>3 DEF FirstContinue, MoreContinue, ContinueStep
        <3>. QED
            BY Zenon, <1>1, <2>1, <2>3, <3>1, SameOwns, InvSteps DEF Steps
    <2>. QED
        BY <2>1, <2>2, <2>3
<1>. QED
    BY Zenon, <1>2, <1>3, <1>4, <1>5, <1>6 DEF Microtask

LEMMA AnswersInv ==
    ASSUME Inv, NEW r \in DOMAIN net,
           Answer(r) \/ Repeat(r) \/ AnswerPlain(r) \/ AnswerUpdate(r) \/ AnswerEmpty(r) \/ Fail(r)
    PROVE  Inv'
<1>1. Typing /\ UpdateIsOwn
    BY Zenon DEF Inv
<1>2. UpdateIsOwn' /\ (AnswerUpdate(r) => item # noItem \/ r.name # "update")
    BY Zenon, <1>1, AnswerOwns
<1>3. Typing' /\ TaskStep
    BY Zenon, <1>1, <1>2, AnswerIs, RepeatIs, AnswerPlainIs, AnswerUpdateIs, AnswerEmptyIs, FailIs
<1>. QED
    BY Zenon, <1>2, <1>3, InvSteps DEF Steps

LEMMA TimerInv ==
    ASSUME Inv, TimerFires
    PROVE  Inv'
<1>1. Typing /\ UpdateIsOwn
    BY Zenon DEF Inv
<1>. QED
    BY Zenon, <1>1, TimerTask, TimerOwns, InvSteps DEF Steps

LEMMA UserInv ==
    ASSUME Inv, User
    PROVE  Inv'
<1>1. Typing /\ UpdateIsOwn /\ entry \in URLs
    BY Zenon DEF Inv, Typing, SelectionTyped
<1>2. CASE Back \/ \E u \in Links : Click(u)
    <2>1. PICK u : UserAct /\ Go(u) /\ (u = entry \/ u \in Links)
        BY Zenon, <1>2 DEF Back, Click
    <2>2. Links \subseteq URLs
        <3>1. ex \in Selections /\ mounted \in {Blank} \cup Routes(who)
            BY Zenon, <1>1 DEF Typing, SelectionTyped, PageTyped
        <3>. QED
            BY Zenon, <3>1, LinksType
    <2>3. net' = net /\ item' = item
        BY Zenon, <2>1 DEF Go, pageVars, netVars
    <2>4. u \in URLs
        BY Zenon, <1>1, <2>1, <2>2
    <2>5. Typing' /\ TaskStep
        BY Zenon, <1>1, <2>1, <2>4, GoTask
    <2>. QED
        BY Zenon, <1>1, <2>3, <2>5, SameOwns, InvSteps DEF Steps
<1>3. CASE \E u \in Typed : Open(u)
    <2>1. PICK u \in Typed : UserAct /\ Opened(u) /\ who' = who /\ faults' = faults
        BY Zenon, <1>3 DEF Open
    <2>2. BoundsTyped'
        BY Zenon, <1>1, <2>1, UserBounds
    <2>3. u \in URLs
        BY Zenon, TypedType
    <2>. QED
        BY Zenon, <1>1, <2>1, <2>2, <2>3, OpenedFresh
<1>4. CASE \E text \in Texts : onChangeText(text)
    <2>1. PICK text \in Texts : onChangeText(text)
        BY Zenon, <1>4
    <2>2. net' = net /\ item' = item
        BY Zenon, <2>1 DEF onChangeText, netVars
    <2>3. Typing' /\ TaskStep
        BY Zenon, <1>1, <2>1, onChangeTextTask
    <2>. QED
        BY Zenon, <1>1, <2>2, <2>3, SameOwns, InvSteps DEF Steps
<1>5. CASE saveConfig \/ showModal \/ updateUserRole
    <2>1. net' = net /\ item' = item
        BY Zenon, <1>5 DEF saveConfig, showModal, updateUserRole, netVars, pageVars
    <2>2. Typing' /\ TaskStep
        BY Zenon, <1>1, <1>5, saveConfigTask, showModalTask, updateUserRoleTask
    <2>. QED
        BY Zenon, <1>1, <2>1, <2>2, SameOwns, InvSteps DEF Steps
<1>6. CASE saveUser
    BY Zenon, <1>1, <1>6, saveUserTask, saveUserOwns, InvSteps DEF Steps
<1>. QED
    BY Zenon, <1>2, <1>3, <1>4, <1>5, <1>6 DEF User

LEMMA NextInv ==
    ASSUME Inv, Next
    PROVE  Inv'
BY Zenon, MicrotaskInv, AnswersInv, TimerInv, UserInv DEF Next, Answers

LEMMA StutterInv ==
    ASSUME Inv, UNCHANGED vars
    PROVE  Inv'
<1>1. /\ who' = who /\ url' = url /\ entry' = entry /\ ex' = ex /\ mounted' = mounted /\ con' = con
      /\ editor' = editor /\ orphans' = orphans /\ item' = item /\ started' = started /\ net' = net
      /\ jobs' = jobs /\ conts' = conts /\ clicks' = clicks /\ faults' = faults
      /\ gaveUp' = gaveUp /\ strayed' = strayed
    BY Zenon DEF vars, pageVars, netVars, ghosts
<1>2. Typing'
    BY Zenon, <1>1 DEF Inv, Typing, SelectionTyped, PageTyped, ContainersOf, EditorTyped, ItemTyped,
                       StartedTyped, NetTyped, QueueTyped, BoundsTyped
<1>3. Stage'
    BY Zenon, <1>1, StageIs DEF Inv
<1>4. Alone' /\ UpdateIsOwn' /\ MountedIsUrl'
    BY Zenon, <1>1 DEF Inv, Alone, UpdateIsOwn, MountedIsUrl
<1>5. HeaderIsShown' /\ IntervalIsSet' /\ SymbolIsMended'
    BY Zenon, <1>1, HeaderIs, IntervalIs, SymbolIs DEF Inv
<1>6. Settled'
    BY Zenon, <1>1 DEF Inv, Settled
<1>7. PLGraphFollows' /\ ExplanationFollows'
    BY Zenon, <1>1, PLGraphIs, ExplanationIs DEF Inv
<1>8. EditorIsShown' /\ VerdictComes'
    BY Zenon, <1>1, EditorIs, VerdictIs DEF Inv
<1>. QED
    BY Zenon, <1>2, <1>3, <1>4, <1>5, <1>6, <1>7, <1>8 DEF Inv

(* The document that is opened, every microtask, task and stuttering step    *)
(* keep the address, the selection, the queue of setStates and the           *)
(* containers of the pages in the relation that Inv states.                  *)
THEOREM PagesInvariant == Spec => []Inv
<1>1. Init => Inv
    BY Zenon, InitFresh, StartingInv DEF Starting
<1>2. Inv /\ [Next]_vars => Inv'
    BY Zenon, NextInv, StutterInv
<1>. QED
    BY <1>1, <1>2, PTL DEF Spec

-----------------------------------------------------------------------------
(* What the invariant says at rest. *)

LEMMA AtRest ==
    ASSUME Typing, Quiet
    PROVE  In(jobs) = {} /\ In(conts) = {} /\ ~Rends(jobs)
<1>1. jobs = <<>> /\ conts = <<>>
    BY Zenon DEF Quiet
<1>2. In(jobs) = {} /\ In(conts) = {}
    BY <1>1 DEF In
<1>. QED
    BY Zenon, <1>1, <1>2 DEF Rends

LEMMA TypingGivesTypes ==
    ASSUME Typing
    PROVE  TypeOK
<1>1. /\ who \in Profiles /\ ex \in Selections /\ mounted \in {Blank} \cup (Routes(who) \ {"home"})
      /\ editor \in [on : BOOLEAN, text : AnyText, timer : BOOLEAN]
      /\ (editor.on => mounted = "configuration") /\ orphans \subseteq Texts
      /\ item \in {noItem, "idle", "submitting"} /\ (item # noItem => mounted = "users")
      /\ started \in [Repeated -> BOOLEAN] /\ clicks \in 0..MaxClicks /\ faults \in 0..MaxFaults
    BY Zenon DEF Typing, SelectionTyped, PageTyped, EditorTyped, ItemTyped, StartedTyped, BoundsTyped
<1>2. /\ ex.exchangeName \in Names /\ ex.symbols \in {<<>>} \cup Lists /\ ex.selectedSymbol \in 0..Len(AllSymbols)
    <2>1. SelectionFields(ex)
        BY Zenon, <1>1, SelectionsAre
    <2>. QED
        BY Zenon, <2>1 DEF SelectionFields
<1>3. DOMAIN net \subseteq Requests
    BY Zenon DEF Typing, NetTyped, Pending
<1>4. ex.symbols \in {<<>>, AllSymbols} \cup {SymbolsOf(i) : i \in DOMAIN Catalogue}
    BY Zenon, <1>2 DEF Lists
<1>5. editor \in [on : BOOLEAN, text : Texts \cup {NoText}, timer : BOOLEAN]
    BY Zenon, <1>1 DEF AnyText
<1>. QED
    BY Zenon, <1>1, <1>2, <1>3, <1>4, <1>5 DEF TypeOK, Names

LEMMA AddressAtRest ==
    ASSUME Inv
    PROVE  UrlMatchesSelection
<1>. DEFINE Goal == /\ url.exchange = ex.exchangeName
                    /\ normalCodePair(url.pair) = ex.currencyCodePair
                    /\ NeedsInterval(mounted) => url.interval = ex.interval
                    /\ ex.symbols = updateSelectedExchange(ex.selectedExchange).symbols
                    /\ ex.exchangeName = NameOf(ex.selectedExchange)
                    /\ Fixed(ex)
<1>1. SUFFICES ASSUME Quiet, mounted \in Headers(who), Ready(ex) PROVE Goal
    BY Zenon DEF UrlMatchesSelection, Fixed, Initial
<1>2. /\ Typing /\ Stage /\ MountedIsUrl /\ Settled /\ SymbolIsMended
      /\ ex \in Selections /\ url \in URLs
    BY Zenon DEF Inv, Typing, SelectionTyped
<1>3. In(jobs) = {} /\ ~Rends(jobs)
    BY Zenon, <1>1, <1>2, AtRest
<1>4. Going(ex) /\ mounted = url.page
    BY Zenon, <1>1, <1>2, <1>3, ReadyMeans DEF MountedIsUrl
<1>5. NewPath(url, ex) = url /\ Sets(url, ex) = <<>>
    BY Zenon, <1>1, <1>2, <1>3, <1>4 DEF Settled
<1>6. /\ url.exchange = ex.exchangeName
      /\ normalCodePair(url.pair) = ex.currencyCodePair
      /\ NeedsInterval(mounted) => url.interval = ex.interval
    BY Zenon, <1>2, <1>4, <1>5, SettledMeans
<1>7. Fixed(ex)
    <2>1. SymbolFits(ex, url, who, jobs)
        BY Zenon, <1>2, <1>4, SymbolIs
    <2>2. ~ExchangeComes(jobs) /\ ~Renewed(jobs, url, who, ex) /\ ~Mended(jobs, ex.symbols)
        BY Zenon, <1>3, MendedMoves DEF ExchangeComes, Renewed, Rends
    <2>3. HarmlessAt(url, ex) => Fixed(ex)
        BY Zenon, <1>2, <1>4, <1>5, HarmlessIsFixed
    <2>. QED
        BY Zenon, <2>1, <2>2, <2>3 DEF SymbolFits, HarmlessFor, FixedFor
<1>8. /\ ex.symbols = updateSelectedExchange(ex.selectedExchange).symbols
      /\ ex.exchangeName = NameOf(ex.selectedExchange)
    <2>. DEFINE i == ex.selectedExchange
    <2>1. i \in 0..Len(Catalogue)
        BY Zenon, <1>2, SelectionsAre DEF SelectionFields
    <2>2. ex.symbols = ListOf(i) /\ ex.exchangeName = NameOf(i)
        BY Zenon, <1>4 DEF Going
    <2>. HIDE DEF i
    <2>3. updateSelectedExchange(i).symbols = ListOf(i)
        BY <2>1, ExchangePatch
    <2>. QED
        BY Zenon, <2>2, <2>3 DEF i
<1>. QED
    BY Zenon, <1>6, <1>7, <1>8

LEMMA PaintedAtRest ==
    ASSUME Inv
    PROVE  PaintedIsSelected
<1>1. SUFFICES ASSUME Quiet, mounted \in Followers, Shown(mounted)
               PROVE  con[mounted].data = SelectionArg(ex)
    BY Zenon DEF PaintedIsSelected
<1>2. Typing /\ PLGraphFollows /\ ExplanationFollows /\ ContainersOf(con)
    BY Zenon DEF Inv, Typing, PageTyped
<1>3. In(jobs) = {}
    BY Zenon, <1>1, <1>2, AtRest
<1>. DEFINE c == con[mounted]
<1>4. ~c.loading /\ c.data # NoData
    BY Zenon, <1>1 DEF Shown
<1>5. \A p : ~Coming(p, jobs)
    BY Zenon, <1>3 DEF Coming
<1>6. mounted # "signals"
    <2>1. clearState.loading
        BY DEF clearState
    <2>. QED
        BY Zenon, <1>2, <1>4, <2>1 DEF ContainersOf
<1>7. Own(c.data, c) /\ ~Apart(c, ex)
    <2>1. CASE mounted = "plgraph"
        <3>1. PLGraphFits(c, ex, jobs, mounted)
            BY Zenon, <1>2, <2>1, PLGraphIs
        <3>. HIDE DEF c
        <3>. QED
            BY Zenon, <1>4, <1>5, <2>1, <3>1 DEF PLGraphFits
    <2>2. CASE mounted = "explanation"
        <3>1. ExplanationFits(c, ex, jobs, mounted)
            BY Zenon, <1>2, <2>2, ExplanationIs
        <3>. HIDE DEF c
        <3>. QED
            BY Zenon, <1>4, <1>5, <2>2, <3>1 DEF ExplanationFits
    <2>. QED
        BY Zenon, <1>1, <1>6, <2>1, <2>2 DEF Followers
<1>8. c.data = Arg(ex.exchangeName, ex.currencyCodePair)
    <2>. HIDE DEF c
    <2>. QED
        BY Zenon, <1>4, <1>7 DEF Own, Apart
<1>9. SelectionArg(ex) = Arg(ex.exchangeName, ex.currencyCodePair)
    BY Zenon, ArgFacts
<1>. QED
    BY Zenon, <1>8, <1>9

LEMMA VerdictAtRest ==
    ASSUME Inv
    PROVE  VerdictIsCurrent
<1>1. SUFFICES ASSUME Quiet, editor.on, ~editor.timer, ~gaveUp, ~strayed,
                      \A r \in DOMAIN net : r.name # "validate"
               PROVE  con["configuration"].verdict = editor.text
    BY Zenon DEF VerdictIsCurrent
<1>2. Typing /\ EditorIsShown /\ VerdictComes
    BY Zenon DEF Inv
<1>3. In(jobs) = {} /\ In(conts) = {} /\ ~Rends(jobs)
    BY Zenon, <1>1, <1>2, AtRest
<1>. DEFINE c == con["configuration"]
<1>4. Shows(c) /\ Awaits(editor, c, jobs, conts, net)
    BY Zenon, <1>1, <1>2, <1>3, EditorIs, VerdictIs DEF EditorFits
<1>. HIDE DEF c
<1>5. Judged(editor.text, c, jobs, net)
    BY Zenon, <1>3, <1>4 DEF Shows, Awaits, ReloadsIn
<1>. QED
    BY Zenon, <1>1, <1>3, <1>5 DEF Judged, Verdicts, c

(* The selection, the pages, the editor, the Item and the requests keep to   *)
(* their types: the name of the exchange is one of the catalogue, the        *)
(* symbols are a list that an exchange has, an Editor is there only on the   *)
(* page of the configuration and an Item only on that of the users, and no   *)
(* request has a name or an argument that the pages do not use.              *)
THEOREM PagesTypes == Spec => []TypeOK
<1>1. Inv => TypeOK
    BY Zenon, TypingGivesTypes DEF Inv
<1>. QED
    BY <1>1, PagesInvariant, PTL

(* At rest the address and the selection agree on every page with a header,  *)
(* for every catalogue and every address: however links, "back", typed       *)
(* addresses and the setStates of checkParameters() overlapped.              *)
THEOREM AddressMatches == Spec => []UrlMatchesSelection
<1>1. Inv => UrlMatchesSelection
    BY Zenon, AddressAtRest
<1>. QED
    BY <1>1, PagesInvariant, PTL

(* At rest Explanation and PLGraph show the data of the selection, in        *)
(* whatever order the answers came and however often the page was left.      *)
THEOREM PaintsSelection == Spec => []PaintedIsSelected
<1>1. Inv => PaintedIsSelected
    BY Zenon, PaintedAtRest
<1>. QED
    BY <1>1, PagesInvariant, PTL

(* Once the timer of the Editor has fired and its validation is answered,    *)
(* the verdict is the one on the text in the Editor, unless a request failed *)
(* or the last validation was out of turn.                                   *)
THEOREM VerdictMatches == Spec => []VerdictIsCurrent
<1>1. Inv => VerdictIsCurrent
    BY Zenon, VerdictAtRest
<1>. QED
    BY <1>1, PagesInvariant, PTL
=============================================================================
