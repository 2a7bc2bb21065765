---------------------------- MODULE WebSelection ----------------------------
(***************************************************************************)
(* visualization/web: the address of the page and the selected exchange,   *)
(* currency pair and interval.  The selection lives in ExchangeContainer,  *)
(* the address in the browser's history, and utils.checkParameters() makes *)
(* them agree.  This module has no variables: it says which addresses      *)
(* there are, which of them App and Navigation offer, and which address    *)
(* and which patches of the container follow from an address and a state.  *)
(*                                                                         *)
(* A currency code pair is a sequence of tokens, <<"btc", "/", "usd">>; it *)
(* stands in an address with its first "/" replaced.  Indices start at 1,  *)
(* and 0 stands for the -1 of the code ("all").                            *)
(***************************************************************************)
EXTENDS Naturals, Sequences, SequencesExt

CONSTANT Catalogue     \* external: the answer to getSupportedExchanges()

Blank   == ""
All     == "all"
AllCode == <<All>>
NoCode  == <<>>

ASSUME CatalogueAssumption ==
    /\ Catalogue \in Seq([name : STRING, codes : Seq(Seq(STRING))])
    /\ Len(Catalogue) > 0
    /\ \A i \in DOMAIN Catalogue :
         /\ Catalogue[i].name \notin {Blank, All}
         /\ \A j \in DOMAIN Catalogue : Catalogue[j].name = Catalogue[i].name => j = i
         /\ Len(Catalogue[i].codes) > 0
         /\ \A k \in DOMAIN Catalogue[i].codes :
              /\ Catalogue[i].codes[k] \notin {NoCode, AllCode}
              /\ \A n \in DOMAIN Catalogue[i].codes[k] : Catalogue[i].codes[k][n] # "-"
              /\ \A m \in DOMAIN Catalogue[i].codes :
                   Catalogue[i].codes[m] = Catalogue[i].codes[k] => m = k

-----------------------------------------------------------------------------
(* Codes in an address. *)

(* String.replace(): the first occurrence.                                   *)
ReplaceToken(code, old, new) ==
    [n \in DOMAIN code |->
        IF code[n] = old /\ \A m \in 1..(n - 1) : code[m] # old THEN new ELSE code[n]]

normalCodePair(code) == ReplaceToken(code, "-", "/")
urlCodePair(code)    == ReplaceToken(code, "/", "-")

(* An address; a parameter that is missing is empty.                         *)
Address(page, interval, exchange, pair) ==
    [page |-> page, interval |-> interval, exchange |-> exchange, pair |-> pair]

PageAddress(page) == Address(page, Blank, Blank, NoCode)

(* A link to a page of the selection.  With empty names it reads /page//,    *)
(* which no route matches.                                                   *)
Unmatched == PageAddress(Blank)

Link(page, interval, exchange, code) ==
    IF exchange = Blank THEN Unmatched ELSE Address(page, interval, exchange, urlCodePair(code))

-----------------------------------------------------------------------------
(* App: the routes and the headers of a user, and the links of Navigation.   *)

IsUser(who)      == who.role = "USER"
IsAdmin(who)     == who.role = "ADMIN"
IsArbitrage(who) == who.type = "arbitrage"

Routes(who) ==
    {"rebalancing", "trade-signals", "profits"}
      \cup (IF IsUser(who) THEN {"users"} ELSE {})
      \cup (IF IsAdmin(who) THEN {"configuration", "postponed-fills", "explanation", "plgraph"} ELSE {})
      \cup (IF IsArbitrage(who) THEN {"arbitrage"} ELSE {"volume", "liquidity", "home"})
      \cup (IF who.type = "ico" THEN {"price"} ELSE {})
      \cup (IF who.type = "signals" THEN {"signals"} ELSE {})

Headers(who) ==
    Routes(who) \cap {"volume", "liquidity", "explanation", "plgraph", "arbitrage", "signals", "profits"}

(* <Redirect>, and the "/" that leads on to the order book.                  *)
Redirected(who) == PageAddress(IF IsArbitrage(who) THEN "arbitrage" ELSE "home")
FrontPage       == Address("liquidity", "now", Blank, NoCode)

NeedsInterval(page) == page \in {"volume", "liquidity"}
NeedsAll(page)      == page = "profits"

NavLinks(who, s) ==
    {PageAddress("home"), PageAddress("rebalancing")}
      \cup {IF IsArbitrage(who)
            THEN Link("arbitrage", Blank, s.exchangeName, s.currencyCodePair)
            ELSE Link("liquidity", "now", s.exchangeName, s.currencyCodePair)}
      \cup (IF who.type = "signals" THEN {Link("signals", Blank, s.exchangeName, s.currencyCodePair)} ELSE {})
      \cup (IF who.type = "ico" THEN {PageAddress("price")} ELSE {})
      \cup (IF IsUser(who) THEN {PageAddress("users")} ELSE {})
      \cup (IF IsAdmin(who) THEN {PageAddress("configuration"), PageAddress("explanation")} ELSE {})

-----------------------------------------------------------------------------
(* ExchangeContainer: its state, and the patches its methods apply to it.    *)

NoSymbol == [exchange |-> Blank, code |-> NoCode]

SymbolsOf(i) ==
    [k \in DOMAIN Catalogue[i].codes |->
        [exchange |-> Catalogue[i].name, code |-> Catalogue[i].codes[k]]]

removeDuplicates(arr) ==
    FoldLeft(LAMBDA unique, s : IF \E k \in DOMAIN unique : unique[k].code = s.code
                                THEN unique ELSE Append(unique, s),
             <<>>, arr)

AllSymbols == removeDuplicates(FlattenSeq([i \in DOMAIN Catalogue |-> SymbolsOf(i)]))

emptySelection ==
    [exchanges |-> FALSE, symbols |-> <<>>, exchangeName |-> Blank, currencyCodePair |-> NoCode,
     symbol |-> NoSymbol, selectedExchange |-> 0, selectedSymbol |-> 0, interval |-> "now"]

NameOf(i) == IF i = 0 THEN All ELSE Catalogue[i].name

getSymbol(symbols, k) ==
    [currencyCodePair |-> IF k = 0 THEN AllCode ELSE symbols[k].code,
     symbol           |-> IF k = 0 THEN NoSymbol ELSE symbols[k]]

Patched(s, patch) == [x \in DOMAIN s |-> IF x \in DOMAIN patch THEN patch[x] ELSE s[x]]

(* loadExchanges() and, as its continuation, updateSelected().               *)
Loaded ==
    [exchanges |-> TRUE, symbols |-> SymbolsOf(1), selectedExchange |-> 1, selectedSymbol |-> 1]

updateSelected(s) ==
    LET symbol == getSymbol(s.symbols, s.selectedSymbol)
    IN  [exchangeName     |-> NameOf(s.selectedExchange),
         currencyCodePair |-> symbol.currencyCodePair,
         symbol           |-> symbol.symbol]

updateSelectedExchange(i) ==
    LET symbols == IF i = 0 THEN AllSymbols ELSE SymbolsOf(i)
        k       == IF i = 0 THEN 0 ELSE 1
        symbol  == getSymbol(symbols, k)
    IN  [selectedExchange |-> i,
         exchangeName     |-> NameOf(i),
         symbols          |-> symbols,
         selectedSymbol   |-> k,
         currencyCodePair |-> symbol.currencyCodePair,
         symbol           |-> symbol.symbol]

updateSelectedSymbol(symbols, k) ==
    LET symbol == getSymbol(symbols, k)
    IN  [selectedSymbol   |-> k,
         currencyCodePair |-> symbol.currencyCodePair,
         symbol           |-> symbol.symbol]

-----------------------------------------------------------------------------
(* checkParameters(): the address that the current one is replaced by, and   *)
(* the patches of an address that stays.                                     *)

Ready(s) == s.exchanges /\ s.exchangeName # Blank /\ s.currencyCodePair # NoCode

Exchanges  == {Catalogue[i].name : i \in DOMAIN Catalogue}
CodesOf(s) == {s.symbols[k].code : k \in DOMAIN s.symbols}

NewInterval(u) ==
    IF ~NeedsInterval(u.page) THEN Blank
    ELSE IF u.interval \in {"now", "day", "week", "month"} THEN u.interval ELSE "day"

NewExchange(u, s) ==
    LET asked == u.exchange \in Exchanges \/ (NeedsAll(u.page) /\ u.exchange = All)
    IN  IF u.exchange # s.exchangeName /\ asked THEN u.exchange
        ELSE IF s.exchangeName = All /\ ~NeedsAll(u.page) THEN Catalogue[1].name
        ELSE s.exchangeName

(* The mutant takes any pair.                                                *)
MutNewCode(u, s) == IF u.pair = NoCode THEN s.currencyCodePair ELSE normalCodePair(u.pair)

NewCode(u, s) ==
    LET code  == normalCodePair(u.pair)
        asked == code \in CodesOf(s) \/ (NeedsAll(u.page) /\ code = AllCode)
    IN  IF code # s.currencyCodePair /\ asked THEN code
        ELSE IF s.currencyCodePair = AllCode /\ ~NeedsAll(u.page) THEN s.symbols[1].code
        ELSE s.currencyCodePair

NewPath(u, s) == Address(u.page, NewInterval(u), NewExchange(u, s), urlCodePair(NewCode(u, s)))

(* A setState() that was called and not yet run: its container, its patch    *)
(* and what the caller does after it.                                        *)
Set(container, patch, then) == [k |-> "set", container |-> container, patch |-> patch, then |-> then]

NoThen    == [k |-> "none"]
Then(k, u) == [k |-> k, url |-> u]

(* The mutant does not ask whether the pair is selected already.             *)
MutSymbolSets(u, s) ==
    LET code   == normalCodePair(u.pair)
        chosen == {k \in DOMAIN s.symbols : s.symbols[k].code = code}
    IN  SetToSeq({Set("exchange", updateSelectedSymbol(s.symbols, k), NoThen) : k \in chosen})

SymbolSets(u, s) ==
    LET code    == normalCodePair(u.pair)
        toAll   == code = AllCode /\ NeedsAll(u.page)
        matches == {k \in DOMAIN s.symbols : s.symbols[k].code = code}
        chosen  == IF s.currencyCodePair = code THEN {} ELSE IF toAll THEN {0} ELSE matches
    IN  SetToSeq({Set("exchange", updateSelectedSymbol(s.symbols, k), NoThen) : k \in chosen})

ExchangeSets(u, s) ==
    LET matches == {i \in DOMAIN Catalogue : Catalogue[i].name = u.exchange}
        chosen  == IF s.exchangeName = u.exchange THEN {} ELSE matches
    IN  SetToSeq({Set("exchange", updateSelectedExchange(i), NoThen) : i \in chosen})

(* "All" is awaited before the pair is looked at, an exchange is not: the    *)
(* pair is then looked up in the symbols of the exchange before.             *)
SelectionSets(u, s) ==
    IF u.exchange = All /\ NeedsAll(u.page) /\ s.exchangeName # All
    THEN <<Set("exchange", updateSelectedExchange(0), Then("symbol", u))>>
    ELSE ExchangeSets(u, s) \o SymbolSets(u, s)

Sets(u, s) ==
    IF u.interval # Blank /\ u.interval # s.interval
    THEN <<Set("exchange", [interval |-> u.interval], Then("selection", u))>>
    ELSE SelectionSets(u, s)

-----------------------------------------------------------------------------
(* The links of the header: another exchange with the pair that is selected, *)
(* or another pair of the exchange that is.                                  *)

ExchangeLinks(page, s) ==
    LET interval == IF NeedsInterval(page) THEN s.interval ELSE Blank
        names    == Exchanges \cup (IF NeedsAll(page) THEN {All} ELSE {})
    IN  IF ~s.exchanges THEN {}
        ELSE {Address(page, interval, name, urlCodePair(s.currencyCodePair)) : name \in names}

SymbolLinks(page, s) ==
    LET interval == IF NeedsInterval(page) THEN s.interval ELSE Blank
        codes    == CodesOf(s) \cup (IF NeedsAll(page) THEN {AllCode} ELSE {})
    IN  IF s.symbols = <<>> THEN {}
        ELSE {Address(page, interval, s.exchangeName, urlCodePair(code)) : code \in codes}
=============================================================================
