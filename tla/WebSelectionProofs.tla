------------------------- MODULE WebSelectionProofs -------------------------
(***************************************************************************)
(* What checkParameters() does to an address, for every catalogue, address *)
(* and state of the container: the address that it pushes is one that it   *)
(* accepts, so a render pushes once at most.  Then the list of all symbols *)
(* of a catalogue, by induction along the fold that makes it.              *)
(***************************************************************************)
EXTENDS WebSelection, WellFoundedInduction, FiniteSetTheorems, TLAPS

(* Strings.  The provers do not know that a literal is one, so those of the  *)
(* code are named.                                                           *)
Words == STRING \cup {Blank, All, "/", "-", "now", "day", "home", "rebalancing", "arbitrage",
                      "liquidity", "volume", "signals", "profits", "price", "users", "configuration",
                      "explanation", "plgraph"}

(* A code without the character that stands for "/" in an address.           *)
Clean(code) == code \in Seq(Words) /\ \A n \in DOMAIN code : code[n] # "-"

(* What ExchangeContainer holds after loadExchanges(): an exchange or "all", *)
(* symbols, and a code that need not be one of them.                         *)
Selected(s) ==
    /\ s.exchangeName \in Exchanges \cup {All}
    /\ 1 \in DOMAIN s.symbols
    /\ \A k \in DOMAIN s.symbols : Clean(s.symbols[k].code) /\ s.symbols[k].code # AllCode
    /\ Clean(s.currencyCodePair)

-----------------------------------------------------------------------------
(* urlCodePair() puts "-" in the place of the first "/", and nowhere else.   *)
LEMMA UrlToken ==
    ASSUME NEW code, Clean(code), NEW n \in DOMAIN code
    PROVE  /\ DOMAIN urlCodePair(code) = DOMAIN code
           /\ urlCodePair(code)[n] = "-"
                <=> code[n] = "/" /\ \A m \in 1..(n - 1) : code[m] # "/"
           /\ urlCodePair(code)[n] # "-" => urlCodePair(code)[n] = code[n]
BY DEF urlCodePair, ReplaceToken, Clean

(* A code survives the way into an address and back.                         *)
THEOREM CodeRoundTrip ==
    ASSUME NEW code, Clean(code)
    PROVE  normalCodePair(urlCodePair(code)) = code
<1>. DEFINE u == urlCodePair(code)
            b == normalCodePair(u)
<1>1. code = [n \in DOMAIN code |-> code[n]] /\ DOMAIN code = 1..Len(code) /\ Len(code) \in Nat
    BY DEF Clean
<1>2. DOMAIN u = DOMAIN code
    BY DEF urlCodePair, ReplaceToken
<1>3. b = [n \in DOMAIN code |->
              IF u[n] = "-" /\ \A m \in 1..(n - 1) : u[m] # "-" THEN "/" ELSE u[n]]
    BY <1>2 DEF normalCodePair, ReplaceToken
<1>4. ASSUME NEW n \in DOMAIN code PROVE b[n] = code[n]
    <2>1. CASE u[n] = "-"
        <3>1. code[n] = "/" /\ \A m \in 1..(n - 1) : code[m] # "/"
            BY <2>1, UrlToken
        <3>2. ASSUME NEW m \in 1..(n - 1) PROVE u[m] # "-"
            <4>1. m \in DOMAIN code
                BY <1>1, <3>2
            <4>. QED
                BY <3>1, <4>1, UrlToken
        <3>. QED
            BY <1>3, <2>1, <3>1, <3>2
    <2>2. CASE u[n] # "-"
        BY <1>3, <2>2, UrlToken
    <2>. QED
        BY <2>1, <2>2
<1>5. b = [n \in DOMAIN code |-> b[n]]
    BY <1>3
<1>. QED
    BY <1>1, <1>4, <1>5

-----------------------------------------------------------------------------
(* The parts of the address. *)

LEMMA IntervalStable ==
    ASSUME NEW u, NEW v, v.page = u.page, v.interval = NewInterval(u)
    PROVE  NewInterval(v) = NewInterval(u)
BY DEF NewInterval

(* The exchange that "all" is replaced by.                                   *)
LEMMA FirstExchange == Catalogue[1].name \in Exchanges /\ Catalogue[1].name # All
<1>. DEFINE Entry == [name : STRING, codes : Seq(Seq(STRING))]
<1>1. Catalogue \in Seq(Entry) /\ Len(Catalogue) > 0
    BY CatalogueAssumption
<1>2. 1 \in DOMAIN Catalogue
    <2>. HIDE DEF Entry
    <2>. QED
        BY <1>1
<1>. QED
    BY <1>2, CatalogueAssumption DEF Exchanges

LEMMA ExchangeStable ==
    ASSUME NEW s, Selected(s), NEW u, NEW v, v.page = u.page, v.exchange = NewExchange(u, s)
    PROVE  NewExchange(v, s) = NewExchange(u, s)
BY FirstExchange DEF NewExchange

LEMMA NewCodeClean ==
    ASSUME NEW s, Selected(s), NEW u
    PROVE  Clean(NewCode(u, s))
<1>1. Clean(AllCode)
    <2>1. All # "-"
        BY DEF All
    <2>2. All \in Words
        BY Zenon DEF Words
    <2>3. <<All>> \in Seq(Words) /\ \A n \in DOMAIN <<All>> : <<All>>[n] = All
        BY <2>2
    <2>. QED
        BY Zenon, <2>1, <2>3 DEF Clean, AllCode
<1>2. \A c \in CodesOf(s) : Clean(c)
    BY DEF Selected, CodesOf
<1>3. s.symbols[1].code \in CodesOf(s)
    BY DEF Selected, CodesOf
<1>. QED
    BY <1>1, <1>2, <1>3 DEF NewCode, Selected

LEMMA CodeStable ==
    ASSUME NEW s, Selected(s), NEW u, NEW v, v.page = u.page,
           v.pair = urlCodePair(NewCode(u, s))
    PROVE  NewCode(v, s) = NewCode(u, s)
<1>1. normalCodePair(v.pair) = NewCode(u, s)
    BY NewCodeClean, CodeRoundTrip
<1>2. s.symbols[1].code \in CodesOf(s) /\ s.symbols[1].code # AllCode
    BY DEF Selected, CodesOf
<1>. QED
    BY <1>1, <1>2 DEF NewCode

(* The address that checkParameters() pushes is left alone when the header   *)
(* is rendered with it: there is no loop of pushes, whatever the address,    *)
(* the exchanges and the selection are.                                      *)
THEOREM PushesOnce ==
    ASSUME NEW s, Selected(s), NEW u
    PROVE  NewPath(NewPath(u, s), s) = NewPath(u, s)
<1>. DEFINE v == NewPath(u, s)
<1>1. /\ v.page = u.page
      /\ v.interval = NewInterval(u)
      /\ v.exchange = NewExchange(u, s)
      /\ v.pair = urlCodePair(NewCode(u, s))
    BY DEF NewPath, Address
<1>2. NewInterval(v) = NewInterval(u)
    BY <1>1, IntervalStable
<1>3. NewExchange(v, s) = NewExchange(u, s)
    BY <1>1, ExchangeStable
<1>4. NewCode(v, s) = NewCode(u, s)
    BY <1>1, CodeStable
<1>. QED
    BY <1>1, <1>2, <1>3, <1>4 DEF NewPath

(* And what it pushes names an exchange of the catalogue, or "all" where     *)
(* the header offers it: no other name ever stays in the address.            *)
THEOREM PushesAnExchange ==
    ASSUME NEW s, Selected(s), NEW u
    PROVE  NewPath(u, s).exchange \in Exchanges \cup (IF NeedsAll(u.page) THEN {All} ELSE {})
BY FirstExchange DEF NewPath, Address, NewExchange, Selected

-----------------------------------------------------------------------------
(* Induction over the natural numbers, for a set: the least number that is   *)
(* not in it would have a predecessor.                                       *)
LEMMA NatSetInduction ==
    ASSUME NEW T, 0 \in T, \A n \in Nat : n \in T => n + 1 \in T
    PROVE  Nat \subseteq T
<1>. DEFINE R == OpToRel(<, Nat)
            B == Nat \ T
<1>1. IsWellFoundedOn(R, Nat)
    BY NatLessThanWellFounded
<1>2. \A x, y \in Nat : <<x, y>> \in R <=> x < y
    BY DEF OpToRel
<1>. HIDE DEF R
<1>3. SUFFICES ASSUME B # {} PROVE FALSE
    OBVIOUS
<1>4. PICK x \in B : \A y \in B : ~ (<<y, x>> \in R)
    BY <1>1, <1>3, WFMin
<1>5. x - 1 \in Nat /\ (x - 1) + 1 = x
    OBVIOUS
<1>6. x - 1 \in B
    BY <1>5
<1>7. <<x - 1, x>> \in R
    BY <1>2, <1>5
<1>. QED
    BY <1>4, <1>6, <1>7

Flat(f, seqs, n) == f = [i \in 1..n |-> IF i = 1 THEN seqs[i] ELSE f[i - 1] \o seqs[i]]

LEMMA FlatExists ==
    ASSUME NEW seqs, NEW m \in Nat
    PROVE  \E f : Flat(f, seqs, m)
<1>. DEFINE T == {n \in Nat : \E f : Flat(f, seqs, n)}
<1>1. 0 \in T
    <2>. DEFINE e == [i \in 1..0 |-> 0]
    <2>1. Flat(e, seqs, 0)
        BY DEF Flat
    <2>. QED
        BY <2>1
<1>2. ASSUME NEW n \in Nat, n \in T PROVE n + 1 \in T
    <2>1. PICK f : Flat(f, seqs, n)
        BY <1>2
    <2>. DEFINE g == [i \in 1..(n + 1) |-> IF i <= n THEN f[i] ELSE IF i = 1 THEN seqs[i] ELSE f[i - 1] \o seqs[i]]
                h == [i \in 1..(n + 1) |-> IF i = 1 THEN seqs[i] ELSE g[i - 1] \o seqs[i]]
    <2>2. ASSUME NEW i \in 1..(n + 1) PROVE g[i] = h[i]
        <3>1. CASE i = n + 1
            BY <3>1
        <3>2. CASE i \in 1..n
            <4>1. f[i] = IF i = 1 THEN seqs[i] ELSE f[i - 1] \o seqs[i]
                BY <2>1, <3>2 DEF Flat
            <4>2. g[i] = f[i] /\ (i # 1 => g[i - 1] = f[i - 1])
                BY <3>2
            <4>. QED
                BY <4>1, <4>2, <3>2
        <3>. QED
            BY <3>1, <3>2
    <2>3. g = h
        BY <2>2
    <2>4. Flat(g, seqs, n + 1)
        BY <2>3 DEF Flat
    <2>. HIDE DEF g
    <2>. QED
        BY <2>4
<1>. HIDE DEF T
<1>3. Nat \subseteq T
    BY <1>1, <1>2, NatSetInduction
<1>. QED
    BY <1>3 DEF T

(* q holds what the first n sequences hold, and nothing else.                *)
Collects(q, S, seqs, n) ==
    /\ q \in Seq(S)
    /\ \A i \in 1..n : \A k \in DOMAIN seqs[i] : \E x \in DOMAIN q : q[x] = seqs[i][k]
    /\ \A x \in DOMAIN q : \E i \in 1..n : \E k \in DOMAIN seqs[i] : q[x] = seqs[i][k]

LEMMA CollectsMore ==
    ASSUME NEW S, NEW seqs, NEW n \in Nat, NEW a, Collects(a, S, seqs, n),
           NEW b \in Seq(S), b = seqs[n + 1]
    PROVE  Collects(a \o b, S, seqs, n + 1)
<1>1. a \in Seq(S)
    BY DEF Collects
<1>. DEFINE c == a \o b
<1>2. /\ c \in Seq(S)
      /\ \A x \in DOMAIN a : x \in DOMAIN c /\ c[x] = a[x]
      /\ \A x \in DOMAIN b : x + Len(a) \in DOMAIN c /\ c[x + Len(a)] = b[x]
      /\ \A x \in DOMAIN c : \/ x \in DOMAIN a /\ c[x] = a[x]
                             \/ x - Len(a) \in DOMAIN b /\ c[x] = b[x - Len(a)]
    BY <1>1
<1>. HIDE DEF c
<1>3. ASSUME NEW i \in 1..(n + 1), NEW k \in DOMAIN seqs[i]
      PROVE  \E x \in DOMAIN c : c[x] = seqs[i][k]
    <2>1. CASE i = n + 1
        BY <1>2, <2>1
    <2>2. CASE i \in 1..n
        <3>1. PICK x \in DOMAIN a : a[x] = seqs[i][k]
            BY <2>2 DEF Collects
        <3>. QED
            BY <1>2, <3>1
    <2>. QED
        BY <2>1, <2>2
<1>4. ASSUME NEW x \in DOMAIN c
      PROVE  \E i \in 1..(n + 1) : \E k \in DOMAIN seqs[i] : c[x] = seqs[i][k]
    <2>1. CASE x \in DOMAIN a /\ c[x] = a[x]
        <3>1. PICK i \in 1..n : \E k \in DOMAIN seqs[i] : a[x] = seqs[i][k]
            BY <2>1 DEF Collects
        <3>2. i \in 1..(n + 1)
            OBVIOUS
        <3>. QED
            BY <3>1, <3>2, <2>1
    <2>2. CASE x - Len(a) \in DOMAIN b /\ c[x] = b[x - Len(a)]
        <3>1. n + 1 \in 1..(n + 1)
            OBVIOUS
        <3>. QED
            BY <2>2, <3>1
    <2>. QED
        BY <1>2, <2>1, <2>2
<1>. QED
    BY <1>2, <1>3, <1>4 DEF Collects, c

LEMMA FlattenCollects ==
    ASSUME NEW S, NEW seqs \in Seq(Seq(S)), Len(seqs) # 0
    PROVE  Collects(FlattenSeq(seqs), S, seqs, Len(seqs))
<1>. DEFINE F == CHOOSE f : Flat(f, seqs, Len(seqs))
<1>1. Len(seqs) \in Nat /\ DOMAIN seqs = 1..Len(seqs)
    OBVIOUS
<1>2. Flat(F, seqs, Len(seqs))
    BY <1>1, FlatExists
<1>3. FlattenSeq(seqs) = F[Len(seqs)]
    <2>1. FlattenSeq(seqs) = (CHOOSE f : f = [i \in 1..Len(seqs) |->
                                IF i = 1 THEN seqs[i] ELSE f[i - 1] \o seqs[i]])[Len(seqs)]
        BY Zenon DEF FlattenSeq
    <2>. QED
        BY Zenon, <2>1 DEF Flat
<1>. DEFINE T == {n \in Nat : n \in 1..Len(seqs) => Collects(F[n], S, seqs, n)}
<1>. HIDE DEF F
<1>4. \A i \in 1..Len(seqs) : F[i] = IF i = 1 THEN seqs[i] ELSE F[i - 1] \o seqs[i]
    BY <1>2 DEF Flat
<1>5. 0 \in T
    OBVIOUS
<1>6. ASSUME NEW n \in Nat, n \in T, n + 1 \in 1..Len(seqs)
      PROVE  Collects(F[n + 1], S, seqs, n + 1)
    <2>0. seqs[n + 1] \in Seq(S)
        BY <1>6, <1>1
    <2>1. CASE n = 0
        <3>1. F[1] = seqs[1] /\ seqs[1] \in Seq(S) /\ n + 1 = 1
            BY <1>4, <1>6, <2>0, <2>1
        <3>2. Collects(seqs[1], S, seqs, 1)
            <4>1. 1 \in 1..1 /\ \A i \in 1..1 : i = 1
                OBVIOUS
            <4>. QED
                BY Zenon, <3>1, <4>1 DEF Collects
        <3>3. F[n + 1] = seqs[1]
            BY <3>1
        <3>. QED
            BY Zenon, <3>1, <3>2, <3>3
    <2>2. CASE n # 0
        <3>1. Collects(F[n], S, seqs, n)
            BY <1>6, <2>2
        <3>2. n + 1 # 1 /\ (n + 1) - 1 = n
            BY <2>2
        <3>3. F[n + 1] = F[n] \o seqs[n + 1]
            BY <1>4, <1>6, <3>2
        <3>. QED
            BY <2>0, <3>1, <3>3, CollectsMore
    <2>. QED
        BY <2>1, <2>2
<1>7. \A n \in Nat : n \in T => n + 1 \in T
    BY <1>6
<1>. HIDE DEF T
<1>8. Nat \subseteq T
    BY <1>5, <1>7, NatSetInduction
<1>9. Collects(F[Len(seqs)], S, seqs, Len(seqs))
    BY <1>8, <1>1 DEF T
<1>. QED
    BY <1>9, <1>3

(* The function behind the fold.                                             *)
Folded(q, x) == IF \E k \in DOMAIN q : q[k].code = x.code THEN q ELSE Append(q, x)

Folding(f, arr, n) ==
    f = [s \in SUBSET (1..n) |->
            IF s = {} THEN <<>> ELSE Folded(f[s \ {Max(s)}], arr[Max(s)])]

LEMMA MaxOfInterval ==
    ASSUME NEW n \in Nat, NEW s \in SUBSET (1..(n + 1)), n + 1 \in s
    PROVE  Max(s) = n + 1
<1>1. (n + 1) \in s /\ \A y \in s : (n + 1) >= y
    OBVIOUS
<1>2. \A x \in s : (\A y \in s : x >= y) => x = n + 1
    BY <1>1
<1>. QED
    BY <1>1, <1>2 DEF Max

LEMMA FoldingExists ==
    ASSUME NEW arr, NEW m \in Nat
    PROVE  \E f : Folding(f, arr, m)
<1>. DEFINE T == {n \in Nat : \E f : Folding(f, arr, n)}
<1>1. 0 \in T
    <2>. DEFINE e == [s \in SUBSET (1..0) |-> <<>>]
    <2>1. \A s \in SUBSET (1..0) : s = {}
        OBVIOUS
    <2>2. Folding(e, arr, 0)
        BY <2>1 DEF Folding
    <2>. QED
        BY <2>2
<1>2. ASSUME NEW n \in Nat, n \in T PROVE n + 1 \in T
    <2>1. PICK f : Folding(f, arr, n)
        BY <1>2
    <2>. DEFINE D == SUBSET (1..(n + 1))
                g == [s \in D |-> IF n + 1 \in s THEN Folded(f[s \ {n + 1}], arr[n + 1]) ELSE f[s]]
                h == [s \in D |-> IF s = {} THEN <<>> ELSE Folded(g[s \ {Max(s)}], arr[Max(s)])]
    <2>2. ASSUME NEW s \in D PROVE g[s] = h[s]
        <3>0. s \ {Max(s)} \in D
            OBVIOUS
        <3>1. CASE n + 1 \in s
            <4>1. Max(s) = n + 1
                BY <3>1, MaxOfInterval
            <4>2. n + 1 \notin s \ {n + 1}
                OBVIOUS
            <4>. QED
                BY <3>0, <3>1, <4>1, <4>2
        <3>2. CASE n + 1 \notin s
            <4>1. s \in SUBSET (1..n)
                BY <3>2
            <4>2. f[s] = IF s = {} THEN <<>> ELSE Folded(f[s \ {Max(s)}], arr[Max(s)])
                BY <2>1, <4>1 DEF Folding
            <4>. QED
                BY <3>0, <3>2, <4>2
        <3>. QED
            BY <3>1, <3>2
    <2>3. g = h
        BY <2>2
    <2>4. Folding(g, arr, n + 1)
        BY <2>3 DEF Folding
    <2>. HIDE DEF g
    <2>. QED
        BY <2>4
<1>. HIDE DEF T
<1>3. Nat \subseteq T
    BY <1>1, <1>2, NatSetInduction
<1>. QED
    BY <1>3 DEF T

(* q has each code of the first n symbols, once, and nothing else.           *)
Unique(q, S, arr, n) ==
    /\ q \in Seq(S)
    /\ \A k, m \in DOMAIN q : q[k].code = q[m].code => k = m
    /\ \A k \in DOMAIN q : \E i \in 1..n : q[k] = arr[i]
    /\ \A i \in 1..n : \E k \in DOMAIN q : q[k].code = arr[i].code

LEMMA UniqueMore ==
    ASSUME NEW S, NEW arr, NEW n \in Nat, NEW q, Unique(q, S, arr, n), NEW x \in S, x = arr[n + 1]
    PROVE  Unique(Folded(q, x), S, arr, n + 1)
<1>0. q \in Seq(S) /\ 1..n \subseteq 1..(n + 1) /\ n + 1 \in 1..(n + 1)
    BY DEF Unique
<1>1. CASE \E k \in DOMAIN q : q[k].code = x.code
    <2>1. Folded(q, x) = q
        BY <1>1 DEF Folded
    <2>2. \A i \in 1..(n + 1) : i \in 1..n \/ i = n + 1
        OBVIOUS
    <2>3. \A k \in DOMAIN q : \E i \in 1..(n + 1) : q[k] = arr[i]
        BY <1>0 DEF Unique
    <2>4. ASSUME NEW i \in 1..(n + 1) PROVE \E k \in DOMAIN q : q[k].code = arr[i].code
        BY Zenon, <1>1, <2>2 DEF Unique
    <2>5. \A k, m \in DOMAIN q : q[k].code = q[m].code => k = m
        BY DEF Unique
    <2>6. Unique(q, S, arr, n + 1)
        BY Zenon, <1>0, <2>3, <2>4, <2>5 DEF Unique
    <2>. QED
        BY Zenon, <2>1, <2>6
<1>2. CASE ~ \E k \in DOMAIN q : q[k].code = x.code
    <2>. DEFINE r == Append(q, x)
    <2>1. Folded(q, x) = r
        BY <1>2 DEF Folded
    <2>2. /\ r \in Seq(S)
          /\ \A k \in DOMAIN q : k \in DOMAIN r /\ r[k] = q[k]
          /\ Len(q) + 1 \in DOMAIN r /\ r[Len(q) + 1] = x
          /\ \A k \in DOMAIN r : k \in DOMAIN q \/ k = Len(q) + 1
        BY <1>0
    <2>. HIDE DEF r
    <2>3. ASSUME NEW k \in DOMAIN r, NEW m \in DOMAIN r, r[k].code = r[m].code PROVE k = m
        BY Zenon, <1>2, <2>2, <2>3 DEF Unique
    <2>4. ASSUME NEW k \in DOMAIN r PROVE \E i \in 1..(n + 1) : r[k] = arr[i]
        <3>1. CASE k \in DOMAIN q
            <4>1. PICK i \in 1..n : q[k] = arr[i]
                BY <3>1 DEF Unique
            <4>. QED
                BY <1>0, <2>2, <3>1, <4>1
        <3>2. CASE k = Len(q) + 1
            BY <1>0, <2>2, <3>2
        <3>. QED
            BY <2>2, <3>1, <3>2
    <2>5. \A i \in 1..(n + 1) : i \in 1..n \/ i = n + 1
        OBVIOUS
    <2>6. ASSUME NEW i \in 1..(n + 1) PROVE \E k \in DOMAIN r : r[k].code = arr[i].code
        <3>1. CASE i \in 1..n
            <4>1. PICK k \in DOMAIN q : q[k].code = arr[i].code
                BY <3>1 DEF Unique
            <4>. QED
                BY <2>2, <4>1
        <3>2. CASE i = n + 1
            BY <2>2, <3>2
        <3>. QED
            BY <2>5, <3>1, <3>2
    <2>7. Unique(r, S, arr, n + 1)
        BY Zenon, <2>2, <2>3, <2>4, <2>6 DEF Unique
    <2>. QED
        BY Zenon, <2>1, <2>7
<1>. QED
    BY <1>1, <1>2

(* removeDuplicates() of controls/functions.js, for every list: each code    *)
(* that the list has is in the result exactly once, with an entry of the     *)
(* list, and the result holds nothing else.                                  *)
THEOREM removeDuplicatesUnique ==
    ASSUME NEW S, NEW arr \in Seq(S)
    PROVE  Unique(removeDuplicates(arr), S, arr, Len(arr))
<1>. DEFINE F == CHOOSE f : Folding(f, arr, Len(arr))
<1>1. Len(arr) \in Nat /\ DOMAIN arr = 1..Len(arr)
    OBVIOUS
<1>2. Folding(F, arr, Len(arr))
    BY <1>1, FoldingExists
<1>3. removeDuplicates(arr) = F[DOMAIN arr]
    <2>1. removeDuplicates(arr) =
            (CHOOSE f : f = [s \in SUBSET DOMAIN arr |->
                IF s = {} THEN <<>>
                ELSE IF \E k \in DOMAIN f[s \ {Max(s)}] : f[s \ {Max(s)}][k].code = arr[Max(s)].code
                     THEN f[s \ {Max(s)}] ELSE Append(f[s \ {Max(s)}], arr[Max(s)])])[DOMAIN arr]
        BY Zenon DEF removeDuplicates, FoldLeft, MapThenFoldSet
    <2>. QED
        BY Zenon, <1>1, <2>1 DEF Folding, Folded
<1>. DEFINE T == {n \in Nat : n <= Len(arr) => Unique(F[1..n], S, arr, n)}
<1>. HIDE DEF F
<1>4. \A s \in SUBSET (1..Len(arr)) : F[s] = IF s = {} THEN <<>> ELSE Folded(F[s \ {Max(s)}], arr[Max(s)])
    BY <1>2 DEF Folding
<1>5. 0 \in T
    <2>0. 1..0 = {} /\ {} \in SUBSET (1..Len(arr))
        OBVIOUS
    <2>1. F[1..0] = <<>>
        BY Zenon, <1>4, <2>0
    <2>2. Unique(<<>>, S, arr, 0)
        <3>1. <<>> \in Seq(S) /\ DOMAIN <<>> = {} /\ 1..0 = {}
            OBVIOUS
        <3>. QED
            BY Zenon, <3>1 DEF Unique
    <2>. QED
        BY <2>1, <2>2
<1>6. ASSUME NEW n \in Nat, n \in T, n + 1 <= Len(arr)
      PROVE  Unique(F[1..(n + 1)], S, arr, n + 1)
    <2>1. /\ 1..(n + 1) \in SUBSET (1..Len(arr))
          /\ 1..(n + 1) # {}
          /\ (1..(n + 1)) \ {n + 1} = 1..n
          /\ n + 1 \in 1..(n + 1)
        BY <1>1, <1>6
    <2>2. Max(1..(n + 1)) = n + 1
        BY <2>1, MaxOfInterval
    <2>3. F[1..(n + 1)] = Folded(F[1..n], arr[n + 1])
        BY <1>4, <2>1, <2>2
    <2>4. Unique(F[1..n], S, arr, n) /\ arr[n + 1] \in S
        BY <1>1, <1>6
    <2>. QED
        BY <2>3, <2>4, UniqueMore
<1>7. \A n \in Nat : n \in T => n + 1 \in T
    BY <1>1, <1>6
<1>. HIDE DEF T
<1>8. Nat \subseteq T
    BY <1>5, <1>7, NatSetInduction
<1>9. Unique(F[1..Len(arr)], S, arr, Len(arr))
    BY <1>8, <1>1 DEF T
<1>. QED
    BY <1>9, <1>3, <1>1

-----------------------------------------------------------------------------
Symbols  == [exchange : Words, code : Seq(Words)]
AllCodes == {AllSymbols[k].code : k \in DOMAIN AllSymbols}

(* A code that a currency pair may have.                                     *)
Proper(code) == Clean(code) /\ code # NoCode /\ code # AllCode

LEMMA CatalogueType ==
    /\ Len(Catalogue) \in Nat /\ Len(Catalogue) > 0 /\ DOMAIN Catalogue = 1..Len(Catalogue)
    /\ 1 \in DOMAIN Catalogue
    /\ \A i \in DOMAIN Catalogue :
         /\ Catalogue[i].name \in STRING
         /\ Catalogue[i].codes \in Seq(Seq(STRING))
<1>. DEFINE Entry == [name : STRING, codes : Seq(Seq(STRING))]
<1>1. Catalogue \in Seq(Entry) /\ Len(Catalogue) > 0
    BY CatalogueAssumption
<1>2. \A e \in Entry : e.name \in STRING /\ e.codes \in Seq(Seq(STRING))
    OBVIOUS
<1>3. /\ Len(Catalogue) \in Nat /\ DOMAIN Catalogue = 1..Len(Catalogue)
      /\ 1 \in DOMAIN Catalogue
      /\ \A i \in DOMAIN Catalogue : Catalogue[i] \in Entry
    <2>. HIDE DEF Entry
    <2>. QED
        BY <1>1
<1>. QED
    BY <1>1, <1>2, <1>3

LEMMA SeqSubset ==
    ASSUME NEW S, NEW T, S \subseteq T, NEW c \in Seq(S)
    PROVE  c \in Seq(T)
<1>1. Len(c) \in Nat /\ c = [n \in 1..Len(c) |-> c[n]] /\ \A n \in 1..Len(c) : c[n] \in T
    OBVIOUS
<1>. QED
    BY <1>1

LEMMA SymbolsOfType ==
    ASSUME NEW i \in DOMAIN Catalogue
    PROVE  /\ SymbolsOf(i) \in Seq(Symbols)
           /\ DOMAIN SymbolsOf(i) = DOMAIN Catalogue[i].codes
           /\ Len(SymbolsOf(i)) = Len(Catalogue[i].codes)
           /\ Len(SymbolsOf(i)) > 0
           /\ \A k \in DOMAIN SymbolsOf(i) : /\ SymbolsOf(i)[k].code = Catalogue[i].codes[k]
                                             /\ Proper(SymbolsOf(i)[k].code)
<1>. DEFINE codes == Catalogue[i].codes
            name  == Catalogue[i].name
            L     == SymbolsOf(i)
<1>1. codes \in Seq(Seq(STRING)) /\ name \in STRING /\ Len(codes) > 0
    BY CatalogueType, CatalogueAssumption
<1>2. L = [k \in DOMAIN codes |-> [exchange |-> name, code |-> codes[k]]]
    BY DEF SymbolsOf
<1>3. \A k \in DOMAIN codes : /\ codes[k] \in Seq(STRING)
                             /\ codes[k] \notin {NoCode, AllCode}
                             /\ \A n \in DOMAIN codes[k] : codes[k][n] # "-"
    <2>1. \A k \in DOMAIN codes : /\ codes[k] \notin {NoCode, AllCode}
                                 /\ \A n \in DOMAIN codes[k] : codes[k][n] # "-"
        BY Zenon, CatalogueAssumption
    <2>. HIDE DEF codes
    <2>2. \A k \in DOMAIN codes : codes[k] \in Seq(STRING)
        BY <1>1
    <2>. QED
        BY <2>1, <2>2
<1>. HIDE DEF codes, name, L
<1>4. \A k \in DOMAIN codes : [exchange |-> name, code |-> codes[k]] \in Symbols /\ codes[k] \in Seq(Words)
    <2>1. STRING \subseteq Words
        BY Zenon DEF Words
    <2>2. ASSUME NEW c \in Seq(STRING) PROVE c \in Seq(Words)
        BY <2>1, SeqSubset
    <2>3. \A k \in DOMAIN codes : codes[k] \in Seq(Words)
        BY Zenon, <1>3, <2>2
    <2>4. name \in Words
        BY Zenon, <1>1, <2>1
    <2>. QED
        BY <2>3, <2>4 DEF Symbols
<1>5. Len(codes) \in Nat /\ DOMAIN codes = 1..Len(codes)
    BY <1>1
<1>6. L \in Seq(Symbols) /\ DOMAIN L = DOMAIN codes /\ Len(L) = Len(codes)
    BY <1>2, <1>4, <1>5
<1>7. \A k \in DOMAIN codes : L[k].code = codes[k]
    BY <1>2
<1>8. \A k \in DOMAIN codes : Proper(codes[k])
    BY <1>3, <1>4 DEF Proper, Clean
<1>. QED
    BY <1>1, <1>5, <1>6, <1>7, <1>8 DEF codes, L

(* What updateSelectedExchange() offers for "all", for every catalogue:      *)
(* every code of every exchange, each of them once, and none that            *)
(* normalCodePair() would not give back.                                     *)
THEOREM AllSymbolsType ==
    /\ AllSymbols \in Seq(Symbols)
    /\ \A k, m \in DOMAIN AllSymbols : AllSymbols[k].code = AllSymbols[m].code => k = m
    /\ \A k \in DOMAIN AllSymbols : Proper(AllSymbols[k].code)
    /\ \A i \in DOMAIN Catalogue : \A k \in DOMAIN SymbolsOf(i) :
         \E m \in DOMAIN AllSymbols : AllSymbols[m].code = SymbolsOf(i)[k].code
<1>. DEFINE seqs == [i \in DOMAIN Catalogue |-> SymbolsOf(i)]
            arr  == FlattenSeq(seqs)
<1>1. /\ Len(Catalogue) \in Nat /\ Len(Catalogue) > 0 /\ DOMAIN Catalogue = 1..Len(Catalogue)
    BY CatalogueType
<1>2. \A i \in DOMAIN Catalogue : SymbolsOf(i) \in Seq(Symbols)
    BY SymbolsOfType
<1>3. seqs \in Seq(Seq(Symbols)) /\ Len(seqs) = Len(Catalogue) /\ DOMAIN seqs = DOMAIN Catalogue
      /\ \A i \in DOMAIN Catalogue : seqs[i] = SymbolsOf(i)
    BY <1>1, <1>2
<1>4. AllSymbols = removeDuplicates(arr)
    BY DEF AllSymbols
<1>. HIDE DEF seqs
<1>5. Collects(arr, Symbols, seqs, Len(seqs))
    BY <1>1, <1>3, FlattenCollects
<1>. HIDE DEF arr
<1>6. arr \in Seq(Symbols) /\ DOMAIN arr = 1..Len(arr)
    BY <1>5 DEF Collects
<1>7. Unique(AllSymbols, Symbols, arr, Len(arr))
    BY <1>4, <1>6, removeDuplicatesUnique
<1>8. ASSUME NEW k \in DOMAIN AllSymbols PROVE Proper(AllSymbols[k].code)
    <2>1. PICK n \in 1..Len(arr) : AllSymbols[k] = arr[n]
        BY <1>7 DEF Unique
    <2>2. PICK i \in 1..Len(seqs) : \E m \in DOMAIN seqs[i] : arr[n] = seqs[i][m]
        BY <1>5, <1>6 DEF Collects
    <2>3. PICK m \in DOMAIN seqs[i] : arr[n] = seqs[i][m]
        BY <2>2
    <2>4. i \in DOMAIN Catalogue /\ seqs[i] = SymbolsOf(i)
        BY <1>1, <1>3
    <2>5. m \in DOMAIN SymbolsOf(i) /\ AllSymbols[k] = SymbolsOf(i)[m]
        BY <2>1, <2>3, <2>4
    <2>. QED
        BY <2>4, <2>5, SymbolsOfType
<1>9. ASSUME NEW i \in DOMAIN Catalogue, NEW k \in DOMAIN SymbolsOf(i)
      PROVE  \E m \in DOMAIN AllSymbols : AllSymbols[m].code = SymbolsOf(i)[k].code
    <2>0. i \in 1..Len(seqs) /\ k \in DOMAIN seqs[i] /\ seqs[i][k] = SymbolsOf(i)[k]
        BY <1>1, <1>3
    <2>1. PICK n \in DOMAIN arr : arr[n] = SymbolsOf(i)[k]
        BY Zenon, <1>5, <2>0 DEF Collects
    <2>2. PICK m \in DOMAIN AllSymbols : AllSymbols[m].code = arr[n].code
        BY <1>6, <1>7, <2>1 DEF Unique
    <2>. QED
        BY <2>1, <2>2
<1>. QED
    BY <1>7, <1>8, <1>9 DEF Unique

(* "all" has every pair once: it is no shorter than the list of an exchange. *)
LEMMA AllIsLongest ==
    ASSUME NEW i \in DOMAIN Catalogue
    PROVE  Len(SymbolsOf(i)) <= Len(AllSymbols)
<1>. DEFINE L == SymbolsOf(i)
            S == 1..Len(L)
            T == 1..Len(AllSymbols)
            f == [k \in S |-> CHOOSE m \in T : AllSymbols[m].code = L[k].code]
<1>1. L \in Seq(Symbols) /\ AllSymbols \in Seq(Symbols)
    BY SymbolsOfType, AllSymbolsType
<1>2. Len(L) \in Nat /\ Len(AllSymbols) \in Nat /\ DOMAIN L = S /\ DOMAIN AllSymbols = T
    BY <1>1
<1>3. ASSUME NEW k \in S PROVE f[k] \in T /\ AllSymbols[f[k]].code = L[k].code
    <2>1. \E m \in T : AllSymbols[m].code = L[k].code
        BY <1>2, AllSymbolsType
    <2>. QED
        BY <2>1
<1>4. \A k, m \in S : L[k].code = L[m].code => k = m
    <2>1. \A k \in S : k \in DOMAIN Catalogue[i].codes /\ L[k].code = Catalogue[i].codes[k]
        BY <1>2, SymbolsOfType
    <2>2. \A k, m \in DOMAIN Catalogue[i].codes : Catalogue[i].codes[m] = Catalogue[i].codes[k] => m = k
        BY Zenon, CatalogueAssumption
    <2>. HIDE DEF S, L
    <2>. QED
        BY Zenon, <2>1, <2>2
<1>5. f \in [S -> T] /\ \A k, m \in S : k # m => f[k] # f[m]
    BY <1>3, <1>4
<1>6. IsFiniteSet(S) /\ Cardinality(S) = Len(L) /\ IsFiniteSet(T) /\ Cardinality(T) = Len(AllSymbols)
    <2>1. ASSUME NEW n \in Nat PROVE IsFiniteSet(1..n) /\ Cardinality(1..n) = n
        <3>1. 1 \in Int /\ n \in Int /\ (1 > n \/ n - 1 + 1 = n)
            OBVIOUS
        <3>. QED
            BY <3>1, FS_Interval
    <2>. QED
        BY <1>2, <2>1
<1>. HIDE DEF f, S, T, L
<1>7. ~ (Cardinality(T) < Cardinality(S))
    BY <1>5, <1>6, FS_PigeonHole
<1>. QED
    BY <1>2, <1>6, <1>7 DEF L

-----------------------------------------------------------------------------
(* The patches of checkParameters() are listed in some order.                *)
LEMMA SetToSeqLists ==
    ASSUME NEW S, IsFiniteSet(S)
    PROVE  SetToSeq(S) \in Seq(S) /\ (SetToSeq(S) = <<>> <=> S = {})
<1>. DEFINE n == Cardinality(S)
            P(f) == f \in [1..n -> S] /\ IsInjective(f)
<1>1. n \in Nat /\ ExistsBijection(1..n, S)
    BY FS_CardinalityType
<1>2. PICK g \in Bijection(1..n, S) : TRUE
    BY <1>1 DEF ExistsBijection
<1>3. g \in [1..n -> S] /\ \A i, j \in 1..n : g[i] = g[j] => i = j
    BY <1>2 DEF Bijection, Injection, IsInjective
<1>4. IsInjective(g)
    BY <1>3 DEF IsInjective
<1>5. SetToSeq(S) \in [1..n -> S]
    BY Zenon, <1>3, <1>4 DEF SetToSeq
<1>6. n = 0 <=> S = {}
    BY FS_EmptySet
<1>. DEFINE q == SetToSeq(S)
<1>. HIDE DEF q, n
<1>7. q \in Seq(S) /\ Len(q) = n
    BY <1>1, <1>5 DEF q
<1>8. q = <<>> <=> Len(q) = 0
    BY <1>7
<1>. QED
    BY <1>6, <1>7, <1>8 DEF q

LEMMA FiniteImage ==
    ASSUME NEW n \in Nat, NEW D \in SUBSET (0..n), NEW f, DOMAIN f = D, f = [k \in D |-> f[k]]
    PROVE  IsFiniteSet({f[k] : k \in D})
<1>. DEFINE T == {f[k] : k \in D}
<1>0. 0 \in Int /\ n \in Int
    OBVIOUS
<1>1. IsFiniteSet(0..n)
    BY <1>0, FS_Interval
<1>2. IsFiniteSet(D)
    BY <1>1, FS_Subset
<1>3. f \in [D -> T]
    <2>1. \A k \in D : f[k] \in T
        OBVIOUS
    <2>. HIDE DEF T
    <2>2. [k \in D |-> f[k]] \in [D -> T]
        BY <2>1
    <2>. QED
        BY Zenon, <2>2
<1>4. f \in Surjection(D, T)
    BY <1>3 DEF Surjection
<1>. HIDE DEF T
<1>. QED
    BY <1>2, <1>4, FS_Surjection DEF T
=============================================================================
