---------------------------- MODULE PriceCaches ----------------------------
(***************************************************************************)
(* The cached prices that portfolios are valued with: coins, US tickers,   *)
(* gold by karat and exchange rates, each from a source of its own.        *)
(* What is priced is one set of items; `cache` is the four collections.    *)
(* Mutual-fund NAVs are in module Portfolio, how the exchange rates are    *)
(* fetched in module Rates.                                                *)
(***************************************************************************)
EXTENDS Integers

CONSTANTS Coins, Defaults,  \* coins, and those fetched whether held or not
          Tickers,          \* US tickers
          K24, K22, K18,    \* gold by purity
          USD, INR,         \* currencies of bank accounts
          Lines,            \* schemes, loans and bonds with a value the user enters
          Quotes,           \* prices a source may give
          Fallback,         \* 83, the rate when none can be had
          Fixings,          \* gold fixings: rupees per gram of each purity
          Missing,          \* not cached
          Unusable          \* a cached coin payload without a price

Karats == {K24, K22, K18}
Currencies == {USD, INR}
Items == Coins \cup Tickers \cup Karats \cup Currencies \cup Lines

Prices == Quotes \cup {f[k] : f \in Fixings, k \in Karats} \cup {1, Fallback}

ASSUME ItemsAssumption ==
  /\ Defaults \subseteq Coins
  /\ K24 # K22 /\ K22 # K18 /\ K18 # K24 /\ USD # INR
  /\ LET kinds == <<Coins, Tickers, Karats, Currencies, Lines>>
     IN \A m, n \in 1..5 : m # n => kinds[m] \cap kinds[n] = {}
ASSUME PricesAssumption ==
  /\ Quotes \subseteq Nat \ {0} /\ Fallback \in Nat \ {0}
  /\ Fixings \subseteq [Karats -> Nat \ {0}]
  /\ \A f \in Fixings : f[K24] > f[K22] /\ f[K22] > f[K18]
  /\ Missing \notin Nat /\ Unusable \notin Nat /\ Missing # Unusable

VARIABLE cache  \* cache[i]: the price of i, Missing or Unusable

(* What is looked up together: one row of a collection, gold in one        *)
(* document, the rates likewise.  What the user enters needs no price.     *)
Row(i) ==
  IF i \in Karats THEN Karats ELSE IF i \in Currencies THEN Currencies ELSE {i}

Rows(S) == {Row(i) : i \in S \ Lines}

Cached(row) == \A i \in row : cache[i] # Missing

Usable(i) == cache[i] \notin {Missing, Unusable}

-----------------------------------------------------------------------------
(* The IBJA page: rupees per 10 g in a morning and an evening table, which *)
(* may be rendered in part or not at all, and a widget with rupees per     *)
(* gram; 0 stands for a cell that is not there.                            *)

Shown(f, S, unit) == [k \in Karats |-> IF k \in S THEN unit * f[k] ELSE 0]

Pages ==
  {[pm |-> Shown(f, S, 10), am |-> Shown(g, T, 10), gram |-> Shown(h, U, 1)] :
     f \in Fixings, g \in Fixings, h \in Fixings,
     S \in SUBSET Karats, T \in SUBSET Karats, U \in SUBSET Karats}

(* Mutant of Pick: takes the morning table for rupees per gram. *)
PickAmPerGram(page, k) ==
  IF page.pm[k] > 0 THEN page.pm[k] \div 10
  ELSE IF page.am[k] > 0 THEN page.am[k]
  ELSE page.gram[k]

Pick(page, k) ==
  IF page.pm[k] > 0 THEN page.pm[k] \div 10
  ELSE IF page.am[k] > 0 THEN page.am[k] \div 10
  ELSE page.gram[k]

InOrder(rates) == rates[K24] > rates[K22] /\ rates[K22] > rates[K18] /\ rates[K18] > 0

GoldReplies ==
  {rates \in {[k \in Karats |-> Pick(page, k)] : page \in Pages} : InOrder(rates)}

-----------------------------------------------------------------------------
(* Mutant of Replies: a quote is taken without a look at its price. *)
RepliesUnchecked(row) ==
  IF row = Karats THEN GoldReplies ELSE [row -> Quotes \cup {Unusable}]

(* What a fetch that succeeds may bring for a row.  A coin's source may    *)
(* answer 200 without a price in it, and that is taken; a quote must be    *)
(* positive and in dollars, a page of gold rates in order.                 *)
Replies(row) ==
  IF row = Karats THEN GoldReplies
  ELSE IF row \subseteq Coins THEN [row -> Quotes \cup {Unusable}]
  ELSE [row -> Quotes]

Store(row, reply) ==
  cache' = [i \in Items |-> IF i \in row THEN reply[i] ELSE cache[i]]

-----------------------------------------------------------------------------
(* A cache is well typed: prices, or none; only a coin's row may be of no  *)
(* use, and there always is a rate.                                        *)
Typed(c) ==
  /\ c \in [Items -> Prices \cup {Missing, Unusable}]
  /\ \A i \in Items \ Coins : c[i] # Unusable
  /\ \A i \in Currencies : c[i] # Missing

CacheTypeOK == Typed(cache)

(* Gold is cached all at once, in order, each rate from a fixing.          *)
Genuine(c) ==
  (\E k \in Karats : c[k] # Missing)
     => InOrder(c) /\ \A k \in Karats : c[k] \in {f[k] : f \in Fixings}

(***************************************************************************)
(* Whatever is rendered of the two tables and the widget, no unit and no   *)
(* purity is mistaken for another: each cached gold rate is what a fixing  *)
(* gave for a gram of that purity, all three are there and in order.       *)
(***************************************************************************)
GoldGenuine == Genuine(cache)
=============================================================================
