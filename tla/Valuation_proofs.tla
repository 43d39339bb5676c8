-------------------------- MODULE Valuation_proofs --------------------------
(***************************************************************************)
(* Proofs about prices and portfolios, for any items, assets, requests,    *)
(* passes and prices, whatever interleaves, fails or stops.                *)
(*   CacheInv    what is cached is what a source gave for that very thing; *)
(*   StateTyped  the types of what requests and passes have in hand;       *)
(*   PlannedOK   a request has the prices it counts with, coins from their *)
(*               source, and writes what it has computed from them;        *)
(*   BooksOK     who has read an asset knows its kind while it keeps it,   *)
(*               and what was read was once given to that asset;           *)
(*   Valued      the two invariants about stored values;                   *)
(*   CalmOK      how far a pass nobody disturbed has got.                  *)
(* Each is inductive given those before it.                                *)
(***************************************************************************)
EXTENDS Valuation, Sums

AllRows == {Row(i) : i \in Items \ Lines}

PCs == {"idle", "check", "price", "cache", "write", "answered"}

LEMMA Apart ==
  /\ Karats \cap Coins = {} /\ Karats \cap Currencies = {} /\ Karats \cap Lines = {}
  /\ Currencies \cap Coins = {} /\ Currencies \cap Tickers = {} /\ Karats \cap Tickers = {}
  /\ Coins \cap Tickers = {}
<1> DEFINE kinds == <<Coins, Tickers, Karats, Currencies, Lines>>
<1>1. \A m, n \in 1..5 : m # n => kinds[m] \cap kinds[n] = {}
  BY ItemsAssumption
<1>2. /\ kinds[1] = Coins /\ kinds[2] = Tickers /\ kinds[3] = Karats
      /\ kinds[4] = Currencies /\ kinds[5] = Lines
  OBVIOUS
<1>3. /\ kinds[3] \cap kinds[1] = {} /\ kinds[3] \cap kinds[4] = {} /\ kinds[3] \cap kinds[5] = {}
      /\ kinds[4] \cap kinds[1] = {} /\ kinds[4] \cap kinds[2] = {} /\ kinds[3] \cap kinds[2] = {}
      /\ kinds[1] \cap kinds[2] = {}
  <2> HIDE DEF kinds
  <2> QED BY <1>1
<1> QED BY <1>2, <1>3

(* A row is the gold document, or has no gold in it. *)
LEMMA RowParts ==
  ASSUME NEW row \in AllRows
  PROVE  /\ row \subseteq Items
         /\ row # Karats => row \cap Karats = {}
         /\ row \subseteq Coins => row # Karats /\ row \cap Currencies = {}
         /\ row \subseteq Coins \/ row \cap Coins = {}
<1>1. PICK i \in Items \ Lines : row = Row(i)
  BY DEF AllRows
<1>2. CASE i \in Karats
  BY <1>1, <1>2, Apart DEF Row, Karats, Items
<1>3. CASE i \in Currencies /\ i \notin Karats
  BY <1>1, <1>3, Apart DEF Row, Currencies, Items
<1>4. CASE i \notin Karats /\ i \notin Currencies
  BY <1>1, <1>4, Apart DEF Row, Items
<1> QED BY <1>2, <1>3, <1>4

(***************************************************************************)
(* What is scraped from a page is genuine: a table counts tenths and a     *)
(* widget grams, a cell that is missing yields 0, and 0 is not in order.   *)
(***************************************************************************)
LEMMA PickGenuine ==
  ASSUME NEW page \in Pages, NEW k \in Karats
  PROVE  Pick(page, k) = 0 \/ Pick(page, k) \in {f[k] : f \in Fixings}
<1> USE PricesAssumption
<1>1. PICK f \in Fixings, g \in Fixings, h \in Fixings,
           S \in SUBSET Karats, T \in SUBSET Karats, U \in SUBSET Karats :
        page = [pm |-> Shown(f, S, 10), am |-> Shown(g, T, 10), gram |-> Shown(h, U, 1)]
  BY DEF Pages
<1>2. f[k] \in Nat \ {0} /\ g[k] \in Nat \ {0} /\ h[k] \in Nat \ {0}
  OBVIOUS
<1>3. /\ page.pm[k] = IF k \in S THEN 10 * f[k] ELSE 0
      /\ page.am[k] = IF k \in T THEN 10 * g[k] ELSE 0
      /\ page.gram[k] = IF k \in U THEN 1 * h[k] ELSE 0
  BY <1>1 DEF Shown
<1>4. \A n \in Nat : (10 * n) \div 10 = n
  OBVIOUS
<1>5. Pick(page, k) \in {0, f[k], g[k], h[k]}
  BY <1>2, <1>3, <1>4 DEF Pick
<1> QED BY <1>5

LEMMA GoldRepliesGenuine ==
  ASSUME NEW reply \in GoldReplies
  PROVE  /\ DOMAIN reply = Karats /\ InOrder(reply)
         /\ \A k \in Karats : reply[k] \in {f[k] : f \in Fixings}
<1>1. PICK page \in Pages : reply = [k \in Karats |-> Pick(page, k)]
  BY DEF GoldReplies
<1>2. InOrder(reply)
  BY DEF GoldReplies
<1>3. ASSUME NEW k \in Karats PROVE reply[k] \in {f[k] : f \in Fixings}
  <2>1. reply[k] = Pick(page, k)
    BY <1>1
  <2>2. reply[k] = 0 \/ reply[k] \in {f[k] : f \in Fixings}
    BY <2>1, PickGenuine
  <2>3. reply[K24] = 0 \/ \E f \in Fixings : reply[K24] = f[K24]
    BY <1>1, PickGenuine DEF Karats
  <2>4. reply[K22] = 0 \/ \E f \in Fixings : reply[K22] = f[K22]
    BY <1>1, PickGenuine DEF Karats
  <2>5. reply[K18] = 0 \/ \E f \in Fixings : reply[K18] = f[K18]
    BY <1>1, PickGenuine DEF Karats
  <2>6. reply[K24] \in Nat /\ reply[K22] \in Nat /\ reply[K18] \in Nat
    BY <2>3, <2>4, <2>5, PricesAssumption DEF Karats
  <2>7. reply[K24] # 0 /\ reply[K22] # 0 /\ reply[K18] # 0
    BY <1>2, <2>6 DEF InOrder
  <2> QED BY <2>2, <2>7 DEF Karats
<1> QED BY <1>1, <1>2, <1>3

-----------------------------------------------------------------------------
(* Storing the reply of a row leaves a cache that is typed and genuine. *)
LEMMA StoreSound ==
  ASSUME CacheTypeOK, GoldGenuine, NEW row \in AllRows, NEW reply \in Replies(row),
         Store(row, reply)
  PROVE  CacheTypeOK' /\ GoldGenuine'
<1> USE PricesAssumption
<1>0. /\ cache' = [i \in Items |-> IF i \in row THEN reply[i] ELSE cache[i]]
      /\ cache \in [Items -> Prices \cup {Missing, Unusable}]
      /\ Karats \subseteq Items /\ Currencies \subseteq Items
  BY DEF Store, CacheTypeOK, Typed, Items
<1>1. CASE row = Karats
  <2>1. reply \in GoldReplies
    BY <1>1 DEF Replies
  <2>2. /\ InOrder(reply) /\ \A k \in Karats : reply[k] \in {f[k] : f \in Fixings}
    BY <2>1, GoldRepliesGenuine
  <2>3. \A k \in Karats : cache'[k] = reply[k]
    BY <1>0, <1>1
  <2>4. GoldGenuine'
    BY <2>2, <2>3 DEF GoldGenuine, Genuine, InOrder, Karats
  <2>5. \A k \in Karats : reply[k] \in Prices /\ reply[k] \in Nat
    BY <2>2 DEF Prices
  <2>6. cache' \in [Items -> Prices \cup {Missing, Unusable}]
    BY <1>0, <1>1, <2>5
  <2>7. \A i \in Items \ Coins : cache'[i] # Unusable
    BY <1>0, <1>1, <2>5 DEF CacheTypeOK, Typed
  <2>8. \A i \in Currencies : cache'[i] # Missing
    BY <1>0, <1>1, <2>5, Apart DEF CacheTypeOK, Typed
  <2> QED BY <2>4, <2>6, <2>7, <2>8 DEF CacheTypeOK, Typed
<1>2. CASE row # Karats
  <2>1. \A k \in Karats : cache'[k] = cache[k]
    BY <1>0, <1>2, RowParts
  <2>2. GoldGenuine'
    BY <2>1 DEF GoldGenuine, Genuine, InOrder, Karats
  <2>3. /\ \A i \in row : reply[i] \in Quotes \cup {Unusable}
        /\ ~(row \subseteq Coins) => \A i \in row : reply[i] \in Quotes
    BY <1>2 DEF Replies
  <2>4. cache' \in [Items -> Prices \cup {Missing, Unusable}]
    BY <1>0, <2>3 DEF Prices
  <2>5. \A i \in Items \ Coins : cache'[i] # Unusable
    BY <1>0, <2>3 DEF CacheTypeOK, Typed
  <2>6. \A i \in Currencies : cache'[i] # Missing
    BY <1>0, <2>3 DEF CacheTypeOK, Typed
  <2> QED BY <2>2, <2>4, <2>5, <2>6 DEF CacheTypeOK, Typed
<1> QED BY <1>1, <1>2

LEMMA ReplyDomain ==
  ASSUME NEW row \in AllRows, NEW reply \in Replies(row)
  PROVE  DOMAIN reply = row
<1>1. CASE row = Karats
  BY <1>1, GoldRepliesGenuine DEF Replies
<1>2. CASE row # Karats
  BY <1>2 DEF Replies
<1> QED BY <1>1, <1>2

LEMMA RowsOf ==
  /\ \A S \in SUBSET Items : Rows(S) \subseteq AllRows
  /\ \A kind, units : HeldOf(kind, units) \subseteq Items
  /\ \A kind : HeldBy(kind) \subseteq Items
  /\ Karats \in AllRows
<1>1. \A S \in SUBSET Items : Rows(S) \subseteq AllRows
  BY DEF Rows, AllRows
<1>2. \A kind : Of(kind) \subseteq Items
  BY DEF Of, Items
<1>3. \A kind, units : HeldOf(kind, units) \subseteq Items
  BY <1>2 DEF HeldOf
<1>4. \A kind : HeldBy(kind) \subseteq Items
  BY <1>3 DEF HeldBy
<1>5. Karats \in AllRows
  <2>1. K24 \in Items \ Lines
    BY Apart DEF Items, Karats
  <2>2. Row(K24) = Karats
    BY DEF Row, Karats
  <2> QED BY <2>1, <2>2 DEF AllRows
<1> QED BY <1>1, <1>3, <1>4, <1>5

LEMMA FetchesRows ==
  ASSUME NEW f \in Feeds, NEW rows \in Fetches(f)
  PROVE  rows \subseteq AllRows
<1>1. Defaults \cup HeldBy(f) \subseteq Items /\ Defaults \subseteq Items /\ HeldBy(f) \subseteq Items
  BY RowsOf, ItemsAssumption DEF Items
<1>2. CASE f = "crypto"
  <2>1. rows = Rows(Defaults \cup HeldBy(f)) \/ rows = Rows(Defaults)
    BY <1>2 DEF Fetches
  <2> QED BY <1>1, <2>1, RowsOf
<1>3. CASE f = "us_stocks"
  <2>1. rows = Rows(HeldBy(f))
    BY <1>3 DEF Fetches
  <2> QED BY <1>1, <2>1, RowsOf
<1>4. CASE f = "gold" \/ f = "fx"
  <2>1. rows = {Karats} \/ rows = {}
    BY <1>4 DEF Fetches
  <2> QED BY <2>1, RowsOf
<1> QED BY <1>2, <1>3, <1>4 DEF Feeds

-----------------------------------------------------------------------------
(***************************************************************************)
(* What is on its way to a cache: only rows are looked up or fetched, and  *)
(* a request that is about to cache has a reply to that row in hand.       *)
(***************************************************************************)
ReqOK(r) ==
  /\ toPrice[r] \subseteq AllRows
  /\ pc[r] = "cache" => \E row \in AllRows : plan[r] \in Replies(row)

FeedOK(f) == stage[f] = "fetch" => todo[f] \subseteq AllRows

FlowOK ==
  /\ pc \in [Reqs -> PCs] /\ DOMAIN toPrice = Reqs /\ DOMAIN plan = Reqs
  /\ toPrice = [r \in Reqs |-> toPrice[r]] /\ plan = [r \in Reqs |-> plan[r]]
  /\ stage = [f \in Feeds |-> stage[f]] /\ todo = [f \in Feeds |-> todo[f]]
  /\ \A r \in Reqs : ReqOK(r)
  /\ \A f \in Feeds : FeedOK(f)

CacheInv == CacheTypeOK /\ GoldGenuine /\ FlowOK

LEMMA ReqFlow ==
  ASSUME FlowOK, NEW r \in Reqs, NEW l \in PCs, Goto(r, l),
         \/ toPrice' = toPrice
         \/ \E T \in SUBSET AllRows : toPrice' = [toPrice EXCEPT ![r] = T],
         \/ plan' = plan /\ l # "cache"
         \/ \E p : /\ plan' = [plan EXCEPT ![r] = p]
                   /\ l = "cache" => \E row \in AllRows : p \in Replies(row),
         UNCHANGED <<stage, todo>>
  PROVE  FlowOK'
<1>1. /\ pc' \in [Reqs -> PCs] /\ pc'[r] = l
      /\ \A q \in Reqs : q # r => pc'[q] = pc[q]
  BY DEF Goto, FlowOK
<1>2. /\ toPrice' = [q \in Reqs |-> toPrice'[q]] /\ toPrice'[r] \subseteq AllRows
      /\ \A q \in Reqs : q # r => toPrice'[q] = toPrice[q]
  BY DEF FlowOK, ReqOK
<1>3. /\ plan' = [q \in Reqs |-> plan'[q]]
      /\ l = "cache" => \E row \in AllRows : plan'[r] \in Replies(row)
      /\ \A q \in Reqs : q # r => plan'[q] = plan[q]
  BY DEF FlowOK
<1>4. \A q \in Reqs : ReqOK(q)'
  BY <1>1, <1>2, <1>3 DEF FlowOK, ReqOK
<1>5. \A f \in Feeds : FeedOK(f)'
  BY DEF FlowOK, FeedOK
<1> QED BY <1>1, <1>2, <1>3, <1>4, <1>5 DEF FlowOK

LEMMA PassFlow ==
  ASSUME FlowOK, NEW f \in Feeds,
         stage' = stage \/ \E l : stage' = [stage EXCEPT ![f] = l],
         todo' = todo \/ \E T : todo' = [todo EXCEPT ![f] = T],
         stage'[f] = "fetch" => todo'[f] \subseteq AllRows,
         UNCHANGED <<pc, toPrice, plan>>
  PROVE  FlowOK'
<1>1. /\ stage' = [g \in Feeds |-> stage'[g]] /\ todo' = [g \in Feeds |-> todo'[g]]
      /\ \A g \in Feeds : g # f => stage'[g] = stage[g] /\ todo'[g] = todo[g]
  BY DEF FlowOK
<1>2. \A g \in Feeds : FeedOK(g)'
  BY <1>1 DEF FlowOK, FeedOK
<1>3. \A r \in Reqs : ReqOK(r)'
  BY DEF FlowOK, ReqOK
<1> QED BY <1>1, <1>2, <1>3 DEF FlowOK

(* A request that is answered, and one whose row has, or has not, a price. *)
LEMMA AnswerFlow ==
  ASSUME FlowOK, NEW r \in Reqs, Answer(r), UNCHANGED <<stage, todo>>
  PROVE  FlowOK'
<1>1. "answered" \in PCs /\ {} \in SUBSET AllRows
  BY DEF PCs
<1> QED BY <1>1, ReqFlow DEF Answer

LEMMA GotFlow ==
  ASSUME FlowOK, NEW r \in Reqs, NEW row, NEW price, Got(r, row, price), UNCHANGED <<stage, todo>>
  PROVE  FlowOK'
<1>1. CASE Answer(r)
  BY <1>1, AnswerFlow
<1>2. CASE /\ toPrice' = [toPrice EXCEPT ![r] = toPrice[r] \ {row}]
           /\ plan' = [plan EXCEPT ![r] = Unset]
           /\ Goto(r, "price")
  <2>1. "price" \in PCs /\ toPrice[r] \ {row} \in SUBSET AllRows
    BY DEF PCs, FlowOK, ReqOK
  <2> QED BY <1>2, <2>1, ReqFlow
<1> QED BY <1>1, <1>2 DEF Got

LEMMA RequestFlow ==
  ASSUME FlowOK, NEW r \in Reqs, Request(r)
  PROVE  FlowOK'
<1>0. UNCHANGED <<stage, todo>>
  BY DEF Request, Find, Check, LookUp, Miss, CacheIt, Compute, Write, Delete, ReqFails, passVars
<1>1. CASE Find(r)
  <2>1. CASE Answer(r)
    BY <1>0, <2>1, AnswerFlow
  <2>2. CASE ~Answer(r)
    <3>1. Goto(r, "check") /\ toPrice' = toPrice /\ plan' = plan /\ "check" \in PCs
      BY <1>1, <2>2 DEF Find, PCs
    <3> QED BY <1>0, <3>1, ReqFlow
  <2> QED BY <2>1, <2>2
<1>2. CASE Check(r)
  <2>1. CASE Answer(r)
    BY <1>0, <2>1, AnswerFlow
  <2>2. CASE ~Answer(r)
    <3> DEFINE rows == Rows(HeldOf(Kind(r), Merged(r)))
    <3>1. /\ Goto(r, "price") /\ toPrice' = [toPrice EXCEPT ![r] = rows] /\ plan' = plan
          /\ "price" \in PCs
      BY <1>2, <2>2 DEF Check, PCs
    <3>2. rows \in SUBSET AllRows
      BY RowsOf
    <3> QED BY <1>0, <3>1, <3>2, ReqFlow
  <2> QED BY <2>1, <2>2
<1>3. CASE \E row \in toPrice[r] : LookUp(r, row)
  BY <1>0, <1>3, GotFlow DEF LookUp
<1>4. CASE \E row \in toPrice[r] : Miss(r, row)
  <2>1. PICK row \in toPrice[r] : Miss(r, row)
    BY <1>4
  <2>2. PICK reply \in Replies(row) : plan' = [plan EXCEPT ![r] = reply]
    BY <2>1 DEF Miss
  <2>3. row \in AllRows /\ Goto(r, "cache") /\ toPrice' = toPrice /\ "cache" \in PCs
    BY <2>1 DEF Miss, FlowOK, ReqOK, PCs
  <2> QED BY <1>0, <2>2, <2>3, ReqFlow
<1>5. CASE CacheIt(r)
  BY <1>0, <1>5, GotFlow DEF CacheIt
<1>6. CASE Compute(r)
  <2>1. /\ Goto(r, "write") /\ toPrice' = toPrice /\ "write" \in PCs
        /\ \E p : plan' = [plan EXCEPT ![r] = p]
    BY <1>6 DEF Compute, PCs
  <2> QED BY <1>0, <2>1, ReqFlow
<1>7. CASE Write(r) \/ Delete(r) \/ ReqFails(r)
  <2>1. Answer(r)
    BY <1>7 DEF Write, Delete, ReqFails
  <2> QED BY <1>0, <2>1, AnswerFlow
<1> QED BY <1>1, <1>2, <1>3, <1>4, <1>5, <1>6, <1>7 DEF Request

LEMMA PassStepFlow ==
  ASSUME FlowOK, NEW f \in Feeds, Pass(f)
  PROVE  FlowOK'
<1>0. UNCHANGED <<pc, toPrice, plan>> /\ stage = [g \in Feeds |-> stage[g]] /\ todo = [g \in Feeds |-> todo[g]]
  BY DEF FlowOK, Pass, PassBegins, Fetch, FetchFails, Fetched, List, Take, Consult, Revalue,
         ValueFails, NextLoop, PassEnds, PassFails, Over, reqVars
<1>1. CASE PassBegins(f)
  <2>1. PICK rows \in Fetches(f) : todo' = [todo EXCEPT ![f] = rows]
    BY <1>1 DEF PassBegins
  <2>2. todo'[f] \subseteq AllRows /\ \E l : stage' = [stage EXCEPT ![f] = l]
    BY <1>0, <1>1, <2>1, FetchesRows DEF PassBegins, At
  <2> QED BY <1>0, <2>1, <2>2, PassFlow
<1>2. CASE \E row \in todo[f] : Fetch(f, row) \/ FetchFails(f, row)
  <2>1. PICK row \in todo[f] : stage[f] = "fetch" /\ todo' = [todo EXCEPT ![f] = todo[f] \ {row}]
                               /\ stage' = stage
    BY <1>2 DEF Fetch, FetchFails
  <2>2. todo'[f] \subseteq AllRows
    BY <1>0, <2>1 DEF FlowOK, FeedOK
  <2> QED BY <1>0, <2>1, <2>2, PassFlow
<1>3. CASE Fetched(f) \/ NextLoop(f)
  <2>1. todo' = todo /\ stage' = [stage EXCEPT ![f] = "list"]
    BY <1>3 DEF Fetched, NextLoop, At
  <2>2. stage'[f] # "fetch"
    BY <1>0, <2>1
  <2> QED BY <1>0, <2>1, <2>2, PassFlow
<1>4. CASE List(f)
  <2>1. stage' = [stage EXCEPT ![f] = "value"] /\ \E T : todo' = [todo EXCEPT ![f] = T]
    BY <1>4 DEF List, At
  <2>2. stage'[f] # "fetch"
    BY <1>0, <2>1
  <2> QED BY <1>0, <2>1, <2>2, PassFlow
<1>5. CASE \E a \in todo[f] : Take(f, a)
  <2>1. stage' = stage /\ stage[f] = "value" /\ \E T : todo' = [todo EXCEPT ![f] = T]
    BY <1>5 DEF Take
  <2> QED BY <1>0, <2>1, PassFlow
<1>6. CASE (\E i \in Items : Consult(f, i)) \/ Revalue(f) \/ ValueFails(f)
  <2>1. stage' = stage /\ stage[f] = "value" /\ todo' = todo
    BY <1>6 DEF Consult, Revalue, ValueFails
  <2> QED BY <1>0, <2>1, PassFlow
<1>7. CASE PassEnds(f) \/ PassFails(f)
  <2>1. stage' = [stage EXCEPT ![f] = "off"] /\ \E T : todo' = [todo EXCEPT ![f] = T]
    BY <1>7 DEF PassEnds, PassFails, Over, At
  <2>2. stage'[f] # "fetch"
    BY <1>0, <2>1
  <2> QED BY <1>0, <2>1, <2>2, PassFlow
<1> QED BY <1>1, <1>2, <1>3, <1>4, <1>5, <1>6, <1>7 DEF Pass

LEMMA StepFlow == CacheInv /\ [Next]_vars => FlowOK'
<1> SUFFICES ASSUME FlowOK, [Next]_vars PROVE FlowOK'
  BY DEF CacheInv
<1>1. CASE \E r \in Reqs : Request(r)
  BY <1>1, RequestFlow
<1>2. CASE \E f \in Feeds : Pass(f)
  BY <1>2, PassStepFlow
<1>3. CASE RateMoves \/ UNCHANGED vars
  <2>1. UNCHANGED <<pc, toPrice, plan, stage, todo>>
    BY <1>3 DEF RateMoves, vars, reqVars, passVars
  <2> QED BY <2>1 DEF FlowOK, ReqOK, FeedOK
<1>4. CASE Crash
  <2>1. /\ pc' = [r \in Reqs |-> IF pc[r] = "idle" THEN "idle" ELSE "answered"]
        /\ toPrice' = [r \in Reqs |-> {}] /\ plan' = [r \in Reqs |-> Unset]
        /\ stage' = [f \in Feeds |-> "off"] /\ todo' = [f \in Feeds |-> {}]
    BY <1>4 DEF Crash
  <2> QED BY <2>1 DEF FlowOK, ReqOK, FeedOK, PCs
<1> QED BY <1>1, <1>2, <1>3, <1>4 DEF Next

(* Three steps write a cache: a request, a pass, and the exchange rates. *)
LEMMA StepCaches == CacheInv /\ [Next]_vars => CacheTypeOK' /\ GoldGenuine'
<1> SUFFICES ASSUME CacheInv, [Next]_vars PROVE CacheTypeOK' /\ GoldGenuine'
  OBVIOUS
<1>0. CacheTypeOK /\ GoldGenuine /\ FlowOK
  BY DEF CacheInv
<1>1. CASE cache' = cache
  BY <1>0, <1>1 DEF CacheTypeOK, GoldGenuine
<1>2. ASSUME NEW r \in Reqs, CacheIt(r) PROVE CacheTypeOK' /\ GoldGenuine'
  <2>1. PICK row \in AllRows : plan[r] \in Replies(row)
    BY <1>0, <1>2 DEF CacheIt, FlowOK, ReqOK
  <2>2. DOMAIN plan[r] = row
    BY <2>1, ReplyDomain
  <2>3. Store(row, plan[r])
    BY <1>2, <2>2 DEF CacheIt
  <2> QED BY <1>0, <2>1, <2>3, StoreSound
<1>3. ASSUME NEW r \in Reqs, Request(r), ~CacheIt(r) PROVE cache' = cache
  BY <1>3 DEF Request, Find, Check, LookUp, Miss, Compute, Write, Delete, ReqFails
<1>4. ASSUME NEW f \in Feeds, NEW row \in todo[f], Fetch(f, row)
      PROVE  CacheTypeOK' /\ GoldGenuine'
  <2>1. row \in AllRows
    BY <1>0, <1>4 DEF Fetch, FlowOK, FeedOK
  <2> QED BY <1>0, <1>4, <2>1, StoreSound DEF Fetch
<1>5. ASSUME NEW f \in Feeds, Pass(f), ~\E row \in todo[f] : Fetch(f, row) PROVE cache' = cache
  BY <1>5 DEF Pass, PassBegins, FetchFails, Fetched, List, Take, Consult, Revalue,
              ValueFails, NextLoop, PassEnds, PassFails, Over
<1>6. CASE RateMoves
  <2>1. PICK rate \in Quotes \cup {Fallback} : cache' = [cache EXCEPT ![USD] = rate]
    BY <1>6 DEF RateMoves
  <2>2. /\ rate \in Prices /\ rate \in Nat /\ USD \in Items /\ USD \notin Karats
        /\ cache \in [Items -> Prices \cup {Missing, Unusable}]
        /\ Karats \subseteq Items /\ Currencies \subseteq Items
    BY <1>0, Apart, PricesAssumption DEF Prices, Items, Currencies, CacheTypeOK, Typed
  <2>3. \A i \in Items : cache'[i] = IF i = USD THEN rate ELSE cache[i]
    BY <2>1, <2>2
  <2>4. GoldGenuine'
    BY <1>0, <2>2, <2>3 DEF GoldGenuine, Genuine, InOrder, Karats
  <2>5. cache' \in [Items -> Prices \cup {Missing, Unusable}]
    BY <2>1, <2>2
  <2>6. /\ \A i \in Items \ Coins : cache'[i] # Unusable
        /\ \A i \in Currencies : cache'[i] # Missing
    BY <1>0, <2>2, <2>3, PricesAssumption DEF CacheTypeOK, Typed
  <2> QED BY <2>4, <2>5, <2>6 DEF CacheTypeOK, Typed
<1>7. CASE Crash \/ UNCHANGED vars
  BY <1>1, <1>7 DEF Crash, vars
<1> QED BY <1>1, <1>2, <1>3, <1>4, <1>5, <1>6, <1>7 DEF Next

LEMMA CacheInvariant == Spec => []CacheInv
<1>1. Init => CacheInv
  <2> SUFFICES ASSUME Init PROVE CacheInv
    OBVIOUS
  <2>1. CacheTypeOK /\ GoldGenuine
    BY SettingsAssumption DEF Init, CacheTypeOK, GoldGenuine
  <2>2. FlowOK
    BY DEF Init, FlowOK, ReqOK, FeedOK, PCs
  <2> QED BY <2>1, <2>2 DEF CacheInv
<1>2. CacheInv /\ [Next]_vars => CacheInv'
  BY StepFlow, StepCaches DEF CacheInv
<1> QED BY <1>1, <1>2, PTL DEF Spec

(***************************************************************************)
(* No cached price is of a kind its row cannot be: only a coin's may be of *)
(* no use, and conversions always find a rate.                             *)
(***************************************************************************)
THEOREM CachesTyped == Spec => []CacheTypeOK
<1>1. CacheInv => CacheTypeOK
  BY DEF CacheInv
<1> QED BY <1>1, CacheInvariant, PTL

(***************************************************************************)
(* Gold rates are never a mixture of units or purities, whatever part of   *)
(* the page is rendered and whoever caches what was read from it, when.    *)
(***************************************************************************)
THEOREM GoldGenuineHolds == Spec => []GoldGenuine
<1>1. CacheInv => GoldGenuine
  BY DEF CacheInv
<1> QED BY <1>1, CacheInvariant, PTL

-----------------------------------------------------------------------------
(***************************************************************************)
(* Types: a request that is under way has a document and prices in hand,   *)
(* and a pass that values has listed documents of the kind of its loop.    *)
(***************************************************************************)
Busy(r) == pc[r] \in {"check", "price", "cache", "write"}

ReqTyped(r) ==
  /\ found[r] \in Opt(Doc) /\ got[r] \in Opt([Items -> Prices])
  /\ Busy(r) => found[r] \in Doc /\ got[r] \in [Items -> Prices]
  /\ pc[r] = "write" => plan[r] \in Update

(* The kind the loop that f is in revalues. *)
Prime(f) == Loops(f)[loop[f]]

PassTyped(f) ==
  /\ stage[f] \in {"off", "fetch", "list", "value"} /\ loop[f] \in DOMAIN Loops(f)
  /\ stage[f] \in {"off", "fetch"} => loop[f] = 1
  /\ stage[f] # "value" => at[f] = Gone
  /\ todo[f] \subseteq Assets \cup SUBSET Items
  /\ stage[f] = "value" =>
       /\ DOMAIN listed[f] \subseteq Assets /\ todo[f] \subseteq DOMAIN listed[f]
       /\ at[f] # Gone => at[f] \in DOMAIN listed[f]
       /\ \A a \in DOMAIN listed[f] : listed[f][a] \in Doc /\ listed[f][a].kind = Prime(f)
  /\ stage[f] \in {"list", "value"} =>
       seen[f] \in [Items -> Prices \cup {Missing, Unusable}] /\ Sourced(seen[f])

(* Each variable is a function of what it is indexed by. *)
Shape ==
  /\ found = [r \in Reqs |-> found[r]] /\ got = [r \in Reqs |-> got[r]]
  /\ loop = [f \in Feeds |-> loop[f]] /\ at = [f \in Feeds |-> at[f]]
  /\ listed = [f \in Feeds |-> listed[f]] /\ seen = [f \in Feeds |-> seen[f]]
  /\ asked = [a \in Assets |-> asked[a]]

StateTyped ==
  /\ Sourced(cache)
  /\ db \in [Assets -> Doc \cup {Gone}]
  /\ ask \in [Reqs -> Asks]
  /\ \A r \in Reqs : ask[r].holds # Unset => ask[r].units \in [Items -> Nat]
  /\ \A r \in Reqs : ask[r].act = "create" => Complete(ask[r])
  /\ \A r, q \in Reqs : r # q /\ ask[r].act = "create" /\ ask[q].act = "create"
                          => ask[q].asset # ask[r].asset
  /\ \A r \in Reqs : ReqTyped(r)
  /\ \A f \in Feeds : PassTyped(f)
  /\ left \in [Feeds \cup {"rates"} -> Nat]
  /\ calm \in [Feeds -> BOOLEAN] /\ turned \subseteq Assets
  /\ Shape

(* Which items are of which kind; that all prices are positive. *)
LEMMA KindsOf ==
  /\ \A kind : Of(kind) \subseteq Items
  /\ Of("crypto") = Coins /\ Of("us_stocks") = Tickers /\ Of("gold") = Karats
  /\ Of("bank_accounts") = Currencies /\ Of("travel_points") = {}
  /\ Coins \subseteq Items /\ USD \in Items /\ USD \notin Coins /\ USD \notin Tickers
  /\ Prices \subseteq Nat \ {0} /\ Quotes \subseteq Prices /\ Fallback \in Prices /\ 1 \in Prices
<1>1. Of("crypto") = Coins /\ Of("us_stocks") = Tickers /\ Of("gold") = Karats
      /\ Of("bank_accounts") = Currencies /\ Of("travel_points") = {} /\ \A kind : Of(kind) \subseteq Items
  BY DEF Of, Items
<1>2. Coins \subseteq Items /\ USD \in Items /\ USD \notin Coins /\ USD \notin Tickers
  BY Apart DEF Items, Currencies
<1>3. Prices \subseteq Nat \ {0} /\ Quotes \subseteq Prices /\ Fallback \in Prices /\ 1 \in Prices
  <2>1. \A f \in Fixings, k \in Karats : f[k] \in Nat \ {0}
    BY PricesAssumption
  <2>2. Quotes \subseteq Nat \ {0} /\ Fallback \in Nat \ {0} /\ 1 \in Nat \ {0}
    BY PricesAssumption
  <2>3. ASSUME NEW p \in Prices PROVE p \in Nat \ {0}
    BY <2>1, <2>2 DEF Prices
  <2>4. Quotes \subseteq Prices /\ Fallback \in Prices /\ 1 \in Prices
    BY DEF Prices
  <2> QED BY <2>3, <2>4
<1> QED BY <1>1, <1>2, <1>3

LEMMA PricesPositive == \A p \in Prices : p > 0
<1>1. \A p \in Prices : p \in Nat /\ p # 0
  BY KindsOf
<1>2. \A n \in Nat : n # 0 => n > 0
  OBVIOUS
<1> QED BY <1>1, <1>2

(* The worth of holdings is a number, and depends on what is held alone.   *)
LEMMA WorthNat ==
  ASSUME NEW kind, NEW units, \A i \in Items : units[i] \in Nat,
         NEW price, \A i \in HeldOf(kind, units) : price[i] \in Nat
  PROVE  Worth(kind, units, price) \in Nat
<1> DEFINE S == HeldOf(kind, units)
           f == [i \in S |-> units[i] * price[i]]
<1>1. S \subseteq Items
  BY RowsOf
<1>2. IsFiniteSet(S)
  BY <1>1, FS_Subset, NamesAssumption
<1>3. f \in [S -> Nat]
  BY <1>1
<1> HIDE DEF S
<1>4. SumFunction(f) \in Nat
  <2> HIDE DEF f
  <2> QED BY <1>2, <1>3, SumNat
<1> QED BY <1>4 DEF Worth, S

(* Holdings and prices that agree on what is held have one worth. *)
LEMMA WorthSame ==
  ASSUME NEW kind, NEW units, NEW units2, NEW price, NEW price2,
         \A i \in Of(kind) : units2[i] = units[i],
         \A i \in HeldOf(kind, units) : price2[i] = price[i]
  PROVE  /\ HeldOf(kind, units2) = HeldOf(kind, units)
         /\ Worth(kind, units2, price2) = Worth(kind, units, price)
<1>1. HeldOf(kind, units2) = HeldOf(kind, units)
  BY DEF HeldOf
<1> DEFINE S == HeldOf(kind, units)
<1>2. \A i \in S : units2[i] * price2[i] = units[i] * price[i]
  BY DEF HeldOf
<1>3. [i \in S |-> units2[i] * price2[i]] = [i \in S |-> units[i] * price[i]]
  <2> HIDE DEF S
  <2> QED BY <1>2
<1> QED BY <1>1, <1>3 DEF Worth

(* A field that is set, or kept. *)
LEMMA OrTyped == \A S : \A x \in Opt(S), y \in S : Or(x, y) \in S
BY DEF Or, Opt

(* What $set makes of a document, field by field. *)
LEMMA SetDoc ==
  ASSUME NEW d \in Doc, NEW p \in Update
  PROVE  /\ Set(d, p) \in Doc
         /\ Set(d, p).kind = Or(p.kind, d.kind) /\ Set(d, p).cash = Or(p.cash, d.cash)
         /\ Set(d, p).usd = Or(p.usd, d.usd) /\ Set(d, p).value = Or(p.value, d.value)
         /\ \A i \in Items : /\ Set(d, p).units[i] = Or(p.units[i], d.units[i])
                             /\ Set(d, p).stamp[i] = Or(p.stamp[i], d.stamp[i])
<1>1. /\ Or(p.kind, d.kind) \in Kinds /\ Or(p.cash, d.cash) \in Nat
      /\ Or(p.usd, d.usd) \in Nat /\ Or(p.value, d.value) \in Nat
  BY DEF Or, Opt, Doc, Update
<1>2. \A i \in Items : Or(p.units[i], d.units[i]) \in Nat /\ Or(p.stamp[i], d.stamp[i]) \in Prices \cup {0}
  BY DEF Or, Opt, Doc, Update
<1> QED BY <1>1, <1>2 DEF Set, Doc

(* What a pass sets is an update, if all that is held has a price. *)
LEMMA RevaluationUpdate ==
  ASSUME NEW d \in Doc, NEW price \in [Items -> Prices \cup {Missing, Unusable}],
         \A i \in HeldOf(d.kind, d.units) : price[i] \in Nat, price[USD] \in Nat
  PROVE  Revaluation(d, price) \in Update
<1> DEFINE sum == Total(d.kind, d.units, d.cash, price)
           own == {i \in Items : Stamped(d.kind) /\ i \in Of(d.kind)}
           p == Revaluation(d, price)
<1>1. sum \in Nat
  <2>1. Worth(d.kind, d.units, price) \in Nat
    BY WorthNat DEF Doc
  <2> QED BY <2>1 DEF Total, Doc
<1>2. d.usd * price[USD] \in Nat /\ sum * price[USD] \in Nat
  <2> HIDE DEF sum
  <2> QED BY <1>1 DEF Doc
<1>3. \A i \in own : d.units[i] > 0 => price[i] \in Prices
  <2>1. \A i \in own : d.units[i] > 0 => i \in HeldOf(d.kind, d.units)
    BY DEF HeldOf
  <2> QED BY <2>1, PricesAssumption
<1>4. [i \in Items |-> IF i \in own THEN d.units[i] ELSE Unset] \in [Items -> Opt(Nat)]
  BY DEF Doc, Opt
<1>5. [i \in Items |-> IF i \notin own THEN Unset ELSE IF d.units[i] > 0 THEN price[i] ELSE 0]
        \in [Items -> Opt(Prices \cup {0})]
  BY <1>3 DEF Opt
<1> HIDE DEF sum, own
<1> QED BY <1>1, <1>2, <1>4, <1>5 DEF Revaluation, Update, Opt, sum, own

-----------------------------------------------------------------------------
(* Types: what a step of a request leaves alone, and what it writes. *)
LEMMA RequestOwn ==
  ASSUME Shape, FlowOK, NEW r \in Reqs, Request(r)
  PROVE  /\ UNCHANGED <<ask, passVars, left>>
         /\ \A q \in Reqs \ {r} :
              /\ pc'[q] = pc[q] /\ found'[q] = found[q] /\ toPrice'[q] = toPrice[q]
              /\ got'[q] = got[q] /\ plan'[q] = plan[q]
         /\ found' = [q \in Reqs |-> found'[q]] /\ got' = [q \in Reqs |-> got'[q]]
<1>0. /\ pc = [q \in Reqs |-> pc[q]] /\ found = [q \in Reqs |-> found[q]]
      /\ toPrice = [q \in Reqs |-> toPrice[q]] /\ got = [q \in Reqs |-> got[q]]
      /\ plan = [q \in Reqs |-> plan[q]]
  BY DEF Shape, FlowOK
<1> DEFINE Own == /\ \A q \in Reqs \ {r} :
                       /\ pc'[q] = pc[q] /\ found'[q] = found[q] /\ toPrice'[q] = toPrice[q]
                       /\ got'[q] = got[q] /\ plan'[q] = plan[q]
                  /\ found' = [q \in Reqs |-> found'[q]] /\ got' = [q \in Reqs |-> got'[q]]
<1>1. UNCHANGED <<ask, passVars, left>>
  BY DEF Request, Find, Check, LookUp, Miss, CacheIt, Compute, Write, Delete, ReqFails
<1>2. Answer(r) => Own
  BY <1>0 DEF Answer, Goto
<1>3. \A row, price : Got(r, row, price) => Own
  <2> SUFFICES ASSUME NEW row, NEW price, Got(r, row, price), ~Answer(r) PROVE Own
    BY <1>2
  <2> QED BY <1>0 DEF Got, Goto
<1>4. CASE Find(r)
  BY <1>0, <1>2, <1>4 DEF Find, Goto
<1>5. CASE Check(r)
  BY <1>0, <1>2, <1>5 DEF Check, Goto
<1>6. CASE \E row \in toPrice[r] : LookUp(r, row)
  BY <1>3, <1>6 DEF LookUp
<1>7. CASE \E row \in toPrice[r] : Miss(r, row)
  BY <1>0, <1>7 DEF Miss, Goto
<1>8. CASE CacheIt(r)
  BY <1>3, <1>8 DEF CacheIt
<1>9. CASE Compute(r)
  BY <1>0, <1>9 DEF Compute, Goto
<1>10. CASE Write(r) \/ Delete(r) \/ ReqFails(r)
  BY <1>2, <1>10 DEF Write, Delete, ReqFails
<1>11. Own
  BY <1>4, <1>5, <1>6, <1>7, <1>8, <1>9, <1>10 DEF Request
<1> QED BY <1>1, <1>11

(* Merged holdings, the plan and its total are of their types. *)
LEMMA MergedTyped ==
  ASSUME StateTyped, NEW r \in Reqs, found[r] \in Doc
  PROVE  /\ Kind(r) \in Kinds /\ Cash(r) \in Nat /\ Merged(r) \in [Items -> Nat]
         /\ \A i \in Items : Merged(r)[i] \in Nat
<1>1. /\ ask[r].kind \in Opt(Kinds) /\ ask[r].cash \in Opt(Nat) /\ ask[r].units \in Opt([Items -> Nat])
  BY DEF StateTyped, Asks
<1>2. found[r].kind \in Kinds /\ found[r].cash \in Nat /\ found[r].units \in [Items -> Nat]
  BY DEF Doc
<1>3. Kind(r) \in Kinds
  BY <1>1, <1>2 DEF Kind, Or, Opt
<1>4. Cash(r) \in Nat
  BY <1>1, <1>2 DEF Cash, Or, Opt
<1>5. Or(ask[r].units, NoStamps) \in [Items -> Nat]
  BY <1>1 DEF Or, Opt, NoStamps
<1>6. Merged(r) \in [Items -> Nat]
  BY <1>2, <1>5 DEF Merged
<1> QED BY <1>3, <1>4, <1>6

LEMMA PlanTyped ==
  ASSUME StateTyped, NEW r \in Reqs, found[r] \in Doc, got[r] \in [Items -> Prices], NEW rate \in Nat
  PROVE  /\ Plan(r, rate) \in Update
         /\ Worth(Kind(r), Merged(r), got[r]) \in Nat
         /\ Total(Kind(r), Merged(r), Cash(r), got[r]) \in Nat
<1>1. /\ ask[r].kind \in Opt(Kinds) /\ ask[r].cash \in Opt(Nat) /\ ask[r].units \in Opt([Items -> Nat])
      /\ ask[r].usd \in Opt(Nat) /\ ask[r].value \in Opt(Nat)
      /\ ask[r].holds # Unset => ask[r].units \in [Items -> Nat]
  BY DEF StateTyped, Asks
<1>2. Kind(r) \in Kinds /\ Cash(r) \in Nat /\ Merged(r) \in [Items -> Nat] /\ \A i \in Items : Merged(r)[i] \in Nat
  BY MergedTyped
<1>3. \A i \in Items : got[r][i] \in Prices /\ got[r][i] \in Nat
  BY KindsOf
<1> DEFINE sum == Total(Kind(r), Merged(r), Cash(r), got[r])
<1>4. Worth(Kind(r), Merged(r), got[r]) \in Nat
  <2>1. HeldOf(Kind(r), Merged(r)) \subseteq Items
    BY RowsOf
  <2> QED BY <1>2, <1>3, <2>1, WorthNat
<1>5. sum \in Nat
  BY <1>2, <1>4 DEF Total
<1>6. SetUnits(r) \in [Items -> Opt(Nat)]
  BY <1>1, <1>2 DEF SetUnits, Opt
<1>7. SetStamps(r) \in [Items -> Opt(Prices \cup {0})]
  BY <1>3 DEF SetStamps, Opt
<1>8. sum * rate \in Nat
  <2> HIDE DEF sum
  <2> QED BY <1>5
<1> HIDE DEF sum
<1>9. Plan(r, rate) =
       [kind |-> ask[r].kind, units |-> SetUnits(r), stamp |-> SetStamps(r), cash |-> ask[r].cash,
        usd |-> IF InDollars(Kind(r)) THEN sum ELSE ask[r].usd,
        value |-> IF InDollars(Kind(r)) THEN sum * rate
                  ELSE IF Kind(r) \in PricedKinds THEN sum ELSE ask[r].value]
  BY DEF Plan, sum
<1>10. Plan(r, rate) \in Update
  BY <1>1, <1>5, <1>6, <1>7, <1>8, <1>9 DEF Update, Opt
<1> QED BY <1>4, <1>5, <1>10 DEF sum

(* A coin's cached price, and the dollar rate, come from their sources. *)
LEMMA StoreSourced ==
  ASSUME CacheTypeOK, Sourced(cache), NEW row \in AllRows, NEW reply \in Replies(row), Store(row, reply)
  PROVE  Sourced(cache')
<1>0. \A i \in Items : cache'[i] = IF i \in row THEN reply[i] ELSE cache[i]
  BY DEF Store
<1>1. ASSUME USD \in row PROVE reply[USD] \in Quotes
  <2>1. row # Karats /\ ~(row \subseteq Coins)
    BY <1>1, RowParts, Apart DEF Currencies
  <2> QED BY <1>1, <2>1 DEF Replies
<1>2. ASSUME NEW i \in Coins, i \in row PROVE reply[i] \in Quotes \cup {Unusable}
  <2>1. row # Karats /\ row \subseteq Coins
    BY <1>2, RowParts, Apart
  <2> QED BY <1>2, <2>1 DEF Replies
<1>3. cache'[USD] \in Quotes \cup {Fallback}
  BY <1>0, <1>1, KindsOf DEF Sourced
<1>4. \A i \in Coins : cache'[i] \in Quotes \cup {Missing, Unusable}
  BY <1>0, <1>2, KindsOf DEF Sourced
<1> QED BY <1>3, <1>4 DEF Sourced

(* The request itself: what it has read, and what it will write. *)
LEMMA RequestTyped ==
  ASSUME CacheInv, StateTyped, NEW r \in Reqs, Request(r)
  PROVE  ReqTyped(r)'
<1> USE DEF Busy
<1>0. /\ pc = [q \in Reqs |-> pc[q]] /\ found = [q \in Reqs |-> found[q]]
      /\ got = [q \in Reqs |-> got[q]] /\ plan = [q \in Reqs |-> plan[q]]
      /\ ReqTyped(r)
  BY DEF StateTyped, Shape, CacheInv, FlowOK
<1>1. ASSUME Answer(r) PROVE ReqTyped(r)'
  <2>1. pc'[r] = "answered" /\ found'[r] = Unset /\ got'[r] = Unset
    BY <1>0, <1>1 DEF Answer, Goto
  <2> QED BY <2>1 DEF ReqTyped, Opt
<1>2. ASSUME NEW row, NEW price, Got(r, row, price), row \subseteq Items, Busy(r),
             \A i \in row : price[i] \in Prices \cup {Missing, Unusable}
      PROVE  ReqTyped(r)'
  <2> SUFFICES ASSUME ~Answer(r) PROVE ReqTyped(r)'
    BY <1>1
  <2>1. /\ pc'[r] = "price" /\ found'[r] = found[r] /\ \A i \in row : price[i] \in Nat
        /\ got'[r] = [i \in Items |-> IF i \in row THEN price[i] ELSE got[r][i]]
    BY <1>0, <1>2 DEF Got, Goto
  <2>2. got'[r] \in [Items -> Prices]
    BY <1>0, <1>2, <2>1, PricesAssumption DEF ReqTyped
  <2> QED BY <1>0, <1>2, <2>1, <2>2 DEF ReqTyped, Opt
<1>3. CASE Find(r)
  <2> SUFFICES ASSUME ~Answer(r) PROVE ReqTyped(r)'
    BY <1>1
  <2>1. /\ pc'[r] = "check" /\ got'[r] = [i \in Items |-> 1]
        /\ found'[r] = IF ask[r].act = "create" THEN Blank ELSE db[ask[r].asset]
        /\ ask[r].act = "create" \/ (ask[r].act = "update" /\ Live(ask[r].asset))
    BY <1>0, <1>3 DEF Find, Goto, StateTyped, Asks
  <2>2. Blank \in Doc
    BY DEF Blank, Doc, NoStamps, Kinds
  <2>3. ask[r].asset \in Assets
    BY DEF StateTyped, Asks
  <2>4. found'[r] \in Doc
    BY <2>1, <2>2, <2>3 DEF StateTyped, Live
  <2>5. got'[r] \in [Items -> Prices]
    BY <2>1, KindsOf
  <2> QED BY <2>1, <2>4, <2>5 DEF ReqTyped, Opt
<1>4. CASE Check(r)
  <2> SUFFICES ASSUME ~Answer(r) PROVE ReqTyped(r)'
    BY <1>1
  <2>1. pc'[r] = "price" /\ found' = found /\ got' = got /\ pc[r] = "check"
    BY <1>0, <1>4 DEF Check, Goto
  <2> QED BY <1>0, <2>1 DEF ReqTyped
<1>5. CASE \E row \in toPrice[r] : LookUp(r, row)
  <2>1. PICK row \in toPrice[r] : LookUp(r, row)
    BY <1>5
  <2>2. row \subseteq Items
    BY RowParts DEF CacheInv, FlowOK, ReqOK
  <2>3. \A i \in Items : cache[i] \in Prices \cup {Missing, Unusable}
    BY DEF CacheInv, CacheTypeOK, Typed
  <2> QED BY <1>2, <2>1, <2>2, <2>3 DEF LookUp
<1>6. CASE \E row \in toPrice[r] : Miss(r, row)
  <2>1. pc'[r] = "cache" /\ found' = found /\ got' = got /\ pc[r] = "price"
    BY <1>0, <1>6 DEF Miss, Goto
  <2> QED BY <1>0, <2>1 DEF ReqTyped
<1>7. CASE CacheIt(r)
  <2>1. PICK row \in AllRows : plan[r] \in Replies(row)
    BY <1>7 DEF CacheIt, CacheInv, FlowOK, ReqOK
  <2>2. DOMAIN plan[r] = row /\ row \subseteq Items
    BY <2>1, ReplyDomain, RowParts
  <2>3. cache' \in [Items -> Prices \cup {Missing, Unusable}]
    BY <2>1, <2>2, <1>7, StoreSound DEF CacheIt, CacheInv, CacheTypeOK, Typed
  <2>4. \A i \in row : plan[r][i] = cache'[i]
    BY <1>7, <2>2 DEF CacheIt, Store
  <2> QED BY <1>2, <1>7, <2>2, <2>3, <2>4 DEF CacheIt
<1>8. CASE Compute(r)
  <2>1. PICK rate \in DollarRates : plan' = [plan EXCEPT ![r] = Plan(r, rate)]
    BY <1>8 DEF Compute
  <2>2. pc'[r] = "write" /\ found' = found /\ got' = got /\ pc[r] = "price" /\ plan'[r] = Plan(r, rate)
    BY <1>0, <1>8, <2>1 DEF Compute, Goto
  <2>3. rate \in Nat
    BY KindsOf DEF DollarRates, StateTyped, Sourced
  <2>4. Plan(r, rate) \in Update
    BY <1>0, <2>2, <2>3, PlanTyped DEF ReqTyped
  <2> QED BY <1>0, <2>2, <2>4 DEF ReqTyped
<1>9. CASE Write(r) \/ Delete(r) \/ ReqFails(r)
  BY <1>1, <1>9 DEF Write, Delete, ReqFails
<1> QED BY <1>3, <1>4, <1>5, <1>6, <1>7, <1>8, <1>9 DEF Request

(* What a request leaves in the collections and in the books about them.   *)
LEMMA RequestWrites ==
  ASSUME CacheInv, StateTyped, NEW r \in Reqs, Request(r)
  PROVE  /\ Sourced(cache)' /\ db' \in [Assets -> Doc \cup {Gone}]
         /\ calm' \in [Feeds -> BOOLEAN] /\ turned' \subseteq Assets
         /\ asked' = [a \in Assets |-> asked'[a]]
<1>0. /\ Sourced(cache) /\ CacheTypeOK /\ db \in [Assets -> Doc \cup {Gone}]
      /\ calm \in [Feeds -> BOOLEAN] /\ turned \subseteq Assets
      /\ asked = [a \in Assets |-> asked[a]] /\ ask[r].asset \in Assets /\ ReqTyped(r)
  BY DEF StateTyped, Shape, CacheInv, Asks
<1>1. CASE UNCHANGED <<cache, db, calm, turned, asked>>
  BY <1>0, <1>1 DEF Sourced
<1>2. CASE CacheIt(r)
  <2>1. PICK row \in AllRows : plan[r] \in Replies(row)
    BY <1>2 DEF CacheIt, CacheInv, FlowOK, ReqOK
  <2>2. Sourced(cache')
    BY <1>0, <1>2, <2>1, ReplyDomain, StoreSourced DEF CacheIt
  <2> QED BY <1>0, <1>2, <2>2 DEF CacheIt, Disturb, Sourced
<1>3. CASE Write(r)
  <2> DEFINE a == ask[r].asset
             d == IF ask[r].act = "create" THEN Set(Blank, plan[r])
                  ELSE IF Live(a) THEN Set(db[a], plan[r]) ELSE Gone
  <2>1. plan[r] \in Update
    BY <1>0, <1>3 DEF Write, ReqTyped
  <2>2. Blank \in Doc
    BY DEF Blank, Doc, NoStamps, Kinds
  <2>3. d \in Doc \cup {Gone}
    BY <1>0, <2>1, <2>2, SetDoc DEF Live
  <2>4. db' = [db EXCEPT ![a] = d]
    BY <1>3 DEF Write
  <2>5. db' \in [Assets -> Doc \cup {Gone}]
    <3> HIDE DEF d
    <3> QED BY <1>0, <2>3, <2>4
  <2>6. asked' = asked \/ \E S : asked' = [asked EXCEPT ![a] = S]
    BY <1>3 DEF Write
  <2>7. turned' \subseteq Assets
    BY <1>0, <1>3 DEF Write
  <2> QED BY <1>0, <1>3, <2>5, <2>6, <2>7 DEF Write, Disturb, Sourced
<1>4. CASE Delete(r)
  BY <1>0, <1>4 DEF Delete, Disturb, Sourced
<1>5. CASE ~(CacheIt(r) \/ Write(r) \/ Delete(r))
  BY <1>1, <1>5 DEF Request, Find, Check, LookUp, Miss, Compute, ReqFails
<1> QED BY <1>2, <1>3, <1>4, <1>5

(* Each kind of step keeps the types. *)
LEMMA RequestStateTyped ==
  ASSUME CacheInv, StateTyped, NEW r \in Reqs, Request(r)
  PROVE  StateTyped'
<1>1. Shape /\ FlowOK
  BY DEF StateTyped, CacheInv
<1>2. /\ UNCHANGED <<ask, passVars, left>>
      /\ \A q \in Reqs \ {r} :
           /\ pc'[q] = pc[q] /\ found'[q] = found[q] /\ toPrice'[q] = toPrice[q]
           /\ got'[q] = got[q] /\ plan'[q] = plan[q]
      /\ found' = [q \in Reqs |-> found'[q]] /\ got' = [q \in Reqs |-> got'[q]]
  BY <1>1, RequestOwn
<1>3. \A q \in Reqs : ReqTyped(q)'
  <2> SUFFICES ASSUME NEW q \in Reqs, q # r PROVE ReqTyped(q)'
    BY RequestTyped
  <2> QED BY <1>2 DEF StateTyped, ReqTyped, Busy
<1>4. \A f \in Feeds : PassTyped(f)'
  BY <1>2 DEF StateTyped, PassTyped, passVars, Prime
<1>5. /\ Sourced(cache)' /\ db' \in [Assets -> Doc \cup {Gone}]
      /\ calm' \in [Feeds -> BOOLEAN] /\ turned' \subseteq Assets
      /\ asked' = [a \in Assets |-> asked'[a]]
  BY RequestWrites
<1>6. Shape'
  BY <1>1, <1>2, <1>5 DEF Shape, passVars
<1> QED BY <1>2, <1>3, <1>4, <1>5, <1>6 DEF StateTyped, Sourced

(* Types: what a step of a pass leaves alone, and what it writes. *)
LEMMA PassOwn ==
  ASSUME Shape, FlowOK, NEW f \in Feeds, Pass(f)
  PROVE  /\ UNCHANGED <<reqVars, turned, asked>>
         /\ \A g \in Feeds \ {f} :
              /\ stage'[g] = stage[g] /\ loop'[g] = loop[g] /\ todo'[g] = todo[g]
              /\ listed'[g] = listed[g] /\ at'[g] = at[g] /\ seen'[g] = seen[g]
         /\ loop' = [g \in Feeds |-> loop'[g]] /\ at' = [g \in Feeds |-> at'[g]]
         /\ listed' = [g \in Feeds |-> listed'[g]] /\ seen' = [g \in Feeds |-> seen'[g]]
<1>0. /\ stage = [g \in Feeds |-> stage[g]] /\ loop = [g \in Feeds |-> loop[g]]
      /\ todo = [g \in Feeds |-> todo[g]] /\ listed = [g \in Feeds |-> listed[g]]
      /\ at = [g \in Feeds |-> at[g]] /\ seen = [g \in Feeds |-> seen[g]]
  BY DEF Shape, FlowOK
<1> DEFINE Own == /\ \A g \in Feeds \ {f} :
                       /\ stage'[g] = stage[g] /\ loop'[g] = loop[g] /\ todo'[g] = todo[g]
                       /\ listed'[g] = listed[g] /\ at'[g] = at[g] /\ seen'[g] = seen[g]
                  /\ loop' = [g \in Feeds |-> loop'[g]] /\ at' = [g \in Feeds |-> at'[g]]
                  /\ listed' = [g \in Feeds |-> listed'[g]] /\ seen' = [g \in Feeds |-> seen'[g]]
<1>1. UNCHANGED <<reqVars, turned, asked>>
  BY DEF Pass, PassBegins, Fetch, FetchFails, Fetched, List, Take, Consult, Revalue,
         ValueFails, NextLoop, PassEnds, PassFails, Over
<1>2. CASE PassBegins(f) \/ Fetched(f) \/ NextLoop(f)
  BY <1>0, <1>2 DEF PassBegins, Fetched, NextLoop, At
<1>3. CASE \E row \in todo[f] : Fetch(f, row) \/ FetchFails(f, row)
  BY <1>0, <1>3 DEF Fetch, FetchFails
<1>4. CASE List(f)
  BY <1>0, <1>4 DEF List, At
<1>5. CASE \E a \in todo[f] : Take(f, a)
  BY <1>0, <1>5 DEF Take
<1>6. CASE \E i \in Items : Consult(f, i)
  BY <1>0, <1>6 DEF Consult
<1>7. CASE Revalue(f) \/ ValueFails(f)
  BY <1>0, <1>7 DEF Revalue, ValueFails
<1>8. CASE PassEnds(f) \/ PassFails(f)
  BY <1>0, <1>8 DEF PassEnds, PassFails, Over, At
<1>9. Own
  BY <1>2, <1>3, <1>4, <1>5, <1>6, <1>7, <1>8 DEF Pass
<1> QED BY <1>1, <1>9

(* The loops of each feed. *)
LEMMA LoopsOf ==
  /\ Loops("fx") = <<"bank_accounts", "travel_points">> /\ DOMAIN Loops("fx") = 1..2
  /\ \A f \in Feeds \ {"fx"} : Loops(f) = <<f>> /\ DOMAIN Loops(f) = 1..1
  /\ \A f \in Feeds : 1 \in DOMAIN Loops(f) /\ DOMAIN Loops(f) = 1..Len(Loops(f)) /\ Len(Loops(f)) \in {1, 2}
  /\ \A f \in Feeds : InDollars(f) => Loops(f) = <<f>> /\ f \in {"crypto", "us_stocks"}
BY DEF Loops, Feeds, InDollars

LEMMA PassTypes ==
  ASSUME CacheInv, StateTyped, NEW f \in Feeds, Pass(f)
  PROVE  PassTyped(f)'
<1>0. /\ stage = [g \in Feeds |-> stage[g]] /\ loop = [g \in Feeds |-> loop[g]]
      /\ todo = [g \in Feeds |-> todo[g]] /\ listed = [g \in Feeds |-> listed[g]]
      /\ at = [g \in Feeds |-> at[g]] /\ seen = [g \in Feeds |-> seen[g]]
      /\ PassTyped(f) /\ Sourced(cache) /\ cache \in [Items -> Prices \cup {Missing, Unusable}]
  BY DEF StateTyped, Shape, CacheInv, FlowOK, CacheTypeOK, Typed
<1>1. CASE PassBegins(f)
  <2>1. PICK rows \in Fetches(f) : todo' = [todo EXCEPT ![f] = rows]
    BY <1>1 DEF PassBegins
  <2>2. rows \subseteq SUBSET Items
    BY FetchesRows, RowParts
  <2>3. /\ stage'[f] = "fetch" /\ stage[f] = "off" /\ todo'[f] = rows
        /\ UNCHANGED <<loop, listed, at, seen>>
    BY <1>0, <1>1, <2>1 DEF PassBegins, At
  <2> QED BY <1>0, <2>2, <2>3 DEF PassTyped
<1>2. CASE \E row \in todo[f] : Fetch(f, row) \/ FetchFails(f, row)
  <2>1. /\ stage' = stage /\ stage[f] = "fetch" /\ \E row : todo'[f] = todo[f] \ {row}
        /\ UNCHANGED <<loop, listed, at, seen>>
    BY <1>0, <1>2 DEF Fetch, FetchFails
  <2> QED BY <1>0, <2>1 DEF PassTyped
<1>3. CASE Fetched(f)
  <2>1. /\ stage'[f] = "list" /\ stage[f] = "fetch" /\ seen'[f] = cache
        /\ UNCHANGED <<loop, listed, at, todo>>
    BY <1>0, <1>3 DEF Fetched, At
  <2> QED BY <1>0, <2>1 DEF PassTyped
<1>4. CASE List(f)
  <2> DEFINE docs == Listing(Loops(f)[loop[f]])
  <2>1. /\ stage'[f] = "value" /\ stage[f] = "list" /\ loop' = loop /\ at' = at
        /\ todo'[f] = docs /\ listed'[f] = [a \in docs |-> db[a]]
    BY <1>0, <1>4 DEF List, At
  <2>2. docs \subseteq Assets /\ \A a \in docs : db[a] \in Doc /\ db[a].kind = Prime(f)
    BY DEF Listing, Live, StateTyped, Prime
  <2>3. seen'[f] \in [Items -> Prices \cup {Missing, Unusable}] /\ Sourced(seen'[f])
    <3>1. CASE InDollars(f)
      <4>1. PICK rate \in DollarRates : seen' = [seen EXCEPT ![f][USD] = rate]
        BY <1>4, <3>1 DEF List
      <4>2. rate \in Quotes \cup {Fallback} /\ rate \in Prices
        BY <1>0, KindsOf DEF DollarRates, Sourced
      <4>3. seen'[f] = [seen[f] EXCEPT ![USD] = rate]
        BY <1>0, <4>1
      <4> QED BY <1>0, <2>1, <4>2, <4>3, KindsOf DEF PassTyped, Sourced
    <3>2. CASE ~InDollars(f)
      BY <1>0, <1>4, <2>1, <3>2 DEF List, PassTyped
    <3> QED BY <3>1, <3>2
  <2>4. Prime(f)' = Prime(f)
    BY <2>1 DEF Prime
  <2> HIDE DEF docs
  <2> QED BY <1>0, <2>1, <2>2, <2>3, <2>4 DEF PassTyped
<1>5. CASE \E a \in todo[f] : Take(f, a)
  <2>1. PICK a \in todo[f] : Take(f, a)
    BY <1>5
  <2>2. /\ stage' = stage /\ stage[f] = "value" /\ loop' = loop /\ listed' = listed
        /\ todo'[f] = todo[f] \ {a} /\ at'[f] \in {Gone, a}
    BY <1>0, <2>1 DEF Take
  <2>3. seen'[f] \in [Items -> Prices \cup {Missing, Unusable}] /\ Sourced(seen'[f])
    <3>1. CASE InDollars(f)
      <4>1. seen'[f] = [i \in Items |-> IF i \in Of(f) THEN Missing ELSE seen[f][i]]
        BY <1>0, <2>1, <3>1 DEF Take
      <4>2. USD \notin Of(f)
        BY <3>1, KindsOf DEF InDollars
      <4> QED BY <1>0, <2>2, <4>1, <4>2, KindsOf DEF PassTyped, Sourced
    <3>2. CASE ~InDollars(f)
      BY <1>0, <2>1, <2>2, <3>2 DEF Take, PassTyped
    <3> QED BY <3>1, <3>2
  <2>4. Prime(f)' = Prime(f)
    BY <2>2 DEF Prime
  <2> QED BY <1>0, <2>2, <2>3, <2>4 DEF PassTyped
<1>6. CASE \E i \in Items : Consult(f, i)
  <2>1. PICK i \in Items : Consult(f, i)
    BY <1>6
  <2>2. /\ stage' = stage /\ stage[f] = "value" /\ loop' = loop /\ listed' = listed /\ todo' = todo
        /\ at'[f] \in {Gone, at[f]}
        /\ seen'[f] = seen[f] \/ seen'[f] = [seen[f] EXCEPT ![i] = cache[i]]
    BY <1>0, <2>1 DEF Consult
  <2>3. seen'[f] \in [Items -> Prices \cup {Missing, Unusable}] /\ Sourced(seen'[f])
    <3>0. seen[f] \in [Items -> Prices \cup {Missing, Unusable}]
      BY <1>0, <2>2 DEF PassTyped
    <3>1. \A j \in Items : seen'[f][j] \in {seen[f][j], cache[j]}
      BY <2>2, <3>0
    <3>2. seen'[f] \in [Items -> Prices \cup {Missing, Unusable}]
      BY <1>0, <2>2, <3>0
    <3>3. Sourced(seen[f])
      BY <1>0, <2>2 DEF PassTyped
    <3> QED BY <1>0, <3>1, <3>2, <3>3, KindsOf DEF Sourced
  <2>4. Prime(f)' = Prime(f)
    BY <2>2 DEF Prime
  <2> QED BY <1>0, <2>2, <2>3, <2>4 DEF PassTyped
<1>7. CASE Revalue(f) \/ ValueFails(f)
  <2>1. /\ stage' = stage /\ stage[f] = "value" /\ loop' = loop /\ listed' = listed /\ todo' = todo
        /\ at'[f] = Gone /\ seen' = seen
    BY <1>0, <1>7 DEF Revalue, ValueFails
  <2>2. Prime(f)' = Prime(f)
    BY <2>1 DEF Prime
  <2> QED BY <1>0, <2>1, <2>2 DEF PassTyped
<1>8. CASE NextLoop(f)
  <2>1. /\ stage'[f] = "list" /\ stage[f] = "value" /\ loop'[f] = loop[f] + 1 /\ at[f] = Gone
        /\ loop[f] < Len(Loops(f)) /\ UNCHANGED <<todo, listed, at, seen>>
    BY <1>0, <1>8 DEF NextLoop, At
  <2>2. loop'[f] \in DOMAIN Loops(f)
    BY <1>0, <2>1, LoopsOf DEF PassTyped
  <2> QED BY <1>0, <2>1, <2>2 DEF PassTyped
<1>9. CASE PassEnds(f) \/ PassFails(f)
  <2>1. stage'[f] = "off" /\ loop'[f] = 1 /\ at'[f] = Gone /\ todo'[f] = {}
    BY <1>0, <1>9 DEF PassEnds, PassFails, Over, At
  <2> QED BY <2>1, LoopsOf DEF PassTyped
<1> QED BY <1>1, <1>2, <1>3, <1>4, <1>5, <1>6, <1>7, <1>8, <1>9 DEF Pass

(* The document a pass writes is valued from what it listed and has seen.  *)
LEMMA RevaluedTyped ==
  ASSUME StateTyped, NEW f \in Feeds, Revalue(f)
  PROVE  /\ at[f] \in Assets /\ listed[f][at[f]] \in Doc /\ listed[f][at[f]].kind = Prime(f)
         /\ \A i \in HeldOf(listed[f][at[f]].kind, listed[f][at[f]].units) :
              i \in Items /\ seen[f][i] \in Nat /\ seen[f][i] \in Prices
         /\ seen[f][USD] \in Nat /\ seen[f][USD] \in Quotes \cup {Fallback}
         /\ Revaluation(listed[f][at[f]], seen[f]) \in Update
         /\ at[f] \in DOMAIN listed[f] /\ stage[f] = "value"
<1> DEFINE d == listed[f][at[f]]
<1>1. stage[f] = "value" /\ at[f] # Gone /\ Unread(f) = {} /\ PassTyped(f)
  BY DEF Revalue, StateTyped
<1>2. at[f] \in DOMAIN listed[f] /\ DOMAIN listed[f] \subseteq Assets /\ d \in Doc /\ d.kind = Prime(f)
  BY <1>1 DEF PassTyped
<1>3. seen[f] \in [Items -> Prices \cup {Missing, Unusable}] /\ seen[f][USD] \in Quotes \cup {Fallback}
  BY <1>1 DEF PassTyped, Sourced
<1>4. \A i \in HeldOf(d.kind, d.units) : i \in Items /\ seen[f][i] \in Nat
  BY <1>1, RowsOf DEF Unread
<1>5. \A i \in HeldOf(d.kind, d.units) : seen[f][i] \in Prices
  BY <1>3, <1>4, PricesAssumption
<1>6. seen[f][USD] \in Nat
  BY <1>3, KindsOf
<1> HIDE DEF d
<1>7. Revaluation(d, seen[f]) \in Update
  BY <1>2, <1>3, <1>4, <1>6, RevaluationUpdate
<1> QED BY <1>1, <1>2, <1>3, <1>4, <1>5, <1>6, <1>7 DEF d

LEMMA PassWrites ==
  ASSUME CacheInv, StateTyped, NEW f \in Feeds, Pass(f)
  PROVE  /\ Sourced(cache)' /\ db' \in [Assets -> Doc \cup {Gone}]
         /\ calm' \in [Feeds -> BOOLEAN] /\ left' \in [Feeds \cup {"rates"} -> Nat]
<1>0. /\ Sourced(cache) /\ CacheTypeOK /\ db \in [Assets -> Doc \cup {Gone}]
      /\ calm \in [Feeds -> BOOLEAN] /\ left \in [Feeds \cup {"rates"} -> Nat]
  BY DEF StateTyped, CacheInv
<1>1. Sourced(cache)'
  <2>1. CASE \E row \in todo[f] : Fetch(f, row)
    <3>1. PICK row \in todo[f] : Fetch(f, row)
      BY <2>1
    <3>2. row \in AllRows /\ \E reply \in Replies(row) : Store(row, reply)
      BY <3>1 DEF Fetch, CacheInv, FlowOK, FeedOK
    <3>3. Sourced(cache')
      BY <1>0, <3>2, StoreSourced
    <3> QED BY <3>3 DEF Sourced
  <2>2. CASE ~\E row \in todo[f] : Fetch(f, row)
    <3>1. cache' = cache
      BY <2>2 DEF Pass, PassBegins, FetchFails, Fetched, List, Take, Consult, Revalue,
                  ValueFails, NextLoop, PassEnds, PassFails, Over
    <3> QED BY <1>0, <3>1 DEF Sourced
  <2> QED BY <2>1, <2>2
<1>2. db' \in [Assets -> Doc \cup {Gone}]
  <2>1. CASE Revalue(f)
    <3> DEFINE a == at[f]
               d == Set(db[a], Revaluation(listed[f][a], seen[f]))
    <3>1. a \in Assets /\ Revaluation(listed[f][a], seen[f]) \in Update
      BY <2>1, RevaluedTyped
    <3>2. Live(a) => d \in Doc
      BY <1>0, <3>1, SetDoc DEF Live
    <3>3. db' = db \/ (Live(a) /\ db' = [db EXCEPT ![a] = d])
      BY <2>1 DEF Revalue
    <3> HIDE DEF a, d
    <3> QED BY <1>0, <3>2, <3>3
  <2>2. CASE ~Revalue(f)
    <3>1. db' = db
      BY <2>2 DEF Pass, PassBegins, Fetch, FetchFails, Fetched, List, Take, Consult,
                  ValueFails, NextLoop, PassEnds, PassFails, Over
    <3> QED BY <1>0, <3>1
  <2> QED BY <2>1, <2>2
<1>3. left' \in [Feeds \cup {"rates"} -> Nat]
  <2>1. CASE PassBegins(f)
    BY <1>0, <2>1 DEF PassBegins
  <2>2. CASE ~PassBegins(f)
    <3>1. left' = left
      BY <2>2 DEF Pass, Fetch, FetchFails, Fetched, List, Take, Consult, Revalue,
                  ValueFails, NextLoop, PassEnds, PassFails, Over
    <3> QED BY <1>0, <3>1
  <2> QED BY <2>1, <2>2
<1>4. calm' \in [Feeds -> BOOLEAN]
  <2>1. CASE Disturb
    BY <2>1 DEF Disturb
  <2>2. CASE calm' = calm
    BY <1>0, <2>2
  <2>3. CASE List(f)
    <3>1. calm' = calm \/ \E rate : calm' = [calm EXCEPT ![f] = calm[f] /\ rate = cache[USD]]
      BY <2>3 DEF List
    <3> QED BY <1>0, <3>1
  <2>4. CASE Fetched(f) \/ ValueFails(f) \/ PassEnds(f) \/ PassFails(f)
    <3>1. \E b \in BOOLEAN : calm' = [calm EXCEPT ![f] = b]
      BY <2>4 DEF Fetched, ValueFails, PassEnds, PassFails, Over
    <3> QED BY <1>0, <3>1
  <2>5. CASE Revalue(f)
    BY <1>0, <2>5 DEF Revalue
  <2> QED BY <2>1, <2>2, <2>3, <2>4, <2>5
          DEF Pass, PassBegins, Fetch, FetchFails, Take, Consult, NextLoop
<1> QED BY <1>1, <1>2, <1>3, <1>4

LEMMA PassStateTyped ==
  ASSUME CacheInv, StateTyped, NEW f \in Feeds, Pass(f)
  PROVE  StateTyped'
<1>1. Shape /\ FlowOK
  BY DEF StateTyped, CacheInv
<1>2. /\ UNCHANGED <<reqVars, turned, asked>>
      /\ \A g \in Feeds \ {f} :
           /\ stage'[g] = stage[g] /\ loop'[g] = loop[g] /\ todo'[g] = todo[g]
           /\ listed'[g] = listed[g] /\ at'[g] = at[g] /\ seen'[g] = seen[g]
      /\ loop' = [g \in Feeds |-> loop'[g]] /\ at' = [g \in Feeds |-> at'[g]]
      /\ listed' = [g \in Feeds |-> listed'[g]] /\ seen' = [g \in Feeds |-> seen'[g]]
  BY <1>1, PassOwn
<1>3. \A q \in Reqs : ReqTyped(q)'
  BY <1>2 DEF StateTyped, ReqTyped, Busy, reqVars
<1>4. \A g \in Feeds : PassTyped(g)'
  <2> SUFFICES ASSUME NEW g \in Feeds, g # f PROVE PassTyped(g)'
    BY PassTypes
  <2> QED BY <1>2 DEF StateTyped, PassTyped, Prime
<1>5. /\ Sourced(cache)' /\ db' \in [Assets -> Doc \cup {Gone}]
      /\ calm' \in [Feeds -> BOOLEAN] /\ left' \in [Feeds \cup {"rates"} -> Nat]
  BY PassWrites
<1>6. Shape'
  BY <1>1, <1>2 DEF Shape, reqVars
<1> QED BY <1>2, <1>3, <1>4, <1>5, <1>6 DEF StateTyped, reqVars

LEMMA CrashStateTyped ==
  ASSUME CacheInv, StateTyped, Crash
  PROVE  StateTyped'
<1>1. \A r \in Reqs : ReqTyped(r)'
  BY DEF Crash, ReqTyped, Busy, Opt
<1>2. \A f \in Feeds : PassTyped(f)'
  BY LoopsOf DEF Crash, PassTyped
<1>3. Shape'
  BY DEF Crash, Shape, StateTyped
<1> QED BY <1>1, <1>2, <1>3 DEF StateTyped, Crash, Disturb, Sourced

LEMMA RatesStateTyped ==
  ASSUME CacheInv, StateTyped, RateMoves
  PROVE  StateTyped'
<1>1. UNCHANGED <<db, reqVars, passVars, turned, asked>>
  BY DEF RateMoves
<1>2. Sourced(cache)'
  <2>1. PICK rate \in Quotes \cup {Fallback} : cache' = [cache EXCEPT ![USD] = rate]
    BY DEF RateMoves
  <2>2. \A i \in Items : cache'[i] = IF i = USD THEN rate ELSE cache[i]
    BY <2>1 DEF CacheInv, CacheTypeOK, Typed
  <2> QED BY <2>2, KindsOf DEF StateTyped, Sourced
<1>3. \A r \in Reqs : ReqTyped(r)'
  BY <1>1 DEF StateTyped, ReqTyped, Busy, reqVars
<1>4. \A f \in Feeds : PassTyped(f)'
  BY <1>1 DEF StateTyped, PassTyped, passVars, Prime
<1>5. Shape'
  BY <1>1 DEF StateTyped, Shape, reqVars, passVars
<1>6. left' \in [Feeds \cup {"rates"} -> Nat] /\ calm' \in [Feeds -> BOOLEAN]
  BY DEF RateMoves, Disturb, StateTyped
<1> QED BY <1>1, <1>2, <1>3, <1>4, <1>5, <1>6 DEF StateTyped, reqVars

LEMMA StepStateTyped == CacheInv /\ StateTyped /\ [Next]_vars => StateTyped'
<1> SUFFICES ASSUME CacheInv, StateTyped, [Next]_vars PROVE StateTyped'
  OBVIOUS
<1>1. CASE \E r \in Reqs : Request(r)
  BY <1>1, RequestStateTyped
<1>2. CASE \E f \in Feeds : Pass(f)
  BY <1>2, PassStateTyped
<1>3. CASE RateMoves
  BY <1>3, RatesStateTyped
<1>4. CASE Crash
  BY <1>4, CrashStateTyped
<1>5. CASE UNCHANGED vars
  <2>1. UNCHANGED <<cache, db, ask, pc, found, toPrice, got, plan, stage, loop, todo, listed, at,
                    seen, left, calm, turned, asked>>
    BY <1>5 DEF vars, reqVars, passVars
  <2>2. \A r \in Reqs : ReqTyped(r)'
    BY <2>1 DEF StateTyped, ReqTyped, Busy
  <2>3. \A f \in Feeds : PassTyped(f)'
    BY <2>1 DEF StateTyped, PassTyped, Prime
  <2> QED BY <2>1, <2>2, <2>3 DEF StateTyped, Shape, Sourced
<1> QED BY <1>1, <1>2, <1>3, <1>4, <1>5 DEF Next

LEMMA InitStateTyped == Init => StateTyped
<1> SUFFICES ASSUME Init PROVE StateTyped
  OBVIOUS
<1>1. PICK s \in Settings : db = s.db /\ cache = s.cache /\ ask = s.ask /\ left = s.left
  BY DEF Init
<1>2. /\ Sourced(cache) /\ db \in [Assets -> Doc \cup {Gone}] /\ AsksOK(ask, db)
      /\ left \in [Feeds \cup {"rates"} -> Nat]
  BY <1>1, SettingsAssumption
<1>3. /\ ask \in [Reqs -> Asks]
      /\ \A r \in Reqs : ask[r].holds # Unset => ask[r].units \in [Items -> Nat]
      /\ \A r \in Reqs : ask[r].act = "create" => Complete(ask[r])
      /\ \A r, q \in Reqs : r # q /\ ask[r].act = "create" /\ ask[q].act = "create"
                              => ask[q].asset # ask[r].asset
  BY <1>2 DEF AsksOK
<1>4. \A r \in Reqs : ReqTyped(r)
  BY DEF Init, ReqTyped, Busy, Opt
<1>5. \A f \in Feeds : PassTyped(f)
  BY LoopsOf DEF Init, PassTyped
<1>6. Shape
  BY DEF Init, Shape
<1> QED BY <1>2, <1>3, <1>4, <1>5, <1>6 DEF Init, StateTyped

LEMMA TypedInvariant == Spec => [](CacheInv /\ StateTyped)
<1>1. Init => StateTyped
  BY InitStateTyped
<1>2. CacheInv /\ StateTyped /\ [Next]_vars => StateTyped'
  BY StepStateTyped
<1> QED BY <1>1, <1>2, CacheInvariant, PTL DEF Spec

(***************************************************************************)
(* Documents, requests and passes keep their shapes: in particular every   *)
(* value that is stored is a number, whatever the caches hold, and every   *)
(* asset a pass values is one it listed.                                   *)
(***************************************************************************)
THEOREM TypeCorrect == Spec => []TypeOK
<1>1. CacheInv /\ StateTyped => TypeOK
  <2> SUFFICES ASSUME CacheInv, StateTyped PROVE TypeOK
    OBVIOUS
  <2>1. \A r \in Reqs : \A row \in toPrice[r] : row \subseteq Items
    BY RowParts DEF CacheInv, FlowOK, ReqOK
  <2>2. \A r \in Reqs : /\ pc[r] = "cache" => plan[r] \in Replies(DOMAIN plan[r])
                        /\ pc[r] = "write" => plan[r] \in Update
    <3> SUFFICES ASSUME NEW r \in Reqs PROVE pc[r] = "cache" => plan[r] \in Replies(DOMAIN plan[r])
      BY DEF StateTyped, ReqTyped
    <3> QED BY ReplyDomain DEF CacheInv, FlowOK, ReqOK
  <2>3. found \in [Reqs -> Opt(Doc)] /\ got \in [Reqs -> Opt([Items -> Prices])]
    BY DEF StateTyped, Shape, ReqTyped
  <2>4. stage \in [Feeds -> {"off", "fetch", "list", "value"}]
    BY DEF StateTyped, CacheInv, FlowOK, PassTyped
  <2>5. \A f \in Feeds : /\ loop[f] \in DOMAIN Loops(f)
                         /\ todo[f] \subseteq Assets \cup SUBSET Items
                         /\ at[f] # Gone => at[f] \in DOMAIN listed[f]
    BY DEF StateTyped, PassTyped
  <2>6. /\ CacheTypeOK /\ db \in [Assets -> Doc \cup {Gone}] /\ left \in [Feeds \cup {"rates"} -> Nat]
        /\ calm \in [Feeds -> BOOLEAN] /\ turned \subseteq Assets
        /\ pc \in [Reqs -> {"idle", "check", "price", "cache", "write", "answered"}]
    BY DEF StateTyped, CacheInv, FlowOK, PCs
  <2> QED BY <2>1, <2>2, <2>3, <2>4, <2>5, <2>6 DEF TypeOK
<1> QED BY <1>1, TypedInvariant, PTL

-----------------------------------------------------------------------------
(* The coins of a request that are not to be looked up any more are at a   *)
(* price of their source.                                                  *)
Priced(r) ==
  \A i \in HeldOf(Kind(r), Merged(r)) \cap Coins : Row(i) \in toPrice[r] \/ got[r][i] \in Quotes

Planned(r) ==
  /\ Busy(r) => ask[r].act # "delete"
  /\ pc[r] \in {"price", "cache"} => Priced(r)
  /\ pc[r] = "write" =>
       /\ \A i \in HeldOf(Kind(r), Merged(r)) \cap Coins : got[r][i] \in Quotes
       /\ \E rate \in Quotes \cup {Fallback} : plan[r] = Plan(r, rate)

(* Where the prices of coins come from. *)
LEMMA CoinRows ==
  /\ \A S : \A i \in S \cap Coins : Row(i) \in Rows(S)
  /\ \A row \in AllRows : \A reply \in Replies(row) : \A i \in row \cap Coins :
       reply[i] \in Nat => reply[i] \in Quotes
  /\ \A c : Sourced(c) => \A i \in Coins : c[i] \in Nat => c[i] \in Quotes
  /\ \A i \in Coins : Row(i) = {i}
<1>1. Coins \cap Lines = {}
  <2> DEFINE kinds == <<Coins, Tickers, Karats, Currencies, Lines>>
  <2>1. \A m, n \in 1..5 : m # n => kinds[m] \cap kinds[n] = {}
    BY ItemsAssumption
  <2>2. kinds[1] = Coins /\ kinds[5] = Lines
    OBVIOUS
  <2> HIDE DEF kinds
  <2>3. kinds[1] \cap kinds[5] = {}
    BY <2>1
  <2> QED BY <2>2, <2>3
<1>2. \A S : \A i \in S \cap Coins : Row(i) \in Rows(S)
  BY <1>1 DEF Rows
<1>3. ASSUME NEW row \in AllRows, NEW reply \in Replies(row), NEW i \in row \cap Coins, reply[i] \in Nat
      PROVE  reply[i] \in Quotes
  <2>1. row # Karats /\ row \subseteq Coins
    BY RowParts, Apart
  <2> QED BY <1>3, <2>1, PricesAssumption DEF Replies
<1>4. \A c : Sourced(c) => \A i \in Coins : c[i] \in Nat => c[i] \in Quotes
  BY PricesAssumption DEF Sourced
<1>5. \A i \in Coins : Row(i) = {i}
  BY Apart DEF Row
<1> QED BY <1>2, <1>3, <1>4, <1>5

(* A request that takes a row's price, if it goes on. *)
LEMMA GotPriced ==
  ASSUME CacheInv, StateTyped, NEW r \in Reqs, Busy(r), Priced(r), ask[r].act # "delete", NEW row, NEW price,
         Got(r, row, price), ask' = ask, row \subseteq Items,
         \A i \in row \cap Coins : price[i] \in Nat => price[i] \in Quotes
  PROVE  Planned(r)'
<1>0. /\ pc = [q \in Reqs |-> pc[q]] /\ got = [q \in Reqs |-> got[q]] /\ found[r] \in Doc
      /\ toPrice = [q \in Reqs |-> toPrice[q]]
  BY DEF StateTyped, Shape, CacheInv, FlowOK, ReqTyped
<1>1. CASE Answer(r)
  <2>1. pc'[r] = "answered"
    BY <1>0, <1>1 DEF Answer, Goto
  <2> QED BY <2>1 DEF Planned, Busy
<1>2. CASE ~Answer(r)
  <2>1. /\ pc'[r] = "price" /\ found' = found /\ \A i \in row : price[i] \in Nat
        /\ got'[r] = [i \in Items |-> IF i \in row THEN price[i] ELSE got[r][i]]
        /\ toPrice'[r] = toPrice[r] \ {row}
    BY <1>0, <1>2 DEF Got, Goto
  <2>2. Kind(r)' = Kind(r) /\ Merged(r)' = Merged(r)
    BY <2>1 DEF Kind, Merged
  <2>3. ASSUME NEW i \in HeldOf(Kind(r), Merged(r)) \cap Coins
        PROVE  Row(i) \in toPrice'[r] \/ got'[r][i] \in Quotes
    <3>1. i \in Items /\ Row(i) = {i} /\ (Row(i) \in toPrice[r] \/ got[r][i] \in Quotes)
      BY RowsOf, CoinRows DEF Priced
    <3>2. CASE i \in row
      BY <2>1, <3>1, <3>2
    <3>3. CASE i \notin row
      <4>1. got'[r][i] = got[r][i] /\ Row(i) # row
        BY <2>1, <3>1, <3>3
      <4> QED BY <2>1, <3>1, <4>1
    <3> QED BY <3>2, <3>3
  <2>4. Priced(r)'
    BY <2>2, <2>3 DEF Priced
  <2> QED BY <2>1, <2>4 DEF Planned, Busy
<1> QED BY <1>1, <1>2

LEMMA RequestPlanned ==
  ASSUME CacheInv, StateTyped, NEW r \in Reqs, Planned(r), Request(r)
  PROVE  Planned(r)'
<1>0. /\ pc = [q \in Reqs |-> pc[q]] /\ got = [q \in Reqs |-> got[q]]
      /\ toPrice = [q \in Reqs |-> toPrice[q]] /\ plan = [q \in Reqs |-> plan[q]]
      /\ ask' = ask
  BY RequestOwn DEF StateTyped, Shape, CacheInv, FlowOK
<1>1. ASSUME Answer(r) PROVE Planned(r)'
  <2>1. pc'[r] = "answered"
    BY <1>0, <1>1 DEF Answer, Goto
  <2> QED BY <2>1 DEF Planned, Busy
<1>2. CASE Find(r)
  <2> SUFFICES ASSUME ~Answer(r) PROVE Planned(r)'
    BY <1>1
  <2>1. pc'[r] = "check" /\ ask[r].act # "delete"
    BY <1>0, <1>2 DEF Find, Goto
  <2> QED BY <1>0, <2>1 DEF Planned, Busy
<1>3. CASE Check(r)
  <2> SUFFICES ASSUME ~Answer(r) PROVE Planned(r)'
    BY <1>1
  <2>1. pc[r] = "check" /\ pc'[r] = "price" /\ found' = found /\ toPrice'[r] = Rows(HeldOf(Kind(r), Merged(r)))
    BY <1>0, <1>3 DEF Check, Goto
  <2>2. Kind(r)' = Kind(r) /\ Merged(r)' = Merged(r)
    BY <1>0, <2>1 DEF Kind, Merged
  <2>3. Priced(r)'
    BY <2>1, <2>2, CoinRows DEF Priced
  <2> QED BY <1>0, <2>1, <2>3 DEF Planned, Busy
<1>4. CASE \E row \in toPrice[r] : LookUp(r, row)
  <2>1. PICK row \in toPrice[r] : LookUp(r, row)
    BY <1>4
  <2>2. row \subseteq Items
    BY RowParts DEF CacheInv, FlowOK, ReqOK
  <2>3. pc[r] = "price" /\ Got(r, row, cache)
    BY <2>1 DEF LookUp
  <2>4. \A i \in row \cap Coins : cache[i] \in Nat => cache[i] \in Quotes
    BY CoinRows DEF StateTyped
  <2> QED BY <1>0, <2>2, <2>3, <2>4, GotPriced DEF Planned, Busy
<1>5. CASE \E row \in toPrice[r] : Miss(r, row)
  <2>1. pc'[r] = "cache" /\ pc[r] = "price" /\ UNCHANGED <<found, got, toPrice>>
    BY <1>0, <1>5 DEF Miss, Goto
  <2>2. Kind(r)' = Kind(r) /\ Merged(r)' = Merged(r)
    BY <1>0, <2>1 DEF Kind, Merged
  <2> QED BY <1>0, <2>1, <2>2 DEF Planned, Priced, Busy
<1>6. CASE CacheIt(r)
  <2>1. PICK row \in AllRows : plan[r] \in Replies(row)
    BY <1>6 DEF CacheIt, CacheInv, FlowOK, ReqOK
  <2>2. DOMAIN plan[r] = row /\ row \subseteq Items
    BY <2>1, ReplyDomain, RowParts
  <2>3. pc[r] = "cache" /\ Got(r, row, plan[r])
    BY <1>6, <2>2 DEF CacheIt
  <2>4. \A i \in row \cap Coins : plan[r][i] \in Nat => plan[r][i] \in Quotes
    BY <2>1, CoinRows
  <2> QED BY <1>0, <2>2, <2>3, <2>4, GotPriced DEF Planned, Busy
<1>7. CASE Compute(r)
  <2>1. PICK rate \in DollarRates : plan' = [plan EXCEPT ![r] = Plan(r, rate)]
    BY <1>7 DEF Compute
  <2>2. /\ pc'[r] = "write" /\ pc[r] = "price" /\ UNCHANGED <<found, got, toPrice>> /\ toPrice[r] = {}
        /\ plan'[r] = Plan(r, rate)
    BY <1>0, <1>7, <2>1 DEF Compute, Goto
  <2>3. Kind(r)' = Kind(r) /\ Merged(r)' = Merged(r) /\ Cash(r)' = Cash(r)
    BY <1>0, <2>2 DEF Kind, Merged, Cash
  <2>4. Plan(r, rate)' = Plan(r, rate)
    BY <1>0, <2>2, <2>3 DEF Plan, SetUnits, SetStamps
  <2>5. rate \in Quotes \cup {Fallback}
    BY DEF DollarRates, StateTyped, Sourced
  <2>6. \A i \in HeldOf(Kind(r), Merged(r)) \cap Coins : got[r][i] \in Quotes
    BY <2>2 DEF Planned, Priced
  <2> QED BY <1>0, <2>2, <2>3, <2>4, <2>5, <2>6 DEF Planned, Busy
<1>8. CASE Write(r) \/ Delete(r) \/ ReqFails(r)
  BY <1>1, <1>8 DEF Write, Delete, ReqFails
<1> QED BY <1>2, <1>3, <1>4, <1>5, <1>6, <1>7, <1>8 DEF Request

(* All requests have the prices they count with. *)
PlannedOK == \A r \in Reqs : Planned(r)

LEMMA StepPlanned == CacheInv /\ StateTyped /\ PlannedOK /\ [Next]_vars => PlannedOK'
<1> SUFFICES ASSUME CacheInv, StateTyped, PlannedOK, [Next]_vars, NEW r \in Reqs PROVE Planned(r)'
  BY DEF PlannedOK
<1>0. Planned(r) /\ Shape /\ FlowOK
  BY DEF PlannedOK, StateTyped, CacheInv
<1>1. CASE /\ ask' = ask /\ pc'[r] = pc[r] /\ found'[r] = found[r] /\ toPrice'[r] = toPrice[r]
           /\ got'[r] = got[r] /\ plan'[r] = plan[r]
  <2>1. Kind(r)' = Kind(r) /\ Merged(r)' = Merged(r) /\ Cash(r)' = Cash(r)
    BY <1>1 DEF Kind, Merged, Cash
  <2>2. \A rate : Plan(r, rate)' = Plan(r, rate)
    BY <1>1, <2>1 DEF Plan, SetUnits, SetStamps
  <2> QED BY <1>0, <1>1, <2>1, <2>2 DEF Planned, Priced, Busy
<1>2. CASE \E q \in Reqs : Request(q)
  <2>1. PICK q \in Reqs : Request(q)
    BY <1>2
  <2>2. CASE q = r
    BY <1>0, <2>1, <2>2, RequestPlanned
  <2>3. CASE q # r
    BY <1>0, <1>1, <2>1, <2>3, RequestOwn
  <2> QED BY <2>2, <2>3
<1>3. CASE \E f \in Feeds : Pass(f)
  BY <1>0, <1>1, <1>3, PassOwn DEF reqVars
<1>4. CASE RateMoves \/ UNCHANGED vars
  BY <1>1, <1>4 DEF RateMoves, vars, reqVars
<1>5. CASE Crash
  <2>1. pc'[r] \in {"idle", "answered"}
    BY <1>5 DEF Crash
  <2> QED BY <2>1 DEF Planned, Busy
<1> QED BY <1>2, <1>3, <1>4, <1>5 DEF Next

-----------------------------------------------------------------------------
(* An asset that is not created yet has been seen by nobody.               *)
Fresh(a) == \E r \in Reqs : ask[r].act = "create" /\ ask[r].asset = a /\ pc[r] # "answered"

Listed(f, a) == stage[f] = "value" /\ a \in DOMAIN listed[f]

Updates(r, a) == ask[r].act = "update" /\ ask[r].asset = a /\ Busy(r)

FreshOK ==
  \A a \in Assets : Fresh(a) =>
    /\ ~Live(a)
    /\ \A f \in Feeds : ~Listed(f, a)
    /\ \A r \in Reqs : ~Updates(r, a)

(* Who has read an asset that never changed its kind knows its kind.       *)
KindOK ==
  \A a \in Assets \ turned : Live(a) =>
    /\ \A f \in Feeds : Listed(f, a) => listed[f][a].kind = db[a].kind
    /\ \A r \in Reqs : Updates(r, a) => found[r].kind = db[a].kind

(* The cash of a document, and the coins, are what it was given.           *)
Given(a, d) ==
  /\ \E x \in asked[a] : x[2] = d.cash
  /\ a \notin turned /\ d.kind = "crypto" => <<d.units, d.cash>> \in asked[a]

OriginOK ==
  \A a \in Assets :
    /\ Live(a) => Given(a, db[a])
    /\ \A f \in Feeds : Listed(f, a) => Given(a, listed[f][a])
    /\ \A r \in Reqs : Updates(r, a) => \E x \in asked[a] : x[2] = found[r].cash

(* The three are inductive together. *)
BooksOK == FreshOK /\ KindOK /\ OriginOK

(* A step by which nobody gets to know an asset anew. *)
Learns ==
  \/ \E a \in Assets : Fresh(a)' /\ ~Fresh(a)
  \/ \E f \in Feeds, a \in Assets :
       Listed(f, a)' /\ ~(Listed(f, a) /\ listed'[f][a] = listed[f][a])
  \/ \E r \in Reqs, a \in Assets :
       Updates(r, a)' /\ ~(Updates(r, a) /\ found'[r] = found[r])

(* All steps but Find and List teach nobody anything. *)
LEMMA RequestLearns ==
  ASSUME CacheInv, StateTyped, NEW r \in Reqs, Request(r), ~Find(r)
  PROVE  ~Learns
<1>0. /\ pc = [q \in Reqs |-> pc[q]] /\ found = [q \in Reqs |-> found[q]] /\ UNCHANGED <<ask, passVars>>
      /\ \A q \in Reqs \ {r} : pc'[q] = pc[q] /\ found'[q] = found[q]
  BY RequestOwn DEF StateTyped, Shape, CacheInv, FlowOK
<1>1. pc[r] # "answered"
  BY DEF Request, Find, Check, LookUp, Miss, CacheIt, Compute, Write, Delete, ReqFails
<1>2. Busy(r)' => Busy(r) /\ found'[r] = found[r]
  <2>1. Answer(r) => pc'[r] = "answered"
    BY <1>0 DEF Answer, Goto
  <2>2. \A row, price : Got(r, row, price) => Answer(r) \/ (pc'[r] = "price" /\ found' = found)
    BY <1>0 DEF Got, Goto
  <2>3. CASE \E row \in toPrice[r] : LookUp(r, row) \/ Miss(r, row)
    BY <1>0, <2>1, <2>2, <2>3 DEF LookUp, Miss, Goto, Busy
  <2>4. CASE CacheIt(r)
    BY <2>1, <2>2, <2>4 DEF CacheIt, Busy
  <2>5. CASE Check(r) \/ Compute(r)
    BY <1>0, <2>1, <2>5 DEF Check, Compute, Busy
  <2>6. CASE Write(r) \/ Delete(r) \/ ReqFails(r)
    BY <2>1, <2>6 DEF Write, Delete, ReqFails, Busy
  <2> QED BY <2>3, <2>4, <2>5, <2>6 DEF Request
<1>3. \A a \in Assets : Fresh(a)' => Fresh(a)
  BY <1>0, <1>1 DEF Fresh
<1>4. \A q \in Reqs, a \in Assets : Updates(q, a)' => Updates(q, a) /\ found'[q] = found[q]
  BY <1>0, <1>2 DEF Updates, Busy
<1>5. \A f \in Feeds, a \in Assets : Listed(f, a)' => Listed(f, a) /\ listed'[f][a] = listed[f][a]
  BY <1>0 DEF Listed, passVars
<1> QED BY <1>3, <1>4, <1>5 DEF Learns

LEMMA PassLearns ==
  ASSUME CacheInv, StateTyped, NEW f \in Feeds, Pass(f), ~List(f)
  PROVE  ~Learns
<1>0. /\ stage = [g \in Feeds |-> stage[g]] /\ listed = [g \in Feeds |-> listed[g]] /\ UNCHANGED reqVars
      /\ \A g \in Feeds \ {f} : stage'[g] = stage[g] /\ listed'[g] = listed[g]
  BY PassOwn DEF StateTyped, Shape, CacheInv, FlowOK
<1>1. stage'[f] = "value" => stage[f] = "value" /\ listed'[f] = listed[f]
  BY <1>0 DEF Pass, PassBegins, Fetch, FetchFails, Fetched, Take, Consult, Revalue,
              ValueFails, NextLoop, PassEnds, PassFails, Over, At
<1>2. \A a \in Assets : Fresh(a)' => Fresh(a)
  BY <1>0 DEF Fresh, reqVars
<1>3. \A q \in Reqs, a \in Assets : Updates(q, a)' => Updates(q, a) /\ found'[q] = found[q]
  BY <1>0 DEF Updates, Busy, reqVars
<1>4. \A g \in Feeds, a \in Assets : Listed(g, a)' => Listed(g, a) /\ listed'[g][a] = listed[g][a]
  BY <1>0, <1>1 DEF Listed
<1> QED BY <1>2, <1>3, <1>4 DEF Learns

LEMMA OthersLearn ==
  ASSUME CacheInv, StateTyped, RateMoves \/ Crash \/ UNCHANGED vars
  PROVE  ~Learns
<1>1. CASE RateMoves \/ UNCHANGED vars
  <2>1. UNCHANGED <<ask, pc, found, stage, listed>>
    BY <1>1 DEF RateMoves, vars, reqVars, passVars
  <2> QED BY <2>1 DEF Learns, Fresh, Listed, Updates, Busy
<1>2. CASE Crash
  <2>1. /\ ask' = ask /\ \A r \in Reqs : pc'[r] = IF pc[r] = "idle" THEN "idle" ELSE "answered"
        /\ \A f \in Feeds : stage'[f] = "off"
    BY <1>2 DEF Crash
  <2> QED BY <2>1 DEF Learns, Fresh, Listed, Updates, Busy
<1> QED BY <1>1, <1>2

(* Nothing in the collection changes, and nobody gets to know more.        *)
LEMMA QuietBooks ==
  ASSUME BooksOK, ~Learns, UNCHANGED <<db, turned, asked>>
  PROVE  BooksOK'
<1>1. FreshOK'
  BY DEF BooksOK, FreshOK, Learns, Live
<1>2. KindOK'
  BY DEF BooksOK, KindOK, Learns, Live
<1>3. OriginOK'
  BY DEF BooksOK, OriginOK, Learns, Live, Given
<1> QED BY <1>1, <1>2, <1>3 DEF BooksOK

(* A request or a pass reads assets as they are. *)
LEMMA FindBooks ==
  ASSUME CacheInv, StateTyped, BooksOK, NEW r \in Reqs, Find(r)
  PROVE  BooksOK'
<1>0. /\ pc = [q \in Reqs |-> pc[q]] /\ found = [q \in Reqs |-> found[q]]
      /\ UNCHANGED <<ask, passVars, db, turned, asked>> /\ pc[r] = "idle"
      /\ \A q \in Reqs \ {r} : pc'[q] = pc[q] /\ found'[q] = found[q]
  BY RequestOwn DEF StateTyped, Shape, CacheInv, FlowOK, Find, Request
<1>1. \A f \in Feeds, a \in Assets : Listed(f, a)' => Listed(f, a) /\ listed'[f][a] = listed[f][a]
  BY <1>0 DEF Listed, passVars
<1>2. \A q \in Reqs, a \in Assets :
        Updates(q, a)' => \/ Updates(q, a) /\ found'[q] = found[q]
                          \/ Live(a) /\ found'[q] = db[a]
  <2> SUFFICES ASSUME NEW a \in Assets, Updates(r, a)' PROVE Live(a) /\ found'[r] = db[a]
    BY <1>0 DEF Updates, Busy
  <2>1. ask[r].act = "update" /\ ask[r].asset = a /\ pc'[r] # "answered"
    BY <1>0 DEF Updates, Busy
  <2>2. ~Answer(r)
    BY <1>0, <2>1 DEF Answer, Goto
  <2> QED BY <1>0, <2>1, <2>2 DEF Find
<1>3. \A a \in Assets : Fresh(a)' => Fresh(a)
  BY <1>0 DEF Fresh
<1>4. FreshOK'
  BY <1>0, <1>1, <1>2, <1>3 DEF BooksOK, FreshOK, Live
<1>5. KindOK'
  BY <1>0, <1>1, <1>2 DEF BooksOK, KindOK, Live
<1>6. OriginOK'
  <2>1. OriginOK
    BY DEF BooksOK
  <2>2. \A a \in Assets : \A d : Given(a, d)' = Given(a, d)
    BY <1>0 DEF Given
  <2>3. \A a \in Assets : Live(a) => \E x \in asked[a] : x[2] = db[a].cash
    BY <2>1 DEF OriginOK, Given
  <2> QED BY <1>0, <1>1, <1>2, <2>1, <2>2, <2>3 DEF OriginOK, Live
<1> QED BY <1>4, <1>5, <1>6 DEF BooksOK

LEMMA ListBooks ==
  ASSUME CacheInv, StateTyped, BooksOK, NEW f \in Feeds, List(f)
  PROVE  BooksOK'
<1>0. /\ stage = [g \in Feeds |-> stage[g]] /\ listed = [g \in Feeds |-> listed[g]]
      /\ UNCHANGED <<ask, pc, found, db, turned, asked>>
      /\ \A g \in Feeds \ {f} : stage'[g] = stage[g] /\ listed'[g] = listed[g]
  BY PassOwn DEF StateTyped, Shape, CacheInv, FlowOK, List, Pass, reqVars
<1>1. \A g \in Feeds, a \in Assets :
        Listed(g, a)' => \/ Listed(g, a) /\ listed'[g][a] = listed[g][a]
                         \/ Live(a) /\ listed'[g][a] = db[a]
  <2> DEFINE docs == Listing(Loops(f)[loop[f]])
  <2>1. listed'[f] = [a \in docs |-> db[a]]
    BY <1>0 DEF List
  <2>2. \A a \in docs : Live(a)
    BY DEF Listing
  <2> HIDE DEF docs
  <2> QED BY <1>0, <2>1, <2>2 DEF Listed
<1>2. \A q \in Reqs, a \in Assets : Updates(q, a)' => Updates(q, a) /\ found'[q] = found[q]
  BY <1>0 DEF Updates, Busy
<1>3. \A a \in Assets : Fresh(a)' => Fresh(a)
  BY <1>0 DEF Fresh
<1>4. FreshOK'
  BY <1>0, <1>1, <1>2, <1>3 DEF BooksOK, FreshOK, Live
<1>5. KindOK'
  BY <1>0, <1>1, <1>2 DEF BooksOK, KindOK, Live
<1>6. OriginOK'
  <2>1. OriginOK
    BY DEF BooksOK
  <2>2. \A a \in Assets : \A d : Given(a, d)' = Given(a, d)
    BY <1>0 DEF Given
  <2>3. \A a \in Assets : Live(a) => \E x \in asked[a] : x[2] = db[a].cash
    BY <2>1 DEF OriginOK, Given
  <2> QED BY <1>0, <1>1, <1>2, <2>1, <2>2, <2>3 DEF OriginOK, Live
<1> QED BY <1>4, <1>5, <1>6 DEF BooksOK

(* What a request writes, on a blank asset or on what the asset is by now. *)
LEMMA WriteDoc ==
  ASSUME CacheInv, StateTyped, PlannedOK, BooksOK, NEW r \in Reqs, Write(r), NEW a \in Assets, a = ask[r].asset,
         db'[a] # Gone
  PROVE  \E base \in Doc :
           /\ db'[a] = Set(base, plan[r]) /\ plan[r] \in Update
           /\ asked'[a] = asked[a] \cup {<<db'[a].units, db'[a].cash>>}
           /\ \/ ask[r].act = "create" /\ Fresh(a) /\ ~Fresh(a)'
              \/ Updates(r, a) /\ Live(a) /\ base = db[a] /\ ask[r].act # "create"
<1>0. /\ db \in [Assets -> Doc \cup {Gone}] /\ ReqTyped(r) /\ pc[r] = "write"
      /\ asked = [b \in Assets |-> asked[b]] /\ ask[r] \in Asks
      /\ pc = [q \in Reqs |-> pc[q]]
  BY DEF StateTyped, Shape, Write, CacheInv, FlowOK
<1>1. plan[r] \in Update /\ Blank \in Doc
  BY <1>0 DEF ReqTyped, Blank, Doc, NoStamps, Kinds
<1> DEFINE d == IF ask[r].act = "create" THEN Set(Blank, plan[r])
                ELSE IF Live(a) THEN Set(db[a], plan[r]) ELSE Gone
<1>2. db' = [db EXCEPT ![a] = d]
  BY DEF Write
<1>3. asked' = IF d = Gone THEN asked ELSE [asked EXCEPT ![a] = asked[a] \cup {<<d.units, d.cash>>}]
  BY DEF Write
<1>4. db'[a] = d
  <2> HIDE DEF d
  <2> QED BY <1>0, <1>2
<1>5. asked'[a] = asked[a] \cup {<<db'[a].units, db'[a].cash>>}
  <2> HIDE DEF d
  <2> QED BY <1>0, <1>3, <1>4
<1>6. pc'[r] = "answered" /\ ask' = ask /\ \A q \in Reqs \ {r} : pc'[q] = pc[q]
  BY <1>0 DEF Write, Answer, Goto
<1>7. CASE ask[r].act = "create"
  <2>1. Fresh(a)
    BY <1>0, <1>7 DEF Fresh
  <2>2. ~Fresh(a)'
    BY <1>6, <1>7 DEF Fresh, StateTyped
  <2> QED BY <1>1, <1>4, <1>5, <1>7, <2>1, <2>2
<1>8. CASE ask[r].act # "create"
  <2>1. Live(a) /\ d = Set(db[a], plan[r])
    BY <1>4, <1>8
  <2>2. Updates(r, a)
    <3>1. ask[r].act # "delete"
      BY <1>0 DEF PlannedOK, Planned, Busy
    <3> QED BY <1>0, <1>8, <3>1 DEF Updates, Busy, Asks
  <2> QED BY <1>0, <1>1, <1>4, <1>5, <1>8, <2>1, <2>2 DEF Live
<1> QED BY <1>7, <1>8

(* What a write leaves alone. *)
LEMMA WriteFrame ==
  ASSUME CacheInv, StateTyped, NEW r \in Reqs, Write(r)
  PROVE  /\ \A b \in Assets \ {ask[r].asset} : db'[b] = db[b] /\ asked'[b] = asked[b]
         /\ ask[r].asset \in Assets /\ asked[ask[r].asset] \subseteq asked'[ask[r].asset]
         /\ turned' = IF Live(ask[r].asset) /\ db[ask[r].asset].kind # Kind(r)
                      THEN turned \cup {ask[r].asset} ELSE turned
         /\ ~Learns
<1>1. db \in [Assets -> Doc \cup {Gone}] /\ asked = [b \in Assets |-> asked[b]] /\ ask[r].asset \in Assets
  BY DEF StateTyped, Shape, Asks
<1>2. \E d : /\ db' = [db EXCEPT ![ask[r].asset] = d]
             /\ asked' = IF d = Gone THEN asked
                         ELSE [asked EXCEPT ![ask[r].asset] = asked[ask[r].asset] \cup {<<d.units, d.cash>>}]
  BY DEF Write
<1>3. ~Find(r) /\ Request(r)
  BY DEF Write, Find, Request
<1> QED BY <1>1, <1>2, <1>3, RequestLearns DEF Write

(* A value that is there is not the absent one. *)
LEMMA UnsetNot == \A x \in Nat \cup Kinds : x # Unset /\ \A y : Or(x, y) = x
BY NamesAssumption DEF Or

(* An asset that never changed its kind does not by a write. *)
LEMMA WriteKind ==
  ASSUME CacheInv, StateTyped, PlannedOK, BooksOK, NEW r \in Reqs, Write(r), NEW a \in Assets,
         a = ask[r].asset, db'[a] # Gone, a \notin turned'
  PROVE  /\ db'[a].kind = Kind(r) /\ a \notin turned
         /\ ask[r].act # "create" => db[a].kind = Kind(r)
<1>1. PICK base \in Doc : /\ db'[a] = Set(base, plan[r]) /\ plan[r] \in Update
                          /\ \/ ask[r].act = "create" /\ Fresh(a) /\ ~Fresh(a)'
                             \/ Live(a) /\ base = db[a] /\ ask[r].act # "create"
  BY WriteDoc
<1>2. PICK rate : plan[r] = Plan(r, rate)
  BY DEF Write, PlannedOK, Planned
<1>3. plan[r].kind = ask[r].kind
  BY <1>2 DEF Plan
<1>4. db'[a].kind = Or(ask[r].kind, base.kind)
  BY <1>1, <1>3, SetDoc
<1>5. a \notin turned /\ (Live(a) => db[a].kind = Kind(r))
  BY WriteFrame
<1>6. CASE ask[r].act = "create"
  <2>1. ask[r].kind \in Kinds
    BY <1>6 DEF StateTyped, Complete
  <2>2. db'[a].kind = ask[r].kind /\ Kind(r) = ask[r].kind
    BY <1>4, <2>1, NamesAssumption DEF Kind, Or
  <2> QED BY <1>5, <1>6, <2>2
<1>7. CASE ask[r].act # "create"
  <2>1. base.kind = Kind(r)
    BY <1>1, <1>5, <1>7
  <2> QED BY <1>1, <1>4, <1>5, <1>7, <2>1 DEF Kind, Or
<1> QED BY <1>6, <1>7

(* The three steps that write the collection keep the books right. *)
LEMMA WriteBooks ==
  ASSUME CacheInv, StateTyped, PlannedOK, BooksOK, NEW r \in Reqs, Write(r)
  PROVE  BooksOK'
<1> DEFINE a == ask[r].asset
<1>0. /\ \A b \in Assets \ {a} : db'[b] = db[b] /\ asked'[b] = asked[b]
      /\ a \in Assets /\ asked[a] \subseteq asked'[a] /\ turned \subseteq turned' /\ ~Learns
      /\ FreshOK /\ KindOK /\ OriginOK
  BY WriteFrame DEF BooksOK
<1>1. db'[a] # Gone =>
        /\ asked'[a] = asked[a] \cup {<<db'[a].units, db'[a].cash>>}
        /\ \/ ask[r].act = "create" /\ Fresh(a)
           \/ Live(a) /\ ask[r].act # "create"
  <2> SUFFICES ASSUME db'[a] # Gone
               PROVE  /\ asked'[a] = asked[a] \cup {<<db'[a].units, db'[a].cash>>}
                      /\ \/ ask[r].act = "create" /\ Fresh(a)
                         \/ Live(a) /\ ask[r].act # "create"
    OBVIOUS
  <2> QED BY <1>0, WriteDoc
<1>2. db'[a] # Gone /\ a \notin turned' => /\ db'[a].kind = Kind(r) /\ a \notin turned
                                           /\ ask[r].act # "create" => db[a].kind = Kind(r)
  BY <1>0, WriteKind
<1> HIDE DEF a
<1>3. FreshOK'
  <2> SUFFICES ASSUME NEW b \in Assets, Fresh(b)'
               PROVE  db'[b] = Gone /\ (\A f \in Feeds : ~Listed(f, b)') /\ (\A q \in Reqs : ~Updates(q, b)')
    BY DEF FreshOK, Live
  <2>1. Fresh(b)
    BY <1>0 DEF Learns
  <2>2. ~Live(b) /\ (\A f \in Feeds : ~Listed(f, b)') /\ (\A q \in Reqs : ~Updates(q, b)')
    BY <1>0, <2>1 DEF FreshOK, Learns
  <2>3. db'[b] = Gone
    <3> SUFFICES ASSUME db'[b] # Gone PROVE FALSE
      OBVIOUS
    <3>1. b = ask[r].asset
      BY <1>0, <2>2 DEF Live, a
    <3>2. ~Fresh(b)' \/ Live(b)
      BY <3>1, WriteDoc
    <3> QED BY <2>2, <3>2
  <2> QED BY <2>2, <2>3
<1>4. KindOK'
  <2> SUFFICES ASSUME NEW b \in Assets, b \notin turned', db'[b] # Gone
               PROVE  /\ \A f \in Feeds : Listed(f, b)' => listed'[f][b].kind = db'[b].kind
                      /\ \A q \in Reqs : Updates(q, b)' => found'[q].kind = db'[b].kind
    BY DEF KindOK, Live
  <2>1. /\ \A f \in Feeds : Listed(f, b)' => Listed(f, b) /\ listed'[f][b] = listed[f][b]
        /\ \A q \in Reqs : Updates(q, b)' => Updates(q, b) /\ found'[q] = found[q]
    BY <1>0 DEF Learns
  <2>2. Live(b) => /\ \A f \in Feeds : Listed(f, b) => listed[f][b].kind = db[b].kind
                   /\ \A q \in Reqs : Updates(q, b) => found[q].kind = db[b].kind
    BY <1>0 DEF KindOK
  <2>3. CASE b # a
    BY <1>0, <2>1, <2>2, <2>3 DEF Live
  <2>4. CASE b = a /\ ask[r].act # "create"
    BY <1>1, <1>2, <2>1, <2>2, <2>4
  <2>5. CASE b = a /\ ask[r].act = "create"
    <3>1. Fresh(b)
      BY <1>1, <2>5
    <3> QED BY <1>0, <2>1, <3>1 DEF FreshOK
  <2> QED BY <2>3, <2>4, <2>5
<1>5. OriginOK'
  <2> SUFFICES ASSUME NEW b \in Assets
               PROVE  /\ db'[b] # Gone => Given(b, db[b])'
                      /\ \A f \in Feeds : Listed(f, b)' => Given(b, listed[f][b])'
                      /\ \A q \in Reqs : Updates(q, b)' => \E x \in asked'[b] : x[2] = found'[q].cash
    BY DEF OriginOK, Live
  <2>1. /\ \A f \in Feeds : Listed(f, b)' => Listed(f, b) /\ listed'[f][b] = listed[f][b]
        /\ \A q \in Reqs : Updates(q, b)' => Updates(q, b) /\ found'[q] = found[q]
        /\ asked[b] \subseteq asked'[b]
    BY <1>0 DEF Learns
  <2>2. ASSUME NEW f \in Feeds, Listed(f, b)' PROVE Given(b, listed[f][b])'
    <3>1. Given(b, listed[f][b]) /\ listed'[f][b] = listed[f][b]
      BY <1>0, <2>1, <2>2 DEF OriginOK
    <3> QED BY <1>0, <2>1, <3>1 DEF Given
  <2>3. ASSUME NEW q \in Reqs, Updates(q, b)' PROVE \E x \in asked'[b] : x[2] = found'[q].cash
    BY <1>0, <2>1, <2>3 DEF OriginOK
  <2>4. ASSUME db'[b] # Gone PROVE Given(b, db[b])'
    <3>1. CASE b = a
      BY <1>1, <2>4, <3>1 DEF Given
    <3>2. CASE b # a
      <4>1. Given(b, db[b]) /\ db'[b] = db[b]
        BY <1>0, <2>4, <3>2 DEF OriginOK, Live
      <4> QED BY <1>0, <2>1, <4>1 DEF Given
    <3> QED BY <3>1, <3>2
  <2> QED BY <2>2, <2>3, <2>4
<1> QED BY <1>3, <1>4, <1>5 DEF BooksOK

LEMMA DeleteBooks ==
  ASSUME CacheInv, StateTyped, BooksOK, NEW r \in Reqs, Delete(r)
  PROVE  BooksOK'
<1>1. ~Find(r) /\ Request(r) /\ UNCHANGED <<turned, asked>> /\ db' = [db EXCEPT ![ask[r].asset] = Gone]
  BY DEF Delete, Find, Request
<1>2. ~Learns
  BY <1>1, RequestLearns
<1>3. \A b \in Assets : db'[b] # Gone => Live(b) /\ db'[b] = db[b]
  BY <1>1 DEF StateTyped, Live
<1>4. FreshOK'
  BY <1>2, <1>3 DEF BooksOK, FreshOK, Learns, Live
<1>5. KindOK'
  BY <1>1, <1>2, <1>3 DEF BooksOK, KindOK, Learns, Live
<1>6. OriginOK'
  <2>1. \A b \in Assets : \A d : Given(b, d)' = Given(b, d)
    BY <1>1 DEF Given
  <2> QED BY <1>1, <1>2, <1>3, <2>1 DEF BooksOK, OriginOK, Learns, Live
<1> QED BY <1>4, <1>5, <1>6 DEF BooksOK

(* What a pass writes: the value, and own holdings as it listed them. *)
LEMMA RevalueDoc ==
  ASSUME CacheInv, StateTyped, NEW f \in Feeds, Revalue(f), Live(at[f])
  PROVE  LET a == at[f]  l == listed[f][a]  p == Revaluation(l, seen[f]) IN
         /\ db'[a] = Set(db[a], p) /\ db[a] \in Doc /\ db'[a] \in Doc
         /\ db'[a].kind = db[a].kind /\ db'[a].cash = db[a].cash
         /\ \A i \in Items :
              IF Stamped(l.kind) /\ i \in Of(l.kind)
              THEN /\ db'[a].units[i] = l.units[i]
                   /\ db'[a].stamp[i] = IF l.units[i] > 0 THEN seen[f][i] ELSE 0
              ELSE db'[a].units[i] = db[a].units[i] /\ db'[a].stamp[i] = db[a].stamp[i]
         /\ Total(l.kind, l.units, l.cash, seen[f]) \in Nat
         /\ Worth(l.kind, l.units, seen[f]) \in Nat
         /\ db'[a].usd = IF InDollars(l.kind) THEN Total(l.kind, l.units, l.cash, seen[f]) ELSE db[a].usd
         /\ db'[a].value = IF InDollars(l.kind) THEN Total(l.kind, l.units, l.cash, seen[f]) * seen[f][USD]
                           ELSE IF l.kind = "travel_points" THEN l.usd * seen[f][USD]
                           ELSE Total(l.kind, l.units, l.cash, seen[f])
<1> DEFINE a == at[f]
           l == listed[f][a]
           p == Revaluation(l, seen[f])
           sum == Total(l.kind, l.units, l.cash, seen[f])
<1>1. /\ a \in Assets /\ l \in Doc /\ p \in Update
      /\ \A i \in HeldOf(l.kind, l.units) : i \in Items /\ seen[f][i] \in Nat /\ seen[f][i] \in Prices
      /\ seen[f][USD] \in Nat
  BY RevaluedTyped
<1>2. db \in [Assets -> Doc \cup {Gone}] /\ db[a] \in Doc
  BY <1>1 DEF StateTyped, Live
<1>3. db'[a] = Set(db[a], p)
  <2>1. db' = [db EXCEPT ![a] = Set(db[a], p)]
    BY DEF Revalue
  <2> HIDE DEF p, a
  <2> QED BY <1>1, <1>2, <2>1
<1>4. Worth(l.kind, l.units, seen[f]) \in Nat
  BY <1>1, WorthNat DEF Doc
<1>5. sum \in Nat /\ sum * seen[f][USD] \in Nat /\ l.usd * seen[f][USD] \in Nat
  <2>1. sum \in Nat
    BY <1>1, <1>4 DEF Total, Doc
  <2> HIDE DEF sum
  <2> QED BY <1>1, <2>1 DEF Doc
<1>6. /\ p.kind = Unset /\ p.cash = Unset
      /\ p.usd = IF InDollars(l.kind) THEN sum ELSE Unset
      /\ p.value = IF InDollars(l.kind) THEN sum * seen[f][USD]
                   ELSE IF l.kind = "travel_points" THEN l.usd * seen[f][USD] ELSE sum
      /\ \A i \in Items :
           IF Stamped(l.kind) /\ i \in Of(l.kind)
           THEN p.units[i] = l.units[i] /\ p.stamp[i] = IF l.units[i] > 0 THEN seen[f][i] ELSE 0
           ELSE p.units[i] = Unset /\ p.stamp[i] = Unset
  <2> HIDE DEF sum, l
  <2> QED BY DEF Revaluation, sum
<1>7. \A i \in Items : Stamped(l.kind) /\ i \in Of(l.kind) =>
        /\ l.units[i] \in Nat
        /\ (IF l.units[i] > 0 THEN seen[f][i] ELSE 0) \in Nat
  BY <1>1 DEF Doc, HeldOf
<1> HIDE DEF p, l, a, sum
<1>8. /\ db'[a] \in Doc /\ db'[a].kind = Or(p.kind, db[a].kind) /\ db'[a].cash = Or(p.cash, db[a].cash)
      /\ db'[a].usd = Or(p.usd, db[a].usd) /\ db'[a].value = Or(p.value, db[a].value)
      /\ \A i \in Items : /\ db'[a].units[i] = Or(p.units[i], db[a].units[i])
                          /\ db'[a].stamp[i] = Or(p.stamp[i], db[a].stamp[i])
  BY <1>1, <1>2, <1>3, SetDoc
<1>9. /\ db'[a].kind = db[a].kind /\ db'[a].cash = db[a].cash
      /\ db'[a].usd = IF InDollars(l.kind) THEN sum ELSE db[a].usd
      /\ db'[a].value = IF InDollars(l.kind) THEN sum * seen[f][USD]
                        ELSE IF l.kind = "travel_points" THEN l.usd * seen[f][USD] ELSE sum
  BY <1>5, <1>6, <1>8, NamesAssumption DEF Or
<1>10. \A i \in Items :
         IF Stamped(l.kind) /\ i \in Of(l.kind)
         THEN db'[a].units[i] = l.units[i] /\ db'[a].stamp[i] = IF l.units[i] > 0 THEN seen[f][i] ELSE 0
         ELSE db'[a].units[i] = db[a].units[i] /\ db'[a].stamp[i] = db[a].stamp[i]
  BY <1>6, <1>7, <1>8, NamesAssumption DEF Or
<1> QED BY <1>2, <1>3, <1>4, <1>5, <1>8, <1>9, <1>10 DEF a, l, p, sum

(* What a pass leaves alone. *)
LEMMA RevalueFrame ==
  ASSUME CacheInv, StateTyped, NEW f \in Feeds, Revalue(f)
  PROVE  /\ UNCHANGED <<cache, turned, asked, ask>> /\ ~Learns
         /\ \A b \in Assets : db'[b] = db[b] \/ (b = at[f] /\ Live(b))
<1>1. UNCHANGED <<cache, turned, asked, ask>> /\ Pass(f) /\ ~List(f)
  BY DEF Revalue, List, Pass, reqVars
<1>2. \A b \in Assets : db'[b] = db[b] \/ (b = at[f] /\ Live(b))
  BY DEF Revalue, StateTyped
<1> QED BY <1>1, <1>2, PassLearns

LEMMA RevalueBooks ==
  ASSUME CacheInv, StateTyped, BooksOK, NEW f \in Feeds, Revalue(f)
  PROVE  BooksOK'
<1> DEFINE a == at[f]
<1>0. /\ FreshOK /\ KindOK /\ OriginOK /\ ~Learns /\ UNCHANGED <<turned, asked>>
      /\ \A b \in Assets : db'[b] = db[b] \/ (b = a /\ Live(b))
      /\ a \in Assets /\ Listed(f, a) /\ (Live(a) => db[a] \in Doc)
  BY RevalueFrame, RevaluedTyped DEF BooksOK, Listed, StateTyped, Live
<1>1. Live(a) => /\ db'[a] \in Doc /\ db'[a].kind = db[a].kind /\ db'[a].cash = db[a].cash
                 /\ listed[f][a].kind = "crypto" => \A i \in Items : db'[a].units[i] = db[a].units[i]
  <2>1. ~Stamped("crypto")
    BY DEF Stamped
  <2> QED BY <2>1, RevalueDoc
<1> HIDE DEF a
<1>2. \A b \in Assets : db'[b] # Gone => Live(b) /\ db'[b].kind = db[b].kind /\ db'[b].cash = db[b].cash
  BY <1>0, <1>1 DEF Live
<1>3. \A b \in Assets : Live(b) => db'[b] # Gone
  BY <1>0, <1>1, NamesAssumption DEF Live
<1>4. FreshOK'
  BY <1>0, <1>2 DEF FreshOK, Learns, Live
<1>5. KindOK'
  BY <1>0, <1>2 DEF KindOK, Learns, Live
<1>6. OriginOK'
  <2>1. \A b \in Assets : \A d : Given(b, d)' = Given(b, d)
    BY <1>0 DEF Given
  <2>2. ASSUME NEW b \in Assets, db'[b] # Gone PROVE Given(b, db'[b])
    <3>1. Given(b, db[b])
      BY <1>0, <1>2, <2>2 DEF OriginOK
    <3>2. CASE db'[b] = db[b]
      BY <3>1, <3>2
    <3>3. CASE b = a /\ Live(b) /\ a \notin turned /\ db'[b].kind = "crypto"
      <4>1. listed[f][a].kind = "crypto"
        BY <1>0, <1>1, <3>3 DEF KindOK
      <4>2. db'[a].units = db[a].units
        BY <1>0, <1>1, <3>3, <4>1 DEF Doc
      <4> QED BY <1>1, <3>1, <3>3, <4>2 DEF Given
    <3>4. CASE b = a /\ Live(b) /\ ~(a \notin turned /\ db'[b].kind = "crypto")
      BY <1>1, <3>1, <3>4 DEF Given
    <3> QED BY <1>0, <3>2, <3>3, <3>4
  <2>3. \A b \in Assets : db'[b] # Gone => Given(b, db[b])'
    BY <1>0, <2>2 DEF Given
  <2> QED BY <1>0, <2>1, <2>3 DEF OriginOK, Learns, Live
<1> QED BY <1>4, <1>5, <1>6 DEF BooksOK

LEMMA StepBooks == CacheInv /\ StateTyped /\ PlannedOK /\ BooksOK /\ [Next]_vars => BooksOK'
<1> SUFFICES ASSUME CacheInv, StateTyped, PlannedOK, BooksOK, [Next]_vars PROVE BooksOK'
  OBVIOUS
<1>1. ASSUME NEW r \in Reqs, Request(r) PROVE BooksOK'
  <2>1. CASE Find(r) \/ Write(r) \/ Delete(r)
    BY <2>1, FindBooks, WriteBooks, DeleteBooks
  <2>2. CASE ~(Find(r) \/ Write(r) \/ Delete(r))
    <3>1. UNCHANGED <<db, turned, asked>>
      BY <1>1, <2>2 DEF Request, Check, LookUp, Miss, CacheIt, Compute, ReqFails
    <3> QED BY <1>1, <2>2, <3>1, RequestLearns, QuietBooks
  <2> QED BY <2>1, <2>2
<1>2. ASSUME NEW f \in Feeds, Pass(f) PROVE BooksOK'
  <2>1. CASE List(f) \/ Revalue(f)
    BY <2>1, ListBooks, RevalueBooks
  <2>2. CASE ~(List(f) \/ Revalue(f))
    <3>1. UNCHANGED <<db, turned, asked>>
      BY <1>2, <2>2 DEF Pass, PassBegins, Fetch, FetchFails, Fetched, Take, Consult,
                        ValueFails, NextLoop, PassEnds, PassFails, Over
    <3> QED BY <1>2, <2>2, <3>1, PassLearns, QuietBooks
  <2> QED BY <2>1, <2>2
<1>3. CASE RateMoves \/ Crash \/ UNCHANGED vars
  <2>1. UNCHANGED <<db, turned, asked>>
    BY <1>3 DEF RateMoves, Crash, vars
  <2> QED BY <1>3, <2>1, OthersLearn, QuietBooks
<1> QED BY <1>1, <1>2, <1>3 DEF Next

-----------------------------------------------------------------------------
(* A portfolio as it is written by a request: holdings, prices and value   *)
(* are of the same lookup.                                                 *)
LEMMA WrittenDoc ==
  ASSUME CacheInv, StateTyped, PlannedOK, BooksOK, NEW r \in Reqs, Write(r), NEW a \in Assets,
         a = ask[r].asset, db'[a] # Gone, a \notin turned', db'[a].kind \in PricedKinds
  PROVE  /\ db'[a].kind = Kind(r)
         /\ \A i \in Of(Kind(r)) : db'[a].units[i] = Merged(r)[i]
         /\ Stamped(Kind(r)) => \A i \in HeldOf(Kind(r), Merged(r)) : db'[a].stamp[i] = got[r][i]
         /\ \A i \in HeldOf(Kind(r), Merged(r)) : got[r][i] \in Prices
         /\ Worth(Kind(r), Merged(r), got[r]) \in Nat
         /\ InDollars(Kind(r)) =>
              /\ db'[a].usd = Total(Kind(r), Merged(r), Cash(r), got[r])
              /\ Quoted(db'[a].value, db'[a].usd)
         /\ ~InDollars(Kind(r)) => db'[a].value = Total(Kind(r), Merged(r), Cash(r), got[r])
         /\ \E x \in asked'[a] : x[2] = Cash(r)
         /\ <<db'[a].units, db'[a].cash>> \in asked'[a]
<1> DEFINE sum == Total(Kind(r), Merged(r), Cash(r), got[r])
           held == HeldOf(Kind(r), Merged(r))
<1>1. PICK base \in Doc : /\ db'[a] = Set(base, plan[r]) /\ plan[r] \in Update
                          /\ asked'[a] = asked[a] \cup {<<db'[a].units, db'[a].cash>>}
                          /\ \/ ask[r].act = "create"
                             \/ Updates(r, a)
  BY WriteDoc
<1>2. PICK rate \in Quotes \cup {Fallback} : plan[r] = Plan(r, rate)
  BY DEF Write, PlannedOK, Planned
<1>3. db'[a].kind = Kind(r) /\ Kind(r) \in PricedKinds
  BY WriteKind
<1>4. found[r] \in Doc /\ got[r] \in [Items -> Prices]
  BY DEF Write, StateTyped, ReqTyped, Busy
<1>5. rate \in Nat
  BY KindsOf
<1>6. Merged(r) \in [Items -> Nat] /\ Cash(r) \in Nat
  BY <1>4, MergedTyped
<1>7. sum \in Nat /\ Worth(Kind(r), Merged(r), got[r]) \in Nat
  BY <1>4, <1>5, PlanTyped
<1>8. sum * rate \in Nat
  <2> HIDE DEF sum
  <2> QED BY <1>5, <1>7
<1>9. \A i \in Of(Kind(r)) : i \in Items
  BY KindsOf
<1>10. \A i \in Of(Kind(r)) : plan[r].units[i] = Merged(r)[i]
  BY <1>2, <1>3, <1>9 DEF Plan, SetUnits
<1>11. Stamped(Kind(r)) => \A i \in held : plan[r].stamp[i] = got[r][i]
  <2>1. \A i \in held : i \in Of(Kind(r))
    BY DEF HeldOf
  <2>2. \A i \in held : SetUnits(r)[i] = Merged(r)[i]
    BY <1>3, <1>9, <2>1 DEF SetUnits
  <2>3. \A i \in held : SetUnits(r)[i] # Unset
    BY <1>6, <1>9, <2>1, <2>2, UnsetNot
  <2> QED BY <1>2, <1>9, <2>1, <2>3 DEF Plan, SetStamps
<1>12. /\ InDollars(Kind(r)) => plan[r].usd = sum /\ plan[r].value = sum * rate
       /\ ~InDollars(Kind(r)) => plan[r].value = sum
       /\ plan[r].cash = ask[r].cash
  <2> HIDE DEF sum
  <2> QED BY <1>2, <1>3 DEF Plan, sum
<1>13. \A i \in held : got[r][i] \in Prices /\ got[r][i] \in Nat /\ i \in Items
  BY <1>4, <1>9, KindsOf DEF HeldOf
<1> HIDE DEF sum, held
<1>14. \A i \in Of(Kind(r)) : db'[a].units[i] = Merged(r)[i]
  BY <1>1, <1>6, <1>9, <1>10, SetDoc, UnsetNot
<1>15. Stamped(Kind(r)) => \A i \in held : db'[a].stamp[i] = got[r][i]
  BY <1>1, <1>11, <1>13, SetDoc, UnsetNot
<1>16. /\ InDollars(Kind(r)) => db'[a].usd = sum /\ db'[a].value = sum * rate
       /\ ~InDollars(Kind(r)) => db'[a].value = sum
       /\ db'[a].cash = Or(ask[r].cash, base.cash)
  BY <1>1, <1>7, <1>8, <1>12, SetDoc, UnsetNot
<1>17. InDollars(Kind(r)) => Quoted(db'[a].value, db'[a].usd)
  BY <1>16 DEF Quoted
<1>18. \E x \in asked'[a] : x[2] = Cash(r)
  <2>1. CASE ask[r].cash # Unset
    <3>1. db'[a].cash = Cash(r)
      BY <1>16, <2>1 DEF Cash, Or
    <3>2. <<db'[a].units, db'[a].cash>>[2] = Cash(r)
      BY <3>1
    <3> QED BY <1>1, <3>2
  <2>2. CASE ask[r].cash = Unset
    <3>1. Cash(r) = found[r].cash
      BY <2>2 DEF Cash, Or
    <3>2. ask[r].act # "create"
      BY <2>2, UnsetNot DEF StateTyped, Complete
    <3>3. \E x \in asked[a] : x[2] = found[r].cash
      BY <1>1, <3>2 DEF BooksOK, OriginOK
    <3> QED BY <1>1, <3>1, <3>3
  <2> QED BY <2>1, <2>2
<1> QED BY <1>1, <1>3, <1>7, <1>13, <1>14, <1>15, <1>16, <1>17, <1>18 DEF sum, held

(* Which kinds are stamped, and what their totals are. *)
LEMMA StampedKinds ==
  /\ \A kind : Stamped(kind) => kind \in PricedKinds /\ (InDollars(kind) <=> kind = "us_stocks")
                                /\ kind # "travel_points"
  /\ "crypto" \in PricedKinds /\ InDollars("crypto") /\ ~Stamped("crypto")
  /\ \A kind, units, cash, price :
       Worth(kind, units, price) \in Nat /\ kind # "us_stocks" =>
         Total(kind, units, cash, price) = Worth(kind, units, price)
  /\ \A units, cash, price :
       Total("us_stocks", units, cash, price) = Worth("us_stocks", units, price) + cash
<1>1. \A kind, units, cash, price :
        Worth(kind, units, price) \in Nat /\ kind # "us_stocks" =>
          Total(kind, units, cash, price) = Worth(kind, units, price)
  <2> SUFFICES ASSUME NEW kind, NEW units, NEW cash, NEW price,
                      Worth(kind, units, price) \in Nat, kind # "us_stocks"
               PROVE  Total(kind, units, cash, price) = Worth(kind, units, price)
    OBVIOUS
  <2>1. Total(kind, units, cash, price) = Worth(kind, units, price) + 0
    BY DEF Total
  <2> QED BY <2>1
<1>2. \A units, cash, price :
        Total("us_stocks", units, cash, price) = Worth("us_stocks", units, price) + cash
  BY DEF Total
<1> QED BY <1>1, <1>2 DEF Stamped, InDollars, PricedKinds

(* A request writes what its prices explain, and coins in full. *)
LEMMA WriteExplained ==
  ASSUME CacheInv, StateTyped, PlannedOK, BooksOK, NEW r \in Reqs, Write(r), NEW a \in Assets,
         a = ask[r].asset, db'[a] # Gone, a \notin turned', Stamped(db'[a].kind)
  PROVE  Explained(db'[a], asked'[a])
<1> DEFINE d == db'[a]
           k == Kind(r)
<1>1. /\ d.kind = k
      /\ \A i \in Of(k) : d.units[i] = Merged(r)[i]
      /\ Stamped(k) => \A i \in HeldOf(k, Merged(r)) : d.stamp[i] = got[r][i]
      /\ \A i \in HeldOf(k, Merged(r)) : got[r][i] \in Prices
      /\ Worth(k, Merged(r), got[r]) \in Nat
      /\ InDollars(k) => d.usd = Total(k, Merged(r), Cash(r), got[r]) /\ Quoted(d.value, d.usd)
      /\ ~InDollars(k) => d.value = Total(k, Merged(r), Cash(r), got[r])
      /\ \E x \in asked'[a] : x[2] = Cash(r)
  BY WrittenDoc, StampedKinds
<1> HIDE DEF d, k
<1>2. Stamped(k)
  BY <1>1 DEF d
<1>3. HeldOf(k, d.units) = HeldOf(k, Merged(r)) /\ Worth(k, d.units, d.stamp) = Worth(k, Merged(r), got[r])
  BY <1>1, <1>2, WorthSame
<1>4. \A i \in HeldOf(k, d.units) : d.stamp[i] > 0
  <2>1. \A p \in Prices : p > 0
    BY PricesPositive
  <2> QED BY <1>1, <1>2, <1>3, <2>1
<1>5. CASE InDollars(k)
  <2>1. k = "us_stocks"
    BY <1>2, <1>5, StampedKinds
  <2>2. d.usd = Worth(k, d.units, d.stamp) + Cash(r)
    BY <1>1, <1>3, <1>5, <2>1, StampedKinds
  <2> QED BY <1>1, <1>4, <1>5, <2>2 DEF Explained, d
<1>6. CASE ~InDollars(k)
  <2>1. k # "us_stocks"
    BY <1>6 DEF InDollars
  <2>2. d.value = Worth(k, d.units, d.stamp)
    BY <1>1, <1>3, <1>6, <2>1, StampedKinds
  <2> QED BY <1>1, <1>4, <1>6, <2>2 DEF Explained, d
<1> QED BY <1>5, <1>6

(* At prices that sources gave, whatever the rest is valued at. *)
LEMMA QuotesFor ==
  ASSUME NEW units, NEW price, \A i \in HeldOf("crypto", units) : price[i] \in Quotes
  PROVE  \E p \in [Coins -> Quotes] : Worth("crypto", units, price) = Worth("crypto", units, p)
<1>1. PICK q \in Quotes : TRUE
  BY NamesAssumption
<1> DEFINE p == [i \in Coins |-> IF i \in HeldOf("crypto", units) THEN price[i] ELSE q]
<1>2. p \in [Coins -> Quotes]
  OBVIOUS
<1>3. \A i \in HeldOf("crypto", units) : p[i] = price[i]
  BY KindsOf DEF HeldOf
<1> HIDE DEF p
<1>4. Worth("crypto", units, p) = Worth("crypto", units, price)
  BY <1>3, WorthSame
<1> QED BY <1>2, <1>4

LEMMA WriteFull ==
  ASSUME CacheInv, StateTyped, PlannedOK, BooksOK, NEW r \in Reqs, Write(r), NEW a \in Assets,
         a = ask[r].asset, db'[a] # Gone, a \notin turned', db'[a].kind = "crypto"
  PROVE  Full(db'[a], asked'[a])
<1> DEFINE d == db'[a]
<1>1. /\ Kind(r) = "crypto"
      /\ \A i \in Of("crypto") : d.units[i] = Merged(r)[i]
      /\ Worth("crypto", Merged(r), got[r]) \in Nat
      /\ d.usd = Total("crypto", Merged(r), Cash(r), got[r]) /\ Quoted(d.value, d.usd)
      /\ <<d.units, d.cash>> \in asked'[a]
  BY WrittenDoc, StampedKinds
<1>2. \A i \in HeldOf("crypto", Merged(r)) : got[r][i] \in Quotes
  BY <1>1, KindsOf DEF PlannedOK, Planned, Write, HeldOf
<1>3. PICK p \in [Coins -> Quotes] : Worth("crypto", Merged(r), got[r]) = Worth("crypto", Merged(r), p)
  BY <1>2, QuotesFor
<1> HIDE DEF d
<1>4. Worth("crypto", d.units, p) = Worth("crypto", Merged(r), p)
  BY <1>1, WorthSame
<1>5. d.usd = Worth("crypto", d.units, p)
  BY <1>1, <1>3, <1>4, StampedKinds
<1>6. \E x \in asked'[a] : x[1] = d.units
  BY <1>1
<1> QED BY <1>1, <1>5, <1>6 DEF Full, d

(* So does a pass. *)
LEMMA RevalueExplained ==
  ASSUME CacheInv, StateTyped, BooksOK, NEW f \in Feeds, Revalue(f),
         Live(at[f]), at[f] \notin turned, Stamped(db[at[f]].kind)
  PROVE  Explained(db'[at[f]], asked'[at[f]])
<1> DEFINE a == at[f]
           l == listed[f][a]
           d == db'[a]
           k == l.kind
<1>1. /\ a \in Assets /\ Listed(f, a) /\ seen[f][USD] \in Quotes \cup {Fallback}
      /\ \A i \in HeldOf(k, l.units) : seen[f][i] \in Prices
  BY RevaluedTyped DEF Listed
<1>2. k = db[a].kind /\ Stamped(k) /\ \E x \in asked[a] : x[2] = l.cash
  BY <1>1 DEF BooksOK, KindOK, OriginOK, Given
<1>3. /\ d.kind = db[a].kind
      /\ \A i \in Items :
           Stamped(k) /\ i \in Of(k) => /\ d.units[i] = l.units[i]
                                        /\ d.stamp[i] = IF l.units[i] > 0 THEN seen[f][i] ELSE 0
      /\ Worth(k, l.units, seen[f]) \in Nat
      /\ InDollars(k) => /\ d.usd = Total(k, l.units, l.cash, seen[f])
                         /\ d.value = Total(k, l.units, l.cash, seen[f]) * seen[f][USD]
      /\ ~InDollars(k) /\ k # "travel_points" => d.value = Total(k, l.units, l.cash, seen[f])
  BY RevalueDoc
<1>4. asked'[a] = asked[a]
  BY DEF Revalue
<1> HIDE DEF a, l, d, k
<1>5. d.kind = k
  BY <1>2, <1>3
<1>6. \A i \in Of(k) : d.units[i] = l.units[i]
  BY <1>2, <1>3, KindsOf
<1>7. \A i \in HeldOf(k, l.units) : d.stamp[i] = seen[f][i]
  BY <1>2, <1>3, KindsOf DEF HeldOf
<1>8. HeldOf(k, d.units) = HeldOf(k, l.units) /\ Worth(k, d.units, d.stamp) = Worth(k, l.units, seen[f])
  BY <1>6, <1>7, WorthSame
<1>9. \A i \in HeldOf(k, d.units) : d.stamp[i] > 0
  <2>1. \A p \in Prices : p > 0
    BY PricesPositive
  <2> QED BY <1>1, <1>7, <1>8, <2>1
<1>10. CASE InDollars(k)
  <2>1. k = "us_stocks"
    BY <1>2, <1>10, StampedKinds
  <2>2. d.usd = Worth(k, d.units, d.stamp) + l.cash
    BY <1>3, <1>8, <1>10, <2>1, StampedKinds
  <2>3. Quoted(d.value, d.usd)
    BY <1>1, <1>3, <1>10 DEF Quoted
  <2>4. Explained(d, asked'[a])
    BY <1>2, <1>4, <1>5, <1>9, <1>10, <2>2, <2>3 DEF Explained
  <2> QED BY <2>4 DEF d, a
<1>11. CASE ~InDollars(k)
  <2>1. k # "us_stocks" /\ k # "travel_points"
    BY <1>2, <1>11, StampedKinds DEF InDollars
  <2>2. d.value = Worth(k, d.units, d.stamp)
    BY <1>3, <1>8, <1>11, <2>1, StampedKinds
  <2>3. Explained(d, asked'[a])
    BY <1>5, <1>9, <1>11, <2>2 DEF Explained
  <2> QED BY <2>3 DEF d, a
<1> QED BY <1>10, <1>11

LEMMA RevalueFull ==
  ASSUME CacheInv, StateTyped, BooksOK, NEW f \in Feeds, Revalue(f),
         Live(at[f]), at[f] \notin turned, db[at[f]].kind = "crypto"
  PROVE  Full(db'[at[f]], asked'[at[f]])
<1> DEFINE a == at[f]
           l == listed[f][a]
           d == db'[a]
<1>1. /\ a \in Assets /\ Listed(f, a) /\ seen[f][USD] \in Quotes \cup {Fallback}
      /\ \A i \in HeldOf(l.kind, l.units) : seen[f][i] \in Nat
  BY RevaluedTyped DEF Listed
<1>2. l.kind = "crypto" /\ <<l.units, l.cash>> \in asked[a]
  <2>1. l.kind = "crypto"
    BY <1>1 DEF BooksOK, KindOK
  <2>2. Given(a, l)
    BY <1>1 DEF BooksOK, OriginOK
  <2> QED BY <2>1, <2>2 DEF Given
<1>3. /\ d.usd = Total("crypto", l.units, l.cash, seen[f])
      /\ d.value = Total("crypto", l.units, l.cash, seen[f]) * seen[f][USD]
      /\ Worth("crypto", l.units, seen[f]) \in Nat
  BY <1>2, RevalueDoc, StampedKinds
<1>4. asked'[a] = asked[a]
  BY DEF Revalue
<1>5. Sourced(seen[f])
  BY RevaluedTyped DEF StateTyped, PassTyped
<1> HIDE DEF a, l, d
<1>6. \A i \in HeldOf("crypto", l.units) : seen[f][i] \in Quotes
  BY <1>1, <1>2, <1>5, CoinRows, KindsOf DEF HeldOf
<1>7. PICK p \in [Coins -> Quotes] : Worth("crypto", l.units, seen[f]) = Worth("crypto", l.units, p)
  BY <1>6, QuotesFor
<1>8. d.usd = Worth("crypto", l.units, p)
  BY <1>3, <1>7, StampedKinds
<1>9. Quoted(d.value, d.usd)
  BY <1>1, <1>3 DEF Quoted
<1>10. \E x \in asked'[a] : x[1] = l.units
  BY <1>2, <1>4
<1>11. Full(d, asked'[a])
  BY <1>8, <1>9, <1>10 DEF Full
<1> QED BY <1>11 DEF d, a

(* Holdings, prices and values belong together. *)
Valued == StampsExplainValue /\ FullValuation

LEMMA StepValued ==
  CacheInv /\ StateTyped /\ PlannedOK /\ BooksOK /\ Valued /\ [Next]_vars => Valued'
<1> SUFFICES ASSUME CacheInv, StateTyped, PlannedOK, BooksOK, Valued, [Next]_vars,
                    NEW a \in Assets, a \notin turned', db'[a] # Gone
             PROVE  /\ Stamped(db'[a].kind) => Explained(db'[a], asked'[a])
                    /\ db'[a].kind = "crypto" => Full(db'[a], asked'[a])
  BY DEF Valued, StampsExplainValue, FullValuation, Live
<1>1. ASSUME db'[a] = db[a], asked[a] \subseteq asked'[a], turned \subseteq turned'
      PROVE  /\ Stamped(db'[a].kind) => Explained(db'[a], asked'[a])
             /\ db'[a].kind = "crypto" => Full(db'[a], asked'[a])
  <2>1. /\ Stamped(db[a].kind) => Explained(db[a], asked[a])
        /\ db[a].kind = "crypto" => Full(db[a], asked[a])
    BY <1>1 DEF Valued, StampsExplainValue, FullValuation, Live
  <2>2. \A d : Explained(d, asked[a]) => Explained(d, asked'[a])
    BY <1>1 DEF Explained
  <2>3. \A d : Full(d, asked[a]) => Full(d, asked'[a])
    BY <1>1 DEF Full
  <2> QED BY <1>1, <2>1, <2>2, <2>3
<1>2. CASE \E r \in Reqs : Request(r)
  <2>1. PICK r \in Reqs : Request(r)
    BY <1>2
  <2>2. CASE Write(r) /\ a = ask[r].asset
    BY <2>2, WriteExplained, WriteFull
  <2>3. CASE Write(r) /\ a # ask[r].asset
    BY <1>1, <2>3, WriteFrame
  <2>4. CASE Delete(r)
    BY <1>1, <2>4 DEF Delete, StateTyped
  <2>5. CASE ~(Write(r) \/ Delete(r))
    BY <1>1, <2>1, <2>5 DEF Request, Find, Check, LookUp, Miss, CacheIt, Compute, ReqFails
  <2> QED BY <2>2, <2>3, <2>4, <2>5
<1>3. CASE \E f \in Feeds : Pass(f)
  <2>1. PICK f \in Feeds : Pass(f)
    BY <1>3
  <2>2. CASE Revalue(f) /\ a = at[f] /\ Live(a)
    <3>1. db'[a].kind = db[a].kind /\ a \notin turned
      BY <2>2, RevalueDoc, RevalueFrame
    <3> QED BY <2>2, <3>1, RevalueExplained, RevalueFull
  <2>3. CASE Revalue(f) /\ ~(a = at[f] /\ Live(a))
    BY <1>1, <2>3, RevalueFrame
  <2>4. CASE ~Revalue(f)
    BY <1>1, <2>1, <2>4 DEF Pass, PassBegins, Fetch, FetchFails, Fetched, List, Take, Consult,
                            ValueFails, NextLoop, PassEnds, PassFails, Over
  <2> QED BY <2>2, <2>3, <2>4
<1>4. CASE RateMoves \/ Crash \/ UNCHANGED vars
  BY <1>1, <1>4 DEF RateMoves, Crash, vars
<1> QED BY <1>2, <1>3, <1>4 DEF Next

LEMMA InitBooks == Init => PlannedOK /\ BooksOK /\ Valued
<1> SUFFICES ASSUME Init PROVE PlannedOK /\ BooksOK /\ Valued
  OBVIOUS
<1>1. PICK s \in Settings : db = s.db /\ cache = s.cache /\ ask = s.ask /\ left = s.left
  BY DEF Init
<1>2. /\ \A a \in Assets : db[a] # Gone =>
           /\ Stamped(db[a].kind) => Explained(db[a], {<<db[a].units, db[a].cash>>})
           /\ db[a].kind = "crypto" => Full(db[a], {<<db[a].units, db[a].cash>>})
      /\ \A r \in Reqs : ask[r].act = "create" => db[ask[r].asset] = Gone
  BY <1>1, SettingsAssumption DEF AsksOK
<1>3. /\ \A a \in Assets : Live(a) => asked[a] = {<<db[a].units, db[a].cash>>}
      /\ \A r \in Reqs : pc[r] = "idle"
      /\ \A f \in Feeds : stage[f] = "off"
  BY DEF Init
<1>4. PlannedOK
  BY <1>3 DEF PlannedOK, Planned, Busy
<1>5. FreshOK
  BY <1>2, <1>3 DEF FreshOK, Fresh, Live, Listed, Updates, Busy
<1>6. KindOK
  BY <1>3 DEF KindOK, Listed, Updates, Busy
<1>7. OriginOK
  <2>1. \A a \in Assets : Live(a) => Given(a, db[a])
    BY <1>3 DEF Given
  <2> QED BY <1>3, <2>1 DEF OriginOK, Listed, Updates, Busy
<1>8. Valued
  BY <1>2, <1>3 DEF Valued, StampsExplainValue, FullValuation, Live
<1> QED BY <1>4, <1>5, <1>6, <1>7, <1>8 DEF BooksOK

LEMMA BooksInvariant == Spec => [](PlannedOK /\ BooksOK /\ Valued)
<1>1. Init => PlannedOK /\ BooksOK /\ Valued
  BY InitBooks
<1>2. CacheInv /\ StateTyped /\ PlannedOK /\ BooksOK /\ Valued /\ [Next]_vars
        => (PlannedOK /\ BooksOK /\ Valued)'
  BY StepPlanned, StepBooks, StepValued
<1> QED BY <1>1, <1>2, TypedInvariant, PTL DEF Spec

(***************************************************************************)
(* The prices a portfolio shows explain its value, whatever edits, passes  *)
(* over old listings, failures and crashes come in between.                *)
(***************************************************************************)
THEOREM StampsExplain == Spec => []StampsExplainValue
<1>1. Valued => StampsExplainValue
  BY DEF Valued
<1> QED BY <1>1, BooksInvariant, PTL

(***************************************************************************)
(* A portfolio of coins is never stored at less than all of its coins, at  *)
(* prices their sources gave.                                              *)
(***************************************************************************)
THEOREM ValuationIsFull == Spec => []FullValuation
<1>1. Valued => FullValuation
  BY DEF Valued
<1> QED BY <1>1, BooksInvariant, PTL

-----------------------------------------------------------------------------
(* A pass that is calm has read the prices as they are ... *)
InStep(f) ==
  \A i \in Items : seen[f][i] = cache[i] \/ (InDollars(f) /\ i \in Of(f) /\ seen[f][i] = Missing)

(* ... and is done with the assets of its loops but for those it has still *)
(* to value, which are as it listed them.                                  *)
Waiting(f) == todo[f] \cup ({at[f]} \ {Gone})

Done(a) == Live(a) /\ Priceable(db[a]) => Settled(db[a])

(* How far a calm pass has got. *)
Settling(f) ==
  /\ InStep(f)
  /\ \A a \in Assets, n \in DOMAIN Loops(f) :
       n < loop[f] /\ Live(a) /\ db[a].kind = Loops(f)[n] => Done(a)
  /\ stage[f] = "value" =>
       /\ at[f] \notin todo[f]
       /\ \A a \in Assets : Live(a) /\ db[a].kind = Prime(f) /\ a \notin Waiting(f) => Done(a)
       /\ \A a \in Waiting(f) : db[a] = listed[f][a]

CalmOK == \A f \in Feeds : calm[f] /\ stage[f] \in {"list", "value"} => Settling(f)

(* What Settling(f) reads. *)
Reads(f) == <<cache, db, loop[f], stage[f], at[f], todo[f], listed[f], seen[f]>>

LEMMA SettlingSame ==
  ASSUME NEW f \in Feeds, Settling(f), UNCHANGED Reads(f)
  PROVE  Settling(f)'
<1>1. \A a \in Assets : Done(a)' = Done(a)
  BY DEF Reads, Done, Live, Priceable, Empty, Usable, Settled
<1>2. InStep(f)'
  BY DEF Reads, Settling, InStep
<1>3. Waiting(f)' = Waiting(f) /\ Prime(f)' = Prime(f) /\ \A a \in Assets : Live(a)' = Live(a)
  BY DEF Reads, Waiting, Prime, Live
<1> QED BY <1>1, <1>2, <1>3 DEF Settling, Reads

(* The steps of a calm pass. *)
LEMMA FetchedSettling ==
  ASSUME CacheInv, StateTyped, NEW f \in Feeds, Fetched(f)
  PROVE  Settling(f)'
<1>1. /\ stage'[f] = "list" /\ loop'[f] = 1 /\ seen'[f] = cache /\ cache' = cache
  BY DEF Fetched, At, StateTyped, PassTyped, CacheInv, FlowOK, Shape
<1>2. DOMAIN Loops(f) \subseteq {1, 2}
  BY LoopsOf DEF Feeds
<1>3. \A n \in DOMAIN Loops(f) : ~(n < loop'[f])
  BY <1>1, <1>2
<1> QED BY <1>1, <1>3 DEF Settling, InStep

LEMMA ListSettling ==
  ASSUME CacheInv, StateTyped, NEW f \in Feeds, List(f), calm'[f], CalmOK
  PROVE  Settling(f)'
<1> DEFINE docs == Listing(Loops(f)[loop[f]])
<1>0. /\ PassTyped(f) /\ stage[f] = "list" /\ cache' = cache /\ db' = db /\ loop' = loop /\ at' = at
      /\ todo'[f] = docs /\ listed'[f] = [a \in docs |-> db[a]] /\ stage'[f] = "value"
      /\ calm \in [Feeds -> BOOLEAN]
  BY DEF List, At, StateTyped, Shape, CacheInv, FlowOK
<1>1. calm[f] /\ (InDollars(f) => seen' = [seen EXCEPT ![f][USD] = cache[USD]])
      /\ (~InDollars(f) => seen' = seen)
  BY <1>0 DEF List
<1>2. Settling(f)
  BY <1>0, <1>1 DEF CalmOK
<1>3. InStep(f)'
  <2>1. CASE InDollars(f)
    <3>1. seen'[f] = [seen[f] EXCEPT ![USD] = cache[USD]] /\ seen[f] \in [Items -> Prices \cup {Missing, Unusable}]
      BY <1>0, <1>1, <2>1 DEF StateTyped, Shape, PassTyped
    <3>2. \A i \in Items : seen'[f][i] = IF i = USD THEN cache[USD] ELSE seen[f][i]
      BY <3>1
    <3> QED BY <1>0, <1>2, <3>2 DEF Settling, InStep
  <2>2. CASE ~InDollars(f)
    BY <1>0, <1>1, <1>2, <2>2 DEF Settling, InStep
  <2> QED BY <2>1, <2>2
<1>4. \A a \in Assets : Done(a)' = Done(a) /\ Live(a)' = Live(a)
  BY <1>0 DEF Done, Live, Priceable, Empty, Usable, Settled
<1>5. at'[f] = Gone /\ docs \subseteq Assets /\ Gone \notin docs
  BY <1>0, NamesAssumption DEF PassTyped, Listing
<1>6. Waiting(f)' = docs /\ Prime(f)' = Loops(f)[loop[f]]
  BY <1>0, <1>5 DEF Waiting, Prime
<1>7. \A a \in Assets : Live(a) /\ db[a].kind = Loops(f)[loop[f]] => a \in docs
  BY DEF Listing
<1>8. \A a \in docs : db'[a] = listed'[f][a]
  BY <1>0
<1> HIDE DEF docs
<1> QED BY <1>0, <1>2, <1>3, <1>4, <1>5, <1>6, <1>7, <1>8 DEF Settling

LEMMA TakeSettling ==
  ASSUME CacheInv, StateTyped, NEW f \in Feeds, NEW a \in todo[f], Take(f, a), Settling(f)
  PROVE  Settling(f)'
<1>0. /\ PassTyped(f) /\ stage[f] = "value" /\ UNCHANGED <<cache, db, loop, listed, stage>>
      /\ at[f] = Gone /\ todo'[f] = todo[f] \ {a}
      /\ at'[f] = IF Empty(listed[f][a]) THEN Gone ELSE a
  BY DEF Take, StateTyped, Shape, CacheInv, FlowOK
<1>1. InStep(f)'
  <2>1. InDollars(f) => \A i \in Items : seen'[f][i] = IF i \in Of(f) THEN Missing ELSE seen[f][i]
    BY DEF Take, StateTyped, Shape
  <2>2. ~InDollars(f) => seen' = seen
    BY DEF Take
  <2> QED BY <1>0, <2>1, <2>2 DEF Settling, InStep
<1>2. \A b \in Assets : Done(b)' = Done(b) /\ Live(b)' = Live(b)
  BY <1>0 DEF Done, Live, Priceable, Empty, Usable, Settled
<1>3. todo[f] \subseteq Assets /\ Gone \notin todo[f] /\ a \in Assets /\ a # Gone
  BY <1>0, NamesAssumption DEF PassTyped
<1>4. /\ Waiting(f) = todo[f] /\ Waiting(f)' \subseteq todo[f] /\ at'[f] \notin todo'[f]
      /\ \A b \in todo[f] : b \in Waiting(f)' \/ (b = a /\ Empty(listed[f][a]))
      /\ Prime(f)' = Prime(f)
  BY <1>0, <1>3 DEF Waiting, Prime
<1>5. Empty(listed[f][a]) => Done(a)
  BY <1>0, <1>4 DEF Settling, Done, Priceable
<1>6. stage'[f] = "value" /\ \A b \in Waiting(f)' : db'[b] = listed'[f][b]
  BY <1>0, <1>4 DEF Settling
<1>7. \A b \in Assets : Live(b) /\ db[b].kind = Prime(f) /\ b \notin Waiting(f)' => Done(b)
  BY <1>0, <1>4, <1>5 DEF Settling
<1>8. \A b \in Assets, n \in DOMAIN Loops(f) : n < loop[f] /\ Live(b) /\ db[b].kind = Loops(f)[n] => Done(b)
  BY DEF Settling
<1> QED BY <1>0, <1>1, <1>2, <1>4, <1>6, <1>7, <1>8 DEF Settling

LEMMA ConsultSettling ==
  ASSUME CacheInv, StateTyped, NEW f \in Feeds, NEW i \in Items, Consult(f, i), Settling(f)
  PROVE  Settling(f)'
<1>0. /\ PassTyped(f) /\ stage[f] = "value" /\ UNCHANGED <<cache, db, loop, listed, stage, todo>>
      /\ at[f] # Gone /\ i \in Unread(f)
  BY DEF Consult, StateTyped
<1>1. \A b \in Assets : Done(b)' = Done(b) /\ Live(b)' = Live(b)
  BY <1>0 DEF Done, Live, Priceable, Empty, Usable, Settled
<1>2. CASE Usable(i)
  <2>1. at' = at /\ seen' = [seen EXCEPT ![f][i] = cache[i]]
    BY <1>2 DEF Consult
  <2>2. seen[f] \in [Items -> Prices \cup {Missing, Unusable}] /\ seen'[f] = [seen[f] EXCEPT ![i] = cache[i]]
    BY <1>0, <2>1 DEF PassTyped, StateTyped, Shape
  <2>3. \A j \in Items : seen'[f][j] = IF j = i THEN cache[i] ELSE seen[f][j]
    BY <2>2
  <2>4. InStep(f)'
    BY <1>0, <2>3 DEF Settling, InStep
  <2>5. Waiting(f)' = Waiting(f) /\ Prime(f)' = Prime(f)
    BY <1>0, <2>1 DEF Waiting, Prime
  <2> QED BY <1>0, <1>1, <2>1, <2>4, <2>5 DEF Settling
<1>3. CASE ~Usable(i)
  <2>1. at'[f] = Gone /\ seen' = seen
    BY <1>3 DEF Consult, StateTyped, Shape
  <2>2. InStep(f)'
    BY <1>0, <2>1 DEF Settling, InStep
  <2>3. todo[f] \subseteq Assets /\ Gone \notin todo[f]
    BY <1>0, NamesAssumption DEF PassTyped
  <2>4. /\ at[f] \in Waiting(f) /\ Waiting(f)' = todo[f] /\ Waiting(f) = todo[f] \cup {at[f]}
        /\ Prime(f)' = Prime(f) /\ at'[f] \notin todo'[f]
    BY <1>0, <2>1, <2>3 DEF Waiting, Prime
  <2>5. Done(at[f])
    <3>1. db[at[f]] = listed[f][at[f]]
      BY <1>0, <2>4 DEF Settling
    <3> QED BY <1>0, <1>3, <3>1 DEF Unread, Done, Priceable
  <2>6. \A b \in Assets : Live(b) /\ db[b].kind = Prime(f) /\ b \notin Waiting(f)' => Done(b)
    BY <1>0, <2>4, <2>5 DEF Settling
  <2>7. \A b \in Waiting(f)' : db'[b] = listed'[f][b]
    BY <1>0, <2>4 DEF Settling
  <2> QED BY <1>0, <1>1, <2>2, <2>4, <2>6, <2>7 DEF Settling
<1> QED BY <1>2, <1>3

LEMMA NextLoopSettling ==
  ASSUME CacheInv, StateTyped, NEW f \in Feeds, NextLoop(f), Settling(f)
  PROVE  Settling(f)'
<1>0. /\ PassTyped(f) /\ stage[f] = "value" /\ UNCHANGED <<cache, db, listed, todo, at, seen>>
      /\ at[f] = Gone /\ todo[f] = {} /\ loop'[f] = loop[f] + 1 /\ stage'[f] = "list"
  BY DEF NextLoop, At, StateTyped, Shape, CacheInv, FlowOK
<1>1. \A b \in Assets : Done(b)' = Done(b) /\ Live(b)' = Live(b)
  BY <1>0 DEF Done, Live, Priceable, Empty, Usable, Settled
<1>2. InStep(f)'
  BY <1>0 DEF Settling, InStep
<1>3. Waiting(f) = {}
  BY <1>0 DEF Waiting
<1>4. DOMAIN Loops(f) \subseteq Nat /\ loop[f] \in Nat
  BY <1>0, LoopsOf DEF PassTyped
<1>5. \A n \in DOMAIN Loops(f) : n < loop'[f] => n < loop[f] \/ n = loop[f]
  BY <1>0, <1>4
<1>6. \A b \in Assets, n \in DOMAIN Loops(f) : n < loop'[f] /\ Live(b) /\ db[b].kind = Loops(f)[n] => Done(b)
  BY <1>0, <1>3, <1>5 DEF Settling, Prime
<1> QED BY <1>0, <1>1, <1>2, <1>6 DEF Settling

(* The portfolio a calm pass writes is at the cached prices. *)
LEMMA RevalueDone ==
  ASSUME CacheInv, StateTyped, NEW f \in Feeds, Revalue(f), Settling(f),
         NEW a \in Assets, a = at[f], Live(a)
  PROVE  Settled(db[a])'
<1> DEFINE l == listed[f][a]
           d == db'[a]
           k == l.kind
           price == seen[f]
<1>1. /\ a \in Assets /\ l \in Doc /\ k = Prime(f) /\ stage[f] = "value" /\ a # Gone
      /\ \A i \in HeldOf(k, l.units) : i \in Items /\ price[i] \in Nat
  BY RevaluedTyped DEF Revalue
<1>2. db[a] = l
  BY <1>1 DEF Settling, Waiting
<1>3. /\ d.kind = k /\ d.cash = l.cash /\ d \in Doc
      /\ \A i \in Items : d.units[i] = l.units[i]
      /\ \A i \in Items : Stamped(k) /\ i \in Of(k) /\ l.units[i] > 0 => d.stamp[i] = price[i]
      /\ d.usd = IF InDollars(k) THEN Total(k, l.units, l.cash, price) ELSE l.usd
      /\ d.value = IF InDollars(k) THEN Total(k, l.units, l.cash, price) * price[USD]
                   ELSE IF k = "travel_points" THEN l.usd * price[USD]
                   ELSE Total(k, l.units, l.cash, price)
  BY <1>2, RevalueDoc
<1>4. cache' = cache
  BY DEF Revalue
<1>5. price[USD] = cache[USD]
  <2>1. InDollars(f) => USD \notin Of(f)
    BY KindsOf DEF InDollars
  <2> QED BY <2>1, KindsOf DEF Settling, InStep
<1>6. \A i \in HeldOf(k, l.units) : price[i] = cache[i]
  <2>1. Missing \notin Nat
    BY PricesAssumption
  <2> QED BY <1>1, <2>1 DEF Settling, InStep
<1> HIDE DEF l, d, k, price
<1>7. \A i \in Of(k) : d.units[i] = l.units[i]
  BY <1>3, KindsOf
<1>8. HeldOf(k, d.units) = HeldOf(k, l.units) /\ Worth(k, d.units, cache) = Worth(k, l.units, price)
  <2>1. \A i \in HeldOf(k, l.units) : cache[i] = price[i]
    BY <1>6
  <2> QED BY <1>7, <2>1, WorthSame
<1>9. Total(k, d.units, d.cash, cache) = Total(k, l.units, l.cash, price)
  BY <1>3, <1>8 DEF Total
<1>10. Stamped(k) => \A i \in HeldOf(k, d.units) : d.stamp[i] = cache[i]
  <2>1. \A i \in HeldOf(k, l.units) : i \in Of(k) /\ l.units[i] > 0
    BY DEF HeldOf
  <2> QED BY <1>1, <1>3, <1>6, <1>8, <2>1
<1>11. Settled(d)
  <2>1. InDollars(k) => k # "travel_points"
    BY DEF InDollars
  <2> QED BY <1>3, <1>5, <1>9, <1>10, <2>1 DEF Settled
<1> QED BY <1>4, <1>11 DEF Settled, Total, Worth, d

LEMMA RevalueSettling ==
  ASSUME CacheInv, StateTyped, NEW f \in Feeds, Revalue(f), Settling(f)
  PROVE  Settling(f)'
<1> DEFINE a == at[f]
<1>0. /\ PassTyped(f) /\ stage[f] = "value" /\ UNCHANGED <<cache, loop, listed, stage, todo, seen>>
      /\ a # Gone /\ at'[f] = Gone /\ a \in Assets /\ listed[f][a].kind = Prime(f)
      /\ \A b \in Assets : db'[b] = db[b] \/ (b = a /\ Live(b))
  BY RevaluedTyped, RevalueFrame DEF Revalue, StateTyped, Shape
<1>1. Live(a) => db'[a].kind = db[a].kind /\ db[a].kind = Prime(f)
  <2>1. ASSUME Live(a) PROVE db'[a].kind = db[a].kind
    BY <2>1, RevalueDoc
  <2>2. db[a] = listed[f][a]
    BY <1>0 DEF Settling, Waiting
  <2> QED BY <1>0, <2>1, <2>2
<1> HIDE DEF a
<1>2. \A b \in Assets : db'[b] = db[b] => Done(b)' = Done(b) /\ Live(b)' = Live(b)
  BY <1>0 DEF Done, Live, Priceable, Empty, Usable, Settled
<1>3. InStep(f)'
  BY <1>0 DEF Settling, InStep
<1>4. todo[f] \subseteq Assets /\ Gone \notin todo[f] /\ a \notin todo[f]
  BY <1>0, NamesAssumption DEF PassTyped, Settling, a
<1>5. Waiting(f) = todo[f] \cup {a} /\ Waiting(f)' = todo[f] /\ Prime(f)' = Prime(f)
  BY <1>0, <1>4 DEF Waiting, Prime, a
<1>6. \A b \in Waiting(f)' : db'[b] = listed'[f][b]
  BY <1>0, <1>4, <1>5 DEF Settling
<1>7. \A b \in Assets : db'[b] # db[b] => b = a /\ Done(b)' /\ db'[b].kind = Prime(f)
  <2> SUFFICES ASSUME NEW b \in Assets, db'[b] # db[b] PROVE b = a /\ Done(b)' /\ db'[b].kind = Prime(f)
    OBVIOUS
  <2>1. b = a /\ Live(b)
    BY <1>0
  <2>2. b = at[f]
    BY <2>1 DEF a
  <2>3. Settled(db[b])'
    BY <2>1, <2>2, RevalueDone
  <2>4. Done(b)'
    BY <2>3 DEF Done
  <2> QED BY <1>1, <2>1, <2>4
<1>8. \A b \in Assets : (Live(b) /\ db[b].kind = Prime(f) /\ b \notin Waiting(f))' => Done(b)'
  <2> SUFFICES ASSUME NEW b \in Assets, Live(b)', db'[b].kind = Prime(f), b \notin todo[f] PROVE Done(b)'
    BY <1>5
  <2>1. CASE db'[b] = db[b] /\ b # a
    BY <1>0, <1>2, <1>5, <2>1 DEF Settling
  <2>2. CASE db'[b] # db[b]
    BY <1>7, <2>2
  <2>3. CASE b = a
    <3>1. Live(b)
      BY <1>0, <2>3 DEF Live
    <3>2. b = at[f]
      BY <2>3 DEF a
    <3>3. Settled(db[b])'
      BY <3>1, <3>2, RevalueDone
    <3> QED BY <3>3 DEF Done
  <2> QED BY <2>1, <2>2, <2>3
<1>9. \A n \in DOMAIN Loops(f) : n < loop[f] => Loops(f)[n] # Prime(f)
  <2>1. CASE f = "fx"
    <3>1. DOMAIN Loops(f) = 1..2 /\ Loops(f)[1] = "bank_accounts" /\ Loops(f)[2] = "travel_points"
      BY <2>1, LoopsOf
    <3> QED BY <1>0, <3>1 DEF PassTyped, Prime
  <2>2. CASE f # "fx"
    <3>1. DOMAIN Loops(f) = 1..1
      BY <2>2, LoopsOf
    <3> QED BY <1>0, <3>1 DEF PassTyped
  <2> QED BY <2>1, <2>2
<1>10. ASSUME NEW b \in Assets, NEW n \in DOMAIN Loops(f), n < loop[f], Live(b)', db'[b].kind = Loops(f)[n]
       PROVE  Done(b)'
  <2>1. db'[b] = db[b]
    BY <1>7, <1>9, <1>10
  <2>2. Live(b) /\ db[b].kind = Loops(f)[n]
    BY <1>10, <2>1 DEF Live
  <2> QED BY <1>2, <1>10, <2>1, <2>2 DEF Settling
<1>11. \A b \in Assets, n \in DOMAIN Loops(f) :
         (n < loop[f] /\ Live(b) /\ db[b].kind = Loops(f)[n])' => Done(b)'
  BY <1>0, <1>10
<1>12. (at[f] \notin todo[f])'
  BY <1>0, <1>4
<1> QED BY <1>3, <1>6, <1>8, <1>11, <1>12 DEF Settling

(* A step of a pass disturbs the others, or leaves them alone. *)
LEMMA PassCalm ==
  ASSUME CacheInv, StateTyped, CalmOK, NEW f \in Feeds, Pass(f)
  PROVE  CalmOK'
<1>0. /\ calm \in [Feeds -> BOOLEAN] /\ stage = [g \in Feeds |-> stage[g]] /\ PassTyped(f)
      /\ \A g \in Feeds \ {f} :
              /\ stage'[g] = stage[g] /\ loop'[g] = loop[g] /\ todo'[g] = todo[g]
              /\ listed'[g] = listed[g] /\ at'[g] = at[g] /\ seen'[g] = seen[g]
  BY PassOwn DEF StateTyped, Shape, CacheInv, FlowOK
<1>1. CASE Disturb
  BY <1>1 DEF Disturb, CalmOK
<1>2. CASE ~Disturb
  <2>1. cache' = cache
    BY <1>2 DEF Pass, PassBegins, Fetch, FetchFails, Fetched, List, Take, Consult, Revalue,
                ValueFails, NextLoop, PassEnds, PassFails, Over
  <2>2. ASSUME NEW g \in Feeds, g # f, calm'[g], stage'[g] \in {"list", "value"}
        PROVE  Settling(g)'
    <3>1. calm[g] /\ db' = db
      BY <1>0, <1>2, <2>2 DEF Pass, PassBegins, Fetch, FetchFails, Fetched, List, Take, Consult, Revalue,
                ValueFails, NextLoop, PassEnds, PassFails, Over
    <3>2. Settling(g)
      BY <1>0, <2>2, <3>1 DEF CalmOK
    <3> QED BY <1>0, <2>1, <2>2, <3>1, <3>2, SettlingSame DEF Reads
  <2>3. ASSUME calm'[f], stage'[f] \in {"list", "value"}
        PROVE  Settling(f)'
    <3>1. CASE Fetched(f)
      BY <3>1, FetchedSettling
    <3>2. CASE List(f)
      BY <2>3, <3>2, ListSettling
    <3>3. CASE PassBegins(f) \/ (\E row \in todo[f] : Fetch(f, row) \/ FetchFails(f, row))
      <4>1. stage'[f] = "fetch"
        BY <1>0, <3>3 DEF PassBegins, At, Fetch, FetchFails
      <4> QED BY <2>3, <4>1
    <3>4. CASE PassEnds(f) \/ PassFails(f)
      <4>1. stage'[f] = "off"
        BY <1>0, <3>4 DEF PassEnds, PassFails, Over, At
      <4> QED BY <2>3, <4>1
    <3>5. CASE ValueFails(f)
      <4>1. ~calm'[f]
        BY <1>0, <3>5 DEF ValueFails
      <4> QED BY <2>3, <4>1
    <3>6. CASE Revalue(f) \/ NextLoop(f) \/ (\E a \in todo[f] : Take(f, a)) \/ (\E i \in Items : Consult(f, i))
      <4>1. calm[f] /\ stage[f] = "value"
        BY <1>0, <2>3, <3>6 DEF Revalue, NextLoop, Take, Consult
      <4>2. Settling(f)
        BY <4>1 DEF CalmOK
      <4> QED BY <3>6, <4>2, RevalueSettling, NextLoopSettling, TakeSettling, ConsultSettling
    <3> QED BY <3>1, <3>2, <3>3, <3>4, <3>5, <3>6 DEF Pass
  <2> QED BY <2>2, <2>3 DEF CalmOK
<1> QED BY <1>1, <1>2

LEMMA StepCalm == CacheInv /\ StateTyped /\ CalmOK /\ [Next]_vars => CalmOK'
<1> SUFFICES ASSUME CacheInv, StateTyped, CalmOK, [Next]_vars PROVE CalmOK'
  OBVIOUS
<1>1. CASE Disturb
  BY <1>1 DEF Disturb, CalmOK
<1>2. CASE UNCHANGED <<cache, db, passVars, calm>>
  <2> SUFFICES ASSUME NEW f \in Feeds, calm'[f], stage'[f] \in {"list", "value"} PROVE Settling(f)'
    BY DEF CalmOK
  <2>1. UNCHANGED Reads(f) /\ Settling(f)
    BY <1>2 DEF Reads, passVars, CalmOK
  <2> QED BY <2>1, SettlingSame
<1>3. CASE \E r \in Reqs : Request(r)
  BY <1>1, <1>2, <1>3 DEF Request, Find, Check, LookUp, Miss, CacheIt, Compute, Write, Delete, ReqFails
<1>4. CASE \E f \in Feeds : Pass(f)
  BY <1>4, PassCalm
<1>5. CASE RateMoves \/ Crash
  BY <1>1, <1>5 DEF RateMoves, Crash
<1>6. CASE UNCHANGED vars
  BY <1>2, <1>6 DEF vars
<1> QED BY <1>3, <1>4, <1>5, <1>6 DEF Next

LEMMA CalmInvariant == Spec => []CalmOK
<1>1. Init => CalmOK
  BY DEF Init, CalmOK
<1> QED BY <1>1, StepCalm, TypedInvariant, PTL DEF Spec

(* At its end nothing is waiting. *)
LEMMA EndsSettled ==
  ASSUME StateTyped, CalmOK, NEW f \in Feeds, PassEnds(f), calm[f], NEW a \in Assets, Live(a),
         NEW n \in DOMAIN Loops(f), db[a].kind = Loops(f)[n], Priceable(db[a])
  PROVE  Settled(db[a])
<1>1. /\ stage[f] = "value" /\ at[f] = Gone /\ todo[f] = {} /\ loop[f] = Len(Loops(f))
      /\ Settling(f)
  BY DEF PassEnds, CalmOK
<1>2. Waiting(f) = {}
  BY <1>1 DEF Waiting
<1>3. n < loop[f] \/ n = loop[f]
  BY <1>1, LoopsOf
<1>4. Done(a)
  BY <1>1, <1>2, <1>3 DEF Settling, Prime
<1> QED BY <1>4 DEF Done

(***************************************************************************)
(* A pass nobody disturbed leaves all that can be priced at the cached     *)
(* prices, whatever the state it began in.                                 *)
(***************************************************************************)
THEOREM PassSettlesHolds == Spec => PassSettles
<1> DEFINE A == \A f \in Feeds : PassEnds(f) /\ calm[f] =>
                  \A a \in Assets : Live(a) /\ (\E n \in DOMAIN Loops(f) : db[a].kind = Loops(f)[n])
                                      /\ Priceable(db[a]) => Settled(db[a])
<1>1. StateTyped /\ CalmOK => [A]_vars
  BY EndsSettled
<1>2. StateTyped /\ CalmOK /\ [Next]_vars => [A]_vars
  BY <1>1
<1> HIDE DEF A
<1>3. Spec => [][A]_vars
  BY <1>2, TypedInvariant, CalmInvariant, PTL DEF Spec
<1> QED BY <1>3 DEF PassSettles, A
=============================================================================
