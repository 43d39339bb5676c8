----------------------------- MODULE Valuation -----------------------------
(***************************************************************************)
(* Portfolios of coins, US stocks, gold, bank accounts and of what users   *)
(* enter themselves, and travel points: the requests that price them on    *)
(* the way in, and the passes that revalue them when prices move.  As in   *)
(* module Portfolio every call on the database is a step, requests and     *)
(* passes interleave, and any call may fail; here the process may die too. *)
(* The kinds differ in what a pass reads when and what it writes back.     *)
(* Today's snapshot, and the second write of an update (ClearForeignFields)*)
(* are in Portfolio.                                                       *)
(***************************************************************************)
EXTENDS PriceCaches, FiniteSetsExt, Sequences

CONSTANTS Assets,    \* asset ids
          Reqs,      \* asset requests
          Settings,  \* states to start in: [db, cache, ask, left] records
          Faults,    \* whether calls may fail and the process may die
          Gone,      \* no asset: deleted, or not created yet
          Unset      \* an absent field

Feeds == {"crypto", "us_stocks", "gold", "fx"}

(* The kinds a feed revalues, in the order of its loops; the first loop of *)
(* the FX pass is in Portfolio.                                            *)
Loops(f) == IF f = "fx" THEN <<"bank_accounts", "travel_points">> ELSE <<f>>

(* "entered" stands for govt_schemes, loans and bonds.                     *)
PricedKinds == {"crypto", "us_stocks", "gold", "bank_accounts", "entered"}
Kinds == PricedKinds \cup {"travel_points", "manual"}

Of(kind) ==
  CASE kind = "crypto" -> Coins
    [] kind = "us_stocks" -> Tickers
    [] kind = "gold" -> Karats
    [] kind = "bank_accounts" -> Currencies
    [] kind = "entered" -> Lines
    [] OTHER -> {}

InDollars(kind) == kind \in {"crypto", "us_stocks"}

(* Coins are not stamped with the price they were valued at. *)
Stamped(kind) == kind \in {"us_stocks", "gold", "bank_accounts"}

VARIABLES db,      \* db[a]: [kind, units, stamp, cash, usd, value], or Gone
          ask,     \* ask[r]: what r asks for: [act, asset, kind, holds, units, cash,
                   \* usd, value], the fields after act and asset Unset when absent
          pc,      \* where each request is
          found,   \* found[r]: the asset as r read it
          toPrice, \* toPrice[r]: the rows r still has to look up
          got,     \* got[r]: the prices it has
          plan,    \* plan[r]: what it will $set
          stage,   \* stage[f]: where the pass of f is
          loop,    \* loop[f]: which of its loops it is in
          todo,    \* todo[f]: the rows it has to fetch, then the assets to value
          listed,  \* listed[f]: the assets as it listed them
          at,      \* at[f]: the asset it is valuing, or Gone
          seen,    \* seen[f]: the prices it has read
          left,    \* bound: the passes of each feed, and moves of the rates, left
          calm,    \* history: calm[f], nothing has disturbed the pass of f
          turned,  \* history: the assets that have been of another kind
          asked    \* history: asked[a], the <<units, cash>> a has been given

reqVars == <<ask, pc, found, toPrice, got, plan>>
passVars == <<stage, loop, todo, listed, at, seen>>
vars == <<cache, db, reqVars, passVars, left, calm, turned, asked>>

Live(a) == db[a] # Gone

Or(x, y) == IF x = Unset THEN y ELSE x

HeldOf(kind, units) == {i \in Of(kind) : units[i] > 0}

Worth(kind, units, price) ==
  SumFunction([i \in HeldOf(kind, units) |-> units[i] * price[i]])

(* A total is counted with a positive cash balance, if there may be one. *)
Total(kind, units, cash, price) ==
  Worth(kind, units, price) + IF kind = "us_stocks" THEN cash ELSE 0

NoStamps == [i \in Items |-> 0]

Init ==
  /\ \E s \in Settings : db = s.db /\ cache = s.cache /\ ask = s.ask /\ left = s.left
  /\ pc = [r \in Reqs |-> "idle"]
  /\ found = [r \in Reqs |-> Unset]
  /\ toPrice = [r \in Reqs |-> {}]
  /\ got = [r \in Reqs |-> Unset]
  /\ plan = [r \in Reqs |-> Unset]
  /\ stage = [f \in Feeds |-> "off"]
  /\ loop = [f \in Feeds |-> 1]
  /\ todo = [f \in Feeds |-> {}]
  /\ listed = [f \in Feeds |-> Unset]
  /\ at = [f \in Feeds |-> Gone]
  /\ seen = [f \in Feeds |-> Unset]
  /\ calm = [f \in Feeds |-> FALSE]
  /\ turned = {}
  /\ asked = [a \in Assets |-> IF Live(a) THEN {<<db[a].units, db[a].cash>>} ELSE {}]

Disturb == calm' = [f \in Feeds |-> FALSE]

-----------------------------------------------------------------------------
(* Asset requests.                                                         *)

Goto(r, l) == pc' = [pc EXCEPT ![r] = l]

(* The request is over, well or not, and nothing is kept of it. *)
Answer(r) ==
  /\ Goto(r, "answered")
  /\ found' = [found EXCEPT ![r] = Unset]
  /\ toPrice' = [toPrice EXCEPT ![r] = {}]
  /\ got' = [got EXCEPT ![r] = Unset]
  /\ plan' = [plan EXCEPT ![r] = Unset]

Kind(r) == Or(ask[r].kind, found[r].kind)

(* The holdings a portfolio will have: those asked for, if they are of its *)
(* kind, or those it has.                                                  *)
Merged(r) ==
  [i \in Items |-> IF i \in Of(Kind(r)) /\ ask[r].holds # Kind(r)
                   THEN found[r].units[i] ELSE Or(ask[r].units, NoStamps)[i]]

Cash(r) == Or(ask[r].cash, found[r].cash)

Blank == [kind |-> "manual", units |-> NoStamps, stamp |-> NoStamps,
          cash |-> 0, usd |-> 0, value |-> 0]

(* UpdateAsset reads the asset, or answers 404; CreateAsset starts blank.  *)
(* What is not priced by a feed counts as it is.                           *)
Find(r) ==
  /\ pc[r] = "idle" /\ ask[r].act # "delete"
  /\ IF ask[r].act = "update" /\ ~Live(ask[r].asset)
     THEN Answer(r)
     ELSE /\ found' = [found EXCEPT ![r] = IF ask[r].act = "create" THEN Blank ELSE db[ask[r].asset]]
          /\ got' = [got EXCEPT ![r] = [i \in Items |-> 1]]
          /\ Goto(r, "check")
          /\ UNCHANGED <<toPrice, plan>>
  /\ UNCHANGED <<cache, db, ask, passVars, left, calm, turned, asked>>

(* price*Asset: a portfolio must hold something, and all of it is priced.  *)
Check(r) ==
  /\ pc[r] = "check"
  /\ LET held == HeldOf(Kind(r), Merged(r))
         cash == IF Kind(r) = "us_stocks" THEN Cash(r) ELSE 0
     IN IF Kind(r) \in PricedKinds /\ held = {} /\ cash = 0
        THEN Answer(r)
        ELSE /\ toPrice' = [toPrice EXCEPT ![r] = Rows(held)]
             /\ Goto(r, "price")
             /\ UNCHANGED <<found, got, plan>>
  /\ UNCHANGED <<cache, db, ask, passVars, left, calm, turned, asked>>

(* The row has a usable price, which the request takes, or it ends there.  *)
Got(r, row, price) ==
  IF \A i \in row : price[i] \in Nat
  THEN /\ toPrice' = [toPrice EXCEPT ![r] = @ \ {row}]
       /\ got' = [got EXCEPT ![r] = [i \in Items |-> IF i \in row THEN price[i] ELSE @[i]]]
       /\ plan' = [plan EXCEPT ![r] = Unset]
       /\ Goto(r, "price")
       /\ UNCHANGED found
  ELSE Answer(r)

(* A row is in the cache ... *)
LookUp(r, row) ==
  /\ pc[r] = "price" /\ row \in toPrice[r] /\ Cached(row)
  /\ Got(r, row, cache)
  /\ UNCHANGED <<cache, db, ask, passVars, left, calm, turned, asked>>

(* ... or it is not, and is fetched ... *)
Miss(r, row) ==
  /\ pc[r] = "price" /\ row \in toPrice[r] /\ ~Cached(row)
  /\ \E reply \in Replies(row) : plan' = [plan EXCEPT ![r] = reply]
  /\ Goto(r, "cache")
  /\ UNCHANGED <<cache, db, ask, found, toPrice, got, passVars, left, calm, turned, asked>>

(* ... and cached, over whatever is there by now. *)
CacheIt(r) ==
  /\ pc[r] = "cache"
  /\ Store(DOMAIN plan[r], plan[r])
  /\ Got(r, DOMAIN plan[r], plan[r])
  /\ Disturb
  /\ UNCHANGED <<db, ask, passVars, left, turned, asked>>

(* usdToINR: the constant when no rate can be had. *)
DollarRates == {cache[USD]} \cup IF Faults THEN {Fallback} ELSE {}

(* The fields that will be set.  Raw holdings of coins and stocks, and     *)
(* cash, are set whatever the kind; gold, accounts and entered lines only  *)
(* with it.                                                                *)
SetUnits(r) ==
  [i \in Items |->
     IF Kind(r) \in PricedKinds /\ i \in Of(Kind(r)) THEN Merged(r)[i]
     ELSE IF ask[r].holds # Unset /\ i \in Of(ask[r].holds)
             /\ (InDollars(ask[r].holds) \/ ask[r].act = "create") THEN ask[r].units[i]
     ELSE Unset]

SetStamps(r) ==
  [i \in Items |-> IF SetUnits(r)[i] = Unset THEN Unset
                   ELSE IF Stamped(Kind(r)) /\ i \in HeldOf(Kind(r), Merged(r)) THEN got[r][i]
                   ELSE 0]

Plan(r, rate) ==
  LET sum == Total(Kind(r), Merged(r), Cash(r), got[r])
  IN [kind |-> ask[r].kind, units |-> SetUnits(r), stamp |-> SetStamps(r), cash |-> ask[r].cash,
      usd |-> IF InDollars(Kind(r)) THEN sum ELSE ask[r].usd,
      value |-> IF InDollars(Kind(r)) THEN sum * rate
                ELSE IF Kind(r) \in PricedKinds THEN sum ELSE ask[r].value]

Compute(r) ==
  /\ pc[r] = "price" /\ toPrice[r] = {}
  /\ \E rate \in DollarRates : plan' = [plan EXCEPT ![r] = Plan(r, rate)]
  /\ Goto(r, "write")
  /\ UNCHANGED <<cache, db, ask, found, toPrice, got, passVars, left, calm, turned, asked>>

(* $set of plan p on document d. *)
Set(d, p) ==
  [kind |-> Or(p.kind, d.kind), cash |-> Or(p.cash, d.cash),
   usd |-> Or(p.usd, d.usd), value |-> Or(p.value, d.value),
   units |-> [i \in Items |-> Or(p.units[i], d.units[i])],
   stamp |-> [i \in Items |-> Or(p.stamp[i], d.stamp[i])]]

(* The insertion, or the update of whatever the asset is by now, if it is. *)
Write(r) ==
  /\ pc[r] = "write"
  /\ LET a == ask[r].asset
         d == IF ask[r].act = "create" THEN Set(Blank, plan[r])
              ELSE IF Live(a) THEN Set(db[a], plan[r]) ELSE Gone
     IN /\ db' = [db EXCEPT ![a] = d]
        /\ asked' = IF d = Gone THEN asked
                    ELSE [asked EXCEPT ![a] = @ \cup {<<d.units, d.cash>>}]
        /\ turned' = IF Live(a) /\ db[a].kind # Kind(r) THEN turned \cup {a} ELSE turned
  /\ Answer(r)
  /\ Disturb
  /\ UNCHANGED <<cache, ask, passVars, left>>

Delete(r) ==
  /\ pc[r] = "idle" /\ ask[r].act = "delete"
  /\ db' = [db EXCEPT ![ask[r].asset] = Gone]
  /\ Answer(r)
  /\ Disturb
  /\ UNCHANGED <<cache, ask, passVars, left, turned, asked>>

(* A call fails: an error is answered. *)
ReqFails(r) ==
  /\ Faults /\ pc[r] \in {"check", "price", "cache", "write"}
  /\ Answer(r)
  /\ UNCHANGED <<cache, db, ask, passVars, left, calm, turned, asked>>

Request(r) ==
  \/ Find(r) \/ Check(r) \/ Compute(r) \/ Write(r) \/ Delete(r) \/ CacheIt(r) \/ ReqFails(r)
  \/ \E row \in toPrice[r] : LookUp(r, row) \/ Miss(r, row)

-----------------------------------------------------------------------------
(* Passes: refreshLocked and what it calls.                                *)

At(f, l) == stage' = [stage EXCEPT ![f] = l]

Listing(kind) == {a \in Assets : Live(a) /\ db[a].kind = kind}

HeldBy(kind) == UNION {HeldOf(kind, db[a].units) : a \in Listing(kind)}

(* What a pass fetches: the coins users hold only if they can be listed.   *)
Fetches(f) ==
  CASE f = "crypto" -> {Rows(Defaults \cup HeldBy(f))} \cup IF Faults THEN {Rows(Defaults)} ELSE {}
    [] f = "us_stocks" -> {Rows(HeldBy(f))}
    [] f = "gold" -> {{Karats}}
    [] OTHER -> {{}}

(* The FX pass fetches nothing: it starts with the rates as they are.      *)
PassBegins(f) ==
  /\ stage[f] = "off" /\ left[f] > 0
  /\ left' = [left EXCEPT ![f] = @ - 1]
  /\ \E rows \in Fetches(f) : todo' = [todo EXCEPT ![f] = rows]
  /\ At(f, "fetch")
  /\ UNCHANGED <<cache, db, reqVars, loop, listed, at, seen, calm, turned, asked>>

Fetch(f, row) ==
  /\ stage[f] = "fetch" /\ row \in todo[f]
  /\ \E reply \in Replies(row) : Store(row, reply)
  /\ todo' = [todo EXCEPT ![f] = @ \ {row}]
  /\ Disturb
  /\ UNCHANGED <<db, reqVars, stage, loop, listed, at, seen, left, turned, asked>>

(* A coin or a ticker that cannot be had is passed over. *)
FetchFails(f, row) ==
  /\ Faults /\ stage[f] = "fetch" /\ row \in todo[f] /\ InDollars(f)
  /\ todo' = [todo EXCEPT ![f] = @ \ {row}]
  /\ UNCHANGED <<cache, db, reqVars, stage, loop, listed, at, seen, left, calm, turned, asked>>

(* Gold rates and exchange rates are read here, before the portfolios.     *)
Fetched(f) ==
  /\ stage[f] = "fetch" /\ todo[f] = {}
  /\ At(f, "list")
  /\ seen' = [seen EXCEPT ![f] = cache]
  /\ calm' = [calm EXCEPT ![f] = TRUE]
  /\ UNCHANGED <<cache, db, reqVars, loop, todo, listed, at, left, turned, asked>>

(* The portfolios of a kind, and the dollar rate for those in dollars.     *)
List(f) ==
  /\ stage[f] = "list"
  /\ LET docs == Listing(Loops(f)[loop[f]])
     IN /\ todo' = [todo EXCEPT ![f] = docs]
        /\ listed' = [listed EXCEPT ![f] = [a \in docs |-> db[a]]]
  /\ IF InDollars(f)
     THEN \E rate \in DollarRates :
            /\ seen' = [seen EXCEPT ![f][USD] = rate]
            /\ calm' = [calm EXCEPT ![f] = @ /\ rate = cache[USD]]
     ELSE UNCHANGED <<seen, calm>>
  /\ At(f, "value")
  /\ UNCHANGED <<cache, db, reqVars, loop, at, left, turned, asked>>

Empty(d) ==
  CASE d.kind = "travel_points" -> d.usd = 0
    [] d.kind = "us_stocks" -> HeldOf(d.kind, d.units) = {} /\ d.cash = 0
    [] OTHER -> HeldOf(d.kind, d.units) = {}

(* The next portfolio, unless there is nothing to value in it.  Coins and  *)
(* tickers are looked up for each anew.                                    *)
Take(f, a) ==
  /\ stage[f] = "value" /\ at[f] = Gone /\ a \in todo[f]
  /\ todo' = [todo EXCEPT ![f] = @ \ {a}]
  /\ at' = [at EXCEPT ![f] = IF Empty(listed[f][a]) THEN Gone ELSE a]
  /\ seen' = IF InDollars(f)
             THEN [seen EXCEPT ![f] = [i \in Items |-> IF i \in Of(f) THEN Missing ELSE @[i]]]
             ELSE seen
  /\ UNCHANGED <<cache, db, reqVars, stage, loop, listed, left, calm, turned, asked>>

Unread(f) ==
  LET d == listed[f][at[f]] IN {i \in HeldOf(d.kind, d.units) : seen[f][i] \notin Nat}

(* Mutant of Consult: values what has a price, and nothing for the rest.   *)
ConsultOrNothing(f, i) ==
  /\ stage[f] = "value" /\ at[f] # Gone /\ i \in Unread(f)
  /\ seen' = [seen EXCEPT ![f][i] = IF Usable(i) THEN cache[i] ELSE 0]
  /\ UNCHANGED <<cache, db, reqVars, stage, loop, todo, listed, at, left, calm, turned, asked>>

(* The lookup of an item: without a usable price the portfolio is left.    *)
Consult(f, i) ==
  /\ stage[f] = "value" /\ at[f] # Gone /\ i \in Unread(f)
  /\ IF Usable(i) THEN seen' = [seen EXCEPT ![f][i] = cache[i]] /\ UNCHANGED at
                  ELSE at' = [at EXCEPT ![f] = Gone] /\ UNCHANGED seen
  /\ UNCHANGED <<cache, db, reqVars, stage, loop, todo, listed, left, calm, turned, asked>>

(* Mutant of Revaluation: writes the rates on the holdings it reads, and   *)
(* the value without them.                                                 *)
RevaluationOnly(d, price) ==
  LET sum == Total(d.kind, d.units, d.cash, price)
      none == [i \in Items |-> Unset]
  IN [kind |-> Unset, cash |-> Unset, units |-> none, stamp |-> none,
      usd |-> IF InDollars(d.kind) THEN sum ELSE Unset,
      value |-> IF InDollars(d.kind) THEN sum * price[USD]
                ELSE IF d.kind = "travel_points" THEN d.usd * price[USD] ELSE sum]

(* Mutant of Revaluation: leaves the cash of a stock portfolio out.        *)
RevaluationNoCash(d, price) ==
  LET sum == Worth(d.kind, d.units, price)
      own == {i \in Items : Stamped(d.kind) /\ i \in Of(d.kind)}
  IN [kind |-> Unset, cash |-> Unset,
      usd |-> IF InDollars(d.kind) THEN sum ELSE Unset,
      value |-> IF InDollars(d.kind) THEN sum * price[USD]
                ELSE IF d.kind = "travel_points" THEN d.usd * price[USD] ELSE sum,
      units |-> [i \in Items |-> IF i \in own THEN d.units[i] ELSE Unset],
      stamp |-> [i \in Items |-> IF i \notin own THEN Unset
                                 ELSE IF d.units[i] > 0 THEN price[i] ELSE 0]]

(* What a pass sets for a portfolio it listed as d: Set*Valuation.  Stock, *)
(* gold and bank holdings are written back as listed, with their prices.   *)
Revaluation(d, price) ==
  LET sum == Total(d.kind, d.units, d.cash, price)
      own == {i \in Items : Stamped(d.kind) /\ i \in Of(d.kind)}
  IN [kind |-> Unset, cash |-> Unset,
      usd |-> IF InDollars(d.kind) THEN sum ELSE Unset,
      value |-> IF InDollars(d.kind) THEN sum * price[USD]
                ELSE IF d.kind = "travel_points" THEN d.usd * price[USD] ELSE sum,
      units |-> [i \in Items |-> IF i \in own THEN d.units[i] ELSE Unset],
      stamp |-> [i \in Items |-> IF i \notin own THEN Unset
                                 ELSE IF d.units[i] > 0 THEN price[i] ELSE 0]]

(* By id alone: whatever the asset is by now, if it is. *)
Revalue(f) ==
  /\ stage[f] = "value" /\ at[f] # Gone /\ Unread(f) = {}
  /\ LET a == at[f]
     IN db' = IF Live(a) THEN [db EXCEPT ![a] = Set(@, Revaluation(listed[f][a], seen[f]))] ELSE db
  /\ at' = [at EXCEPT ![f] = Gone]
  /\ calm' = [g \in Feeds |-> calm[g] /\ g = f]
  /\ UNCHANGED <<cache, reqVars, stage, loop, todo, listed, seen, left, turned, asked>>

(* A lookup or a write fails: the portfolio is left as it is. *)
ValueFails(f) ==
  /\ Faults /\ stage[f] = "value" /\ at[f] # Gone
  /\ at' = [at EXCEPT ![f] = Gone]
  /\ calm' = [calm EXCEPT ![f] = FALSE]
  /\ UNCHANGED <<cache, db, reqVars, stage, loop, todo, listed, seen, left, turned, asked>>

NextLoop(f) ==
  /\ stage[f] = "value" /\ at[f] = Gone /\ todo[f] = {} /\ loop[f] < Len(Loops(f))
  /\ loop' = [loop EXCEPT ![f] = @ + 1]
  /\ At(f, "list")
  /\ UNCHANGED <<cache, db, reqVars, todo, listed, at, seen, left, calm, turned, asked>>

Over(f) ==
  /\ At(f, "off")
  /\ todo' = [todo EXCEPT ![f] = {}]
  /\ listed' = [listed EXCEPT ![f] = Unset]
  /\ at' = [at EXCEPT ![f] = Gone]
  /\ seen' = [seen EXCEPT ![f] = Unset]
  /\ loop' = [loop EXCEPT ![f] = 1]
  /\ calm' = [calm EXCEPT ![f] = FALSE]
  /\ UNCHANGED <<cache, db, reqVars, left, turned, asked>>

PassEnds(f) ==
  /\ stage[f] = "value" /\ at[f] = Gone /\ todo[f] = {} /\ loop[f] = Len(Loops(f))
  /\ Over(f)

(* The rates, the page or a listing cannot be had: the pass is over.       *)
PassFails(f) ==
  /\ Faults
  /\ stage[f] = "list" \/ (stage[f] = "fetch" /\ ~InDollars(f))
  /\ Over(f)

Pass(f) ==
  \/ PassBegins(f) \/ Fetched(f) \/ List(f) \/ Revalue(f) \/ ValueFails(f)
  \/ NextLoop(f) \/ PassEnds(f) \/ PassFails(f)
  \/ \E row \in todo[f] : Fetch(f, row) \/ FetchFails(f, row)
  \/ \E a \in todo[f] : Take(f, a)
  \/ \E i \in Items : Consult(f, i)

-----------------------------------------------------------------------------
(* The exchange rates move; Rates.Get gives its own constants while it has *)
(* none.  See module Rates.                                                *)
RateMoves ==
  /\ left["rates"] > 0
  /\ left' = [left EXCEPT !["rates"] = @ - 1]
  /\ \E rate \in Quotes \cup {Fallback} : cache' = [cache EXCEPT ![USD] = rate]
  /\ Disturb
  /\ UNCHANGED <<db, reqVars, passVars, turned, asked>>

(* The machine stops, whatever it was doing. *)
Crash ==
  /\ Faults
  /\ \/ \E r \in Reqs : pc[r] \notin {"idle", "answered"}
     \/ \E f \in Feeds : stage[f] # "off"
  /\ pc' = [r \in Reqs |-> IF pc[r] = "idle" THEN "idle" ELSE "answered"]
  /\ found' = [r \in Reqs |-> Unset] /\ toPrice' = [r \in Reqs |-> {}]
  /\ got' = [r \in Reqs |-> Unset] /\ plan' = [r \in Reqs |-> Unset]
  /\ stage' = [f \in Feeds |-> "off"] /\ loop' = [f \in Feeds |-> 1]
  /\ todo' = [f \in Feeds |-> {}]
  /\ listed' = [f \in Feeds |-> Unset]
  /\ at' = [f \in Feeds |-> Gone]
  /\ seen' = [f \in Feeds |-> Unset]
  /\ Disturb
  /\ UNCHANGED <<cache, db, ask, left, turned, asked>>

(* Every request has its answer and no pass is left. *)
Resting ==
  /\ \A r \in Reqs : pc[r] = "answered"
  /\ \A f \in Feeds : stage[f] = "off" /\ left[f] = 0

Next ==
  \/ \E r \in Reqs : Request(r)
  \/ \E f \in Feeds : Pass(f)
  \/ RateMoves \/ Crash
  \/ Resting /\ UNCHANGED vars

Spec == Init /\ [][Next]_vars
-----------------------------------------------------------------------------
Doc == [kind : Kinds, units : [Items -> Nat], stamp : [Items -> Prices \cup {0}],
        cash : Nat, usd : Nat, value : Nat]

Opt(S) == S \cup {Unset}

Update == [kind : Opt(Kinds), units : [Items -> Opt(Nat)], stamp : [Items -> Opt(Prices \cup {0})],
           cash : Opt(Nat), usd : Opt(Nat), value : Opt(Nat)]

TypeOK ==
  /\ CacheTypeOK
  /\ db \in [Assets -> Doc \cup {Gone}]
  /\ pc \in [Reqs -> {"idle", "check", "price", "cache", "write", "answered"}]
  /\ found \in [Reqs -> Opt(Doc)]
  /\ \A r \in Reqs : \A row \in toPrice[r] : row \subseteq Items
  /\ got \in [Reqs -> Opt([Items -> Prices])]
  /\ \A r \in Reqs : /\ pc[r] = "cache" => plan[r] \in Replies(DOMAIN plan[r])
                     /\ pc[r] = "write" => plan[r] \in Update
  /\ stage \in [Feeds -> {"off", "fetch", "list", "value"}]
  /\ \A f \in Feeds : /\ loop[f] \in DOMAIN Loops(f)
                      /\ todo[f] \subseteq Assets \cup SUBSET Items
                      /\ at[f] # Gone => at[f] \in DOMAIN listed[f]
  /\ left \in [Feeds \cup {"rates"} -> Nat]
  /\ calm \in [Feeds -> BOOLEAN] /\ turned \subseteq Assets

Quoted(value, usd) == \E rate \in Quotes \cup {Fallback} : value = usd * rate

(* The prices of d explain its value, with a cash balance given with it.   *)
Explained(d, given) ==
  LET sum == Worth(d.kind, d.units, d.stamp)
  IN /\ \A i \in HeldOf(d.kind, d.units) : d.stamp[i] > 0
     /\ IF InDollars(d.kind)
        THEN /\ \E x \in given : d.usd = sum + x[2]
             /\ Quoted(d.value, d.usd)
        ELSE d.value = sum

(***************************************************************************)
(* A portfolio of stocks, gold or accounts that never was anything else    *)
(* shows prices that explain it: every line it holds has one, and they add *)
(* up to its value, with a cash balance the user gave it at some time and  *)
(* at a rate that was quoted.  Edits, passes over old listings, failures   *)
(* and crashes in any order leave it so, because holdings, prices and      *)
(* value are set by one update (assets.go, Set*Valuation).                 *)
(***************************************************************************)
StampsExplainValue ==
  \A a \in Assets \ turned : Live(a) /\ Stamped(db[a].kind) => Explained(db[a], asked[a])

(* The coins of d are valued in full, at some holdings given for it.       *)
Full(d, given) ==
  /\ Quoted(d.value, d.usd)
  /\ \E x \in given, price \in [Coins -> Quotes] : d.usd = Worth("crypto", x[1], price)

(***************************************************************************)
(* crypto_valuation.go: "keep the last full valuation rather than storing  *)
(* a partial (understated) one".  Whatever is cached, failing or in        *)
(* flight, the dollar value of a coin portfolio is that of all the coins   *)
(* it held at some time, each at a price a source gave.                    *)
(***************************************************************************)
FullValuation ==
  \A a \in Assets \ turned : Live(a) /\ db[a].kind = "crypto" => Full(db[a], asked[a])

(* All that is in d has a price, and d is valued at it. *)
Priceable(d) == ~Empty(d) /\ \A i \in HeldOf(d.kind, d.units) : Usable(i)

Settled(d) ==
  IF d.kind = "travel_points" THEN d.value = d.usd * cache[USD]
  ELSE LET sum == Total(d.kind, d.units, d.cash, cache)
       IN /\ InDollars(d.kind) => d.usd = sum
          /\ d.value = IF InDollars(d.kind) THEN sum * cache[USD] ELSE sum
          /\ Stamped(d.kind) => \A i \in HeldOf(d.kind, d.units) : d.stamp[i] = cache[i]

(***************************************************************************)
(* A pass nobody disturbed, from its last fetch to its end, leaves every   *)
(* portfolio of its kinds at the cached prices if it can be priced at all, *)
(* whatever kind the asset was before and whatever became of it since a    *)
(* crash or an earlier pass that did not get that far.                     *)
(***************************************************************************)
PassSettles ==
  [][\A f \in Feeds : PassEnds(f) /\ calm[f] =>
       \A a \in Assets : Live(a) /\ (\E n \in DOMAIN Loops(f) : db[a].kind = Loops(f)[n])
                           /\ Priceable(db[a]) => Settled(db[a])]_vars

-----------------------------------------------------------------------------
(* What the states to start in are: a rate is there, a coin has a price    *)
(* from its source if any, values are what a request or a pass may have    *)
(* left, and an asset id is given to one asset.                            *)
Sourced(c) ==
  /\ c[USD] \in Quotes \cup {Fallback}
  /\ \A i \in Coins : c[i] \in Quotes \cup {Missing, Unusable}

Asks == [act : {"create", "update", "delete"}, asset : Assets, kind : Opt(Kinds), holds : Opt(Kinds),
         units : Opt([Items -> Nat]), cash : Opt(Nat), usd : Opt(Nat), value : Opt(Nat)]

Complete(x) == x.kind \in Kinds /\ x.cash \in Nat /\ x.usd \in Nat /\ x.value \in Nat

AsksOK(asks, docs) ==
  /\ asks \in [Reqs -> Asks]
  /\ \A r \in Reqs : asks[r].holds # Unset => asks[r].units \in [Items -> Nat]
  /\ \A r \in Reqs : asks[r].act = "create" =>
       /\ Complete(asks[r]) /\ docs[asks[r].asset] = Gone
       /\ \A q \in Reqs \ {r} : asks[q].act = "create" => asks[q].asset # asks[r].asset

ASSUME SettingsAssumption ==
  \A s \in Settings :
    /\ Typed(s.cache) /\ Genuine(s.cache) /\ Sourced(s.cache)
    /\ s.db \in [Assets -> Doc \cup {Gone}]
    /\ \A a \in Assets : LET d == s.db[a] IN d # Gone =>
         /\ Stamped(d.kind) => Explained(d, {<<d.units, d.cash>>})
         /\ d.kind = "crypto" => Full(d, {<<d.units, d.cash>>})
    /\ AsksOK(s.ask, s.db)
    /\ s.left \in [Feeds \cup {"rates"} -> Nat]

ASSUME NamesAssumption ==
  /\ Gone \notin Assets /\ Gone \notin Doc /\ Unset \notin Nat \cup Kinds
  /\ IsFiniteSet(Items) /\ Quotes # {}
=============================================================================
