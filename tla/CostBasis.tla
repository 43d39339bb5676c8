----------------------------- MODULE CostBasis -----------------------------
(***************************************************************************)
(* What went into each asset and what of it is worth something now: the    *)
(* pure part of service/cost_basis.go, on whole rupees.  A number an asset *)
(* or a holding does not have is 0, as no guard of the code tells the two  *)
(* apart.                                                                  *)
(*                                                                         *)
(* Of a coin they are told apart: quote[s] is the dollar price of s that   *)
(* CryptoPriceUSD or the cache finds, NoPrice when it finds none.  The     *)
(* cache gives no price of 0, CryptoPriceUSD may: the backfill takes what  *)
(* CoinGecko's history has for the day, a null included, which reads as 0. *)
(***************************************************************************)
EXTENDS Integers, Sequences, Functions

CONSTANT NoPrice

(* Kinds. *)
KindByType ==
  [mutual_fund |-> "mutual_funds", crypto |-> "crypto", us_stocks |-> "stocks",
   gold |-> "gold", govt_schemes |-> "govt_schemes", bonds |-> "bonds",
   bank_accounts |-> "cash", loans |-> "cash", personal |-> "personal",
   travel_points |-> "rewards"]

KindByCategory(c) ==
  CASE c = "Mutual Funds" -> "mutual_funds"
    [] c = "Crypto" -> "crypto"
    [] c \in {"Stocks", "US Stocks"} -> "stocks"
    [] c = "Gold" -> "gold"
    [] c \in {"PPF", "NPS", "EPF", "SSY", "Govt Schemes"} -> "govt_schemes"
    [] c = "Bonds" -> "bonds"
    [] c \in {"Savings Account", "Cash", "Fixed Deposit", "Recurring Deposit", "Loan", "Loans"} -> "cash"
    [] c \in {"Electronics", "Jewellery", "Jewelry", "Vehicles"} -> "personal"
    [] c = "Travel Points" -> "rewards"
    [] OTHER -> "other"

StructuredTypes == {"mutual_fund", "crypto", "us_stocks", "gold", "govt_schemes", "bonds"}
FlatKinds == {"cash", "personal", "rewards", "other"}

Kind(a) ==
  IF a.type \in DOMAIN KindByType THEN KindByType[a.type] ELSE KindByCategory(a.category)

IsFlatMarket(a) == Kind(a) \notin FlatKinds /\ a.type \notin StructuredTypes

-----------------------------------------------------------------------------
(* An asset has a type and a category, a value, its value in dollars, the  *)
(* rupees invested or the purchase price, and holdings.  A holding has a   *)
(* name (coin or currency), units, a buying price and the last price; for  *)
(* schemes and bonds these are the rupees invested and the current ones.   *)

Holding == [name : STRING, units : Nat, buy : Int, last : Int]
Asset == [type : STRING, category : STRING, value : Int, usd : Int, invested : Int,
          holdings : Seq(Holding)]

(* A price is found for the coins of an asset, or none. *)
HasQuotes(a, quote) ==
  a.type = "crypto" =>
    \A i \in DOMAIN a.holdings : quote[a.holdings[i].name] \in Nat \cup {NoPrice}

(* Rupees per dollar, as the stored valuation implies. *)
Fx(a) == IF a.usd > 0 THEN a.value \div a.usd ELSE 0

(* A part of an asset with a known cost: what it cost, what it is worth. *)
Part(cost, worth) == [cost |-> cost, worth |-> worth]

(* Cash is at face value, foreign cash at the rate it was bought at. *)
Adjusted(a) == {i \in DOMAIN a.holdings :
                  LET h == a.holdings[i] IN h.name # "INR" /\ h.buy > 0 /\ h.last > 0}

CashCost(a) ==
  LET Adjust(h) == h.units * (h.last - h.buy)
  IN  IF a.type # "bank_accounts" THEN a.value
      ELSE a.value - SumFunction([i \in Adjusted(a) |-> Adjust(a.holdings[i])])

(* Mutant of IsKnown: a price is enough. *)
IsPriced(h) == h.last > 0

(* Only a holding that has a price and a buying price counts; of a coin it *)
(* is enough that a price was found.                                       *)
IsKnown(h) == h.buy > 0 /\ h.last > 0

Counts(a, h, quote) ==
  CASE a.type \in {"mutual_fund", "gold"} -> IsKnown(h)
    [] a.type = "us_stocks" -> Fx(a) > 0 /\ IsKnown(h)
    [] a.type = "crypto" -> Fx(a) > 0 /\ h.buy > 0 /\ quote[h.name] # NoPrice
    [] OTHER -> h.buy > 0

(* What add is called with for a holding. *)
OfHolding(a, h, quote) ==
  CASE a.type \in {"mutual_fund", "gold"} -> Part(h.units * h.buy, h.units * h.last)
    [] a.type = "us_stocks" -> Part(h.units * h.buy * Fx(a), h.units * h.last * Fx(a))
    [] a.type = "crypto" -> Part(h.units * h.buy * Fx(a), h.units * quote[h.name] * Fx(a))
    [] OTHER -> Part(h.buy, h.last)

Counted(a, quote) == {i \in DOMAIN a.holdings : Counts(a, a.holdings[i], quote)}

(* The rupees given for the whole portfolio, its cash included. *)
IsWhole(a) == a.type = "us_stocks" /\ a.invested > 0

(* The parts ForAsset adds up. *)
Parts(a, quote) ==
  CASE IsWhole(a) -> <<Part(a.invested, a.value)>>
    [] a.type \in StructuredTypes /\ ~IsWhole(a) ->
         [i \in Counted(a, quote) |-> OfHolding(a, a.holdings[i], quote)]
    [] Kind(a) = "cash" -> <<Part(CashCost(a), a.value)>>
    [] Kind(a) = "personal" -> <<Part(IF a.invested > 0 THEN a.invested ELSE a.value, a.value)>>
    [] OTHER -> <<>>

Costs(parts) == SumFunction([i \in DOMAIN parts |-> parts[i].cost])
Worths(parts) == SumFunction([i \in DOMAIN parts |-> parts[i].worth])

Or0(x, test) == IF test THEN x ELSE 0

(* Mutant of NoCost: not clamped at 0. *)
NoCostUnclamped(a, current) == Or0(a.value - current, Kind(a) # "rewards")

(* What of the value has no known cost. *)
NoCost(a, current) == Or0(a.value - current, Kind(a) # "rewards" /\ a.value > current)

(* ForAsset. *)
ForAsset(a, quote) ==
  LET parts == Parts(a, quote)
      invested == Costs(parts)
      current == Worths(parts)
      cash == Kind(a) = "cash"
      personal == Kind(a) = "personal"
      rewards == Or0(a.value, Kind(a) = "rewards")
      noCost == NoCost(a, current)
  IN  [invested |-> invested, current |-> current,
       cash |-> Or0(invested, cash), cashCurrent |-> Or0(current, cash),
       personalInvested |-> Or0(invested, personal), personalCurrent |-> Or0(current, personal),
       rewards |-> rewards, noCost |-> noCost, untracked |-> rewards + noCost,
       estimated |-> FALSE]

-----------------------------------------------------------------------------
(* models.AssetCostBasis. *)
Summary ==
  [invested : Int, current : Int, cash : Int, cashCurrent : Int,
   personalInvested : Int, personalCurrent : Int, rewards : Int,
   noCost : Nat, untracked : Int, estimated : BOOLEAN]

(* Sum: every field of the totals is the sum of that of the assets. *)
Sum(bases) ==
  LET Of(f) == SumFunction([i \in DOMAIN bases |-> bases[i][f]])
  IN  [invested |-> Of("invested"), current |-> Of("current"),
       cash |-> Of("cash"), cashCurrent |-> Of("cashCurrent"),
       personalInvested |-> Of("personalInvested"), personalCurrent |-> Of("personalCurrent"),
       rewards |-> Of("rewards"), noCost |-> Of("noCost"), untracked |-> Of("untracked"),
       estimated |-> \E i \in DOMAIN bases : bases[i].estimated]

(* Totals: fill every basis, and sum. *)
Filled(assets, quote) == [i \in DOMAIN assets |-> ForAsset(assets[i], quote)]
Totals(assets, quote) == Sum(Filled(assets, quote))

(* The holdings a ratio of kind k is taken from. *)
Backed(assets, k) == {i \in DOMAIN assets : Kind(assets[i]) = k /\ ~IsFlatMarket(assets[i])}

(* Mutant of Ratios: by the value of the assets, costs known or not. *)
RatiosByValue(assets, quote) ==
  LET filled == Filled(assets, quote)
      Invested(k) == SumFunction([i \in Backed(assets, k) |-> filled[i].invested])
      Current(k) == SumFunction([i \in Backed(assets, k) |-> assets[i].value])
      kinds == {Kind(assets[i]) : i \in DOMAIN assets} \ FlatKinds
  IN  [k \in {x \in kinds : Invested(x) > 0 /\ Current(x) > 0} |-> Part(Invested(k), Current(k))]

(* Ratios: invested and current of each market kind, from holdings. *)
Ratios(assets, quote) ==
  LET filled == Filled(assets, quote)
      Invested(k) == SumFunction([i \in Backed(assets, k) |-> filled[i].invested])
      Current(k) == SumFunction([i \in Backed(assets, k) |-> filled[i].current])
      kinds == {Kind(assets[i]) : i \in DOMAIN assets} \ FlatKinds
  IN  [k \in {x \in kinds : Invested(x) > 0 /\ Current(x) > 0} |-> Part(Invested(k), Current(k))]

(* Mutant of Estimate: the value stays untracked as well. *)
EstimateUncleared(a, b, ratios) ==
  IF Kind(a) \in DOMAIN ratios /\ IsFlatMarket(a)
  THEN [b EXCEPT !.invested = @ + (a.value * ratios[Kind(a)].cost) \div ratios[Kind(a)].worth,
                 !.current = @ + a.value,
                 !.estimated = TRUE]
  ELSE b

(* Estimate: a flat market asset cost what its kind did, in proportion. *)
Estimate(a, b, ratios) ==
  IF Kind(a) \in DOMAIN ratios /\ IsFlatMarket(a)
  THEN [b EXCEPT !.invested = @ + (a.value * ratios[Kind(a)].cost) \div ratios[Kind(a)].worth,
                 !.current = @ + a.value,
                 !.noCost = 0,
                 !.untracked = b.rewards,
                 !.estimated = TRUE]
  ELSE b
=============================================================================
