--------------------------- MODULE Backfill_proofs ---------------------------
(***************************************************************************)
(* The summaries of the snapshots, for any number of days, any portfolios, *)
(* rows and prices, and however often the backfill is killed and run again *)
(* beside the server: they are typed and account for the assets they were  *)
(* computed from, which are those of their rows but for a race over        *)
(* today's; flat assets show the return of the user's holdings; a gain     *)
(* compares like with like; and the summary of a past day is written once. *)
(*                                                                         *)
(* The invariant (RowsInv) says of every stored summary that it is the     *)
(* estimate of its source, so that what a summary satisfies is a fact      *)
(* about lists of assets, prices and ratios (EstimatedOK,                  *)
(* EstimatesInTotal) and not about steps.                                  *)
(***************************************************************************)
EXTENDS Backfill, Sums

(* The parts of an asset.                                                  *)

(* Structured assets are of a market kind. *)
LEMMA MarketKinds ==
  ASSUME NEW a, a.type \in StructuredTypes PROVE Kind(a) \notin FlatKinds
BY DEF Kind, KindByType, StructuredTypes, FlatKinds

(* Rupees per dollar. *)
LEMMA FxInt == ASSUME NEW a \in Asset PROVE Fx(a) \in Int
BY DEF Fx, Asset

(* The cost of a holding that counts and its worth are numbers: a coin     *)
(* counts when a price was found.                                          *)
LEMMA HoldingTyped ==
  ASSUME NEW a \in Asset, NEW q, HasQuotes(a, q), NEW i \in Counted(a, q)
  PROVE  /\ OfHolding(a, a.holdings[i], q).cost \in Int
         /\ OfHolding(a, a.holdings[i], q).worth \in Int
<1> DEFINE h == a.holdings[i]
<1>0. i \in DOMAIN a.holdings /\ Counts(a, h, q)
  BY DEF Counted
<1>1. h.units \in Int /\ h.buy \in Int /\ h.last \in Int
  <2>1. h \in Holding
    BY <1>0 DEF Asset
  <2> QED BY <2>1 DEF Holding
<1>2. \A x, y \in Int : x * y \in Int
  OBVIOUS
<1>3. Fx(a) \in Int
  BY FxInt
<1>4. a.type = "crypto" => q[h.name] \in Nat \cup {NoPrice}
  BY <1>0 DEF HasQuotes
<1> HIDE DEF h
<1>5. CASE a.type = "crypto"
  <2>1. q[h.name] \in Int
    BY <1>0, <1>4, <1>5 DEF Counts
  <2> QED BY <1>1, <1>2, <1>3, <1>5, <2>1 DEF OfHolding, Part, h
<1>6. CASE a.type # "crypto"
  BY <1>1, <1>2, <1>3, <1>6 DEF OfHolding, Part, h
<1> QED BY <1>5, <1>6

(* Costs and worths of finitely many parts. *)
Typed(parts) ==
  /\ IsFiniteSet(DOMAIN parts)
  /\ \A i \in DOMAIN parts : parts[i].cost \in Int /\ parts[i].worth \in Int

(* They add up to numbers. *)
LEMMA PartsInt ==
  ASSUME NEW parts, Typed(parts) PROVE Costs(parts) \in Int /\ Worths(parts) \in Int
<1>1. [i \in DOMAIN parts |-> parts[i].cost] \in [DOMAIN parts -> Int]
  BY DEF Typed
<1>2. [i \in DOMAIN parts |-> parts[i].worth] \in [DOMAIN parts -> Int]
  BY DEF Typed
<1>3. IsFiniteSet(DOMAIN parts)
  BY DEF Typed
<1>4. Costs(parts) \in Int
  BY <1>1, <1>3, SumInt DEF Costs
<1>5. Worths(parts) \in Int
  BY <1>2, <1>3, SumInt DEF Worths
<1> QED BY <1>4, <1>5

(* No parts, and a single one. *)
LEMMA NoParts == Typed(<<>>) /\ Costs(<<>>) = 0 /\ Worths(<<>>) = 0
<1>1. DOMAIN [i \in DOMAIN <<>> |-> <<>>[i].cost] = {}
  OBVIOUS
<1>2. DOMAIN [i \in DOMAIN <<>> |-> <<>>[i].worth] = {}
  OBVIOUS
<1>3. Costs(<<>>) = 0
  BY <1>1, SumEmpty, Zenon DEF Costs
<1>4. Worths(<<>>) = 0
  BY <1>2, SumEmpty, Zenon DEF Worths
<1>5. Typed(<<>>)
  BY FS_EmptySet DEF Typed
<1> QED BY <1>3, <1>4, <1>5

LEMMA OnePart ==
  ASSUME NEW c \in Int, NEW w \in Int
  PROVE  Typed(<<Part(c, w)>>) /\ Costs(<<Part(c, w)>>) = c /\ Worths(<<Part(c, w)>>) = w
<1> DEFINE p == <<Part(c, w)>>
<1>1. DOMAIN p = {1} /\ p[1].cost = c /\ p[1].worth = w
  BY DEF Part
<1>2. IsFiniteSet(DOMAIN p)
  BY <1>1, FS_Singleton
<1> HIDE DEF p
<1>3. ASSUME NEW f \in [{1} -> Int] PROVE SumFunction(f) = f[1]
  <2>1. SumFunction(f) = f[1] + SumFunction(Restrict(f, {1} \ {1}))
    BY FS_Singleton, SumRemove
  <2>2. SumFunction(Restrict(f, {1} \ {1})) = 0
    <3>1. DOMAIN Restrict(f, {1} \ {1}) = {}
      BY DEF Restrict
    <3> QED BY <3>1, SumEmpty
  <2> QED BY <2>1, <2>2
<1>4. Costs(p) = c
  <2> DEFINE f == [i \in DOMAIN p |-> p[i].cost]
  <2>1. f \in [{1} -> Int] /\ f[1] = c
    BY <1>1
  <2> HIDE DEF f
  <2>2. SumFunction(f) = f[1]
    BY <2>1, <1>3
  <2> QED BY <2>1, <2>2 DEF Costs, f
<1>5. Worths(p) = w
  <2> DEFINE f == [i \in DOMAIN p |-> p[i].worth]
  <2>1. f \in [{1} -> Int] /\ f[1] = w
    BY <1>1
  <2> HIDE DEF f
  <2>2. SumFunction(f) = f[1]
    BY <2>1, <1>3
  <2> QED BY <2>1, <2>2 DEF Worths, f
<1>6. Typed(p)
  BY <1>1, <1>2 DEF Typed
<1> QED BY <1>4, <1>5, <1>6 DEF p

(* An asset has finitely many holdings. *)
LEMMA HoldingsFinite ==
  ASSUME NEW a \in Asset PROVE IsFiniteSet(DOMAIN a.holdings)
<1>1. DOMAIN a.holdings = 1..Len(a.holdings) /\ Len(a.holdings) \in Nat
  BY DEF Asset
<1> QED BY <1>1, FS_Interval

(* Cash costs a number: the adjustments are summed over the holdings.      *)
LEMMA CashCostInt == ASSUME NEW a \in Asset PROVE CashCost(a) \in Int
<1> DEFINE f == [i \in Adjusted(a) |->
                   a.holdings[i].units * (a.holdings[i].last - a.holdings[i].buy)]
<1>1. IsFiniteSet(Adjusted(a))
  BY HoldingsFinite, FS_Subset DEF Adjusted
<1>2. ASSUME NEW i \in Adjusted(a)
      PROVE  a.holdings[i].units * (a.holdings[i].last - a.holdings[i].buy) \in Int
  <2>1. a.holdings[i] \in Holding
    BY DEF Adjusted, Asset
  <2>2. a.holdings[i].units \in Int /\ a.holdings[i].last \in Int /\ a.holdings[i].buy \in Int
    BY <2>1 DEF Holding
  <2> QED BY <2>2
<1>3. f \in [Adjusted(a) -> Int]
  BY <1>2
<1> HIDE DEF f
<1>4. SumFunction(f) \in Int
  BY <1>1, <1>3, SumInt
<1>5. a.value \in Int
  BY DEF Asset
<1> QED BY <1>4, <1>5 DEF CashCost, f

(* The parts of a structured asset with no known total are its holdings    *)
(* that count.                                                             *)
ByHolding(a) == a.type \in StructuredTypes /\ ~IsWhole(a)

LEMMA HoldingParts ==
  ASSUME NEW a, NEW q, ByHolding(a)
  PROVE  Parts(a, q) = [i \in Counted(a, q) |-> OfHolding(a, a.holdings[i], q)]
<1>1. Kind(a) # "cash" /\ Kind(a) # "personal"
  BY MarketKinds DEF ByHolding, FlatKinds
<1> QED BY <1>1 DEF Parts, ByHolding

(* The rupees given for a portfolio are its only part. *)
LEMMA WholePart ==
  ASSUME NEW a, NEW q, IsWhole(a) PROVE Parts(a, q) = <<Part(a.invested, a.value)>>
<1>1. a.type \in StructuredTypes
  BY DEF IsWhole, StructuredTypes
<1>2. Kind(a) # "cash" /\ Kind(a) # "personal"
  BY <1>1, MarketKinds DEF FlatKinds
<1> QED BY <1>2 DEF Parts

(* The parts of any asset. *)
LEMMA PartsTyped ==
  ASSUME NEW a \in Asset, NEW q, HasQuotes(a, q) PROVE Typed(Parts(a, q))
<1>0. a.value \in Int /\ a.invested \in Int
  BY DEF Asset
<1>1. CASE IsWhole(a)
  BY <1>0, <1>1, OnePart, WholePart
<1>2. CASE ByHolding(a)
  <2> DEFINE p == [i \in Counted(a, q) |-> OfHolding(a, a.holdings[i], q)]
  <2>1. Counted(a, q) \subseteq DOMAIN a.holdings
    BY DEF Counted
  <2>2. IsFiniteSet(Counted(a, q))
    BY <2>1, HoldingsFinite, FS_Subset
  <2>3. \A i \in Counted(a, q) : p[i].cost \in Int /\ p[i].worth \in Int
    BY <2>1, HoldingTyped
  <2>4. DOMAIN p = Counted(a, q)
    OBVIOUS
  <2> HIDE DEF p
  <2>5. Typed(p)
    BY <2>2, <2>3, <2>4 DEF Typed
  <2> QED BY <1>2, <2>5, HoldingParts DEF p
<1>3. CASE ~IsWhole(a) /\ ~ByHolding(a) /\ Kind(a) = "cash"
  <2>1. Parts(a, q) = <<Part(CashCost(a), a.value)>>
    BY <1>3 DEF Parts, ByHolding
  <2> QED BY <1>0, <2>1, OnePart, CashCostInt
<1>4. CASE ~IsWhole(a) /\ ~ByHolding(a) /\ Kind(a) = "personal"
  <2>1. Parts(a, q) = <<Part(IF a.invested > 0 THEN a.invested ELSE a.value, a.value)>>
    BY <1>4 DEF Parts, ByHolding
  <2>2. (IF a.invested > 0 THEN a.invested ELSE a.value) \in Int
    BY <1>0
  <2> QED BY <1>0, <2>1, <2>2, OnePart
<1>5. CASE ~IsWhole(a) /\ ~ByHolding(a) /\ Kind(a) \notin {"cash", "personal"}
  <2>1. Parts(a, q) = <<>>
    BY <1>5 DEF Parts, ByHolding
  <2> QED BY <2>1, NoParts
<1> QED BY <1>1, <1>2, <1>3, <1>4, <1>5

-----------------------------------------------------------------------------
(* Bases.                                                                 *)

(* What a basis of an asset says: it accounts for the value, or what the   *)
(* parts are worth when that is more.                                      *)
BasisOK(b, a, q) ==
  /\ b \in Summary
  /\ b.untracked = b.rewards + b.noCost
  /\ a.value >= 0 => b.current + b.untracked = a.value + Over(a, q)

(* What ForAsset fills in. *)
LEMMA BasisFields ==
  ASSUME NEW a, NEW q
  PROVE  LET b == ForAsset(a, q)
         IN  /\ b.invested = Costs(Parts(a, q)) /\ b.current = Worths(Parts(a, q))
             /\ b.rewards = Or0(a.value, Kind(a) = "rewards")
             /\ b.noCost = NoCost(a, Worths(Parts(a, q)))
             /\ b.untracked = b.rewards + b.noCost
             /\ b.estimated = FALSE
BY DEF ForAsset

(* A basis is typed: what has no cost is never negative. *)
LEMMA BasisTyped ==
  ASSUME NEW a \in Asset, NEW q, HasQuotes(a, q) PROVE ForAsset(a, q) \in Summary
<1> DEFINE c == Costs(Parts(a, q))
           w == Worths(Parts(a, q))
<1>1. c \in Int /\ w \in Int /\ a.value \in Int
  BY PartsTyped, PartsInt DEF Asset
<1> HIDE DEF c, w
<1>2. NoCost(a, w) \in Nat
  BY <1>1 DEF NoCost, Or0
<1>3. \A x \in Int : \A t : Or0(x, t) \in Int
  BY DEF Or0
<1>4. Or0(a.value, Kind(a) = "rewards") + NoCost(a, w) \in Int
  BY <1>1, <1>2 DEF Or0
<1> QED BY <1>1, <1>2, <1>3, <1>4 DEF ForAsset, Summary, c, w

(* Neither structured nor cash nor personal: no parts. *)
LEMMA RewardParts ==
  ASSUME NEW a, NEW q, Kind(a) \notin {"cash", "personal"}, a.type \notin StructuredTypes
  PROVE  Parts(a, q) = <<>> /\ Worths(Parts(a, q)) = 0 /\ Costs(Parts(a, q)) = 0
<1>1. Parts(a, q) = <<>>
  BY DEF Parts, IsWhole, StructuredTypes
<1> QED BY <1>1, NoParts

(* ForAsset accounts for the value of the asset. *)
LEMMA BasisFilled ==
  ASSUME NEW a \in Asset, NEW q, HasQuotes(a, q) PROVE BasisOK(ForAsset(a, q), a, q)
<1> DEFINE b == ForAsset(a, q)
           w == Worths(Parts(a, q))
<1>1. w \in Int /\ a.value \in Int
  BY PartsTyped, PartsInt DEF Asset
<1>2. /\ b.current = w /\ b.rewards = Or0(a.value, Kind(a) = "rewards")
      /\ b.noCost = NoCost(a, w) /\ b.untracked = b.rewards + b.noCost
  BY BasisFields, Zenon
<1>3. Over(a, q) = Or0(w - a.value, w > a.value)
  BY DEF Over
<1>4. Kind(a) = "rewards" => w = 0
  BY RewardParts, MarketKinds DEF FlatKinds
<1>5. b \in Summary
  BY BasisTyped
<1> HIDE DEF b, w
<1>6. a.value >= 0 => b.current + b.untracked = a.value + Over(a, q)
  BY <1>1, <1>2, <1>3, <1>4 DEF Or0, NoCost
<1> QED BY <1>2, <1>5, <1>6 DEF BasisOK, b

(* Ratios are of positive numbers. *)
RatiosOK(r) ==
  \A k \in DOMAIN r : r[k].cost \in Nat \ {0} /\ r[k].worth \in Nat \ {0}

(* A division is off by less than one. *)
LEMMA DivisionInt ==
  ASSUME NEW n \in Int, NEW w \in Nat \ {0}
  PROVE  n \div w \in Int /\ n - (n \div w) * w \in 0..(w - 1)
OBVIOUS

(* What Estimate does to the basis of a flat market asset, and of no other. *)
LEMMA EstimateFields ==
  ASSUME NEW a \in Asset, NEW q, HasQuotes(a, q), NEW r, RatiosOK(r),
         Kind(a) \in DOMAIN r, IsFlatMarket(a)
  PROVE  LET b == ForAsset(a, q)
             e == Estimate(a, b, r)
         IN  /\ e = [b EXCEPT !.invested = (a.value * r[Kind(a)].cost) \div r[Kind(a)].worth,
                              !.current = a.value, !.noCost = 0, !.untracked = 0,
                              !.estimated = TRUE]
             /\ b.rewards = 0
             /\ (a.value * r[Kind(a)].cost) \div r[Kind(a)].worth \in Int
<1> DEFINE b == ForAsset(a, q)
<1>1. Kind(a) \notin FlatKinds /\ a.type \notin StructuredTypes
  BY DEF IsFlatMarket
<1>2. Worths(Parts(a, q)) = 0 /\ Costs(Parts(a, q)) = 0
  BY <1>1, RewardParts DEF FlatKinds
<1>3. b.invested = 0 /\ b.current = 0 /\ b.rewards = 0
  BY <1>1, <1>2, BasisFields DEF FlatKinds, Or0
<1>4. a.value \in Int
  BY DEF Asset
<1> DEFINE n == (a.value * r[Kind(a)].cost) \div r[Kind(a)].worth
<1>5. Estimate(a, b, r) = [b EXCEPT !.invested = b.invested + n, !.current = b.current + a.value,
                                    !.noCost = 0, !.untracked = b.rewards, !.estimated = TRUE]
  BY DEF Estimate
<1>6. n \in Int
  <2>1. a.value * r[Kind(a)].cost \in Int
    BY <1>4 DEF RatiosOK
  <2> QED BY <2>1, DivisionInt DEF RatiosOK
<1>7. b.invested + n = n /\ b.current + a.value = a.value
  BY <1>3, <1>4, <1>6
<1> QED BY <1>3, <1>5, <1>6, <1>7

(* Estimate moves the value of a flat asset from untracked to current. *)
LEMMA BasisEstimated ==
  ASSUME NEW a \in Asset, NEW q, HasQuotes(a, q), NEW r, RatiosOK(r)
  PROVE  BasisOK(Estimate(a, ForAsset(a, q), r), a, q)
<1> DEFINE b == ForAsset(a, q)
           e == Estimate(a, b, r)
<1>1. CASE ~(Kind(a) \in DOMAIN r /\ IsFlatMarket(a))
  BY <1>1, BasisFilled DEF Estimate
<1>2. CASE Kind(a) \in DOMAIN r /\ IsFlatMarket(a)
  <2> DEFINE n == (a.value * r[Kind(a)].cost) \div r[Kind(a)].worth
  <2>1. /\ e = [b EXCEPT !.invested = n, !.current = a.value, !.noCost = 0, !.untracked = 0,
                         !.estimated = TRUE]
        /\ b.rewards = 0 /\ n \in Int
    BY <1>2, EstimateFields
  <2>2. b \in Summary
    BY BasisTyped
  <2>3. a.value \in Int
    BY DEF Asset
  <2> HIDE DEF n
  <2>5. Over(a, q) = Or0(0 - a.value, 0 > a.value)
    BY <1>2, RewardParts DEF IsFlatMarket, FlatKinds, Over
  <2> HIDE DEF b, e
  <2>6. e \in Summary /\ e.current = a.value /\ e.untracked = 0 /\ e.noCost = 0 /\ e.rewards = 0
    BY <2>1, <2>2, <2>3 DEF Summary
  <2>7. BasisOK(e, a, q)
    BY <2>3, <2>5, <2>6 DEF BasisOK, Or0
  <2> QED BY <2>7 DEF e, b
<1> QED BY <1>1, <1>2

-----------------------------------------------------------------------------
(* Lists. *)
LEMMA ListDomain ==
  ASSUME NEW assets \in Seq(Asset)
  PROVE  IsFiniteSet(DOMAIN assets) /\ \A i \in DOMAIN assets : assets[i] \in Asset
<1>1. DOMAIN assets = 1..Len(assets) /\ Len(assets) \in Nat
  OBVIOUS
<1> QED BY <1>1, FS_Interval

(* The totals of bases that are right are right. *)
BasesOK(bases, assets, q) ==
  /\ DOMAIN bases = DOMAIN assets
  /\ \A i \in DOMAIN assets : BasisOK(bases[i], assets[i], q)

LEMMA SumTyped ==
  ASSUME NEW assets \in Seq(Asset), NEW q, NEW bases, BasesOK(bases, assets, q)
  PROVE  Sum(bases) \in Summary
<1> DEFINE S == DOMAIN assets
           Field(f) == [i \in S |-> bases[i][f]]
<1>1. IsFiniteSet(S)
  BY ListDomain
<1>2. \A i \in S : bases[i] \in Summary
  BY DEF BasesOK, BasisOK
<1>3. \A f \in {"invested", "current", "cash", "cashCurrent", "personalInvested",
                "personalCurrent", "rewards", "untracked"} : Field(f) \in [S -> Int]
  BY <1>2 DEF Summary
<1>4. Field("noCost") \in [S -> Nat]
  BY <1>2 DEF Summary
<1> HIDE DEF S
<1>5. \A f \in {"invested", "current", "cash", "cashCurrent", "personalInvested",
                "personalCurrent", "rewards", "untracked"} : SumFunction(Field(f)) \in Int
  BY <1>1, <1>3, SumInt
<1>6. SumFunction(Field("noCost")) \in Nat
  BY <1>1, <1>4, SumNat
<1>7. DOMAIN bases = S
  BY DEF BasesOK, S
<1> QED BY <1>5, <1>6, <1>7 DEF Sum, Summary

(* Accounts that balance term by term balance in total. *)
LEMMA SumBalanced ==
  ASSUME NEW assets \in Seq(Asset), NEW q, NEW bases, BasesOK(bases, assets, q),
         \A i \in DOMAIN assets : HasQuotes(assets[i], q),
         \A i \in DOMAIN assets : assets[i].value >= 0
  PROVE  Balanced(Sum(bases), assets, q)
<1> DEFINE S == DOMAIN assets
           current == [i \in S |-> bases[i].current]
           untracked == [i \in S |-> bases[i].untracked]
           rewards == [i \in S |-> bases[i].rewards]
           noCost == [i \in S |-> bases[i].noCost]
           value == [i \in S |-> assets[i].value]
           over == [i \in S |-> Over(assets[i], q)]
<1>1. IsFiniteSet(S) /\ \A i \in S : assets[i] \in Asset
  BY ListDomain
<1>2. \A i \in S : BasisOK(bases[i], assets[i], q)
  BY DEF BasesOK
<1>3. /\ current \in [S -> Int] /\ untracked \in [S -> Int]
      /\ rewards \in [S -> Int] /\ noCost \in [S -> Int]
  BY <1>2 DEF BasisOK, Summary
<1>4. value \in [S -> Int]
  BY <1>1 DEF Asset
<1>5. over \in [S -> Int]
  <2>1. ASSUME NEW i \in S PROVE Over(assets[i], q) \in Int
    <3>1. Worths(Parts(assets[i], q)) \in Int
      BY <1>1, PartsTyped, PartsInt
    <3>2. assets[i].value \in Int
      BY <1>1 DEF Asset
    <3> QED BY <3>1, <3>2 DEF Over, Or0
  <2> QED BY <2>1
<1>6. \A i \in S : current[i] + untracked[i] = value[i] + over[i]
  BY <1>2 DEF BasisOK
<1>7. \A i \in S : untracked[i] = rewards[i] + noCost[i]
  BY <1>2 DEF BasisOK
<1>8. /\ Sum(bases).current = SumFunction(current)
      /\ Sum(bases).untracked = SumFunction(untracked)
      /\ Sum(bases).rewards = SumFunction(rewards)
      /\ Sum(bases).noCost = SumFunction(noCost)
  BY DEF Sum, BasesOK
<1>9. Worth(assets) = SumFunction(value) /\ Excess(assets, q) = SumFunction(over)
  BY DEF Worth, Excess
<1> HIDE DEF S, current, untracked, rewards, noCost, value, over
<1>10. SumFunction([i \in S |-> current[i] + untracked[i]]) = SumFunction(current) + SumFunction(untracked)
  BY <1>1, <1>3, SumPlus
<1>11. SumFunction([i \in S |-> value[i] + over[i]]) = SumFunction(value) + SumFunction(over)
  BY <1>1, <1>4, <1>5, SumPlus
<1>12. [i \in S |-> current[i] + untracked[i]] = [i \in S |-> value[i] + over[i]]
  BY <1>6
<1>13. SumFunction([i \in S |-> rewards[i] + noCost[i]]) = SumFunction(rewards) + SumFunction(noCost)
  BY <1>1, <1>3, SumPlus
<1>14. [i \in S |-> rewards[i] + noCost[i]] = untracked
  BY <1>3, <1>7
<1>15. Sum(bases).current + Sum(bases).untracked = Worth(assets) + Excess(assets, q)
  BY <1>8, <1>9, <1>10, <1>11, <1>12
<1>16. Sum(bases).untracked = Sum(bases).rewards + Sum(bases).noCost
  BY <1>8, <1>13, <1>14
<1> QED BY <1>15, <1>16 DEF Balanced

(* A ratio needs a cost and a worth that are positive. *)
LEMMA RatiosPositive ==
  ASSUME NEW assets \in Seq(Asset), NEW q, \A i \in DOMAIN assets : HasQuotes(assets[i], q)
  PROVE  RatiosOK(Ratios(assets, q))
<1> DEFINE filled == Filled(assets, q)
           Invested(k) == SumFunction([i \in Backed(assets, k) |-> filled[i].invested])
           Current(k) == SumFunction([i \in Backed(assets, k) |-> filled[i].current])
<1>1. \A i \in DOMAIN assets : filled[i] \in Summary
  BY ListDomain, BasisTyped DEF Filled
<1> HIDE DEF filled
<1>2. ASSUME NEW k PROVE Invested(k) \in Int /\ Current(k) \in Int
  <2>1. Backed(assets, k) \subseteq DOMAIN assets
    BY DEF Backed
  <2>2. IsFiniteSet(Backed(assets, k))
    BY <2>1, ListDomain, FS_Subset
  <2>3. [i \in Backed(assets, k) |-> filled[i].invested] \in [Backed(assets, k) -> Int]
    BY <1>1, <2>1 DEF Summary
  <2>4. [i \in Backed(assets, k) |-> filled[i].current] \in [Backed(assets, k) -> Int]
    BY <1>1, <2>1 DEF Summary
  <2> QED BY <2>2, <2>3, <2>4, SumInt
<1>3. Ratios(assets, q) =
        [k \in {x \in {Kind(assets[i]) : i \in DOMAIN assets} \ FlatKinds :
                  Invested(x) > 0 /\ Current(x) > 0} |-> Part(Invested(k), Current(k))]
  BY DEF Ratios, filled
<1> HIDE DEF Invested, Current
<1>4. ASSUME NEW k \in DOMAIN Ratios(assets, q)
      PROVE  Ratios(assets, q)[k].cost \in Nat \ {0} /\ Ratios(assets, q)[k].worth \in Nat \ {0}
  <2>1. Invested(k) > 0 /\ Current(k) > 0 /\ Ratios(assets, q)[k] = Part(Invested(k), Current(k))
    BY <1>3
  <2> QED BY <1>2, <2>1 DEF Part
<1> QED BY <1>4 DEF RatiosOK

(* A ratio is that of the holdings of its kind, and there is one for each  *)
(* kind whose holdings cost and fetch something.                           *)
HasReturn(l, k) == k \notin FlatKinds /\ Spent(l, k) > 0 /\ Fetching(l, k) > 0

RatioIs(l, k) ==
  /\ k \in DOMAIN Ratios(l, Quote) <=> HasReturn(l, k)
  /\ HasReturn(l, k) => Ratios(l, Quote)[k] = Part(Spent(l, k), Fetching(l, k))

LEMMA RatiosOfHoldings ==
  ASSUME NEW l, NEW k PROVE RatioIs(l, k)
<1> DEFINE filled == Filled(l, Quote)
           Invested(x) == SumFunction([i \in Backed(l, x) |-> filled[i].invested])
           Current(x) == SumFunction([i \in Backed(l, x) |-> filled[i].current])
           kinds == {Kind(l[i]) : i \in DOMAIN l} \ FlatKinds
<1>1. Ratios(l, Quote) = [x \in {y \in kinds : Invested(y) > 0 /\ Current(y) > 0} |->
                            Part(Invested(x), Current(x))]
  BY DEF Ratios
<1>2. \A i \in DOMAIN l : /\ filled[i].invested = Costs(Parts(l[i], Quote))
                          /\ filled[i].current = Worths(Parts(l[i], Quote))
  BY BasisFields DEF Filled
<1> HIDE DEF filled
<1>3. ASSUME k \notin FlatKinds
      PROVE  Invested(k) = Spent(l, k) /\ Current(k) = Fetching(l, k)
  <2>1. Backed(l, k) = Held(l, k)
    BY <1>3 DEF Backed, Held, IsFlatMarket
  <2>2. \A i \in Held(l, k) : i \in DOMAIN l
    BY DEF Held
  <2>3. [i \in Backed(l, k) |-> filled[i].invested]
          = [i \in Held(l, k) |-> Costs(Parts(l[i], Quote))]
    BY <1>2, <2>1, <2>2
  <2>4. [i \in Backed(l, k) |-> filled[i].current]
          = [i \in Held(l, k) |-> Worths(Parts(l[i], Quote))]
    BY <1>2, <2>1, <2>2
  <2> QED BY <2>3, <2>4, Zenon DEF Spent, Fetching
<1>4. ASSUME k \notin FlatKinds, Spent(l, k) > 0 PROVE k \in kinds
  <2>1. ASSUME Held(l, k) = {} PROVE FALSE
    <3>1. DOMAIN [i \in Held(l, k) |-> Costs(Parts(l[i], Quote))] = {}
      BY <2>1
    <3>2. Spent(l, k) = 0
      BY <3>1, SumEmpty, Zenon DEF Spent
    <3> QED BY <1>4, <3>2
  <2> QED BY <1>4, <2>1 DEF Held
<1>5. \A x \in kinds : x \notin FlatKinds
  OBVIOUS
<1> HIDE DEF kinds, Invested, Current
<1>6. k \in DOMAIN Ratios(l, Quote) <=> k \in kinds /\ Invested(k) > 0 /\ Current(k) > 0
  BY <1>1
<1>7. k \in DOMAIN Ratios(l, Quote) => Ratios(l, Quote)[k] = Part(Invested(k), Current(k))
  BY <1>1
<1>8. CASE k \in FlatKinds
  <2>1. k \notin DOMAIN Ratios(l, Quote) /\ ~HasReturn(l, k)
    BY <1>5, <1>6, <1>8 DEF HasReturn
  <2> QED BY <2>1 DEF RatioIs
<1>9. CASE k \notin FlatKinds
  <2>1. k \in DOMAIN Ratios(l, Quote) <=> HasReturn(l, k)
    BY <1>3, <1>4, <1>6, <1>9 DEF HasReturn
  <2>2. HasReturn(l, k) => Ratios(l, Quote)[k] = Part(Spent(l, k), Fetching(l, k))
    BY <1>3, <1>7, <1>9, <2>1
  <2> QED BY <2>1, <2>2 DEF RatioIs
<1> QED BY <1>8, <1>9

(* What an estimate adds to the bases of the assets.                       *)
CostOf(a, l) == (a.value * Spent(l, Kind(a))) \div Fetching(l, Kind(a))

(* One asset: that of a flat asset of a kind with a return, and no other,  *)
(* is moved to Invested and Current.                                       *)
Estimates(e, b, a, l) ==
  IF a.type \notin StructuredTypes /\ HasReturn(l, Kind(a))
  THEN /\ CostOf(a, l) \in Int /\ a.value \in Int
       /\ e.invested = b.invested + CostOf(a, l)
       /\ e.current = b.current + a.value
       /\ e.estimated = TRUE
  ELSE e = b /\ b.estimated = FALSE

LEMMA OneEstimate ==
  ASSUME NEW a \in Asset, NEW q, HasQuotes(a, q), NEW l, RatiosOK(Ratios(l, Quote))
  PROVE  Estimates(Estimate(a, ForAsset(a, q), Ratios(l, Quote)), ForAsset(a, q), a, l)
<1> DEFINE b == ForAsset(a, q)
           r == Ratios(l, Quote)
           e == Estimate(a, b, r)
           k == Kind(a)
<1>0. RatioIs(l, k)
  BY RatiosOfHoldings
<1>1. b.estimated = FALSE
  BY BasisFields
<1>2. IsFlatMarket(a) <=> k \notin FlatKinds /\ a.type \notin StructuredTypes
  BY DEF IsFlatMarket
<1>3. CASE ~(a.type \notin StructuredTypes /\ HasReturn(l, k))
  <2>1. ~(k \in DOMAIN r /\ IsFlatMarket(a))
    BY <1>0, <1>2, <1>3 DEF RatioIs, HasReturn
  <2>2. e = b
    BY <2>1 DEF Estimate
  <2> HIDE DEF b, e
  <2>3. Estimates(e, b, a, l)
    BY <1>1, <1>3, <2>2, Zenon DEF Estimates
  <2> QED BY <2>3 DEF b, e
<1>4. CASE a.type \notin StructuredTypes /\ HasReturn(l, k)
  <2>1. k \in DOMAIN r /\ IsFlatMarket(a)
    BY <1>0, <1>2, <1>4 DEF RatioIs, HasReturn
  <2>2. r[k].cost = Spent(l, k) /\ r[k].worth = Fetching(l, k)
    BY <1>0, <1>4 DEF RatioIs, Part
  <2>3. (a.value * r[k].cost) \div r[k].worth = CostOf(a, l)
    BY <2>2 DEF CostOf
  <2>4. a.value \in Int /\ a.value * r[k].cost \in Int /\ r[k].worth \in Nat \ {0}
    BY <2>1 DEF Asset, RatiosOK
  <2>5. CostOf(a, l) \in Int
    <3>1. (a.value * r[k].cost) \div r[k].worth \in Int
      BY <2>4, DivisionInt
    <3> QED BY <2>3, <3>1
  <2>6. b \in Summary
    BY BasisTyped
  <2>7. e = [b EXCEPT !.invested = b.invested + CostOf(a, l), !.current = b.current + a.value,
                      !.noCost = 0, !.untracked = b.rewards, !.estimated = TRUE]
    BY <2>1, <2>3 DEF Estimate
  <2> HIDE DEF b, e
  <2>8. e.invested = b.invested + CostOf(a, l) /\ e.current = b.current + a.value
    BY <2>6, <2>7 DEF Summary
  <2>9. e.estimated = TRUE
    BY <2>6, <2>7, Zenon DEF Summary
  <2>10. Estimates(e, b, a, l)
    BY <1>4, <2>4, <2>5, <2>8, <2>9, Zenon DEF Estimates
  <2> QED BY <2>10 DEF b, e
<1> QED BY <1>3, <1>4

(* All of a list: the sums over the flat assets with a return are what the *)
(* summary says over what is known.                                        *)
ReturnOf(b, l, q, h) ==
  LET known == Totals(l, q)
      flat == Estimable(l, h)
  IN  /\ b.invested = known.invested + SumFunction([i \in flat |-> CostOf(l[i], h)])
      /\ b.current = known.current + SumFunction([i \in flat |-> l[i].value])
      /\ b.estimated <=> flat # {}

LEMMA EstimatesInTotal ==
  ASSUME NEW l \in Seq(Asset), NEW q, \A i \in DOMAIN l : HasQuotes(l[i], q),
         NEW h, RatiosOK(Ratios(h, Quote))
  PROVE  ReturnOf(Estimated(l, q, Ratios(h, Quote)), l, q, h)
<1> DEFINE S == DOMAIN l
           F == Filled(l, q)
           e == [i \in S |-> Estimate(l[i], F[i], Ratios(h, Quote))]
           flat == Estimable(l, h)
           x == [i \in S |-> IF i \in flat THEN CostOf(l[i], h) ELSE 0]
           y == [i \in S |-> IF i \in flat THEN l[i].value ELSE 0]
<1>1. IsFiniteSet(S) /\ (\A i \in S : l[i] \in Asset)
  BY ListDomain
<1>2. DOMAIN F = S /\ DOMAIN e = S /\ (\A i \in S : F[i] = ForAsset(l[i], q))
  BY DEF Filled
<1>3. \A i \in S : F[i] \in Summary
  BY <1>1, <1>2, BasisTyped
<1>4. \A i \in S : Estimates(e[i], F[i], l[i], h)
  BY <1>1, <1>2, OneEstimate
<1>5. flat \subseteq S
  BY DEF Estimable
<1>6. \A i \in S : i \in flat <=> l[i].type \notin StructuredTypes /\ HasReturn(h, Kind(l[i]))
  BY DEF Estimable, HasReturn
<1>7. Estimated(l, q, Ratios(h, Quote)) = Sum(e) /\ Totals(l, q) = Sum(F)
  BY DEF Estimated, Totals
<1> HIDE DEF F, e, flat
<1>8. ASSUME NEW i \in S
      PROVE  /\ x[i] \in Int /\ y[i] \in Int
             /\ e[i].invested = F[i].invested + x[i] /\ e[i].current = F[i].current + y[i]
             /\ e[i].estimated <=> i \in flat
  <2>1. F[i].invested \in Int /\ F[i].current \in Int
    BY <1>3 DEF Summary
  <2>2. CASE i \in flat
    <3>1. /\ CostOf(l[i], h) \in Int /\ l[i].value \in Int
          /\ e[i].invested = F[i].invested + CostOf(l[i], h)
          /\ e[i].current = F[i].current + l[i].value
          /\ e[i].estimated = TRUE
      BY <1>4, <1>6, <2>2, Zenon DEF Estimates
    <3> QED BY <2>2, <3>1
  <2>3. CASE i \notin flat
    <3>1. e[i] = F[i] /\ F[i].estimated = FALSE
      BY <1>4, <1>6, <2>3, Zenon DEF Estimates
    <3>2. e[i].estimated = FALSE
      BY <3>1, Zenon
    <3> HIDE DEF S
    <3> QED BY <2>1, <2>3, <3>1, <3>2
  <2> QED BY <2>2, <2>3
<1>9. x \in [S -> Int] /\ y \in [S -> Int]
  BY <1>8
<1>10. /\ SumFunction(x) = SumFunction([i \in flat |-> CostOf(l[i], h)])
       /\ SumFunction(y) = SumFunction([i \in flat |-> l[i].value])
  <2>1. (\A i \in S \ flat : x[i] = 0) /\ (\A i \in S \ flat : y[i] = 0)
    OBVIOUS
  <2>2. Restrict(x, flat) = [i \in flat |-> CostOf(l[i], h)]
    BY <1>5 DEF Restrict
  <2>3. Restrict(y, flat) = [i \in flat |-> l[i].value]
    BY <1>5 DEF Restrict
  <2> HIDE DEF x, y, S
  <2>4. SumFunction(x) = SumFunction(Restrict(x, flat))
    BY <1>1, <1>5, <1>9, <2>1, SumSupport
  <2>5. SumFunction(y) = SumFunction(Restrict(y, flat))
    BY <1>1, <1>5, <1>9, <2>1, SumSupport
  <2> QED BY <2>2, <2>3, <2>4, <2>5
<1> DEFINE inv == [i \in S |-> F[i].invested]
           cur == [i \in S |-> F[i].current]
<1>11. inv \in [S -> Int] /\ cur \in [S -> Int]
  BY <1>3 DEF Summary
<1>12. /\ Sum(F).invested = SumFunction(inv) /\ Sum(F).current = SumFunction(cur)
       /\ Sum(e).invested = SumFunction([i \in S |-> e[i].invested])
       /\ Sum(e).current = SumFunction([i \in S |-> e[i].current])
  BY <1>2 DEF Sum
<1>13. Sum(e).estimated <=> \E i \in S : e[i].estimated
  BY <1>2, Zenon DEF Sum
<1>14. Sum(e).estimated <=> flat # {}
  BY <1>5, <1>8, <1>13
<1>15. [i \in S |-> e[i].invested] = [i \in S |-> inv[i] + x[i]]
  BY <1>8
<1>16. [i \in S |-> e[i].current] = [i \in S |-> cur[i] + y[i]]
  BY <1>8
<1> HIDE DEF inv, cur, x, y, S
<1>17. SumFunction([i \in S |-> inv[i] + x[i]]) = SumFunction(inv) + SumFunction(x)
  BY <1>1, <1>9, <1>11, SumPlus
<1>18. SumFunction([i \in S |-> cur[i] + y[i]]) = SumFunction(cur) + SumFunction(y)
  BY <1>1, <1>9, <1>11, SumPlus
<1>19. Sum(e).invested = Sum(F).invested + SumFunction([i \in flat |-> CostOf(l[i], h)])
  BY <1>10, <1>12, <1>15, <1>17
<1>20. Sum(e).current = Sum(F).current + SumFunction([i \in flat |-> l[i].value])
  BY <1>10, <1>12, <1>16, <1>18
<1> QED BY <1>7, <1>14, <1>19, <1>20, Zenon DEF ReturnOf, flat

-----------------------------------------------------------------------------
(* The inductive invariant.                                                *)

Positive(l) == \A i \in DOMAIN l : l[i].value >= 0

Quotings == {Quote} \cup {History[d] : d \in Days}

(* A list of assets, or the empty one the server's estimates come from.    *)
Lists == AssetLists \cup {<<>>}

(* The lists and prices the constants allow. *)
LEMMA ListsOK ==
  ASSUME NEW l \in Lists, NEW q \in Quotings
  PROVE  /\ l \in Seq(Asset)
         /\ \A i \in DOMAIN l : l[i] \in Asset /\ HasQuotes(l[i], q)
<1>1. CASE l \in AssetLists
  <2>1. l \in Seq(Asset)
    BY <1>1, AssetsAssumption
  <2>2. \A i \in DOMAIN l : l[i] \in Asset
    BY <2>1, ListDomain
  <2> QED BY <1>1, <2>1, <2>2, QuotesAssumption DEF Quotings
<1>2. CASE l = <<>>
  BY <1>2
<1> QED BY <1>1, <1>2 DEF Lists

(* What is estimated for them, from any ratios. *)
LEMMA EstimatedOK ==
  ASSUME NEW l \in AssetLists, NEW q \in Quotings, NEW r, RatiosOK(r)
  PROVE  /\ Estimated(l, q, r) \in Summary
         /\ Positive(l) => Balanced(Estimated(l, q, r), l, q)
<1> DEFINE e == [i \in DOMAIN l |-> Estimate(l[i], Filled(l, q)[i], r)]
<1>1. l \in Seq(Asset) /\ \A i \in DOMAIN l : l[i] \in Asset /\ HasQuotes(l[i], q)
  BY ListsOK DEF Lists
<1>2. \A i \in DOMAIN l : e[i] = Estimate(l[i], ForAsset(l[i], q), r)
  BY DEF Filled
<1>3. \A i \in DOMAIN l : BasisOK(e[i], l[i], q)
  <2> SUFFICES ASSUME NEW i \in DOMAIN l PROVE BasisOK(e[i], l[i], q)
    OBVIOUS
  <2>1. BasisOK(Estimate(l[i], ForAsset(l[i], q), r), l[i], q)
    BY <1>1, BasisEstimated
  <2> QED BY <1>2, <2>1, Zenon
<1>4. DOMAIN e = DOMAIN l
  OBVIOUS
<1>5. Estimated(l, q, r) = Sum(e)
  BY DEF Estimated
<1> HIDE DEF e
<1>6. BasesOK(e, l, q)
  BY <1>3, <1>4 DEF BasesOK
<1>7. Sum(e) \in Summary
  BY <1>1, <1>6, SumTyped
<1>8. Positive(l) => Balanced(Sum(e), l, q)
  BY <1>1, <1>6, SumBalanced DEF Positive
<1> QED BY <1>5, <1>7, <1>8

(* The ratios of any list there can be are of positive numbers. *)
LEMMA RatiosFine == ASSUME NEW l \in Lists PROVE RatiosOK(Ratios(l, Quote))
<1>1. Quote \in Quotings
  BY DEF Quotings
<1> QED BY <1>1, ListsOK, RatiosPositive

(* The server's totals are an estimate from no holdings. *)
LEMMA TotalsEstimated ==
  ASSUME NEW l PROVE Totals(l, Quote) = Estimated(l, Quote, Ratios(<<>>, Quote))
<1> DEFINE F == Filled(l, Quote)
           r == Ratios(<<>>, Quote)
<1>1. DOMAIN r = {}
  <2>1. {Kind(<<>>[i]) : i \in DOMAIN <<>>} = {}
    OBVIOUS
  <2> QED BY <2>1 DEF Ratios
<1> HIDE DEF r
<1>2. F = [i \in DOMAIN l |-> ForAsset(l[i], Quote)]
  BY DEF Filled
<1>3. \A i \in DOMAIN l : Estimate(l[i], F[i], r) = F[i]
  BY <1>1 DEF Estimate
<1> HIDE DEF F
<1>4. [i \in DOMAIN l |-> Estimate(l[i], F[i], r)] = F
  BY <1>2, <1>3
<1> QED BY <1>4 DEF Totals, Estimated, F, r

-----------------------------------------------------------------------------
(* What a summary is said to be computed from. *)
SummaryOf(s) == Estimated(s.assets, s.quote, Ratios(s.holdings, Quote))

Sources == [assets : AssetLists, quote : Quotings, holdings : Lists, late : BOOLEAN]

SourcesTyped == source \in [Days -> Sources] /\ backing \in Lists /\ moved \in BOOLEAN

(* The copies of a day are as the command has read them, but for today's   *)
(* after a rewrite.                                                        *)
AssetsRead ==
  next # 0 => \A d \in Days : snaps[d].assets = rows[d].assets \/ (d = Today /\ moved)

RatiosBacked == ratios = Unset \/ ratios = Ratios(backing, Quote)

(* A stored summary is that of its source, and the row holds the assets of *)
(* the source unless the source is late.                                   *)
Stored(r, s, d) ==
  /\ r.invested # Unset => r.invested = SummaryOf(s)
  /\ r.assets # s.assets => d = Today /\ s.late

Accounted == \A d \in Days : Stored(rows[d], source[d], d)

RowsInv == TypeOK /\ SourcesTyped /\ AssetsRead /\ RatiosBacked /\ Accounted

LEMMA TodayIsDay == Today \in Days /\ Days \subseteq Nat /\ 0 \notin Days
BY DaysAssumption DEF Days

(* A summary is typed and accounts for the assets of its source. *)
LEMMA SummaryOK ==
  ASSUME NEW s \in Sources
  PROVE  /\ SummaryOf(s) \in Summary
         /\ Positive(s.assets) => Balanced(SummaryOf(s), s.assets, s.quote)
<1>1. s.assets \in AssetLists /\ s.quote \in Quotings /\ s.holdings \in Lists
  BY DEF Sources
<1>2. RatiosOK(Ratios(s.holdings, Quote))
  BY <1>1, RatiosFine
<1> QED BY <1>1, <1>2, EstimatedOK DEF SummaryOf

(* The rows the server writes, now and before costs were tracked.          *)
LEMMA ServerRows ==
  ASSUME NEW l \in AssetLists, NEW d
  PROVE  /\ ByServer(l) \in Sources
         /\ Snapshot(l) \in Row /\ Stored(Snapshot(l), ByServer(l), d)
         /\ Untracked(l) \in Row /\ Stored(Untracked(l), ByServer(l), d)
<1>1. ByServer(l) \in Sources
  BY DEF ByServer, From, Sources, Quotings, Lists
<1>2. SummaryOf(ByServer(l)) = Totals(l, Quote)
  BY TotalsEstimated DEF SummaryOf, ByServer, From
<1>3. Totals(l, Quote) \in Summary
  BY <1>1, <1>2, SummaryOK
<1>4. Snapshot(l) \in Row /\ Untracked(l) \in Row
  BY <1>3 DEF Snapshot, Untracked, Row
<1>5. ByServer(l).assets = l
  BY DEF ByServer, From
<1>6. Stored(Snapshot(l), ByServer(l), d)
  BY <1>2, <1>5 DEF Snapshot, Stored
<1>7. Stored(Untracked(l), ByServer(l), d)
  BY <1>5 DEF Untracked, Stored
<1> QED BY <1>1, <1>4, <1>6, <1>7

LEMMA InitRows == Init => RowsInv
<1> SUFFICES ASSUME Init PROVE RowsInv
  OBVIOUS
<1>1. PICK first \in 1..(Today + 1), old \in [Days \ {Today} -> OldLists] :
        LET copies == [d \in Days |-> IF d = Today THEN live ELSE old[d]]
        IN  /\ rows = [d \in Days |-> IF d < first THEN Untracked(copies[d])
                                                  ELSE Snapshot(copies[d])]
            /\ source = [d \in Days |-> ByServer(copies[d])]
  BY DEF Init
<1> DEFINE copies == [d \in Days |-> IF d = Today THEN live ELSE old[d]]
<1>2. /\ live \in Portfolios /\ all = FALSE /\ snaps = <<>> /\ next = 0 /\ ratios = Unset
      /\ edits = 0 /\ backing = <<>> /\ moved = FALSE
  BY DEF Init
<1>3. \A d \in Days : copies[d] \in AssetLists
  BY <1>2 DEF AssetLists
<1>4. /\ rows = [d \in Days |-> IF d < first THEN Untracked(copies[d]) ELSE Snapshot(copies[d])]
      /\ source = [d \in Days |-> ByServer(copies[d])]
  BY <1>1
<1> HIDE DEF copies
<1>5. ASSUME NEW d \in Days
      PROVE  rows[d] \in Row /\ source[d] \in Sources /\ Stored(rows[d], source[d], d)
  <2>1. source[d] = ByServer(copies[d])
    BY <1>4
  <2>2. rows[d] = Untracked(copies[d]) \/ rows[d] = Snapshot(copies[d])
    BY <1>4
  <2> QED BY <1>3, <2>1, <2>2, ServerRows
<1>6. rows \in [Days -> Row] /\ source \in [Days -> Sources]
  <2>1. rows = [d \in Days |-> rows[d]] /\ source = [d \in Days |-> source[d]]
    BY <1>4
  <2> QED BY <1>5, <2>1
<1>7. TypeOK
  <2>1. all \in BOOLEAN
    BY <1>2, Zenon
  <2> QED BY <1>2, <1>6, <2>1, DaysAssumption DEF TypeOK
<1>8. SourcesTyped /\ AssetsRead /\ RatiosBacked
  BY <1>2, <1>6 DEF SourcesTyped, AssetsRead, RatiosBacked, Lists
<1>9. Accounted
  BY <1>5 DEF Accounted
<1> QED BY <1>7, <1>8, <1>9 DEF RowsInv

(* The server puts today's summary with the assets it was computed from. *)
LEMMA RewriteRows == ASSUME RowsInv, Rewrite PROVE RowsInv'
<1> DEFINE r == Snapshot(live')
           s == ByServer(live')
<1>1. /\ live' \in Portfolios /\ rows' = [rows EXCEPT ![Today] = r]
      /\ source' = [source EXCEPT ![Today] = s] /\ moved' = TRUE
      /\ UNCHANGED <<all, snaps, next, ratios, backing>>
  BY DEF Rewrite
<1>2. r \in Row /\ s \in Sources /\ Stored(r, s, Today)
  BY <1>1, ServerRows DEF AssetLists
<1> HIDE DEF r, s
<1>3. rows \in [Days -> Row] /\ source \in [Days -> Sources]
  BY DEF RowsInv, TypeOK, SourcesTyped
<1>4. rows' \in [Days -> Row] /\ source' \in [Days -> Sources]
  BY <1>1, <1>2, <1>3
<1>5. /\ rows'[Today] = r /\ source'[Today] = s
      /\ \A d \in Days \ {Today} : rows'[d] = rows[d] /\ source'[d] = source[d]
  BY <1>1, <1>3, TodayIsDay
<1>6. TypeOK'
  BY <1>1, <1>4, DaysAssumption DEF RowsInv, TypeOK, Rewrite
<1>7. SourcesTyped' /\ RatiosBacked'
  BY <1>1, <1>4 DEF RowsInv, SourcesTyped, RatiosBacked
<1>8. AssetsRead'
  BY <1>1, <1>5 DEF RowsInv, AssetsRead
<1>9. Accounted'
  BY <1>2, <1>5 DEF RowsInv, Accounted
<1> QED BY <1>6, <1>7, <1>8, <1>9 DEF RowsInv

LEMMA StartRows == ASSUME RowsInv, Start PROVE RowsInv'
<1>1. TypeOK'
  BY DaysAssumption DEF RowsInv, TypeOK, Start
<1>2. SourcesTyped' /\ AssetsRead' /\ RatiosBacked'
  BY DEF RowsInv, SourcesTyped, AssetsRead, RatiosBacked, Start
<1>3. Accounted'
  BY DEF RowsInv, Accounted, Start
<1> QED BY <1>1, <1>2, <1>3 DEF RowsInv

LEMMA SkipRows == ASSUME RowsInv, Skip PROVE RowsInv'
<1>1. TypeOK'
  <2>1. next \in Days /\ next # 0 /\ next' # 0 /\ next' \in 0..(Today + 1)
    BY DaysAssumption DEF Skip, Days
  <2> QED BY <2>1 DEF RowsInv, TypeOK, Skip
<1>2. SourcesTyped' /\ AssetsRead' /\ RatiosBacked'
  BY TodayIsDay DEF RowsInv, SourcesTyped, AssetsRead, RatiosBacked, Skip
<1>3. Accounted'
  BY DEF RowsInv, Accounted, Skip
<1> QED BY <1>1, <1>2, <1>3 DEF RowsInv

(* The assets the ratios come from are kept beside them. *)
LEMMA RatiosRows == ASSUME RowsInv, LoadRatios PROVE RowsInv'
<1>1. TypeOK'
  BY DEF RowsInv, TypeOK, LoadRatios
<1>2. SourcesTyped' /\ AssetsRead' /\ RatiosBacked'
  BY DEF RowsInv, TypeOK, SourcesTyped, AssetsRead, RatiosBacked, LoadRatios, Lists, AssetLists
<1>3. Accounted'
  BY DEF RowsInv, Accounted, LoadRatios
<1> QED BY <1>1, <1>2, <1>3 DEF RowsInv

(* The command puts a summary of the copies it has read on the row, which  *)
(* still has those copies, unless it is today's and has been rewritten.    *)
LEMMA FillRows == ASSUME RowsInv, Fill PROVE RowsInv'
<1> DEFINE e == Estimated(snaps[next].assets, History[next], ratios)
           s == From(snaps[next].assets, History[next], backing, moved /\ next = Today)
<1>1. /\ rows \in [Days -> Row] /\ snaps \in [Days -> Row] /\ next \in Days /\ next # 0
      /\ source \in [Days -> Sources]
  BY TodayIsDay DEF RowsInv, TypeOK, SourcesTyped, Fill
<1>2. s \in Sources /\ s.assets = snaps[next].assets /\ (s.late <=> moved /\ next = Today)
  <2>1. snaps[next].assets \in AssetLists /\ History[next] \in Quotings /\ backing \in Lists
    BY <1>1 DEF RowsInv, SourcesTyped, Row, Quotings
  <2> QED BY <2>1 DEF From, Sources
<1>3. e = SummaryOf(s)
  <2>1. ratios = Ratios(backing, Quote)
    BY DEF RowsInv, RatiosBacked, Fill
  <2> QED BY <2>1 DEF SummaryOf, From
<1>4. e \in Summary
  BY <1>2, <1>3, SummaryOK
<1>5. /\ Apply => /\ rows' = [rows EXCEPT ![next].invested = e]
                  /\ source' = [source EXCEPT ![next] = s]
      /\ ~Apply => UNCHANGED <<rows, source>>
  BY DEF Fill
<1>6. next' = next + 1 /\ UNCHANGED <<live, all, snaps, ratios, edits, backing, moved>>
  BY DEF Fill
<1> HIDE DEF e, s
<1>7. rows' \in [Days -> Row] /\ source' \in [Days -> Sources]
  BY <1>1, <1>2, <1>4, <1>5 DEF Row
<1>8. ASSUME NEW d \in Days
      PROVE  /\ rows'[d].assets = rows[d].assets
             /\ d # next \/ ~Apply => rows'[d] = rows[d] /\ source'[d] = source[d]
             /\ d = next /\ Apply => rows'[d].invested = e /\ source'[d] = s
  BY <1>1, <1>5 DEF Row
<1>9. TypeOK'
  <2>1. next' # 0 /\ next' \in 0..(Today + 1)
    BY <1>1, <1>6, DaysAssumption DEF Days
  <2> QED BY <1>1, <1>6, <1>7, <2>1 DEF RowsInv, TypeOK
<1>10. SourcesTyped' /\ RatiosBacked'
  BY <1>6, <1>7 DEF RowsInv, SourcesTyped, RatiosBacked
<1>11. AssetsRead'
  BY <1>1, <1>6, <1>8 DEF RowsInv, AssetsRead
<1>12. ASSUME NEW d \in Days PROVE Stored(rows'[d], source'[d], d)
  <2>1. CASE d # next \/ ~Apply
    BY <1>8, <2>1 DEF RowsInv, Accounted
  <2>2. CASE d = next /\ Apply
    <3>1. snaps[d].assets = rows[d].assets \/ (d = Today /\ moved)
      BY <1>1, <2>2 DEF RowsInv, AssetsRead
    <3>2. rows'[d].assets = rows[d].assets /\ rows'[d].invested = e /\ source'[d] = s
      BY <1>8, <2>2
    <3> QED BY <1>2, <1>3, <2>2, <3>1, <3>2 DEF Stored
  <2> QED BY <2>1, <2>2
<1>13. Accounted'
  BY <1>12 DEF Accounted
<1> QED BY <1>9, <1>10, <1>11, <1>13 DEF RowsInv

LEMMA StopRows == ASSUME RowsInv, Stop PROVE RowsInv'
<1>1. TypeOK'
  <2>1. all' \in BOOLEAN
    BY Zenon DEF Stop
  <2> QED BY <2>1, DaysAssumption DEF RowsInv, TypeOK, Stop
<1>2. SourcesTyped' /\ AssetsRead' /\ RatiosBacked'
  BY DEF RowsInv, SourcesTyped, AssetsRead, RatiosBacked, Stop, Lists
<1>3. Accounted'
  BY DEF RowsInv, Accounted, Stop
<1> QED BY <1>1, <1>2, <1>3 DEF RowsInv

LEMMA StepRows == RowsInv /\ [Next]_vars => RowsInv'
<1> SUFFICES ASSUME RowsInv, [Next]_vars PROVE RowsInv'
  OBVIOUS
<1>1. CASE UNCHANGED vars
  <2>1. TypeOK' /\ SourcesTyped' /\ AssetsRead' /\ RatiosBacked'
    BY <1>1 DEF RowsInv, TypeOK, SourcesTyped, AssetsRead, RatiosBacked, vars
  <2>2. Accounted'
    BY <1>1 DEF RowsInv, Accounted, vars
  <2> QED BY <2>1, <2>2 DEF RowsInv
<1> QED
  BY <1>1, RewriteRows, StartRows, SkipRows, RatiosRows, FillRows, StopRows DEF Next

LEMMA AlwaysRows == Spec => []RowsInv
BY InitRows, StepRows, PTL DEF Spec

(***************************************************************************)
(* The type invariant of the command and the server: in every summary the  *)
(* numbers are numbers, and what has no known cost is never negative.      *)
(***************************************************************************)
THEOREM TypeCorrect == Spec => []TypeOK
<1>1. RowsInv => TypeOK
  BY DEF RowsInv
<1> QED BY <1>1, AlwaysRows, PTL

(***************************************************************************)
(* Nothing is lost or counted twice: every summary, whoever computed it,   *)
(* accounts for the value of the assets it was computed from, and those    *)
(* are the assets the row holds, but for a today's row that the server has *)
(* rewritten between the command's read and its write.                     *)
(***************************************************************************)
THEOREM ValueConserved == Spec => []Conserved
<1>1. RowsInv => Conserved
  <2> SUFFICES ASSUME RowsInv, NEW d \in Days, rows[d].invested # Unset
               PROVE  /\ (\A i \in DOMAIN source[d].assets : source[d].assets[i].value >= 0)
                           => Balanced(rows[d].invested, source[d].assets, source[d].quote)
                      /\ rows[d].assets # source[d].assets => d = Today /\ source[d].late
    BY DEF Conserved
  <2>1. source[d] \in Sources
    BY DEF RowsInv, SourcesTyped
  <2>2. Stored(rows[d], source[d], d)
    BY DEF RowsInv, Accounted
  <2>3. rows[d].invested = SummaryOf(source[d])
    BY <2>2 DEF Stored
  <2>4. Positive(source[d].assets)
          => Balanced(rows[d].invested, source[d].assets, source[d].quote)
    BY <2>1, <2>3, SummaryOK
  <2> QED BY <2>2, <2>4 DEF Stored, Positive
<1> QED BY <1>1, AlwaysRows, PTL

(***************************************************************************)
(* Whatever the server does meanwhile, the flat assets of every stored     *)
(* summary show the return of the holdings the user had at one moment of   *)
(* the run that stored it.                                                 *)
(***************************************************************************)
THEOREM SameReturnHolds == Spec => []SameReturn
<1>1. RowsInv => SameReturn
  <2> SUFFICES ASSUME RowsInv, NEW d \in Days, rows[d].invested # Unset
               PROVE  ReturnOf(rows[d].invested, source[d].assets, source[d].quote,
                               source[d].holdings)
    BY Zenon DEF SameReturn, ReturnOf, CostOf
  <2>1. source[d] \in Sources /\ rows[d].invested = SummaryOf(source[d])
    BY DEF RowsInv, SourcesTyped, Accounted, Stored
  <2>2. /\ source[d].assets \in Lists /\ source[d].quote \in Quotings
        /\ source[d].holdings \in Lists
    BY <2>1 DEF Sources, Lists
  <2>3. /\ source[d].assets \in Seq(Asset)
        /\ \A i \in DOMAIN source[d].assets : HasQuotes(source[d].assets[i], source[d].quote)
    BY <2>2, ListsOK
  <2>4. RatiosOK(Ratios(source[d].holdings, Quote))
    BY <2>2, RatiosFine
  <2>5. ReturnOf(SummaryOf(source[d]), source[d].assets, source[d].quote, source[d].holdings)
    BY <2>3, <2>4, EstimatesInTotal, Zenon DEF SummaryOf
  <2> QED BY <2>1, <2>5
<1> QED BY <1>1, AlwaysRows, PTL

-----------------------------------------------------------------------------
(* Like with like.                                                        *)

(* Without what one of them was bought for, the holdings that count are    *)
(* the others.                                                             *)
Forgetful(a, j) == [a EXCEPT !.holdings[j].buy = 0]

LEMMA ForgetfulFields ==
  ASSUME NEW a \in Asset, NEW j \in DOMAIN a.holdings
  PROVE  LET f == Forgetful(a, j)
         IN  /\ f.type = a.type /\ f.category = a.category /\ f.value = a.value
             /\ f.usd = a.usd /\ f.invested = a.invested
             /\ DOMAIN f.holdings = DOMAIN a.holdings
             /\ f.holdings[j].buy = 0
             /\ \A i \in DOMAIN a.holdings \ {j} : f.holdings[i] = a.holdings[i]
<1>1. a.holdings[j] \in Holding
  BY DEF Asset
<1> QED BY <1>1 DEF Forgetful, Asset, Holding

(* It changes neither the kind nor the other holdings. *)
LEMMA ForgetfulCounts ==
  ASSUME NEW a \in Asset, NEW j \in DOMAIN a.holdings, NEW q
  PROVE  LET f == Forgetful(a, j)
         IN  /\ Kind(f) = Kind(a) /\ (ByHolding(f) <=> ByHolding(a))
             /\ Counted(f, q) = Counted(a, q) \ {j}
             /\ \A i \in DOMAIN a.holdings \ {j} :
                  OfHolding(f, f.holdings[i], q) = OfHolding(a, a.holdings[i], q)
<1> DEFINE f == Forgetful(a, j)
<1>1. /\ f.type = a.type /\ f.category = a.category /\ f.value = a.value
      /\ f.usd = a.usd /\ f.invested = a.invested
      /\ DOMAIN f.holdings = DOMAIN a.holdings
      /\ f.holdings[j].buy = 0
      /\ \A i \in DOMAIN a.holdings \ {j} : f.holdings[i] = a.holdings[i]
  BY ForgetfulFields, Zenon
<1> HIDE DEF f
<1>2. Kind(f) = Kind(a) /\ (ByHolding(f) <=> ByHolding(a))
  BY <1>1 DEF Kind, ByHolding, IsWhole
<1>3. Fx(f) = Fx(a)
  BY <1>1 DEF Fx
<1>4. ~Counts(f, f.holdings[j], q)
  BY <1>1 DEF Counts, IsKnown
<1>5. ASSUME NEW i \in DOMAIN a.holdings \ {j}
      PROVE  /\ Counts(f, f.holdings[i], q) <=> Counts(a, a.holdings[i], q)
             /\ OfHolding(f, f.holdings[i], q) = OfHolding(a, a.holdings[i], q)
  <2>1. f.holdings[i] = a.holdings[i]
    BY <1>1
  <2> QED BY <1>1, <1>3, <2>1 DEF Counts, OfHolding
<1>6. Counted(f, q) = Counted(a, q) \ {j}
  BY <1>1, <1>4, <1>5 DEF Counted
<1> QED BY <1>2, <1>5, <1>6 DEF f

(* Products of positive numbers are positive. *)
LEMMA Positives ==
  ASSUME NEW x \in Int, NEW y \in Int, x > 0, y > 0 PROVE x * y \in Int /\ x * y > 0
OBVIOUS

(* A holding that counts is worth something just when it cost something,   *)
(* but for a coin at a price of 0, which is worth nothing.                 *)
LEMMA CostedWorth ==
  ASSUME NEW a \in Asset, NEW q, HasQuotes(a, q), a.type \in StructuredTypes,
         a.type \in {"govt_schemes", "bonds"} =>
           \A j \in DOMAIN a.holdings : a.holdings[j].last > 0,
         NEW i \in Counted(a, q)
  PROVE  LET p == OfHolding(a, a.holdings[i], q)
         IN  /\ p.worth >= 0
             /\ IF IsWorthless(a, a.holdings[i], q) THEN p.worth = 0
                                                   ELSE p.worth = 0 <=> p.cost = 0
<1> DEFINE h == a.holdings[i]
           x == Fx(a)
<1>1. h \in Holding /\ Counts(a, h, q) /\ i \in DOMAIN a.holdings
  BY DEF Counted, Asset
<1>2. h.units \in Nat /\ h.buy \in Int /\ h.last \in Int /\ x \in Int
  BY <1>1, FxInt DEF Holding
<1>3. a.type = "crypto" => q[h.name] \in Nat
  BY <1>1 DEF HasQuotes, Counts
<1>4. a.type \in {"govt_schemes", "bonds"} => h.last > 0
  BY <1>1
<1> HIDE DEF h, x
<1>5. \A u \in Nat, b, l \in Int : b > 0 /\ l > 0 => u * l >= 0 /\ (u * l = 0 <=> u * b = 0)
  <2> SUFFICES ASSUME NEW u \in Nat, NEW b \in Int, NEW l \in Int, b > 0, l > 0
               PROVE  u * l >= 0 /\ (u * l = 0 <=> u * b = 0)
    OBVIOUS
  <2>1. CASE u = 0
    BY <2>1
  <2>2. CASE u > 0
    BY <2>2, Positives
  <2> QED BY <2>1, <2>2
<1>6. \A u \in Nat, b, l \in Int : b > 0 /\ l > 0 /\ x > 0 =>
        u * l * x >= 0 /\ (u * l * x = 0 <=> u * b * x = 0)
  <2> SUFFICES ASSUME NEW u \in Nat, NEW b \in Int, NEW l \in Int, b > 0, l > 0, x > 0
               PROVE  u * l * x >= 0 /\ (u * l * x = 0 <=> u * b * x = 0)
    OBVIOUS
  <2>1. CASE u = 0
    BY <1>2, <2>1
  <2>2. CASE u > 0
    <3>1. u * l > 0 /\ u * b > 0 /\ u * l \in Int /\ u * b \in Int
      BY <2>2, Positives
    <3>2. u * l * x > 0 /\ u * l * x \in Int
      BY <1>2, <3>1, Positives
    <3>3. u * b * x > 0 /\ u * b * x \in Int
      BY <1>2, <3>1, Positives
    <3> QED BY <3>2, <3>3
  <2> QED BY <2>1, <2>2
<1>7. CASE a.type \in {"mutual_fund", "gold"}
  <2>1. h.buy > 0 /\ h.last > 0
    BY <1>1, <1>7 DEF Counts, IsKnown
  <2>2. OfHolding(a, h, q) = Part(h.units * h.buy, h.units * h.last)
    BY <1>7 DEF OfHolding
  <2> QED BY <1>2, <1>5, <1>7, <2>1, <2>2 DEF Part, IsWorthless, h
<1>8. CASE a.type = "us_stocks"
  <2>1. h.buy > 0 /\ h.last > 0 /\ x > 0
    BY <1>1, <1>8 DEF Counts, IsKnown, x
  <2>2. OfHolding(a, h, q) = Part(h.units * h.buy * x, h.units * h.last * x)
    BY <1>8 DEF OfHolding, x
  <2>3. /\ h.units * h.last * x >= 0
        /\ h.units * h.last * x = 0 <=> h.units * h.buy * x = 0
    BY <1>2, <1>6, <2>1
  <2> QED BY <1>8, <2>2, <2>3 DEF Part, IsWorthless, h
<1>9. CASE a.type = "crypto"
  <2>1. h.buy > 0 /\ x > 0
    BY <1>1, <1>9 DEF Counts, x
  <2>2. OfHolding(a, h, q) = Part(h.units * h.buy * x, h.units * q[h.name] * x)
    BY <1>9 DEF OfHolding, x
  <2>3. q[h.name] \in Nat
    BY <1>3, <1>9
  <2>4. IsWorthless(a, h, q) <=> q[h.name] = 0
    BY <1>9 DEF IsWorthless
  <2>5. CASE q[h.name] = 0
    <3>1. h.units * q[h.name] * x = 0
      BY <1>2, <2>5
    <3> QED BY <2>2, <2>4, <2>5, <3>1 DEF Part, h
  <2>6. CASE q[h.name] > 0
    <3>1. /\ h.units * q[h.name] * x >= 0
          /\ h.units * q[h.name] * x = 0 <=> h.units * h.buy * x = 0
      BY <1>2, <1>6, <2>1, <2>3, <2>6
    <3>2. ~IsWorthless(a, h, q)
      BY <2>4, <2>6
    <3> QED BY <2>2, <3>1, <3>2 DEF Part, h
  <2> QED BY <2>3, <2>5, <2>6
<1>10. CASE a.type \in {"govt_schemes", "bonds"}
  <2>1. h.buy > 0 /\ h.last > 0
    BY <1>1, <1>4, <1>10 DEF Counts
  <2>2. OfHolding(a, h, q) = Part(h.buy, h.last)
    BY <1>10 DEF OfHolding
  <2> QED BY <1>2, <1>10, <2>1, <2>2 DEF Part, IsWorthless, h
<1> QED BY <1>7, <1>8, <1>9, <1>10 DEF StructuredTypes

(* What one of the holdings that count adds to the sums. *)
LEMMA OneForgotten ==
  ASSUME NEW a \in Asset, NEW q, HasQuotes(a, q), ByHolding(a), NEW j \in DOMAIN a.holdings
  PROVE  LET f == Forgetful(a, j)
             p == OfHolding(a, a.holdings[j], q)
             counts == j \in Counted(a, q)
         IN  /\ Costs(Parts(a, q)) = Costs(Parts(f, q)) + Or0(p.cost, counts)
             /\ Worths(Parts(a, q)) = Worths(Parts(f, q)) + Or0(p.worth, counts)
             /\ Costs(Parts(f, q)) \in Int /\ Worths(Parts(f, q)) \in Int
<1> DEFINE f == Forgetful(a, j)
           C == Counted(a, q)
           D == Counted(f, q)
           cost == [i \in C |-> OfHolding(a, a.holdings[i], q).cost]
           worth == [i \in C |-> OfHolding(a, a.holdings[i], q).worth]
<1>1. /\ ByHolding(f) /\ D = C \ {j}
      /\ \A i \in DOMAIN a.holdings \ {j} :
           OfHolding(f, f.holdings[i], q) = OfHolding(a, a.holdings[i], q)
  BY ForgetfulCounts
<1>2. C \subseteq DOMAIN a.holdings
  BY DEF Counted
<1>3. IsFiniteSet(C) /\ IsFiniteSet(D)
  BY <1>1, <1>2, HoldingsFinite, FS_Subset
<1>4. cost \in [C -> Int] /\ worth \in [C -> Int]
  BY <1>2, HoldingTyped
<1>5. Parts(a, q) = [i \in C |-> OfHolding(a, a.holdings[i], q)]
  BY HoldingParts
<1>6. Parts(f, q) = [i \in D |-> OfHolding(f, f.holdings[i], q)]
  BY <1>1, HoldingParts
<1>7. Costs(Parts(a, q)) = SumFunction(cost) /\ Worths(Parts(a, q)) = SumFunction(worth)
  <2>1. [i \in DOMAIN Parts(a, q) |-> Parts(a, q)[i].cost] = cost
    BY <1>5
  <2>2. [i \in DOMAIN Parts(a, q) |-> Parts(a, q)[i].worth] = worth
    BY <1>5
  <2> HIDE DEF cost, worth
  <2> QED BY <2>1, <2>2 DEF Costs, Worths
<1>8. /\ [i \in DOMAIN Parts(f, q) |-> Parts(f, q)[i].cost] = Restrict(cost, D)
      /\ [i \in DOMAIN Parts(f, q) |-> Parts(f, q)[i].worth] = Restrict(worth, D)
  <2>1. \A i \in D : i \in C /\ OfHolding(f, f.holdings[i], q) = OfHolding(a, a.holdings[i], q)
    BY <1>1, <1>2
  <2>2. \A i \in D : Parts(f, q)[i] = OfHolding(a, a.holdings[i], q)
    BY <1>6, <2>1
  <2>3. DOMAIN Parts(f, q) = D
    BY <1>6
  <2>4. \A i \in D : cost[i] = Parts(f, q)[i].cost /\ worth[i] = Parts(f, q)[i].worth
    BY <2>1, <2>2
  <2> HIDE DEF cost, worth, D
  <2> QED BY <2>3, <2>4 DEF Restrict
<1>9. /\ Costs(Parts(f, q)) = SumFunction(Restrict(cost, D))
      /\ Worths(Parts(f, q)) = SumFunction(Restrict(worth, D))
  BY <1>8, Zenon DEF Costs, Worths
<1>10. CASE j \in C
  <2> HIDE DEF C, D, cost, worth
  <2>1. SumFunction(cost) = cost[j] + SumFunction(Restrict(cost, D))
    BY <1>1, <1>3, <1>4, <1>10, SumRemove
  <2>2. SumFunction(worth) = worth[j] + SumFunction(Restrict(worth, D))
    BY <1>1, <1>3, <1>4, <1>10, SumRemove
  <2>3. Restrict(cost, D) \in [D -> Int] /\ Restrict(worth, D) \in [D -> Int]
    BY <1>1, <1>4 DEF Restrict
  <2>4. SumFunction(Restrict(cost, D)) \in Int /\ SumFunction(Restrict(worth, D)) \in Int
    BY <1>3, <2>3, SumInt
  <2>5. cost[j] \in Int /\ worth[j] \in Int
    BY <1>4, <1>10
  <2>6. /\ cost[j] = OfHolding(a, a.holdings[j], q).cost
        /\ worth[j] = OfHolding(a, a.holdings[j], q).worth
    BY <1>10 DEF cost, worth
  <2> QED BY <1>7, <1>9, <1>10, <2>1, <2>2, <2>4, <2>5, <2>6 DEF Or0, C
<1>11. CASE j \notin C
  <2>1. D = C
    BY <1>1, <1>11
  <2> HIDE DEF C, D, cost, worth
  <2>2. Restrict(cost, D) = cost /\ Restrict(worth, D) = worth
    BY <1>4, <2>1 DEF Restrict
  <2>3. SumFunction(cost) \in Int /\ SumFunction(worth) \in Int
    BY <1>3, <1>4, SumInt
  <2> QED BY <1>7, <1>9, <1>11, <2>2, <2>3 DEF Or0, C
<1> QED BY <1>10, <1>11

(* The two bases of an asset, with and without the cost of a holding. *)
LEMMA AssetLikeWithLike ==
  ASSUME NEW a \in Asset, NEW q, HasQuotes(a, q), a.type \in StructuredTypes, ~IsWhole(a),
         a.type \in {"govt_schemes", "bonds"} =>
           \A j \in DOMAIN a.holdings : a.holdings[j].last > 0,
         NEW j \in DOMAIN a.holdings
  PROVE  LeavesBothSides(a, j, q)
<1> DEFINE f == Forgetful(a, j)
           before == ForAsset(a, q)
           after == ForAsset(f, q)
           p == OfHolding(a, a.holdings[j], q)
           counts == j \in Counted(a, q)
           worthless == IsWorthless(a, a.holdings[j], q)
<1>1. ByHolding(a)
  BY DEF ByHolding
<1>2. /\ Costs(Parts(a, q)) = Costs(Parts(f, q)) + Or0(p.cost, counts)
      /\ Worths(Parts(a, q)) = Worths(Parts(f, q)) + Or0(p.worth, counts)
      /\ Costs(Parts(f, q)) \in Int /\ Worths(Parts(f, q)) \in Int
  BY <1>1, OneForgotten, Zenon
<1>3. counts => p.cost \in Int /\ p.worth \in Int
  BY HoldingTyped
<1>4. counts => /\ p.worth >= 0
                /\ IF worthless THEN p.worth = 0 ELSE p.worth = 0 <=> p.cost = 0
  BY CostedWorth
<1>5. /\ before.invested = Costs(Parts(a, q)) /\ before.current = Worths(Parts(a, q))
      /\ before.noCost = NoCost(a, before.current)
  BY BasisFields
<1>6. /\ after.invested = Costs(Parts(f, q)) /\ after.current = Worths(Parts(f, q))
      /\ after.noCost = NoCost(f, after.current)
  BY BasisFields
<1>7. Kind(f) = Kind(a) /\ f.value = a.value
  BY ForgetfulCounts, ForgetfulFields
<1>8. Kind(a) # "rewards" /\ a.value \in Int
  BY MarketKinds DEF FlatKinds, Asset
<1> HIDE DEF f, before, after, p, counts, worthless
<1>9. /\ before.invested = after.invested + Or0(p.cost, counts)
      /\ before.current = after.current + Or0(p.worth, counts)
      /\ after.invested \in Int /\ after.current \in Int
  BY <1>2, <1>5, <1>6
<1>10. before.noCost = Or0(a.value - before.current, a.value > before.current)
  BY <1>5, <1>8 DEF NoCost, Or0
<1>11. after.noCost = Or0(a.value - after.current, a.value > after.current)
  BY <1>6, <1>7, <1>8 DEF NoCost, Or0
<1>12. /\ before.current - after.current >= 0
       /\ before.current <= a.value =>
            after.noCost = before.noCost + (before.current - after.current)
  <2>1. CASE counts
    BY <1>3, <1>4, <1>8, <1>9, <1>10, <1>11, <2>1 DEF Or0
  <2>2. CASE ~counts
    BY <1>8, <1>9, <1>10, <1>11, <2>2 DEF Or0
  <2> QED BY <2>1, <2>2
<1>13. worthless => before.current - after.current = 0
  <2>1. CASE counts
    BY <1>3, <1>4, <1>9, <2>1 DEF Or0
  <2>2. CASE ~counts
    BY <1>9, <2>2 DEF Or0
  <2> QED BY <2>1, <2>2
<1>14. ~worthless => (before.current - after.current = 0 <=> before.invested = after.invested)
  <2>1. CASE counts
    BY <1>3, <1>4, <1>9, <2>1 DEF Or0
  <2>2. CASE ~counts
    BY <1>9, <2>2 DEF Or0
  <2> QED BY <2>1, <2>2
<1>15. LeavesBothSides(a, j, q) <=>
         /\ before.current - after.current >= 0
         /\ IF worthless THEN before.current - after.current = 0
            ELSE before.current - after.current = 0 <=> before.invested = after.invested
         /\ before.current <= a.value =>
              after.noCost = before.noCost + (before.current - after.current)
  BY Zenon DEF LeavesBothSides, Forgetful, before, after, f, worthless
<1> QED BY <1>12, <1>13, <1>14, <1>15

(***************************************************************************)
(* "The gain always compares like with like", for any portfolio, any row   *)
(* and any prices: a holding whose cost is not known leaves both sides of  *)
(* the gain, and what it is worth goes to the untracked rest; a coin whose *)
(* price was found to be 0 is the exception.                               *)
(***************************************************************************)
THEOREM LikeWithLikeHolds == Spec => []LikeWithLike
<1>1. RowsInv => LikeWithLike
  <2> SUFFICES ASSUME RowsInv,
                      NEW p \in {<<live, Quote>>} \cup {<<rows[d].assets, History[d]>> : d \in Days},
                      NEW i \in DOMAIN p[1], NEW j \in DOMAIN p[1][i].holdings,
                      p[1][i].type \in StructuredTypes, ~IsWhole(p[1][i])
               PROVE  LeavesBothSides(p[1][i], j, p[2])
    BY Zenon DEF LikeWithLike
  <2>1. p[1] \in AssetLists /\ p[2] \in Quotings
    <3>1. CASE p = <<live, Quote>>
      BY <3>1 DEF RowsInv, TypeOK, AssetLists, Quotings
    <3>2. CASE p \in {<<rows[d].assets, History[d]>> : d \in Days}
      <4>1. PICK d \in Days : p = <<rows[d].assets, History[d]>>
        BY <3>2
      <4>2. rows[d] \in Row
        BY DEF RowsInv, TypeOK
      <4> QED BY <4>1, <4>2 DEF Row, Quotings
    <3> QED BY <3>1, <3>2
  <2>2. p[1][i] \in Asset /\ HasQuotes(p[1][i], p[2])
    BY <2>1, ListsOK DEF Lists
  <2>3. p[1][i].type \in {"govt_schemes", "bonds"} =>
          \A k \in DOMAIN p[1][i].holdings : p[1][i].holdings[k].last > 0
    BY <2>1, EnteredAssumption
  <2> QED BY <2>2, <2>3, AssetLikeWithLike
<1> QED BY <1>1, AlwaysRows, PTL

-----------------------------------------------------------------------------
(* A summary of a past day is written once.                                *)

(* Of the past days the command still has to come to, the rows are as it   *)
(* has read them: the server writes today's alone, and the command those   *)
(* behind it.                                                              *)
AsRead ==
  /\ rows = [d \in Days |-> rows[d]]
  /\ next \in Nat
  /\ next # 0 => \A d \in Days \ {Today} : d >= next => snaps[d] = rows[d]

LEMMA AsReadInit == Init => AsRead
BY DEF Init, AsRead

(* The rewrite of a row by the server. *)
LEMMA RewriteReads == ASSUME AsRead, Rewrite PROVE AsRead'
<1>1. \A d \in Days \ {Today} : rows'[d] = rows[d]
  BY DEF AsRead, Rewrite
<1>2. rows' = [d \in Days |-> rows'[d]]
  BY DEF AsRead, Rewrite
<1> QED BY <1>1, <1>2 DEF AsRead, Rewrite

(* The summary goes to the row the command is at, and it goes on.          *)
LEMMA FillReads == ASSUME AsRead, Fill PROVE AsRead'
<1>1. \A d \in Days : d # next => rows'[d] = rows[d]
  BY DEF AsRead, Fill
<1>2. rows' = [d \in Days |-> rows'[d]]
  BY DEF AsRead, Fill
<1>3. next' = next + 1 /\ snaps' = snaps /\ next \in Days
  BY DEF Fill
<1>4. \A d \in Days : d >= next' => d # next /\ d >= next
  BY <1>3 DEF Days
<1> QED BY <1>1, <1>2, <1>3, <1>4 DEF AsRead, Days

LEMMA StepReads == AsRead /\ [Next]_vars => AsRead'
<1> SUFFICES ASSUME AsRead, [Next]_vars PROVE AsRead'
  OBVIOUS
<1>1. CASE Rewrite
  BY <1>1, RewriteReads
<1>2. CASE Start
  BY <1>2 DEF Start, AsRead
<1>3. CASE Skip
  BY <1>3 DEF Skip, AsRead, Days
<1>4. CASE LoadRatios
  BY <1>4 DEF LoadRatios, AsRead
<1>5. CASE Fill
  BY <1>5, FillReads
<1>6. CASE Stop
  BY <1>6 DEF Stop, AsRead
<1>7. CASE UNCHANGED vars
  BY <1>7 DEF vars, AsRead
<1> QED BY <1>1, <1>2, <1>3, <1>4, <1>5, <1>6, <1>7 DEF Next

(* What FilledOnce says of a step. *)
Kept ==
  ~all => \A d \in Days \ {Today} : rows[d].invested # Unset => rows'[d] = rows[d]

(* The command fills a row it has read without a summary, which, of a past *)
(* day, has none then either.                                              *)
LEMMA FillKeeps == ASSUME AsRead, Fill PROVE Kept
<1> SUFFICES ASSUME ~all, NEW d \in Days \ {Today}, rows[d].invested # Unset
             PROVE  rows'[d] = rows[d]
  BY DEF Kept
<1>1. CASE d = next
  <2>1. snaps[d].invested = Unset
    BY <1>1 DEF Fill, Wanted
  <2>2. snaps[d] = rows[d]
    BY <1>1, DaysAssumption DEF AsRead, Days
  <2> QED BY <2>1, <2>2
<1>2. CASE d # next
  BY <1>2 DEF Fill, AsRead
<1> QED BY <1>1, <1>2

LEMMA StepKeeps == AsRead /\ [Next]_vars => [Kept]_vars
<1> SUFFICES ASSUME AsRead, [Next]_vars PROVE Kept
  OBVIOUS
<1>1. CASE Rewrite
  BY <1>1 DEF Rewrite, AsRead, Kept
<1>2. CASE Fill
  BY <1>2, FillKeeps
<1>3. CASE Start \/ Skip \/ LoadRatios \/ Stop \/ UNCHANGED vars
  BY <1>3 DEF Start, Skip, LoadRatios, Stop, vars, Kept
<1> QED BY <1>1, <1>2, <1>3 DEF Next

(***************************************************************************)
(* The command may be killed and run again, and the server goes on in the  *)
(* meantime: without -all the summary of a past day is written once.       *)
(***************************************************************************)
THEOREM FilledOnceHolds == Spec => FilledOnce
<1>1. AsRead /\ [Next]_vars => AsRead'
  BY StepReads
<1>2. Spec => []AsRead
  BY AsReadInit, <1>1, PTL DEF Spec
<1>3. AsRead /\ [Next]_vars => [Kept]_vars
  BY StepKeeps
<1>4. [][Kept]_vars => FilledOnce
  BY PTL DEF FilledOnce, Kept
<1> QED BY <1>2, <1>3, <1>4, PTL DEF Spec
=============================================================================
