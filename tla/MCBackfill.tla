----------------------------- MODULE MCBackfill -----------------------------
(* Assets of every kind, in a handful of portfolios. *)
EXTENDS Backfill

H(n, u, b, l) == [name |-> n, units |-> u, buy |-> b, last |-> l]
A(t, c, v, d, i, hs) ==
  [type |-> t, category |-> c, value |-> v, usd |-> d, invested |-> i, holdings |-> hs]

(* Funds and gold, with and without known costs. *)
Funds == <<
  A("mutual_fund", "", 45, 0, 0, <<H("f", 10, 2, 3), H("g", 5, 0, 3)>>),
  A("mutual_fund", "", 60, 0, 0, <<H("f", 20, 1, 3)>>),
  A("gold", "", 8, 0, 0, <<H("22K", 2, 3, 4)>>)>>

(* Stocks, by holding and as a whole, and coins, one without a price. *)
Coins == A("crypto", "", 20, 2, 0, <<H("BTC", 1, 1, 0), H("ETH", 1, 1, 0), H("SOL", 1, 1, 0)>>)
Stocks == <<
  A("us_stocks", "", 40, 4, 0, <<H("x", 1, 2, 3), H("y", 1, 0, 1)>>),
  A("us_stocks", "", 40, 4, 25, <<H("x", 1, 2, 3)>>),
  Coins>>

(* Entered values, accounts, and what no market moves. *)
Entered == <<
  A("govt_schemes", "", 9, 0, 0, <<H("PPF", 1, 6, 9)>>),
  A("bonds", "", 9, 0, 0, <<H("b", 1, 0, 4), H("c", 1, 3, 5)>>),
  A("bank_accounts", "", 18, 0, 0, <<H("INR", 2, 1, 1), H("USD", 2, 6, 8)>>),
  A("loans", "", 7, 0, 0, <<>>)>>
Others == <<
  A("personal", "", 5, 0, 9, <<>>),
  A("travel_points", "", 6, 1, 0, <<>>),
  A("fixed", "Property", 50, 0, 0, <<>>)>>

MCPortfolios == {Funds, Stocks, Entered, Others, <<A("fixed", "Property", -5, 0, 0, <<>>)>>}

(* Flat entries from before there were holdings, also several at once. *)
FlatFund == A("liquid", "Mutual Funds", 12, 0, 0, <<>>)
FlatCoins == A("", "Crypto", 4, 0, 0, <<>>)
FlatGold == A("fixed", "Gold", 8, 0, 0, <<>>)
MCOldLists == {<<FlatFund, Coins>>, <<FlatCoins, A("liquid", "PPF", 2, 0, 0, <<>>)>>,
               <<FlatGold, FlatFund, A("liquid", "Mutual Funds", 7, 0, 0, <<>>)>>}

(* Of the past only BTC and ETH are looked up, and ETH not found, or at 0. *)
MCQuote == [s \in {"BTC", "ETH", "SOL"} |-> IF s = "SOL" THEN NoPrice ELSE 1]
MCHistory ==
  [d \in Days |-> [s \in {"BTC", "ETH", "SOL"} |->
     CASE s = "BTC" -> 3
       [] s = "ETH" /\ d = 2 -> 0
       [] OTHER -> NoPrice]]
=============================================================================
