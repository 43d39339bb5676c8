---------------------------- MODULE MCValuation ----------------------------
(* Single users' portfolios, each with requests and prices chosen so that  *)
(* they meet on it.                                                        *)
EXTENDS Valuation, TLC

CONSTANTS a1, a2, c1, c2, t1, k24, k22, k18, usd, inr, l1, r1, r2

(* A good morning and a better evening. *)
MCFixings == {k24 :> 8 @@ k22 :> 7 @@ k18 :> 5, k24 :> 9 @@ k22 :> 8 @@ k18 :> 6}

Only(u) == [i \in Items |-> IF i \in DOMAIN u THEN u[i] ELSE 0]

Doc1(kind, units, stamp, cash, dollars, value) ==
  [kind |-> kind, units |-> Only(units), stamp |-> Only(stamp),
   cash |-> cash, usd |-> dollars, value |-> value]

Coin == Doc1("crypto", c1 :> 3 @@ c2 :> 1, <<>>, 0, 20, 100)
Shares == Doc1("us_stocks", t1 :> 1, t1 :> 5, 1, 6, 30)
Bullion == Doc1("gold", k24 :> 1 @@ k18 :> 1, k24 :> 8 @@ k18 :> 5, 0, 0, 13)
Bank == Doc1("bank_accounts", usd :> 1 @@ inr :> 1, usd :> 5 @@ inr :> 1, 0, 0, 6)
Points == Doc1("travel_points", <<>>, <<>>, 0, 2, 10)
Loan == Doc1("entered", l1 :> 4, <<>>, 0, 0, 4)
Manual == Doc1("manual", <<>>, <<>>, 0, 0, 7)

(* What is cached: everything at a first price, but not what is in S. *)
Warm(S) ==
  [i \in Items |-> CASE i \in S -> Missing
                     [] i = inr -> 1
                     [] i \in Karats -> (k24 :> 8 @@ k22 :> 7 @@ k18 :> 5)[i]
                     [] i \in Lines -> Missing
                     [] OTHER -> 5]

Nothing == [act |-> "update", asset |-> a1, kind |-> Unset, holds |-> Unset,
            units |-> Unset, cash |-> Unset, usd |-> Unset, value |-> Unset]

To(kind) == [Nothing EXCEPT !.kind = kind]
Hold(kind, units) == [Nothing EXCEPT !.holds = kind, !.units = Only(units)]
Become(kind, units) == [Hold(kind, units) EXCEPT !.kind = kind]
Renamed == Nothing
Removed == [Nothing EXCEPT !.act = "delete"]
New(kind, units) == [Become(kind, units) EXCEPT !.act = "create", !.asset = a2,
                                              !.cash = 0, !.usd = 0, !.value = 0]

Start(doc, S, runs, x, y) ==
  [db |-> [a \in Assets |-> IF a = a1 THEN doc ELSE Gone], cache |-> Warm(S),
   ask |-> (r1 :> x @@ r2 :> y),
   left |-> [f \in Feeds \cup {"rates"} |-> IF f \in DOMAIN runs THEN runs[f] ELSE 0]]

Runs(f, n, m) == f :> n @@ "rates" :> m

(* Two edits that meet; a coin or ticker nobody has priced yet; a new      *)
(* portfolio beside an old one; conversions there and back; a deletion.    *)
MCSettings ==
  {Start(Coin, {c2}, Runs("crypto", 1, 0), Hold("crypto", c1 :> 1 @@ c2 :> 1), New("crypto", c2 :> 3)),
   Start(Coin, {}, Runs("crypto", 1, 0), Hold("crypto", c1 :> 1), Become("us_stocks", t1 :> 1)),
   Start(Shares, {}, Runs("us_stocks", 1, 1), Hold("us_stocks", t1 :> 3), [Nothing EXCEPT !.cash = 2]),
   Start(Shares, {t1}, Runs("us_stocks", 2, 0), Renamed, Removed),
   Start(Bullion, Karats, Runs("gold", 1, 0), Hold("gold", k22 :> 1), New("gold", k24 :> 2)),
   Start(Bank, {}, Runs("fx", 1, 1), Hold("bank_accounts", usd :> 3), Renamed),
   Start(Points, {}, Runs("fx", 2, 1), [Nothing EXCEPT !.usd = 4, !.value = 20],
         Become("bank_accounts", usd :> 1)),
   Start(Loan, {}, Runs("gold", 1, 0), Become("gold", k24 :> 1), To("entered")),
   Start(Manual, {}, Runs("crypto", 1, 0) @@ Runs("us_stocks", 1, 0),
         Become("crypto", c1 :> 1), Hold("us_stocks", t1 :> 1))}
=============================================================================
