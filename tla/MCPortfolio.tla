---------------------------- MODULE MCPortfolio ----------------------------
(* One or two assets of one user, requests chosen to meet on the same one. *)
EXTENDS Portfolio, TLC

CONSTANTS a1, a2, s1, s2, e1, e2

One(s) == [x \in Schemes |-> IF x = s THEN 1 ELSE 0]
Two(s) == [x \in Schemes |-> IF x = s THEN 2 ELSE 0]

(* A fund portfolio of one unit bought at NAV 1. *)
Fund == [type |-> "mutual_fund", foreign |-> FALSE, amount |-> 0,
         holdings |-> Stamp(One(s1), [x \in Schemes |-> 1]), value |-> 1]

NoFields == [kind |-> "update", asset |-> a1, type |-> Unset, units |-> Unset,
             foreign |-> Unset, amount |-> Unset, value |-> Unset]

Rename(a) == [NoFields EXCEPT !.asset = a]
SetUnits(a) == [NoFields EXCEPT !.asset = a, !.units = Two(s1)]
ToFund(a) == [NoFields EXCEPT !.asset = a, !.type = "mutual_fund", !.units = One(s1)]
ToDollars(a) == [NoFields EXCEPT !.asset = a, !.type = "manual", !.foreign = TRUE,
                                 !.amount = 1, !.value = 9]
DeleteOf(a) == [NoFields EXCEPT !.asset = a, !.kind = "delete"]
NewFund == [kind |-> "create", asset |-> Unset, type |-> "mutual_fund", units |-> One(s1),
            foreign |-> FALSE, amount |-> 0, value |-> 0]
NewDollars == [kind |-> "create", asset |-> Unset, type |-> "manual", units |-> [x \in Schemes |-> 0],
               foreign |-> TRUE, amount |-> 1, value |-> 9]

(* An edit that brings in a scheme nobody has priced yet, conversions both  *)
(* ways, a deletion and creations of both kinds.                            *)
SetBoth(a) == [NoFields EXCEPT !.asset = a, !.units = [x \in Schemes |-> 1]]
AllRequests == {SetBoth(a1), ToFund(a1), ToDollars(a1), DeleteOf(a1), NewFund, NewDollars}

(* The edits of a single asset. *)
EditRequests == {Rename(a1), SetUnits(a1), ToFund(a1), ToDollars(a1), DeleteOf(a1)}
FundDb == [a \in Assets |-> IF a = a1 THEN Fund ELSE Unborn]
MCNavs == One(s1)
(* The requests are interchangeable, and no property tells them apart. *)
MCSymmetry == Permutations({e1, e2})

MCPasses == [p \in Revaluers |-> 1]
=============================================================================
