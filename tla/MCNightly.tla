----------------------------- MODULE MCNightly -----------------------------
(* A user with assets alone, and one who begins with a liability alone and *)
(* adds and removes assets and liabilities.                                *)
EXTENDS Nightly

CONSTANTS alice, bob, e1, e2, cron

MCAssets == {[u \in Users |-> IF u = alice THEN 1 ELSE 0]}
MCDebts == {[u \in Users |-> IF u = bob THEN 1 ELSE 0]}

MCAuthor == [e \in Editors |-> bob]
=============================================================================
