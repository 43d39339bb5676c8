--------------------------- MODULE MCFeedRefresh ---------------------------
(* Two feeds, two dashboard reads and a run of the nightly chain. *)
EXTENDS FeedRefresh

CONSTANTS crypto, mf, r1, r2, nightly

MCFeeds == {crypto, mf}

(* The windows of a dashboard read are an hour for crypto and twelve for   *)
(* mf, the read lives ten seconds and a job minutes: only the order of     *)
(* these numbers matters.                                                  *)
MCWindow == [f \in MCFeeds |-> IF f = crypto THEN 2 ELSE 3]
MCPlan == [c \in {r1, r2, nightly} |->
             <<crypto, mf>>]
MCTimeout == [c \in {r1, r2, nightly} |-> IF c \in {r1, r2} THEN 1 ELSE 2]
=============================================================================
