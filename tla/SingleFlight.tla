---------------------------- MODULE SingleFlight ----------------------------
(***************************************************************************)
(* What a market-data feed promises its callers: at most one refresh of a  *)
(* feed is under way at a time, and a refresh that a page view triggers    *)
(* never starts within the feed's window of the refresh before it.  Who    *)
(* asks, how callers queue and what a refresh does are left out; module    *)
(* FeedRefresh has them and implements this specification.                 *)
(***************************************************************************)
EXTENDS Integers, Sequences

CONSTANTS Feeds,    \* the independently gated feeds
          Window    \* Window[f]: least age of the last attempt a read may retry

VARIABLES now,      \* time, in units of the model
          busy,     \* busy[f]: a refresh of f is under way
          log       \* log[f]: the refreshes of f so far, oldest first

vars == <<now, busy, log>>

(* The last attempt on f lies a whole window back, or there was none. *)
Stale(f) == log[f] = <<>> \/ now - log[f][Len(log[f])].at >= Window[f]

Init ==
  /\ now = 0
  /\ busy = [f \in Feeds |-> FALSE]
  /\ log = [f \in Feeds |-> <<>>]

Start(f, forced) ==
  /\ ~busy[f]
  /\ forced \/ Stale(f)
  /\ busy' = [busy EXCEPT ![f] = TRUE]
  /\ log' = [log EXCEPT ![f] = Append(@, [at |-> now, forced |-> forced])]
  /\ UNCHANGED now

End(f) ==
  /\ busy[f]
  /\ busy' = [busy EXCEPT ![f] = FALSE]
  /\ UNCHANGED <<now, log>>

Tick ==
  /\ now' = now + 1
  /\ UNCHANGED <<busy, log>>

Next ==
  \/ \E f \in Feeds, forced \in BOOLEAN : Start(f, forced)
  \/ \E f \in Feeds : End(f)
  \/ Tick

Spec == Init /\ [][Next]_vars
=============================================================================
