---------------------------- MODULE FixedWindow ----------------------------
(***************************************************************************)
(* What a rate limiter with fixed windows promises of each client: at most *)
(* Limit requests are let through in a window, and a new window is not     *)
(* opened before Spacing has passed since the last one was.  When and why  *)
(* requests are refused, and what is remembered of whom, is left open.     *)
(***************************************************************************)
EXTENDS Integers

CONSTANTS Clients, Limit, Spacing

VARIABLES now,    \* the clock
          since,  \* since[c]: when c's window was opened
          spent   \* spent[c]: the requests of c let through in it

vars == <<now, since, spent>>

(* Nobody has a window: one may be opened at once. *)
Init ==
  /\ now = 0
  /\ since = [c \in Clients |-> -Spacing]
  /\ spent = [c \in Clients |-> 0]

Tick == now' = now + 1 /\ UNCHANGED <<since, spent>>

PassIn(c) ==
  /\ spent[c] < Limit
  /\ spent' = [spent EXCEPT ![c] = @ + 1]
  /\ UNCHANGED <<now, since>>

PassAnew(c) ==
  /\ now - since[c] >= Spacing
  /\ since' = [since EXCEPT ![c] = now]
  /\ spent' = [spent EXCEPT ![c] = 1]
  /\ UNCHANGED now

(* The limiter lives in memory. *)
Restart ==
  /\ since' = [c \in Clients |-> -Spacing]
  /\ spent' = [c \in Clients |-> 0]
  /\ UNCHANGED now

Next == Tick \/ Restart \/ \E c \in Clients : PassIn(c) \/ PassAnew(c)

Spec == Init /\ [][Next]_vars
=============================================================================
