----------------------------- MODULE RateLimit -----------------------------
(***************************************************************************)
(* The rate limiter of the auth routes.  A request reads the clock, waits  *)
(* for the mutex, and counts itself in its client's entry; entries whose   *)
(* window is over are replaced, and purged when there are many.  Requests  *)
(* may get the mutex in another order than they read the clock in.         *)
(***************************************************************************)
EXTENDS Requests, Integers, FiniteSets

CONSTANTS Clients,   \* client addresses
          Client,    \* Client[r]: where r comes from
          Limit,     \* 15
          Window,    \* a minute
          Cap,       \* 4096
          MaxLag,    \* bound on the time between reading the clock and the mutex
          MaxCount,  \* bound on the requests of a client in one window
          MaxTime    \* bound on the clock

ASSUME RequestsAssumption == Client \in [Reqs -> Clients]
ASSUME LimitsAssumption ==
  /\ Limit \in Nat \ {0} /\ Window \in Nat /\ Cap \in Nat
  /\ MaxLag \in 0..Window /\ MaxCount \in Nat /\ MaxTime \in Nat
ASSUME NoneAssumption == None \notin Int /\ None \notin [count : Nat, windowStart : Nat]

VARIABLES now,      \* the clock
          entries,  \* entries[c]: the client's entry, or None
          stamp,    \* stamp[r]: the time r has read, while it waits for the mutex
          since,    \* history: since[c], when the window of c's entry was opened
          spent,    \* history: spent[c], the requests let through in it
          last,     \* history: last[c], when the latest of them was
          before    \* history: before[c], last[c] of the windows one and two before

limiterHist == <<since, spent, last, before>>
limiterVars == <<now, entries, stamp, limiterHist>>

Spacing == Window + 1 - MaxLag

(* Long enough ago not to count. *)
LongAgo == -2 * (Window + 1)

LimiterInit ==
  /\ now = 0
  /\ entries = [c \in Clients |-> None]
  /\ stamp = [r \in Reqs |-> None]
  /\ since = [c \in Clients |-> -Spacing]
  /\ spent = [c \in Clients |-> 0]
  /\ last = [c \in Clients |-> LongAgo]
  /\ before = [c \in Clients |-> <<LongAgo, LongAgo>>]

(* No request waits for the mutex longer than MaxLag. *)
Tick ==
  /\ now < MaxTime
  /\ \A r \in Reqs : stamp[r] # None => now - stamp[r] < MaxLag
  /\ now' = now + 1
  /\ UNCHANGED <<entries, stamp, limiterHist>>

ReadClock(r) ==
  /\ stamp[r] = None
  /\ entries[Client[r]] # None => entries[Client[r]].count < MaxCount
  /\ stamp' = [stamp EXCEPT ![r] = now]
  /\ UNCHANGED <<now, entries, limiterHist>>

Known == {c \in Clients : entries[c] # None}

(* Mutant of Expired: a window is over one moment early. *)
ExpiredEarly(e, t) == t - e.windowStart >= Window

Expired(e, t) == t - e.windowStart > Window

(* Mutant of Purged: purges windows that are not over. *)
PurgedLive(t) ==
  IF Cardinality(Known) > Cap THEN [c \in Clients |-> None] ELSE entries

(* Mutant of Purged: never purges. *)
PurgedNever(t) == entries

Purged(t) ==
  IF Cardinality(Known) > Cap
  THEN [c \in Clients |->
          IF entries[c] # None /\ Expired(entries[c], t) THEN None ELSE entries[c]]
  ELSE entries

(* Whether a request of client c stamped t opens a window. *)
Opens(c, t) == Purged(t)[c] = None \/ Expired(Purged(t)[c], t)

Counted(c, t) ==
  IF Opens(c, t) THEN [count |-> 1, windowStart |-> t]
                 ELSE [Purged(t)[c] EXCEPT !.count = @ + 1]

Passes(c, t) == Counted(c, t).count <= Limit

(* The critical section; the verdict is Passes(Client[r], stamp[r]). *)
Count(r) ==
  /\ stamp[r] # None
  /\ LET c == Client[r]
         t == stamp[r]
     IN /\ entries' = [Purged(t) EXCEPT ![c] = Counted(c, t)]
        /\ IF ~Passes(c, t) THEN UNCHANGED limiterHist
           ELSE /\ last' = [last EXCEPT ![c] = now]
                /\ IF Opens(c, t)
                   THEN /\ since' = [since EXCEPT ![c] = now]
                        /\ spent' = [spent EXCEPT ![c] = 1]
                        /\ before' = [before EXCEPT ![c] = <<last[c], @[1]>>]
                   ELSE /\ spent' = [spent EXCEPT ![c] = @ + 1]
                        /\ UNCHANGED <<since, before>>
  /\ stamp' = [stamp EXCEPT ![r] = None]
  /\ UNCHANGED now

(* The process ends: the next one knows no client. *)
Forget ==
  /\ entries' = [c \in Clients |-> None]
  /\ stamp' = [r \in Reqs |-> None]
  /\ since' = [c \in Clients |-> -Spacing]
  /\ spent' = [c \in Clients |-> 0]
  /\ last' = [c \in Clients |-> LongAgo]
  /\ before' = [c \in Clients |-> <<LongAgo, LongAgo>>]
  /\ UNCHANGED now

LimiterNext == Tick \/ Forget \/ \E r \in Reqs : ReadClock(r) \/ Count(r)

LimiterSpec == LimiterInit /\ [][LimiterNext]_limiterVars

-----------------------------------------------------------------------------
LimiterTypeOK ==
  /\ now \in Nat
  /\ entries \in [Clients -> [count : Nat, windowStart : Nat] \cup {None}]
  /\ stamp \in [Reqs -> Nat \cup {None}]
  /\ since \in [Clients -> Int]
  /\ spent \in [Clients -> Nat]
  /\ last \in [Clients -> Int]
  /\ before \in [Clients -> Int \X Int]

(***************************************************************************)
(* Fixed windows let up to twice the limit through around a boundary, and  *)
(* no more: within Window - MaxLag no client gets requests of more than    *)
(* two windows through, with Limit each, although a request may count with *)
(* an older time than one before it and the purge forgets windows.         *)
(***************************************************************************)
TwiceAtMost ==
  \A c \in Clients : spent[c] <= Limit /\ since[c] - before[c][2] >= Spacing

(***************************************************************************)
(* "so the map can't grow unbounded": once there are more than Cap entries *)
(* a request leaves none behind that is over at its time.                  *)
(***************************************************************************)
MapBounded ==
  [][\A r \in Reqs : Count(r) /\ Cardinality(Known) > Cap
       => \A c \in Clients : entries'[c] # None => ~Expired(entries'[c], stamp[r])]_limiterVars

(***************************************************************************)
(* The limiter implements FixedWindow, and so keeps what a client may rely *)
(* on: purging and replacing entries loses no window that is still open.   *)
(***************************************************************************)
FW == INSTANCE FixedWindow

Implements == FW!Spec
=============================================================================
