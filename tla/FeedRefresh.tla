---------------------------- MODULE FeedRefresh ----------------------------
(***************************************************************************)
(* The gate in front of every market-data feed: refreshMu and lastAttempt  *)
(* of CryptoPrices, MFNavs, Stocks, Gold and FXRevaluer, and the callers   *)
(* that pass through it.  A caller is one request or job run; it visits    *)
(* the feeds of its plan in order, under one context with one deadline:    *)
(*                                                                         *)
(*   a dashboard read   RefreshIfStale on each feed, 10 s for all of them  *)
(*   a job              Refresh on each feed (nightly chain, crons, boot)  *)
(*                                                                         *)
(* What a refresh does with the data is reduced to one outcome: the cache  *)
(* of the feed was renewed or it was not.  Module Portfolio has the rest.  *)
(***************************************************************************)
EXTENDS Integers, Sequences

CONSTANTS Feeds,     \* the feeds, each with a mutex and a lastAttempt of its own
          Readers,   \* dashboard requests
          Jobs,      \* runs of the nightly chain, of a cron or of the boot refresh
          Plan,      \* Plan[c]: the feeds c visits, in order
          Window,    \* Window[f]: the maxAge a read passes for f
          Timeout,   \* Timeout[c]: life of the context of c
          Flaky,     \* the feeds whose source may fail
          Leavers,   \* the readers whose client may hang up
          MaxTime,   \* bound on the clock
          NoCaller   \* nobody holds the mutex

Callers == Readers \cup Jobs

ASSUME CallersAssumption == NoCaller \notin Callers /\ Readers \cap Jobs = {}
ASSUME PlanAssumption == Plan \in [Callers -> Seq(Feeds)] /\ \A c \in Callers : Plan[c] # <<>>
ASSUME LeaversAssumption == Leavers \subseteq Readers
ASSUME WindowAssumption == Window \in [Feeds -> Nat \ {0}]
ASSUME TimeAssumption == Timeout \in [Callers -> Nat] /\ MaxTime \in Nat

VARIABLES now,          \* time
          holder,       \* holder[f]: the caller that holds refreshMu of f
          lastAttempt,  \* lastAttempt[f]: start of the last refresh of f
          cached,       \* cached[f]: when the cache of f was last renewed
          pc,           \* pc[c]: where caller c is in its current feed
          at,           \* at[c]: index in Plan[c] of the current feed
          deadline,     \* deadline[c]: when the context of c ends
          log           \* history: log[f] lists the refreshes of f

vars == <<now, holder, lastAttempt, cached, pc, at, deadline, log>>

Attempt == [at : Nat, forced : BOOLEAN]

TypeOK ==
  /\ now \in Nat
  /\ holder \in [Feeds -> Callers \cup {NoCaller}]
  /\ lastAttempt \in [Feeds -> Int]
  /\ cached \in [Feeds -> Int]
  /\ pc \in [Callers -> {"idle", "waiting", "locked", "stale", "fetching", "fetched", "done"}]
  /\ at \in [Callers -> Nat]
  /\ \A c \in Callers : at[c] \in DOMAIN Plan[c]
  /\ deadline \in [Callers -> Nat]
  /\ log \in [Feeds -> Seq(Attempt)]

FeedOf(c) == Plan[c][at[c]]

(* The caller is inside the mutex of its current feed. *)
Inside(c) == pc[c] \in {"locked", "stale", "fetching", "fetched"}

(* The context of c has timed out, or its client has gone. *)
Expired(c) == pc[c] # "idle" /\ now >= deadline[c]

(* Mutant of Stale: goes by the last refresh that brought something.       *)
StaleBySuccess(f) == now - cached[f] >= Window[f]

(* time.Since(lastAttempt) >= maxAge *)
Stale(f) == now - lastAttempt[f] >= Window[f]

(* A zero time.Time is older than any window. *)
Init ==
  /\ now = 0
  /\ holder = [f \in Feeds |-> NoCaller]
  /\ lastAttempt = [f \in Feeds |-> -Window[f]]
  /\ cached = [f \in Feeds |-> -Window[f]]
  /\ pc = [c \in Callers |-> "idle"]
  /\ at = [c \in Callers |-> 1]
  /\ deadline = [c \in Callers |-> 0]
  /\ log = [f \in Feeds |-> <<>>]

-----------------------------------------------------------------------------
(* The request arrives or the job fires, and asks for its first mutex. *)
Begin(c) ==
  /\ pc[c] = "idle"
  /\ pc' = [pc EXCEPT ![c] = "waiting"]
  /\ deadline' = [deadline EXCEPT ![c] = now + Timeout[c]]
  /\ UNCHANGED <<now, holder, lastAttempt, cached, at, log>>

(* Mutant of Acquire: does not wait for the mutex. *)
AcquireAnyway(c) ==
  /\ pc[c] = "waiting"
  /\ holder' = [holder EXCEPT ![FeedOf(c)] = c]
  /\ pc' = [pc EXCEPT ![c] = "locked"]
  /\ UNCHANGED <<now, lastAttempt, cached, at, deadline, log>>

(* refreshMu.Lock() returns.  It waits on the mutex alone, never on the    *)
(* context, so an expired caller keeps its place.                          *)
Acquire(c) ==
  /\ pc[c] = "waiting"
  /\ holder[FeedOf(c)] = NoCaller
  /\ holder' = [holder EXCEPT ![FeedOf(c)] = c]
  /\ pc' = [pc EXCEPT ![c] = "locked"]
  /\ UNCHANGED <<now, lastAttempt, cached, at, deadline, log>>

(* Mutant of Leave: the Unlock is forgotten. *)
LeaveLocked(c) ==
  /\ IF at[c] < Len(Plan[c])
     THEN /\ at' = [at EXCEPT ![c] = @ + 1]
          /\ pc' = [pc EXCEPT ![c] = "waiting"]
     ELSE /\ pc' = [pc EXCEPT ![c] = "done"]
          /\ UNCHANGED at
  /\ UNCHANGED <<now, holder, deadline, log, lastAttempt, cached>>

(* Mutant of Leave: goes one feed too far. *)
LeaveTooFar(c) ==
  /\ holder' = [holder EXCEPT ![FeedOf(c)] = NoCaller]
  /\ at' = [at EXCEPT ![c] = @ + 1]
  /\ pc' = [pc EXCEPT ![c] = IF at[c] <= Len(Plan[c]) THEN "waiting" ELSE "done"]
  /\ UNCHANGED <<now, deadline, log, lastAttempt, cached>>

(* The deferred Unlock, and the caller's next feed or its return. *)
Leave(c) ==
  /\ holder' = [holder EXCEPT ![FeedOf(c)] = NoCaller]
  /\ IF at[c] < Len(Plan[c])
     THEN /\ at' = [at EXCEPT ![c] = @ + 1]
          /\ pc' = [pc EXCEPT ![c] = "waiting"]
     ELSE /\ pc' = [pc EXCEPT ![c] = "done"]
          /\ UNCHANGED at
  /\ UNCHANGED <<now, deadline, log, lastAttempt, cached>>

(* RefreshIfStale finds a recent attempt and returns. *)
Skip(c) ==
  /\ pc[c] = "locked"
  /\ c \in Readers
  /\ ~Stale(FeedOf(c))
  /\ Leave(c)

(* ... or finds the last attempt old enough and goes on to refresh. *)
Pass(c) ==
  /\ pc[c] = "locked"
  /\ c \in Readers
  /\ Stale(FeedOf(c))
  /\ pc' = [pc EXCEPT ![c] = "stale"]
  /\ UNCHANGED <<now, holder, lastAttempt, cached, at, deadline, log>>

(* refreshLocked stamps the attempt first, whatever becomes of it; a job   *)
(* comes here without asking how old the last attempt is.                  *)
Start(c) ==
  /\ pc[c] = "stale" \/ (pc[c] = "locked" /\ c \in Jobs)
  /\ lastAttempt' = [lastAttempt EXCEPT ![FeedOf(c)] = now]
  /\ log' = [log EXCEPT ![FeedOf(c)] = Append(@, [at |-> now, forced |-> c \in Jobs])]
  /\ pc' = [pc EXCEPT ![c] = "fetching"]
  /\ UNCHANGED <<now, holder, cached, at, deadline>>

(* Something was fetched and cached, which takes a live context ... *)
FetchOk(c) ==
  /\ pc[c] = "fetching"
  /\ ~Expired(c)
  /\ cached' = [cached EXCEPT ![FeedOf(c)] = now]
  /\ pc' = [pc EXCEPT ![c] = "fetched"]
  /\ UNCHANGED <<now, holder, lastAttempt, at, deadline, log>>

(* ... or nothing was: the feed failed or the context ended. *)
FetchFails(c) ==
  /\ pc[c] = "fetching"
  /\ FeedOf(c) \in Flaky \/ Expired(c)
  /\ pc' = [pc EXCEPT ![c] = "fetched"]
  /\ UNCHANGED <<now, holder, lastAttempt, cached, at, deadline, log>>

(* The revaluation pass is over and the mutex is given back. *)
Release(c) ==
  /\ pc[c] = "fetched"
  /\ Leave(c)

(* The client of a request hangs up, which cancels its context. *)
HangUp(c) ==
  /\ c \in Leavers
  /\ pc[c] \notin {"idle", "done"}
  /\ ~Expired(c)
  /\ deadline' = [deadline EXCEPT ![c] = now]
  /\ UNCHANGED <<now, holder, lastAttempt, cached, pc, at, log>>

(* An expired context fails every call at once: no time passes while such  *)
(* a caller could take a step.                                             *)
Runnable(c) == Inside(c) \/ (pc[c] = "waiting" /\ holder[FeedOf(c)] = NoCaller)

Tick ==
  /\ now < MaxTime
  /\ \A c \in Callers : Expired(c) => ~Runnable(c)
  /\ now' = now + 1
  /\ UNCHANGED <<holder, lastAttempt, cached, pc, at, deadline, log>>

(* Every caller has returned: nothing more happens until the next one. *)
Quiet ==
  /\ \A c \in Callers : pc[c] = "done"
  /\ UNCHANGED vars

Step(c) ==
  \/ Acquire(c) \/ Skip(c) \/ Pass(c) \/ Start(c)
  \/ FetchOk(c) \/ FetchFails(c) \/ Release(c)

Next ==
  \/ \E c \in Callers : Begin(c) \/ Step(c) \/ HangUp(c)
  \/ Tick
  \/ Quiet

(* A caller that can go on does: the calls a refresh makes end by          *)
(* themselves (the HTTP clients have timeouts), and a mutex that is free   *)
(* is handed to a waiter.                                                  *)
Fairness == \A c \in Callers : WF_vars(Step(c))

Spec == Init /\ [][Next]_vars

FairSpec == Spec /\ Fairness

-----------------------------------------------------------------------------
(***************************************************************************)
(* refreshMu serialises the refreshes of a feed ("mutex-serialized"): two  *)
(* callers are never inside the same gate, whatever reads, crons and the   *)
(* nightly chain overlap.                                                  *)
(***************************************************************************)
MutualExclusion ==
  \A c, d \in Callers : c # d /\ Inside(c) /\ Inside(d) => FeedOf(c) # FeedOf(d)

(***************************************************************************)
(* A caller waits for a feed's mutex with no other mutex in its hands, so  *)
(* callers with different plans cannot lock each other out.                *)
(***************************************************************************)
NoHoldAndWait ==
  \A c \in Callers : ~Inside(c) => \A f \in Feeds : holder[f] # c

(***************************************************************************)
(* "At most once per window": a refresh that a read triggers starts at     *)
(* least a window after every earlier attempt on the feed.  The check and  *)
(* the stamp are separate steps, so this rests on the mutex.               *)
(***************************************************************************)
ReadSpacing ==
  \A f \in Feeds : \A i, j \in DOMAIN log[f] :
    i < j /\ ~log[f][j].forced => log[f][j].at - log[f][i].at >= Window[f]

(***************************************************************************)
(* The gate implements the single flight: a feed is busy while a caller is *)
(* past the stamp.                                                         *)
(***************************************************************************)
Busy == [f \in Feeds |->
           \E c \in Callers : pc[c] \in {"fetching", "fetched"} /\ FeedOf(c) = f]

Flight == INSTANCE SingleFlight WITH busy <- Busy

Implements == Flight!Spec

(***************************************************************************)
(* Every request and every job returns: nobody waits for ever behind a     *)
(* slow, dead or abandoned refresh.                                        *)
(***************************************************************************)
EveryCallerReturns ==
  \A c \in Callers : pc[c] = "waiting" ~> pc[c] = "done"

(***************************************************************************)
(* handlers.go says of the refresh in a dashboard read that it is          *)
(* "Synchronous (bounded by the timeout)": no read is still in its         *)
(* refreshes after its context has ended.                                  *)
(***************************************************************************)
BoundedByTimeout ==
  \A c \in Readers : pc[c] # "done" /\ pc[c] # "idle" => now <= deadline[c]
=============================================================================
