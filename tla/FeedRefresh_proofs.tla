------------------------ MODULE FeedRefresh_proofs -------------------------
(***************************************************************************)
(* Proofs about the refresh gate for any number of feeds, readers and      *)
(* jobs, any plans, windows and timeouts.  LockInv ties the holder of a    *)
(* mutex to the caller inside it; LogInv ties lastAttempt and the clock to *)
(* the history of attempts.  Together they are inductive and give mutual   *)
(* exclusion, the spacing of read-triggered refreshes and the refinement.  *)
(***************************************************************************)
EXTENDS FeedRefresh, TLAPS

LEMMA FeedOfType ==
  ASSUME TypeOK, NEW c \in Callers
  PROVE  FeedOf(c) \in Feeds
  BY PlanAssumption DEF TypeOK, FeedOf

(* A caller's next feed exists while its plan is not exhausted. *)
LEMMA NextAt ==
  ASSUME TypeOK, NEW c \in Callers, at[c] < Len(Plan[c])
  PROVE  at[c] + 1 \in DOMAIN Plan[c]
  BY PlanAssumption DEF TypeOK

(* Appending an attempt keeps a log a log. *)
LEMMA AppendAttempt ==
  ASSUME NEW s \in Seq(Attempt), NEW a \in Attempt
  PROVE  /\ Append(s, a) \in Seq(Attempt)
         /\ Len(Append(s, a)) = Len(s) + 1
         /\ DOMAIN Append(s, a) = DOMAIN s \cup {Len(s) + 1}
         /\ \A i \in DOMAIN s : Append(s, a)[i] = s[i]
         /\ Append(s, a)[Len(s) + 1] = a
  OBVIOUS

LEMMA LogEntry ==
  ASSUME TypeOK, NEW f \in Feeds, NEW i \in DOMAIN log[f]
  PROVE  log[f][i] \in Attempt /\ log[f][i].at \in Nat
<1>1. log[f] \in Seq(Attempt)
  BY DEF TypeOK
<1>2. log[f][i] \in Attempt
  BY <1>1
<1>3. QED BY <1>2 DEF Attempt

(* The shape of every state of the gate. *)
THEOREM TypeCorrect == Spec => []TypeOK
<1>1. Init => TypeOK
  BY PlanAssumption, WindowAssumption DEF Init, TypeOK
<1>2. ASSUME TypeOK, [Next]_vars
      PROVE  TypeOK'
  <2> USE <1>2
  <2>1. ASSUME NEW c \in Callers, Begin(c)
        PROVE  TypeOK'
    <3>1. now + Timeout[c] \in Nat
      BY TimeAssumption DEF TypeOK
    <3>2. deadline' \in [Callers -> Nat]
      BY <2>1, <3>1 DEF Begin, TypeOK
    <3>3. QED BY <2>1, <3>2 DEF Begin, TypeOK
  <2>2. ASSUME NEW c \in Callers, Acquire(c)
        PROVE  TypeOK'
    BY <2>2 DEF Acquire, TypeOK
  <2>3. ASSUME NEW c \in Callers, Leave(c)
        PROVE  TypeOK'
    <3>1. CASE at[c] < Len(Plan[c])
      <4>1. at[c] + 1 \in DOMAIN Plan[c] /\ at[c] + 1 \in Nat
        BY <3>1, NextAt DEF TypeOK
      <4>2. QED BY <2>3, <3>1, <4>1 DEF Leave, TypeOK
    <3>2. CASE ~(at[c] < Len(Plan[c]))
      BY <2>3, <3>2 DEF Leave, TypeOK
    <3>3. QED BY <3>1, <3>2
  <2>4. ASSUME NEW c \in Callers, Pass(c)
        PROVE  TypeOK'
    BY <2>4 DEF Pass, TypeOK
  <2>5. ASSUME NEW c \in Callers, Start(c)
        PROVE  TypeOK'
    <3>1. [at |-> now, forced |-> c \in Jobs] \in Attempt
      BY DEF TypeOK, Attempt
    <3>2. log' \in [Feeds -> Seq(Attempt)]
      BY <2>5, <3>1, FeedOfType DEF Start, TypeOK
    <3>3. QED BY <2>5, <3>2 DEF Start, TypeOK
  <2>6. ASSUME NEW c \in Callers, FetchOk(c) \/ FetchFails(c)
        PROVE  TypeOK'
    <3>1. cached' \in [Feeds -> Int]
      BY <2>6 DEF FetchOk, FetchFails, TypeOK
    <3>2. pc' = [pc EXCEPT ![c] = "fetched"]
      BY <2>6 DEF FetchOk, FetchFails
    <3>3. UNCHANGED <<now, holder, lastAttempt, at, deadline, log>>
      BY <2>6 DEF FetchOk, FetchFails
    <3>4. QED BY <3>1, <3>2, <3>3 DEF TypeOK
  <2>7. ASSUME NEW c \in Callers, HangUp(c)
        PROVE  TypeOK'
    <3>1. deadline' = [deadline EXCEPT ![c] = now]
      BY <2>7 DEF HangUp
    <3>2. UNCHANGED <<now, holder, lastAttempt, cached, pc, at, log>>
      BY <2>7 DEF HangUp
    <3>3. QED BY <3>1, <3>2 DEF TypeOK
  <2>8. CASE Tick
    BY <2>8 DEF Tick, TypeOK
  <2>9. CASE UNCHANGED vars
    BY <2>9 DEF vars, TypeOK
  <2>10. QED
    BY <2>1, <2>2, <2>3, <2>4, <2>5, <2>6, <2>7, <2>8, <2>9
       DEF Next, Step, Skip, Release, Quiet
<1>3. QED BY <1>1, <1>2, PTL DEF Spec

-----------------------------------------------------------------------------
(* A caller is inside its feed exactly when it holds the feed's mutex. *)
LockInv ==
  /\ \A c \in Callers : Inside(c) => holder[FeedOf(c)] = c
  /\ \A c \in Callers, f \in Feeds : holder[f] = c => Inside(c) /\ FeedOf(c) = f

LEMMA LockInvInit == Init => LockInv
  BY CallersAssumption, PlanAssumption DEF Init, LockInv, Inside

LEMMA LockInvStep ==
  ASSUME TypeOK, LockInv, [Next]_vars
  PROVE  LockInv'
<1>1. ASSUME NEW c \in Callers, Begin(c)
      PROVE  LockInv'
  <2>1. ~Inside(c) /\ ~Inside(c)'
    BY <1>1 DEF Begin, Inside, TypeOK
  <2>2. \A d \in Callers : Inside(d)' <=> Inside(d)
    BY <1>1, <2>1 DEF Begin, Inside, TypeOK
  <2>3. QED
    BY <1>1, <2>2 DEF Begin, LockInv, FeedOf
<1>2. ASSUME NEW c \in Callers, Acquire(c)
      PROVE  LockInv'
  <2>1. holder[FeedOf(c)] = NoCaller /\ ~Inside(c) /\ Inside(c)'
    BY <1>2 DEF Acquire, Inside, TypeOK
  <2>2. \A d \in Callers \ {c} : Inside(d)' <=> Inside(d)
    BY <1>2 DEF Acquire, Inside, TypeOK
  <2>3. \A d \in Callers : FeedOf(d)' = FeedOf(d)
    BY <1>2 DEF Acquire, FeedOf
  <2>4. \A d \in Callers \ {c} : Inside(d) => FeedOf(d) # FeedOf(c)
    BY <2>1, CallersAssumption DEF LockInv
  <2>5. holder' = [holder EXCEPT ![FeedOf(c)] = c]
    BY <1>2 DEF Acquire
  <2>6. QED
    BY <2>1, <2>2, <2>3, <2>4, <2>5, FeedOfType DEF LockInv, TypeOK
<1>3. ASSUME NEW c \in Callers, Inside(c), Leave(c)
      PROVE  LockInv'
  <2>1. ASSUME NEW d \in Callers, d # c
        PROVE  /\ Inside(d)' <=> Inside(d)
               /\ FeedOf(d)' = FeedOf(d)
               /\ Inside(d) => FeedOf(d) # FeedOf(c)
    BY <1>3, <2>1 DEF Leave, LockInv, Inside, FeedOf, TypeOK
  <2>2. ~Inside(c)'
    BY <1>3 DEF Leave, Inside, TypeOK
  <2>3. \A f \in Feeds : holder'[f] # c
    BY <1>3, FeedOfType, CallersAssumption DEF Leave, LockInv, TypeOK
  <2>4. holder' = [holder EXCEPT ![FeedOf(c)] = NoCaller]
    BY <1>3 DEF Leave
  <2>5. ASSUME NEW d \in Callers, Inside(d)'
        PROVE  holder'[FeedOf(d)'] = d
    <3>1. d # c
      BY <2>2, <2>5
    <3>2. QED BY <2>1, <2>4, <2>5, <3>1, FeedOfType DEF LockInv, TypeOK
  <2>6. ASSUME NEW d \in Callers, NEW f \in Feeds, holder'[f] = d
        PROVE  Inside(d)' /\ FeedOf(d)' = f
    <3>1. d # c /\ holder[f] = d
      BY <2>3, <2>4, <2>6, CallersAssumption DEF TypeOK
    <3>2. QED BY <2>1, <3>1 DEF LockInv
  <2>7. QED
    BY <2>5, <2>6 DEF LockInv
<1>4. ASSUME NEW c \in Callers, Pass(c) \/ Start(c) \/ FetchOk(c) \/ FetchFails(c)
      PROVE  LockInv'
  <2>1. \A d \in Callers : Inside(d)' <=> Inside(d)
    BY <1>4 DEF Pass, Start, FetchOk, FetchFails, Inside, TypeOK
  <2>2. UNCHANGED <<holder, at>>
    BY <1>4 DEF Pass, Start, FetchOk, FetchFails
  <2>3. QED
    BY <2>1, <2>2 DEF LockInv, FeedOf
<1>5. ASSUME UNCHANGED <<holder, pc, at>>
      PROVE  LockInv'
  BY <1>5 DEF LockInv, Inside, FeedOf
<1>6. CASE Tick \/ UNCHANGED vars \/ \E c \in Callers : HangUp(c)
  BY <1>5, <1>6 DEF Tick, vars, HangUp
<1>7. QED
  BY <1>1, <1>2, <1>3, <1>4, <1>5, <1>6
     DEF Next, Step, Skip, Release, Quiet, Inside

THEOREM LockInvariant == Spec => []LockInv
  BY TypeCorrect, LockInvInit, LockInvStep, PTL DEF Spec

(* Refreshes of a feed never overlap, for any number of callers. *)
THEOREM Exclusion == Spec => []MutualExclusion
<1>1. LockInv => MutualExclusion
  BY DEF LockInv, MutualExclusion
<1>2. QED BY <1>1, LockInvariant, PTL

(* No caller waits for a mutex while it holds another. *)
THEOREM HoldsOne == Spec => []NoHoldAndWait
<1>1. LockInv => NoHoldAndWait
  BY DEF LockInv, NoHoldAndWait
<1>2. QED BY <1>1, LockInvariant, PTL

-----------------------------------------------------------------------------
(***************************************************************************)
(* The clock and the stamps: lastAttempt is the newest entry of the log,   *)
(* nothing in the log is newer than the clock, and a reader that found its *)
(* feed stale still would, because nobody else can stamp it.               *)
(***************************************************************************)
LogInv ==
  /\ \A f \in Feeds : log[f] # <<>> => lastAttempt[f] = log[f][Len(log[f])].at
  /\ \A f \in Feeds : \A i \in DOMAIN log[f] :
       log[f][i].at <= lastAttempt[f] /\ log[f][i].at <= now
  /\ \A c \in Callers : pc[c] = "stale" => Stale(FeedOf(c))

LEMMA LogInvInit == Init => LogInv /\ ReadSpacing
<1>1. SUFFICES ASSUME Init PROVE LogInv /\ ReadSpacing
  OBVIOUS
<1>2. \A f \in Feeds : log[f] = <<>> /\ DOMAIN log[f] = {}
  <2>1. DOMAIN <<>> = {}
    OBVIOUS
  <2>2. \A f \in Feeds : log[f] = <<>>
    BY <1>1 DEF Init
  <2>3. QED BY <2>1, <2>2
<1>3. \A c \in Callers : pc[c] # "stale"
  BY <1>1 DEF Init
<1>4. QED BY <1>2, <1>3 DEF LogInv, ReadSpacing

(* Only Start stamps an attempt; it does so for the holder of the mutex. *)
LEMMA LogInvStart ==
  ASSUME TypeOK, LockInv, LogInv, ReadSpacing, NEW c \in Callers, Start(c)
  PROVE  LogInv' /\ ReadSpacing'
<1> DEFINE f == FeedOf(c)
           a == [at |-> now, forced |-> c \in Jobs]
<1>1. f \in Feeds /\ now \in Nat /\ a \in Attempt /\ log[f] \in Seq(Attempt)
  BY FeedOfType DEF TypeOK, Attempt
<1>2. /\ lastAttempt' = [lastAttempt EXCEPT ![f] = now]
      /\ log' = [log EXCEPT ![f] = Append(@, a)]
      /\ UNCHANGED <<now, holder, at>>
  BY DEF Start
<1>3. /\ log'[f] = Append(log[f], a) /\ lastAttempt'[f] = now
      /\ \A g \in Feeds \ {f} : log'[g] = log[g] /\ lastAttempt'[g] = lastAttempt[g]
  BY <1>1, <1>2 DEF TypeOK
<1>4. /\ Len(log'[f]) = Len(log[f]) + 1
      /\ DOMAIN log'[f] = DOMAIN log[f] \cup {Len(log[f]) + 1}
      /\ \A i \in DOMAIN log[f] : log'[f][i] = log[f][i]
      /\ log'[f][Len(log[f]) + 1] = a
  BY <1>1, <1>3, AppendAttempt
<1>5. \A g \in Feeds : log'[g] # <<>> => lastAttempt'[g] = log'[g][Len(log'[g])].at
  BY <1>3, <1>4 DEF LogInv
<1>6. ASSUME NEW g \in Feeds, NEW i \in DOMAIN log'[g]
      PROVE  log'[g][i].at <= lastAttempt'[g] /\ log'[g][i].at <= now'
  <2>1. CASE g # f
    BY <1>2, <1>3, <2>1 DEF LogInv
  <2>2. CASE g = f
    BY <1>1, <1>2, <1>3, <1>4, <2>2 DEF LogInv
  <2>3. QED BY <2>1, <2>2
<1>7. ASSUME NEW d \in Callers, pc'[d] = "stale"
      PROVE  Stale(FeedOf(d))'
  <2>1. d # c /\ pc[d] = "stale"
    BY <1>7 DEF Start, TypeOK
  <2>2. Inside(c) /\ Inside(d)
    BY <2>1 DEF Start, Inside
  <2>3. FeedOf(d) # f
    BY <2>1, <2>2 DEF LockInv
  <2>4. FeedOf(d)' = FeedOf(d) /\ FeedOf(d) \in Feeds
    BY <1>2, FeedOfType DEF FeedOf
  <2>5. lastAttempt'[FeedOf(d)] = lastAttempt[FeedOf(d)]
    BY <1>3, <2>3, <2>4
  <2>6. QED BY <1>2, <2>1, <2>4, <2>5 DEF LogInv, Stale
<1>8. LogInv'
  BY <1>5, <1>6, <1>7 DEF LogInv
<1>9. ASSUME NEW i \in DOMAIN log[f], ~a.forced
      PROVE  now - log[f][i].at >= Window[f]
  <2>1. Stale(f)
    BY <1>9 DEF Start, LogInv
  <2>2. log[f][i].at <= lastAttempt[f]
    BY <1>1 DEF LogInv
  <2>3. log[f][i].at \in Nat /\ lastAttempt[f] \in Int /\ Window[f] \in Nat
    BY <1>1, LogEntry, WindowAssumption DEF TypeOK
  <2>4. QED BY <1>1, <2>1, <2>2, <2>3 DEF Stale
<1>10. ASSUME NEW g \in Feeds, NEW i \in DOMAIN log'[g], NEW j \in DOMAIN log'[g],
              i < j, ~log'[g][j].forced
       PROVE  log'[g][j].at - log'[g][i].at >= Window[g]
  <2>1. CASE g # f
    BY <1>3, <1>10, <2>1 DEF ReadSpacing
  <2>2. CASE g = f /\ j \in DOMAIN log[f]
    <3>1. i \in DOMAIN log[f]
      BY <1>1, <1>4, <1>10, <2>2
    <3>2. QED BY <1>4, <1>10, <2>2, <3>1 DEF ReadSpacing
  <2>3. CASE g = f /\ j = Len(log[f]) + 1
    <3>1. i \in DOMAIN log[f]
      BY <1>1, <1>4, <1>10, <2>3
    <3>2. QED BY <1>4, <1>9, <1>10, <2>3, <3>1
  <2>4. QED BY <1>4, <2>1, <2>2, <2>3
<1>11. QED
  BY <1>8, <1>10 DEF ReadSpacing

LEMMA LogInvStep ==
  ASSUME TypeOK, TypeOK', LockInv, LogInv, ReadSpacing, [Next]_vars
  PROVE  LogInv' /\ ReadSpacing'
<1>1. ASSUME NEW c \in Callers, Start(c)
      PROVE  LogInv' /\ ReadSpacing'
  BY <1>1, LogInvStart
<1>2. ASSUME UNCHANGED <<lastAttempt, log>>, now' = now \/ now' = now + 1,
             \A c \in Callers : pc'[c] = "stale" => Stale(FeedOf(c))'
      PROVE  LogInv' /\ ReadSpacing'
  <2>1. ASSUME NEW f \in Feeds, NEW i \in DOMAIN log[f]
        PROVE  log[f][i].at <= now'
    <3>1. now \in Nat /\ log[f][i].at \in Nat /\ log[f][i].at <= now
      BY LogEntry DEF TypeOK, LogInv
    <3>2. QED BY <1>2, <3>1
  <2>2. QED BY <1>2, <2>1 DEF LogInv, ReadSpacing
<1>3. ASSUME NEW c \in Callers, Pass(c)
      PROVE  LogInv' /\ ReadSpacing'
  <2>1. ASSUME NEW d \in Callers, pc'[d] = "stale"
        PROVE  Stale(FeedOf(d))'
    <3>1. UNCHANGED <<now, lastAttempt, at>>
      BY <1>3 DEF Pass
    <3>2. CASE d = c
      BY <1>3, <3>1, <3>2 DEF Pass, Stale, FeedOf
    <3>3. CASE d # c
      <4>1. pc[d] = "stale"
        BY <1>3, <2>1, <3>3 DEF Pass, TypeOK
      <4>2. QED BY <3>1, <4>1 DEF LogInv, Stale, FeedOf
    <3>4. QED BY <3>2, <3>3
  <2>2. UNCHANGED <<lastAttempt, log, now>>
    BY <1>3 DEF Pass
  <2>3. QED BY <1>2, <2>1, <2>2
<1>4. ASSUME NEW c \in Callers,
             Begin(c) \/ Acquire(c) \/ FetchOk(c) \/ FetchFails(c) \/ Leave(c) \/ HangUp(c)
      PROVE  LogInv' /\ ReadSpacing'
  <2>1. UNCHANGED <<lastAttempt, log, now>>
    BY <1>4 DEF Begin, Acquire, FetchOk, FetchFails, Leave, HangUp
  <2>2. ASSUME NEW d \in Callers, pc'[d] = "stale"
        PROVE  pc[d] = "stale" /\ (d # c \/ HangUp(c))
    BY <1>4, <2>2 DEF Begin, Acquire, FetchOk, FetchFails, Leave, HangUp, TypeOK
  <2>3. \A d \in Callers : d # c \/ HangUp(c) => at'[d] = at[d]
    BY <1>4 DEF Begin, Acquire, FetchOk, FetchFails, Leave, HangUp, TypeOK
  <2>4. \A d \in Callers : pc'[d] = "stale" => Stale(FeedOf(d))'
    BY <2>1, <2>2, <2>3 DEF LogInv, Stale, FeedOf
  <2>5. QED BY <1>2, <2>1, <2>4
<1>5. CASE Tick
  <2>1. UNCHANGED <<lastAttempt, log, pc, at>> /\ now' = now + 1
    BY <1>5 DEF Tick
  <2>2. ASSUME NEW d \in Callers, pc'[d] = "stale"
        PROVE  Stale(FeedOf(d))'
    <3>1. FeedOf(d) \in Feeds /\ FeedOf(d)' = FeedOf(d) /\ Stale(FeedOf(d))
      BY <2>1, <2>2, FeedOfType DEF LogInv, FeedOf
    <3>2. now \in Nat /\ lastAttempt[FeedOf(d)] \in Int /\ Window[FeedOf(d)] \in Nat
      BY <3>1, WindowAssumption DEF TypeOK
    <3>3. QED BY <2>1, <3>1, <3>2 DEF Stale
  <2>3. QED BY <1>2, <2>1, <2>2
<1>6. CASE UNCHANGED vars
  <2>1. \A d \in Callers : pc'[d] = "stale" => Stale(FeedOf(d))'
    BY <1>6 DEF vars, LogInv, Stale, FeedOf
  <2>2. QED BY <1>2, <1>6, <2>1 DEF vars
<1>7. QED
  BY <1>1, <1>3, <1>4, <1>5, <1>6 DEF Next, Step, Skip, Release, Quiet

(* The log, the stamps and the spacing, for any windows. *)
THEOREM LogInvariant == Spec => [](LogInv /\ ReadSpacing)
  BY TypeCorrect, LockInvariant, LogInvInit, LogInvStep, PTL DEF Spec

(* At most one read-triggered attempt per window, whoever else refreshes. *)
THEOREM Spacing == Spec => []ReadSpacing
  BY LogInvariant, PTL

-----------------------------------------------------------------------------
(* The refresh under way on f, if there is one, is that of f's holder. *)
InFlight(c) == pc[c] \in {"fetching", "fetched"}

LEMMA BusyOwner ==
  ASSUME TypeOK, LockInv, NEW c \in Callers, Inside(c)
  PROVE  Busy[FeedOf(c)] <=> InFlight(c)
<1>1. ASSUME NEW d \in Callers, InFlight(d), FeedOf(d) = FeedOf(c)
      PROVE  d = c
  BY <1>1 DEF LockInv, Inside, InFlight
<1>2. QED BY <1>1, FeedOfType DEF Busy, InFlight

(* Busy depends on who is past the stamp and where. *)
LEMMA BusySame ==
  ASSUME \A d \in Callers : InFlight(d)' <=> InFlight(d),
         \A d \in Callers : InFlight(d) => FeedOf(d)' = FeedOf(d)
  PROVE  Busy' = Busy
  BY DEF Busy, InFlight

LEMMA StartRefines ==
  ASSUME TypeOK, LockInv, LogInv, NEW c \in Callers, Start(c)
  PROVE  Flight!Start(FeedOf(c), c \in Jobs)
<1> DEFINE f == FeedOf(c)
<1>1. f \in Feeds
  BY FeedOfType
<1>2. Inside(c) /\ ~InFlight(c)
  BY DEF Start, Inside, InFlight
<1>3. ~Busy[f]
  BY <1>2, BusyOwner
<1>4. (c \in Jobs) \/ Flight!Stale(f)
  <2>1. CASE pc[c] = "stale"
    <3>1. Stale(f)
      BY <2>1 DEF LogInv
    <3>2. QED BY <1>1, <3>1 DEF Stale, Flight!Stale, LogInv
  <2>2. QED BY <2>1 DEF Start
<1>5. Busy' = [Busy EXCEPT ![f] = TRUE]
  <2>1. \A d \in Callers : FeedOf(d)' = FeedOf(d)
    BY DEF Start, FeedOf
  <2>2. \A d \in Callers \ {c} : InFlight(d)' <=> InFlight(d)
    BY DEF Start, InFlight, TypeOK
  <2>3. InFlight(c)'
    BY DEF Start, InFlight, TypeOK
  <2>4. QED BY <1>1, <2>1, <2>2, <2>3 DEF Busy, InFlight
<1>6. QED
  BY <1>3, <1>4, <1>5 DEF Start, Flight!Start

LEMMA LeaveRefines ==
  ASSUME TypeOK, LockInv, NEW c \in Callers, Inside(c), Leave(c)
  PROVE  Flight!End(FeedOf(c)) \/ UNCHANGED Flight!vars
<1> DEFINE f == FeedOf(c)
<1>1. f \in Feeds
  BY FeedOfType
<1>2. UNCHANGED <<now, log>>
  BY DEF Leave
<1>3. ASSUME NEW d \in Callers \ {c}
      PROVE  FeedOf(d)' = FeedOf(d) /\ (InFlight(d)' <=> InFlight(d))
  BY DEF Leave, FeedOf, InFlight, TypeOK
<1>4. ~InFlight(c)'
  BY DEF Leave, InFlight, TypeOK
<1>5. CASE InFlight(c)
  <2>1. Busy[f]
    BY <1>5, BusyOwner
  <2>2. \A d \in Callers \ {c} : InFlight(d) => FeedOf(d) # f
    BY DEF LockInv, Inside, InFlight
  <2>3. Busy' = [Busy EXCEPT ![f] = FALSE]
    BY <1>1, <1>3, <1>4, <2>2 DEF Busy, InFlight
  <2>4. QED BY <1>2, <2>1, <2>3 DEF Flight!End
<1>6. CASE ~InFlight(c)
  <2>1. Busy' = Busy
    BY <1>3, <1>4, <1>6, BusySame
  <2>2. QED BY <1>2, <2>1 DEF Flight!vars
<1>7. QED BY <1>5, <1>6

(* The gate implements the single flight, for any callers and plans. *)
THEOREM Refinement == Spec => Implements
<1>1. Init => Flight!Init
  BY DEF Init, Flight!Init, Busy
<1>2. ASSUME TypeOK, LockInv, LogInv, [Next]_vars
      PROVE  [Flight!Next]_(Flight!vars)
  <2> USE <1>2
  <2>1. ASSUME NEW c \in Callers, Start(c)
        PROVE  Flight!Next
    <3>1. FeedOf(c) \in Feeds /\ (c \in Jobs) \in BOOLEAN
      BY FeedOfType
    <3>2. Flight!Start(FeedOf(c), c \in Jobs)
      BY <2>1, StartRefines
    <3>3. QED BY <3>1, <3>2 DEF Flight!Next
  <2>2. ASSUME NEW c \in Callers, Inside(c), Leave(c)
        PROVE  [Flight!Next]_(Flight!vars)
    BY <2>2, LeaveRefines, FeedOfType DEF Flight!Next
  <2>3. ASSUME NEW c \in Callers, Begin(c) \/ Acquire(c) \/ Pass(c) \/ FetchOk(c)
                                 \/ FetchFails(c) \/ HangUp(c)
        PROVE  UNCHANGED Flight!vars
    <3>1. UNCHANGED <<now, log, at>>
      BY <2>3 DEF Begin, Acquire, Pass, FetchOk, FetchFails, HangUp
    <3>2. \A d \in Callers : InFlight(d)' <=> InFlight(d)
      BY <2>3 DEF Begin, Acquire, Pass, FetchOk, FetchFails, HangUp, InFlight, TypeOK
    <3>3. Busy' = Busy
      BY <3>1, <3>2, BusySame DEF FeedOf
    <3>4. QED BY <3>1, <3>3 DEF Flight!vars
  <2>4. CASE Tick
    <3>1. Busy' = Busy
      BY <2>4, BusySame DEF Tick, FeedOf, InFlight
    <3>2. QED BY <2>4, <3>1 DEF Tick, Flight!Next, Flight!Tick
  <2>5. CASE UNCHANGED vars
    BY <2>5, BusySame DEF vars, FeedOf, InFlight, Flight!vars
  <2>6. QED
    BY <2>1, <2>2, <2>3, <2>4, <2>5 DEF Next, Step, Skip, Release, Quiet, Inside
<1>3. QED
  BY <1>1, <1>2, TypeCorrect, LockInvariant, LogInvariant, PTL
     DEF Spec, Implements, Flight!Spec
=============================================================================
