---------------------------- MODULE Server_proofs ----------------------------
(***************************************************************************)
(* Proofs about the server, for any number of clients and requests and any *)
(* limit, window and lag.  First the rate limiter by itself: its inductive *)
(* invariant ties the entry the limiter keeps of a client to the history.  *)
(* A live entry has counted what was let through and was opened at most    *)
(* MaxLag after the time it bears, and where there is no entry a new       *)
(* window may be opened.  Then the server: its limiter takes only steps of *)
(* the limiter's own specification, so the same holds of the server; and   *)
(* two accounts share an email only when their registrations overlapped,   *)
(* whatever crashes and restarts come between.                             *)
(***************************************************************************)
EXTENDS Server, TLAPS

USE DEF limiterVars, limiterHist

Entry == [count : Nat, windowStart : Nat]

(* A request in the queue bears a time of at most MaxLag ago. *)
StampInv == \A r \in Reqs : stamp[r] # None => stamp[r] <= now /\ now - stamp[r] <= MaxLag

(* What the entry of c says of the requests let through. *)
EntryInv(c) ==
  /\ entries[c] # None =>
       /\ entries[c].count <= Limit => spent[c] = entries[c].count
       /\ since[c] <= entries[c].windowStart + MaxLag
  /\ entries[c] = None => since[c] + Spacing <= now

(* The windows of c, in order. *)
HistInv(c) ==
  /\ spent[c] <= Limit
  /\ since[c] <= now /\ last[c] <= now
  /\ before[c][1] <= since[c]
  /\ since[c] - before[c][2] >= Spacing

IInv == LimiterTypeOK /\ StampInv /\ \A c \in Clients : EntryInv(c) /\ HistInv(c)

(***************************************************************************)
(* The operators of the critical section.                                  *)
(***************************************************************************)
LEMMA EntryNotNone == \A e \in Entry : e # None
BY NoneAssumption DEF Entry

(* The purge leaves an entry as it is or takes it away, and takes only     *)
(* entries whose window is over.                                           *)
LEMMA PurgedOne ==
  ASSUME LimiterTypeOK, NEW t \in Nat, NEW c \in Clients
  PROVE  /\ Purged(t)[c] \in {entries[c], None}
         /\ Purged(t)[c] # entries[c] => entries[c] # None /\ Expired(entries[c], t)
         /\ Purged(t) \in [Clients -> Entry \cup {None}]
<1>1. CASE Cardinality(Known) > Cap
  BY <1>1 DEF Purged, LimiterTypeOK, Entry
<1>2. CASE ~(Cardinality(Known) > Cap)
  BY <1>2 DEF Purged, LimiterTypeOK, Entry
<1> QED BY <1>1, <1>2

(* A window is opened for a client only when its entry, if it has one, is  *)
(* over at the time of the request.                                        *)
LEMMA OpensWhen ==
  ASSUME LimiterTypeOK, NEW t \in Nat, NEW c \in Clients, Opens(c, t), entries[c] # None
  PROVE  t > entries[c].windowStart + Window
<1>1. entries[c] \in Entry
  BY DEF LimiterTypeOK, Entry
<1>2. Expired(entries[c], t)
  BY PurgedOne DEF Opens
<1> QED BY <1>1, <1>2, LimitsAssumption DEF Expired, Entry

(* Otherwise the client's entry counts one more. *)
LEMMA CountedIn ==
  ASSUME LimiterTypeOK, NEW t \in Nat, NEW c \in Clients, ~Opens(c, t)
  PROVE  /\ entries[c] \in Entry
         /\ Counted(c, t) = [count |-> entries[c].count + 1,
                             windowStart |-> entries[c].windowStart]
<1>1. Purged(t)[c] # None
  BY DEF Opens
<1>2. Purged(t)[c] = entries[c] /\ entries[c] \in Entry
  BY <1>1, PurgedOne DEF LimiterTypeOK, Entry
<1>3. Counted(c, t) = [entries[c] EXCEPT !.count = @ + 1]
  BY <1>2 DEF Counted
<1> QED BY <1>2, <1>3 DEF Entry

LEMMA CountedType ==
  ASSUME LimiterTypeOK, NEW t \in Nat, NEW c \in Clients
  PROVE  Counted(c, t) \in Entry
<1>1. CASE Opens(c, t)
  BY <1>1 DEF Counted, Entry
<1>2. CASE ~Opens(c, t)
  BY <1>2, CountedIn DEF Entry
<1> QED BY <1>1, <1>2

-----------------------------------------------------------------------------
LEMMA InitIInv == LimiterInit => IInv
<1> SUFFICES ASSUME LimiterInit PROVE IInv OBVIOUS
<1> USE LimitsAssumption, NoneAssumption DEF LimiterInit
<1>0. Spacing \in Int /\ LongAgo \in Int /\ -Spacing - LongAgo >= Spacing /\ LongAgo <= -Spacing
      /\ -Spacing <= 0 /\ LongAgo <= 0
  BY DEF Spacing, LongAgo
<1>1. LimiterTypeOK
  BY <1>0 DEF LimiterTypeOK
<1>2. StampInv
  BY DEF StampInv
<1>3. ASSUME NEW c \in Clients PROVE EntryInv(c) /\ HistInv(c)
  BY <1>0 DEF EntryInv, HistInv
<1> QED BY <1>1, <1>2, <1>3 DEF IInv

LEMMA TypeStep == LimiterTypeOK /\ [LimiterNext]_limiterVars => LimiterTypeOK'
<1> SUFFICES ASSUME LimiterTypeOK, [LimiterNext]_limiterVars PROVE LimiterTypeOK'
  OBVIOUS
<1> USE LimitsAssumption, NoneAssumption, RequestsAssumption
<1>1. CASE Tick
  BY <1>1 DEF Tick, LimiterTypeOK
<1>2. CASE Forget
  BY <1>2 DEF Forget, LimiterTypeOK, Spacing, LongAgo
<1>3. ASSUME NEW r \in Reqs, ReadClock(r) PROVE LimiterTypeOK'
  BY <1>3 DEF ReadClock, LimiterTypeOK
<1>4. ASSUME NEW r \in Reqs, Count(r) PROVE LimiterTypeOK'
  <2> DEFINE c == Client[r]
             t == stamp[r]
  <2>1. c \in Clients /\ t \in Nat
    BY <1>4 DEF Count, LimiterTypeOK
  <2>2. entries' \in [Clients -> Entry \cup {None}]
    <3>1. entries' = [Purged(t) EXCEPT ![c] = Counted(c, t)]
      BY <1>4 DEF Count
    <3>2. Purged(t) \in [Clients -> Entry \cup {None}] /\ Counted(c, t) \in Entry
      BY <2>1, PurgedOne, CountedType
    <3> QED BY <3>1, <3>2, <2>1
  <2>3. stamp' \in [Reqs -> Nat \cup {None}] /\ now' \in Nat
    BY <1>4 DEF Count, LimiterTypeOK
  <2>4. since' \in [Clients -> Int] /\ spent' \in [Clients -> Nat] /\ last' \in [Clients -> Int]
        /\ before' \in [Clients -> Int \X Int]
    <3>1. CASE ~Passes(c, t)
      BY <1>4, <3>1 DEF Count, LimiterTypeOK
    <3>2. CASE Passes(c, t) /\ Opens(c, t)
      <4>1. /\ since' = [since EXCEPT ![c] = now]
            /\ spent' = [spent EXCEPT ![c] = 1]
            /\ last' = [last EXCEPT ![c] = now]
            /\ before' = [before EXCEPT ![c] = <<last[c], before[c][1]>>]
        BY <1>4, <3>2 DEF Count
      <4>2. last[c] \in Int /\ before[c][1] \in Int /\ now \in Nat
        BY <2>1 DEF LimiterTypeOK
      <4> QED BY <4>1, <4>2, <2>1 DEF LimiterTypeOK
    <3>3. CASE Passes(c, t) /\ ~Opens(c, t)
      <4>1. /\ spent' = [spent EXCEPT ![c] = @ + 1]
            /\ last' = [last EXCEPT ![c] = now]
            /\ UNCHANGED <<since, before>>
        BY <1>4, <3>3 DEF Count
      <4> QED BY <4>1, <2>1 DEF LimiterTypeOK
    <3> QED BY <3>1, <3>2, <3>3
  <2> QED BY <2>2, <2>3, <2>4 DEF LimiterTypeOK, Entry
<1>5. CASE UNCHANGED limiterVars
  BY <1>5 DEF LimiterTypeOK
<1> QED BY <1>1, <1>2, <1>3, <1>4, <1>5 DEF LimiterNext

(***************************************************************************)
(* The parts of Count: what it does to the client that is counted, and     *)
(* that it takes from the others at most entries whose window is over.     *)
(***************************************************************************)
LEMMA CountOthers ==
  ASSUME IInv, NEW r \in Reqs, Count(r), NEW c \in Clients, c # Client[r]
  PROVE  EntryInv(c)' /\ HistInv(c)'
<1> USE LimitsAssumption, RequestsAssumption
<1> DEFINE t == stamp[r]
<1>0. LimiterTypeOK /\ StampInv /\ EntryInv(c) /\ HistInv(c)
  BY DEF IInv
<1>1. t \in Nat /\ t <= now /\ now \in Nat /\ now' = now
  BY <1>0 DEF Count, StampInv, LimiterTypeOK
<1>2. since'[c] = since[c] /\ spent'[c] = spent[c] /\ last'[c] = last[c] /\ before'[c] = before[c]
  <2>1. CASE ~Passes(Client[r], t)
    BY <2>1 DEF Count
  <2>2. CASE Passes(Client[r], t) /\ Opens(Client[r], t)
    BY <2>2, <1>0 DEF Count, LimiterTypeOK
  <2>3. CASE Passes(Client[r], t) /\ ~Opens(Client[r], t)
    BY <2>3, <1>0 DEF Count, LimiterTypeOK
  <2> QED BY <2>1, <2>2, <2>3
<1>3. entries'[c] = Purged(t)[c]
  <2>1. entries' = [Purged(t) EXCEPT ![Client[r]] = Counted(Client[r], t)]
    BY DEF Count
  <2> QED BY <2>1, <1>0, <1>1, PurgedOne
<1>4. HistInv(c)'
  BY <1>0, <1>1, <1>2 DEF HistInv, Spacing
<1>5. CASE entries'[c] = entries[c]
  BY <1>5, <1>0, <1>1, <1>2, <1>4 DEF EntryInv, Spacing
<1>6. CASE entries'[c] # entries[c]
  <2>1. entries'[c] = None /\ entries[c] # None /\ Expired(entries[c], t)
    BY <1>6, <1>3, <1>0, <1>1, PurgedOne
  <2>2. entries[c] \in Entry /\ since[c] \in Int
    BY <2>1, <1>0 DEF LimiterTypeOK, Entry
  <2>3. since[c] <= entries[c].windowStart + MaxLag
    BY <2>1, <1>0 DEF EntryInv
  <2>4. since'[c] + Spacing <= now'
    BY <2>1, <2>2, <2>3, <1>1, <1>2 DEF Expired, Spacing, Entry
  <2> QED BY <2>1, <2>4, <1>4 DEF EntryInv, Spacing
<1> QED BY <1>4, <1>5, <1>6

(* A window is opened no sooner than Spacing after the one before. *)
LEMMA OpensSpaced ==
  ASSUME IInv, NEW r \in Reqs, stamp[r] # None, Opens(Client[r], stamp[r])
  PROVE  now - since[Client[r]] >= Spacing
<1> USE LimitsAssumption, RequestsAssumption
<1> DEFINE c == Client[r]
           t == stamp[r]
<1>1. c \in Clients /\ LimiterTypeOK /\ EntryInv(c) /\ t \in Nat /\ now \in Nat /\ t <= now
      /\ since[c] \in Int
  BY DEF IInv, StampInv, LimiterTypeOK
<1>2. CASE entries[c] = None
  BY <1>1, <1>2 DEF EntryInv, Spacing
<1>3. CASE entries[c] # None
  <2>1. entries[c] \in Entry /\ since[c] <= entries[c].windowStart + MaxLag
    BY <1>1, <1>3 DEF LimiterTypeOK, EntryInv, Entry
  <2>2. t > entries[c].windowStart + Window
    BY <1>1, <1>3, OpensWhen
  <2> QED BY <1>1, <2>1, <2>2 DEF Spacing, Entry
<1> QED BY <1>2, <1>3

LEMMA CountOwn ==
  ASSUME IInv, NEW r \in Reqs, Count(r)
  PROVE  EntryInv(Client[r])' /\ HistInv(Client[r])'
<1> USE LimitsAssumption, RequestsAssumption
<1> DEFINE c == Client[r]
           t == stamp[r]
<1>0. /\ LimiterTypeOK /\ StampInv /\ EntryInv(c) /\ HistInv(c)
      /\ c \in Clients
  BY DEF IInv
<1>1. t \in Nat /\ t <= now /\ now - t <= MaxLag /\ now \in Nat /\ now' = now
  BY <1>0 DEF Count, StampInv, LimiterTypeOK
<1>2. entries'[c] = Counted(c, t) /\ entries'[c] # None
  <2>1. entries' = [Purged(t) EXCEPT ![c] = Counted(c, t)]
    BY DEF Count
  <2>2. Counted(c, t) # None
    BY <1>0, <1>1, CountedType, EntryNotNone
  <2> QED BY <2>1, <2>2, <1>0, <1>1, PurgedOne
<1>3. since[c] \in Int /\ spent[c] \in Nat /\ last[c] \in Int /\ before[c] \in Int \X Int
  BY <1>0 DEF LimiterTypeOK
<1>4. CASE Opens(c, t)
  <2>1. Counted(c, t) = [count |-> 1, windowStart |-> t] /\ Passes(c, t)
    BY <1>4 DEF Counted, Passes
  <2>2. since'[c] = now /\ spent'[c] = 1 /\ last'[c] = now /\ before'[c] = <<last[c], before[c][1]>>
    BY <1>4, <2>1, <1>0 DEF Count, LimiterTypeOK
  <2>3. now - since[c] >= Spacing
    BY <1>4, OpensSpaced DEF Count
  <2>4. EntryInv(c)'
    BY <1>1, <1>2, <2>1, <2>2 DEF EntryInv
  <2>5. HistInv(c)'
    BY <1>0, <1>1, <1>3, <2>2, <2>3 DEF HistInv, Spacing
  <2> QED BY <2>4, <2>5
<1>5. CASE ~Opens(c, t)
  <2>1. /\ entries[c] \in Entry /\ entries[c] # None
        /\ Counted(c, t) = [count |-> entries[c].count + 1, windowStart |-> entries[c].windowStart]
    BY <1>5, <1>0, <1>1, CountedIn, EntryNotNone
  <2>2. CASE Passes(c, t)
    <3>1. since'[c] = since[c] /\ spent'[c] = spent[c] + 1 /\ last'[c] = now /\ before'[c] = before[c]
      BY <1>5, <2>2, <1>0 DEF Count, LimiterTypeOK
    <3>2. entries[c].count + 1 <= Limit /\ spent[c] = entries[c].count
      BY <2>1, <2>2, <1>0 DEF Passes, EntryInv, Entry
    <3>3. EntryInv(c)'
      BY <1>0, <1>1, <1>2, <1>3, <2>1, <3>1, <3>2 DEF EntryInv, Entry
    <3>4. HistInv(c)'
      BY <1>0, <1>1, <1>3, <3>1, <3>2 DEF HistInv, Spacing
    <3> QED BY <3>3, <3>4
  <2>3. CASE ~Passes(c, t)
    <3>1. since'[c] = since[c] /\ spent'[c] = spent[c] /\ last'[c] = last[c] /\ before'[c] = before[c]
      BY <2>3 DEF Count
    <3>2. ~(Counted(c, t).count <= Limit)
      BY <2>3 DEF Passes
    <3>3. EntryInv(c)'
      BY <1>0, <1>1, <1>2, <1>3, <2>1, <3>1, <3>2 DEF EntryInv, Entry
    <3>4. HistInv(c)'
      BY <1>0, <1>1, <1>3, <3>1 DEF HistInv, Spacing
    <3> QED BY <3>3, <3>4
  <2> QED BY <2>2, <2>3
<1> QED BY <1>4, <1>5

LEMMA StepIInv == IInv /\ [LimiterNext]_limiterVars => IInv'
<1> SUFFICES ASSUME IInv, [LimiterNext]_limiterVars PROVE IInv'
  OBVIOUS
<1> USE LimitsAssumption, RequestsAssumption
<1>0. LimiterTypeOK /\ LimiterTypeOK' /\ StampInv /\ \A c \in Clients : EntryInv(c) /\ HistInv(c)
  BY TypeStep DEF IInv
<1>1. CASE Tick
  <2>1. now \in Nat /\ now' = now + 1 /\ UNCHANGED <<entries, stamp, limiterHist>>
    BY <1>0, <1>1 DEF Tick, LimiterTypeOK
  <2>2. StampInv'
    <3> SUFFICES ASSUME NEW r \in Reqs, stamp'[r] # None
                 PROVE  stamp'[r] <= now' /\ now' - stamp'[r] <= MaxLag
      BY DEF StampInv
    <3>1. stamp'[r] = stamp[r] /\ now - stamp[r] < MaxLag
      BY <1>1 DEF Tick
    <3>2. stamp[r] \in Nat /\ stamp[r] <= now
      BY <1>0, <3>1 DEF StampInv, LimiterTypeOK
    <3> QED BY <2>1, <3>1, <3>2
  <2>3. ASSUME NEW c \in Clients PROVE EntryInv(c)' /\ HistInv(c)'
    <3>1. since[c] \in Int /\ last[c] \in Int
      BY <1>0 DEF LimiterTypeOK
    <3> QED BY <1>0, <2>1, <3>1 DEF EntryInv, HistInv, Spacing
  <2> QED BY <1>0, <2>2, <2>3 DEF IInv
<1>2. CASE Forget
  <2>0. Spacing \in Int /\ LongAgo \in Int /\ -Spacing - LongAgo >= Spacing /\ LongAgo <= -Spacing
        /\ -Spacing <= 0 /\ LongAgo <= 0 /\ Spacing' = Spacing
    BY DEF Spacing, LongAgo
  <2>1. StampInv'
    BY <1>2 DEF Forget, StampInv
  <2>2. ASSUME NEW c \in Clients PROVE EntryInv(c)' /\ HistInv(c)'
    <3>1. entries'[c] = None /\ since'[c] = -Spacing /\ spent'[c] = 0 /\ last'[c] = LongAgo
          /\ before'[c] = <<LongAgo, LongAgo>> /\ now' = now /\ now \in Nat
      BY <1>0, <1>2 DEF Forget, LimiterTypeOK
    <3> QED BY <2>0, <3>1 DEF EntryInv, HistInv
  <2> QED BY <1>0, <2>1, <2>2 DEF IInv
<1>3. ASSUME NEW r \in Reqs, ReadClock(r) PROVE IInv'
  <2>1. StampInv'
    BY <1>0, <1>3 DEF ReadClock, StampInv, LimiterTypeOK
  <2>2. ASSUME NEW c \in Clients PROVE EntryInv(c)' /\ HistInv(c)'
    BY <1>0, <1>3 DEF ReadClock, EntryInv, HistInv
  <2> QED BY <1>0, <2>1, <2>2 DEF IInv
<1>4. ASSUME NEW r \in Reqs, Count(r) PROVE IInv'
  <2>1. StampInv'
    BY <1>0, <1>4 DEF Count, StampInv, LimiterTypeOK
  <2>2. ASSUME NEW c \in Clients PROVE EntryInv(c)' /\ HistInv(c)'
    BY <1>4, CountOwn, CountOthers
  <2> QED BY <1>0, <2>1, <2>2 DEF IInv
<1>5. CASE UNCHANGED limiterVars
  BY <1>0, <1>5 DEF IInv, StampInv, EntryInv, HistInv
<1> QED BY <1>1, <1>2, <1>3, <1>4, <1>5 DEF LimiterNext

THEOREM LimiterInvariant == LimiterSpec => []IInv
<1>1. LimiterInit => IInv
  BY InitIInv
<1>2. IInv /\ [LimiterNext]_limiterVars => IInv'
  BY StepIInv
<1> QED BY <1>1, <1>2, PTL DEF LimiterSpec

(***************************************************************************)
(* Fixed windows let at most twice the limit through around a boundary     *)
(* (ratelimit.go:42), however requests overtake each other before the      *)
(* mutex and whatever the purge forgets.                                   *)
(***************************************************************************)
THEOREM TwiceAtMostHolds == LimiterSpec => []TwiceAtMost
<1>1. IInv => TwiceAtMost
  BY DEF IInv, HistInv, TwiceAtMost
<1> QED BY <1>1, LimiterInvariant, PTL

(***************************************************************************)
(* The purge keeps its word: above Cap entries a request leaves no entry   *)
(* behind whose window is over at its time.                                *)
(***************************************************************************)
THEOREM MapBoundedHolds == LimiterSpec => MapBounded
<1>1. IInv /\ [LimiterNext]_limiterVars =>
        [\A r \in Reqs : Count(r) /\ Cardinality(Known) > Cap
           => \A c \in Clients : entries'[c] # None => ~Expired(entries'[c], stamp[r])]_limiterVars
  <2> SUFFICES ASSUME IInv, NEW r \in Reqs, Count(r), Cardinality(Known) > Cap,
                      NEW c \in Clients, entries'[c] # None
               PROVE  ~Expired(entries'[c], stamp[r])
    OBVIOUS
  <2> USE LimitsAssumption, RequestsAssumption
  <2> DEFINE t == stamp[r]
  <2>1. LimiterTypeOK /\ t \in Nat /\ Client[r] \in Clients
    BY DEF IInv, Count, LimiterTypeOK
  <2>2. entries' = [Purged(t) EXCEPT ![Client[r]] = Counted(Client[r], t)]
    BY DEF Count
  <2>3. CASE c # Client[r]
    <3>1. entries'[c] = Purged(t)[c]
      BY <2>1, <2>2, <2>3, PurgedOne
    <3> QED BY <3>1 DEF Purged
  <2>4. CASE c = Client[r]
    <3>1. entries'[c] = Counted(c, t)
      BY <2>1, <2>2, <2>4, PurgedOne
    <3>2. CASE Opens(c, t)
      BY <3>1, <3>2, <2>1 DEF Counted, Expired
    <3>3. CASE ~Opens(c, t)
      <4>1. Purged(t)[c] = entries[c] /\ ~Expired(entries[c], t)
        BY <3>3, <2>1, PurgedOne DEF Opens
      <4>2. entries'[c].windowStart = entries[c].windowStart
        BY <3>1, <3>3, <2>1, CountedIn
      <4> QED BY <4>1, <4>2 DEF Expired
    <3> QED BY <3>2, <3>3
  <2> QED BY <2>3, <2>4
<1> QED BY <1>1, LimiterInvariant, PTL DEF LimiterSpec, MapBounded

(***************************************************************************)
(* The limiter implements the abstract one: the windows it gives its       *)
(* clients never hold more than Limit, nor open within Spacing of one      *)
(* another, as seen on the clock and not on the times requests bear.       *)
(***************************************************************************)
THEOREM ImplementsHolds == LimiterSpec => Implements
<1>1. LimiterInit => FW!Init
  BY DEF LimiterInit, FW!Init
<1>2. IInv /\ [LimiterNext]_limiterVars => [FW!Next]_(FW!vars)
  <2> SUFFICES ASSUME IInv, [LimiterNext]_limiterVars PROVE [FW!Next]_(FW!vars)
    OBVIOUS
  <2> USE LimitsAssumption, RequestsAssumption DEF FW!vars
  <2>1. CASE Tick
    BY <2>1 DEF Tick, FW!Next, FW!Tick
  <2>2. CASE Forget
    BY <2>2 DEF Forget, FW!Next, FW!Restart
  <2>3. ASSUME NEW r \in Reqs, ReadClock(r) PROVE UNCHANGED FW!vars
    BY <2>3 DEF ReadClock
  <2>4. ASSUME NEW r \in Reqs, Count(r) PROVE [FW!Next]_(FW!vars)
    <3> DEFINE c == Client[r]
               t == stamp[r]
    <3>0. c \in Clients /\ t \in Nat /\ LimiterTypeOK /\ EntryInv(c) /\ now' = now
      BY <2>4 DEF IInv, Count, LimiterTypeOK
    <3>1. CASE ~Passes(c, t)
      BY <2>4, <3>1 DEF Count
    <3>2. CASE Passes(c, t) /\ Opens(c, t)
      <4>1. now - since[c] >= Spacing
        BY <2>4, <3>2, OpensSpaced DEF Count
      <4>2. since' = [since EXCEPT ![c] = now] /\ spent' = [spent EXCEPT ![c] = 1]
        BY <2>4, <3>2 DEF Count
      <4>3. FW!PassAnew(c)
        BY <4>1, <4>2, <3>0 DEF FW!PassAnew
      <4> QED BY <4>3, <3>0 DEF FW!Next
    <3>3. CASE Passes(c, t) /\ ~Opens(c, t)
      <4>1. entries[c] \in Entry /\ entries[c] # None /\ entries[c].count + 1 <= Limit
        BY <3>0, <3>3, CountedIn, EntryNotNone DEF Passes
      <4>2. spent[c] < Limit
        BY <3>0, <4>1 DEF EntryInv, Entry
      <4>3. spent' = [spent EXCEPT ![c] = @ + 1] /\ UNCHANGED since
        BY <2>4, <3>3 DEF Count
      <4>4. FW!PassIn(c)
        BY <4>2, <4>3, <3>0 DEF FW!PassIn
      <4> QED BY <4>4, <3>0 DEF FW!Next
    <3> QED BY <3>1, <3>2, <3>3
  <2>5. CASE UNCHANGED limiterVars
    BY <2>5
  <2> QED BY <2>1, <2>2, <2>3, <2>4, <2>5 DEF LimiterNext
<1> QED BY <1>1, <1>2, LimiterInvariant, PTL DEF LimiterSpec, Implements, FW!Spec

-----------------------------------------------------------------------------
USE DEF accountVars, lifeVars

(* The kinds of steps that leave the limiter alone.                        *)
LEMMA LifeStepsLimiter ==
  Start \/ ConnectFails \/ Connect \/ Signal \/ Deadline
    \/ (\E j \in Jobs : CronFires(j) \/ JobEnds(j)) \/ Rest
  => UNCHANGED limiterVars
BY DEF Start, ConnectFails, Connect, Signal, Deadline, CronFires, JobEnds, Rest, vars

(* The server drives the limiter as the limiter's specification allows. *)
LEMMA StepLimits == [Next]_vars => [LimiterNext]_limiterVars
<1> SUFFICES ASSUME [Next]_vars PROVE [LimiterNext]_limiterVars
  OBVIOUS
<1>1. CASE ConnectGivesUp \/ Drained \/ Crash
  BY <1>1 DEF ConnectGivesUp, Drained, Crash, Exit, LimiterNext
<1>2. ASSUME NEW r \in Reqs, Unready(r) \/ Serve(r) PROVE UNCHANGED limiterVars
  BY <1>2 DEF Unready, Serve
<1>3. ASSUME NEW r \in Reqs, Accept(r) PROVE [LimiterNext]_limiterVars
  <2>1. CASE Limited(r)
    BY <1>3, <2>1 DEF Accept, LimiterNext
  <2>2. CASE ~Limited(r)
    BY <1>3, <2>2 DEF Accept
  <2> QED BY <2>1, <2>2
<1>4. ASSUME NEW r \in Reqs, PassLimiter(r) PROVE LimiterNext
  BY <1>4 DEF PassLimiter, LimiterNext
<1>5. CASE TimePasses
  BY <1>5 DEF TimePasses, LimiterNext
<1>6. CASE UNCHANGED vars
  BY <1>6 DEF vars
<1> QED BY <1>1, <1>2, <1>3, <1>4, <1>5, <1>6, LifeStepsLimiter DEF Next

THEOREM ServerLimits == Spec => LimiterSpec
<1>1. Init => LimiterInit
  BY DEF Init
<1>2. [Next]_vars => [LimiterNext]_limiterVars
  BY StepLimits
<1> QED BY <1>1, <1>2, PTL DEF Spec, LimiterSpec

(***************************************************************************)
(* No client of the server gets more than twice the limit through within   *)
(* Window - MaxLag, across requests of every kind that is limited.         *)
(***************************************************************************)
THEOREM ServerTwiceAtMost == Spec => []TwiceAtMost
BY ServerLimits, TwiceAtMostHolds, PTL

(***************************************************************************)
(* Nor does its map of clients outgrow the purge.                          *)
(***************************************************************************)
THEOREM ServerMapBounded == Spec => MapBounded
BY ServerLimits, MapBoundedHolds, PTL

(***************************************************************************)
(* Its limiter implements FixedWindow.                                     *)
(***************************************************************************)
THEOREM ServerImplements == Spec => Implements
BY ServerLimits, ImplementsHolds, PTL

-----------------------------------------------------------------------------
(* Accounts.                                                               *)

User == [email : {task[q].email : q \in Reqs}, pass : {task[q].new : q \in Reqs},
         names : Reqs \cup {None}, by : Reqs, looked : Nat]

(* What registration r knew when it looked its email up still says that    *)
(* none of the accounts it saw has that email.                             *)
LookInv ==
  \A r \in Reqs : at[r] = "insert" =>
    /\ found[r] \in 0..Len(users)
    /\ \A i \in 1..found[r] : users[i].email # task[r].email

(* Every account was inserted after its registration looked. *)
OverlapInv ==
  \A i, j \in 1..Len(users) :
    i < j /\ users[i].email = users[j].email => users[j].looked < i

AccInv == task \in Tasks /\ AccountsTypeOK /\ users \in Seq(User) /\ LookInv /\ OverlapInv

LEMMA AfterType ==
  ASSUME NEW r \in Reqs, NEW l
  PROVE  /\ After(r, l) \in {l, "idle"}
         /\ l \notin Answers => After(r, l) = l
BY DEF After

(* A step that leaves the accounts alone, in which nobody starts to insert *)
(* and nobody's answer is outside the known ones.                          *)
LEMMA QuietStep ==
  ASSUME AccInv, task' = task, users' = users, AccountsTypeOK',
         \A q \in Reqs : at'[q] = "insert" => at[q] = "insert" /\ found'[q] = found[q]
  PROVE  AccInv'
BY DEF AccInv, LookInv, OverlapInv, User

(* The same for one request, which goes to l.                              *)
LEMMA QuietGo ==
  ASSUME AccInv, NEW r \in Reqs, NEW l \in {"limit", "find", "set", "get", "work"} \cup Answers,
         task' = task, users' = users, Go(r, l),
         found' = found \/ (\E i \in 0..Len(users) : found' = [found EXCEPT ![r] = i])
  PROVE  AccInv'
<1> USE DEF AccInv
<1>1. After(r, l) \in {l, "idle"}
  BY AfterType
<1>2. at' \in [Reqs -> {"idle", "limit"} \cup Busy \cup Answers]
  BY <1>1 DEF Go, AccountsTypeOK, Busy
<1>3. found' \in [Reqs -> (0..Len(users)) \cup {None}]
  BY DEF AccountsTypeOK
<1>4. AccountsTypeOK'
  BY <1>2, <1>3 DEF AccountsTypeOK
<1>5. ASSUME NEW q \in Reqs, at'[q] = "insert" PROVE at[q] = "insert" /\ found'[q] = found[q]
  <2>1. at' = [at EXCEPT ![r] = After(r, l)] /\ at \in [Reqs -> {"idle", "limit"} \cup Busy \cup Answers]
    BY DEF Go, AccountsTypeOK
  <2>2. After(r, l) # "insert"
    BY <1>1 DEF Answers
  <2>3. q # r /\ at[q] = "insert"
    BY <1>5, <2>1, <2>2
  <2> QED BY <2>3 DEF AccountsTypeOK
<1> QED BY <1>4, <1>5, QuietStep

(* An account is inserted, and the request goes on to its answer.          *)
LEMMA InsertStep ==
  ASSUME AccInv, NEW r \in Reqs, at[r] = "insert", NEW l \in Answers,
         Insert(r), Go(r, l), UNCHANGED <<task, found>>
  PROVE  AccInv'
<1> USE DEF AccInv
<1> DEFINE u == [email |-> task[r].email, pass |-> task[r].new,
                 names |-> None, by |-> r, looked |-> found[r]]
<1>0. found[r] \in 0..Len(users) /\ \A i \in 1..found[r] : users[i].email # task[r].email
  BY DEF LookInv
<1>1. u \in User
  BY <1>0 DEF User
<1>2. /\ users' = Append(users, u) /\ users' \in Seq(User)
      /\ Len(users') = Len(users) + 1 /\ Len(users) \in Nat
      /\ users'[Len(users) + 1] = u
      /\ \A i \in 1..Len(users) : users'[i] = users[i]
  BY <1>1 DEF Insert
<1>3. users' \in Seq(User')
  BY <1>2 DEF User
<1>4. AccountsTypeOK'
  <2>1. After(r, l) \in {l, "idle"}
    BY AfterType
  <2>2. at' \in [Reqs -> {"idle", "limit"} \cup Busy \cup Answers]
    BY <2>1 DEF Go, AccountsTypeOK
  <2>3. found' \in [Reqs -> (0..Len(users')) \cup {None}]
    BY <1>2 DEF AccountsTypeOK
  <2> QED BY <2>2, <2>3 DEF AccountsTypeOK
<1>5. LookInv'
  <2> SUFFICES ASSUME NEW q \in Reqs, at'[q] = "insert"
               PROVE  /\ found'[q] \in 0..Len(users')
                      /\ \A i \in 1..found'[q] : users'[i].email # task'[q].email
    BY DEF LookInv
  <2>1. q # r /\ at[q] = "insert"
    BY AfterType DEF Go, AccountsTypeOK, Answers
  <2>2. found[q] \in 0..Len(users) /\ \A i \in 1..found[q] : users[i].email # task[q].email
    BY <2>1 DEF LookInv
  <2> QED BY <2>2, <1>2
<1>6. OverlapInv'
  <2> SUFFICES ASSUME NEW i \in 1..Len(users'), NEW j \in 1..Len(users'),
                      i < j, users'[i].email = users'[j].email
               PROVE  users'[j].looked < i
    BY DEF OverlapInv
  <2>0. j \in 1..(Len(users) + 1) /\ i \in 1..(Len(users) + 1)
    BY <1>2
  <2>1. i \in 1..Len(users) /\ users'[i] = users[i]
    BY <1>2, <2>0
  <2>2. CASE j \in 1..Len(users)
    BY <1>2, <2>1, <2>2 DEF OverlapInv
  <2>3. CASE j = Len(users) + 1
    <3>1. users[i].email = task[r].email /\ users'[j].looked = found[r]
      BY <1>2, <2>1, <2>3
    <3> QED BY <1>0, <2>1, <3>1
  <2>4. j \in 1..Len(users) \/ j = Len(users) + 1
    BY <1>2, <2>0
  <2> QED BY <2>2, <2>3, <2>4
<1>7. task' \in Tasks
  OBVIOUS
<1> QED BY <1>3, <1>4, <1>5, <1>6, <1>7

(* A field of an account other than those of its registration is set.      *)
LEMMA SetStep ==
  ASSUME AccInv, NEW r \in Reqs, NEW l \in {"get", "ok"},
         \/ users' = [users EXCEPT ![found[r]].pass = task[r].new]
         \/ users' = [users EXCEPT ![found[r]].names = r],
         Go(r, l), UNCHANGED <<task, found>>
  PROVE  AccInv'
<1> USE DEF AccInv
<1>1. /\ users' \in Seq(User) /\ Len(users') = Len(users) /\ Len(users) \in Nat
      /\ \A i \in 1..Len(users) : users'[i].email = users[i].email /\ users'[i].looked = users[i].looked
  <2>1. users \in [1..Len(users) -> User] /\ Len(users) \in Nat
    OBVIOUS
  <2>2. ASSUME NEW i \in 1..Len(users)
        PROVE  /\ users'[i] \in User
               /\ users'[i].email = users[i].email /\ users'[i].looked = users[i].looked
    <3>0. users[i] \in User
      BY <2>1
    <3>1. CASE users' = [users EXCEPT ![found[r]].pass = task[r].new]
      <4>1. users'[i] = users[i] \/ users'[i] = [users[i] EXCEPT !.pass = task[r].new]
        BY <2>1, <3>1
      <4> QED BY <3>0, <4>1 DEF User
    <3>2. CASE users' = [users EXCEPT ![found[r]].names = r]
      <4>1. users'[i] = users[i] \/ users'[i] = [users[i] EXCEPT !.names = r]
        BY <2>1, <3>2
      <4> QED BY <3>0, <4>1 DEF User
    <3> QED BY <3>1, <3>2
  <2>3. users' \in [1..Len(users) -> User]
    <3>1. users' = [i \in 1..Len(users) |-> users'[i]]
      BY <2>1
    <3> QED BY <2>2, <3>1
  <2> QED BY <2>1, <2>2, <2>3
<1>2. users' \in Seq(User')
  BY <1>1 DEF User
<1>3. After(r, l) \in {l, "idle"}
  BY AfterType
<1>4. AccountsTypeOK'
  <2>1. at' \in [Reqs -> {"idle", "limit"} \cup Busy \cup Answers]
    BY <1>3 DEF Go, AccountsTypeOK, Busy, Answers
  <2> QED BY <1>1, <2>1 DEF AccountsTypeOK
<1>5. LookInv'
  <2> SUFFICES ASSUME NEW q \in Reqs, at'[q] = "insert"
               PROVE  /\ found'[q] \in 0..Len(users')
                      /\ \A i \in 1..found'[q] : users'[i].email # task'[q].email
    BY DEF LookInv
  <2>1. at[q] = "insert"
    BY <1>3 DEF Go, AccountsTypeOK
  <2>2. found[q] \in 0..Len(users) /\ \A i \in 1..found[q] : users[i].email # task[q].email
    BY <2>1 DEF LookInv
  <2> QED BY <2>2, <1>1
<1>6. OverlapInv'
  BY <1>1 DEF OverlapInv
<1> QED BY <1>2, <1>4, <1>5, <1>6
(* A registration looks its email up: it goes on only if it is free.       *)
LEMMA LookStep ==
  ASSUME AccInv, NEW r \in Reqs, RegisterLooksUp(r)
  PROVE  AccInv'
<1> USE DEF AccInv, RegisterLooksUp
<1>1. CASE WithEmail(task[r].email) = {}
  <2>1. /\ at' = [at EXCEPT ![r] = "insert"] /\ found' = [found EXCEPT ![r] = Len(users)]
        /\ task' = task /\ users' = users
    BY <1>1 DEF Go, After, Answers
  <2>2. Len(users) \in Nat /\ \A i \in 1..Len(users) : users[i].email # task[r].email
    BY <1>1 DEF WithEmail
  <2>3. AccountsTypeOK'
    BY <2>1, <2>2 DEF AccountsTypeOK, Busy
  <2>4. LookInv'
    BY <2>1, <2>2 DEF LookInv, AccountsTypeOK
  <2> QED BY <2>1, <2>3, <2>4 DEF OverlapInv, User
<1>2. CASE WithEmail(task[r].email) # {}
  <2>1. Len(users) \in 0..Len(users)
    OBVIOUS
  <2>2. Go(r, "refused") /\ (\E i \in 0..Len(users) : found' = [found EXCEPT ![r] = i])
    BY <1>2, <2>1
  <2> QED BY <2>2, QuietGo DEF Answers
<1> QED BY <1>1, <1>2

LEMMA BeginStep ==
  ASSUME AccInv, NEW r \in Reqs, Begin(r)
  PROVE  AccInv'
<1>1. PICK l \in {"find", "work", "set", "get"} :
        /\ Go(r, l) /\ task' = task /\ users' = users
        /\ found' = found \/ (\E i \in 0..Len(users) : found' = [found EXCEPT ![r] = i])
  <2>1. WithEmail(task[r].email) \subseteq 0..Len(users)
    BY DEF WithEmail, AccInv
  <2> QED BY <2>1 DEF Begin
<1> QED BY <1>1, QuietGo DEF Answers

LEMMA HandleStep ==
  ASSUME AccInv, NEW r \in Reqs, Handle(r)
  PROVE  AccInv'
<1>1. CASE RegisterLooksUp(r)
  BY <1>1, LookStep
<1>2. CASE RegisterInserts(r)
  BY <1>2, InsertStep DEF RegisterInserts, Answers
<1>3. CASE Login(r)
  <2>1. PICK l \in {"ok", "refused"} :
          /\ Go(r, l) /\ task' = task /\ users' = users
          /\ found' = found \/ (\E i \in 0..Len(users) : found' = [found EXCEPT ![r] = i])
    <3>1. WithEmail(task[r].email) \subseteq 0..Len(users)
      BY DEF WithEmail, AccInv
    <3> QED BY <1>3, <3>1 DEF Login
  <2> QED BY <2>1, QuietGo DEF Answers
<1>4. CASE Lookup(r) \/ GetProfile(r) \/ WorkDone(r)
  BY <1>4, QuietGo DEF Lookup, GetProfile, WorkDone, Answers
<1>5. CASE VerifyPassword(r)
  BY <1>5, QuietGo DEF VerifyPassword, Answers
<1>6. CASE SetPassword(r) \/ SetNames(r)
  BY <1>6, SetStep DEF SetPassword, SetNames
<1>7. CASE CallFails(r)
  <2>1. CASE UNCHANGED users
    BY <1>7, <2>1, QuietGo DEF CallFails, Answers
  <2>2. CASE at[r] = "insert" /\ Insert(r)
    BY <1>7, <2>2, InsertStep DEF CallFails, Answers
  <2> QED BY <1>7, <2>1, <2>2 DEF CallFails
<1> QED BY <1>1, <1>2, <1>3, <1>4, <1>5, <1>6, <1>7 DEF Handle

(* The end of the process cuts requests off and inserts nothing. *)
LEMMA ExitStep ==
  ASSUME AccInv, Exit
  PROVE  AccInv'
<1> USE DEF AccInv, Exit
<1>1. ASSUME NEW q \in Reqs PROVE at'[q] \in {at[q], "cut", "idle"} /\ at'[q] # "insert"
  BY AfterType DEF InFlight, Busy
<1>2. AccountsTypeOK'
  <2>1. at' = [q \in Reqs |-> at'[q]]
    OBVIOUS
  <2>2. at' \in [Reqs -> {"idle", "limit"} \cup Busy \cup Answers]
    BY <1>1, <2>1 DEF AccountsTypeOK, Answers
  <2> QED BY <2>2 DEF AccountsTypeOK
<1> QED BY <1>1, <1>2, QuietStep

LEMMA StepAccInv == AccInv /\ [Next]_vars => AccInv'
<1> SUFFICES ASSUME AccInv, [Next]_vars PROVE AccInv'
  OBVIOUS
<1>0. UNCHANGED accountVars => AccInv'
  BY DEF AccInv, AccountsTypeOK, LookInv, OverlapInv, User
<1>1. CASE Start \/ ConnectFails \/ Connect \/ Signal \/ Deadline \/ TimePasses \/ Rest
  BY <1>0, <1>1 DEF Start, ConnectFails, Connect, Signal, Deadline, TimePasses, Rest, vars
<1>2. CASE \E j \in Jobs : CronFires(j) \/ JobEnds(j)
  BY <1>0, <1>2 DEF CronFires, JobEnds
<1>3. CASE ConnectGivesUp \/ Drained \/ Crash
  BY <1>3, ExitStep DEF ConnectGivesUp, Drained, Crash
<1>4. ASSUME NEW r \in Reqs, Unready(r) PROVE AccInv'
  BY <1>4, QuietGo DEF Unready, Answers
<1>5. ASSUME NEW r \in Reqs, Accept(r) PROVE AccInv'
  <2>1. CASE Limited(r)
    BY <1>5, <2>1, QuietGo DEF Accept
  <2>2. CASE ~Limited(r)
    BY <1>5, <2>2, BeginStep DEF Accept
  <2> QED BY <2>1, <2>2
<1>6. ASSUME NEW r \in Reqs, PassLimiter(r) PROVE AccInv'
  <2>1. CASE Passes(Client[r], stamp[r])
    BY <1>6, <2>1, BeginStep DEF PassLimiter
  <2>2. CASE ~Passes(Client[r], stamp[r])
    BY <1>6, <2>2, QuietGo DEF PassLimiter, Answers
  <2> QED BY <2>1, <2>2
<1>7. ASSUME NEW r \in Reqs, Serve(r) PROVE AccInv'
  BY <1>7, HandleStep DEF Serve
<1>8. CASE UNCHANGED vars
  BY <1>0, <1>8 DEF vars
<1> QED BY <1>1, <1>2, <1>3, <1>4, <1>5, <1>6, <1>7, <1>8 DEF Next

LEMMA InitAccInv == Init => AccInv
<1> SUFFICES ASSUME Init PROVE AccInv
  OBVIOUS
<1>1. users = <<>> /\ Len(users) = 0 /\ users \in Seq(User)
  BY DEF Init, AccountsInit
<1> QED BY <1>1, TasksAssumption
        DEF Init, AccountsInit, AccInv, AccountsTypeOK, LookInv, OverlapInv

THEOREM AccountsInvariant == Spec => []AccInv
<1>1. Init => AccInv
  BY InitAccInv
<1>2. AccInv /\ [Next]_vars => AccInv'
  BY StepAccInv
<1> QED BY <1>1, <1>2, PTL DEF Spec

(***************************************************************************)
(* An email has two accounts only if the later registration looked it up   *)
(* before the earlier one inserted (handlers.go:416), for any number of    *)
(* requests of any kind, failures and restarts between them included.      *)
(***************************************************************************)
THEOREM DuplicateOnlyByOverlapHolds == Spec => []DuplicateOnlyByOverlap
<1>1. AccInv => DuplicateOnlyByOverlap
  BY DEF AccInv, OverlapInv, DuplicateOnlyByOverlap
<1> QED BY <1>1, AccountsInvariant, PTL

-----------------------------------------------------------------------------
(* The lifecycle.                                                          *)

LifeTypeOK ==
  /\ phase \in {"off", "boot", "serving", "drain"}
  /\ tried \in 0..(MongoAttempts - 1)
  /\ late \in BOOLEAN
  /\ jobs \subseteq Jobs
  /\ starts \in 0..MaxStarts

LEMMA StepLifeTypeOK == LifeTypeOK /\ [Next]_vars => LifeTypeOK'
<1> SUFFICES ASSUME LifeTypeOK, [Next]_vars PROVE LifeTypeOK'
  OBVIOUS
<1> USE LifeAssumption DEF LifeTypeOK
<1>1. CASE Start
  BY <1>1 DEF Start
<1>2. CASE ConnectFails
  <2>1. tried' \in 0..(MongoAttempts - 1)
    BY <1>2 DEF ConnectFails
  <2> QED BY <1>2, <2>1 DEF ConnectFails
<1>7. CASE Connect \/ Signal
  BY <1>7 DEF Connect, Signal
<1>8. CASE Deadline
  BY <1>8, Zenon DEF Deadline
<1>3. CASE \E j \in Jobs : CronFires(j) \/ JobEnds(j)
  BY <1>3 DEF CronFires, JobEnds
<1>4. CASE ConnectGivesUp \/ Drained \/ Crash
  <2>1. Exit
    BY <1>4 DEF ConnectGivesUp, Drained, Crash
  <2>2. tried' \in 0..(MongoAttempts - 1)
    BY <2>1 DEF Exit
  <2>3. late' \in BOOLEAN
    BY <2>1, Zenon DEF Exit
  <2> QED BY <2>1, <2>2, <2>3 DEF Exit
<1>5. CASE \E r \in Reqs : Unready(r) \/ Accept(r) \/ PassLimiter(r) \/ Serve(r)
  BY <1>5 DEF Unready, Accept, PassLimiter, Serve
<1>6. CASE TimePasses \/ Rest \/ UNCHANGED vars
  BY <1>6 DEF TimePasses, Rest, vars
<1> QED BY <1>1, <1>2, <1>3, <1>4, <1>5, <1>6, <1>7, <1>8 DEF Next

(***************************************************************************)
(* Every variable of the server keeps its type: the boot loop counts below *)
(* the number of its attempts, and requests refer to accounts there are.   *)
(***************************************************************************)
THEOREM ServerTypeCorrect == Spec => []TypeOK
<1>1. Init => LifeTypeOK
  <2> SUFFICES ASSUME Init PROVE LifeTypeOK
    OBVIOUS
  <2>1. tried \in 0..(MongoAttempts - 1) /\ starts \in 0..MaxStarts
    BY LifeAssumption DEF Init
  <2>2. late \in BOOLEAN
    BY Zenon DEF Init
  <2> QED BY <2>1, <2>2 DEF Init, LifeTypeOK
<1>2. LifeTypeOK /\ [Next]_vars => LifeTypeOK'
  BY StepLifeTypeOK
<1>3. Spec => []LifeTypeOK
  BY <1>1, <1>2, PTL DEF Spec
<1>4. LifeTypeOK /\ IInv /\ AccInv => TypeOK
  BY DEF LifeTypeOK, IInv, AccInv, TypeOK
<1> QED BY <1>3, <1>4, ServerLimits, LimiterInvariant, AccountsInvariant, PTL
=============================================================================
