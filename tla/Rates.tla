------------------------------- MODULE Rates -------------------------------
(***************************************************************************)
(* The exchange-rate cache: service/rates.go over the one document of      *)
(* store/exchange_rates.go.  No mutex guards it, and every caller fetches  *)
(* for itself:                                                             *)
(*                                                                         *)
(*   a getter     Get: the rates endpoint, a bank account, the FX revaluer *)
(*   a converter  usdToINR over Get: a crypto or a stock valuation         *)
(*   a refresher  Refresh: the nightly job                                 *)
(*                                                                         *)
(* A rate is identified by the time at which the service gave it out, or   *)
(* is MadeUp: a constant of the code.                                      *)
(***************************************************************************)
EXTENDS Integers

CONSTANTS Getters, Converters, Refreshers,
          TTL,         \* cacheTTL
          MaxFetch,    \* the timeout of the HTTP client
          MaxWrite,    \* the longest a write of the document takes
          Lackable,    \* what a reply of the service may lack: of INR, EUR
          ApiFaults,   \* whether a fetch may fail
          DbFaults,    \* whether a read or write of the document may fail
          MaxTime,     \* bound on the clock
          MadeUp,      \* a rate nobody gave out
          Empty        \* no document; no rates

Callers == Getters \cup Converters \cup Refreshers

ASSUME CallersAssumption ==
  /\ Getters \cap Converters = {} /\ Getters \cap Refreshers = {} /\ Converters \cap Refreshers = {}
ASSUME TimeAssumption == {TTL, MaxFetch, MaxWrite, MaxTime} \subseteq Nat
ASSUME FaultsAssumption ==
  Lackable \subseteq {"INR", "EUR"} /\ ApiFaults \in BOOLEAN /\ DbFaults \in BOOLEAN

VARIABLES now,     \* time
          doc,     \* the document: rates and timestamp, or Empty
          pc,      \* pc[c]: where caller c is
          began,   \* began[c]: when c sent its request to the service
          seen,    \* seen[c]: the rates c read from the document
          got,     \* got[c]: the rates the service gave c
          stamp,   \* stamp[c]: the timestamp c is about to write
          answer   \* answer[c]: what c returned, Empty for an error

vars == <<now, doc, pc, began, seen, got, stamp, answer>>

(* Rupees per dollar and per euro. *)
Currencies == {"USD", "EUR"}
RatesOf == [Currencies -> Nat \cup {MadeUp}]
Doc == [rates : RatesOf, timestamp : Nat]

ASSUME ValuesAssumption == MadeUp \notin Int /\ Empty \notin RatesOf /\ Empty \notin Doc

(* The call is over.  A converter has 83 to fall back on. *)
Return(c, rates, how) ==
  /\ pc' = [pc EXCEPT ![c] = how]
  /\ began' = [began EXCEPT ![c] = 0]
  /\ got' = [got EXCEPT ![c] = Empty]
  /\ stamp' = [stamp EXCEPT ![c] = 0]
  /\ answer' = [answer EXCEPT ![c] =
                  IF c \in Converters /\ rates = Empty THEN [x \in Currencies |-> MadeUp] ELSE rates]

Init ==
  /\ now = 0
  /\ doc = Empty
  /\ pc = [c \in Callers |-> "idle"]
  /\ began = [c \in Callers |-> 0]
  /\ seen = [c \in Callers |-> Empty]
  /\ got = [c \in Callers |-> Empty]
  /\ stamp = [c \in Callers |-> 0]
  /\ answer = [c \in Callers |-> Empty]

-----------------------------------------------------------------------------
(* Mutant of IsFresh: off by one. *)
IsFreshAtTTL(d) == d # Empty /\ now - d.timestamp <= TTL

IsFresh(d) == d # Empty /\ now - d.timestamp < TTL

(* Get reads the document and answers from it while it is fresh. *)
Hit(c) ==
  /\ pc[c] = "idle" /\ c \notin Refreshers
  /\ IsFresh(doc)
  /\ seen' = [seen EXCEPT ![c] = doc.rates]
  /\ Return(c, doc.rates, "hit")
  /\ UNCHANGED <<now, doc>>

ReadFails(c) ==
  /\ DbFaults
  /\ pc[c] = "idle" /\ c \notin Refreshers
  /\ Return(c, Empty, "error")
  /\ UNCHANGED <<now, doc, seen>>

(* Otherwise it asks the service, and keeps what it read; Refresh asks     *)
(* without reading.                                                        *)
Ask(c) ==
  /\ pc[c] = "idle"
  /\ c \in Refreshers \/ ~IsFresh(doc)
  /\ seen' = [seen EXCEPT ![c] = IF c \in Refreshers \/ doc = Empty THEN Empty ELSE doc.rates]
  /\ began' = [began EXCEPT ![c] = now]
  /\ pc' = [pc EXCEPT ![c] = "asking"]
  /\ UNCHANGED <<now, doc, got, stamp, answer>>

(* Mutant of Reply: makes up nothing and leaves out what is lacking. *)
ReplyPart(c) ==
  /\ pc[c] = "asking"
  /\ \E lack \in SUBSET Lackable :
       got' = [got EXCEPT ![c] = IF lack = {} THEN [USD |-> now, EUR |-> now] ELSE [USD |-> now]]
  /\ pc' = [pc EXCEPT ![c] = "replied"]
  /\ UNCHANGED <<now, doc, began, seen, stamp, answer>>

(* The service answers, with the rates of this moment.  What the reply     *)
(* lacks, fetchFromAPI makes up; rupees per euro take both.                *)
Reply(c) ==
  /\ pc[c] = "asking"
  /\ \E lack \in SUBSET Lackable :
       got' = [got EXCEPT ![c] = [USD |-> IF "INR" \in lack THEN MadeUp ELSE now,
                                  EUR |-> IF lack = {} THEN now ELSE MadeUp]]
  /\ pc' = [pc EXCEPT ![c] = "replied"]
  /\ UNCHANGED <<now, doc, began, seen, stamp, answer>>

(* Mutant of FetchFails: serves constants instead of what it read. *)
FetchFailsMadeUp(c) ==
  /\ ApiFaults
  /\ pc[c] \in {"asking", "replied"}
  /\ IF seen[c] = Empty
     THEN Return(c, Empty, "error")
     ELSE Return(c, [x \in Currencies |-> MadeUp], "stale")
  /\ UNCHANGED <<now, doc, seen>>

(* The fetch fails: Get serves what it read, if anything. *)
FetchFails(c) ==
  /\ ApiFaults
  /\ pc[c] \in {"asking", "replied"}
  /\ Return(c, seen[c], IF seen[c] = Empty THEN "error" ELSE "stale")
  /\ UNCHANGED <<now, doc, seen>>

(* The reply arrives, and the clock is read for the timestamp. *)
Receive(c) ==
  /\ pc[c] = "replied"
  /\ stamp' = [stamp EXCEPT ![c] = now]
  /\ pc' = [pc EXCEPT ![c] = "storing"]
  /\ UNCHANGED <<now, doc, began, seen, got, answer>>

(* UpsertExchangeRatesCache, whatever the document holds by then. *)
Store(c) ==
  /\ pc[c] = "storing"
  /\ doc' = [rates |-> got[c], timestamp |-> stamp[c]]
  /\ Return(c, got[c], "fetched")
  /\ UNCHANGED <<now, seen>>

StoreFails(c) ==
  /\ DbFaults
  /\ pc[c] = "storing"
  /\ Return(c, Empty, "error")
  /\ UNCHANGED <<now, doc, seen>>

(* Mutant of Timely: a client without a timeout. *)
TimelyWrite(c) == pc[c] = "storing" => now < stamp[c] + MaxWrite

(* The client gives a fetch MaxFetch and no longer.  That a write takes at *)
(* most MaxWrite is not the code's doing but the database's.               *)
Timely(c) ==
  /\ pc[c] \in {"asking", "replied"} => now < began[c] + MaxFetch
  /\ pc[c] = "storing" => now < stamp[c] + MaxWrite

Tick ==
  /\ now < MaxTime
  /\ \A c \in Callers : Timely(c)
  /\ now' = now + 1
  /\ UNCHANGED <<doc, pc, began, seen, got, stamp, answer>>

(* The next request on behalf of c. *)
Again(c) ==
  /\ pc[c] \in {"hit", "stale", "fetched", "error"}
  /\ pc' = [pc EXCEPT ![c] = "idle"]
  /\ seen' = [seen EXCEPT ![c] = Empty]
  /\ answer' = [answer EXCEPT ![c] = Empty]
  /\ UNCHANGED <<now, doc, began, got, stamp>>

Next ==
  \/ \E c \in Callers :
       \/ Hit(c) \/ ReadFails(c) \/ Ask(c) \/ Reply(c) \/ FetchFails(c)
       \/ Receive(c) \/ Store(c) \/ StoreFails(c) \/ Again(c)
  \/ Tick

Spec == Init /\ [][Next]_vars

-----------------------------------------------------------------------------
(* Every variable has its type; rates are never half filled in. *)
TypeOK ==
  /\ now \in 0..MaxTime
  /\ doc \in {Empty} \cup Doc
  /\ pc \in [Callers -> {"idle", "asking", "replied", "storing",
                         "hit", "stale", "fetched", "error"}]
  /\ began \in [Callers -> Nat]
  /\ seen \in [Callers -> RatesOf \cup {Empty}]
  /\ got \in [Callers -> RatesOf \cup {Empty}]
  /\ stamp \in [Callers -> Nat]
  /\ answer \in [Callers -> RatesOf \cup {Empty}]

(***************************************************************************)
(* A rate served from the cache was given out less than the TTL and one    *)
(* fetch ago, although nothing orders the fetches and a slow one may       *)
(* overwrite the result of a faster one.                                   *)
(***************************************************************************)
HitIsFresh ==
  [][\A c \in Callers : \A x \in Currencies :
       pc[c] # "hit" /\ pc'[c] = "hit" /\ doc.rates[x] # MadeUp
         => answer'[c][x] = doc.rates[x] /\ now - doc.rates[x] < TTL + MaxFetch]_vars

(***************************************************************************)
(* Fetches that overlap may be stored in the wrong order, but a rate in    *)
(* the cache never goes back by more than one fetch and its write take.    *)
(***************************************************************************)
StepBackBounded ==
  [][\A x \in Currencies :
       doc # Empty => \/ MadeUp \in {doc.rates[x], doc'.rates[x]}
                      \/ doc.rates[x] - doc'.rates[x] <= MaxFetch + MaxWrite]_doc

(***************************************************************************)
(* "Serve the stale cache rather than fabricated rates; with no cache at   *)
(* all, fail loudly instead of inventing numbers": whatever another caller *)
(* stores or fails at meanwhile, an answer that was not fetched is exactly *)
(* what this caller read, or an error, for which a converter alone has a   *)
(* constant.  A fetched answer is no older than what was read before it    *)
(* was asked for, as far as both were given out.                           *)
(***************************************************************************)
NeverBehindRead ==
  \A c \in Callers :
    /\ pc[c] \in {"hit", "stale"} => seen[c] # Empty /\ answer[c] = seen[c]
    /\ pc[c] = "error" /\ c \notin Converters => answer[c] = Empty
    /\ pc[c] = "fetched" /\ seen[c] # Empty =>
         \A x \in Currencies :
           MadeUp \in {seen[c][x], answer[c][x]} \/ answer[c][x] >= seen[c][x]

(***************************************************************************)
(* fx_revalue.go says of the fallback inside Get that it "only applies     *)
(* when the cache is empty AND the FX API is down": a rate that was given  *)
(* out is never replaced by one that was made up.                          *)
(***************************************************************************)
FallbackOnlyWhenEmpty ==
  [][\A x \in Currencies :
       doc # Empty /\ doc.rates[x] # MadeUp => doc'.rates[x] # MadeUp]_doc
=============================================================================
