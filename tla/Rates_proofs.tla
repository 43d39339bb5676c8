---------------------------- MODULE Rates_proofs ----------------------------
(***************************************************************************)
(* Proofs about the exchange-rate cache, for any number of callers.        *)
(***************************************************************************)
EXTENDS Rates, TLAPS

-----------------------------------------------------------------------------
(* How old things can be.  A rate in hand was given out no longer ago than *)
(* a fetch takes before its timestamp is read, and so it is in the cache.  *)
DocAge ==
  doc # Empty =>
    /\ doc.timestamp <= now
    /\ \A x \in Currencies :
         doc.rates[x] # MadeUp =>
           /\ doc.rates[x] <= doc.timestamp
           /\ doc.timestamp - doc.rates[x] <= MaxFetch

CallAge(c) ==
  /\ pc[c] \in {"asking", "replied"} => began[c] <= now /\ now <= began[c] + MaxFetch
  /\ pc[c] \in {"replied", "storing"} => got[c] \in RatesOf
  /\ pc[c] = "storing" => stamp[c] <= now /\ now <= stamp[c] + MaxWrite
  /\ \A x \in Currencies :
       /\ pc[c] = "replied" /\ got[c][x] # MadeUp => began[c] <= got[c][x] /\ got[c][x] <= now
       /\ pc[c] = "storing" /\ got[c][x] # MadeUp =>
            got[c][x] <= stamp[c] /\ stamp[c] <= got[c][x] + MaxFetch

(* What a caller read is no newer than what it is about to answer, or has  *)
(* answered.                                                               *)
CallOrder(c) ==
  seen[c] # Empty => \A x \in Currencies :
    seen[c][x] # MadeUp =>
      /\ pc[c] \in {"asking", "replied"} => seen[c][x] <= began[c]
      /\ pc[c] = "storing" /\ got[c][x] # MadeUp => seen[c][x] <= got[c][x]

NotBehind(c) ==
  /\ pc[c] \in {"hit", "stale"} => seen[c] # Empty /\ answer[c] = seen[c]
  /\ pc[c] = "error" /\ c \notin Converters => answer[c] = Empty
  /\ pc[c] = "fetched" /\ seen[c] # Empty =>
       \A x \in Currencies :
         MadeUp \in {seen[c][x], answer[c][x]} \/ answer[c][x] >= seen[c][x]

CallOK(c) == CallAge(c) /\ CallOrder(c) /\ NotBehind(c)
Calls == \A c \in Callers : CallOK(c)

IInv == TypeOK /\ DocAge /\ Calls

-----------------------------------------------------------------------------
(* A call keeps what holds of it while others take steps. *)
LEMMA CallFrame ==
  ASSUME NEW d \in Callers, CallOK(d), now' = now, pc'[d] = pc[d], began'[d] = began[d],
         seen'[d] = seen[d], got'[d] = got[d], stamp'[d] = stamp[d], answer'[d] = answer[d]
  PROVE  CallOK(d)'
<1>1. CallAge(d)'
  BY DEF CallOK, CallAge
<1>2. CallOrder(d)'
  BY DEF CallOK, CallOrder
<1>3. NotBehind(d)'
  BY DEF CallOK, NotBehind
<1>4. QED BY <1>1, <1>2, <1>3 DEF CallOK

(* A step of one call. *)
LEMMA CallStep ==
  ASSUME Calls, NEW c \in Callers, now' = now, CallOK(c)',
         \A d \in Callers \ {c} :
           /\ pc'[d] = pc[d] /\ began'[d] = began[d] /\ seen'[d] = seen[d]
           /\ got'[d] = got[d] /\ stamp'[d] = stamp[d] /\ answer'[d] = answer[d]
  PROVE  Calls'
  BY CallFrame DEF Calls

(* What is returned is rates or an error. *)
LEMMA ReturnType ==
  ASSUME TypeOK, NEW c \in Callers, NEW rates \in RatesOf \cup {Empty},
         NEW how \in {"hit", "stale", "fetched", "error"}, Return(c, rates, how)
  PROVE  /\ pc' \in [Callers -> {"idle", "asking", "replied", "storing",
                                 "hit", "stale", "fetched", "error"}]
         /\ began' \in [Callers -> Nat]
         /\ got' \in [Callers -> RatesOf \cup {Empty}]
         /\ stamp' \in [Callers -> Nat]
         /\ answer' \in [Callers -> RatesOf \cup {Empty}]
<1>1. [x \in Currencies |-> MadeUp] \in RatesOf
  BY DEF RatesOf
<1>2. (IF c \in Converters /\ rates = Empty THEN [x \in Currencies |-> MadeUp] ELSE rates)
         \in RatesOf \cup {Empty}
  BY <1>1
<1>3. QED BY <1>2 DEF TypeOK, Return

(* The end of a call: what the caller must have made sure of. *)
LEMMA ReturnStep ==
  ASSUME TypeOK, Calls, NEW c \in Callers, NEW rates \in RatesOf \cup {Empty},
         NEW how \in {"hit", "stale", "fetched", "error"}, Return(c, rates, how),
         now' = now, \A d \in Callers \ {c} : seen'[d] = seen[d],
         rates = Empty <=> how = "error",
         how \in {"hit", "stale"} => seen'[c] = rates,
         how = "fetched" /\ seen'[c] # Empty =>
           \A x \in Currencies : MadeUp \in {seen'[c][x], rates[x]} \/ rates[x] >= seen'[c][x]
  PROVE  Calls'
<1>1. /\ pc'[c] = how
      /\ how # "error" \/ c \notin Converters => answer'[c] = rates
  BY DEF TypeOK, Return
<1>2. CallAge(c)'
  BY <1>1 DEF CallAge
<1>3. CallOrder(c)'
  BY <1>1 DEF CallOrder
<1>4. NotBehind(c)'
  BY <1>1 DEF NotBehind
<1>5. \A d \in Callers \ {c} :
        /\ pc'[d] = pc[d] /\ began'[d] = began[d]
        /\ got'[d] = got[d] /\ stamp'[d] = stamp[d] /\ answer'[d] = answer[d]
  BY DEF TypeOK, Return
<1>6. QED BY <1>2, <1>3, <1>4, <1>5, CallStep DEF CallOK

-----------------------------------------------------------------------------
(* One lemma for each action. *)

LEMMA HitStep ==
  ASSUME IInv, NEW c \in Callers, Hit(c)
  PROVE  IInv'
<1>1. /\ UNCHANGED <<now, doc>>
      /\ doc \in Doc
      /\ seen' = [seen EXCEPT ![c] = doc.rates]
      /\ Return(c, doc.rates, "hit")
  BY DEF Hit, IsFresh, IInv, TypeOK
<1>2. doc.rates \in RatesOf /\ doc.rates # Empty
  BY <1>1, ValuesAssumption DEF Doc
<1>3. TypeOK'
  BY <1>1, <1>2, ReturnType DEF IInv, TypeOK
<1>4. DocAge'
  BY <1>1 DEF IInv, DocAge
<1>5. seen'[c] = doc.rates /\ \A d \in Callers \ {c} : seen'[d] = seen[d]
  BY <1>1 DEF IInv, TypeOK
<1>6. Calls'
  BY <1>1, <1>2, <1>5, ReturnStep DEF IInv
<1>7. QED BY <1>3, <1>4, <1>6 DEF IInv

LEMMA ErrorStep ==
  ASSUME IInv, NEW c \in Callers, ReadFails(c) \/ StoreFails(c)
  PROVE  IInv'
<1>1. UNCHANGED <<now, doc, seen>> /\ Return(c, Empty, "error")
  BY DEF ReadFails, StoreFails
<1>2. TypeOK'
  BY <1>1, ReturnType DEF IInv, TypeOK
<1>3. DocAge'
  BY <1>1 DEF IInv, DocAge
<1>4. Calls'
  BY <1>1, ReturnStep DEF IInv
<1>5. QED BY <1>2, <1>3, <1>4 DEF IInv

LEMMA AskStep ==
  ASSUME IInv, NEW c \in Callers, Ask(c)
  PROVE  IInv'
<1> DEFINE read == IF c \in Refreshers \/ doc = Empty THEN Empty ELSE doc.rates
<1>1. /\ UNCHANGED <<now, doc, got, stamp, answer>>
      /\ seen' = [seen EXCEPT ![c] = read]
      /\ began' = [began EXCEPT ![c] = now]
      /\ pc' = [pc EXCEPT ![c] = "asking"]
  BY DEF Ask
<1>2. read \in RatesOf \cup {Empty}
  BY DEF IInv, TypeOK, Doc
<1>3. TypeOK'
  BY <1>1, <1>2, TimeAssumption DEF IInv, TypeOK
<1>4. DocAge'
  BY <1>1 DEF IInv, DocAge
<1>5. pc'[c] = "asking" /\ began'[c] = now /\ seen'[c] = read
  BY <1>1 DEF IInv, TypeOK
<1>6. CallAge(c)'
  BY <1>1, <1>5, TimeAssumption DEF CallAge, IInv, TypeOK
<1>7. CallOrder(c)'
  <2>1. ASSUME doc # Empty, NEW x \in Currencies, doc.rates[x] # MadeUp
        PROVE  doc.rates[x] <= now
    BY <2>1, TimeAssumption DEF IInv, DocAge, TypeOK, Doc, RatesOf
  <2>2. QED BY <1>1, <1>5, <2>1 DEF CallOrder
<1>8. NotBehind(c)'
  BY <1>5 DEF NotBehind
<1>9. \A d \in Callers \ {c} :
        pc'[d] = pc[d] /\ began'[d] = began[d] /\ seen'[d] = seen[d]
  BY <1>1 DEF IInv, TypeOK
<1>10. Calls'
  BY <1>1, <1>6, <1>7, <1>8, <1>9, CallStep DEF CallOK, IInv
<1>11. QED BY <1>3, <1>4, <1>10 DEF IInv

LEMMA ReplyStep ==
  ASSUME IInv, NEW c \in Callers, Reply(c)
  PROVE  IInv'
<1>1. PICK lack \in SUBSET Lackable :
        got' = [got EXCEPT ![c] = [USD |-> IF "INR" \in lack THEN MadeUp ELSE now,
                                   EUR |-> IF lack = {} THEN now ELSE MadeUp]]
  BY DEF Reply
<1>2. PICK r : r = [USD |-> IF "INR" \in lack THEN MadeUp ELSE now,
                    EUR |-> IF lack = {} THEN now ELSE MadeUp]
  OBVIOUS
<1>3. /\ UNCHANGED <<now, doc, began, seen, stamp, answer>>
      /\ got' = [got EXCEPT ![c] = r]
      /\ pc[c] = "asking"
      /\ pc' = [pc EXCEPT ![c] = "replied"]
  BY <1>1, <1>2 DEF Reply
<1>4. now \in Nat
  BY TimeAssumption DEF IInv, TypeOK
<1>5. r \in RatesOf /\ \A x \in Currencies : r[x] \in {now, MadeUp}
  BY <1>2, <1>4 DEF RatesOf, Currencies
<1>6. TypeOK'
  BY <1>3, <1>5 DEF IInv, TypeOK
<1>7. DocAge'
  BY <1>3 DEF IInv, DocAge
<1>8. pc'[c] = "replied" /\ got'[c] = r
  BY <1>3 DEF IInv, TypeOK
<1>9. CallOK(c)
  BY DEF IInv, Calls
<1>10. CallAge(c)'
  BY <1>3, <1>4, <1>5, <1>8, <1>9 DEF CallOK, CallAge
<1>11. CallOrder(c)'
  BY <1>3, <1>8, <1>9 DEF CallOK, CallOrder
<1>12. NotBehind(c)'
  BY <1>8 DEF NotBehind
<1>13. \A d \in Callers \ {c} : pc'[d] = pc[d] /\ got'[d] = got[d]
  BY <1>3 DEF IInv, TypeOK
<1>14. Calls'
  BY <1>3, <1>10, <1>11, <1>12, <1>13, CallStep DEF CallOK, IInv
<1>15. QED BY <1>6, <1>7, <1>14 DEF IInv

LEMMA FetchFailsStep ==
  ASSUME IInv, NEW c \in Callers, FetchFails(c)
  PROVE  IInv'
<1>1. PICK how \in {"stale", "error"} :
        /\ how = IF seen[c] = Empty THEN "error" ELSE "stale"
        /\ Return(c, seen[c], how)
  BY DEF FetchFails
<1>2. UNCHANGED <<now, doc, seen>>
  BY DEF FetchFails
<1>3. seen[c] \in RatesOf \cup {Empty}
  BY DEF IInv, TypeOK
<1>4. TypeOK'
  BY <1>1, <1>2, <1>3, ReturnType DEF IInv, TypeOK
<1>5. DocAge'
  BY <1>2 DEF IInv, DocAge
<1>6. Calls'
  BY <1>1, <1>2, <1>3, ReturnStep DEF IInv
<1>7. QED BY <1>4, <1>5, <1>6 DEF IInv

LEMMA ReceiveStep ==
  ASSUME IInv, NEW c \in Callers, Receive(c)
  PROVE  IInv'
<1>1. /\ UNCHANGED <<now, doc, began, seen, got, answer>>
      /\ pc[c] = "replied"
      /\ stamp' = [stamp EXCEPT ![c] = now]
      /\ pc' = [pc EXCEPT ![c] = "storing"]
  BY DEF Receive
<1>2. TypeOK'
  BY <1>1, TimeAssumption DEF IInv, TypeOK
<1>3. DocAge'
  BY <1>1 DEF IInv, DocAge
<1>4. pc'[c] = "storing" /\ stamp'[c] = now
  BY <1>1 DEF IInv, TypeOK
<1>5. CallOK(c) /\ got[c] \in RatesOf /\ began[c] \in Nat /\ now \in Nat
  BY <1>1, TimeAssumption DEF IInv, Calls, CallOK, CallAge, TypeOK
<1>6. ASSUME NEW x \in Currencies, got[c][x] # MadeUp
      PROVE  /\ got[c][x] \in Nat
             /\ began[c] <= got[c][x] /\ got[c][x] <= now /\ now <= got[c][x] + MaxFetch
  <2>1. got[c][x] \in Nat
    BY <1>5, <1>6 DEF RatesOf
  <2>2. began[c] <= got[c][x] /\ got[c][x] <= now /\ now <= began[c] + MaxFetch
    BY <1>1, <1>5, <1>6 DEF CallOK, CallAge
  <2>3. QED BY <1>5, <2>1, <2>2, TimeAssumption
<1>7. CallAge(c)'
  BY <1>1, <1>4, <1>5, <1>6, TimeAssumption DEF CallAge
<1>8. CallOrder(c)'
  <2>1. ASSUME seen[c] # Empty, NEW x \in Currencies, seen[c][x] # MadeUp, got[c][x] # MadeUp
        PROVE  seen[c][x] <= got[c][x]
    <3>1. seen[c][x] \in Nat
      BY <2>1 DEF IInv, TypeOK, RatesOf
    <3>2. seen[c][x] <= began[c]
      BY <1>1, <1>5, <2>1 DEF CallOK, CallOrder
    <3>3. QED BY <1>5, <1>6, <2>1, <3>1, <3>2
  <2>2. QED BY <1>1, <1>4, <2>1 DEF CallOrder
<1>9. NotBehind(c)'
  BY <1>4 DEF NotBehind
<1>10. \A d \in Callers \ {c} : pc'[d] = pc[d] /\ stamp'[d] = stamp[d]
  BY <1>1 DEF IInv, TypeOK
<1>11. Calls'
  BY <1>1, <1>7, <1>8, <1>9, <1>10, CallStep DEF CallOK, IInv
<1>12. QED BY <1>2, <1>3, <1>11 DEF IInv

LEMMA StoreStep ==
  ASSUME IInv, NEW c \in Callers, Store(c)
  PROVE  IInv'
<1>1. /\ UNCHANGED <<now, seen>>
      /\ pc[c] = "storing"
      /\ doc' = [rates |-> got[c], timestamp |-> stamp[c]]
      /\ Return(c, got[c], "fetched")
  BY DEF Store
<1>2. CallOK(c) /\ got[c] \in RatesOf /\ got[c] # Empty /\ stamp[c] <= now
      /\ stamp[c] \in Nat /\ now \in Nat
  BY <1>1, TimeAssumption, ValuesAssumption DEF IInv, Calls, CallOK, CallAge, TypeOK
<1>3. doc' \in Doc
  BY <1>1, <1>2 DEF Doc
<1>4. TypeOK'
  BY <1>1, <1>2, <1>3, ReturnType DEF IInv, TypeOK
<1>5. DocAge'
  <2>1. ASSUME NEW x \in Currencies, got[c][x] # MadeUp
        PROVE  got[c][x] <= stamp[c] /\ stamp[c] - got[c][x] <= MaxFetch
    <3>1. got[c][x] \in Nat
      BY <1>2, <2>1 DEF RatesOf
    <3>2. got[c][x] <= stamp[c] /\ stamp[c] <= got[c][x] + MaxFetch
      BY <1>1, <1>2, <2>1 DEF CallOK, CallAge
    <3>3. QED BY <1>2, <3>1, <3>2, TimeAssumption
  <2>2. doc'.rates = got[c] /\ doc'.timestamp = stamp[c]
    BY <1>1
  <2>3. QED BY <1>1, <1>2, <2>1, <2>2 DEF DocAge
<1>6. ASSUME seen[c] # Empty, NEW x \in Currencies
      PROVE  MadeUp \in {seen[c][x], got[c][x]} \/ got[c][x] >= seen[c][x]
  <2>1. seen[c][x] # MadeUp /\ got[c][x] # MadeUp => seen[c][x] <= got[c][x]
    BY <1>1, <1>2, <1>6 DEF CallOK, CallOrder
  <2>2. seen[c][x] \in Nat \cup {MadeUp} /\ got[c][x] \in Nat \cup {MadeUp}
    BY <1>2, <1>6 DEF IInv, TypeOK, RatesOf
  <2>3. QED BY <2>1, <2>2
<1>7. Calls'
  BY <1>1, <1>2, <1>6, ReturnStep DEF IInv
<1>8. QED BY <1>4, <1>5, <1>7 DEF IInv

LEMMA AgainStep ==
  ASSUME IInv, NEW c \in Callers, Again(c)
  PROVE  IInv'
<1>1. /\ UNCHANGED <<now, doc, began, got, stamp>>
      /\ pc' = [pc EXCEPT ![c] = "idle"]
      /\ seen' = [seen EXCEPT ![c] = Empty]
      /\ answer' = [answer EXCEPT ![c] = Empty]
  BY DEF Again
<1>2. TypeOK'
  BY <1>1 DEF IInv, TypeOK
<1>3. DocAge'
  BY <1>1 DEF IInv, DocAge
<1>4. pc'[c] = "idle" /\ \A d \in Callers \ {c} :
        pc'[d] = pc[d] /\ seen'[d] = seen[d] /\ answer'[d] = answer[d]
  BY <1>1 DEF IInv, TypeOK
<1>5. CallOK(c)'
  BY <1>4 DEF CallOK, CallAge, CallOrder, NotBehind
<1>6. Calls'
  BY <1>1, <1>4, <1>5, CallStep DEF IInv
<1>7. QED BY <1>2, <1>3, <1>6 DEF IInv

(* The clock moves only while every fetch and every write has time left.   *)
LEMMA TickStep ==
  ASSUME IInv, Tick
  PROVE  IInv'
<1>1. /\ UNCHANGED <<doc, pc, began, seen, got, stamp, answer>>
      /\ now' = now + 1
      /\ now < MaxTime
      /\ now \in Nat /\ now' \in 0..MaxTime
  BY TimeAssumption DEF Tick, IInv, TypeOK
<1>2. TypeOK'
  BY <1>1 DEF IInv, TypeOK
<1>3. DocAge'
  <2>1. doc # Empty => doc.timestamp \in Nat /\ doc.timestamp <= now
    BY DEF IInv, DocAge, TypeOK, Doc
  <2>2. doc # Empty => doc.timestamp <= now'
    BY <1>1, <2>1
  <2>3. QED BY <1>1, <2>2 DEF IInv, DocAge
<1>4. ASSUME NEW c \in Callers
      PROVE  CallOK(c)'
  <2>1. CallOK(c) /\ began[c] \in Nat /\ stamp[c] \in Nat
    BY DEF IInv, Calls, TypeOK
  <2>2. /\ pc[c] = "storing" => now < stamp[c] + MaxWrite
        /\ pc[c] \in {"asking", "replied"} => now < began[c] + MaxFetch
    BY DEF Tick, Timely
  <2>3. pc[c] \in {"asking", "replied"} => began[c] <= now' /\ now' <= began[c] + MaxFetch
    BY <1>1, <2>1, <2>2, TimeAssumption DEF CallOK, CallAge
  <2>4. ASSUME pc[c] = "replied", NEW x \in Currencies, got[c][x] # MadeUp
        PROVE  began[c] <= got[c][x] /\ got[c][x] <= now'
    <3>1. got[c][x] \in Nat
      BY <2>1, <2>4 DEF CallOK, CallAge, RatesOf
    <3>2. began[c] <= got[c][x] /\ got[c][x] <= now
      BY <2>1, <2>4 DEF CallOK, CallAge
    <3>3. QED BY <1>1, <3>1, <3>2
  <2>5. pc[c] \in {"replied", "storing"} => got[c] \in RatesOf
    BY <2>1 DEF CallOK, CallAge
  <2>6. CallAge(c)'
    <3>1. pc[c] = "storing" => stamp[c] <= now' /\ now' <= stamp[c] + MaxWrite
      BY <1>1, <2>1, <2>2, TimeAssumption DEF CallOK, CallAge
    <3>2. ASSUME pc[c] = "storing", NEW x \in Currencies, got[c][x] # MadeUp
          PROVE  got[c][x] <= stamp[c] /\ stamp[c] <= got[c][x] + MaxFetch
      BY <2>1, <3>2 DEF CallOK, CallAge
    <3>3. QED BY <1>1, <2>3, <2>4, <2>5, <3>1, <3>2 DEF CallAge
  <2>7. CallOrder(c)'
    BY <1>1, <2>1 DEF CallOK, CallOrder
  <2>8. NotBehind(c)'
    BY <1>1, <2>1 DEF CallOK, NotBehind
  <2>9. QED BY <2>6, <2>7, <2>8 DEF CallOK
<1>5. QED BY <1>2, <1>3, <1>4 DEF IInv, Calls

LEMMA StutterStep ==
  ASSUME IInv, UNCHANGED vars
  PROVE  IInv'
<1>1. UNCHANGED <<now, doc, pc, began, seen, got, stamp, answer>>
  BY DEF vars
<1>2. TypeOK'
  BY <1>1 DEF IInv, TypeOK
<1>3. DocAge'
  BY <1>1 DEF IInv, DocAge
<1>4. Calls'
  BY <1>1, CallFrame DEF IInv, Calls
<1>5. QED BY <1>2, <1>3, <1>4 DEF IInv

LEMMA InitInv ==
  ASSUME Init
  PROVE  IInv
<1>1. TypeOK
  BY TimeAssumption DEF Init, TypeOK
<1>2. DocAge
  BY DEF Init, DocAge
<1>3. Calls
  BY DEF Init, Calls, CallOK, CallAge, CallOrder, NotBehind
<1>4. QED BY <1>1, <1>2, <1>3 DEF IInv

LEMMA Inductive ==
  ASSUME IInv, [Next]_vars
  PROVE  IInv'
  BY HitStep, ErrorStep, AskStep, ReplyStep, FetchFailsStep, ReceiveStep, StoreStep,
     AgainStep, TickStep, StutterStep
  DEF Next

LEMMA Invariant == Spec => []IInv
  BY InitInv, Inductive, PTL DEF Spec

-----------------------------------------------------------------------------
(***************************************************************************)
(* TypeOK holds for any number of callers.                                 *)
(***************************************************************************)
THEOREM TypeCorrect == Spec => []TypeOK
<1>1. IInv => TypeOK
  BY DEF IInv
<1>2. QED BY <1>1, Invariant, PTL

(***************************************************************************)
(* Whatever fails and whoever else fetches at the same time, a call that   *)
(* does not fetch answers what it read or an error, and one that does      *)
(* answers nothing older than what it read.                                *)
(***************************************************************************)
THEOREM NeverBehind == Spec => []NeverBehindRead
<1>1. IInv => NeverBehindRead
  BY DEF IInv, Calls, CallOK, NotBehind, NeverBehindRead
<1>2. QED BY <1>1, Invariant, PTL

(***************************************************************************)
(* A rate served from the cache is younger than the TTL and one fetch.     *)
(***************************************************************************)
THEOREM HitsAreFresh == Spec => HitIsFresh
<1>1. ASSUME IInv, [Next]_vars, NEW c \in Callers, NEW x \in Currencies,
             pc[c] # "hit", pc'[c] = "hit", doc.rates[x] # MadeUp
      PROVE  answer'[c][x] = doc.rates[x] /\ now - doc.rates[x] < TTL + MaxFetch
  <2>1. Hit(c)
    BY <1>1 DEF IInv, TypeOK, Next, vars, Return, Hit, ReadFails, Ask, Reply, FetchFails,
                Receive, Store, StoreFails, Again, Tick
  <2>2. doc \in Doc /\ now - doc.timestamp < TTL /\ Return(c, doc.rates, "hit")
    BY <1>1, <2>1 DEF Hit, IsFresh, IInv, TypeOK
  <2>3. answer'[c] = doc.rates
    BY <1>1, <2>2, ValuesAssumption DEF Return, IInv, TypeOK, Doc
  <2>4. /\ doc.rates[x] \in Nat /\ doc.timestamp \in Nat /\ now \in Nat
        /\ doc.timestamp - doc.rates[x] <= MaxFetch
    BY <1>1, <2>2, TimeAssumption, ValuesAssumption DEF IInv, DocAge, TypeOK, Doc, RatesOf
  <2>5. QED BY <2>2, <2>3, <2>4, TimeAssumption
<1>2. IInv /\ [Next]_vars =>
        [\A c \in Callers : \A x \in Currencies :
           pc[c] # "hit" /\ pc'[c] = "hit" /\ doc.rates[x] # MadeUp
             => answer'[c][x] = doc.rates[x] /\ now - doc.rates[x] < TTL + MaxFetch]_vars
  BY <1>1
<1>3. QED BY <1>2, Invariant, PTL DEF Spec, HitIsFresh

(***************************************************************************)
(* The cached rate never goes back by more than one fetch and its write    *)
(* take, however many unordered fetches overlap.                           *)
(***************************************************************************)
THEOREM StepsBackBounded == Spec => StepBackBounded
<1>1. ASSUME IInv, [Next]_vars, NEW x \in Currencies, doc # Empty, doc' # doc,
             doc.rates[x] # MadeUp, doc'.rates[x] # MadeUp
      PROVE  doc.rates[x] - doc'.rates[x] <= MaxFetch + MaxWrite
  <2>1. PICK c \in Callers : Store(c)
    BY <1>1 DEF Next, vars, Hit, ReadFails, Ask, Reply, FetchFails,
                Receive, Store, StoreFails, Again, Tick
  <2>2. doc'.rates = got[c] /\ pc[c] = "storing" /\ CallOK(c) /\ got[c] \in RatesOf
    BY <1>1, <2>1 DEF Store, IInv, Calls, CallOK, CallAge
  <2>3. /\ now \in Nat /\ got[c][x] \in Nat /\ stamp[c] \in Nat
        /\ now <= stamp[c] + MaxWrite /\ stamp[c] <= got[c][x] + MaxFetch
    BY <1>1, <2>2, TimeAssumption DEF CallOK, CallAge, RatesOf, IInv, TypeOK
  <2>4. doc.rates[x] \in Nat /\ doc.timestamp \in Nat /\ doc.rates[x] <= doc.timestamp /\ doc.timestamp <= now
    BY <1>1 DEF IInv, DocAge, TypeOK, Doc, RatesOf
  <2>5. QED BY <2>2, <2>3, <2>4, TimeAssumption
<1>2. IInv /\ [Next]_vars =>
        [\A x \in Currencies :
           doc # Empty => \/ MadeUp \in {doc.rates[x], doc'.rates[x]}
                          \/ doc.rates[x] - doc'.rates[x] <= MaxFetch + MaxWrite]_doc
  BY <1>1
<1>3. QED BY <1>2, Invariant, PTL DEF Spec, StepBackBounded
=============================================================================
