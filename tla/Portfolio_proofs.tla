------------------------- MODULE Portfolio_proofs --------------------------
(***************************************************************************)
(* Proofs about Portfolio for any assets, schemes, prices, requests and    *)
(* number of concurrent requests.  TypeOK alone is not inductive: a step   *)
(* of a request relies on what its earlier steps left in req, found and    *)
(* plan, which Flow records.  Stamped is the strengthening of              *)
(* StampConsistent: it also says what a computed update and a listing may  *)
(* do to a fund portfolio when they are written late.                      *)
(***************************************************************************)
EXTENDS Portfolio, TLAPS

LEMMA UnitsType ==
  ASSUME NEW h \in Holdings
  PROVE  UnitsOf(h) \in [Schemes -> Units]
  BY DEF Holdings, UnitsOf

LEMMA StampType ==
  ASSUME NEW u \in [Schemes -> Units], NEW p \in [Schemes -> Navs \cup {0}]
  PROVE  Stamp(u, p) \in Holdings /\ UnitsOf(Stamp(u, p)) = u
<1>1. \A s \in Schemes : Stamp(u, p)[s] \in [units : Units, nav : Navs \cup {0}]
  BY DEF Stamp
<1>2. Stamp(u, p) \in Holdings
  BY <1>1 DEF Stamp, Holdings
<1>3. \A s \in Schemes : UnitsOf(Stamp(u, p))[s] = u[s]
  BY DEF Stamp, UnitsOf
<1>4. UnitsOf(Stamp(u, p)) = u
  BY <1>3 DEF UnitsOf
<1>5. QED BY <1>2, <1>4

LEMMA TotalType ==
  ASSUME NEW h \in Holdings
  PROVE  Total(h) \in Worth /\ Total(h) # Unset
  BY UnsetAssumption DEF Worth

LEMMA ApplyType ==
  ASSUME NEW u \in Update, NEW d \in Doc
  PROVE  Apply(u, d) \in Doc
  BY DEF Update, Doc, Apply, Or, Opt

LEMMA RequestType ==
  ASSUME NEW r \in Requests
  PROVE  /\ r \in Request /\ r # Unset
         /\ r.type \in Opt(Types) /\ r.units \in Opt([Schemes -> Units])
         /\ r.foreign \in Opt(BOOLEAN) /\ r.amount \in Opt(Nat) /\ r.value \in Opt(Nat)
         /\ r.kind \in {"create", "update", "delete"}
         /\ r.kind # "create" => r.asset \in Assets
         /\ r.kind = "create" =>
              /\ r.type \in Types /\ r.units \in [Schemes -> Units]
              /\ r.foreign \in BOOLEAN /\ r.amount \in Nat /\ r.value \in Nat
<1>1. r \in Request /\ r # Unset
  BY RequestAssumption, UnsetAssumption
<1>2. QED
  BY <1>1, RequestAssumption DEF Request, Opt

LEMMA AskedType ==
  ASSUME NEW e, req[e] \in Requests
  PROVE  /\ AskedFields(e) \in Update
         /\ AskedFields(e).type = req[e].type
         /\ req[e].kind = "create" => AskedFields(e) \in Doc
<1> DEFINE r == req[e]
           raw == Stamp(r.units, [s \in Schemes |-> 0])
<1>1. r.units \in [Schemes -> Units] => raw \in Holdings
  BY StampType
<1>2. (IF r.units = Unset THEN Unset ELSE raw) \in Opt(Holdings)
  BY <1>1, RequestType DEF Opt
<1>3. AskedFields(e) =
        [type |-> r.type, foreign |-> r.foreign, amount |-> r.amount, value |-> r.value,
         holdings |-> IF r.units = Unset THEN Unset ELSE raw]
  BY DEF AskedFields
<1> HIDE DEF raw
<1>4. AskedFields(e) \in Update
  BY <1>2, <1>3, RequestType DEF Update, Opt, Worth
<1>5. ASSUME r.kind = "create"
      PROVE  AskedFields(e) \in Doc
  <2>1. raw \in Holdings /\ r.units # Unset
    BY <1>1, <1>5, RequestType, UnsetAssumption
  <2>2. QED BY <1>3, <1>5, <2>1, RequestType DEF Doc, Worth
<1>6. QED BY <1>3, <1>4, <1>5

-----------------------------------------------------------------------------
(* What a request in progress has behind it. *)
FlowOf(e) ==
  /\ pc[e] \notin {"idle", "done"} => req[e] \in Requests
  /\ pc[e] \in {"find", "compute", "write", "clear", "refind"} => req[e].kind = "update"
  /\ pc[e] = "insert" => req[e].kind = "create"
  /\ pc[e] = "insert" => plan[e] \in Doc \cup {Unset}
  /\ pc[e] = "delete" => req[e].kind = "delete"
  /\ pc[e] = "price" => \/ req[e].kind = "create" /\ found[e] = Unset
                        \/ req[e].kind = "update" /\ found[e] \in Doc
  /\ pc[e] = "write" => plan[e] \in Update
  /\ pc[e] \in {"idle", "find"} => found[e] = Unset /\ plan[e] = Unset
  /\ pc[e] \notin {"fetch", "list", "revalue"}

Flow == \A e \in Editors : FlowOf(e)

LEMMA FlowFrame ==
  ASSUME NEW d \in Editors, FlowOf(d),
         pc'[d] = pc[d], req'[d] = req[d], found'[d] = found[d], plan'[d] = plan[d]
  PROVE  FlowOf(d)'
  BY DEF FlowOf

(* A step that leaves the requests alone. *)
LEMMA FlowSame ==
  ASSUME Flow, TypeOK, UNCHANGED <<req, found, plan>>,
         \A e \in Editors : pc'[e] = pc[e]
  PROVE  Flow'
  BY FlowFrame DEF Flow

(* A step of one request. *)
LEMMA FlowStep ==
  ASSUME Flow, NEW e \in Editors, FlowOf(e)',
         \A d \in Editors \ {e} : /\ pc'[d] = pc[d] /\ req'[d] = req[d]
                                  /\ found'[d] = found[d] /\ plan'[d] = plan[d]
  PROVE  Flow'
  BY FlowFrame DEF Flow

LEMMA ArriveStep ==
  ASSUME TypeOK, Flow, NEW e \in Editors, Arrive(e)
  PROVE  TypeOK' /\ Flow'
<1>1. PICK r \in Requests :
        /\ req' = [req EXCEPT ![e] = r]
        /\ pc' = [pc EXCEPT ![e] =
                    CASE r.kind = "create" /\ r.type = "mutual_fund" -> "price"
                      [] r.kind = "create" /\ r.type = "manual" -> "insert"
                      [] r.kind = "update" -> "find"
                      [] r.kind = "delete" -> "delete"]
  BY DEF Arrive, Goto
<1>2. e \in Procs /\ pc[e] = "idle" /\ FlowOf(e)
  BY DEF Procs, Arrive, Flow
<1>3. UNCHANGED <<db, navs, snap, copy, manualOnce, found, missed, plan, codes, listed, rate, touched, passes>>
  BY DEF Arrive, jobVars
<1>4. \/ r.kind = "create" /\ r.type = "mutual_fund" /\ pc' = [pc EXCEPT ![e] = "price"]
      \/ r.kind = "create" /\ r.type = "manual" /\ pc' = [pc EXCEPT ![e] = "insert"]
      \/ r.kind = "update" /\ pc' = [pc EXCEPT ![e] = "find"]
      \/ r.kind = "delete" /\ pc' = [pc EXCEPT ![e] = "delete"]
  BY <1>1, RequestType DEF Types
<1>5. TypeOK'
  BY <1>1, <1>2, <1>3, <1>4 DEF TypeOK, Opt
<1>6. req'[e] = r
  BY <1>1 DEF TypeOK
<1>7. FlowOf(e)'
  BY <1>2, <1>3, <1>4, <1>6 DEF TypeOK, FlowOf
<1>8. Flow'
  BY <1>1, <1>3, <1>7, FlowStep DEF TypeOK, Procs
<1>9. QED BY <1>5, <1>8

(* Steps that compute without touching the assets. *)
LEMMA FindStep ==
  ASSUME TypeOK, Flow, NEW e \in Editors, Find(e)
  PROVE  TypeOK' /\ Flow'
<1>1. /\ e \in Procs /\ pc[e] = "find" /\ FlowOf(e)
      /\ req[e] \in Requests /\ req[e].kind = "update" /\ req[e].asset \in Assets
  BY RequestType DEF Procs, Find, Flow, FlowOf
<1>2. UNCHANGED <<db, navs, snap, copy, manualOnce, req, missed, plan, codes, listed, rate, touched, passes>>
  BY DEF Find, jobVars
<1>3. CASE Alive(req[e].asset)
  <2>1. db[req[e].asset] \in Doc
    BY <1>1, <1>3 DEF TypeOK, Alive
  <2>2. found' = [found EXCEPT ![e] = db[req[e].asset]]
    BY <1>3 DEF Find
  <2>3. \/ pc' = [pc EXCEPT ![e] = "price"]
        \/ pc' = [pc EXCEPT ![e] = "compute"]
    BY <1>3 DEF Find, Goto
  <2>4. TypeOK'
    BY <1>1, <1>2, <2>1, <2>2, <2>3 DEF TypeOK, Opt
  <2>5. FlowOf(e)'
    BY <1>1, <1>2, <2>1, <2>2, <2>3 DEF TypeOK, FlowOf
  <2>6. Flow'
    BY <1>1, <1>2, <2>2, <2>3, <2>5, FlowStep DEF TypeOK, Procs
  <2>7. QED BY <2>4, <2>6
<1>4. CASE ~Alive(req[e].asset)
  <2>1. pc' = [pc EXCEPT ![e] = "done"] /\ found' = found
    BY <1>4 DEF Find, Goto
  <2>2. TypeOK'
    BY <1>1, <1>2, <2>1 DEF TypeOK
  <2>3. FlowOf(e)'
    BY <1>1, <1>2, <2>1 DEF TypeOK, FlowOf
  <2>4. Flow'
    BY <1>1, <1>2, <2>1, <2>3, FlowStep DEF TypeOK, Procs
  <2>5. QED BY <2>2, <2>4
<1>5. QED BY <1>3, <1>4

LEMMA NavStep ==
  ASSUME TypeOK, Flow, NEW e \in Editors, NEW s \in Schemes, MissNav(e, s) \/ FetchNav(e, s)
  PROVE  TypeOK' /\ Flow'
<1>1. UNCHANGED <<db, snap, pc, copy, manualOnce, req, found, plan, codes, listed, rate, touched, passes>>
  BY DEF MissNav, FetchNav, jobVars
<1>2. missed' \in [Editors -> SUBSET Schemes]
  BY DEF MissNav, FetchNav, TypeOK
<1>3. navs' \in [Schemes -> Navs \cup {0}]
  BY DEF MissNav, FetchNav, TypeOK
<1>4. TypeOK'
  BY <1>1, <1>2, <1>3 DEF TypeOK
<1>5. Flow'
  BY <1>1, FlowSame
<1>6. QED BY <1>4, <1>5

(* The units a request in pricing asks for. *)
LEMMA AskedUnitsType ==
  ASSUME TypeOK, NEW e \in Editors, FlowOf(e), pc[e] = "price"
  PROVE  AskedUnits(e) \in [Schemes -> Units]
<1>1. req[e] \in Requests
  BY DEF FlowOf
<1>2. CASE req[e].units # Unset
  BY <1>1, <1>2, RequestType DEF AskedUnits, Or, Opt
<1>3. CASE req[e].units = Unset
  <2>1. req[e].kind # "create"
    BY <1>1, <1>3, RequestType, UnsetAssumption
  <2>2. found[e] \in Doc /\ found[e] # Unset
    BY <2>1, UnsetAssumption DEF FlowOf
  <2>3. found[e].holdings \in Holdings
    BY <2>2 DEF Doc
  <2>4. AskedUnits(e) = UnitsOf(found[e].holdings)
    BY <1>3, <2>2 DEF AskedUnits, Or
  <2>5. QED BY <2>3, <2>4, UnitsType
<1>4. QED BY <1>2, <1>3

(* What Price computes: a full document's worth of priced holdings. *)
LEMMA PricePlan ==
  ASSUME TypeOK, NEW e \in Editors, FlowOf(e), Price(e)
  PROVE  /\ plan' = [plan EXCEPT ![e] = plan'[e]]
         /\ plan'[e] \in Update
         /\ plan'[e].type = req[e].type
         /\ plan'[e].holdings = Stamp(AskedUnits(e), navs)
         /\ plan'[e].value = Total(plan'[e].holdings)
         /\ req[e].kind = "create" => plan'[e] \in Doc
<1> DEFINE h == Stamp(AskedUnits(e), navs)
           f == AskedFields(e)
           u == [f EXCEPT !.holdings = h, !.value = Total(h)]
<1>1. h \in Holdings
  BY AskedUnitsType, StampType DEF Price, TypeOK
<1>2. Total(h) \in Worth
  BY <1>1, TotalType
<1>3. /\ f \in Update /\ f.type = req[e].type
      /\ req[e].kind = "create" => f \in Doc
  BY AskedType DEF Price, FlowOf
<1>4. plan' = [plan EXCEPT ![e] = u]
  BY DEF Price
<1>5. plan'[e] = u
  BY <1>4 DEF TypeOK
<1> HIDE DEF h, f
<1>6. u \in Update /\ u.type = f.type /\ u.holdings = h /\ u.value = Total(h)
  BY <1>1, <1>2, <1>3 DEF Update, Opt
<1>7. f \in Doc => u \in Doc
  BY <1>1, <1>2 DEF Doc
<1> HIDE DEF u
<1>8. QED BY <1>3, <1>4, <1>5, <1>6, <1>7 DEF h

LEMMA PriceStep ==
  ASSUME TypeOK, Flow, NEW e \in Editors, Price(e)
  PROVE  TypeOK' /\ Flow'
<1>1. e \in Procs /\ pc[e] = "price" /\ FlowOf(e)
  BY DEF Procs, Price, Flow
<1>2. UNCHANGED <<db, navs, snap, copy, manualOnce, req, found, missed, codes, listed, rate, touched, passes>>
  BY DEF Price, jobVars
<1>3. /\ plan' = [plan EXCEPT ![e] = plan'[e]] /\ plan'[e] \in Update
      /\ req[e].kind = "create" => plan'[e] \in Doc
  BY <1>1, PricePlan
<1>4. pc' = [pc EXCEPT ![e] = IF req[e].kind = "create" THEN "insert" ELSE "write"]
  BY DEF Price, Goto
<1>5. plan' \in [Editors -> Opt(Update)]
  BY <1>3 DEF TypeOK, Opt
<1>6. TypeOK'
  BY <1>1, <1>2, <1>4, <1>5 DEF TypeOK
<1>7. FlowOf(e)'
  BY <1>1, <1>2, <1>3, <1>4 DEF TypeOK, FlowOf
<1>8. Flow'
  BY <1>2, <1>3, <1>4, <1>7, FlowStep DEF TypeOK, Procs
<1>9. QED BY <1>6, <1>8

LEMMA PriceFailsStep ==
  ASSUME TypeOK, Flow, NEW e \in Editors, PriceFails(e)
  PROVE  TypeOK' /\ Flow'
<1>1. e \in Procs /\ pc[e] = "price" /\ FlowOf(e)
  BY DEF Procs, PriceFails, Flow
<1>2. /\ UNCHANGED <<db, navs, snap, copy, manualOnce, req, found, plan, codes, listed, rate, touched, passes>>
      /\ missed' = [missed EXCEPT ![e] = {}]
      /\ pc' = [pc EXCEPT ![e] = "done"]
  BY DEF PriceFails, jobVars, Goto
<1>3. TypeOK'
  BY <1>1, <1>2 DEF TypeOK
<1>4. FlowOf(e)'
  BY <1>1, <1>2 DEF TypeOK, FlowOf
<1>5. Flow'
  BY <1>2, <1>4, FlowStep DEF TypeOK, Procs
<1>6. QED BY <1>3, <1>5

LEMMA ComputeStep ==
  ASSUME TypeOK, Flow, NEW e \in Editors, Compute(e)
  PROVE  TypeOK' /\ Flow'
<1>1. /\ e \in Procs /\ pc[e] = "compute" /\ FlowOf(e)
      /\ req[e] \in Requests
  BY DEF Procs, Compute, Flow, FlowOf
<1>2. /\ UNCHANGED <<db, navs, snap, copy, manualOnce, req, found, missed, codes, listed, rate, touched, passes>>
      /\ plan' = [plan EXCEPT ![e] = AskedFields(e)]
      /\ pc' = [pc EXCEPT ![e] = "write"]
  BY DEF Compute, jobVars, Goto
<1>3. AskedFields(e) \in Update
  BY <1>1, AskedType
<1>4. TypeOK'
  BY <1>1, <1>2, <1>3 DEF TypeOK, Opt
<1>5. FlowOf(e)'
  BY <1>1, <1>2, <1>3 DEF TypeOK, FlowOf
<1>6. Flow'
  BY <1>2, <1>5, FlowStep DEF TypeOK, Procs
<1>7. QED BY <1>4, <1>6

(* Steps that write assets. *)
LEMMA InsertStep ==
  ASSUME TypeOK, Flow, NEW e \in Editors, Insert(e)
  PROVE  TypeOK' /\ Flow'
<1>1. /\ e \in Procs /\ pc[e] = "insert" /\ FlowOf(e)
      /\ req[e] \in Requests /\ req[e].kind = "create"
  BY DEF Procs, Insert, Flow, FlowOf
<1> DEFINE d == IF plan[e] = Unset THEN AskedFields(e) ELSE plan[e]
<1>2. d \in Doc
  BY <1>1, AskedType DEF FlowOf
<1>3. PICK a \in Assets :
        /\ db' = [db EXCEPT ![a] = d]
        /\ manualOnce' = IF req[e].type = "manual" THEN manualOnce \cup {a} ELSE manualOnce
  BY DEF Insert
<1>4. /\ UNCHANGED <<navs, snap, copy, req, found, missed, codes, listed, rate, touched, passes>>
      /\ plan' = [plan EXCEPT ![e] = Unset]
      /\ pc' = [pc EXCEPT ![e] = "snapRead"]
  BY DEF Insert, jobVars, Goto
<1> HIDE DEF d
<1>5. /\ db' \in [Assets -> Doc \cup {Unborn, Gone}]
      /\ manualOnce' \subseteq Assets
  BY <1>2, <1>3 DEF TypeOK
<1>6. TypeOK'
  BY <1>1, <1>4, <1>5 DEF TypeOK, Opt
<1>7. FlowOf(e)'
  BY <1>1, <1>4 DEF TypeOK, FlowOf
<1>8. Flow'
  BY <1>4, <1>7, FlowStep DEF TypeOK, Procs
<1>9. QED BY <1>6, <1>8

LEMMA WriteStep ==
  ASSUME TypeOK, Flow, NEW e \in Editors, Write(e)
  PROVE  TypeOK' /\ Flow'
<1> DEFINE a == req[e].asset
           d == Apply(plan[e], db[a])
<1>1. /\ e \in Procs /\ pc[e] = "write" /\ FlowOf(e)
      /\ req[e] \in Requests /\ req[e].kind = "update" /\ plan[e] \in Update
      /\ a \in Assets
  BY RequestType DEF Procs, Write, Flow, FlowOf
<1>2. Alive(a) => d \in Doc
  BY <1>1, ApplyType DEF TypeOK, Alive
<1>3. /\ db' = IF Alive(a) THEN [db EXCEPT ![a] = d] ELSE db
      /\ manualOnce' = IF Alive(a) /\ d.type = "manual" THEN manualOnce \cup {a} ELSE manualOnce
  BY DEF Write
<1>4. /\ UNCHANGED <<navs, snap, copy, req, missed, codes, listed, rate, touched, passes>>
      /\ found' = [found EXCEPT ![e] = Unset]
      /\ plan' = [plan EXCEPT ![e] = Unset]
      /\ pc' = [pc EXCEPT ![e] = IF EffType(e) = "mutual_fund" THEN "clear" ELSE "refind"]
  BY DEF Write, jobVars, Goto
<1> HIDE DEF a, d
<1>5. /\ db' \in [Assets -> Doc \cup {Unborn, Gone}]
      /\ manualOnce' \subseteq Assets
  BY <1>1, <1>2, <1>3 DEF TypeOK
<1>6. TypeOK'
  BY <1>1, <1>4, <1>5 DEF TypeOK, Opt
<1>7. FlowOf(e)'
  BY <1>1, <1>4 DEF TypeOK, FlowOf
<1>8. Flow'
  BY <1>4, <1>7, FlowStep DEF TypeOK, Procs
<1>9. QED BY <1>6, <1>8

LEMMA ClearStep ==
  ASSUME TypeOK, Flow, NEW e \in Editors, Clear(e)
  PROVE  TypeOK' /\ Flow'
<1> DEFINE a == req[e].asset
<1>1. /\ e \in Procs /\ pc[e] = "clear" /\ FlowOf(e)
      /\ req[e] \in Requests /\ req[e].kind = "update" /\ a \in Assets
  BY RequestType DEF Procs, Clear, Flow, FlowOf
<1>2. /\ UNCHANGED <<navs, snap, copy, manualOnce, req, found, missed, plan, codes, listed, rate, touched, passes>>
      /\ db' = IF Alive(a) THEN [db EXCEPT ![a] = [@ EXCEPT !.foreign = FALSE, !.amount = 0]] ELSE db
      /\ pc' = [pc EXCEPT ![e] = "refind"]
  BY DEF Clear, reqVars, jobVars, Goto
<1> HIDE DEF a
<1>3. ASSUME Alive(a)
      PROVE  [db[a] EXCEPT !.foreign = FALSE, !.amount = 0] \in Doc
  BY <1>1, <1>3 DEF TypeOK, Alive, Doc
<1>4. db' \in [Assets -> Doc \cup {Unborn, Gone}]
  BY <1>1, <1>2, <1>3 DEF TypeOK
<1>5. TypeOK'
  BY <1>1, <1>2, <1>4 DEF TypeOK
<1>6. FlowOf(e)'
  BY <1>1, <1>2 DEF TypeOK, FlowOf
<1>7. Flow'
  BY <1>2, <1>6, FlowStep DEF TypeOK, Procs
<1>8. QED BY <1>5, <1>7

LEMMA RefindStep ==
  ASSUME TypeOK, Flow, NEW e \in Editors, Refind(e)
  PROVE  TypeOK' /\ Flow'
<1>1. e \in Procs /\ pc[e] = "refind" /\ FlowOf(e)
  BY DEF Procs, Refind, Flow
<1>2. /\ UNCHANGED <<db, navs, snap, copy, manualOnce, req, found, missed, plan, codes, listed, rate, touched, passes>>
      /\ pc' = [pc EXCEPT ![e] = IF Alive(req[e].asset) THEN "snapRead" ELSE "done"]
  BY DEF Refind, reqVars, jobVars, Goto
<1>3. TypeOK'
  BY <1>1, <1>2 DEF TypeOK
<1>4. FlowOf(e)'
  BY <1>1, <1>2 DEF TypeOK, FlowOf
<1>5. Flow'
  BY <1>2, <1>4, FlowStep DEF TypeOK, Procs
<1>6. QED BY <1>3, <1>5

LEMMA DeleteStep ==
  ASSUME TypeOK, Flow, NEW e \in Editors, Delete(e)
  PROVE  TypeOK' /\ Flow'
<1> DEFINE a == req[e].asset
<1>1. /\ e \in Procs /\ pc[e] = "delete" /\ FlowOf(e)
      /\ req[e] \in Requests /\ a \in Assets
  BY RequestType DEF Procs, Delete, Flow, FlowOf
<1>2. /\ UNCHANGED <<navs, snap, copy, manualOnce, req, found, missed, plan, codes, listed, rate, touched, passes>>
      /\ db' = [db EXCEPT ![a] = Gone] \/ db' = db
      /\ pc' = [pc EXCEPT ![e] = "snapRead"] \/ pc' = [pc EXCEPT ![e] = "done"]
  BY DEF Delete, reqVars, jobVars, Goto
<1> HIDE DEF a
<1>3. TypeOK'
  BY <1>1, <1>2 DEF TypeOK
<1>4. FlowOf(e)'
  BY <1>1, <1>2 DEF TypeOK, FlowOf
<1>5. Flow'
  BY <1>2, <1>4, FlowStep DEF TypeOK, Procs
<1>6. QED BY <1>3, <1>5

LEMMA FailStep ==
  ASSUME TypeOK, Flow, NEW e \in Editors, Fail(e)
  PROVE  TypeOK' /\ Flow'
<1>1. e \in Procs /\ FlowOf(e)
  BY DEF Procs, Flow
<1>2. /\ UNCHANGED <<db, navs, snap, manualOnce, req, found, plan, codes, listed, rate, touched, passes>>
      /\ missed' = [missed EXCEPT ![e] = {}]
      /\ copy' = [copy EXCEPT ![e] = Unset]
      /\ pc' = [pc EXCEPT ![e] = "done"]
  BY DEF Fail, jobVars, Goto
<1>3. TypeOK'
  BY <1>1, <1>2 DEF TypeOK, Opt
<1>4. FlowOf(e)'
  BY <1>1, <1>2 DEF TypeOK, FlowOf
<1>5. Flow'
  BY <1>2, <1>4, FlowStep DEF TypeOK, Procs
<1>6. QED BY <1>3, <1>5

-----------------------------------------------------------------------------
(* The two passes.  They leave the requests alone. *)

LEMMA ProcsDisjoint ==
  ASSUME NEW e \in Editors
  PROVE  e \in Procs /\ e # "mf" /\ e # "fx"
  BY ProcAssumption DEF Procs, Revaluers

LEMMA ListType ==
  ASSUME TypeOK, NEW S \in SUBSET {a \in Assets : Alive(a)}
  PROVE  ListOf(S) \in [Assets -> Opt(Doc)]
<1>1. \A a \in S : db[a] \in Doc
  BY DEF TypeOK, Alive
<1>2. \A a \in Assets : (IF a \in S THEN db[a] ELSE Unset) \in Opt(Doc)
  BY <1>1 DEF Opt
<1>3. QED BY <1>2 DEF ListOf

LEMMA BeginStep ==
  ASSUME TypeOK, Flow, MFBegin \/ FXBegin
  PROVE  TypeOK' /\ Flow'
<1>1. CASE MFBegin
  <2>1. /\ UNCHANGED <<db, navs, snap, copy, manualOnce, req, found, missed, plan, listed, rate, touched>>
        /\ passes' = [passes EXCEPT !["mf"] = @ + 1]
        /\ pc' = [pc EXCEPT !["mf"] = "fetch"]
        /\ codes' = HeldSchemes
    BY <1>1 DEF MFBegin, reqVars, Goto
  <2>2. HeldSchemes \subseteq Schemes
    BY DEF HeldSchemes, Held
  <2>3. TypeOK'
    <3>1. passes' \in [Revaluers -> Nat]
      BY <2>1 DEF TypeOK, Revaluers
    <3>2. pc' \in [Procs -> {"fetch"} \cup {pc[p] : p \in Procs}]
      BY <2>1 DEF TypeOK
    <3>3. QED BY <2>1, <2>2, <3>1, <3>2 DEF TypeOK
  <2>4. Flow'
    BY <2>1, FlowSame, ProcsDisjoint DEF TypeOK
  <2>5. QED BY <2>3, <2>4
<1>2. CASE FXBegin
  <2>1. /\ UNCHANGED <<db, navs, snap, copy, manualOnce, req, found, missed, plan, codes, listed, touched>>
        /\ passes' = [passes EXCEPT !["fx"] = @ + 1]
        /\ pc' = [pc EXCEPT !["fx"] = "list"]
        /\ rate' \in Nat
    BY <1>2, PriceAssumption DEF FXBegin, reqVars, Goto
  <2>3. TypeOK'
    <3>1. passes' \in [Revaluers -> Nat]
      BY <2>1 DEF TypeOK, Revaluers
    <3>2. pc' \in [Procs -> {"list"} \cup {pc[p] : p \in Procs}]
      BY <2>1 DEF TypeOK
    <3>3. QED BY <2>1, <3>1, <3>2 DEF TypeOK
  <2>4. Flow'
    BY <2>1, FlowSame, ProcsDisjoint DEF TypeOK
  <2>5. QED BY <2>3, <2>4
<1>3. QED BY <1>1, <1>2

LEMMA MFFetchStep ==
  ASSUME TypeOK, Flow, NEW s \in Schemes, MFFetch(s)
  PROVE  TypeOK' /\ Flow'
<1>1. /\ UNCHANGED <<db, snap, pc, copy, manualOnce, req, found, missed, plan, listed, rate, touched, passes>>
      /\ codes' = codes \ {s}
      /\ (\E n \in Navs : navs' = [navs EXCEPT ![s] = n]) \/ navs' = navs
  BY DEF MFFetch, reqVars
<1>2. navs' \in [Schemes -> Navs \cup {0}]
  BY <1>1 DEF TypeOK
<1>3. TypeOK'
  BY <1>1, <1>2 DEF TypeOK
<1>4. Flow'
  BY <1>1, FlowSame
<1>5. QED BY <1>3, <1>4

LEMMA ListStep ==
  ASSUME TypeOK, Flow, MFList \/ FXList
  PROVE  TypeOK' /\ Flow'
<1>1. CASE MFList
  <2>1. PICK S \in SUBSET {a \in Assets : Alive(a)} :
           listed' = [listed EXCEPT !["mf"] = ListOf(S)]
    BY <1>1 DEF MFList
  <2>2. /\ UNCHANGED <<db, navs, snap, copy, manualOnce, req, found, missed, plan, codes, rate, touched, passes>>
        /\ pc' = [pc EXCEPT !["mf"] = "revalue"]
    BY <1>1 DEF MFList, reqVars, Goto
  <2>3. ListOf(S) \in [Assets -> Opt(Doc)]
    BY ListType
  <2>4. TypeOK'
    BY <2>1, <2>2, <2>3 DEF TypeOK, Procs, Revaluers
  <2>5. Flow'
    BY <2>2, FlowSame, ProcsDisjoint DEF TypeOK
  <2>6. QED BY <2>4, <2>5
<1>2. CASE FXList
  <2>1. PICK S \in SUBSET {a \in Assets : Alive(a)} :
           listed' = [listed EXCEPT !["fx"] = ListOf(S)]
    BY <1>2 DEF FXList
  <2>2. /\ UNCHANGED <<db, navs, snap, copy, manualOnce, req, found, missed, plan, codes, rate, touched, passes>>
        /\ pc' = [pc EXCEPT !["fx"] = "revalue"]
    BY <1>2 DEF FXList, reqVars, Goto
  <2>3. ListOf(S) \in [Assets -> Opt(Doc)]
    BY ListType
  <2>4. TypeOK'
    BY <2>1, <2>2, <2>3 DEF TypeOK, Procs, Revaluers
  <2>5. Flow'
    BY <2>2, FlowSame, ProcsDisjoint DEF TypeOK
  <2>6. QED BY <2>4, <2>5
<1>3. QED BY <1>1, <1>2

(* What SetAssetMFValuation stores keeps the type of the document. *)
LEMMA ValuationType ==
  ASSUME NEW d \in Doc, NEW h \in Holdings, NEW v \in Worth
  PROVE  [d EXCEPT !.holdings = h, !.value = v] \in Doc
  BY DEF Doc

LEMMA PassWriteStep ==
  ASSUME TypeOK, Flow, NEW a \in Assets, MFWrite(a) \/ FXWrite(a)
  PROVE  TypeOK' /\ Flow'
<1>1. CASE MFWrite(a)
  <2> DEFINE h == Stamp(UnitsOf(listed["mf"][a].holdings), navs)
  <2>1. /\ UNCHANGED <<navs, snap, pc, copy, manualOnce, req, found, missed, plan, codes, rate, passes>>
        /\ db' = IF Alive(a)
                 THEN [db EXCEPT ![a] = [@ EXCEPT !.holdings = h, !.value = Total(h)]]
                 ELSE db
        /\ listed' = [listed EXCEPT !["mf"] = [@ EXCEPT ![a] = Unset]]
        /\ touched' = [touched EXCEPT !["mf"] = TRUE]
        /\ listed["mf"][a] # Unset
    BY <1>1 DEF MFWrite, reqVars
  <2>2. "mf" \in Revaluers
    BY DEF Revaluers
  <2>3. listed["mf"][a].holdings \in Holdings
    BY <2>1, <2>2 DEF TypeOK, Opt, Doc
  <2>4. h \in Holdings /\ Total(h) \in Worth
    BY <2>3, UnitsType, StampType, TotalType DEF TypeOK
  <2> HIDE DEF h
  <2>5. db' \in [Assets -> Doc \cup {Unborn, Gone}]
    BY <2>1, <2>4, ValuationType DEF TypeOK, Alive
  <2>6. TypeOK'
    BY <2>1, <2>2, <2>5 DEF TypeOK, Opt
  <2>7. Flow'
    BY <2>1, FlowSame
  <2>8. QED BY <2>6, <2>7
<1>2. CASE FXWrite(a)
  <2> DEFINE v == listed["fx"][a].amount * rate
  <2>1. /\ UNCHANGED <<navs, snap, pc, copy, manualOnce, req, found, missed, plan, codes, rate, passes>>
        /\ db' = IF Alive(a) THEN [db EXCEPT ![a] = [@ EXCEPT !.value = v]] ELSE db
        /\ listed' = [listed EXCEPT !["fx"] = [@ EXCEPT ![a] = Unset]]
        /\ touched' = [touched EXCEPT !["fx"] = TRUE]
        /\ listed["fx"][a] # Unset
    BY <1>2 DEF FXWrite, reqVars
  <2>2. "fx" \in Revaluers
    BY DEF Revaluers
  <2>3. listed["fx"][a].amount \in Nat /\ rate \in Nat
    BY <2>1, <2>2 DEF TypeOK, Opt, Doc
  <2>4. v \in Worth
    BY <2>3 DEF Worth
  <2> HIDE DEF v
  <2>5. db' \in [Assets -> Doc \cup {Unborn, Gone}]
    <3>1. Alive(a) => [db[a] EXCEPT !.value = v] \in Doc
      BY <2>4 DEF TypeOK, Alive, Doc
    <3>2. QED BY <2>1, <3>1 DEF TypeOK
  <2>6. TypeOK'
    BY <2>1, <2>2, <2>5 DEF TypeOK, Opt
  <2>7. Flow'
    BY <2>1, FlowSame
  <2>8. QED BY <2>6, <2>7
<1>3. QED BY <1>1, <1>2

LEMMA PassSkipStep ==
  ASSUME TypeOK, Flow, NEW a \in Assets, MFSkip(a) \/ FXSkip(a)
  PROVE  TypeOK' /\ Flow'
<1>1. UNCHANGED <<db, navs, snap, pc, copy, manualOnce, req, found, missed, plan, codes, rate, touched, passes>>
  BY DEF MFSkip, FXSkip, reqVars
<1>2. PICK p \in Revaluers : listed' = [listed EXCEPT ![p] = [@ EXCEPT ![a] = Unset]]
  BY DEF MFSkip, FXSkip, Revaluers
<1>3. TypeOK'
  BY <1>1, <1>2 DEF TypeOK, Opt
<1>4. Flow'
  BY <1>1, FlowSame
<1>5. QED BY <1>3, <1>4

LEMMA PassEndStep ==
  ASSUME TypeOK, Flow, NEW p \in Revaluers, PassEnd(p)
  PROVE  TypeOK' /\ Flow'
<1>1. /\ UNCHANGED <<db, navs, snap, copy, manualOnce, req, found, missed, plan, codes, listed, rate, passes>>
      /\ pc' = [pc EXCEPT ![p] = IF touched[p] THEN "snapRead" ELSE "idle"]
      /\ touched' = [touched EXCEPT ![p] = FALSE]
  BY DEF PassEnd, reqVars, Goto
<1>2. p \in Procs /\ \A e \in Editors : p # e
  BY ProcAssumption DEF Procs
<1>3. TypeOK'
  BY <1>1, <1>2 DEF TypeOK
<1>4. \A e \in Editors : pc'[e] = pc[e]
  BY <1>1, <1>2 DEF TypeOK, Procs
<1>5. Flow'
  BY <1>1, <1>4, FlowSame
<1>6. QED BY <1>3, <1>5

LEMMA PassFailsStep ==
  ASSUME TypeOK, Flow, NEW p \in Revaluers, PassFails(p)
  PROVE  TypeOK' /\ Flow'
<1>1. /\ UNCHANGED <<db, navs, snap, copy, manualOnce, req, found, missed, plan, listed, rate, touched, passes>>
      /\ pc' = [pc EXCEPT ![p] = "idle"]
      /\ codes' \in {{}, codes}
  BY DEF PassFails, reqVars, Goto
<1>2. p \in Procs /\ \A e \in Editors : p # e
  BY ProcAssumption DEF Procs
<1>3. TypeOK'
  <2>1. pc' \in [Procs -> {"idle"} \cup {pc[q] : q \in Procs}]
    BY <1>1, <1>2 DEF TypeOK
  <2>2. QED BY <1>1, <2>1 DEF TypeOK
<1>4. \A e \in Editors : pc'[e] = pc[e]
  BY <1>1, <1>2 DEF TypeOK, Procs
<1>5. Flow'
  BY <1>1, <1>4, FlowSame
<1>6. QED BY <1>3, <1>5

-----------------------------------------------------------------------------
(* Snapshots, of requests and of passes. *)
LEMMA SnapStep ==
  ASSUME TypeOK, Flow, NEW p \in Procs, SnapRead(p) \/ SnapWrite(p) \/ SnapFails(p)
  PROVE  TypeOK' /\ Flow'
<1>1. UNCHANGED <<db, navs, manualOnce, req, found, missed, plan, codes, listed, rate, touched, passes>>
  BY DEF SnapRead, SnapWrite, SnapFails, reqVars, jobVars
<1>2. Values \in [Assets -> Opt(Worth)]
  <2>1. \A a \in Assets : (IF Alive(a) THEN db[a].value ELSE Unset) \in Opt(Worth)
    BY DEF TypeOK, Alive, Doc, Opt
  <2>2. QED BY <2>1 DEF Values
<1>3. /\ copy' \in [Procs -> Opt([Assets -> Opt(Worth)])]
      /\ snap' \in Opt([Assets -> Opt(Worth)])
  <2>1. CASE SnapRead(p)
    BY <1>2, <2>1 DEF SnapRead, TypeOK, Opt
  <2>2. CASE SnapWrite(p)
    BY <2>2 DEF SnapWrite, TypeOK, Opt
  <2>3. CASE SnapFails(p)
    BY <2>3 DEF SnapFails, TypeOK, Opt
  <2>4. QED BY <2>1, <2>2, <2>3
<1>4. PICK l \in {"idle", "snapWrite", "done"} :
        /\ pc' = [pc EXCEPT ![p] = l]
        /\ p \in Editors => pc[p] \in {"snapRead", "snapWrite"} /\ l # "idle"
  <2>1. CASE SnapRead(p)
    BY <2>1 DEF SnapRead, Goto
  <2>2. CASE SnapWrite(p)
    BY <2>2, ProcAssumption DEF SnapWrite, Goto
  <2>3. CASE SnapFails(p)
    BY <2>3, ProcAssumption DEF SnapFails, Goto
  <2>4. QED BY <2>1, <2>2, <2>3
<1>5. TypeOK'
  BY <1>1, <1>3, <1>4 DEF TypeOK
<1>6. CASE p \in Editors
  <2>1. FlowOf(p)'
    BY <1>1, <1>4, <1>6 DEF Flow, FlowOf, TypeOK
  <2>2. Flow'
    BY <1>1, <1>4, <1>6, <2>1, FlowStep DEF TypeOK, Procs
  <2>3. QED BY <1>5, <2>2
<1>7. CASE p \notin Editors
  <2>1. Flow'
    BY <1>1, <1>4, <1>7, FlowSame DEF TypeOK, Procs
  <2>2. QED BY <1>5, <2>1
<1>8. QED BY <1>6, <1>7

LEMMA StutterStep ==
  ASSUME TypeOK, Flow, UNCHANGED vars
  PROVE  TypeOK' /\ Flow'
<1>1. UNCHANGED <<db, navs, snap, pc, copy, manualOnce, req, found, missed, plan, codes, listed, rate, touched, passes>>
  BY DEF vars, reqVars, jobVars
<1>2. TypeOK'
  BY <1>1 DEF TypeOK
<1>3. QED BY <1>1, <1>2, FlowSame

LEMMA InitFlow ==
  ASSUME Init
  PROVE  TypeOK /\ Flow
<1>1. TypeOK
  BY InitialAssumption DEF Init, TypeOK, Opt, NoAssets
<1>2. Flow
  BY DEF Init, Flow, FlowOf, Procs
<1>3. QED BY <1>1, <1>2

LEMMA FlowInvariant ==
  ASSUME TypeOK, Flow, [Next]_vars
  PROVE  TypeOK' /\ Flow'
<1>1. CASE \E e \in Editors : Arrive(e) \/ Fail(e)
  BY <1>1, ArriveStep, FailStep
<1>2. CASE \E e \in Editors : Editing(e)
  <2>1. PICK e \in Editors : Editing(e)
    BY <1>2
  <2>2. CASE Find(e) \/ \E s \in Schemes : MissNav(e, s) \/ FetchNav(e, s)
    BY <2>2, FindStep, NavStep
  <2>3. CASE Price(e) \/ PriceFails(e) \/ Compute(e)
    BY <2>3, PriceStep, PriceFailsStep, ComputeStep
  <2>4. CASE Insert(e) \/ Write(e) \/ Clear(e) \/ Refind(e) \/ Delete(e)
    BY <2>4, InsertStep, WriteStep, ClearStep, RefindStep, DeleteStep
  <2>5. QED BY <2>1, <2>2, <2>3, <2>4 DEF Editing
<1>3. CASE MFBegin \/ FXBegin
  BY <1>3, BeginStep
<1>4. CASE MFPass
  BY <1>4, MFFetchStep, ListStep, PassWriteStep, PassSkipStep, PassFailsStep, PassEndStep DEF MFPass, Revaluers
<1>5. CASE FXPass
  BY <1>5, ListStep, PassWriteStep, PassSkipStep, PassFailsStep, PassEndStep DEF FXPass, Revaluers
<1>6. CASE \E p \in Procs : Snapshot(p) \/ SnapFails(p)
  BY <1>6, SnapStep DEF Snapshot
<1>7. CASE UNCHANGED vars
  BY <1>7, StutterStep
<1>8. QED BY <1>1, <1>2, <1>3, <1>4, <1>5, <1>6, <1>7 DEF Next

(***************************************************************************)
(* TypeOK holds for any number of requests, assets and schemes.            *)
(***************************************************************************)
THEOREM TypeCorrect == Spec => []TypeOK
<1>1. Init => TypeOK /\ Flow
  BY InitFlow
<1>2. TypeOK /\ Flow /\ [Next]_vars => TypeOK' /\ Flow'
  BY FlowInvariant
<1>3. QED BY <1>1, <1>2, PTL DEF Spec

-----------------------------------------------------------------------------
(***************************************************************************)
(* A deleted asset stays deleted: only Insert fills an id that is not      *)
(* live, and it takes one that was never used.                             *)
(***************************************************************************)
THEOREM DeletedForGood == Spec => NoResurrection
<1>1. ASSUME TypeOK, [Next]_vars, NEW b \in Assets, db[b] = Gone
      PROVE  db'[b] = Gone
  <2>1. Gone # Unborn /\ ~Alive(b)
    BY <1>1, IdAssumption DEF Alive
  <2>2. CASE \E e \in Editors : Insert(e)
    <3>1. PICK e \in Editors : Insert(e)
      BY <2>2
    <3>2. PICK a \in Assets :
            db[a] = Unborn /\ \E d : db' = [db EXCEPT ![a] = d]
      BY <3>1 DEF Insert
    <3>3. QED BY <1>1, <2>1, <3>2 DEF TypeOK
  <2>3. CASE \E e \in Editors : Write(e) \/ Clear(e) \/ Delete(e)
    <3>1. PICK e \in Editors : Write(e) \/ Clear(e) \/ Delete(e)
      BY <2>3
    <3>2. db' = db \/ (Alive(req[e].asset) /\ \E d : db' = [db EXCEPT ![req[e].asset] = d])
      BY <3>1 DEF Write, Clear, Delete
    <3>3. QED BY <1>1, <2>1, <3>2 DEF TypeOK
  <2>4. CASE \E a \in Assets : MFWrite(a) \/ FXWrite(a)
    <3>1. PICK a \in Assets : MFWrite(a) \/ FXWrite(a)
      BY <2>4
    <3>2. db' = db \/ (Alive(a) /\ \E d : db' = [db EXCEPT ![a] = d])
      BY <3>1 DEF MFWrite, FXWrite
    <3>3. QED BY <1>1, <2>1, <3>2 DEF TypeOK
  <2>5. CASE \E e \in Editors : Arrive(e) \/ Find(e) \/ Price(e) \/ PriceFails(e) \/ Compute(e)
                                 \/ Refind(e) \/ Fail(e)
    BY <1>1, <2>5 DEF Arrive, Find, Price, PriceFails, Compute, Refind, Fail
  <2>6. CASE \E s \in Schemes : MFFetch(s) \/ \E e \in Editors : MissNav(e, s) \/ FetchNav(e, s)
    BY <1>1, <2>6 DEF MFFetch, MissNav, FetchNav
  <2>7. CASE MFBegin \/ MFList \/ FXBegin \/ FXList
             \/ \E p \in Revaluers : PassFails(p) \/ PassEnd(p)
    BY <1>1, <2>7 DEF MFBegin, MFList, FXBegin, FXList, PassFails, PassEnd
  <2>8. CASE \E a \in Assets : MFSkip(a) \/ FXSkip(a)
    BY <1>1, <2>8 DEF MFSkip, FXSkip
  <2>9. CASE \E p \in Procs : Snapshot(p) \/ SnapFails(p)
    BY <1>1, <2>9 DEF Snapshot, SnapRead, SnapWrite, SnapFails
  <2>10. CASE UNCHANGED vars
    BY <1>1, <2>10 DEF vars
  <2>11. QED
    BY <1>1, <2>2, <2>3, <2>4, <2>5, <2>6, <2>7, <2>8, <2>9, <2>10
    DEF Next, Editing, MFPass, FXPass, Revaluers
<1>2. TypeOK /\ [Next]_vars => [\A a \in Assets : db[a] = Gone => db'[a] = Gone]_vars
  BY <1>1
<1>3. QED BY <1>2, TypeCorrect, PTL DEF Spec, NoResurrection

-----------------------------------------------------------------------------
(* What late writes rest on: an update that was priced carries holdings    *)
(* and the value computed from them, any other one can only reach an asset *)
(* that was or becomes a manual entry, and so can the FX pass.             *)
StampedOf(e) ==
  /\ pc[e] \in {"price", "compute"} /\ found[e] # Unset /\ found[e].type = "manual"
       => req[e].asset \in manualOnce
  /\ pc[e] = "compute" => found[e] \in Doc /\ EffType(e) = "manual"
  /\ pc[e] = "insert" => req[e].type = "manual" \/ (plan[e] \in Doc /\ Sound(plan[e]))
  /\ pc[e] = "write" => \/ req[e].asset \in manualOnce
                        \/ plan[e].type = "manual"
                        \/ /\ plan[e].holdings \in Holdings
                           /\ Priced(plan[e].holdings)
                           /\ plan[e].value = Total(plan[e].holdings)

Stamped ==
  /\ StampConsistent
  /\ \A e \in Editors : StampedOf(e)
  /\ \A a \in Assets : listed["fx"][a] # Unset => a \in manualOnce

IInv == TypeOK /\ Flow /\ Stamped

LEMMA PricedStamp ==
  ASSUME NEW u \in [Schemes -> Units], NEW p \in [Schemes -> Navs \cup {0}],
         Held(u) # {}, \A s \in Held(u) : p[s] > 0
  PROVE  Priced(Stamp(u, p))
<1>1. UnitsOf(Stamp(u, p)) = u
  BY StampType
<1>2. \A s \in Held(u) : Stamp(u, p)[s].nav = p[s]
  BY DEF Stamp, Held
<1>3. QED BY <1>1, <1>2 DEF Priced

(* Once an asset counts as a manual entry it always does. *)
LEMMA StampedFrame ==
  ASSUME NEW d \in Editors, StampedOf(d), manualOnce \subseteq manualOnce',
         pc'[d] = pc[d], req'[d] = req[d], found'[d] = found[d], plan'[d] = plan[d]
  PROVE  StampedOf(d)'
  BY DEF StampedOf, EffType

(* A step that changes no asset and lists none for the FX pass. *)
LEMMA StampedSame ==
  ASSUME Stamped, UNCHANGED <<db, manualOnce>>,
         \A a \in Assets : listed'["fx"][a] \in {listed["fx"][a], Unset},
         \A e \in Editors : StampedOf(e)'
  PROVE  Stamped'
  BY DEF Stamped, StampConsistent, Alive

(* A step of one request that changes no asset. *)
LEMMA StampedStep ==
  ASSUME TypeOK, Stamped, NEW e \in Editors, UNCHANGED <<db, manualOnce, listed>>, StampedOf(e)',
         \A d \in Editors \ {e} : /\ pc'[d] = pc[d] /\ req'[d] = req[d]
                                  /\ found'[d] = found[d] /\ plan'[d] = plan[d]
  PROVE  Stamped'
<1>1. \A d \in Editors \ {e} : StampedOf(d)'
  BY StampedFrame DEF Stamped
<1>2. QED BY <1>1, StampedSame

(* A step of a pass or a snapshot that changes no asset. *)
LEMMA StampedQuiet ==
  ASSUME TypeOK, Stamped, UNCHANGED <<db, manualOnce, req, found, plan>>,
         \A e \in Editors : pc'[e] = pc[e],
         \A a \in Assets : listed'["fx"][a] \in {listed["fx"][a], Unset}
  PROVE  Stamped'
<1>1. \A d \in Editors : StampedOf(d)'
  BY StampedFrame DEF Stamped
<1>2. QED BY <1>1, StampedSame

LEMMA StampedArrive ==
  ASSUME TypeOK, Flow, Stamped, NEW e \in Editors, Arrive(e)
  PROVE  Stamped'
<1>1. PICK r \in Requests :
        /\ req' = [req EXCEPT ![e] = r]
        /\ pc' = [pc EXCEPT ![e] =
                    CASE r.kind = "create" /\ r.type = "mutual_fund" -> "price"
                      [] r.kind = "create" /\ r.type = "manual" -> "insert"
                      [] r.kind = "update" -> "find"
                      [] r.kind = "delete" -> "delete"]
  BY DEF Arrive, Goto
<1>2. \/ r.kind = "create" /\ r.type = "mutual_fund" /\ pc' = [pc EXCEPT ![e] = "price"]
      \/ r.kind = "create" /\ r.type = "manual" /\ pc' = [pc EXCEPT ![e] = "insert"]
      \/ r.kind = "update" /\ pc' = [pc EXCEPT ![e] = "find"]
      \/ r.kind = "delete" /\ pc' = [pc EXCEPT ![e] = "delete"]
  BY <1>1, RequestType DEF Types
<1>3. /\ UNCHANGED <<db, manualOnce, listed, found, plan>>
      /\ e \in Procs /\ pc[e] = "idle" /\ found[e] = Unset
  BY DEF Arrive, jobVars, Procs, Flow, FlowOf
<1>4. req'[e] = r
  BY <1>1 DEF TypeOK
<1>5. StampedOf(e)'
  BY <1>2, <1>3, <1>4 DEF StampedOf, TypeOK
<1>6. QED BY <1>1, <1>3, <1>5, StampedStep DEF TypeOK, Procs

LEMMA StampedFind ==
  ASSUME TypeOK, Flow, Stamped, NEW e \in Editors, Find(e)
  PROVE  Stamped'
<1> DEFINE a == req[e].asset
<1>1. /\ e \in Procs /\ pc[e] = "find" /\ FlowOf(e)
      /\ req[e] \in Requests /\ req[e].kind = "update" /\ a \in Assets
      /\ req[e].type \in Opt(Types)
  BY RequestType DEF Procs, Find, Flow, FlowOf
<1>2. UNCHANGED <<db, manualOnce, listed, req, plan>>
  BY DEF Find, jobVars
<1>3. CASE Alive(a)
  <2>1. db[a] \in Doc /\ db[a].type \in Types
    BY <1>1, <1>3 DEF TypeOK, Alive, Doc
  <2>2. db[a].type = "manual" => a \in manualOnce
    BY <1>1, <1>3 DEF Stamped, StampConsistent, Sound
  <2>3. /\ found' = [found EXCEPT ![e] = db[a]]
        /\ pc' = [pc EXCEPT ![e] = IF Or(req[e].type, db[a].type) = "mutual_fund"
                                   THEN "price" ELSE "compute"]
    BY <1>3 DEF Find, Goto
  <2>4. Or(req[e].type, db[a].type) # "mutual_fund" => Or(req[e].type, db[a].type) = "manual"
    BY <1>1, <2>1 DEF Or, Opt, Types
  <2>5. found'[e] = db[a] /\ EffType(e)' = Or(req[e].type, db[a].type)
    BY <1>2, <2>3 DEF TypeOK, EffType
  <2>6. StampedOf(e)'
    BY <1>1, <1>2, <2>1, <2>2, <2>3, <2>4, <2>5 DEF StampedOf, TypeOK
  <2>7. QED BY <1>2, <2>3, <2>6, StampedStep DEF TypeOK, Procs
<1>4. CASE ~Alive(a)
  <2>1. found' = found /\ pc' = [pc EXCEPT ![e] = "done"]
    BY <1>4 DEF Find, Goto
  <2>2. StampedOf(e)'
    BY <1>1, <1>2, <2>1 DEF StampedOf, TypeOK
  <2>3. QED BY <1>2, <2>1, <2>2, StampedStep DEF TypeOK, Procs
<1>5. QED BY <1>3, <1>4

LEMMA StampedPrice ==
  ASSUME TypeOK, Flow, Stamped, NEW e \in Editors, Price(e)
  PROVE  Stamped'
<1>1. /\ e \in Procs /\ pc[e] = "price" /\ FlowOf(e)
      /\ req[e] \in Requests
  BY DEF Procs, Price, Flow, FlowOf
<1>2. UNCHANGED <<db, manualOnce, listed, req, found>>
  BY DEF Price, jobVars
<1>3. /\ plan' = [plan EXCEPT ![e] = plan'[e]]
      /\ plan'[e].type = req[e].type
      /\ plan'[e].holdings = Stamp(AskedUnits(e), navs)
      /\ plan'[e].value = Total(plan'[e].holdings)
      /\ req[e].kind = "create" => plan'[e] \in Doc
  BY <1>1, PricePlan
<1>4. pc' = [pc EXCEPT ![e] = IF req[e].kind = "create" THEN "insert" ELSE "write"]
  BY DEF Price, Goto
<1>5. /\ AskedUnits(e) \in [Schemes -> Units] /\ navs \in [Schemes -> Navs \cup {0}]
      /\ Held(AskedUnits(e)) # {} /\ \A s \in Held(AskedUnits(e)) : navs[s] > 0
  BY <1>1, AskedUnitsType DEF Price, TypeOK
<1>6. plan'[e].holdings \in Holdings /\ Priced(plan'[e].holdings)
  BY <1>3, <1>5, PricedStamp, StampType
<1>7. req[e].kind = "create" => req[e].type \in Types
  BY <1>1, RequestType
<1>8. req[e].kind = "create" => req[e].type = "manual" \/ Sound(plan'[e])
  BY <1>3, <1>6, <1>7 DEF Sound, Types
<1>9. StampedOf(e)'
  BY <1>1, <1>2, <1>3, <1>4, <1>6, <1>8 DEF StampedOf, TypeOK
<1>10. QED BY <1>2, <1>3, <1>4, <1>9, StampedStep DEF TypeOK, Procs

LEMMA StampedCompute ==
  ASSUME TypeOK, Flow, Stamped, NEW e \in Editors, Compute(e)
  PROVE  Stamped'
<1>1. /\ e \in Procs /\ pc[e] = "compute" /\ StampedOf(e)
      /\ req[e] \in Requests
  BY DEF Procs, Compute, Flow, FlowOf, Stamped
<1>2. /\ UNCHANGED <<db, manualOnce, listed, req, found>>
      /\ plan' = [plan EXCEPT ![e] = AskedFields(e)]
      /\ pc' = [pc EXCEPT ![e] = "write"]
  BY DEF Compute, jobVars, Goto
<1>3. AskedFields(e).type = req[e].type
  BY <1>1, AskedType
<1>4. req[e].type = "manual" \/ req[e].asset \in manualOnce
  BY <1>1, UnsetAssumption DEF StampedOf, EffType, Or
<1>5. StampedOf(e)'
  BY <1>1, <1>2, <1>3, <1>4 DEF StampedOf, TypeOK
<1>6. QED BY <1>2, <1>5, StampedStep DEF TypeOK, Procs

(* The ways a request ends, or goes on without computing anything. *)
LEMMA StampedOther ==
  ASSUME TypeOK, Flow, Stamped, NEW e \in Editors, PriceFails(e) \/ Refind(e) \/ Fail(e)
  PROVE  Stamped'
<1>1. PICK l \in {"snapRead", "done"} : pc' = [pc EXCEPT ![e] = l]
  BY DEF PriceFails, Refind, Fail, Goto
<1>2. UNCHANGED <<db, manualOnce, listed, req, found, plan>>
  BY DEF PriceFails, Refind, Fail, reqVars, jobVars
<1>3. StampedOf(e)'
  BY <1>1, <1>2 DEF StampedOf, TypeOK, Procs
<1>4. QED BY <1>1, <1>2, <1>3, StampedStep DEF TypeOK, Procs

-----------------------------------------------------------------------------
(* Steps that change an asset. *)

(* What becomes of the other assets, and of the other requests. *)
LEMMA StampedWrite ==
  ASSUME TypeOK, Stamped, NEW a \in Assets, manualOnce \subseteq manualOnce',
         \A b \in Assets \ {a} : db'[b] = db[b],
         Alive(a)' /\ a \notin manualOnce' => Sound(db'[a]),
         \A b \in Assets : listed'["fx"][b] \in {listed["fx"][b], Unset},
         \A d \in Editors : \/ StampedOf(d)'
                            \/ /\ pc'[d] = pc[d] /\ req'[d] = req[d]
                               /\ found'[d] = found[d] /\ plan'[d] = plan[d]
  PROVE  Stamped'
<1>1. \A d \in Editors : StampedOf(d)'
  BY StampedFrame DEF Stamped
<1>2. StampConsistent'
  BY DEF Stamped, StampConsistent, Alive
<1>3. QED BY <1>1, <1>2 DEF Stamped

LEMMA StampedInsert ==
  ASSUME TypeOK, Flow, Stamped, NEW e \in Editors, Insert(e)
  PROVE  Stamped'
<1>1. /\ e \in Procs /\ pc[e] = "insert" /\ FlowOf(e) /\ StampedOf(e)
  BY DEF Procs, Insert, Flow, Stamped
<1> DEFINE d == IF plan[e] = Unset THEN AskedFields(e) ELSE plan[e]
<1>2. PICK a \in Assets :
        /\ db' = [db EXCEPT ![a] = d]
        /\ manualOnce' = IF req[e].type = "manual" THEN manualOnce \cup {a} ELSE manualOnce
  BY DEF Insert
<1>3. /\ UNCHANGED <<listed, req, found>>
      /\ plan' = [plan EXCEPT ![e] = Unset]
      /\ pc' = [pc EXCEPT ![e] = "snapRead"]
  BY DEF Insert, jobVars, Goto
<1>4. a \notin manualOnce' => Sound(d)
  BY <1>1, <1>2, UnsetAssumption DEF StampedOf
<1> HIDE DEF d
<1>5. StampedOf(e)'
  BY <1>1, <1>3 DEF StampedOf, TypeOK
<1>6. db'[a] = d /\ \A b \in Assets \ {a} : db'[b] = db[b]
  BY <1>2 DEF TypeOK
<1>7. \A c \in Editors \ {e} : /\ pc'[c] = pc[c] /\ req'[c] = req[c]
                               /\ found'[c] = found[c] /\ plan'[c] = plan[c]
  BY <1>3 DEF TypeOK, Procs
<1>8. QED BY <1>2, <1>3, <1>4, <1>5, <1>6, <1>7, StampedWrite

LEMMA StampedUpdate ==
  ASSUME TypeOK, Flow, Stamped, NEW e \in Editors, Write(e)
  PROVE  Stamped'
<1>1. /\ e \in Procs /\ pc[e] = "write" /\ StampedOf(e)
      /\ plan[e] \in Update /\ req[e].asset \in Assets
  BY RequestType DEF Procs, Write, Flow, FlowOf, Stamped
<1>a. PICK a \in Assets : a = req[e].asset
  BY <1>1
<1> DEFINE d == Apply(plan[e], db[a])
<1>2. /\ db' = IF Alive(a) THEN [db EXCEPT ![a] = d] ELSE db
      /\ manualOnce' = IF Alive(a) /\ d.type = "manual" THEN manualOnce \cup {a} ELSE manualOnce
  BY <1>a DEF Write
<1>3. /\ UNCHANGED <<listed, req>>
      /\ found' = [found EXCEPT ![e] = Unset]
      /\ plan' = [plan EXCEPT ![e] = Unset]
      /\ pc' = [pc EXCEPT ![e] = IF EffType(e) = "mutual_fund" THEN "clear" ELSE "refind"]
  BY DEF Write, jobVars, Goto
<1>4. ASSUME Alive(a), a \notin manualOnce'
      PROVE  Sound(d)
  <2>1. a \notin manualOnce /\ d.type # "manual"
    BY <1>2, <1>4
  <2>2. Sound(db[a])
    BY <1>1, <1>4, <2>1 DEF Stamped, StampConsistent
  <2>3. plan[e].type \in Opt(Types) /\ plan[e].type # "manual"
    BY <1>1, <2>1, UnsetAssumption DEF Update, Apply, Or, Types
  <2>4. /\ plan[e].holdings \in Holdings
        /\ Priced(plan[e].holdings)
        /\ plan[e].value = Total(plan[e].holdings)
    BY <1>1, <1>a, <2>1, <2>3 DEF StampedOf
  <2>5. plan[e].holdings # Unset /\ plan[e].value # Unset
    BY <2>4, TotalType, UnsetAssumption
  <2>6. d.holdings = plan[e].holdings /\ d.value = plan[e].value
    BY <2>5 DEF Apply, Or
  <2>7. d.type = "mutual_fund"
    BY <2>2, <2>3 DEF Apply, Or, Opt, Types, Sound
  <2>8. QED BY <2>4, <2>6, <2>7 DEF Sound
<1> HIDE DEF d
<1>5. StampedOf(e)'
  BY <1>1, <1>3 DEF StampedOf, TypeOK
<1>6. /\ \A b \in Assets \ {a} : db'[b] = db[b]
      /\ Alive(a)' => Alive(a) /\ db'[a] = d
  BY <1>1, <1>2 DEF TypeOK, Alive
<1>7. \A c \in Editors \ {e} : /\ pc'[c] = pc[c] /\ req'[c] = req[c]
                               /\ found'[c] = found[c] /\ plan'[c] = plan[c]
  BY <1>3 DEF TypeOK, Procs
<1>8. manualOnce \subseteq manualOnce'
  BY <1>2
<1>9. QED BY <1>1, <1>3, <1>4, <1>5, <1>6, <1>7, <1>8, StampedWrite

LEMMA StampedClear ==
  ASSUME TypeOK, Flow, Stamped, NEW e \in Editors, Clear(e)
  PROVE  Stamped'
<1>1. e \in Procs /\ pc[e] = "clear" /\ req[e].asset \in Assets
  BY RequestType DEF Procs, Clear, Flow, FlowOf
<1>a. PICK a \in Assets : a = req[e].asset
  BY <1>1
<1>2. /\ UNCHANGED <<manualOnce, listed, req, found, plan>>
      /\ db' = IF Alive(a) THEN [db EXCEPT ![a] = [@ EXCEPT !.foreign = FALSE, !.amount = 0]] ELSE db
      /\ pc' = [pc EXCEPT ![e] = "refind"]
  BY <1>a DEF Clear, reqVars, jobVars, Goto
<1>3. \A b \in Assets \ {a} : db'[b] = db[b]
  BY <1>1, <1>2 DEF TypeOK
<1>4. ASSUME Alive(a)', a \notin manualOnce'
      PROVE  Sound(db'[a])
  <2>1. Alive(a)
    BY <1>1, <1>2, <1>4 DEF Alive
  <2>2. Sound(db[a]) /\ db[a] \in Doc
    BY <1>1, <1>2, <1>4, <2>1 DEF Stamped, StampConsistent, TypeOK, Alive
  <2>3. db'[a] = [db[a] EXCEPT !.foreign = FALSE, !.amount = 0]
    BY <1>1, <1>2, <2>1 DEF TypeOK
  <2>4. /\ db'[a].type = db[a].type /\ db'[a].holdings = db[a].holdings
        /\ db'[a].value = db[a].value
    BY <2>2, <2>3 DEF Doc
  <2>5. QED BY <2>2, <2>4 DEF Sound
<1>5. StampedOf(e)'
  BY <1>1, <1>2 DEF StampedOf, TypeOK
<1>6. \A c \in Editors \ {e} : /\ pc'[c] = pc[c] /\ req'[c] = req[c]
                               /\ found'[c] = found[c] /\ plan'[c] = plan[c]
  BY <1>2 DEF TypeOK, Procs
<1>7. QED BY <1>1, <1>2, <1>3, <1>4, <1>5, <1>6, StampedWrite

LEMMA StampedDelete ==
  ASSUME TypeOK, Flow, Stamped, NEW e \in Editors, Delete(e)
  PROVE  Stamped'
<1>1. e \in Procs /\ pc[e] = "delete" /\ req[e].asset \in Assets
  BY RequestType DEF Procs, Delete, Flow, FlowOf
<1>a. PICK a \in Assets : a = req[e].asset
  BY <1>1
<1>2. /\ UNCHANGED <<manualOnce, listed, req, found, plan>>
      /\ \/ db' = [db EXCEPT ![a] = Gone]
         \/ db' = db /\ ~Alive(a)
      /\ pc' = [pc EXCEPT ![e] = "snapRead"] \/ pc' = [pc EXCEPT ![e] = "done"]
  BY <1>a DEF Delete, reqVars, jobVars, Goto
<1>3. ~Alive(a)' /\ \A b \in Assets \ {a} : db'[b] = db[b]
  BY <1>1, <1>2 DEF TypeOK, Alive
<1>4. StampedOf(e)'
  BY <1>1, <1>2 DEF StampedOf, TypeOK
<1>5. \A c \in Editors \ {e} : /\ pc'[c] = pc[c] /\ req'[c] = req[c]
                               /\ found'[c] = found[c] /\ plan'[c] = plan[c]
  BY <1>2 DEF TypeOK, Procs
<1>6. QED BY <1>1, <1>2, <1>3, <1>4, <1>5, StampedWrite

LEMMA StampedPassWrite ==
  ASSUME TypeOK, Flow, Stamped, NEW a \in Assets, MFWrite(a) \/ FXWrite(a)
  PROVE  Stamped'
<1>1. CASE MFWrite(a)
  <2> DEFINE u == UnitsOf(listed["mf"][a].holdings)
             h == Stamp(u, navs)
  <2>1. /\ UNCHANGED <<pc, manualOnce, req, found, plan>>
        /\ db' = IF Alive(a)
                 THEN [db EXCEPT ![a] = [@ EXCEPT !.holdings = h, !.value = Total(h)]]
                 ELSE db
        /\ listed' = [listed EXCEPT !["mf"] = [@ EXCEPT ![a] = Unset]]
        /\ listed["mf"][a] # Unset
        /\ Held(u) # {} /\ \A s \in Held(u) : navs[s] > 0
    BY <1>1 DEF MFWrite, reqVars
  <2>2. u \in [Schemes -> Units] /\ navs \in [Schemes -> Navs \cup {0}]
    <3>1. listed["mf"][a].holdings \in Holdings
      BY <2>1 DEF TypeOK, Opt, Doc, Revaluers
    <3>2. QED BY <3>1, UnitsType DEF TypeOK
  <2>3. h \in Holdings /\ Priced(h)
    BY <2>1, <2>2, StampType, PricedStamp
  <2> HIDE DEF u, h
  <2>4. \A b \in Assets \ {a} : db'[b] = db[b]
    BY <2>1 DEF TypeOK
  <2>5. ASSUME Alive(a)', a \notin manualOnce'
        PROVE  Sound(db'[a])
    <3>1. Alive(a)
      BY <2>1, <2>5 DEF Alive
    <3>2. db[a] \in Doc /\ db[a].type = "mutual_fund"
      BY <2>1, <2>5, <3>1 DEF Stamped, StampConsistent, TypeOK, Alive, Sound
    <3>3. db'[a] = [db[a] EXCEPT !.holdings = h, !.value = Total(h)]
      BY <2>1, <3>1 DEF TypeOK
    <3>4. db'[a].type = "mutual_fund" /\ db'[a].holdings = h /\ db'[a].value = Total(h)
      BY <3>2, <3>3 DEF Doc
    <3>5. QED BY <2>3, <3>4 DEF Sound
  <2>6. listed'["fx"] = listed["fx"]
    BY <2>1 DEF TypeOK
  <2>7. QED BY <2>1, <2>4, <2>5, <2>6, StampedWrite
<1>2. CASE FXWrite(a)
  <2>1. /\ UNCHANGED <<pc, manualOnce, req, found, plan>>
        /\ db' = IF Alive(a)
                 THEN [db EXCEPT ![a] = [@ EXCEPT !.value = listed["fx"][a].amount * rate]]
                 ELSE db
        /\ listed' = [listed EXCEPT !["fx"] = [@ EXCEPT ![a] = Unset]]
        /\ listed["fx"][a] # Unset
    BY <1>2 DEF FXWrite, reqVars
  <2>2. a \in manualOnce'
    BY <2>1 DEF Stamped
  <2>3. \A b \in Assets \ {a} : db'[b] = db[b]
    BY <2>1 DEF TypeOK
  <2>4. \A b \in Assets : listed'["fx"][b] \in {listed["fx"][b], Unset}
    BY <2>1 DEF TypeOK, Revaluers
  <2>5. QED BY <2>1, <2>2, <2>3, <2>4, StampedWrite
<1>3. QED BY <1>1, <1>2

(* The FX pass lists only assets that are manual entries now. *)
LEMMA StampedFXList ==
  ASSUME TypeOK, Flow, Stamped, FXList
  PROVE  Stamped'
<1> DEFINE S == {a \in Assets : Alive(a) /\ db[a].foreign /\ db[a].type = "manual"}
<1>1. /\ UNCHANGED <<db, manualOnce, req, found, plan>>
      /\ listed' = [listed EXCEPT !["fx"] = ListOf(S)]
      /\ pc' = [pc EXCEPT !["fx"] = "revalue"]
  BY DEF FXList, reqVars, Goto
<1>2. S \subseteq manualOnce
  BY DEF Stamped, StampConsistent, Sound
<1> HIDE DEF S
<1>3. \A a \in Assets : listed'["fx"][a] # Unset => a \in manualOnce'
  BY <1>1, <1>2 DEF TypeOK, ListOf, Revaluers
<1>4. \A e \in Editors : pc'[e] = pc[e]
  BY <1>1, ProcsDisjoint DEF TypeOK
<1>5. \A e \in Editors : StampedOf(e)'
  BY <1>1, <1>4, StampedFrame DEF Stamped
<1>6. StampConsistent'
  BY <1>1 DEF Stamped, StampConsistent, Alive
<1>7. QED BY <1>3, <1>5, <1>6 DEF Stamped

LEMMA StampedPass ==
  ASSUME TypeOK, Flow, Stamped,
         \/ MFBegin \/ FXBegin \/ MFList
         \/ \E s \in Schemes : MFFetch(s)
         \/ \E a \in Assets : MFSkip(a) \/ FXSkip(a)
         \/ \E p \in Revaluers : PassFails(p) \/ PassEnd(p)
  PROVE  Stamped'
<1>1. UNCHANGED <<db, manualOnce, req, found, plan>>
  BY DEF MFBegin, FXBegin, MFList, MFFetch, MFSkip, FXSkip, PassFails, PassEnd, reqVars
<1>2. pc' = pc \/ \E p \in Revaluers : \E l : pc' = [pc EXCEPT ![p] = l]
  <2>1. CASE MFBegin
    BY <2>1 DEF MFBegin, Goto, Revaluers
  <2>2. CASE FXBegin
    BY <2>2 DEF FXBegin, Goto, Revaluers
  <2>3. CASE MFList
    BY <2>3 DEF MFList, Goto, Revaluers
  <2>4. CASE (\E s \in Schemes : MFFetch(s)) \/ \E a \in Assets : MFSkip(a) \/ FXSkip(a)
    BY <2>4 DEF MFFetch, MFSkip, FXSkip
  <2>5. ASSUME NEW p \in Revaluers, PassEnd(p)
        PROVE  \E l : pc' = [pc EXCEPT ![p] = l]
    <3>1. pc' = [pc EXCEPT ![p] = IF touched[p] THEN "snapRead" ELSE "idle"]
      BY <2>5 DEF PassEnd, Goto
    <3>2. QED BY <3>1
  <2>6. ASSUME NEW p \in Revaluers, PassFails(p)
        PROVE  \E l : pc' = [pc EXCEPT ![p] = l]
    <3>1. pc' = [pc EXCEPT ![p] = "idle"]
      BY <2>6 DEF PassFails, Goto
    <3>2. QED BY <3>1
  <2>7. QED BY <2>1, <2>2, <2>3, <2>4, <2>5, <2>6
<1>3. \A e \in Editors : pc'[e] = pc[e]
  BY <1>2, ProcAssumption DEF TypeOK, Procs
<1>4. \A a \in Assets : listed'["fx"][a] \in {listed["fx"][a], Unset}
  <2>1. CASE MFBegin \/ FXBegin \/ (\E s \in Schemes : MFFetch(s))
             \/ \E p \in Revaluers : PassFails(p) \/ PassEnd(p)
    BY <2>1 DEF MFBegin, FXBegin, MFFetch, PassFails, PassEnd
  <2>2. CASE MFList \/ \E a \in Assets : MFSkip(a)
    <3>1. \E x : listed' = [listed EXCEPT !["mf"] = x]
      BY <2>2 DEF MFList, MFSkip
    <3>2. listed'["fx"] = listed["fx"]
      BY <3>1 DEF TypeOK
    <3>3. QED BY <3>2
  <2>3. CASE \E a \in Assets : FXSkip(a)
    BY <2>3 DEF FXSkip, TypeOK, Revaluers
  <2>4. QED BY <2>1, <2>2, <2>3
<1>5. QED BY <1>1, <1>3, <1>4, StampedQuiet

LEMMA StampedSnapshot ==
  ASSUME TypeOK, Flow, Stamped, NEW p \in Procs, SnapRead(p) \/ SnapWrite(p) \/ SnapFails(p)
  PROVE  Stamped'
<1>1. UNCHANGED <<db, manualOnce, req, found, plan, listed>>
  BY DEF SnapRead, SnapWrite, SnapFails, reqVars, jobVars
<1>2. PICK l \in {"idle", "snapWrite", "done"} : pc' = [pc EXCEPT ![p] = l]
  BY DEF SnapRead, SnapWrite, SnapFails, Goto
<1>3. CASE p \in Editors
  <2>1. StampedOf(p)'
    BY <1>1, <1>2, <1>3 DEF StampedOf, TypeOK
  <2>2. QED BY <1>1, <1>2, <1>3, <2>1, StampedStep DEF TypeOK, Procs
<1>4. CASE p \notin Editors
  <2>1. \A e \in Editors : pc'[e] = pc[e]
    BY <1>2, <1>4 DEF TypeOK, Procs
  <2>2. QED BY <1>1, <2>1, StampedQuiet
<1>5. QED BY <1>3, <1>4

LEMMA StampedInit ==
  ASSUME Init
  PROVE  Stamped
<1>1. StampConsistent
  BY InitialAssumption, IdAssumption DEF Init, StampConsistent, Alive
<1>2. \A e \in Editors : StampedOf(e)
  BY DEF Init, StampedOf, Procs
<1>3. \A a \in Assets : listed["fx"][a] = Unset
  BY DEF Init, NoAssets, Revaluers
<1>4. QED BY <1>1, <1>2, <1>3 DEF Stamped

LEMMA StampedInvariant ==
  ASSUME TypeOK, Flow, Stamped, [Next]_vars
  PROVE  Stamped'
<1>1. CASE \E e \in Editors : Arrive(e) \/ Fail(e)
  BY <1>1, StampedArrive, StampedOther
<1>2. CASE \E e \in Editors : Editing(e)
  <2>1. PICK e \in Editors : Editing(e)
    BY <1>2
  <2>2. CASE \E s \in Schemes : MissNav(e, s) \/ FetchNav(e, s)
    <3>1. UNCHANGED <<db, manualOnce, req, found, plan, pc, listed>>
      BY <2>2 DEF MissNav, FetchNav, jobVars
    <3>2. QED BY <3>1, StampedQuiet
  <2>3. CASE Find(e) \/ Price(e) \/ PriceFails(e) \/ Compute(e) \/ Refind(e)
    BY <2>3, StampedFind, StampedPrice, StampedCompute, StampedOther
  <2>4. CASE Insert(e) \/ Write(e) \/ Clear(e) \/ Delete(e)
    BY <2>4, StampedInsert, StampedUpdate, StampedClear, StampedDelete
  <2>5. QED BY <2>1, <2>2, <2>3, <2>4 DEF Editing
<1>3. CASE MFBegin \/ FXBegin
  BY <1>3, StampedPass
<1>4. CASE MFPass
  BY <1>4, StampedPass, StampedPassWrite DEF MFPass, Revaluers
<1>5. CASE FXPass
  BY <1>5, StampedPass, StampedPassWrite, StampedFXList DEF FXPass, Revaluers
<1>6. CASE \E p \in Procs : Snapshot(p) \/ SnapFails(p)
  BY <1>6, StampedSnapshot DEF Snapshot
<1>7. CASE UNCHANGED vars
  <2>1. UNCHANGED <<db, manualOnce, req, found, plan, pc, listed>>
    BY <1>7 DEF vars, reqVars, jobVars
  <2>2. QED BY <2>1, StampedQuiet
<1>8. QED BY <1>1, <1>2, <1>3, <1>4, <1>5, <1>6, <1>7 DEF Next

(***************************************************************************)
(* StampConsistent for any number of requests, assets and schemes, and     *)
(* passes without bound: the value and the holdings of a fund portfolio    *)
(* that never was a manual entry always belong together, although nothing  *)
(* makes two database calls atomic.                                        *)
(***************************************************************************)
THEOREM FundsConsistent == Spec => []StampConsistent
<1>1. Init => IInv
  BY InitFlow, StampedInit DEF IInv
<1>2. IInv /\ [Next]_vars => IInv'
  BY FlowInvariant, StampedInvariant DEF IInv
<1>3. IInv => StampConsistent
  BY DEF IInv, Stamped
<1>4. QED BY <1>1, <1>2, <1>3, PTL DEF Spec
=============================================================================
