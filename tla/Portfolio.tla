----------------------------- MODULE Portfolio -----------------------------
(***************************************************************************)
(* The assets of one user, and everyone who writes them: the requests that *)
(* create, edit and delete assets, the mutual-fund revaluer and the FX     *)
(* revaluer.  Every call on the assets and the snapshots is a step of its  *)
(* own, since nothing in the code makes two of them atomic: a handler or a *)
(* pass may find that what it read has changed when it writes.  Only the   *)
(* cached NAVs of one portfolio are read in the step that uses them: a     *)
(* price that moves between these reads is a NAV of another day, which no  *)
(* property tells apart.  refreshMu lets one MF pass and one FX pass run   *)
(* at a time (module FeedRefresh), so each revaluer is one process.        *)
(***************************************************************************)
EXTENDS Integers, FiniteSets, FiniteSetsExt

CONSTANTS Assets,     \* asset ids
          Schemes,    \* mutual-fund schemes
          Units,      \* units of a scheme a holding may have, 0 among them
          Navs,       \* prices the fund feed may publish
          Rates,      \* USD rates Rates.Get may return
          Editors,    \* asset requests, one at a time each
          Requests,   \* what a request may ask for
          InitialDb,  \* the assets at the start
          InitialNavs, \* the cached NAVs at the start
          MaxPasses,  \* MaxPasses[p]: bound on the passes of job p
          Faults,     \* whether calls may fail
          Unset,      \* an absent field, row or copy
          Unborn,     \* an id not handed out yet
          Gone        \* the id of a deleted asset

Revaluers == {"mf", "fx"}
Procs == Editors \cup Revaluers

Types == {"mutual_fund", "manual"}
Opt(S) == S \cup {Unset}

(* Holdings by scheme, each stamped with the NAV it was last priced at; a  *)
(* scheme with no units is not held.                                       *)
Holdings == [Schemes -> [units : Units, nav : Navs \cup {0}]]

Held(units) == {s \in Schemes : units[s] > 0}
UnitsOf(h) == [s \in Schemes |-> h[s].units]

(* ValuePortfolio and Revalue: stamp each holding with its NAV ... *)
Stamp(units, prices) ==
  [s \in Schemes |-> [units |-> units[s], nav |-> IF units[s] > 0 THEN prices[s] ELSE 0]]

(* ... and total units times stamp. *)
Total(h) == MapThenSumSet(LAMBDA s : h[s].units * h[s].nav, Schemes)

(* A rupee value: a client's number or a total of priced holdings. *)
Worth == Nat \cup {Total(h) : h \in Holdings}

(* An asset document, and a $set document with the fields that are present. *)
Doc == [type : Types, foreign : BOOLEAN, amount : Nat, holdings : Holdings, value : Worth]
Update == [type : Opt(Types), foreign : Opt(BOOLEAN), amount : Opt(Nat),
           holdings : Opt(Holdings), value : Opt(Worth)]

Request == [kind : {"create", "update", "delete"}, asset : Opt(Assets),
            type : Opt(Types), units : Opt([Schemes -> Units]),
            foreign : Opt(BOOLEAN), amount : Opt(Nat), value : Opt(Nat)]

(* Something is held, and no part of it is unpriced. *)
Priced(h) == Held(UnitsOf(h)) # {} /\ \A s \in Held(UnitsOf(h)) : h[s].nav > 0

(* A fund portfolio as the pricing code leaves it. *)
Sound(d) ==
  /\ d.type = "mutual_fund"
  /\ Priced(d.holdings)
  /\ d.value = Total(d.holdings)

ASSUME UnsetAssumption ==
  /\ Unset \notin Types /\ Unset \notin BOOLEAN /\ Unset \notin Worth
  /\ Unset \notin Holdings /\ Unset \notin [Schemes -> Units]
  /\ Unset \notin Doc /\ Unset \notin Update /\ Unset \notin Requests
  /\ Unset \notin Assets
ASSUME IdAssumption == Unborn \notin Doc /\ Gone \notin Doc /\ Unborn # Gone
ASSUME PriceAssumption ==
  /\ 0 \in Units /\ Units \subseteq Nat
  /\ Navs \subseteq Nat \ {0} /\ Rates \subseteq Nat \ {0}
ASSUME ProcAssumption == Editors \cap Revaluers = {}
ASSUME BoundAssumption == MaxPasses \in [Revaluers -> Nat] /\ Faults \in BOOLEAN
ASSUME RequestAssumption ==
  /\ Requests \subseteq Request
  /\ \A r \in Requests : r.kind # "create" => r.asset \in Assets
  /\ \A r \in Requests : r.kind = "create" =>
       Unset \notin {r.type, r.units, r.foreign, r.amount, r.value}
ASSUME InitialAssumption ==
  /\ InitialNavs \in [Schemes -> Navs \cup {0}]
  /\ InitialDb \in [Assets -> Doc \cup {Unborn}]
  /\ \A a \in Assets : InitialDb[a] \in Doc /\ InitialDb[a].type # "manual" => Sound(InitialDb[a])

VARIABLES db,       \* the assets collection
          navs,     \* mf_navs: the cached NAV of each scheme, 0 if none
          snap,     \* today's snapshot row: the value of each asset in it
          pc,       \* where each process is
          req,      \* req[e]: the request e handles
          found,    \* found[e]: the asset as UpdateAsset first read it
          missed,   \* missed[e]: schemes e found uncached and is fetching
          plan,     \* plan[e]: the update e has computed
          codes,    \* schemes the MF pass still has to fetch
          listed,   \* listed[p]: the assets p listed and has not written back
          rate,     \* the USD rate of the FX pass
          touched,  \* touched[p]: the pass of p wrote some asset
          copy,     \* copy[p]: the values p read for a snapshot
          passes,   \* passes[p]: passes of job p so far
          manualOnce  \* history: the assets that ever were manual entries

reqVars == <<req, found, missed, plan>>
jobVars == <<codes, listed, rate, touched, passes>>
vars == <<db, navs, snap, pc, copy, manualOnce, reqVars, jobVars>>

Alive(a) == db[a] \notin {Unborn, Gone}

Or(x, y) == IF x = Unset THEN y ELSE x
NoAssets == [a \in Assets |-> Unset]

Init ==
  /\ db = InitialDb
  /\ navs = InitialNavs
  /\ snap = Unset
  /\ pc = [p \in Procs |-> "idle"]
  /\ req = [e \in Editors |-> Unset]
  /\ found = [e \in Editors |-> Unset]
  /\ missed = [e \in Editors |-> {}]
  /\ plan = [e \in Editors |-> Unset]
  /\ codes = {}
  /\ listed = [p \in Revaluers |-> NoAssets]
  /\ rate = 0
  /\ touched = [p \in Revaluers |-> FALSE]
  /\ copy = [p \in Procs |-> Unset]
  /\ passes = [p \in Revaluers |-> 0]
  /\ manualOnce = {a \in Assets : InitialDb[a] # Unborn /\ InitialDb[a].type = "manual"}

Goto(p, l) == pc' = [pc EXCEPT ![p] = l]

-----------------------------------------------------------------------------
(* Requests: CreateAsset, UpdateAsset, DeleteAsset.                        *)

(* The type UpdateAsset prices by: the one asked for, or the one it read. *)
EffType(e) == Or(req[e].type, found[e].type)

(* The units a pricing of request e looks up. *)
AskedUnits(e) ==
  Or(req[e].units, IF found[e] = Unset THEN Unset ELSE UnitsOf(found[e].holdings))

Arrive(e) ==
  /\ pc[e] = "idle"
  /\ \E r \in Requests :
       /\ req' = [req EXCEPT ![e] = r]
       /\ Goto(e, CASE r.kind = "create" /\ r.type = "mutual_fund" -> "price"
                    [] r.kind = "create" /\ r.type = "manual" -> "insert"
                    [] r.kind = "update" -> "find"
                    [] r.kind = "delete" -> "delete")
  /\ UNCHANGED <<db, navs, snap, copy, manualOnce, found, missed, plan, jobVars>>

(* FindAsset, with 404 for an asset that is not there. *)
Find(e) ==
  /\ pc[e] = "find"
  /\ IF Alive(req[e].asset)
     THEN /\ found' = [found EXCEPT ![e] = db[req[e].asset]]
          /\ Goto(e, IF Or(req[e].type, db[req[e].asset].type) = "mutual_fund"
                     THEN "price" ELSE "compute")
     ELSE /\ Goto(e, "done")
          /\ UNCHANGED found
  /\ UNCHANGED <<db, navs, snap, copy, manualOnce, req, missed, plan, jobVars>>

(* NavFor finds no cached NAV and asks the feed, which answers later ... *)
MissNav(e, s) ==
  /\ pc[e] = "price"
  /\ s \in Held(AskedUnits(e)) \ missed[e]
  /\ navs[s] = 0
  /\ missed' = [missed EXCEPT ![e] = @ \cup {s}]
  /\ UNCHANGED <<db, navs, snap, pc, copy, manualOnce, req, found, plan, jobVars>>

(* ... and its answer is cached over whatever is there by then. *)
FetchNav(e, s) ==
  /\ pc[e] = "price"
  /\ s \in missed[e]
  /\ \E n \in Navs : navs' = [navs EXCEPT ![s] = n]
  /\ missed' = [missed EXCEPT ![e] = @ \ {s}]
  /\ UNCHANGED <<db, snap, pc, copy, manualOnce, req, found, plan, jobVars>>

(* assetUpdateBSON: the fields the request names.  Holdings that are not   *)
(* priced keep the client's stamps, here 0.                                *)
AskedFields(e) ==
  LET r == req[e]
  IN  [type |-> r.type, foreign |-> r.foreign, amount |-> r.amount, value |-> r.value,
       holdings |-> IF r.units = Unset THEN Unset
                    ELSE Stamp(r.units, [s \in Schemes |-> 0])]

(* priceMFAsset has every NAV it needs: the computed holdings and value    *)
(* take the place of the client's.                                         *)
Price(e) ==
  /\ pc[e] = "price"
  /\ missed[e] = {}
  /\ Held(AskedUnits(e)) # {}
  /\ \A s \in Held(AskedUnits(e)) : navs[s] > 0
  /\ LET h == Stamp(AskedUnits(e), navs)
     IN  plan' = [plan EXCEPT ![e] = [AskedFields(e) EXCEPT !.holdings = h, !.value = Total(h)]]
  /\ Goto(e, IF req[e].kind = "create" THEN "insert" ELSE "write")
  /\ UNCHANGED <<db, navs, snap, copy, manualOnce, req, found, missed, jobVars>>

(* An empty portfolio or a failing feed is a 400. *)
PriceFails(e) ==
  /\ pc[e] = "price"
  /\ Held(AskedUnits(e)) = {} \/ (Faults /\ missed[e] # {})
  /\ missed' = [missed EXCEPT ![e] = {}]
  /\ Goto(e, "done")
  /\ UNCHANGED <<db, navs, snap, copy, manualOnce, req, found, plan, jobVars>>

(* A manual entry takes the client's numbers as they are. *)
Compute(e) ==
  /\ pc[e] = "compute"
  /\ plan' = [plan EXCEPT ![e] = AskedFields(e)]
  /\ Goto(e, "write")
  /\ UNCHANGED <<db, navs, snap, copy, manualOnce, req, found, missed, jobVars>>

(* Mutant of Insert: inserts the priced document although none was priced. *)
InsertPlan(e) ==
  /\ pc[e] = "insert"
  /\ \E a \in Assets :
       /\ db[a] = Unborn
       /\ db' = [db EXCEPT ![a] = plan[e]]
       /\ manualOnce' = IF req[e].type = "manual" THEN manualOnce \cup {a} ELSE manualOnce
  /\ Goto(e, "snapRead")
  /\ plan' = [plan EXCEPT ![e] = Unset]
  /\ UNCHANGED <<navs, snap, copy, req, found, missed, jobVars>>

(* InsertAsset under a fresh id. *)
Insert(e) ==
  /\ pc[e] = "insert"
  /\ \E a \in Assets :
       /\ db[a] = Unborn
       /\ db' = [db EXCEPT ![a] = IF plan[e] = Unset THEN AskedFields(e) ELSE plan[e]]
       /\ manualOnce' = IF req[e].type = "manual" THEN manualOnce \cup {a} ELSE manualOnce
  /\ Goto(e, "snapRead")
  /\ plan' = [plan EXCEPT ![e] = Unset]
  /\ UNCHANGED <<navs, snap, copy, req, found, missed, jobVars>>

(* $set on a document. *)
Apply(u, d) ==
  [type |-> Or(u.type, d.type), foreign |-> Or(u.foreign, d.foreign),
   amount |-> Or(u.amount, d.amount), holdings |-> Or(u.holdings, d.holdings),
   value |-> Or(u.value, d.value)]

(* Mutant of Write: an upsert, which matches no document and makes one.    *)
WriteUpsert(e) ==
  /\ pc[e] = "write"
  /\ LET a == req[e].asset
     IN  /\ db' = [db EXCEPT ![a] = Apply(plan[e], found[e])]
         /\ manualOnce' = IF Apply(plan[e], found[e]).type = "manual"
                          THEN manualOnce \cup {a} ELSE manualOnce
  /\ Goto(e, IF EffType(e) = "mutual_fund" THEN "clear" ELSE "refind")
  /\ found' = [found EXCEPT ![e] = Unset]
  /\ plan' = [plan EXCEPT ![e] = Unset]
  /\ UNCHANGED <<navs, snap, copy, req, missed, jobVars>>

(* Store.UpdateAsset: matching no document is not an error.  What was read *)
(* and computed is not used again.                                         *)
Write(e) ==
  /\ pc[e] = "write"
  /\ LET a == req[e].asset
     IN  /\ db' = IF Alive(a) THEN [db EXCEPT ![a] = Apply(plan[e], @)] ELSE db
         /\ manualOnce' = IF Alive(a) /\ Apply(plan[e], db[a]).type = "manual"
                          THEN manualOnce \cup {a} ELSE manualOnce
  /\ Goto(e, IF EffType(e) = "mutual_fund" THEN "clear" ELSE "refind")
  /\ found' = [found EXCEPT ![e] = Unset]
  /\ plan' = [plan EXCEPT ![e] = Unset]
  /\ UNCHANGED <<navs, snap, copy, req, missed, jobVars>>

(* ClearForeignFields, a write of its own. *)
Clear(e) ==
  /\ pc[e] = "clear"
  /\ LET a == req[e].asset
     IN  db' = IF Alive(a) THEN [db EXCEPT ![a].foreign = FALSE, ![a].amount = 0] ELSE db
  /\ Goto(e, "refind")
  /\ UNCHANGED <<navs, snap, copy, manualOnce, reqVars, jobVars>>

(* The answer is read back; an asset deleted meanwhile ends the request    *)
(* before its snapshot.                                                    *)
Refind(e) ==
  /\ pc[e] = "refind"
  /\ Goto(e, IF Alive(req[e].asset) THEN "snapRead" ELSE "done")
  /\ UNCHANGED <<db, navs, snap, copy, manualOnce, reqVars, jobVars>>

Delete(e) ==
  /\ pc[e] = "delete"
  /\ LET a == req[e].asset
     IN  IF Alive(a)
         THEN /\ db' = [db EXCEPT ![a] = Gone]
              /\ Goto(e, "snapRead")
         ELSE /\ Goto(e, "done")
              /\ UNCHANGED db
  /\ UNCHANGED <<navs, snap, copy, manualOnce, reqVars, jobVars>>

(* A failed call or a client that hangs up ends the request where it is;   *)
(* what it has written stays written.                                      *)
Fail(e) ==
  /\ Faults
  /\ pc[e] \notin {"idle", "done"}
  /\ missed' = [missed EXCEPT ![e] = {}]
  /\ copy' = [copy EXCEPT ![e] = Unset]
  /\ Goto(e, "done")
  /\ UNCHANGED <<db, navs, snap, manualOnce, req, found, plan, jobVars>>

-----------------------------------------------------------------------------
(* The mutual-fund pass: MFNavs.refreshLocked and Revalue.                 *)

HeldSchemes ==
  UNION {Held(UnitsOf(db[a].holdings)) : a \in {x \in Assets : Alive(x) /\ db[x].type = "mutual_fund"}}

(* DistinctMFSchemeCodes. *)
MFBegin ==
  /\ pc["mf"] = "idle"
  /\ passes["mf"] < MaxPasses["mf"]
  /\ passes' = [passes EXCEPT !["mf"] = @ + 1]
  /\ codes' = HeldSchemes
  /\ Goto("mf", "fetch")
  /\ UNCHANGED <<db, navs, snap, copy, manualOnce, reqVars, listed, rate, touched>>

(* One scheme: fetched and cached, or passed over. *)
MFFetch(s) ==
  /\ pc["mf"] = "fetch"
  /\ s \in codes
  /\ \/ \E n \in Navs : navs' = [navs EXCEPT ![s] = n]
     \/ Faults /\ UNCHANGED navs
  /\ codes' = codes \ {s}
  /\ UNCHANGED <<db, snap, pc, copy, manualOnce, reqVars, listed, rate, touched, passes>>

(* What a pass over the assets of S takes with it. *)
ListOf(S) == [a \in Assets |-> IF a \in S THEN db[a] ELSE Unset]

(* ListMFAssets; Revalue follows the fetches whatever became of them. *)
MFList ==
  /\ pc["mf"] = "fetch"
  /\ codes = {}
  /\ listed' = [listed EXCEPT !["mf"] =
                  ListOf({a \in Assets : Alive(a) /\ db[a].type = "mutual_fund"})]
  /\ Goto("mf", "revalue")
  /\ UNCHANGED <<db, navs, snap, copy, manualOnce, reqVars, codes, rate, touched, passes>>

(* Mutant of MFWrite: sets the value and leaves the stamps.                *)
MFWriteValue(a) ==
  /\ pc["mf"] = "revalue"
  /\ listed["mf"][a] # Unset
  /\ LET units == UnitsOf(listed["mf"][a].holdings)
     IN  /\ Held(units) # {}
         /\ \A s \in Held(units) : navs[s] > 0
         /\ db' = IF Alive(a) THEN [db EXCEPT ![a].value = Total(Stamp(units, navs))] ELSE db
  /\ listed' = [listed EXCEPT !["mf"][a] = Unset]
  /\ touched' = [touched EXCEPT !["mf"] = TRUE]
  /\ UNCHANGED <<navs, snap, pc, copy, manualOnce, reqVars, codes, rate, passes>>

(* SetAssetMFValuation: value and holdings in one $set, by id alone.  The  *)
(* cached NAVs are read right before it.                                   *)
MFWrite(a) ==
  /\ pc["mf"] = "revalue"
  /\ listed["mf"][a] # Unset
  /\ LET units == UnitsOf(listed["mf"][a].holdings)
         h == Stamp(units, navs)
     IN  /\ Held(units) # {}
         /\ \A s \in Held(units) : navs[s] > 0
         /\ db' = IF Alive(a)
                  THEN [db EXCEPT ![a].holdings = h, ![a].value = Total(h)]
                  ELSE db
  /\ listed' = [listed EXCEPT !["mf"][a] = Unset]
  /\ touched' = [touched EXCEPT !["mf"] = TRUE]
  /\ UNCHANGED <<navs, snap, pc, copy, manualOnce, reqVars, codes, rate, passes>>

(* An asset without holdings or with an unpriced scheme keeps its last     *)
(* full valuation; so does one whose write fails.                          *)
MFSkip(a) ==
  /\ pc["mf"] = "revalue"
  /\ listed["mf"][a] # Unset
  /\ LET units == UnitsOf(listed["mf"][a].holdings)
     IN  Faults \/ Held(units) = {} \/ \E s \in Held(units) : navs[s] = 0
  /\ listed' = [listed EXCEPT !["mf"][a] = Unset]
  /\ UNCHANGED <<db, navs, snap, pc, copy, manualOnce, reqVars, codes, rate, touched, passes>>

-----------------------------------------------------------------------------
(* The FX pass over plain foreign assets: FXRevaluer.revalueLocked.        *)

FXBegin ==
  /\ pc["fx"] = "idle"
  /\ passes["fx"] < MaxPasses["fx"]
  /\ passes' = [passes EXCEPT !["fx"] = @ + 1]
  /\ rate' \in Rates
  /\ Goto("fx", "list")
  /\ UNCHANGED <<db, navs, snap, copy, manualOnce, reqVars, codes, listed, touched>>

(* ListForeignAssets: flagged foreign and of no structured type. *)
FXList ==
  /\ pc["fx"] = "list"
  /\ listed' = [listed EXCEPT !["fx"] =
                  ListOf({a \in Assets : Alive(a) /\ db[a].foreign /\ db[a].type = "manual"})]
  /\ Goto("fx", "revalue")
  /\ UNCHANGED <<db, navs, snap, copy, manualOnce, reqVars, codes, rate, touched, passes>>

(* SetAssetCurrentValue: the value alone, by id alone. *)
FXWrite(a) ==
  /\ pc["fx"] = "revalue"
  /\ listed["fx"][a] # Unset
  /\ listed["fx"][a].amount > 0
  /\ db' = IF Alive(a) THEN [db EXCEPT ![a].value = listed["fx"][a].amount * rate] ELSE db
  /\ listed' = [listed EXCEPT !["fx"][a] = Unset]
  /\ touched' = [touched EXCEPT !["fx"] = TRUE]
  /\ UNCHANGED <<navs, snap, pc, copy, manualOnce, reqVars, codes, rate, passes>>

FXSkip(a) ==
  /\ pc["fx"] = "revalue"
  /\ listed["fx"][a] # Unset
  /\ Faults \/ listed["fx"][a].amount = 0
  /\ listed' = [listed EXCEPT !["fx"][a] = Unset]
  /\ UNCHANGED <<db, navs, snap, pc, copy, manualOnce, reqVars, codes, rate, touched, passes>>

-----------------------------------------------------------------------------
(* Snapshots: CreateDailySnapshot reads the assets and then upserts        *)
(* today's row.  It ends every request that wrote and every pass that did. *)

(* A pass ends at once when its assets, or what it needs before them,      *)
(* cannot be listed.                                                       *)
PassFails(p) ==
  /\ Faults
  /\ p \in Revaluers
  /\ pc[p] \in {"fetch", "list"}
  /\ Goto(p, "idle")
  /\ codes' = IF p = "mf" THEN {} ELSE codes
  /\ UNCHANGED <<db, navs, snap, copy, manualOnce, reqVars, listed, rate, touched, passes>>

(* The end of a revaluation pass. *)
PassEnd(p) ==
  /\ pc[p] = "revalue"
  /\ listed[p] = NoAssets
  /\ Goto(p, IF touched[p] THEN "snapRead" ELSE "idle")
  /\ touched' = [touched EXCEPT ![p] = FALSE]
  /\ UNCHANGED <<db, navs, snap, copy, manualOnce, reqVars, codes, listed, rate, passes>>

Values == [a \in Assets |-> IF Alive(a) THEN db[a].value ELSE Unset]

SnapRead(p) ==
  /\ pc[p] = "snapRead"
  /\ copy' = [copy EXCEPT ![p] = Values]
  /\ Goto(p, "snapWrite")
  /\ UNCHANGED <<db, navs, snap, manualOnce, reqVars, jobVars>>

(* SetSnapshot: whatever was read replaces whatever is there. *)
SnapWrite(p) ==
  /\ pc[p] = "snapWrite"
  /\ snap' = copy[p]
  /\ copy' = [copy EXCEPT ![p] = Unset]
  /\ Goto(p, IF p \in Revaluers THEN "idle" ELSE "done")
  /\ UNCHANGED <<db, navs, manualOnce, reqVars, jobVars>>

(* A job's snapshot fails; the error is logged and the job goes on. *)
SnapFails(p) ==
  /\ Faults
  /\ p \in Revaluers
  /\ pc[p] \in {"snapRead", "snapWrite"}
  /\ copy' = [copy EXCEPT ![p] = Unset]
  /\ Goto(p, "idle")
  /\ UNCHANGED <<db, navs, snap, manualOnce, reqVars, jobVars>>

-----------------------------------------------------------------------------
Editing(e) ==
  \/ Find(e)
  \/ \E s \in Schemes : MissNav(e, s) \/ FetchNav(e, s)
  \/ Price(e) \/ PriceFails(e) \/ Compute(e)
  \/ Insert(e) \/ Write(e) \/ Clear(e) \/ Refind(e) \/ Delete(e)

MFPass ==
  \/ \E s \in Schemes : MFFetch(s)
  \/ MFList \/ PassFails("mf")
  \/ \E a \in Assets : MFWrite(a) \/ MFSkip(a)
  \/ PassEnd("mf")

FXPass ==
  \/ FXList \/ PassFails("fx")
  \/ \E a \in Assets : FXWrite(a) \/ FXSkip(a)
  \/ PassEnd("fx")

Snapshot(p) == SnapRead(p) \/ SnapWrite(p)

(* Every request and every pass is over. *)
Resting ==
  /\ \A e \in Editors : pc[e] = "done"
  /\ \A p \in Revaluers : pc[p] = "idle" /\ passes[p] = MaxPasses[p]

Next ==
  \/ \E e \in Editors : Arrive(e) \/ Editing(e) \/ Fail(e)
  \/ MFBegin \/ MFPass
  \/ FXBegin \/ FXPass
  \/ \E p \in Procs : Snapshot(p) \/ SnapFails(p)
  \/ Resting /\ UNCHANGED vars

Spec == Init /\ [][Next]_vars

-----------------------------------------------------------------------------
TypeOK ==
  /\ db \in [Assets -> Doc \cup {Unborn, Gone}]
  /\ navs \in [Schemes -> Navs \cup {0}]
  /\ snap \in Opt([Assets -> Opt(Worth)])
  /\ pc \in [Procs -> {"idle", "find", "price", "compute", "insert", "write", "clear",
                       "refind", "delete", "fetch", "list", "revalue", "snapRead",
                       "snapWrite", "done"}]
  /\ req \in [Editors -> Opt(Requests)]
  /\ found \in [Editors -> Opt(Doc)]
  /\ missed \in [Editors -> SUBSET Schemes]
  /\ plan \in [Editors -> Opt(Update)]
  /\ codes \subseteq Schemes
  /\ listed \in [Revaluers -> [Assets -> Opt(Doc)]]
  /\ rate \in Nat
  /\ touched \in [Revaluers -> BOOLEAN]
  /\ copy \in [Procs -> Opt([Assets -> Opt(Worth)])]
  /\ passes \in [Revaluers -> Nat]
  /\ manualOnce \subseteq Assets

(***************************************************************************)
(* A fund portfolio that never was a manual entry is always fully priced:  *)
(* its value is the sum of its units at the NAVs stamped on them, and no   *)
(* held scheme is unpriced.  Edits, revaluations from stale listings,      *)
(* failed calls and deletions in any order leave it so, because the value  *)
(* and the holdings it was computed from are written by one $set.          *)
(***************************************************************************)
StampConsistent ==
  \A a \in Assets \ manualOnce : Alive(a) => Sound(db[a])

(***************************************************************************)
(* A deleted asset stays deleted, whoever still holds a copy of it: the    *)
(* late writes of a request or a revaluer match nothing.                   *)
(***************************************************************************)
NoResurrection == [][\A a \in Assets : db[a] = Gone => db'[a] = Gone]_vars

(***************************************************************************)
(* assets.go says of SetAssetMFValuation that it updates a value and       *)
(* "holdings (whose last_nav/nav_date the revaluer refreshes)": a pass     *)
(* leaves the units of a live asset as the user last set them.             *)
(***************************************************************************)
RevaluerKeepsUnits ==
  [][\A a \in Assets : MFWrite(a) /\ Alive(a)
       => UnitsOf(db'[a].holdings) = UnitsOf(db[a].holdings)]_vars

(***************************************************************************)
(* Every handler and pass ends by bringing today's snapshot into step      *)
(* (fx_revalue.go: "Keep today's snapshot (which powers the chart) in      *)
(* step"): when all of them are over and none failed, it is.               *)
(***************************************************************************)
SnapshotInStep == Resting => snap = Values
=============================================================================
