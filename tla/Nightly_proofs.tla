--------------------------- MODULE Nightly_proofs ---------------------------
(***************************************************************************)
(* Proofs about the nightly run, for any users, calls, crons, requests and *)
(* number of feed steps.                                                   *)
(***************************************************************************)
EXTENDS Nightly, TLAPS

PCs == {"idle", "step", "list", "users", "find", "set", "write", "refind", "answered"}

(* What the type invariant says, but for the flags of failed steps, which  *)
(* no other invariant needs.                                               *)
DataOK ==
  /\ day \in Days
  /\ assets \in [Users -> 0..MaxAssets]
  /\ value \in [Users -> Days]
  /\ debts \in [Users -> {0} \cup Amounts]
  /\ rows \in [Users -> [Days -> Days \cup {Unset}]]

ProcOK ==
  /\ sched \in {"idle", "running", "green", "red"}
  /\ tries \in 0..Attempts
  /\ pc \in [Procs -> PCs]
  /\ step \in [Runs -> 1..(Steps + 1)]
  /\ gone \subseteq 1..Attempts

SnapOK ==
  /\ left \in [Procs -> SUBSET Users]
  /\ user \in [Procs -> Users \cup {Unset}]
  /\ copy \in [Procs -> Days \cup {Unset}]
  /\ date \in [Procs -> Days \cup {Unset}]

HistOK ==
  /\ listed \subseteq Runs
  /\ owed \in [Runs -> [Kinds -> SUBSET Users]]
  /\ missed \in [Runs -> SUBSET Users]

FailedOK == failed \in [Runs -> BOOLEAN]

LEMMA TypeParts == TypeOK <=> DataOK /\ ProcOK /\ SnapOK /\ HistOK /\ FailedOK
BY DEF TypeOK, DataOK, ProcOK, SnapOK, HistOK, FailedOK, PCs

LEMMA RunsProcs ==
  /\ Runs \subseteq Procs /\ Editors \subseteq Procs /\ 1..Attempts \subseteq Runs /\ Crons \subseteq Runs
  /\ \A j \in Runs : j \notin Editors
BY ProcsAssumption DEF Runs, Procs

LEMMA GotoType ==
  ASSUME pc \in [Procs -> PCs], NEW p \in Procs, NEW l \in PCs, Goto(p, l)
  PROVE  /\ pc' \in [Procs -> PCs] /\ pc'[p] = l
         /\ \A q \in Procs : q # p => pc'[q] = pc[q]
BY DEF Goto

LEMMA HavingType == \A k \in Kinds : Having(k) \in SUBSET Users
BY DEF Having

LEMMA LostType ==
  ASSUME HistOK, NEW k \in Kinds, NEW u, Lost(k, u)
  PROVE  HistOK'
<1>1. /\ owed' = [j \in Runs |-> [owed[j] EXCEPT ![k] = owed[j][k] \ {u}]]
      /\ listed' = listed /\ missed' = missed
  BY DEF Lost
<1>2. ASSUME NEW j \in Runs
      PROVE  [owed[j] EXCEPT ![k] = owed[j][k] \ {u}] \in [Kinds -> SUBSET Users]
  <2>1. owed[j] \in [Kinds -> SUBSET Users]
    BY DEF HistOK
  <2>2. owed[j][k] \ {u} \in SUBSET Users
    BY <2>1
  <2> QED BY <2>1, <2>2
<1>3. owed' \in [Runs -> [Kinds -> SUBSET Users]]
  BY <1>1, <1>2
<1> QED BY <1>1, <1>3 DEF HistOK

LEMMA LostOrNot ==
  ASSUME HistOK, NEW u, (\E k \in Kinds : Lost(k, u)) \/ UNCHANGED histVars
  PROVE  HistOK'
<1>1. CASE UNCHANGED histVars
  BY <1>1 DEF histVars, HistOK
<1> QED BY <1>1, LostType

LEMMA SetAssetsType ==
  ASSUME DataOK, HistOK, NEW u \in Users, NEW n \in 0..MaxAssets, SetAssets(u, n)
  PROVE  assets' \in [Users -> 0..MaxAssets] /\ HistOK'
<1>1. assets' \in [Users -> 0..MaxAssets]
  BY DEF SetAssets, DataOK
<1>2. (\E k \in Kinds : Lost(k, u)) \/ UNCHANGED histVars
  BY DEF SetAssets, Kinds
<1> QED BY <1>1, <1>2, LostOrNot

LEMMA SetDebtsType ==
  ASSUME DataOK, HistOK, NEW u \in Users, NEW a \in {0} \cup Amounts, SetDebts(u, a)
  PROVE  debts' \in [Users -> {0} \cup Amounts] /\ HistOK'
<1>1. debts' \in [Users -> {0} \cup Amounts]
  BY DEF SetDebts, DataOK
<1>2. (\E k \in Kinds : Lost(k, u)) \/ UNCHANGED histVars
  BY DEF SetDebts, Kinds
<1> QED BY <1>1, <1>2, LostOrNot

(* The number of assets a request leaves its author with. *)
LEMMA AssetRequest ==
  ASSUME DataOK, NEW e \in Editors, CreateAsset(e) \/ DeleteAsset(e)
  PROVE  \E n \in 0..MaxAssets : SetAssets(Author[e], n)
<1> USE UsersAssumption, NumbersAssumption
<1>1. assets[Author[e]] \in 0..MaxAssets
  BY DEF DataOK
<1>2. CASE CreateAsset(e)
  <2>1. SetAssets(Author[e], assets[Author[e]] + 1) /\ assets[Author[e]] < MaxAssets
    BY <1>2 DEF CreateAsset
  <2> QED BY <1>1, <2>1
<1>3. CASE DeleteAsset(e)
  <2>1. SetAssets(Author[e], assets[Author[e]] - 1) /\ assets[Author[e]] > 0
    BY <1>3 DEF DeleteAsset
  <2> QED BY <1>1, <2>1
<1> QED BY <1>2, <1>3

-----------------------------------------------------------------------------
(* The data: prices, liabilities, rows. *)
LEMMA StepDataOK == TypeOK /\ [Next]_vars => DataOK'
<1> SUFFICES ASSUME TypeOK, [Next]_vars PROVE DataOK'
  OBVIOUS
<1> USE UsersAssumption, NumbersAssumption DEF dataVars
<1>0. DataOK /\ ProcOK /\ SnapOK /\ HistOK
  BY TypeParts
<1>1. CASE Midnight
  BY <1>0, <1>1 DEF Midnight, DataOK, Days
<1>2. CASE Call \/ HangUp \/ GiveUp \/ Quiet \/ UNCHANGED vars
  BY <1>0, <1>2 DEF Call, HangUp, GiveUp, Quiet, vars, DataOK
<1>3. CASE \E j \in Crons : CronFires(j)
  BY <1>0, <1>3 DEF CronFires, DataOK
<1>4. ASSUME NEW j \in Runs, FeedStep(j) PROVE DataOK'
  <2>1. value' \in [Users -> Days]
    BY <1>0, <1>4 DEF FeedStep, DataOK
  <2> QED BY <1>0, <1>4, <2>1 DEF FeedStep, DataOK
<1>5. ASSUME NEW j \in Runs,
             NextStep(j) \/ ListOwners(j) \/ ListDebtors(j) \/ ListFails(j) \/ Answer(j)
      PROVE  DataOK'
  BY <1>0, <1>5 DEF NextStep, ListOwners, ListDebtors, ListFails, Answer, DataOK
<1>6. ASSUME NEW p \in Procs, Snapping(p) PROVE DataOK'
  <2>1. CASE \E u \in Users : SnapAssets(p, u) \/ SnapMisses(p, u)
    BY <1>0, <2>1 DEF SnapAssets, SnapMisses, DataOK
  <2>2. CASE SnapFind(p) \/ SnapFails(p)
    BY <1>0, <2>2 DEF SnapFind, SnapFails, DataOK
  <2>3. CASE SnapSet(p)
    <3>1. rows' = [rows EXCEPT ![user[p]][date[p]] = copy[p]]
      BY <2>3 DEF SnapSet
    <3>2. copy[p] \in Days \cup {Unset} /\ rows \in [Users -> [Days -> Days \cup {Unset}]]
      BY <1>0 DEF SnapOK, DataOK
    <3>3. rows' \in [Users -> [Days -> Days \cup {Unset}]]
      BY <3>1, <3>2
    <3> QED BY <1>0, <2>3, <3>3 DEF SnapSet, DataOK
  <2> QED BY <1>6, <2>1, <2>2, <2>3 DEF Snapping
<1>7. ASSUME NEW e \in Editors,
             CreateLiability(e) \/ DeleteLiability(e) \/ WriteLiability(e)
      PROVE  DataOK'
  <2>1. PICK a \in {0} \cup Amounts : SetDebts(Author[e], a)
    BY <1>7 DEF CreateLiability, DeleteLiability, WriteLiability
  <2>2. debts' \in [Users -> {0} \cup Amounts]
    BY <1>0, <2>1, SetDebtsType
  <2> QED BY <1>0, <1>7, <2>2 DEF CreateLiability, DeleteLiability, WriteLiability, DataOK
<1>8. ASSUME NEW e \in Editors, FindLiability(e) \/ RefindLiability(e) PROVE DataOK'
  BY <1>0, <1>8 DEF FindLiability, RefindLiability, DataOK
<1>9. ASSUME NEW e \in Editors, CreateAsset(e) \/ DeleteAsset(e) PROVE DataOK'
  <2>1. assets' \in [Users -> 0..MaxAssets]
    BY <1>0, <1>9, AssetRequest, SetAssetsType
  <2>2. PICK d \in Days : value' = [value EXCEPT ![Author[e]] = d]
    <3>1. CASE CreateAsset(e)
      <4>1. PICK d \in 0..day : value' = [value EXCEPT ![Author[e]] = d]
        BY <3>1 DEF CreateAsset
      <4>2. d \in Days
        BY <1>0 DEF DataOK, Days
      <4> QED BY <4>1, <4>2
    <3>2. CASE DeleteAsset(e)
      <4>1. PICK d \in 0..value[Author[e]] : value' = [value EXCEPT ![Author[e]] = d]
        BY <3>2 DEF DeleteAsset
      <4>2. value[Author[e]] \in Days
        BY <1>0 DEF DataOK
      <4>3. d \in Days
        BY <4>2 DEF Days
      <4> QED BY <4>1, <4>3
    <3> QED BY <1>9, <3>1, <3>2
  <2>3. value' \in [Users -> Days]
    BY <1>0, <2>2 DEF DataOK
  <2>4. UNCHANGED <<day, debts, rows>>
    BY <1>9 DEF CreateAsset, DeleteAsset
  <2> QED BY <1>0, <2>1, <2>3, <2>4 DEF DataOK
<1> QED BY <1>1, <1>2, <1>3, <1>4, <1>5, <1>6, <1>7, <1>8, <1>9, RunsProcs DEF Next, Running, Editing

(* The control of runs, calls and requests. *)
LEMMA StepProcOK == TypeOK /\ [Next]_vars => ProcOK'
<1> SUFFICES ASSUME TypeOK, [Next]_vars PROVE ProcOK'
  OBVIOUS
<1> USE NumbersAssumption
<1>0. ProcOK /\ pc \in [Procs -> PCs]
  BY TypeParts DEF ProcOK
<1>1. CASE Call
  <2>1. tries' \in 1..Attempts /\ sched' = "running" /\ Goto(tries', "step")
    BY <1>0, <1>1 DEF Call, ProcOK
  <2>2. tries' \in Procs
    BY <2>1, RunsProcs
  <2>3. pc' \in [Procs -> PCs]
    BY <1>0, <2>1, <2>2, GotoType DEF PCs
  <2> QED BY <1>0, <1>1, <2>1, <2>3 DEF Call, ProcOK
<1>2. CASE HangUp
  <2>1. tries \in 1..Attempts
    BY <1>0, <1>2 DEF HangUp, ProcOK
  <2> QED BY <1>0, <1>2, <2>1 DEF HangUp, ProcOK
<1>3. CASE Midnight \/ GiveUp \/ Quiet \/ UNCHANGED vars
  BY <1>0, <1>3 DEF Midnight, GiveUp, Quiet, vars, ProcOK
<1>4. ASSUME NEW j \in Crons, CronFires(j) PROVE ProcOK'
  <2>1. pc' \in [Procs -> PCs]
    BY <1>0, <1>4, RunsProcs, GotoType DEF CronFires, PCs
  <2>2. step' = [step EXCEPT ![j] = Steps + 1] /\ step \in [Runs -> 1..(Steps + 1)]
    BY <1>0, <1>4 DEF CronFires, ProcOK
  <2>3. step' \in [Runs -> 1..(Steps + 1)]
    <3>1. Steps + 1 \in 1..(Steps + 1)
      OBVIOUS
    <3> QED BY <2>2, <3>1
  <2> QED BY <1>0, <1>4, <2>1, <2>3 DEF CronFires, ProcOK
<1>5. ASSUME NEW j \in Runs, NextStep(j) PROVE ProcOK'
  <2>1. pc' \in [Procs -> PCs]
    BY <1>0, <1>5, RunsProcs, GotoType DEF NextStep, PCs
  <2>2. step' \in [Runs -> 1..(Steps + 1)]
    BY <1>0, <1>5 DEF NextStep, ProcOK
  <2> QED BY <1>0, <1>5, <2>1, <2>2 DEF NextStep, ProcOK
<1>6. ASSUME NEW j \in Runs,
             FeedStep(j) \/ ListOwners(j) \/ ListDebtors(j) \/ ListFails(j) \/ Answer(j)
      PROVE  ProcOK'
  <2>1. PICK l \in PCs : Goto(j, l)
    BY <1>6 DEF FeedStep, ListOwners, ListDebtors, ListFails, Answer, PCs
  <2>2. pc' \in [Procs -> PCs]
    BY <1>0, <2>1, RunsProcs, GotoType
  <2>3. tries' = tries /\ step' = step /\ gone' = gone /\ sched' \in {sched, "green"}
    BY <1>6 DEF FeedStep, ListOwners, ListDebtors, ListFails, Answer
  <2> QED BY <1>0, <2>2, <2>3 DEF ProcOK
<1>7. ASSUME NEW p \in Procs, Snapping(p) PROVE ProcOK'
  <2>1. PICK l \in PCs : Goto(p, l)
    <3>1. CASE \E u \in Users : SnapAssets(p, u) \/ SnapMisses(p, u)
      BY <3>1 DEF SnapAssets, SnapMisses, PCs
    <3>2. CASE SnapFind(p) \/ SnapSet(p) \/ SnapFails(p)
      BY <3>2 DEF SnapFind, SnapSet, SnapFails, SnapDone, PCs
    <3> QED BY <1>7, <3>1, <3>2 DEF Snapping
  <2>2. pc' \in [Procs -> PCs]
    BY <1>0, <2>1, GotoType
  <2>3. UNCHANGED <<sched, tries, step, gone>>
    BY <1>7 DEF Snapping, SnapAssets, SnapMisses, SnapFind, SnapSet, SnapFails
  <2> QED BY <1>0, <2>2, <2>3 DEF ProcOK
<1>8. ASSUME NEW e \in Editors,
             \/ CreateAsset(e) \/ DeleteAsset(e) \/ CreateLiability(e) \/ DeleteLiability(e)
             \/ FindLiability(e) \/ WriteLiability(e) \/ RefindLiability(e)
      PROVE  ProcOK'
  <2>1. PICK l \in PCs : Goto(e, l)
    BY <1>8 DEF CreateAsset, DeleteAsset, CreateLiability, DeleteLiability, FindLiability, WriteLiability,
                RefindLiability, SnapshotOwn, PCs
  <2>2. pc' \in [Procs -> PCs]
    BY <1>0, <2>1, RunsProcs, GotoType
  <2>3. UNCHANGED <<sched, tries, step, gone>>
    BY <1>8 DEF CreateAsset, DeleteAsset, CreateLiability, DeleteLiability, FindLiability,
                WriteLiability, RefindLiability
  <2> QED BY <1>0, <2>2, <2>3 DEF ProcOK
<1> QED BY <1>1, <1>2, <1>3, <1>4, <1>5, <1>6, <1>7, <1>8, RunsProcs DEF Next, Running, Editing

(* What the snapshot routine holds for each process. *)
LEMMA StepSnapOK == TypeOK /\ [Next]_vars => SnapOK'
<1> SUFFICES ASSUME TypeOK, [Next]_vars PROVE SnapOK'
  OBVIOUS
<1> USE UsersAssumption
<1>0. DataOK /\ SnapOK
  BY TypeParts
<1>1. CASE Midnight \/ Call \/ HangUp \/ GiveUp \/ Quiet \/ UNCHANGED vars
  BY <1>0, <1>1 DEF Midnight, Call, HangUp, GiveUp, Quiet, vars, snapVars, SnapOK
<1>2. ASSUME NEW j \in Runs, CronFires(j) \/ NextStep(j) \/ Answer(j) PROVE SnapOK'
  BY <1>0, <1>2 DEF CronFires, NextStep, Answer, snapVars, SnapOK
<1>3. ASSUME NEW j \in Runs,
             FeedStep(j) \/ ListOwners(j) \/ ListDebtors(j) \/ ListFails(j)
      PROVE  SnapOK'
  <2>1. \E us \in SUBSET Users : left' = [left EXCEPT ![j] = us]
    <3>1. left \in [Procs -> SUBSET Users] /\ j \in Procs
      BY <1>0, RunsProcs DEF SnapOK
    <3>2. CASE FeedStep(j)
      BY <3>2, HavingType DEF FeedStep, Kinds
    <3>3. CASE ListOwners(j)
      BY <3>3, HavingType DEF ListOwners, Kinds
    <3>4. CASE ListDebtors(j)
      <4>1. left' = [left EXCEPT ![j] = left[j] \cup Having("debts")]
        BY <3>4 DEF ListDebtors
      <4>2. Having("debts") \in SUBSET Users
        BY HavingType DEF Kinds
      <4> QED BY <3>1, <4>1, <4>2
    <3>5. CASE ListFails(j)
      BY <3>5 DEF ListFails
    <3> QED BY <1>3, <3>2, <3>3, <3>4, <3>5
  <2>2. UNCHANGED <<user, copy, date>>
    BY <1>3 DEF FeedStep, ListOwners, ListDebtors, ListFails
  <2> QED BY <1>0, <2>1, <2>2 DEF SnapOK
<1>4. ASSUME NEW p \in Procs, Snapping(p) PROVE SnapOK'
  <2>1. CASE \E u \in Users : SnapAssets(p, u)
    <3>1. PICK u \in Users : SnapAssets(p, u)
      BY <2>1
    <3>2. value[u] \in Days
      BY <1>0 DEF DataOK
    <3> QED BY <1>0, <3>1, <3>2 DEF SnapAssets, SnapOK
  <2>2. CASE \E u \in Users : SnapMisses(p, u)
    BY <1>0, <2>2 DEF SnapMisses, SnapOK
  <2>3. CASE SnapFind(p)
    BY <1>0, <2>3 DEF SnapFind, SnapOK, DataOK
  <2>4. CASE SnapSet(p) \/ SnapFails(p)
    BY <1>0, <2>4 DEF SnapSet, SnapFails, SnapDone, SnapOK
  <2> QED BY <1>4, <2>1, <2>2, <2>3, <2>4 DEF Snapping
<1>5. ASSUME NEW e \in Editors,
             \/ CreateAsset(e) \/ DeleteAsset(e) \/ CreateLiability(e) \/ DeleteLiability(e)
             \/ FindLiability(e) \/ WriteLiability(e) \/ RefindLiability(e)
      PROVE  SnapOK'
  <2>1. left' = left \/ left' = [left EXCEPT ![e] = {Author[e]}]
    BY <1>5 DEF CreateAsset, DeleteAsset, CreateLiability, DeleteLiability, FindLiability, WriteLiability,
                RefindLiability, SnapshotOwn, snapVars
  <2>2. UNCHANGED <<user, copy, date>>
    BY <1>5 DEF CreateAsset, DeleteAsset, CreateLiability, DeleteLiability, FindLiability, WriteLiability,
                RefindLiability, snapVars
  <2>3. {Author[e]} \in SUBSET Users
    OBVIOUS
  <2> QED BY <1>0, <2>1, <2>2, <2>3 DEF SnapOK
<1> QED BY <1>1, <1>2, <1>3, <1>4, <1>5, RunsProcs DEF Next, Running, Editing

(* Inside the snapshot routine there is a user. *)
UserInv == \A p \in Procs : pc[p] \in {"find", "set"} => user[p] \in Users

LEMMA StepUserInv == TypeOK /\ UserInv /\ [Next]_vars => UserInv'
<1> SUFFICES ASSUME TypeOK, UserInv, [Next]_vars PROVE UserInv'
  OBVIOUS
<1>0. /\ pc \in [Procs -> PCs] /\ user \in [Procs -> Users \cup {Unset}] /\ ProcOK
  BY TypeParts DEF ProcOK, SnapOK
<1>1. CASE UNCHANGED <<pc, user>>
  BY <1>1 DEF UserInv
<1>2. ASSUME NEW p \in Procs, NEW l \in PCs \ {"find", "set"}, Goto(p, l), user' = user
      PROVE  UserInv'
  BY <1>0, <1>2, GotoType DEF UserInv
<1>3. CASE Midnight \/ HangUp \/ GiveUp \/ Quiet \/ UNCHANGED vars
  BY <1>1, <1>3 DEF Midnight, HangUp, GiveUp, Quiet, vars, snapVars
<1>4. CASE Call
  <2>1. tries' \in Procs /\ Goto(tries', "step") /\ user' = user
    BY <1>0, <1>4, RunsProcs, NumbersAssumption DEF Call, ProcOK, snapVars
  <2> QED BY <1>2, <2>1 DEF PCs
<1>5. ASSUME NEW j \in Runs,
             \/ FeedStep(j) \/ NextStep(j) \/ CronFires(j)
             \/ ListOwners(j) \/ ListDebtors(j) \/ ListFails(j) \/ Answer(j)
      PROVE  UserInv'
  <2>1. PICK l \in PCs \ {"find", "set"} : Goto(j, l)
    BY <1>5 DEF FeedStep, NextStep, CronFires, ListOwners, ListDebtors, ListFails, Answer, PCs
  <2>2. user' = user
    BY <1>5 DEF FeedStep, NextStep, CronFires, ListOwners, ListDebtors, ListFails, Answer, snapVars
  <2> QED BY <1>2, <2>1, <2>2, RunsProcs
<1>6. ASSUME NEW e \in Editors,
             \/ CreateAsset(e) \/ DeleteAsset(e) \/ CreateLiability(e) \/ DeleteLiability(e)
             \/ FindLiability(e) \/ WriteLiability(e) \/ RefindLiability(e)
      PROVE  UserInv'
  <2>1. PICK l \in PCs \ {"find", "set"} : Goto(e, l)
    BY <1>6 DEF CreateAsset, DeleteAsset, CreateLiability, DeleteLiability, FindLiability,
                WriteLiability, RefindLiability, SnapshotOwn, PCs
  <2>2. user' = user
    BY <1>6 DEF CreateAsset, DeleteAsset, CreateLiability, DeleteLiability, FindLiability,
                WriteLiability, RefindLiability, snapVars
  <2> QED BY <1>2, <2>1, <2>2, RunsProcs
<1>7. ASSUME NEW p \in Procs, NEW u \in Users, SnapMisses(p, u) PROVE UserInv'
  <2>1. PICK l \in PCs \ {"find", "set"} : Goto(p, l)
    BY <1>7 DEF SnapMisses, PCs
  <2> QED BY <1>2, <1>7, <2>1 DEF SnapMisses
<1>8. ASSUME NEW p \in Procs, NEW u \in Users, SnapAssets(p, u) PROVE UserInv'
  <2>1. /\ \A q \in Procs : q # p => pc'[q] = pc[q] /\ user'[q] = user[q]
        /\ user'[p] = u
    BY <1>0, <1>8 DEF SnapAssets, Goto
  <2> QED BY <2>1 DEF UserInv
<1>9. ASSUME NEW p \in Procs, SnapFind(p) PROVE UserInv'
  <2>1. user' = user /\ pc[p] = "find" /\ \A q \in Procs : q # p => pc'[q] = pc[q]
    BY <1>0, <1>9 DEF SnapFind, Goto
  <2> QED BY <2>1 DEF UserInv
<1>10. ASSUME NEW p \in Procs, SnapSet(p) \/ SnapFails(p) PROVE UserInv'
  <2>1. /\ pc'[p] \notin {"find", "set"}
        /\ \A q \in Procs : q # p => pc'[q] = pc[q] /\ user'[q] = user[q]
    BY <1>0, <1>10 DEF SnapSet, SnapFails, SnapDone, Goto
  <2> QED BY <2>1 DEF UserInv
<1> QED BY <1>3, <1>4, <1>5, <1>6, <1>7, <1>8, <1>9, <1>10, RunsProcs
       DEF Next, Running, Editing, Snapping

(* The history of the runs. *)
LEMMA StepHistOK == TypeOK /\ UserInv /\ [Next]_vars => HistOK'
<1> SUFFICES ASSUME TypeOK, UserInv, [Next]_vars PROVE HistOK'
  OBVIOUS
<1>0. /\ HistOK /\ DataOK /\ ProcOK /\ listed \subseteq Runs
      /\ owed \in [Runs -> [Kinds -> SUBSET Users]] /\ missed \in [Runs -> SUBSET Users]
  BY TypeParts DEF HistOK
<1>1. CASE Midnight \/ HangUp \/ GiveUp \/ Quiet \/ UNCHANGED vars
  BY <1>0, <1>1 DEF Midnight, HangUp, GiveUp, Quiet, vars, histVars, HistOK
<1>2. CASE Call \/ \E j \in Crons : CronFires(j)
  <2>1. PICK j : Started(j)
    BY <1>2 DEF Call, CronFires
  <2>2. [k \in Kinds |-> Having(k)] \in [Kinds -> SUBSET Users]
    BY HavingType
  <2>3. owed' \in [Runs -> [Kinds -> SUBSET Users]]
    BY <1>0, <2>1, <2>2 DEF Started
  <2> QED BY <1>0, <2>1, <2>3 DEF Started, HistOK
<1>3. ASSUME NEW j \in Runs,
             FeedStep(j) \/ NextStep(j) \/ ListOwners(j) \/ ListFails(j) \/ Answer(j)
      PROVE  HistOK'
  BY <1>0, <1>3 DEF FeedStep, NextStep, ListOwners, ListFails, Answer, histVars, HistOK
<1>4. ASSUME NEW j \in Runs, ListDebtors(j) PROVE HistOK'
  BY <1>0, <1>4 DEF ListDebtors, HistOK
<1>5. ASSUME NEW p \in Procs, Snapping(p) PROVE HistOK'
  <2>1. CASE UNCHANGED histVars
    BY <1>0, <2>1 DEF histVars, HistOK
  <2>2. ASSUME NEW u, Wrote(p, u) PROVE HistOK'
    <3>1. CASE Counts(p)
      <4>1. owed[p] \in [Kinds -> SUBSET Users]
        BY <1>0, <3>1 DEF Counts
      <4>2. [k \in Kinds |-> owed[p][k] \ {u}] \in [Kinds -> SUBSET Users]
        BY <4>1
      <4>3. owed' = [owed EXCEPT ![p] = [k \in Kinds |-> owed[p][k] \ {u}]]
        BY <2>2, <3>1 DEF Wrote
      <4>4. owed' \in [Runs -> [Kinds -> SUBSET Users]]
        BY <1>0, <4>2, <4>3
      <4> QED BY <1>0, <2>2, <4>4 DEF Wrote, HistOK
    <3>2. CASE ~Counts(p)
      BY <1>0, <2>2, <3>2 DEF Wrote, HistOK
    <3> QED BY <3>1, <3>2
  <2>3. ASSUME NEW u \in Users, FailedAt(p, u) PROVE HistOK'
    BY <1>0, <2>3 DEF FailedAt, HistOK
  <2>4. ASSUME SnapFails(p) PROVE HistOK'
    <3>1. FailedAt(p, user[p]) /\ user[p] \in Users
      BY <2>4 DEF SnapFails, UserInv
    <3> QED BY <2>3, <3>1
  <2> QED BY <1>5, <2>1, <2>2, <2>3, <2>4 DEF Snapping, SnapAssets, SnapMisses, SnapFind, SnapSet
<1>6. ASSUME NEW e \in Editors,
             CreateLiability(e) \/ DeleteLiability(e) \/ WriteLiability(e)
      PROVE  HistOK'
  <2>1. PICK a \in {0} \cup Amounts : SetDebts(Author[e], a)
    BY <1>6 DEF CreateLiability, DeleteLiability, WriteLiability
  <2> QED BY <1>0, <2>1, SetDebtsType, UsersAssumption
<1>7. ASSUME NEW e \in Editors, FindLiability(e) \/ RefindLiability(e) PROVE HistOK'
  BY <1>0, <1>7 DEF FindLiability, RefindLiability, histVars, HistOK
<1>8. ASSUME NEW e \in Editors, CreateAsset(e) \/ DeleteAsset(e) PROVE HistOK'
  BY <1>0, <1>8, AssetRequest, SetAssetsType, UsersAssumption
<1> QED BY <1>1, <1>2, <1>3, <1>4, <1>5, <1>6, <1>7, <1>8, RunsProcs DEF Next, Running, Editing

(* The flags of failed steps. *)
LEMMA StepFailedOK == TypeOK /\ [Next]_vars => FailedOK'
<1> SUFFICES ASSUME TypeOK, [Next]_vars PROVE FailedOK'
  OBVIOUS
<1>0. failed \in [Runs -> BOOLEAN]
  BY TypeParts DEF FailedOK
<1>1. failed' = failed \/ \E j \in Runs, b \in BOOLEAN : failed' = [failed EXCEPT ![j] = b]
  <2>1. ASSUME NEW j \in Runs, FeedStep(j)
        PROVE  \E b \in BOOLEAN : failed' = [failed EXCEPT ![j] = b]
    <3>1. PICK err \in BOOLEAN : failed' = [failed EXCEPT ![j] = failed[j] \/ err]
      BY <2>1 DEF FeedStep
    <3>2. (failed[j] \/ err) \in BOOLEAN
      OBVIOUS
    <3> QED BY <3>1, <3>2
  <2>2. ASSUME NEW j \in Runs, ListFails(j)
        PROVE  failed' = [failed EXCEPT ![j] = TRUE]
    BY <2>2 DEF ListFails
  <2>3. ASSUME NEW j \in Runs, NextStep(j) \/ ListOwners(j) \/ ListDebtors(j) \/ Answer(j)
        PROVE  failed' = failed
    BY <2>3 DEF NextStep, ListOwners, ListDebtors, Answer
  <2>4. ASSUME NEW p \in Procs, Snapping(p) PROVE failed' = failed
    BY <2>4 DEF Snapping, SnapAssets, SnapMisses, SnapFind, SnapSet, SnapFails
  <2>5. ASSUME NEW e \in Editors,
               \/ CreateAsset(e) \/ DeleteAsset(e) \/ CreateLiability(e) \/ DeleteLiability(e)
               \/ FindLiability(e) \/ WriteLiability(e) \/ RefindLiability(e)
        PROVE  failed' = failed
    BY <2>5 DEF CreateAsset, DeleteAsset, CreateLiability, DeleteLiability, FindLiability,
                WriteLiability, RefindLiability
  <2>6. CASE Midnight \/ Call \/ HangUp \/ GiveUp \/ Quiet \/ UNCHANGED vars
    BY <2>6 DEF Midnight, Call, HangUp, GiveUp, Quiet, vars
  <2>7. CASE \E j \in Crons : CronFires(j)
    BY <2>7 DEF CronFires
  <2> QED BY <2>1, <2>2, <2>3, <2>4, <2>5, <2>6, <2>7, RunsProcs DEF Next, Running, Editing
<1> QED BY <1>0, <1>1 DEF FailedOK

(***************************************************************************)
(* The model is well typed: runs, crons and requests, in any               *)
(* order, keep the data, the rows and the history in their sets.           *)
(***************************************************************************)
THEOREM TypeCorrect == Spec => []TypeOK
<1>1. Init => TypeOK /\ UserInv
  <2> SUFFICES ASSUME Init PROVE TypeOK /\ UserInv
    OBVIOUS
  <2> USE UsersAssumption, NumbersAssumption
  <2>1. DataOK
    BY DEF Init, DataOK, Days
  <2>2. ProcOK
    BY DEF Init, ProcOK, PCs
  <2>3. SnapOK
    BY DEF Init, SnapOK
  <2>4. HistOK /\ FailedOK
    BY DEF Init, HistOK, FailedOK
  <2>5. UserInv
    BY DEF Init, UserInv
  <2> QED BY <2>1, <2>2, <2>3, <2>4, <2>5, TypeParts
<1>2. TypeOK /\ UserInv /\ [Next]_vars => TypeOK'
  <2> SUFFICES ASSUME TypeOK, UserInv, [Next]_vars PROVE TypeOK'
    OBVIOUS
  <2>1. DataOK' /\ ProcOK' /\ SnapOK' /\ HistOK' /\ FailedOK'
    BY StepDataOK, StepProcOK, StepSnapOK, StepHistOK, StepFailedOK
  <2> QED BY <2>1 DEF TypeOK, DataOK, ProcOK, SnapOK, HistOK, FailedOK, PCs
<1> QED BY <1>1, <1>2, StepUserInv, PTL DEF Spec

-----------------------------------------------------------------------------
(***************************************************************************)
(* Rows and days.  A valuation is never of a later day; the copy a process *)
(* holds is of the day at most, and once the date is fixed, of the date at *)
(* most, because the date is taken after the reads.                        *)
(***************************************************************************)
ValueInv == \A u \in Users : value[u] <= day

Held(p) ==
  /\ pc[p] = "find" => user[p] \in Users /\ copy[p] \in Days /\ copy[p] <= day
  /\ pc[p] = "set" => /\ user[p] \in Users /\ copy[p] \in Days /\ date[p] \in Days
                      /\ copy[p] <= date[p]

HeldInv == \A p \in Procs : Held(p)

PastInv == TypeOK /\ ValueInv /\ HeldInv /\ PastIsPast

LEMMA StepValueInv == PastInv /\ [Next]_vars => ValueInv' /\ day' >= day
<1> SUFFICES ASSUME PastInv, [Next]_vars PROVE ValueInv' /\ day' >= day
  OBVIOUS
<1> USE NumbersAssumption DEF Days
<1>0. ValueInv /\ day \in Days /\ value \in [Users -> Days]
  BY DEF PastInv, TypeOK
<1>1. CASE Midnight
  BY <1>0, <1>1 DEF Midnight, ValueInv
<1>2. ASSUME NEW j \in Runs, FeedStep(j) PROVE ValueInv' /\ day' >= day
  <2>1. PICK moved \in SUBSET Having("assets") :
          value' = [u \in Users |-> IF u \in moved THEN day ELSE value[u]]
    BY <1>2 DEF FeedStep
  <2>2. day' = day
    BY <1>2 DEF FeedStep
  <2> QED BY <1>0, <2>1, <2>2 DEF ValueInv
<1>3. CASE UNCHANGED <<day, value>>
  BY <1>0, <1>3 DEF ValueInv
<1>4. ASSUME NEW p \in Procs, Snapping(p) PROVE UNCHANGED <<day, value>>
  BY <1>4 DEF Snapping, SnapAssets, SnapMisses, SnapFind, SnapSet, SnapFails, dataVars
<1>5. ASSUME NEW j \in Runs,
             NextStep(j) \/ ListOwners(j) \/ ListDebtors(j) \/ ListFails(j) \/ Answer(j)
      PROVE  UNCHANGED <<day, value>>
  BY <1>5 DEF NextStep, ListOwners, ListDebtors, ListFails, Answer, dataVars
<1>6. ASSUME NEW e \in Editors,
             \/ CreateLiability(e) \/ DeleteLiability(e)
             \/ FindLiability(e) \/ WriteLiability(e) \/ RefindLiability(e)
      PROVE  UNCHANGED <<day, value>>
  BY <1>6 DEF CreateLiability, DeleteLiability, FindLiability, WriteLiability,
              RefindLiability, dataVars
<1>8. ASSUME NEW e \in Editors, CreateAsset(e) \/ DeleteAsset(e) PROVE ValueInv' /\ day' >= day
  <2>1. Author[e] \in Users /\ value[Author[e]] \in Days /\ value[Author[e]] <= day
    BY <1>0, UsersAssumption DEF ValueInv
  <2>2. PICK d \in 0..day : value' = [value EXCEPT ![Author[e]] = d]
    <3>1. CASE CreateAsset(e)
      BY <3>1 DEF CreateAsset
    <3>2. CASE DeleteAsset(e)
      <4>1. PICK d \in 0..value[Author[e]] : value' = [value EXCEPT ![Author[e]] = d]
        BY <3>2 DEF DeleteAsset
      <4>2. d \in 0..day
        BY <1>0, <2>1
      <4> QED BY <4>1, <4>2
    <3> QED BY <1>8, <3>1, <3>2
  <2>3. day' = day
    BY <1>8 DEF CreateAsset, DeleteAsset
  <2> QED BY <1>0, <2>2, <2>3 DEF ValueInv
<1>7. CASE Call \/ HangUp \/ GiveUp \/ Quiet \/ UNCHANGED vars \/ \E j \in Crons : CronFires(j)
  BY <1>3, <1>7 DEF Call, HangUp, GiveUp, Quiet, CronFires, vars, dataVars
<1> QED BY <1>1, <1>2, <1>3, <1>4, <1>5, <1>6, <1>7, <1>8, RunsProcs DEF Next, Running, Editing

(* A process that goes anywhere but into the snapshot routine, while the   *)
(* others stay where they are, keeps what is held.                         *)
LEMMA GotoHeld ==
  ASSUME PastInv, day' >= day, day' \in Days, UNCHANGED <<user, copy, date>>,
         NEW p \in Procs, NEW l \in PCs \ {"find", "set"}, Goto(p, l)
  PROVE  HeldInv'
<1> USE NumbersAssumption DEF Days
<1>0. HeldInv /\ pc \in [Procs -> PCs] /\ day \in Days
  BY DEF PastInv, TypeOK, PCs
<1>1. pc'[p] = l /\ \A q \in Procs : q # p => pc'[q] = pc[q]
  BY <1>0, GotoType
<1>2. SUFFICES ASSUME NEW q \in Procs PROVE Held(q)'
  BY <1>2 DEF HeldInv
<1>3. CASE q = p
  BY <1>1, <1>3 DEF Held
<1>4. CASE q # p
  BY <1>0, <1>1, <1>4 DEF HeldInv, Held
<1> QED BY <1>3, <1>4

LEMMA StepHeldInv == PastInv /\ [Next]_vars => HeldInv'
<1> SUFFICES ASSUME PastInv, [Next]_vars PROVE HeldInv'
  OBVIOUS
<1> USE NumbersAssumption DEF Days
<1>0. /\ HeldInv /\ ValueInv /\ DataOK /\ ProcOK /\ SnapOK /\ pc \in [Procs -> PCs]
      /\ day \in Days /\ value \in [Users -> Days]
  BY TypeParts DEF PastInv, ProcOK, DataOK
<1>d. day' >= day /\ day' \in Days
  BY StepValueInv, StepDataOK DEF PastInv, DataOK
<1>1. CASE UNCHANGED <<pc, user, copy, date>>
  BY <1>0, <1>1, <1>d DEF HeldInv, Held
<1>2. CASE Midnight \/ HangUp \/ GiveUp \/ Quiet \/ UNCHANGED vars
  BY <1>1, <1>2 DEF Midnight, HangUp, GiveUp, Quiet, vars, snapVars
<1>3. CASE Call
  <2>1. tries' \in Procs /\ Goto(tries', "step") /\ UNCHANGED <<user, copy, date>>
    BY <1>0, <1>3, RunsProcs DEF Call, ProcOK, snapVars
  <2> QED BY <1>d, <2>1, GotoHeld DEF PCs
<1>4. ASSUME NEW j \in Crons, CronFires(j) PROVE HeldInv'
  BY <1>d, <1>4, RunsProcs, GotoHeld DEF CronFires, snapVars, PCs
<1>5. ASSUME NEW j \in Runs,
             \/ FeedStep(j) \/ NextStep(j)
             \/ ListOwners(j) \/ ListDebtors(j) \/ ListFails(j) \/ Answer(j)
      PROVE  HeldInv'
  <2>1. PICK l \in PCs \ {"find", "set"} : Goto(j, l)
    BY <1>5 DEF FeedStep, NextStep, ListOwners, ListDebtors, ListFails, Answer, PCs
  <2>2. UNCHANGED <<user, copy, date>>
    BY <1>5 DEF FeedStep, NextStep, ListOwners, ListDebtors, ListFails, Answer, snapVars
  <2> QED BY <1>d, <2>1, <2>2, RunsProcs, GotoHeld
<1>6. ASSUME NEW e \in Editors,
             \/ CreateAsset(e) \/ DeleteAsset(e) \/ CreateLiability(e) \/ DeleteLiability(e)
             \/ FindLiability(e) \/ WriteLiability(e) \/ RefindLiability(e)
      PROVE  HeldInv'
  <2>1. PICK l \in PCs \ {"find", "set"} : Goto(e, l)
    BY <1>6 DEF CreateAsset, DeleteAsset, CreateLiability, DeleteLiability, FindLiability, WriteLiability,
                RefindLiability, SnapshotOwn, PCs
  <2>2. UNCHANGED <<user, copy, date>>
    BY <1>6 DEF CreateAsset, DeleteAsset, CreateLiability, DeleteLiability, FindLiability, WriteLiability,
                RefindLiability, snapVars
  <2> QED BY <1>d, <2>1, <2>2, RunsProcs, GotoHeld
<1>7. ASSUME NEW p \in Procs, NEW u \in Users, SnapMisses(p, u) PROVE HeldInv'
  <2>1. PICK l \in PCs \ {"find", "set"} : Goto(p, l)
    BY <1>7 DEF SnapMisses, PCs
  <2> QED BY <1>7, <1>d, <2>1, GotoHeld DEF SnapMisses
<1>8. ASSUME NEW p \in Procs, NEW u \in Users, SnapAssets(p, u) PROVE HeldInv'
  <2>1. /\ pc'[p] = "find" /\ \A q \in Procs : q # p => pc'[q] = pc[q]
        /\ user'[p] = u /\ \A q \in Procs : q # p => user'[q] = user[q]
        /\ copy'[p] = value[u] /\ \A q \in Procs : q # p => copy'[q] = copy[q]
        /\ date' = date /\ day' = day
    BY <1>0, <1>8 DEF SnapAssets, Goto, SnapOK, dataVars
  <2> QED BY <1>0, <2>1 DEF HeldInv, Held, ValueInv
<1>9. ASSUME NEW p \in Procs, SnapFind(p) PROVE HeldInv'
  <2>1. /\ pc[p] = "find"
        /\ pc'[p] = "set" /\ \A q \in Procs : q # p => pc'[q] = pc[q]
        /\ date'[p] = day /\ \A q \in Procs : q # p => date'[q] = date[q]
        /\ user' = user /\ copy' = copy /\ day' = day
    BY <1>0, <1>9 DEF SnapFind, Goto, SnapOK, dataVars
  <2> QED BY <1>0, <2>1 DEF HeldInv, Held
<1>10. ASSUME NEW p \in Procs, SnapSet(p) \/ SnapFails(p) PROVE HeldInv'
  <2>1. /\ pc'[p] \notin {"find", "set"} /\ \A q \in Procs : q # p => pc'[q] = pc[q]
        /\ \A q \in Procs : q # p => user'[q] = user[q] /\ copy'[q] = copy[q] /\ date'[q] = date[q]
    BY <1>0, <1>10 DEF SnapSet, SnapFails, SnapDone, Goto, SnapOK
  <2>2. day' = day
    BY <1>10 DEF SnapSet, SnapFails, dataVars
  <2> QED BY <1>0, <2>1, <2>2 DEF HeldInv, Held
<1> QED BY <1>2, <1>3, <1>4, <1>5, <1>6, <1>7, <1>8, <1>9, <1>10, RunsProcs
       DEF Next, Running, Editing, Snapping

LEMMA StepPast == PastInv /\ [Next]_vars => PastIsPast'
<1> SUFFICES ASSUME PastInv, [Next]_vars PROVE PastIsPast'
  OBVIOUS
<1>0. /\ PastIsPast /\ HeldInv /\ rows \in [Users -> [Days -> Days \cup {Unset}]]
  BY DEF PastInv, TypeOK
<1>1. CASE rows' = rows
  BY <1>0, <1>1 DEF PastIsPast
<1>2. ASSUME NEW p \in Procs, SnapSet(p) PROVE PastIsPast'
  <2>1. /\ rows' = [rows EXCEPT ![user[p]][date[p]] = copy[p]]
        /\ user[p] \in Users /\ date[p] \in Days /\ copy[p] <= date[p]
    BY <1>0, <1>2 DEF SnapSet, HeldInv, Held
  <2> SUFFICES ASSUME NEW u \in Users, NEW d \in Days, rows'[u][d] # Unset
               PROVE  rows'[u][d] <= d
    BY DEF PastIsPast
  <2>2. CASE u = user[p] /\ d = date[p]
    <3>1. rows'[u][d] = copy[p]
      BY <1>0, <2>1, <2>2
    <3> QED BY <2>1, <2>2, <3>1
  <2>3. CASE ~(u = user[p] /\ d = date[p])
    <3>1. rows'[u][d] = rows[u][d]
      BY <1>0, <2>1, <2>3
    <3> QED BY <1>0, <3>1 DEF PastIsPast
  <2> QED BY <2>2, <2>3
<1>3. ASSUME NEW p \in Procs,
             \/ \E u \in Users : SnapAssets(p, u) \/ SnapMisses(p, u)
             \/ SnapFind(p) \/ SnapFails(p)
      PROVE  rows' = rows
  BY <1>3 DEF SnapAssets, SnapMisses, SnapFind, SnapFails, dataVars
<1>4. ASSUME NEW j \in Runs,
             \/ FeedStep(j) \/ NextStep(j)
             \/ ListOwners(j) \/ ListDebtors(j) \/ ListFails(j) \/ Answer(j)
      PROVE  rows' = rows
  BY <1>4 DEF FeedStep, NextStep, ListOwners, ListDebtors, ListFails, Answer, dataVars
<1>5. ASSUME NEW e \in Editors,
             \/ CreateAsset(e) \/ DeleteAsset(e) \/ CreateLiability(e) \/ DeleteLiability(e)
             \/ FindLiability(e) \/ WriteLiability(e) \/ RefindLiability(e)
      PROVE  rows' = rows
  BY <1>5 DEF CreateAsset, DeleteAsset, CreateLiability, DeleteLiability, FindLiability, WriteLiability,
              RefindLiability, dataVars
<1>6. CASE Midnight \/ Call \/ HangUp \/ GiveUp \/ Quiet \/ UNCHANGED vars
           \/ \E j \in Crons : CronFires(j)
  BY <1>1, <1>6 DEF Midnight, Call, HangUp, GiveUp, Quiet, CronFires, vars, dataVars
<1> QED BY <1>1, <1>2, <1>3, <1>4, <1>5, <1>6, RunsProcs DEF Next, Running, Editing, Snapping

(***************************************************************************)
(* No row of a day holds a valuation of a later day, whatever midnight     *)
(* falls between.                                                          *)
(***************************************************************************)
THEOREM PastIsPastHolds == Spec => []PastIsPast
<1>1. Init => ValueInv /\ HeldInv /\ PastIsPast
  BY NumbersAssumption DEF Init, ValueInv, HeldInv, Held, PastIsPast
<1>2. TypeOK /\ ValueInv /\ HeldInv /\ PastIsPast /\ [Next]_vars
        => ValueInv' /\ HeldInv' /\ PastIsPast'
  BY StepValueInv, StepHeldInv, StepPast DEF PastInv
<1> QED BY <1>1, <1>2, TypeCorrect, PTL DEF Spec

-----------------------------------------------------------------------------
(***************************************************************************)
(* Nobody is dropped on the way.  What a run still owes of a kind is among *)
(* the users that have data of that kind, so each list, when it is read,   *)
(* holds the users owed for it, whatever was added or removed before; from *)
(* there a user leaves the list only to be written or to be counted as     *)
(* missed.  A run that could not list the users has failed.                *)
(***************************************************************************)
OwedIn(j, us) == \A k \in Kinds : owed[j][k] \subseteq us

OwedInv(j) ==
  /\ \A k \in Kinds : owed[j][k] \subseteq Having(k)
  /\ step[j] <= Steps \/ pc[j] \in {"idle", "step", "list"} => j \notin listed
  /\ pc[j] = "list" => step[j] > Steps /\ owed[j]["assets"] \subseteq left[j]
  /\ pc[j] = "users" /\ step[j] > Steps =>
       IF j \in listed THEN OwedIn(j, left[j] \cup missed[j]) ELSE left[j] = {} /\ failed[j]
  /\ pc[j] \in {"find", "set"} /\ step[j] > Steps =>
       j \in listed /\ OwedIn(j, left[j] \cup missed[j] \cup {user[j]})
  /\ pc[j] = "answered" => IF j \in listed THEN OwedIn(j, missed[j]) ELSE failed[j]

ReachInv == \A j \in Runs : OwedInv(j)

GreenInv == sched = "green" => tries \in (1..Attempts) \cap listed

(* What a step does not touch of a run, it does not break. *)
LEMMA OwedKept ==
  ASSUME NEW j \in Runs, OwedInv(j),
         pc'[j] = pc[j], step'[j] = step[j], left'[j] = left[j], user'[j] = user[j],
         failed'[j] = failed[j], missed'[j] = missed[j], j \in listed' <=> j \in listed,
         \A k \in Kinds : owed'[j][k] \subseteq owed[j][k] /\ owed'[j][k] \subseteq Having(k)'
  PROVE  OwedInv(j)'
<1>1. ASSUME NEW us, OwedIn(j, us) PROVE \A k \in Kinds : owed'[j][k] \subseteq us
  BY <1>1 DEF OwedIn
<1> QED BY <1>1 DEF OwedInv, OwedIn, Kinds

LEMMA OwedUnchanged ==
  ASSUME NEW j \in Runs, OwedInv(j), assets' = assets, debts' = debts,
         pc'[j] = pc[j], step'[j] = step[j], left'[j] = left[j], user'[j] = user[j],
         failed'[j] = failed[j], missed'[j] = missed[j], j \in listed' <=> j \in listed,
         owed'[j] = owed[j]
  PROVE  OwedInv(j)'
<1>1. \A k \in Kinds : owed'[j][k] \subseteq owed[j][k] /\ owed'[j][k] \subseteq Having(k)'
  BY DEF OwedInv, Having
<1> QED BY <1>1, OwedKept

(* A run that begins owes everybody a row. *)
LEMMA OwedStarted ==
  ASSUME TypeOK, NEW j \in Runs, Started(j), pc'[j] = "step", assets' = assets, debts' = debts
  PROVE  OwedInv(j)'
<1>1. owed'[j] = [k \in Kinds |-> Having(k)] /\ j \notin listed'
  BY DEF Started, TypeOK
<1>2. \A k \in Kinds : owed'[j][k] \subseteq Having(k)'
  BY <1>1 DEF Having
<1> QED BY <1>1, <1>2 DEF OwedInv

LEMMA StartedOthers ==
  ASSUME TypeOK, NEW j \in Runs, Started(j), NEW i \in Runs, i # j
  PROVE  owed'[i] = owed[i] /\ missed'[i] = missed[i] /\ (i \in listed' <=> i \in listed)
BY DEF Started, TypeOK

(* A request has no effect on a run but through the data it changes. *)
LEMMA LostOwed ==
  ASSUME TypeOK, NEW j \in Runs, NEW k \in Kinds, NEW u, Lost(k, u)
  PROVE  /\ owed'[j][k] = owed[j][k] \ {u}
         /\ \A m \in Kinds : m # k => owed'[j][m] = owed[j][m]
<1>1. owed'[j] = [owed[j] EXCEPT ![k] = owed[j][k] \ {u}]
  BY DEF Lost
<1>2. owed[j] \in [Kinds -> SUBSET Users]
  BY DEF TypeOK
<1> QED BY <1>1, <1>2

LEMMA SetAssetsOwed ==
  ASSUME TypeOK, ReachInv, NEW u \in Users, NEW n \in 0..MaxAssets, SetAssets(u, n),
         debts' = debts, NEW j \in Runs, NEW k \in Kinds
  PROVE  owed'[j][k] \subseteq owed[j][k] /\ owed'[j][k] \subseteq Having(k)'
<1> USE NumbersAssumption
<1>1. assets'[u] = n /\ \A v \in Users : v # u => assets'[v] = assets[v]
  BY DEF SetAssets, TypeOK
<1>2. owed[j][k] \subseteq Having(k)
  BY DEF ReachInv, OwedInv
<1>3. CASE n = 0
  <2>1. Lost("assets", u) /\ "assets" \in Kinds
    BY <1>3 DEF SetAssets, Kinds
  <2>2. k = "assets" => owed'[j][k] = owed[j][k] \ {u}
    BY <2>1, LostOwed
  <2>3. k # "assets" => owed'[j][k] = owed[j][k]
    BY <2>1, LostOwed
  <2> QED BY <1>1, <1>2, <2>2, <2>3 DEF Having
<1>4. CASE n > 0
  <2>1. owed' = owed
    BY <1>4 DEF SetAssets, histVars
  <2> QED BY <1>1, <1>2, <1>4, <2>1 DEF Having
<1> QED BY <1>3, <1>4

LEMMA SetDebtsOwed ==
  ASSUME TypeOK, ReachInv, NEW u \in Users, NEW a \in {0} \cup Amounts, SetDebts(u, a),
         assets' = assets, NEW j \in Runs, NEW k \in Kinds
  PROVE  owed'[j][k] \subseteq owed[j][k] /\ owed'[j][k] \subseteq Having(k)'
<1> USE NumbersAssumption
<1>1. debts'[u] = a /\ \A v \in Users : v # u => debts'[v] = debts[v]
  BY DEF SetDebts, TypeOK
<1>2. owed[j][k] \subseteq Having(k)
  BY DEF ReachInv, OwedInv
<1>3. CASE a = 0
  <2>1. Lost("debts", u) /\ "debts" \in Kinds
    BY <1>3 DEF SetDebts, Kinds
  <2>2. k = "debts" => owed'[j][k] = owed[j][k] \ {u}
    BY <2>1, LostOwed
  <2>3. k # "debts" => owed'[j][k] = owed[j][k]
    BY <2>1, LostOwed
  <2>4. k # "debts" => k = "assets"
    BY DEF Kinds
  <2> QED BY <1>1, <1>2, <2>2, <2>3, <2>4 DEF Having
<1>4. CASE a > 0
  <2>1. owed' = owed
    BY <1>4 DEF SetDebts, histVars
  <2> QED BY <1>1, <1>2, <1>4, <2>1 DEF Having
<1> QED BY <1>3, <1>4

(* A request leaves the runs where they are. *)
LEMMA EditOthers ==
  ASSUME TypeOK, NEW e \in Editors, NEW i \in Runs,
         \/ CreateAsset(e) \/ DeleteAsset(e) \/ CreateLiability(e) \/ DeleteLiability(e)
         \/ FindLiability(e) \/ WriteLiability(e) \/ RefindLiability(e)
  PROVE  /\ pc'[i] = pc[i] /\ step'[i] = step[i] /\ left'[i] = left[i] /\ user'[i] = user[i]
         /\ failed'[i] = failed[i] /\ missed'[i] = missed[i] /\ listed' = listed
<1>0. i \in Procs /\ e \in Procs /\ i # e
  BY RunsProcs
<1>1. pc'[i] = pc[i]
  BY <1>0 DEF CreateAsset, DeleteAsset, CreateLiability, DeleteLiability, FindLiability,
              WriteLiability, RefindLiability, SnapshotOwn, Goto, TypeOK
<1>2. left'[i] = left[i]
  BY <1>0 DEF CreateAsset, DeleteAsset, CreateLiability, DeleteLiability, FindLiability,
              WriteLiability, RefindLiability, SnapshotOwn, snapVars, TypeOK
<1>3. user' = user /\ step' = step /\ failed' = failed
  BY DEF CreateAsset, DeleteAsset, CreateLiability, DeleteLiability, FindLiability,
         WriteLiability, RefindLiability, snapVars
<1>4. missed' = missed /\ listed' = listed
  BY DEF CreateAsset, DeleteAsset, CreateLiability, DeleteLiability, FindLiability,
         WriteLiability, RefindLiability, SetAssets, SetDebts, Lost, histVars
<1> QED BY <1>1, <1>2, <1>3, <1>4

LEMMA EditReach ==
  ASSUME TypeOK, ReachInv, NEW e \in Editors, NEW i \in Runs,
         \/ CreateAsset(e) \/ DeleteAsset(e) \/ CreateLiability(e) \/ DeleteLiability(e)
         \/ FindLiability(e) \/ WriteLiability(e) \/ RefindLiability(e)
  PROVE  OwedInv(i)'
<1>0. OwedInv(i) /\ DataOK /\ Author[e] \in Users
  BY TypeParts, UsersAssumption DEF ReachInv
<1>1. /\ pc'[i] = pc[i] /\ step'[i] = step[i] /\ left'[i] = left[i] /\ user'[i] = user[i]
      /\ failed'[i] = failed[i] /\ missed'[i] = missed[i] /\ listed' = listed
  BY EditOthers
<1>2. \A k \in Kinds : owed'[i][k] \subseteq owed[i][k] /\ owed'[i][k] \subseteq Having(k)'
  <2>1. CASE FindLiability(e) \/ RefindLiability(e)
    <3>1. assets' = assets /\ debts' = debts /\ owed' = owed
      BY <2>1 DEF FindLiability, RefindLiability, dataVars, histVars
    <3> QED BY <1>0, <3>1 DEF OwedInv, Having
  <2>2. CASE CreateLiability(e) \/ DeleteLiability(e) \/ WriteLiability(e)
    <3>1. PICK a \in {0} \cup Amounts : SetDebts(Author[e], a)
      BY <2>2 DEF CreateLiability, DeleteLiability, WriteLiability
    <3>2. assets' = assets
      BY <2>2 DEF CreateLiability, DeleteLiability, WriteLiability
    <3> QED BY <1>0, <3>1, <3>2, SetDebtsOwed
  <2>3. CASE CreateAsset(e) \/ DeleteAsset(e)
    <3>1. PICK n \in 0..MaxAssets : SetAssets(Author[e], n)
      BY <1>0, <2>3, AssetRequest
    <3>2. debts' = debts
      BY <2>3 DEF CreateAsset, DeleteAsset
    <3> QED BY <1>0, <3>1, <3>2, SetAssetsOwed
  <2> QED BY <2>1, <2>2, <2>3
<1> QED BY <1>0, <1>1, <1>2, OwedKept

(* A run's own step through the chain. *)
LEMMA ChainReach ==
  ASSUME TypeOK, ReachInv, NEW j \in Runs,
         FeedStep(j) \/ NextStep(j) \/ ListOwners(j) \/ ListDebtors(j) \/ ListFails(j) \/ Answer(j)
  PROVE  OwedInv(j)'
<1> USE NumbersAssumption
<1>0. /\ ProcOK /\ SnapOK /\ HistOK /\ OwedInv(j) /\ j \in Procs /\ pc \in [Procs -> PCs]
      /\ step \in [Runs -> 1..(Steps + 1)] /\ failed \in [Runs -> BOOLEAN]
      /\ left \in [Procs -> SUBSET Users] /\ step[j] \in Int /\ Steps \in Int
  BY TypeParts, RunsProcs DEF ReachInv, ProcOK, SnapOK, FailedOK
<1>1. /\ assets' = assets /\ debts' = debts /\ owed' = owed /\ missed' = missed
      /\ \A k \in Kinds : owed'[j][k] \subseteq Having(k)'
  <2>1. assets' = assets /\ debts' = debts /\ owed' = owed /\ missed' = missed
    BY DEF FeedStep, NextStep, ListOwners, ListDebtors, ListFails, Answer, dataVars, histVars
  <2> QED BY <1>0, <2>1 DEF OwedInv, Having
<1>2. CASE FeedStep(j)
  <2>1. pc'[j] = "users" /\ step[j] <= Steps /\ step' = step /\ listed' = listed
    BY <1>0, <1>2 DEF FeedStep, Goto, histVars
  <2> QED BY <1>0, <1>1, <2>1 DEF OwedInv
<1>3. CASE NextStep(j)
  <2>1. pc'[j] = "step" /\ step[j] <= Steps /\ listed' = listed
    BY <1>0, <1>3 DEF NextStep, Goto, histVars
  <2> QED BY <1>0, <1>1, <2>1 DEF OwedInv
<1>4. CASE ListOwners(j)
  <2>1. /\ pc[j] = "step" /\ pc'[j] = "list" /\ step[j] > Steps /\ step' = step
        /\ left'[j] = Having("assets") /\ listed' = listed
    BY <1>0, <1>4 DEF ListOwners, Goto, histVars
  <2>2. owed'[j]["assets"] \subseteq left'[j]
    BY <1>0, <1>1, <2>1 DEF OwedInv, Kinds
  <2> QED BY <1>0, <1>1, <2>1, <2>2 DEF OwedInv
<1>5. CASE ListDebtors(j)
  <2>1. /\ pc[j] = "list" /\ pc'[j] = "users" /\ step' = step
        /\ left'[j] = left[j] \cup Having("debts") /\ j \in listed'
    BY <1>0, <1>5 DEF ListDebtors, Goto
  <2>2. \A k \in Kinds : owed'[j][k] \subseteq left'[j] \cup missed'[j]
    BY <1>0, <1>1, <2>1 DEF OwedInv, Kinds
  <2>3. step[j] > Steps
    BY <1>0, <2>1 DEF OwedInv
  <2> QED BY <1>0, <1>1, <2>1, <2>2, <2>3 DEF OwedInv, OwedIn
<1>6. CASE ListFails(j)
  <2>1. /\ pc[j] \in {"list", "step"} /\ pc'[j] = "users" /\ step' = step
        /\ left'[j] = {} /\ failed'[j] /\ listed' = listed
    BY <1>0, <1>6 DEF ListFails, Goto, histVars
  <2> QED BY <1>0, <1>1, <2>1 DEF OwedInv
<1>7. CASE Answer(j)
  <2>1. /\ pc[j] = "users" /\ step[j] > Steps /\ left[j] = {} /\ pc'[j] = "answered"
        /\ step' = step /\ listed' = listed /\ failed' = failed
    BY <1>0, <1>7 DEF Answer, Goto, histVars
  <2>2. j \in listed => OwedIn(j, missed[j])
    BY <1>0, <2>1 DEF OwedInv, OwedIn
  <2>3. j \in listed => OwedIn(j, missed[j])'
    BY <1>1, <2>2 DEF OwedIn
  <2>4. j \notin listed => failed'[j]
    BY <1>0, <2>1 DEF OwedInv
  <2> QED BY <1>0, <1>1, <2>1, <2>3, <2>4 DEF OwedInv
<1> QED BY <1>2, <1>3, <1>4, <1>5, <1>6, <1>7

(* ... which leaves the other runs alone. *)
LEMMA ChainOthers ==
  ASSUME TypeOK, ReachInv, NEW j \in Runs, NEW i \in Runs, i # j,
         FeedStep(j) \/ NextStep(j) \/ ListOwners(j) \/ ListDebtors(j) \/ ListFails(j) \/ Answer(j)
  PROVE  OwedInv(i)'
<1>0. /\ OwedInv(i) /\ i \in Procs /\ j \in Procs /\ pc \in [Procs -> PCs]
      /\ left \in [Procs -> SUBSET Users] /\ step \in [Runs -> 1..(Steps + 1)]
      /\ failed \in [Runs -> BOOLEAN]
  BY TypeParts, RunsProcs DEF ReachInv, ProcOK, SnapOK, FailedOK
<1>1. PICK l : Goto(j, l)
  BY DEF FeedStep, NextStep, ListOwners, ListDebtors, ListFails, Answer
<1>2. pc'[i] = pc[i]
  BY <1>0, <1>1 DEF Goto
<1>3. assets' = assets /\ debts' = debts /\ user' = user /\ owed' = owed /\ missed' = missed
  BY DEF FeedStep, NextStep, ListOwners, ListDebtors, ListFails, Answer, dataVars, snapVars, histVars
<1>4. step'[i] = step[i]
  BY <1>0 DEF FeedStep, NextStep, ListOwners, ListDebtors, ListFails, Answer
<1>5. left'[i] = left[i]
  BY <1>0 DEF FeedStep, NextStep, ListOwners, ListDebtors, ListFails, Answer, snapVars
<1>6. failed'[i] = failed[i]
  BY <1>0 DEF FeedStep, NextStep, ListOwners, ListDebtors, ListFails, Answer
<1>7. i \in listed' <=> i \in listed
  BY DEF FeedStep, NextStep, ListOwners, ListDebtors, ListFails, Answer, histVars
<1> QED BY <1>0, <1>2, <1>3, <1>4, <1>5, <1>6, <1>7, OwedUnchanged

(* A step of the snapshot routine. *)
LEMMA SnapFrame ==
  ASSUME TypeOK, NEW p \in Procs, Snapping(p)
  PROVE  /\ assets' = assets /\ debts' = debts /\ step' = step /\ failed' = failed
         /\ listed' = listed
         /\ \A k \in Kinds : Having(k)' = Having(k)
<1>1. assets' = assets /\ debts' = debts /\ step' = step /\ failed' = failed /\ listed' = listed
  BY DEF Snapping, SnapAssets, SnapMisses, SnapFind, SnapSet, SnapFails, Wrote, FailedAt,
         dataVars, histVars
<1> QED BY <1>1 DEF Having

LEMMA SnapOthers ==
  ASSUME TypeOK, ReachInv, NEW p \in Procs, Snapping(p), NEW i \in Runs, i # p
  PROVE  OwedInv(i)'
<1>0. /\ OwedInv(i) /\ i \in Procs /\ pc \in [Procs -> PCs] /\ SnapOK /\ HistOK
      /\ owed \in [Runs -> [Kinds -> SUBSET Users]] /\ missed \in [Runs -> SUBSET Users]
  BY TypeParts, RunsProcs DEF ReachInv, ProcOK, HistOK
<1>1. pc'[i] = pc[i]
  BY <1>0 DEF Snapping, SnapAssets, SnapMisses, SnapFind, SnapSet, SnapFails, SnapDone, Goto
<1>2. left'[i] = left[i] /\ user'[i] = user[i]
  BY <1>0 DEF Snapping, SnapAssets, SnapMisses, SnapFind, SnapSet, SnapFails, SnapDone, SnapOK
<1>3. owed'[i] = owed[i] /\ missed'[i] = missed[i]
  BY <1>0 DEF Snapping, SnapAssets, SnapMisses, SnapFind, SnapSet, SnapFails, Wrote, FailedAt, histVars
<1> QED BY <1>0, <1>1, <1>2, <1>3, SnapFrame, OwedUnchanged

LEMMA WroteOwed ==
  ASSUME TypeOK, NEW j \in Runs, NEW u, Wrote(j, u)
  PROVE  /\ missed' = missed
         /\ \A k \in Kinds : owed'[j][k] = IF step[j] > Steps THEN owed[j][k] \ {u} ELSE owed[j][k]
<1>1. step[j] > Steps => owed'[j] = [k \in Kinds |-> owed[j][k] \ {u}]
  BY DEF Wrote, Counts, TypeOK
<1>2. ~(step[j] > Steps) => owed' = owed
  BY DEF Wrote, Counts
<1> QED BY <1>1, <1>2 DEF Wrote

LEMMA FailedAtMissed ==
  ASSUME TypeOK, NEW j \in Runs, NEW u, FailedAt(j, u)
  PROVE  /\ owed' = owed
         /\ missed'[j] = IF step[j] > Steps THEN missed[j] \cup {u} ELSE missed[j]
BY DEF FailedAt, Counts, TypeOK

LEMMA SnapReach ==
  ASSUME TypeOK, ReachInv, NEW j \in Runs, Snapping(j)
  PROVE  OwedInv(j)'
<1> USE NumbersAssumption
<1>0. /\ OwedInv(j) /\ j \in Procs /\ j \notin Editors /\ pc \in [Procs -> PCs]
      /\ left \in [Procs -> SUBSET Users] /\ user \in [Procs -> Users \cup {Unset}]
      /\ step[j] \in Int /\ Steps \in Int
  BY TypeParts, RunsProcs DEF ReachInv, ProcOK, SnapOK
<1>1. /\ step' = step /\ failed' = failed /\ listed' = listed
      /\ \A k \in Kinds : Having(k)' = Having(k)
  BY <1>0, SnapFrame
<1>2. ASSUME NEW u \in Users, SnapAssets(j, u) PROVE OwedInv(j)'
  <2>1. /\ pc[j] = "users" /\ u \in left[j] /\ pc'[j] = "find"
        /\ left'[j] = left[j] \ {u} /\ user'[j] = u
        /\ owed' = owed /\ missed' = missed
    BY <1>0, <1>2 DEF SnapAssets, Goto, histVars
  <2>2. step[j] > Steps => j \in listed /\ OwedIn(j, left'[j] \cup missed[j] \cup {u})
    BY <1>0, <2>1 DEF OwedInv, OwedIn
  <2> QED BY <1>0, <1>1, <2>1, <2>2 DEF OwedInv, OwedIn
<1>3. ASSUME NEW u \in Users, SnapMisses(j, u) PROVE OwedInv(j)'
  <2>1. /\ pc[j] = "users" /\ u \in left[j] /\ pc'[j] = "users" /\ left'[j] = left[j] \ {u}
        /\ FailedAt(j, u)
    BY <1>0, <1>3 DEF SnapMisses, Goto
  <2>2. owed' = owed /\ (step[j] > Steps => missed'[j] = missed[j] \cup {u})
    BY <2>1, FailedAtMissed
  <2>3. step[j] > Steps => j \in listed /\ OwedIn(j, left'[j] \cup missed'[j])
    BY <1>0, <2>1, <2>2 DEF OwedInv, OwedIn
  <2> QED BY <1>0, <1>1, <2>1, <2>2, <2>3 DEF OwedInv, OwedIn
<1>4. CASE SnapFind(j)
  <2>1. /\ pc[j] = "find" /\ pc'[j] = "set" /\ left' = left /\ user' = user
        /\ owed' = owed /\ missed' = missed
    BY <1>0, <1>4 DEF SnapFind, Goto, histVars
  <2> QED BY <1>0, <1>1, <2>1 DEF OwedInv, OwedIn
<1>5. CASE SnapSet(j)
  <2>1. /\ pc[j] \in {"find", "set"} /\ pc'[j] = "users" /\ left' = left /\ Wrote(j, user[j])
    BY <1>0, <1>5 DEF SnapSet, SnapDone, Goto
  <2>2. /\ missed' = missed
        /\ \A k \in Kinds :
             owed'[j][k] = IF step[j] > Steps THEN owed[j][k] \ {user[j]} ELSE owed[j][k]
    BY <2>1, WroteOwed
  <2>3. step[j] > Steps => j \in listed /\ \A k \in Kinds : owed'[j][k] \subseteq left'[j] \cup missed'[j]
    BY <1>0, <2>1, <2>2 DEF OwedInv, OwedIn
  <2>4. ASSUME NEW k \in Kinds PROVE owed'[j][k] \subseteq Having(k)'
    <3>1. owed'[j][k] \subseteq owed[j][k]
      BY <2>2
    <3>2. owed[j][k] \subseteq Having(k)
      BY <1>0 DEF OwedInv
    <3>3. Having(k)' = Having(k)
      BY <1>1
    <3> QED BY <3>1, <3>2, <3>3
  <2> QED BY <1>0, <1>1, <2>1, <2>3, <2>4 DEF OwedInv, OwedIn
<1>6. CASE SnapFails(j)
  <2>1. /\ pc[j] \in {"find", "set"} /\ pc'[j] = "users" /\ left' = left /\ FailedAt(j, user[j])
    BY <1>0, <1>6 DEF SnapFails, SnapDone, Goto
  <2>2. owed' = owed /\ (step[j] > Steps => missed'[j] = missed[j] \cup {user[j]})
    BY <2>1, FailedAtMissed
  <2>3. step[j] > Steps => j \in listed /\ OwedIn(j, left'[j] \cup missed'[j])
    BY <1>0, <2>1, <2>2 DEF OwedInv, OwedIn
  <2> QED BY <1>0, <1>1, <2>1, <2>2, <2>3 DEF OwedInv, OwedIn
<1> QED BY <1>2, <1>3, <1>4, <1>5, <1>6 DEF Snapping

LEMMA StepReach == TypeOK /\ ReachInv /\ [Next]_vars => ReachInv'
<1> SUFFICES ASSUME TypeOK, ReachInv, [Next]_vars, NEW i \in Runs PROVE OwedInv(i)'
  BY DEF ReachInv
<1>0. OwedInv(i) /\ ProcOK /\ pc \in [Procs -> PCs] /\ step \in [Runs -> 1..(Steps + 1)]
  BY TypeParts DEF ReachInv, ProcOK
<1>1. CASE Midnight \/ HangUp \/ GiveUp \/ Quiet \/ UNCHANGED vars
  BY <1>0, <1>1, OwedUnchanged DEF Midnight, HangUp, GiveUp, Quiet, vars, snapVars, histVars, dataVars
<1>2. CASE Call
  <2>1. /\ tries' \in Runs /\ Goto(tries', "step") /\ Started(tries')
        /\ assets' = assets /\ debts' = debts /\ step' = step /\ left' = left /\ user' = user
        /\ failed' = failed
    BY <1>0, <1>2, RunsProcs, NumbersAssumption DEF Call, ProcOK, dataVars, snapVars
  <2>2. pc'[tries'] = "step" /\ \A q \in Procs : q # tries' => pc'[q] = pc[q]
    BY <1>0, <2>1, RunsProcs DEF Goto
  <2>3. CASE i = tries'
    BY <2>1, <2>2, <2>3, OwedStarted
  <2>4. CASE i # tries'
    <3>1. owed'[i] = owed[i] /\ missed'[i] = missed[i] /\ (i \in listed' <=> i \in listed)
      BY <2>1, <2>4, StartedOthers
    <3> QED BY <1>0, <2>1, <2>2, <2>4, <3>1, RunsProcs, OwedUnchanged
  <2> QED BY <2>3, <2>4
<1>3. ASSUME NEW j \in Crons, CronFires(j) PROVE OwedInv(i)'
  <2>1. /\ j \in Runs /\ Goto(j, "step") /\ Started(j)
        /\ assets' = assets /\ debts' = debts /\ left' = left /\ user' = user
        /\ failed' = failed /\ step' = [step EXCEPT ![j] = Steps + 1]
    BY <1>3, RunsProcs DEF CronFires, dataVars, snapVars
  <2>2. pc'[j] = "step" /\ \A q \in Procs : q # j => pc'[q] = pc[q]
    BY <1>0, <2>1, RunsProcs DEF Goto
  <2>3. CASE i = j
    BY <2>1, <2>2, <2>3, OwedStarted
  <2>4. CASE i # j
    <3>1. owed'[i] = owed[i] /\ missed'[i] = missed[i] /\ (i \in listed' <=> i \in listed)
      BY <2>1, <2>4, StartedOthers
    <3>2. step'[i] = step[i]
      BY <1>0, <2>1, <2>4
    <3> QED BY <1>0, <2>1, <2>2, <2>4, <3>1, <3>2, RunsProcs, OwedUnchanged
  <2> QED BY <2>3, <2>4
<1>4. ASSUME NEW j \in Runs, Running(j) PROVE OwedInv(i)'
  <2>1. CASE Snapping(j)
    BY <2>1, SnapReach, SnapOthers, RunsProcs
  <2>2. CASE ~Snapping(j)
    BY <1>4, <2>2, ChainReach, ChainOthers DEF Running
  <2> QED BY <2>1, <2>2
<1>5. ASSUME NEW e \in Editors, Editing(e) PROVE OwedInv(i)'
  <2>1. CASE Snapping(e)
    BY <2>1, SnapOthers, RunsProcs
  <2>2. CASE ~Snapping(e)
    BY <1>5, <2>2, EditReach DEF Editing
  <2> QED BY <2>1, <2>2
<1> QED BY <1>1, <1>2, <1>3, <1>4, <1>5 DEF Next

(* Nothing but an answer of a run that has not failed turns the night      *)
(* green, and no other run begins after that.                              *)
LEMMA StepGreen == TypeOK /\ ReachInv /\ GreenInv /\ [Next]_vars => GreenInv'
<1> SUFFICES ASSUME TypeOK, ReachInv, GreenInv, [Next]_vars, sched' = "green"
             PROVE  tries' \in (1..Attempts) \cap listed'
  BY DEF GreenInv
<1> USE NumbersAssumption
<1>0. tries \in 0..Attempts /\ listed \subseteq Runs /\ (sched = "green" => tries \in (1..Attempts) \cap listed)
  BY DEF GreenInv, TypeOK
<1>1. CASE Midnight \/ HangUp \/ Quiet \/ UNCHANGED vars
  BY <1>0, <1>1 DEF Midnight, HangUp, Quiet, vars, histVars
<1>2. CASE Call \/ GiveUp
  BY <1>2 DEF Call, GiveUp
<1>3. ASSUME NEW j \in Crons, CronFires(j) PROVE tries' \in (1..Attempts) \cap listed'
  BY <1>0, <1>3, ProcsAssumption DEF CronFires, Started
<1>4. ASSUME NEW p \in Procs, Snapping(p) PROVE tries' \in (1..Attempts) \cap listed'
  <2>1. tries' = tries /\ sched' = sched /\ listed' = listed
    BY <1>4 DEF Snapping, SnapAssets, SnapMisses, SnapFind, SnapSet, SnapFails, Wrote, FailedAt, histVars
  <2> QED BY <1>0, <2>1
<1>5. ASSUME NEW j \in Runs, Answer(j) PROVE tries' \in (1..Attempts) \cap listed'
  <2>1. tries' = tries /\ listed' = listed /\ pc[j] = "users" /\ step[j] > Steps
    BY <1>5 DEF Answer, histVars
  <2>2. CASE j = tries /\ ~failed[j]
    <3>1. j \in listed
      BY <2>1, <2>2 DEF ReachInv, OwedInv
    <3>2. j \in 1..Attempts
      BY <1>0, <2>2, ProcsAssumption DEF Runs
    <3> QED BY <2>1, <2>2, <3>1, <3>2
  <2>3. CASE sched' = sched
    BY <1>0, <2>1, <2>3
  <2> QED BY <1>5, <2>2, <2>3 DEF Answer
<1>6. ASSUME NEW j \in Runs,
             FeedStep(j) \/ NextStep(j) \/ ListOwners(j) \/ ListDebtors(j) \/ ListFails(j)
      PROVE  tries' \in (1..Attempts) \cap listed'
  BY <1>0, <1>6 DEF FeedStep, NextStep, ListOwners, ListDebtors, ListFails, histVars
<1>7. ASSUME NEW e \in Editors,
             \/ CreateAsset(e) \/ DeleteAsset(e) \/ CreateLiability(e) \/ DeleteLiability(e)
             \/ FindLiability(e) \/ WriteLiability(e) \/ RefindLiability(e)
      PROVE  tries' \in (1..Attempts) \cap listed'
  <2>1. tries' = tries /\ sched' = sched /\ listed' = listed
    BY <1>7 DEF CreateAsset, DeleteAsset, CreateLiability, DeleteLiability, FindLiability,
                WriteLiability, RefindLiability, SetAssets, SetDebts, Lost, histVars
  <2> QED BY <1>0, <2>1
<1> QED BY <1>1, <1>2, <1>3, <1>4, <1>5, <1>6, <1>7, RunsProcs DEF Next, Running, Editing

(***************************************************************************)
(* A run that gets to its end has dealt with everyone who had assets, or   *)
(* liabilities, all along, whatever failed, hung up or was added and       *)
(* removed meanwhile, unless it could not list them: then it has failed,   *)
(* and the night is not green.                                             *)
(***************************************************************************)
THEOREM EveryUserReachedHolds == Spec => []EveryUserReached
<1>1. Init => ReachInv /\ GreenInv
  <2> SUFFICES ASSUME Init PROVE ReachInv /\ GreenInv
    OBVIOUS
  <2>1. GreenInv
    BY DEF Init, GreenInv
  <2>2. ASSUME NEW j \in Runs PROVE OwedInv(j)
    <3>1. pc[j] = "idle" /\ j \notin listed /\ \A k \in Kinds : owed[j][k] = {}
      BY RunsProcs DEF Init
    <3> QED BY <3>1 DEF OwedInv
  <2> QED BY <2>1, <2>2 DEF ReachInv
<1>2. TypeOK /\ ReachInv /\ GreenInv /\ [Next]_vars => ReachInv' /\ GreenInv'
  BY StepReach, StepGreen
<1>3. ReachInv /\ GreenInv => EveryUserReached
  BY DEF ReachInv, OwedInv, OwedIn, GreenInv, EveryUserReached
<1> QED BY <1>1, <1>2, <1>3, TypeCorrect, PTL DEF Spec
=============================================================================
