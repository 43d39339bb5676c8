------------------------------ MODULE Nightly ------------------------------
(***************************************************************************)
(* The nightly run and the daily snapshots.  The scheduler's curl calls    *)
(* POST /api/internal/daily and calls again when that fails; every call    *)
(* runs the chain of RunDailyJobs: the feed steps, each of which revalues  *)
(* portfolios and refreshes the snapshots of their owners, and then a      *)
(* snapshot for every user.  The midnight cron and the requests that add   *)
(* and remove assets and liabilities write snapshots at the same time.     *)
(*                                                                         *)
(* The assets of a user are reduced to their number and to the day of the  *)
(* newest prices they are valued at, which is all there is of a snapshot   *)
(* row too (module Portfolio has the rest); the liabilities to one amount, *)
(* which says whether a user has any.                                      *)
(***************************************************************************)
EXTENDS Integers, FiniteSets, Sequences

CONSTANTS Users,      \* users
          Attempts,   \* calls curl makes: one and its retries
          Crons,      \* firings of the midnight cron
          Editors,    \* requests that add or remove assets or liabilities
          Author,     \* Author[e]: the user who makes request e
          Steps,      \* number of feed steps in the chain; 6 in the code
          Amounts,    \* amounts a liability may have
          InitialAssets, \* the numbers of assets there may be at the start
          InitialDebts,  \* the liabilities there may be at the start
          MaxAssets,  \* bound on the assets of a user
          MaxDay,     \* bound on the days
          MaxEvents,  \* bound on what happens to a night from outside
          FeedFaults, \* whether a feed step may fail
          ListFaults, \* whether listing the users may fail
          RowFaults,  \* whether the snapshot of a user may fail
          Hangs,      \* whether a call may outlast the client's patience
          Unset       \* no row, no copy

Runs == (1..Attempts) \cup Crons
Procs == Runs \cup Editors

ASSUME UsersAssumption == Author \in [Editors -> Users]
ASSUME ProcsAssumption ==
  Crons \cap (0..Attempts) = {} /\ Editors \cap Runs = {}
ASSUME NumbersAssumption ==
  /\ Attempts \in Nat \ {0} /\ Steps \in Nat
  /\ {MaxDay, MaxEvents, MaxAssets} \subseteq Nat
  /\ Amounts \subseteq Nat \ {0}
  /\ InitialAssets \subseteq [Users -> 0..MaxAssets]
  /\ InitialDebts \subseteq [Users -> {0} \cup Amounts]
ASSUME FaultsAssumption == {FeedFaults, ListFaults, RowFaults, Hangs} \subseteq BOOLEAN

Days == 0..MaxDay

ASSUME UnsetAssumption == Unset \notin Users /\ Unset \notin Days

VARIABLES day,     \* the snapshot day, as snapshotDate labels it
          assets,  \* assets[u]: how many assets u has
          value,   \* value[u]: the day of the newest prices in u's assets
          debts,   \* debts[u]: u's liability, 0 if there is none
          rows,    \* rows[u][d]: the day of the prices in u's snapshot for day d
          sched,   \* what the scheduler shows: "idle", "running", "green", "red"
          tries,   \* the calls made so far
          pc,      \* where each process is
          step,    \* step[j]: the step of the chain run j is at
          failed,  \* failed[j]: some step of run j has failed
          gone,    \* the calls whose client has hung up
          left,    \* left[p]: users p still has to write a snapshot for
          user,    \* user[p]: the user p is writing one for
          copy,    \* copy[p]: the day of the prices p has read for it
          date,    \* date[p]: the day p takes it to be
          listed,  \* history: the runs that have listed the users
          owed,    \* history: owed[j][k], the users with data of kind k ever since
                   \* run j began whose snapshot its last step has not written
          missed   \* history: missed[j], the users whose snapshot it failed at

dataVars == <<day, assets, value, debts, rows>>
snapVars == <<left, user, copy, date>>
histVars == <<listed, owed, missed>>
vars == <<dataVars, snapVars, histVars, sched, tries, pc, step, failed, gone>>

(* The two lists of users: DistinctAssetUserIDs, DistinctLiabilityUserIDs. *)
Kinds == {"assets", "debts"}
Having(k) == {u \in Users : IF k = "assets" THEN assets[u] > 0 ELSE debts[u] > 0}

Goto(p, l) == pc' = [pc EXCEPT ![p] = l]

(* Days passed, clients gone, crons fired and requests made: at most       *)
(* MaxEvents of them.                                                      *)
Disturbable ==
  day + Cardinality(gone) + Cardinality({p \in Crons \cup Editors : pc[p] # "idle"})
    < MaxEvents

Init ==
  /\ day = 0
  /\ assets \in InitialAssets
  /\ value = [u \in Users |-> 0]
  /\ debts \in InitialDebts
  /\ rows = [u \in Users |-> [d \in Days |-> Unset]]
  /\ sched = "idle" /\ tries = 0
  /\ pc = [p \in Procs |-> "idle"]
  /\ step = [j \in Runs |-> 1]
  /\ failed = [j \in Runs |-> FALSE]
  /\ gone = {}
  /\ left = [p \in Procs |-> {}]
  /\ user = [p \in Procs |-> Unset]
  /\ copy = [p \in Procs |-> Unset]
  /\ date = [p \in Procs |-> Unset]
  /\ listed = {}
  /\ owed = [j \in Runs |-> [k \in Kinds |-> {}]]
  /\ missed = [j \in Runs |-> {}]

(* The day rolls over at 00:30 UTC, between any two steps. *)
Midnight ==
  /\ day < MaxDay /\ Disturbable
  /\ day' = day + 1
  /\ UNCHANGED <<assets, value, debts, rows, snapVars, histVars, sched, tries, pc, step, failed,
                 gone>>

-----------------------------------------------------------------------------
(* The scheduler: curl --retry 3 --retry-all-errors --max-time 180.        *)

Started(j) ==
  /\ owed' = [owed EXCEPT ![j] = [k \in Kinds |-> Having(k)]]
  /\ listed' = listed \ {j}
  /\ missed' = [missed EXCEPT ![j] = {}]

(* The first call, or the next one after a call that was not answered 200. *)
Call ==
  /\ \/ sched = "idle"
     \/ sched = "running" /\ (tries \in gone \/ pc[tries] = "answered")
  /\ tries < Attempts
  /\ tries' = tries + 1
  /\ sched' = "running"
  /\ Goto(tries', "step")
  /\ Started(tries')
  /\ UNCHANGED <<dataVars, snapVars, step, failed, gone>>

(* The client gives up after --max-time: r.Context() ends and every call   *)
(* the chain still makes fails.                                            *)
HangUp ==
  /\ Hangs /\ Disturbable
  /\ tries > 0 /\ tries \notin gone /\ pc[tries] # "answered"
  /\ gone' = gone \cup {tries}
  /\ UNCHANGED <<dataVars, snapVars, histVars, sched, tries, pc, step, failed>>

(* No retry is left: the scheduled run turns red. *)
GiveUp ==
  /\ sched = "running" /\ tries = Attempts
  /\ tries \in gone \/ pc[tries] = "answered"
  /\ sched' = "red"
  /\ UNCHANGED <<dataVars, snapVars, histVars, tries, pc, step, failed, gone>>

-----------------------------------------------------------------------------
(* RunDailyJobs.                                                           *)

(* The mutex of the feed of step k: its holder is in that step, snapshots  *)
(* included.  (Rates.Refresh has no mutex, and moves no portfolio.)        *)
Gated(k) ==
  \E j \in 1..Attempts :
    step[j] = k /\ (pc[j] \in {"find", "set"} \/ (pc[j] = "users" /\ left[j] # {}))

(* One feed step: some portfolios are brought to today's prices, under the *)
(* feed's mutex, and an error is collected.                                *)
FeedStep(j) ==
  /\ pc[j] = "step" /\ step[j] <= Steps
  /\ ~Gated(step[j])
  /\ \E moved \in SUBSET Having("assets"), err \in BOOLEAN :
       /\ err => FeedFaults \/ j \in gone
       /\ j \in gone => err /\ moved = {}
       /\ value' = [u \in Users |-> IF u \in moved THEN day ELSE value[u]]
       /\ failed' = [failed EXCEPT ![j] = @ \/ err]
       /\ left' = [left EXCEPT ![j] = moved]
  /\ Goto(j, "users")
  /\ UNCHANGED <<day, assets, debts, rows, user, copy, date, histVars, sched, tries, step, gone>>

(* Mutant of NextStep: a step that failed holds up the chain. *)
NextStepIfOk(j) ==
  /\ pc[j] = "users" /\ left[j] = {}
  /\ j \notin Crons /\ step[j] <= Steps
  /\ ~failed[j]
  /\ step' = [step EXCEPT ![j] = @ + 1]
  /\ Goto(j, "step")
  /\ UNCHANGED <<dataVars, snapVars, histVars, sched, tries, failed, gone>>

(* The snapshots of a feed step are done; the chain goes on whatever they, *)
(* or the step, came to.                                                   *)
NextStep(j) ==
  /\ pc[j] = "users" /\ left[j] = {}
  /\ j \notin Crons /\ step[j] <= Steps
  /\ step' = [step EXCEPT ![j] = @ + 1]
  /\ Goto(j, "step")
  /\ UNCHANGED <<dataVars, snapVars, histVars, sched, tries, failed, gone>>

(* CreateSnapshotsForAllUsers: the owners of assets, then those of         *)
(* liabilities; requests may come in between.  The cron comes here         *)
(* directly.                                                               *)
ListOwners(j) ==
  /\ pc[j] = "step" /\ step[j] > Steps
  /\ j \notin gone
  /\ left' = [left EXCEPT ![j] = Having("assets")]
  /\ Goto(j, "list")
  /\ UNCHANGED <<dataVars, user, copy, date, histVars, sched, tries, step, failed, gone>>

(* Mutant of ListDebtors: the second list takes the place of the first. *)
ListDebtorsOnly(j) ==
  /\ pc[j] = "list"
  /\ j \notin gone
  /\ left' = [left EXCEPT ![j] = Having("debts")]
  /\ listed' = listed \cup {j}
  /\ Goto(j, "users")
  /\ UNCHANGED <<dataVars, user, copy, date, owed, missed, sched, tries, step, failed, gone>>

ListDebtors(j) ==
  /\ pc[j] = "list"
  /\ j \notin gone
  /\ left' = [left EXCEPT ![j] = @ \cup Having("debts")]
  /\ listed' = listed \cup {j}
  /\ Goto(j, "users")
  /\ UNCHANGED <<dataVars, user, copy, date, owed, missed, sched, tries, step, failed, gone>>

(* Either list fails: nobody is snapshotted, and the step has failed. *)
ListFails(j) ==
  /\ pc[j] = "list" \/ (pc[j] = "step" /\ step[j] > Steps)
  /\ ListFaults \/ j \in gone
  /\ left' = [left EXCEPT ![j] = {}]
  /\ failed' = [failed EXCEPT ![j] = TRUE]
  /\ Goto(j, "users")
  /\ UNCHANGED <<dataVars, user, copy, date, histVars, sched, tries, step, gone>>

(* The chain is over: 500 when some step failed, 200 when none did.  The   *)
(* client may miss an answer that comes after the server's WriteTimeout.   *)
Answer(j) ==
  /\ pc[j] = "users" /\ left[j] = {}
  /\ step[j] > Steps
  /\ Goto(j, "answered")
  /\ \/ /\ j = tries /\ j \notin gone /\ ~failed[j]
        /\ sched' = "green"
     \/ /\ Hangs \/ j # tries \/ j \in gone \/ failed[j]
        /\ UNCHANGED sched
  /\ UNCHANGED <<dataVars, snapVars, histVars, tries, step, failed, gone>>

(* Mutant of CronFires: passes the end of the chain. *)
CronFiresLate(j) ==
  /\ pc[j] = "idle" /\ Disturbable
  /\ Goto(j, "step")
  /\ step' = [step EXCEPT ![j] = Steps + 2]
  /\ Started(j)
  /\ UNCHANGED <<dataVars, snapVars, sched, tries, failed, gone>>

(* The midnight cron. *)
CronFires(j) ==
  /\ pc[j] = "idle" /\ Disturbable
  /\ Goto(j, "step")
  /\ step' = [step EXCEPT ![j] = Steps + 1]
  /\ Started(j)
  /\ UNCHANGED <<dataVars, snapVars, sched, tries, failed, gone>>

-----------------------------------------------------------------------------
(* CreateDailySnapshot: assets and liabilities, the date and today's row,  *)
(* and the write.  Nothing depends on the liabilities that were read, so   *)
(* the two reads are one step.                                             *)

SnapAssets(p, u) ==
  /\ pc[p] = "users" /\ u \in left[p]
  /\ p \notin gone
  /\ left' = [left EXCEPT ![p] = @ \ {u}]
  /\ user' = [user EXCEPT ![p] = u]
  /\ copy' = [copy EXCEPT ![p] = value[u]]
  /\ Goto(p, "find")
  /\ UNCHANGED <<dataVars, date, histVars, sched, tries, step, failed, gone>>

(* Mutant of SnapFind: labels a row with the day before. *)
SnapFindDayBefore(p) ==
  /\ pc[p] = "find"
  /\ p \notin gone
  /\ date' = [date EXCEPT ![p] = IF day > 0 THEN day - 1 ELSE day]
  /\ Goto(p, "set")
  /\ UNCHANGED <<dataVars, left, user, copy, histVars, sched, tries, step, failed, gone>>

(* time.Now() comes after the reads. *)
SnapFind(p) ==
  /\ pc[p] = "find"
  /\ p \notin gone
  /\ date' = [date EXCEPT ![p] = day]
  /\ Goto(p, "set")
  /\ UNCHANGED <<dataVars, left, user, copy, histVars, sched, tries, step, failed, gone>>

(* Back to the next user; a request has only one. *)
SnapDone(p) ==
  /\ user' = [user EXCEPT ![p] = Unset]
  /\ copy' = [copy EXCEPT ![p] = Unset]
  /\ date' = [date EXCEPT ![p] = Unset]
  /\ Goto(p, IF p \in Editors THEN "answered" ELSE "users")

(* The history follows the last step of a run, not its feed steps. *)
Counts(p) == p \in Runs /\ step[p] > Steps

Wrote(p, u) ==
  /\ owed' = IF Counts(p)
             THEN [owed EXCEPT ![p] = [k \in Kinds |-> owed[p][k] \ {u}]] ELSE owed
  /\ UNCHANGED <<listed, missed>>

FailedAt(p, u) ==
  /\ missed' = IF Counts(p) THEN [missed EXCEPT ![p] = @ \cup {u}] ELSE missed
  /\ UNCHANGED <<listed, owed>>

SnapSet(p) ==
  /\ pc[p] = "set"
  /\ p \notin gone
  /\ rows' = [rows EXCEPT ![user[p]][date[p]] = copy[p]]
  /\ Wrote(p, user[p])
  /\ SnapDone(p)
  /\ UNCHANGED <<day, assets, value, debts, left, sched, tries, step, failed, gone>>

(* A snapshot that fails is logged or ignored, and the next user follows. *)
SnapFails(p) ==
  /\ pc[p] \in {"find", "set"}
  /\ RowFaults \/ p \in gone
  /\ FailedAt(p, user[p])
  /\ SnapDone(p)
  /\ UNCHANGED <<dataVars, left, sched, tries, step, failed, gone>>

(* ... at its first read already. *)
SnapMisses(p, u) ==
  /\ pc[p] = "users" /\ u \in left[p]
  /\ RowFaults \/ p \in gone
  /\ left' = [left EXCEPT ![p] = @ \ {u}]
  /\ FailedAt(p, u)
  /\ Goto(p, IF p \in Editors THEN "answered" ELSE "users")
  /\ UNCHANGED <<dataVars, user, copy, date, sched, tries, step, failed, gone>>

-----------------------------------------------------------------------------
(* Requests; each ends in a snapshot of its author.                        *)

SnapshotOwn(e) ==
  /\ left' = [left EXCEPT ![e] = {Author[e]}]
  /\ Goto(e, "users")

(* The runs that have begun no longer count on u's data of kind k. *)
Lost(k, u) ==
  /\ owed' = [j \in Runs |-> [owed[j] EXCEPT ![k] = @ \ {u}]]
  /\ UNCHANGED <<listed, missed>>

SetAssets(u, n) ==
  /\ assets' = [assets EXCEPT ![u] = n]
  /\ IF n = 0 THEN Lost("assets", u) ELSE UNCHANGED histVars

(* An asset is priced, from caches of today or of before, and stored. *)
CreateAsset(e) ==
  /\ pc[e] = "idle" /\ Disturbable
  /\ assets[Author[e]] < MaxAssets
  /\ SetAssets(Author[e], assets[Author[e]] + 1)
  /\ \E d \in 0..day :
       /\ assets[Author[e]] > 0 => d >= value[Author[e]]
       /\ value' = [value EXCEPT ![Author[e]] = d]
  /\ SnapshotOwn(e)
  /\ UNCHANGED <<day, debts, rows, user, copy, date, sched, tries, step, failed, gone>>

(* Those that are left may all be valued at older prices. *)
DeleteAsset(e) ==
  /\ pc[e] = "idle" /\ Disturbable
  /\ assets[Author[e]] > 0
  /\ SetAssets(Author[e], assets[Author[e]] - 1)
  /\ \E d \in 0..value[Author[e]] :
       /\ assets[Author[e]] = 1 => d = 0
       /\ value' = [value EXCEPT ![Author[e]] = d]
  /\ SnapshotOwn(e)
  /\ UNCHANGED <<day, debts, rows, user, copy, date, sched, tries, step, failed, gone>>

SetDebts(u, a) ==
  /\ debts' = [debts EXCEPT ![u] = a]
  /\ IF a = 0 THEN Lost("debts", u) ELSE UNCHANGED histVars

CreateLiability(e) ==
  /\ pc[e] = "idle" /\ Disturbable
  /\ debts[Author[e]] = 0
  /\ \E a \in Amounts : SetDebts(Author[e], a)
  /\ SnapshotOwn(e)
  /\ UNCHANGED <<day, assets, value, rows, user, copy, date, sched, tries, step, failed, gone>>

(* UpdateLiability finds the liability, or answers 404 ... *)
FindLiability(e) ==
  /\ pc[e] = "idle" /\ Disturbable
  /\ Goto(e, IF debts[Author[e]] > 0 THEN "write" ELSE "answered")
  /\ UNCHANGED <<dataVars, snapVars, histVars, sched, tries, step, failed, gone>>

(* ... writes it, if it is still there ... *)
WriteLiability(e) ==
  /\ pc[e] = "write"
  /\ \E a \in Amounts : SetDebts(Author[e], IF debts[Author[e]] > 0 THEN a ELSE 0)
  /\ Goto(e, "refind")
  /\ UNCHANGED <<day, assets, value, rows, snapVars, sched, tries, step, failed, gone>>

(* ... and reads it back: one deleted meanwhile ends without a snapshot. *)
RefindLiability(e) ==
  /\ pc[e] = "refind"
  /\ IF debts[Author[e]] > 0
     THEN SnapshotOwn(e)
     ELSE Goto(e, "answered") /\ UNCHANGED left
  /\ UNCHANGED <<dataVars, user, copy, date, histVars, sched, tries, step, failed, gone>>

DeleteLiability(e) ==
  /\ pc[e] = "idle" /\ Disturbable
  /\ debts[Author[e]] > 0
  /\ SetDebts(Author[e], 0)
  /\ SnapshotOwn(e)
  /\ UNCHANGED <<day, assets, value, rows, user, copy, date, sched, tries, step, failed, gone>>

-----------------------------------------------------------------------------
(* A step a run or a request takes by itself. *)
Snapping(p) ==
  \/ \E u \in Users : SnapAssets(p, u) \/ SnapMisses(p, u)
  \/ SnapFind(p) \/ SnapSet(p) \/ SnapFails(p)

Running(j) ==
  \/ FeedStep(j) \/ NextStep(j)
  \/ ListOwners(j) \/ ListDebtors(j) \/ ListFails(j)
  \/ Snapping(j)
  \/ Answer(j)

Editing(e) ==
  \/ CreateAsset(e) \/ DeleteAsset(e)
  \/ CreateLiability(e) \/ DeleteLiability(e)
  \/ FindLiability(e) \/ WriteLiability(e) \/ RefindLiability(e)
  \/ Snapping(e)

(* The night is over and everyone has been answered. *)
Quiet ==
  /\ sched \in {"green", "red"}
  /\ \A p \in Procs : pc[p] \in {"idle", "answered"}
  /\ UNCHANGED vars

Next ==
  \/ Midnight
  \/ Call \/ HangUp \/ GiveUp
  \/ \E j \in Crons : CronFires(j)
  \/ \E j \in Runs : Running(j)
  \/ \E e \in Editors : Editing(e)
  \/ Quiet

Spec == Init /\ [][Next]_vars

(* The server works on a call it has begun, and curl on its retries. *)
Fairness ==
  /\ \A j \in Runs : WF_vars(Running(j))
  /\ WF_vars(Call) /\ WF_vars(GiveUp)

FairSpec == Spec /\ Fairness

-----------------------------------------------------------------------------
TypeOK ==
  /\ day \in Days
  /\ assets \in [Users -> 0..MaxAssets]
  /\ value \in [Users -> Days]
  /\ debts \in [Users -> {0} \cup Amounts]
  /\ rows \in [Users -> [Days -> Days \cup {Unset}]]
  /\ sched \in {"idle", "running", "green", "red"}
  /\ tries \in 0..Attempts
  /\ pc \in [Procs -> {"idle", "step", "list", "users", "find", "set",
                       "write", "refind", "answered"}]
  /\ step \in [Runs -> 1..(Steps + 1)]
  /\ failed \in [Runs -> BOOLEAN]
  /\ gone \subseteq 1..Attempts
  /\ left \in [Procs -> SUBSET Users]
  /\ user \in [Procs -> Users \cup {Unset}]
  /\ copy \in [Procs -> Days \cup {Unset}]
  /\ date \in [Procs -> Days \cup {Unset}]
  /\ listed \subseteq Runs
  /\ owed \in [Runs -> [Kinds -> SUBSET Users]]
  /\ missed \in [Runs -> SUBSET Users]

(***************************************************************************)
(* A run that gets to its end has dealt with every user who had assets, or *)
(* had liabilities, all along: their row was written, or writing it        *)
(* failed.  Feeds that fail, clients that hang up and edits between the    *)
(* two lists do not cut the chain short ("one dead feed once cost a whole  *)
(* snapshot day").  Only a run that could not list the users deals with    *)
(* nobody, and that run has failed: it never turns the night green.  (A    *)
(* user who goes from liabilities to assets between the two lists is in    *)
(* neither: such a one had data all along, but not of one kind.)           *)
(***************************************************************************)
EveryUserReached ==
  /\ \A j \in Runs : pc[j] = "answered" =>
       IF j \in listed THEN \A k \in Kinds : owed[j][k] \subseteq missed[j] ELSE failed[j]
  /\ sched = "green" => tries \in listed

(***************************************************************************)
(* The history is not rewritten with later prices: the row of a day holds  *)
(* a valuation of that day or an earlier one, although runs and requests   *)
(* read, date and write in separate steps and midnight falls between them. *)
(***************************************************************************)
PastIsPast ==
  \A u \in Users, d \in Days : rows[u][d] # Unset => rows[u][d] <= d

(***************************************************************************)
(* A call that was begun brings the night to an end: the scheduled run     *)
(* turns green or red, with hung-up calls still in the server and feeds    *)
(* gated by their mutex.                                                   *)
(***************************************************************************)
NightEnds == sched = "running" ~> sched \in {"green", "red"}

(***************************************************************************)
(* handlers.go says of the nightly job that "a snapshot is written for     *)
(* every user" and that failures turn the scheduled run red: when the run  *)
(* is green, every user with assets, or with liabilities, all along has    *)
(* got a row from it.                                                      *)
(***************************************************************************)
GreenMeansWritten ==
  sched = "green" => \A k \in Kinds : owed[tries][k] = {}
=============================================================================
