------------------------------ MODULE Backfill ------------------------------
(***************************************************************************)
(* The backfill command: it fills the invested summary of the snapshots of *)
(* a user that have none, from the copies of the assets each snapshot      *)
(* holds, while the server goes on rewriting today's.                      *)
(*                                                                         *)
(* source, backing and moved are history variables: no action looks at     *)
(* them, they are there for the properties.                                *)
(***************************************************************************)
EXTENDS CostBasis

CONSTANTS Today,       \* the days with a snapshot are 1..Today
          Portfolios,  \* lists of assets a user may have
          OldLists,    \* lists of assets the rows of past days may hold
          Quote,       \* the cached coin prices, in dollars
          History,     \* History[d]: the coin prices of day d that were found
          Undecodable, \* the days whose copies cannot be decoded
          Apply,       \* the flag -apply: without it nothing is written
          MaxEdits,    \* bound on the server's rewrites
          Unset        \* no summary

Days == 1..Today

ASSUME DaysAssumption == Today \in Nat \ {0} /\ Undecodable \subseteq Days /\ MaxEdits \in Nat
ASSUME ApplyAssumption == Apply \in BOOLEAN

AssetLists == Portfolios \cup OldLists

ASSUME AssetsAssumption == AssetLists \subseteq Seq(Asset)

(* The handlers refuse a scheme or a bond that is worth nothing.           *)
ASSUME EnteredAssumption ==
  \A l \in AssetLists : \A i \in DOMAIN l :
    l[i].type \in {"govt_schemes", "bonds"} =>
      \A j \in DOMAIN l[i].holdings : l[i].holdings[j].last > 0

(* The prices are those of the coins users hold.                           *)
ASSUME QuotesAssumption ==
  \A l \in AssetLists : \A q \in {Quote} \cup {History[d] : d \in Days} :
    \A i \in DOMAIN l : HasQuotes(l[i], q)

ASSUME UnsetAssumption == Unset \notin Summary

VARIABLES live,    \* the user's assets
          rows,    \* rows[d]: copies of the assets and the summary, if any
          all,     \* the flag -all of this run of the command
          snaps,   \* the rows as the command read them
          next,    \* the day the command is at; 0 before it starts
          ratios,  \* the user's cost ratios, once computed
          edits,   \* rewrites so far
          source,  \* source[d]: what the summary of row d was computed from
          backing, \* the assets the ratios were taken from
          moved    \* the server has rewritten today's row since it was read

vars == <<live, rows, all, snaps, next, ratios, edits, source, backing, moved>>

(* CreateDailySnapshot stores the assets with their totals. *)
Snapshot(assets) == [assets |-> assets, invested |-> Totals(assets, Quote)]

(* What CreateDailySnapshot stored before costs were tracked. *)
Untracked(assets) == [assets |-> assets, invested |-> Unset]

(* The assets and coin prices of a summary, the assets its estimates were  *)
(* made from, if any, and whether its row had been rewritten meanwhile.    *)
From(assets, quote, holdings, late) ==
  [assets |-> assets, quote |-> quote, holdings |-> holdings, late |-> late]

ByServer(assets) == From(assets, Quote, <<>>, FALSE)

(* Costs are tracked from some day on: today's row may be of before it.    *)
Init ==
  /\ live \in Portfolios
  /\ \E first \in 1..(Today + 1), old \in [Days \ {Today} -> OldLists] :
       LET copies == [d \in Days |-> IF d = Today THEN live ELSE old[d]]
       IN  /\ rows = [d \in Days |-> IF d < first THEN Untracked(copies[d])
                                                 ELSE Snapshot(copies[d])]
           /\ source = [d \in Days |-> ByServer(copies[d])]
  /\ all = FALSE
  /\ snaps = <<>>
  /\ next = 0
  /\ ratios = Unset
  /\ edits = 0
  /\ backing = <<>>
  /\ moved = FALSE

(* The server: an edit or a revaluation, and today's snapshot with it. *)
Rewrite ==
  /\ edits < MaxEdits
  /\ edits' = edits + 1
  /\ live' \in Portfolios
  /\ rows' = [rows EXCEPT ![Today] = Snapshot(live')]
  /\ source' = [source EXCEPT ![Today] = ByServer(live')]
  /\ moved' = TRUE
  /\ UNCHANGED <<all, snaps, next, ratios, backing>>

(* The flags are read, then AllSnapshots. *)
Start ==
  /\ next = 0
  /\ all' \in BOOLEAN
  /\ snaps' = rows
  /\ next' = 1
  /\ moved' = FALSE
  /\ UNCHANGED <<live, rows, ratios, edits, source, backing>>

(* Mutant of Wanted: does not look at the summary. *)
WantedAlways(d) == d \notin Undecodable

(* A snapshot with a summary is left alone unless -all is given; one that  *)
(* cannot be decoded is counted and left alone.                            *)
Wanted(d) == (snaps[d].invested = Unset \/ all) /\ d \notin Undecodable

Skip ==
  /\ next \in Days
  /\ ~Wanted(next)
  /\ next' = next + 1
  /\ UNCHANGED <<live, rows, all, snaps, ratios, edits, source, backing, moved>>

(* The ratios come from today's assets, at the first snapshot that needs   *)
(* them.                                                                   *)
LoadRatios ==
  /\ next \in Days
  /\ Wanted(next)
  /\ ratios = Unset
  /\ ratios' = Ratios(live, Quote)
  /\ backing' = live
  /\ UNCHANGED <<live, rows, all, snaps, next, edits, source, moved>>

(* What is found to be invested in a list of assets. *)
Estimated(assets, quote, r) ==
  LET filled == Filled(assets, quote)
  IN  Sum([i \in DOMAIN assets |-> Estimate(assets[i], filled[i], r)])

(* SetSnapshotInvested sets the summary, on the row as it is by then. *)
Fill ==
  /\ next \in Days
  /\ Wanted(next)
  /\ ratios # Unset
  /\ LET assets == snaps[next].assets
          quote == History[next]
          late == moved /\ next = Today
     IN  IF Apply
         THEN /\ rows' = [rows EXCEPT ![next].invested = Estimated(assets, quote, ratios)]
              /\ source' = [source EXCEPT ![next] = From(assets, quote, backing, late)]
         ELSE UNCHANGED <<rows, source>>
  /\ next' = next + 1
  /\ UNCHANGED <<live, all, snaps, ratios, edits, backing, moved>>

(* The command ends: at the last snapshot, at a database error or by being *)
(* killed.  It may be run again, and starts from what was written.         *)
Stop ==
  /\ next # 0
  /\ next' = 0
  /\ all' = FALSE
  /\ ratios' = Unset
  /\ snaps' = <<>>
  /\ backing' = <<>>
  /\ UNCHANGED <<live, rows, edits, source, moved>>

Next == Rewrite \/ Start \/ Skip \/ LoadRatios \/ Fill \/ Stop

Spec == Init /\ [][Next]_vars

-----------------------------------------------------------------------------
Row == [assets : AssetLists, invested : {Unset} \cup Summary]

TypeOK ==
  /\ live \in Portfolios
  /\ rows \in [Days -> Row]
  /\ all \in BOOLEAN
  /\ snaps \in IF next = 0 THEN {<<>>} ELSE [Days -> Row]
  /\ next \in 0..(Today + 1)
  /\ edits \in 0..MaxEdits

Worth(assets) == SumFunction([i \in DOMAIN assets |-> assets[i].value])

(* What the parts of the assets would be worth over their stored values,   *)
(* when coin prices have moved since.                                      *)
Over(a, quote) == LET worths == Worths(Parts(a, quote))
                  IN  Or0(worths - a.value, worths > a.value)
Excess(assets, quote) == SumFunction([i \in DOMAIN assets |-> Over(assets[i], quote)])

Balanced(b, assets, quote) ==
  /\ b.current + b.untracked = Worth(assets) + Excess(assets, quote)
  /\ b.untracked = b.rewards + b.noCost

(***************************************************************************)
(* Nothing is lost or counted twice: in the summary of every row, of the   *)
(* server or of the command, the current value of what has a known cost    *)
(* and the untracked rest make up the value of the assets the summary was  *)
(* computed from.  Those are the assets the row holds, however the two run *)
(* into each other and however often the command is killed and run again,  *)
(* but for one case: today's row, when the server has rewritten it after   *)
(* the command read it and before the command wrote.                       *)
(* Nothing refuses a flat asset of negative value, which NoCost raises to  *)
(* 0: of a list with one the first part says nothing.                      *)
(***************************************************************************)
Conserved ==
  \A d \in Days :
    LET r == rows[d]
        s == source[d]
    IN  r.invested # Unset =>
          /\ (\A i \in DOMAIN s.assets : s.assets[i].value >= 0)
               => Balanced(r.invested, s.assets, s.quote)
          /\ r.assets # s.assets => d = Today /\ s.late

(* What the holdings of kind k in a list cost and are worth, those left    *)
(* out whose cost or price is not known.                                   *)
Held(assets, k) ==
  {i \in DOMAIN assets : assets[i].type \in StructuredTypes /\ Kind(assets[i]) = k}
Spent(assets, k) == SumFunction([i \in Held(assets, k) |-> Costs(Parts(assets[i], Quote))])
Fetching(assets, k) == SumFunction([i \in Held(assets, k) |-> Worths(Parts(assets[i], Quote))])

(* The flat assets of a kind that some holdings show a return of. *)
Estimable(assets, holdings) ==
  {i \in DOMAIN assets :
     LET k == Kind(assets[i])
     IN  /\ k \notin FlatKinds /\ assets[i].type \notin StructuredTypes
         /\ Spent(holdings, k) > 0 /\ Fetching(holdings, k) > 0}

(***************************************************************************)
(* Flat assets show the return of the user's holdings of their kind: what  *)
(* a stored summary says over what is known of the very assets it was      *)
(* computed from is the value of those flat assets, at the cost that the   *)
(* holdings the user had at one moment of that run imply, all of a kind    *)
(* and those with a known cost alone.  The rest is left as it is, and the  *)
(* server's summaries, which estimate nothing, altogether.                 *)
(***************************************************************************)
SameReturn ==
  \A d \in Days :
    LET b == rows[d].invested
        s == source[d]
        known == Totals(s.assets, s.quote)
        flat == Estimable(s.assets, s.holdings)
        Cost(a) == (a.value * Spent(s.holdings, Kind(a))) \div Fetching(s.holdings, Kind(a))
    IN  b # Unset =>
          /\ b.invested = known.invested + SumFunction([i \in flat |-> Cost(s.assets[i])])
          /\ b.current = known.current + SumFunction([i \in flat |-> s.assets[i].value])
          /\ b.estimated <=> flat # {}

(* A coin whose price was found to be 0, which the backfill lets count.    *)
IsWorthless(a, h, quote) == a.type = "crypto" /\ quote[h.name] = 0

(* If the cost of holding j of an asset were not known, its cost would     *)
(* leave Invested and its value Current, for the untracked rest.           *)
LeavesBothSides(a, j, quote) ==
  LET forgetful == [a EXCEPT !.holdings[j].buy = 0]
      before == ForAsset(a, quote)
      after == ForAsset(forgetful, quote)
      freed == before.current - after.current
  IN  /\ freed >= 0
      /\ IF IsWorthless(a, a.holdings[j], quote)
         THEN freed = 0
         ELSE (freed = 0) <=> (before.invested = after.invested)
      /\ before.current <= a.value => after.noCost = before.noCost + freed

(***************************************************************************)
(* "Only holdings with a known cost count ... so the gain always compares  *)
(* like with like": each holding of what users have now, at the cached     *)
(* prices, and of what any row holds, at the prices of its day, is on both *)
(* sides of the gain or on neither.  One case is not: a coin the backfill  *)
(* found a price of 0 for is in Invested, at its cost, and adds nothing to *)
(* Current; no guard leaves it out as the cache's own would.               *)
(***************************************************************************)
LikeWithLike ==
  \A p \in {<<live, Quote>>} \cup {<<rows[d].assets, History[d]>> : d \in Days} :
    \A i \in DOMAIN p[1] : \A j \in DOMAIN p[1][i].holdings :
      p[1][i].type \in StructuredTypes /\ ~IsWhole(p[1][i]) =>
        LeavesBothSides(p[1][i], j, p[2])

(***************************************************************************)
(* The command may be killed and run again, and the server goes on in the  *)
(* meantime: without -all the summary of a past day is written once.       *)
(***************************************************************************)
FilledOnce ==
  [][~all => \A d \in Days \ {Today} : rows[d].invested # Unset => rows'[d] = rows[d]]_vars
=============================================================================
