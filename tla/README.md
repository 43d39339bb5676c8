# wf-api in TLA+

wf-api is the Go backend of a net-worth tracker: users enter assets and
liabilities, market-data feeds price the assets, and one snapshot per user and
day feeds the history chart. This directory holds TLA+ models of its parts, the
TLC configurations that check them and TLAPS proofs of what matters most.
Paths below are relative to `src/`.

## 1. The system

One Go process (`cmd/server/main.go`) on a machine that stops when idle, a
MongoDB database, five price sources and an external scheduler. The process has
no state of its own but the mutexes and attempt times of the feeds and a rate
limiter; everything else is in the database, and no two database calls are ever
made atomic. That is where most of the hard behaviour comes from.

| component | state | operations | talks to |
|---|---|---|---|
| feed gate (`service/{crypto_prices,mf_navs,stocks,gold,fx_revalue}.go`) | `refreshMu`, `lastAttempt` per feed | `Refresh`, `RefreshIfStale` | dashboard, nightly chain, crons, boot refresh |
| assets (`api/handlers.go`, `store/assets.go`) | collection `assets` | create, update, delete; a pricing function per type | price caches, snapshot |
| mutual funds (`service/mf_navs.go`) | `mf_navs` | `NavFor`, `ValuePortfolio`, refresh, `Revalue` | source, assets, snapshot |
| FX revaluer (`service/fx_revalue.go`) | none | the pass over foreign assets, bank accounts, travel points | rates, assets, snapshot |
| crypto, stocks, gold (`service/`) | one price collection each | as for funds | source, rates, assets, snapshot |
| exchange rates (`service/rates.go`) | one document | `Get`, `Refresh` | source; used by pricing and revaluers |
| snapshots (`service/snapshot.go`) | collection `snapshots` | `CreateDailySnapshot`, the run over all users | assets, liabilities, cost basis |
| nightly job (`RunDailyJobs`, `.github/workflows/daily-jobs.yml`) | none | seven steps in one request, retried by curl | all of the above |
| liabilities | collection `liabilities` | create, update, delete | snapshot |
| cost basis (`service/cost_basis.go`) | none (pure) | `ForAsset`, `Sum`, `Totals`, `Ratios`, `Estimate` | dashboard, snapshot, backfill |
| backfill (`cmd/backfill-invested`) | none | fills old snapshots' summaries | snapshots, assets, CoinGecko |
| accounts (`Register`, `Login`, `AuthLookup`, `Me`, `UpdateMe`, `ChangePassword`, `store/users.go`) | collection `users` | register, sign in, look up, names, password | behind the rate limiter or the token check |
| rate limiter (`middleware/ratelimit.go`) | a counter and a window per client, in memory | count one request | in front of register, login, lookup and the nightly job |
| life of the process (`main`) | the swapped handler | listen, connect, swap, run jobs, drain, exit | everything |

**Hard behaviour, and what makes each part correct.**

- *Gate.* Reads, crons, the boot refresh and the nightly chain overlap. Refreshes
  of one feed must not; a read must not refresh within the window of the last
  attempt; nobody may wait for ever or lock another out.
- *Assets.* Requests and revaluers read, compute and write in separate calls. An
  asset's value must remain the value of the holdings beside it; a deleted asset
  must stay deleted; an edit should not be lost; today's snapshot should follow.
- *Rates.* Fetches are not serialised. The cache must not fall far back, hits must
  be fresh, a failed fetch must not make answers older or invented.
- *Nightly job and snapshots.* Any step may fail, the caller may hang up and call
  again, the day may change. Every user must be reached, past rows must not get
  later prices, the night must end, and green should mean written.
- *Price caches and portfolios.* A cache is filled on demand and by refreshes at the
  same time, some replies are of no use, and each feed writes something else
  back: crypto the value alone, stocks and gold the holdings with it, FX three
  kinds in a row. A stored value must be a full one, explained by the prices
  shown beside it, and a pass that is left in peace must put right what races and
  crashes before it left.
- *Rate limiter.* Requests stamp themselves before they queue for the mutex, and
  entries are purged. A client must not get more than two windows' worth through.
- *Accounts.* Lookup and insertion are two calls. Two requests one after the other
  must not make two accounts of one email.
- *Life of the process.* It listens before it can serve, and dies at any point. A
  boot and a shutdown must come to an end.
- *Cost basis and backfill.* Money is neither lost nor counted twice, costs are
  compared with the values they belong to, and a backfill that is killed and
  repeated beside a running server does no harm.

The hazards, at their lines and with the properties that cover them, are listed
in `PROJECT.json`.

## 2. Modules

| module | what it is | source |
|---|---|---|
| `SingleFlight` | abstract: at most one refresh of a feed at a time, reads keep to the window | what the comments of `RefreshIfStale` promise |
| `FeedRefresh` | the gate and its callers; implements `SingleFlight` | the five services, `Dashboard`, the callers in `main.go` |
| `Portfolio` | the assets of one user, the asset requests, the fund pass, the FX pass, today's snapshot | `handlers.go`, `mf_navs.go`, `fx_revalue.go`, `snapshot.go`, `store/assets.go` |
| `Rates` | the cached exchange rates and their callers | `rates.go`, `store/exchange_rates.go`, `usdToINR` |
| `Nightly` | the scheduler, the chain, the cron, all users' snapshots, liabilities | `RunDailyJobs`, `snapshot.go`, `daily-jobs.yml`, the liability handlers |
| `PriceCaches` | the cached prices of coins, tickers, gold and currencies, and what their sources reply | `store/{crypto_prices,stock_prices,gold_rates}.go`, `gold.go` (the parser), `fetchQuote`, `priceFromPayload` |
| `Valuation` | portfolios of these kinds, the requests that price them and the passes that revalue them; extends `PriceCaches` | `handlers.go`, `crypto_prices.go`, `crypto_valuation.go`, `stocks.go`, `gold.go`, `fx_revalue.go` |
| `FixedWindow` | abstract: what a limiter with fixed windows promises a client | the comments of `RateLimit` |
| `RateLimit` | the limiter with its purge; implements `FixedWindow` | `ratelimit.go` |
| `Accounts` | the account requests | `handlers.go`, `store/users.go`, `auth.go` |
| `Server` | the life of the process around `RateLimit` and `Accounts` | `main.go`, `router.go` |
| `Requests` | the constants `RateLimit` and `Accounts` share | |
| `CostBasis` | the pure cost-basis functions | `cost_basis.go` |
| `Backfill` | the backfill beside the server, over `CostBasis` | `cmd/backfill-invested/main.go` |
| `Sums` | lemmas about the sums of functions on finite sets, which totals are | |
| `*_proofs` | TLAPS proofs about `FeedRefresh`, `Portfolio`, `Rates`, `Nightly`, `Valuation`, `Server` (with `RateLimit` and `Accounts`), `Backfill` (with `CostBasis`) | |
| `MC*` | instances for TLC | |

**FeedRefresh.** A caller is a dashboard request or a job; `Plan[c]` is the list of
feeds it visits, `deadline[c]` the end of its one context. `holder`, `lastAttempt`
are the fields of the services. `Acquire` is `Lock`, `Skip` and `Pass` the age
check, `Start` the stamp at the head of `refreshLocked`, `FetchOk`/`FetchFails`
the outcome, `Release` the deferred `Unlock` together with the call for the next
feed. Check and stamp are two steps on purpose: that they do not race is the
mutex's merit and not the model's. `HangUp` ends the request's context.
`cached` says when a refresh last brought something. FX names its mutex `mu`.

**Portfolio.** An asset is its type (a fund portfolio, or a manual entry for all
unpriced ones), the foreign flag and amount, the holdings with units and stamped
NAV, and the value. A request goes through the handler's calls one at a time:
`Arrive`, `Find`, `MissNav`/`FetchNav` (an uncached NAV is fetched and cached
later), `Price` or `Compute`, `Write`, `Clear`, `Refind`, and the two halves of
its snapshot; `Fail` cuts it off anywhere. A revaluer lists (`MFList`, `FXList`)
and writes what it listed, asset by asset, by id alone (`MFWrite`, `FXWrite`), or
passes one over, and then snapshots. What `$set` does to an absent document is
kept: nothing. The listing's order is left open. Numbers are small integers.

**Rates.** A rate is the moment the service gave it out, or `MadeUp` for the
constants 83 and 0.92. A call reads the document, asks, gets the reply, reads the
clock for the timestamp and stores, each a step. `NeverBehindRead` says what may be
answered when nothing was fetched: exactly what this call has read, constants that
a reply once brought into the cache included, or an error. The HTTP client's timeout bounds
a fetch by `MaxFetch`. The code has no bound for a database write, so `MaxWrite`
is an assumption on the environment that only `StepBackBounded` uses.

**Nightly.** `Attempts` calls of curl, each a run of the chain; `Steps` feed steps
and then the run over all users. The assets of a user are a number and the day of
the newest prices in them; `CreateAsset`, `DeleteAsset` and the liability requests
change who has data (`Having`) while a run takes its two lists (`ListOwners`,
`ListDebtors`). A feed step moves some owners' values to the
day's prices and writes their snapshots under the feed's mutex (`Gated`). A
snapshot is three steps: `SnapAssets` (assets and liabilities; nothing depends on
when the latter are read), `SnapFind` (where the day is taken) and `SnapSet`.
`gone` holds the calls whose client has hung up: with the context over, all their
further calls fail. `listed`, `owed` and `missed` are history variables: the runs that
got their lists; per kind of data, the users who have had some ever since a run
began and whose snapshot its last step has not written; the users it failed at.
The cron enters at the last step.

**PriceCaches, Valuation.** One function `cache` holds all four collections; a
`Row` is what is looked up together (a coin, a ticker, the one document of gold
rates, the one of exchange rates). `Replies` says what a fetch may bring: of a coin
also a payload without a price, of gold what `Pick` makes of any page, partly
rendered or not, that passes the check of the order. An asset is its kind, units
per item, the stamped prices (`last_price`, `last_rate`), cash, dollar value and
value; bonds, loans and schemes are the one kind `entered`. A request goes through
`Find`, `Check` (it must hold something), `LookUp` or `Miss` and `CacheIt` for each
row, `Compute`, `Write`. `Kind`, `Merged`, `SetUnits` say which of the request's
fields count, as the handler's chain of `if effType` does. A pass fetches row by row
(`Fetch`), reads gold or exchange rates at `Fetched`, lists (`List`), and values
the listed portfolios one at a time: `Take`, a `Consult` per item, which leaves the
portfolio when there is no usable price, and `Revalue`, which writes by id alone
what `Revaluation` says for that kind. FX has two `Loops` here, after the one in
`Portfolio`. `Crash` ends everything that is under way. A total (`Total`, `Worth`) is a sum
over the items held. `calm`, `turned` and `asked`
are history: whether anybody disturbed a pass, the assets that have changed their
kind, and the holdings an asset was ever given.

**RateLimit, Accounts, Server.** `stamp[r]` is the local `now` of a request between
reading the clock and getting the mutex, which takes it at most `MaxLag`; `Count` is
the whole critical section with the purge, its verdict `Passes`. The rest is
history: when a window was opened, what it let through and when. A request of
`Accounts` is where it is (`at`) and what it has found; `looked` in an account is
history, too. A database call may fail at any point, and an insertion that fails
may have been made. `Server` lets requests in: a 503 before the router is there
(`Unready`), then through the limiter or straight to the token check. `Exit` is the
end of the process, which cuts requests and jobs off and forgets the limiter's map;
it comes by itself when the last attempt to connect fails, when the listener is
drained or its 15 s are over, and at any moment (`Crash`).

**CostBasis, Backfill.** Operators over whole rupees, with one form of holding for
all types; division is the only rounding. `Counted` are the holdings `ForAsset`
passes to `add`, `OfHolding` what it passes; all totals are sums. A coin has a price,
which the backfill may find to be 0, or `NoPrice`: the cache's guard asks for a
positive one, the historical lookup only for an answer. In `Backfill` costs may be
tracked from any day on: rows before it have no summary (`Untracked`), today's
perhaps among them, later ones the server's. Each run of the command has `-all` or
not (`all`), reads all rows at its start (`Start`), takes the ratios from the live
assets at the first row it fills, and sets one summary a step, on the row as it
then is, while `Rewrite` is the server replacing today's row. `Stop` is its end, a
fatal error or a kill; it may start again. `source` is history: the assets, prices
and holdings each summary was computed from, and whether its row had been replaced
in the meantime (`moved`); `backing` are the assets the ratios came from.

## 3. Runs

| run | expected | shows |
|---|---|---|
| `gate` | holds | `MutualExclusion`, `NoHoldAndWait`, `ReadSpacing`; `Implements` (the gate implements `SingleFlight`); `EveryCallerReturns` |
| `gate_bounded` | violated | a read is *not* bounded by its timeout: `Lock` ignores the context |
| `portfolio` | holds | `StampConsistent`: value and holdings of a fund portfolio remain a pair and fully priced; `NoResurrection` |
| `lost_edit` | violated | the fund pass puts back units the user has changed |
| `out_of_step` | violated | overlapping snapshots leave today's row behind, with no failure |
| `nightly` | holds | `EveryUserReached`: who had assets, or had liabilities, all along is dealt with by every run that got its lists, and a run that did not has failed; `PastIsPast`; `NightEnds`: a begun night turns green or red |
| `nightly_green` | violated | green without every row written |
| `backfill` | holds | `Conserved`: a summary accounts for the assets it was computed from, which are its row's but in one race over today's; `LikeWithLike`: a holding is on both sides of the gain or on neither; `SameReturn`: flat assets are estimated at the return of the user's holdings; `FilledOnce` |
| `rates` | holds | `HitIsFresh`, `StepBackBounded`; `NeverBehindRead`: no answer is older than what its caller had read, or invented for want of a fetch |
| `valuation` | holds | `StampsExplainValue`: value, holdings and stamped prices remain one; `FullValuation`: a coin portfolio never shows a partial value; `GoldGenuine`: no unit or purity of the page is mistaken; `PassSettles`: an undisturbed pass leaves all it can price at the cached prices |
| `server` | holds | `TwiceAtMost`, `MapBounded`, `Implements` (the limiter implements `FixedWindow`); `DuplicateOnlyByOverlap`; `BootEnds`, `DrainEnds` |
| `rates_fallback` | violated | an incomplete reply puts constants over cached rates |

Each violated property is a sentence of the repository's own comments or README,
quoted in the findings of `PROJECT.json` with what the code does instead.

**Bounds, and why they are enough.**

- `gate`: two feeds (the least that has an order), two reads and one job (two of a
  kind to overlap, and one of the other kind), windows 2 and 3 above timeouts 1
  and 2 as in the code, a clock to 3, so that a window opens again and every
  deadline passes. One feed is flaky, one client may leave.
- `portfolio`: two assets and two schemes, two requests out of six that meet on
  one asset (edit, conversion both ways, deletion, creation of both kinds), one
  pass of each revaluer, NAVs 1 and 2, every call may fail. A stale write needs
  one reader and one writer; the second request is there for what is between
  them. The requests are symmetric and no property names one, which makes the
  symmetry sound; the run checks no liveness. In the two violated runs one
  asset and no failure are enough.
- `nightly`: one owner of an asset, one user who begins with a liability alone and
  makes two requests, up to two assets (`MaxAssets`), a call and its retry, one
  feed step (all six of the code behave alike), feeds and listings that may fail.
  Of a day change, a hang-up of either call, one cron firing and the two requests
  any two happen (`MaxEvents`): a hazard here needs one to move the data and one to
  be late, and going over from liabilities to assets takes two requests.
  `MCNightly.cfg` reaches about 950 000 states. A single row that fails is the
  question of `nightly_green`.
- `valuation`: single users' portfolios, one or two assets, two requests that meet on
  one of them and one or two passes of the feeds concerned (`left` in each of
  `MCSettings`): two edits; a coin or ticker nobody has priced yet; a new portfolio
  beside an old one; conversions there, back and into what another feed revalues; a
  deletion. Quotes are 5 and 8, so that old and new prices differ and no total
  is had in two ways by accident; two gold fixings with every partial page of both;
  every call may fail and the process may die.
- `server`: two requests of one client and one of another, a limit of 2, a window of
  1, a cap of 1, so that the second client's entry is already one too many, a lag
  of 1, two attempts to connect. Time passes (`MaxTime` 3, three windows, up to
  `MaxCount` requests each, one start) while the three requests ask again and
  again (`Timed`); the other tasks (two registrations and a login of one
  email; two changes of one password; names, profile and the nightly job) have
  two starts, shutdowns and no clock, which no handler looks at.
- `backfill`: three days, portfolios with every type of asset, with and without
  costs, a flat asset of negative value (nothing refuses one), old lists with one
  or two flat assets of market kinds, costs tracked from any day on, a past day that
  cannot be decoded, one rewrite by the server, runs with and without `-all` in any
  order. Coin prices of a past day differ from today's; one coin has none, and one
  was found at 0 on a single day. All of `late` rows, estimates from several flat
  assets and worthless coins are reached.
- `rates`: one caller of each kind, TTL 2, fetch and write of 1 each, a clock to 3:
  a fetch may be overtaken by another, and an entry expires. Replies in this run may
  lack EUR only; the violated run lets them lack INR as well.

Only `MaxTime`, `MaxDay`, `MaxEdits`, `MaxPasses`, `MaxEvents`, `MaxCount`,
`MaxStarts`, `left` and `Attempts` cut behaviours off. Deadlock is checked in every run. Where a system comes to rest when its
bounded work is done it has an explicit stuttering step (`Quiet`, `Resting`, `Rest`)
guarded by that very state, so being stuck anywhere else is still an error.

**Fairness.** `FeedRefresh!FairSpec`: each caller's own steps are weakly fair. The
calls inside a refresh end by themselves (the HTTP clients have 15 s and 30 s
timeouts, the contexts deadlines), and Go's mutex hands itself to a waiter. Nothing is
assumed of clients, of the clock or of `Begin`. `Nightly!FairSpec`: the server
works on a call it has begun, and curl retries or gives up; hang-ups, day changes
and requests are not fair. `Server!FairSpec`: the connect loop goes on (each attempt
has 15 s), the deadline of the shutdown comes, and the process exits once it is
drained or late. Handlers and jobs are not fair: they may hang.

Every property of a passing run has a mutant: an operator beside the definition it
replaces (`AcquireAnyway`, `MFWriteValue`, `RevaluationNoCash`, ...), with a bug
someone might write, under which TLC finds the property violated.

## 4. Proofs

All theorems hold for every value of the constants under the modules' named
assumptions, which TLC evaluates on each run.

**FeedRefresh_proofs.** `TypeCorrect`, then `LockInv`: being inside a gate is the
same as holding its mutex, for exactly the current feed. `Exclusion` and
`HoldsOne` follow at once; neither property is inductive alone, since `Release`
says nothing of who else is inside unless `holder` ties them together. `Spacing`
needs `LogInv` besides: `lastAttempt` is the time of the last entry of the
history, and no entry is later than it or than now. `Refinement`: every step of the
gate is a step or a stutter of `SingleFlight`, with `busy` mapped to "some caller
is past the stamp"; `Start` maps to `Start` because `LogInv` makes the code's age
check the abstract one, and `Leave` maps to `End` or, after `Skip`, to nothing.

**Portfolio_proofs.** `TypeCorrect` needs `Flow`: what each request has in hand at
each point (an update has found an asset when it prices, a plan is there when it
writes, a creation's plan is a whole document). `FundsConsistent`
(`StampConsistent`) is not inductive, because a write brings in what was computed
steps ago. `Stamped` says what that can be: a planned update is priced (holdings
and their total), or makes the asset a manual entry, or is aimed at one that was a
manual entry before; and what the FX pass has listed are such entries too. The
fund pass needs no conjunct, as it computes both parts in the step that writes them.
`DeletedForGood` proves the action property `NoResurrection` from the types alone:
no action writes an asset it does not find.

**Rates_proofs.** The invariant bounds ages: a reply in hand was given out after its
request and within `MaxFetch` of its timestamp, a cached rate within `MaxFetch`
before its timestamp, and what a caller has read is not newer than its request
(`DocAge`, `CallAge`, `CallOrder`). From it `HitsAreFresh`, `StepsBackBounded` and
`NeverBehind`.

**Nightly_proofs.** `PastIsPast` follows from the flow of one copy: what a process has
read is of today or earlier, and once it has taken the date, not later than that
date (`Held`); so what it writes there is not either. `EveryUserReached` needs
`ReachInv`: of either kind of data, who is owed a snapshot by a run has such data still,
so that the list of that kind will find them; once that list is taken they are
among those left to do, the one being done or those it failed at; and a run that
is past its lists without having them has failed. `GreenInv` adds that
a green night is that of a call with its lists.

**Server_proofs.** Of the limiter, the invariant ties an entry to the history
(`EntryInv`): a live entry within the limit has counted what was let through and was
opened at most `MaxLag` after the time it bears; where there is none, a new window
may be opened already. `TwiceAtMostHolds` and `ImplementsHolds` follow, the latter step
by step: a request that is let through passes in its window or opens one
anew, and everything else stutters. `ServerLimits` shows that the server takes only
steps of the limiter's specification, so all three hold of the server as well.
`DuplicateOnlyByOverlapHolds` rests on `LookInv`: a registration that is about to
insert knows of no account with its email among those there were when it looked,
which later insertions, updates and restarts do not change.

**Sums.** What the totals of the other modules need: the sum of a function on any
finite set is a number (`SumInt`, `SumNat`), is any one term and the sum of the rest
(`SumRemove`), and adds up term by term (`SumPlus`). `SumFunction` is a fold that
takes its elements out in an order of its own, so each of these is by
induction on subsets of the domain. The library states induction with an operator
parameter, which no prover here can instantiate; `SubsetInduction` states it with a
set instead, from the well-foundedness of strict inclusion, which the library
gives as a plain fact.

**Valuation_proofs.** The settings a run starts from, and what requests and sources
bring, are constants with assumptions (`SettingsAssumption`, `NamesAssumption`): they
are typed, the marks for "deleted" and "not given" are no data, and the portfolios at
the start are explained by their prices, as a write leaves them. The argument goes
in layers, each of them inductive with those before it:

- `CacheInv`: what is on its way to a cache is a reply of its source, and a cached gold
  rate is what `Pick` takes from some page. `PickGenuine` shows of the parser, for
  every page, that each chosen cell is a fixing's rate for that purity, whichever
  unit it was shown in. `GoldGenuineHolds` and `CachesTyped` follow.
- `StateTyped`: documents, requests, passes and what they have listed are typed, with
  what each place of the program counter guarantees: a request that computes has all
  its prices, a pass that revalues has consulted what it needs. `TypeCorrect`.
- `PlannedOK`: a request that computes has a usable price for every coin it holds, and a
  plan that waits to be written is explained by the prices it brings with it. Neither
  property about stored values is inductive without it, as a write brings in what
  was computed steps ago.
- `BooksOK`: what an asset is, and what a request or a pass has read of it, is in the
  book `asked` of what the asset was ever given (`OriginOK`), of a kind that can only
  differ if the asset has changed its kind since (`KindOK`); and of an id that is not
  in use yet nobody has read anything (`FreshOK`). A pass writes by id alone the value
  of what it listed, which may be another entry of the book than what the asset
  holds by then: that is all that can be said of it, and what is needed.
- `Valued`: `StampsExplain` (`StampsExplainValue`) and `ValuationIsFull` (`FullValuation`)
  themselves, inductive with the above.
- `CalmOK`, for the action property `PassSettlesHolds`: as long as nobody disturbs a pass,
  what it has listed is what is stored, and what it has been through is at the
  cached prices.

**Backfill_proofs.** First the pure part, for any asset and prices: `ForAsset` accounts
for its value (`BasisFilled`), `Estimate` moves that of a flat asset from the untracked
rest to `current` and nothing else (`BasisEstimated`), and accounts that balance one
by one balance in total (`SumBalanced`). `RatiosOfHoldings` says that a ratio is what
the structured holdings of its kind cost and are worth, flat entries having no
part in it, and `EstimatesInTotal` that estimating adds the flat assets at that
ratio to the known totals and leaves the rest. Then `RowsInv`, as no property is
inductive alone: a summary of copies the command has read goes to the row as it
then is. `SourcesTyped` types the history. `AssetsRead` says that the copies read are
those of the row still, but for today's when the server has rewritten it;
`RatiosBacked` that the ratios in hand are those of `backing`; `Accounted` that each summary
is what the code computes of its `source`, by the server or by the command.
`TypeCorrect`, `ValueConserved` and `SameReturnHolds` follow. `LikeWithLikeHolds`
takes one holding out of the sums (`OneForgotten`) and compares what it cost with
what it is worth (`CostedWorth`), at the cached prices and at any day's.
`FilledOnceHolds` rests on `AsRead`: of the past days the command still has to come
to, the rows are as it has read them, because the server writes today's row alone
and the command only those behind it. So a row it has read without a summary has
none when it fills it.

The assumptions on the constants: assets are typed and units not negative
(`AssetsAssumption`), a scheme or bond is worth something (`EnteredAssumption`), as the
handlers see to; of a coin users hold there is a price or none, and a price may
be 0 (`QuotesAssumption`). Nothing is assumed of which rows have a summary at first, nor of `-all`.
Values and prices paid may be negative, as nothing refuses them in a flat asset:
the balance in `Conserved` is not claimed of a list with such a value, because
`NoCost` is clamped at 0.

**Model-checked only.** Liveness (`EveryCallerReturns`, `NightEnds`, `BootEnds`,
`DrainEnds`): TLAPS does not do `ENABLED` and fairness here. Every other property of a
passing run is a theorem. No module declares a RECURSIVE operator. The violated
properties of the other runs are refuted by TLC on a small instance, which is all
a refutation needs.

## 5. Not modelled

- *Invalid input.* Negative units, unknown currencies, a wrong job token and the like
  are refused before anything is read or written; the models start from requests
  that are well formed.
- *In `Valuation`*: today's snapshot after an update or a pass and the second write of
  an update (`ClearForeignFields`), which `Portfolio` has for funds and which are the
  same code for every kind; accounts with a balance of zero, which add nothing; a
  listing and the reading of the dollar rate after it are one step; a payload's
  nesting. How the exchange rates are fetched is in `Rates`; here they move by
  themselves.
- *In `Accounts`*: hashes, tokens and their expiry, which are library calls.
- *Search proxies, read-only endpoints, historical prices, routing, JSON,
  configuration, models, backup workflow*: no order of steps of their own.
- *MongoDB itself*: an upsert is atomic in the models. Without a unique index two
  first upserts of a user's day may both insert; this is listed as a hazard.
- *Floating point*: values are integers, so rounding is not studied.

## 6. What the properties except

Three properties spell out a case in which the code falls short of what one would
want, because it does so by its shape and not by an accident of the model:

- `EveryUserReached` speaks of each kind of data apart. A user with a liability alone
  who creates an asset after the owners of assets were listed, and deletes the
  liability before those of liabilities are, is in neither list, although there
  was data all along.
- `Conserved` excepts today's row, when the server rewrites it between the command's
  read and its write (`late`). The row then holds the summary of assets it no longer
  shows, until the server's next snapshot.
- `LikeWithLike` excepts a coin whose historical price came back as 0 or null
  (`IsWorthless`). Its cost is in `Invested` with nothing in `Current`, against the words of
  `cost_basis.go:12-14`.

Without its exception each of the three would be violated.

Four hazards have no property: a flagged fund portfolio whose clearing failed
(`handlers.go:753`) and a fund without a NAV inside the pass (`mf_navs.go:235`), which
only portfolios that were manual entries meet, and `StampConsistent` leaves those
out; two first upserts of one day (`snapshots.go:56`); an older price put over a newer
one (`crypto_valuation.go:44`). Their notes in `PROJECT.json` say more.

## 7. Plan

Done, in this order: the gate and its refinement; the assets with the fund and FX
passes; the night; cost basis and backfill; the rates; proofs of the gate, the
portfolio and the rates; the price caches with all other kinds of portfolios; the limiter and its
refinement, the accounts and the life of the process; proofs of the latter, of
the night, of the caches; sums, and with them proofs of the portfolios and the backfill.

Next:

1. Times in `PriceCaches`, to say how long an older price may stand over a newer one.
2. The totals of the dashboard against the snapshot of the same moment.
3. Proofs: what remains is to shorten them, and the invariants that items 1 and 2 bring.
