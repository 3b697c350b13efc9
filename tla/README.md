# Horizon in TLA+

Specifications of the Horizon trading platform (`src/horizon`): a single Python process
with one asyncio event loop, one SQLite file, up to four exchanges and a language model
that proposes trades. Nothing in it runs in parallel, and almost everything interleaves:
request handlers and background tasks are suspended at every `await`, share one database
connection whose commits and rollbacks affect them all, and keep half of their state in
memory that a restart loses. That is what the modules here are about. Formatting, HTTP,
signing, prices as numbers and page rendering are not.

Contents: 1 the system; 2 the modules; 3 runs; 4 proofs; 5 where code and documentation
differ; 6 what is not modelled; 7 next steps.

## 1. The system

| Part | Source (`src/horizon/...`) | State | Operations |
|---|---|---|---|
| Proposal queue | `internal/proposals/queue.py`, `models.py` | rows of `proposals`; two scanners | enqueue, approve, reject, check_expiry, expiry scan (60 s), auto-execution scan (30 s) |
| Order manager | `internal/ordermanager/manager.py` | `orders`, `order_events`, `_open_orders`, a lock, `_active_exchange` | submit_order, cancel_order, sync loop |
| Guardrails | `internal/guardrails/` | `cooldown_tracking`, `guardrail_events`, a loaded `StrategyConfig` | evaluate, record_trade, cleanup_expired (5 min), mode |
| Paper simulator | `internal/paper/simulator.py` | `paper_cash`, `paper_positions`, `paper_trades`, `daily_pnl` | market and limit orders, close, price updates |
| LLM analysis | `internal/llm/engine.py`, `parser.py`, `scheduler.py` | `llm_analysis_history`, the scheduler's lock, the parser's whitelist | trigger_now, analyze_and_propose |
| Co-Pilot | `internal/llm/copilot.py` | `copilot_sessions`, `copilot_messages` | create, send, delete |
| Portfolio tracker | `internal/portfolio/tracker.py` | `_balances`, `portfolio_snapshots` | refresh, save_snapshot, stop |
| Market data | `internal/marketdata/fetcher.py` | `_tickers`, `_subscribers` and their queues | poll loop, subscribe, broadcast |
| Exchange adapters | `internal/exchange/` | an HTTP session each | place, cancel, list open orders |
| Kline data sources | `internal/datasource/` | candles and stamps, one pickle file | get_klines, update_candles, save, load |
| Symbols | `internal/pairlist/`, `pairlists/` | `exchange_symbols` | refresh, get_pairs |
| Server, wiring | `internal/web/server.py`, `main.py` | `app.state`, settings | endpoints; which instances exist and which tasks run |

**How they interact.** A model's answer becomes proposals (engine → queue). A proposal is
approved by a person (server → queue → order manager → exchange) or executed by a scanner
(queue → guardrails → simulator or order manager). Orders of the user go from the server to
an order manager directly. The manager asks the guardrails, writes an order row and an event,
calls the exchange, and its sync loop compares with the exchange every 30 s. The fetcher polls
the symbols in the cache at the active exchange; a switch of the active exchange writes into
fetcher, tracker and manager and starts a refresh of the cache. The chart's candles come from
the data-source registry, which answers from its cache while that is fresh and otherwise asks
CryptoCompare.

`main.py` matters: `lifespan()` builds one set of components on one connection and starts the
tasks; `_create_app()` builds a second connection, fetcher and order manager for the endpoints
that captured them. The order manager of the REST endpoints therefore has no guardrails and no
sync loop, and the fetcher of the event stream is never started.

**What is hard.** *Interleaving*: every UPDATE of a proposal is by id alone, seconds after
the SELECT that justified it. *Shared connection*: a commit of anyone makes everybody's
pending writes durable and a rollback undoes them. *Lost answers*: an order may be live though
the call raised. *Restarts*: `_open_orders`, locks and snapshots are gone, uncommitted writes
too. *Stale state*: listings, verdicts, configuration and rows read before an await. *Limits*:
full queues, a model that never answers, a source that answers late. *What an adapter hides*: a
refusal handed on as a result, a placement that was never sent, a status no table knows.

**What makes each part correct.**

- Proposal queue: a decision is final and survives; approve places at most one order and only
  after its decision is durable; what counts as executed has an order; deadlines are enforced.
- Order manager: whatever is at an exchange is journaled; an open row can be cancelled; a
  cancel or fill in the table happened, if the adapter tells the truth; terminal rows stay.
- Guardrails: the verdict still holds when the order goes out; orders on a pair keep their
  cooldown, restarts included.
- Paper simulator: cash, positions and profit are what the trades say.
- LLM analysis: the audit row precedes the proposals; every run is accounted for; every
  trigger ends.
- Shared connection: snapshots are whole, an answered message is stored, the last snapshot
  of an orderly stop is saved.
- Kline data sources: what is answered as fresh is recent; what was saved stays.
- Market data: a price is filed under its source, clients do not disturb each other, what
  is polled belongs to the active exchange.

## 2. The modules

An action is the code from one `await` to the next whose order somebody else can observe;
a `pc` variable names the await at which each coroutine is suspended. Where nobody reads in
between (a single write and its commit, under a lock), the two are one action, and the header of
the module says so. Variables marked *history* are not in the program: they record what the
properties speak of. `PROJECT.json` maps every definition to its lines.

| Module | Models | State ↔ code | Actions ↔ code |
|---|---|---|---|
| `ProposalQueue` | the queue, its scanners, commits and rollbacks by anybody, restarts | `row` the table through the connection, `disk` as committed; `cur`, `todo` the locals; `manual`, `auto` what reached the exchange; `late` the clock past `expires_at`; *history*: `undone`, the proposals of which a rollback undid what somebody went on from | one per SELECT, price fetch, UPDATE, commit and placement of each operation; `ApproveSubmit`, `AutoLiveOrder` with and without an order (`Truthful`: the exchange's adapter raises when it is refused); `ApproveSubmitFails`, `AutoRaises`, `AutoRaisesLate` the exceptions, before and behind an order; `SomeoneRollsBack`, `Restart` |
| `ProposalLifecycle` | what the queue promises of one proposal: decided once, one order, executed only with it, and what a rollback leaves of that | durable status, orders, whether a rollback undid its approval | one per decision, `Place`, `Undo` |
| `ExchangeAdapters` | the four adapters: from what the exchange did, and how it answered, to what the caller gets | none (operators only) | `PlaceResults`, `CancelResults`, `ListedStatuses`, one case per adapter through its `_request` |
| `OrderManager` | both managers, the exchange behind its adapter, active-exchange switch | `open`, `holder` the attributes, `venue` the truth at the exchange, `listing` what `fetch_open_orders` said, `exch` the exchange a request named | submit, cancel and sync cut at their awaits; `Place`, `CancelAsk`, `SyncFetch` choose among the adapter's results; `WriteFails` a locked database; fills and cancels at the exchange |
| `OrderLifecycle` | what the managers promise of one order: journaled before the exchange hears of it, final once it is final, no claim the exchange contradicts | `row` the status in the table, `venue` the truth at the exchange, `at` the exchange the request named | one per change of the status, three for the exchange |
| `Guardrails` | evaluate and cooldowns under the manager's lock, the cleanup, configuration | `cool`/`coolDisk` the rows, `stored`/`config` the configuration in the table and as loaded, time in ticks | `Evaluate*`, `Place*`, `Record*`, `Cleanup*`, `SetConfig`, `Restart` |
| `PaperAccount` | the account of one market | `acct` the tables (trades as their sums), `got` the value read last; *history*: whether trades came one at a time and uncut, and which sums the balance can have reached | one per statement, since the simulator has neither lock nor transaction; `SomeoneCommits`, `SomeoneRollsBack` for the other components |
| `AnalysisEngine` | scheduler, engine, parser, enqueue | `job` the locals of an analysis, `tables`/`disk` history and proposals | one per awaited step, with every `except` branch; `LoadNothing` for a run without a configuration |
| `AuditTrail` | what the engine promises of its records: a run is recorded before its proposals, makes no more than it announced, and is closed by its first error | per run: the durable rows, the number of durable proposals, whether it was lost | one per record, one per proposal; `Lose`, `Stray` for runs cut or not recorded |
| `SharedConnection` | explicit and implicit transactions of tracker, Co-Pilot and others | `tables`/`disk`, `inTxn` | one per statement; `SomeoneWrites`, `SomeoneCommits` stand for the other components |
| `MarketData` | poll loop, stream clients, cache, tracker's balances, switching | `tickers`, `queue`, `cache`, `task` the refresh tasks | `Fetch`, `Answer`, `Take`, `Switch`, `DeleteOthers`, ... |
| `KlineCache` | registry, cache and source of the candles | `cache` the candles (known by the time they were produced) and stamps, `file` what a load would find, `request` the fetch a request awaits | `Hit`, `Ask`, `Produce`, `Arrive` with each outcome of the save, `FallBack` and `Fail`, the clock, restarts, also in the middle of a save |

`MC*` modules instantiate these for TLC (small sets, symmetry); the refinement mappings to
`ProposalLifecycle`, `OrderLifecycle` and `AuditTrail` are at the end of `ProposalQueue`,
`OrderManager` and `AnalysisEngine`. The
other modules with variables have a `...Proofs` module with their theorems. Operators
commented "Mutant of ..." are plausible wrong versions of a definition, each of which breaks
the property `PROJECT.json` pairs it with; nothing else uses them.

Every component with tables behind the connection is modelled with its own view and its own
`disk`; how transactions meet statement by statement is the subject of `SharedConnection`. What the
others do to a component's pending writes is an action of its own: their commits wherever writes are
left pending, and the tracker's ROLLBACK (`tracker.py:214`) in `ProposalQueue`, `PaperAccount` and
`SharedConnection`. `OrderManager`, `Guardrails` and `AnalysisEngine` leave that ROLLBACK out: there
writes and commits are one statement apart, and their properties are about a process in which no
snapshot fails in just that gap. One that does loses the orders row, the event, the cooldown or the
history row that the code goes on to rely on.

Exchanges are external: they do what they are asked or not, and answer with a result, an error
status, an error in the body of a 200, or not at all. `ExchangeAdapters` is what each adapter
makes of that; `TellsTruth` says of which adapters "submitted", "cancelled" and "not listed" mean
what they say.

## 3. Runs

| Run | Question | Instance |
|---|---|---|
| `pq_race` | Is approve's decision durable before its order, are its orders and those of auto-execution bounded, are decisions and closed proposals left alone? | one proposal on an exchange whose adapter returns when refused, two overlapping requests, both scanners, LIVE mode, one restart, rollback or lost answer |
| `pq_refine` | Does the committed status follow `ProposalLifecycle`? | two proposals, one on either kind of exchange, one request at a time, the auto scanner with autonomy disabled, two restarts or rollbacks |
| `pq_live` | Does what says executed have its order or paper trade? Does every deadline take effect although exceptions abort scans? | two proposals, one eligible for auto-execution, one request at a time, the expiry scanner, PAPER mode, one restart, rollback or late exception; fairness |
| `pq_overwritten` | (violation) Are the transitions those of the documented state machine? | one proposal, two requests |
| `om_deployed` | Are orders journaled, rows and exchange in agreement, and does every order follow `OrderLifecycle`? | both managers, two orders, Binance and Hyperliquid, two clients, one failing write, one restart |
| `om_unsettled` | (violation) Does the sync bring the end of an order into its row? | one manager, one order at HTX; fairness |
| `pa_race` | No row without volume, no balance the trades cannot have made; do trades that came one at a time add up, and survive together? | two clients, three trades, two restarts or rollbacks |
| `gr_cooldown` | Does the verdict hold when it is used, are orders spaced, do expired rows go? | two clients, two pairs, a strict and a defaulted configuration, five ticks, one restart; fairness |
| `ae_runs` | Do the records of every run follow `AuditTrail`, is every run that found a configuration accounted for, every trigger answered? | two callers, two analyses, four kinds of items, one restart; fairness |
| `sc_transactions` | Are snapshots whole, replies durable and counted, is the last snapshot saved? | two requests of one session, two messages, one snapshot of two balances, one restart or stop |
| `md_switch` | Are data filed under their source, clients independent, is the cache that of the active exchange? | two exchanges, one symbol, two clients with queues of one message, two refreshes, two tickers |
| `kc_cache` | Is what is answered as fresh recent, does what was saved stay? | two requests, two kinds of candles, four ticks, two restarts |

**Bounds.** Two actors are what a race in this code takes: each hazard is one actor's stale read and
another's write, and a third can only repeat the second. One restart separates the lives of the process, and
one rollback, or one answer lost, meets every await of the others; `pq_refine` and `pa_race` take two in any
order (`MaxFaults`, `MaxCuts`), because there a cut can meet what an earlier one left. Queues of one message
make "full" happen at once. Five ticks exceed the longest cooldown of the configurations by two; four ticks
let candles stored after a timeout of one go stale (two) and be fetched again. Binance and Hyperliquid are
the two extremes of the adapters: one tells the truth and lists statuses no table knows, the other sends
nothing. One symbol is enough for `md_switch`, since the cache is compared by exchange. `MaxTime` and the
other `Max...` constants are bounds of the models, not of the code. Deadlock is not checked where the
bounded model stops by itself (trades, crashes or ticks used up); it is checked in `pq_race`, `pq_refine`,
`pq_live`, `md_switch` and `kc_cache`.

**Fairness.** `ProposalQueue`: weak fairness of the scanners (their loops catch every exception and go on)
and of the clock; none for requests or adapters. A scan that a row aborts starts again, in any row order.
The faults are bounded: a tracker that rolled every `_expire` back before its commit, for ever, would defeat
`DeadlineEnforced`. `OrderManager`: clients and sync go on; an exchange that is asked again and again
answers at times. It is stated only for the violation, which shows that even so a row is never settled.
`Guardrails`: only the cleanup loop, which catches exceptions. `AnalysisEngine`: what a caller does without
the model; the lock is first in, first out (`asyncio.Lock`), hence strong fairness of `Enter`; nothing makes
the model answer, so `TriggersAnswered` rests on the 60-second timeout.

**History variables in properties.** Some properties hold only up to an event the code does not guard
against, and name it: `serial` (trades that overlapped, or of which a rollback or a commit of another
component left a part), `undone` (a rollback between the INSERT of a proposal, or approve's UPDATE of it,
and the commit, or between its paper trade and the mark), `skipped` (a run that found no configuration),
`cut` (the write between an order's row and its entry failed), `kept` (the last save was not cut), `lapsed`
(a cleanup or crash took a cooldown), `torn` (somebody committed a part of a snapshot), `broken` (a rollback
undid a message), `overlapped` (two refreshes). `Truthful` and `TellsTruth` are conditions on the adapter.
Section 5 lists what happens then. Without these conditions the properties are false of the code, with them
they say that nothing else breaks them; in `OrderManager`, `Guardrails` and `AnalysisEngine`, nothing else
but the ROLLBACK that section 2 says they leave out.

## 4. Proofs

Every theorem is for any values of the constants: any number of requests, clients, managers,
orders, keys, restarts and failures, under the module's `...Assumption` only (`ManualBounded` and the two
`Serial...` theorems also assume what the table says). TLC evaluates the assumptions in the runs.

| Module | Theorem | Property |
|---|---|---|
| `ProposalQueueProofs` | `TypeCorrect` | `TypeOK` |
| | `WriteAhead` | `ManualWriteAhead`: an order of approve implies a durable decision, unless `undone` |
| | `RecordedOrders` | `RecordedOrderExists`: what says executed has an order, if the adapter tells and unless `undone` |
| | `DecisionsDurable` | `DecisionDurable`: no step undoes a committed decision, only a crash or a rollback a pending one |
| | `ManualBounded` | `ManualOncePerHandler`: at most one order of approve per handler, of which there are finitely many, unless `undone` |
| | `SerialAtMostOnce` | at most one order, for a single request handler: a corollary |
| | `ClosedForGood` | `ClosedStaysClosed` |
| | `AutoBounded` | `AutoOncePerScanner`: rollbacks and lost answers counted |
| | `SerialImplements` | `ImplementsLifecycle`, for a single handler and the scanner without autonomy |
| `OrderManagerProofs` | `TypeCorrect` | `TypeOK`, the lock included |
| | `WriteAhead` | `Journaled` |
| | `FilledOrdersOver`, `CancelledOrdersCancelled` | `FilledIsOver`, `CancelledAtVenue` |
| | `OpenOrdersTracked` | `OpenRowsTracked` |
| | `ImplementsLife` | `ImplementsOrderLifecycle`: row and exchange of every order follow `OrderLifecycle` |
| | `FinalRowsStay` | no final row is reopened or relabelled (`TerminalRowsStay`): a consequence |
| | `TruthfulAdapters` | `TellsTruth` holds of Binance and HTX only |
| `PaperAccountProofs` | `TypeCorrect` | `TypeOK` |
| | `RowsHaveVolume` | `PositionsPositive` |
| | `BooksBalance`, `FundedBuys` | `BooksMatchTrades`, `BuysFunded`: of trades that come one at a time and are not cut |
| | `BalanceFromTrades` | `CashFromTrades`: of any trades |
| `GuardrailsProofs` | `TypeCorrect` | `TypeOK`, the lock included |
| | `CooldownsDurable`, `VerdictNotStale`, `OrdersApart` | `PromiseDurable`, `VerdictHolds`, `PlacedApart` |
| `AnalysisEngineProofs` | `TypeCorrect` | `TypeOK`, the lock included |
| | `ImplementsTrail` | `ImplementsAuditTrail`: records and proposals on disk follow `AuditTrail` |
| | `AuditFirst` | a proposal on disk has its run's success row there (`ProposalsAudited`) |
| | `RunsAddUp` | `RunsAccounted` |
| `SharedConnectionProofs` | `TypeCorrect` | `TypeOK`: what is pending is in an open transaction |
| | `WholeSnapshots`, `LastSnapshotSaved` | `SnapshotWhole`, `FinalSnapshotSaved` |
| | `RepliesDurable` | `ReplyDurable` |
| `MarketDataProofs` | `TypeCorrect` | `TypeOK` |
| | `SourcesRight`, `ClientsApart`, `CacheOfActive` | `FiledUnderSource`, `ClientsIndependent`, `CacheFollowsActive` |
| `KlineCacheProofs` | `TypeCorrect` | `TypeOK` |
| | `AnswersRecent` | `FreshIsRecent` |
| | `CandlesKept` | `NothingForgotten` |

**Proposal queue.** None of the invariants is inductive alone. `IInv` adds what the program
counter implies:

- `HasProposal`, `Held`: a coroutine at work has a proposal, and its row is there unless a rollback
  took it;
- `DiskBehind`: what is decided or traded on disk is so in the connection's view, so that a restart or
  a rollback, which makes the two equal, cannot reopen what was seen closed;
- `ApproveCommits`: at `approveCommit` the decision is written, at `submit` it is committed:
  this is where write-ahead comes from. It needs that *nobody* takes a decided row back to
  `proposed`, which is a fact about every other coroutine's UPDATEs; a rollback does, and `undone` has the
  proposals it met at `approveCommit`;
- `OrderPlaced`: at `execute` and `mark` the order exists, so the row may be linked to it, if the
  adapter tells and no rollback took the trade;
- `LinkedRows`: the property, for `row` and `disk` separately.

What an action does to a row falls into few kinds (`Forward`: nothing decided, traded or linked is taken
back), and where a coroutine comes to into few (`Arrives`: what it must have done to be at `submit`,
`execute` or `mark`). `StepForward` and `StepArrives` go through the actions once; the parts of `IInv`
follow from these two and from what a rollback does. `DecisionsDurable` follows from `Forward`.

`ManualBounded` counts: `Approving(p)` are the handlers between the price fetch and the placement, and the
orders of `p` and these handlers together are at most all handlers (`ManualOK`). A handler joins them only
while `p` is proposed, and then, by write-ahead and `DiskBehind`, it has no order of approve; placing one
takes the handler out; a restart empties the set. Proposals in `undone` are not counted. Two requests that
overlap can therefore place two orders, and `SerialAtMostOnce` is the case of one handler.

`ClosedForGood` needs to know that a restart or rollback changes no decision nobody works on:
`PendingOwned`, what is not on disk of status and link belongs to a coroutine between its UPDATE and its
commit. `AutoBounded` counts what may still be placed: `May(p)` are the scanners that can place an order for
`p` before the next cut; placing one takes the scanner out of the set, marking the row keeps it out
(`OpenShrinks`), and only a restart or rollback, which adds one order per scanner to the bound, puts it
back. An exception behind an order puts one scanner back, and `lost` adds one order (`MayLose`).
`SerialImplements` follows the one request (`SerialOK`, `Stage`): what is on its way to disk is that
request's one change (`Passing`), and a commit, whoever's it is, makes it a step of the lifecycle
(`LifeCommits`); a rollback takes it back, after which the request goes on with a row that does not say what
it thinks, which is `undone` (`RollbackSerial`).

**Order manager.** The argument is the lock. `Belongs`: an order is worked on, tracked and
synchronised only by the manager that was asked to submit it; with the lock, whoever works on an
order is alone with it (`Exclusive`), so that a step disturbs only what is known of its own order
(`Frame`). What is left is to follow one operation:

- `ClientOK`: row, exchange and entry at each await of submit and cancel. Before `track` no entry
  of the order exists; at `cancelled` the exchange has cancelled it, if the adapter tells the truth;
- `EntryOK`: an entry under the UUID has an open row, unless it is just leaving (or a bare manager's
  write failed as it was), and its order is at the exchange. This, not the listing, is
  why "not listed" cannot mean "not yet placed";
- `SyncOK`: the batch is of the exchange that was asked, two entries of one order in it do not both
  have the UUID, and after the fetch what is not listed is not live (`LiveIsListed`, from the
  adapters);
- `OrderOK`: the properties, and that nothing is known of an order nobody asked to submit.

One lemma per action shows that the four are kept (`...Keeps`).

`ImplementsLife` maps each action to one of `OrderLifecycle` for the order it works on, or to a stutter
(`ClientImplements`, `SyncImplements`): what an operation finds in the row follows from the four. What they
do not say is that an order once seen partly filled is never taken for filled later; that needs `Once`: an
entry still under the UUID has a row that says submitted (`Unrefreshed`), because the refresh that writes
"partially_filled" replaces the entry by one under the exchange's id, whose UPDATEs match no row.
`FinalRowsStay` follows from the lifecycle alone, which has no way out of a final status (`LifeOfOrder`).

**Paper account.** `RowsOK` holds however trades overlap, because a stale row that is written back was a
whole row when it was read; a rollback gives numbers of rows again, so a row it goes to can be another one,
but numbers never coincide (`IdsOK`). `BooksOK`, for trades one at a time, follows the only trade from await
to await: what the tables lack of it then. For overlapping trades the books are wrong, and so they are after
a rollback in the middle of one or to such a point (`serial`, `savedSerial`); what is left is `CashOK`:
every balance stored, or read and about to be written back, can be *combined* with the dues of any of the
trades not yet paid and be a sum of some of the changes, each once. `Combines` is a statement about a set of
trades so that one trade less (`CombinesFewer`), one paid (`CombinesPaid`) and one begun (`CombinesMore`)
each keep it.

**Guardrails.** The lock leaves only time, the cleanup and a restart between verdict and order, and time
only helps (`VerdictOK`). A cooldown promised is owed by the client in the lock (`OwedOK`) or in the
table and on disk (`KeptOK`). The cleanup deletes what was over when it was read (`DoomedOK`), so a row
it takes too early is one renewed since: `lapsed`.

**LLM analysis.** A run belongs to one caller (`RunsOK`), and a caller writes rows of its own run only
(`Frame`), so that every lemma is about one caller. `StageOK` is what the tables hold of the run at each
await; `CommittedOK` what of it is on disk before the next proposal, which is where "audit first" survives
a crash; `OverOK` what remains in the end, which is nothing for a run without a
configuration; `AuditOK` the trail, for tables and disk, since a restart
puts the one in place of the other. `ImplementsTrail` is about what is on disk at every moment, not only
in the end. It rests on `OnePending`: the tables are ahead of the disk by at most what the caller in the
lock has just written, so that a commit, whoever makes it, is one step of the trail; and on
`LossOK`: a run is lost at its record at the earliest, after which only an error can be recorded of it.

**Shared connection.** Nothing is pending when a snapshot begins, so until it ends only its own rows are
(`SnapOK`): whoever commits meanwhile tears this snapshot and no other. Every request ends with a
commit, so what is pending belongs to one in flight (`StoredOK`, `WrittenOK`), and a
rollback or restart breaks those and nothing else. `CountOK` leaves out the answers between their INSERT
and their UPDATE.

**Market data.** A ticker is filed under the exchange remembered when it was asked for (`AskedOK`).
`ClientsIndependent` is inductive by itself, over two lemmas about what taking and putting do to a
queue. Refreshes that did not overlap are one, and after its DELETE every row is of the
active exchange (`CacheOK`).

**Kline cache.** That candles look fresh says only when they were stored. Their age is bounded since
a stamp is at most one timeout later than the candles (`Bounded`), because no fetch outlives its
timeout (`InTime`). `CandlesKept` needs `OnFile`: the file has what the last whole save wrote.

Only model-checked is what the prover cannot do: liveness (`DeadlineEnforced`, `ExpiredRowsGo`,
`TriggersAnswered`) and anything with ENABLED or induction over data. `SerialAtMostOnce` and
`SerialImplements` have hypotheses: one request at a time, as in `pq_live` and `pq_refine`, and for the latter
the scanner of `pq_refine`; `ManualBounded` has finitely many handlers. No module uses
RECURSIVE operators.

## 5. Where code and documentation differ

Shown by a run:

- `pq_overwritten`: a rejected proposal becomes APPROVED (and other transitions outside the
  documented machine), since each UPDATE is by id alone (`queue.py:193`).
- `om_unsettled`: the sync replaces an entry by the exchange's record; its id is then the
  exchange's, the next UPDATE matches no row and `del` raises KeyError every round
  (`manager.py:453`).

Met while reading, built into the models as they are:

- Orders. The REST manager has no guardrails (`main.py:592`; `README.md:128` of the repository says every
  order passes them) and is not told of a new active exchange (`server.py:309`). An order the exchange
  cancelled is recorded as filled (`manager.py:432`); its event can carry the exchange's id, which no row
  has (`:435`). A restart forgets open orders (`:96`). An order whose answer was lost is recorded as
  rejected and starts no cooldown (`:223`). Between placing and recording an order the REST manager can find
  the database locked for longer than its five seconds, for instance while the Co-Pilot waits for the model:
  the row stays pending, or the order untracked (`WriteFails`).
- Adapters. Hyperliquid's logs that it does not submit and returns a result with status "rejected"; the
  manager looks at no status, records the order as submitted, and the next sync, not finding it listed, as
  filled (`manager.py:245`, `:432`): an order that never was ends as a fill. Bitget's hands on an error in
  the body of a 200 (`bitget.py:165`; the step-1 document, `:416`, has every error raised): a refused order
  is recorded as submitted without an id, a refused cancel as done, and a refused listing as "all filled".
  `TellsTruth` marks the adapters without these. A status no table knows, such as Binance's for an order
  about to be cancelled, ends the sync round with an exception.
- Proposals. A failed price fetch turns approve's expiry test off (`queue.py:187`). Approve in PAPER mode
  places a live order, because only the scanner branches on the mode (`:215`). Two overlapping approves
  place two orders. An auto-execution whose answer is lost, or that raises behind its paper trade, leaves
  the row PROPOSED, and the scan repeats the order every 30 seconds (`:521`, `:561`). A refusal of
  Hyperliquid or Bitget comes back as a result, and the proposal becomes EXECUTED or AUTO_EXECUTED without
  an order (`:215`, `:521`). Both scanners auto-execute; with autonomy enabled, which the loader of the
  configuration never does, one proposal can be executed by both.
- Guardrails. The INSERT of a breach event violates the CHECK of migration 003 and raises out of `evaluate`:
  orders are stopped, but no breach is recorded and nothing is ever downgraded, as the README (`:29`) says.
  A market order has notional 0 and fails a minimum that is never 0 (a 0 in the table loads as 10). The
  portfolio rules get no snapshot and always pass. `max_exchange_exposure_pct` is not divided by 100, unlike
  its neighbours (`main.py:483`). A changed configuration reaches evaluator and parser at the next start.
  The cleanup deletes a row renewed since it was read (`cooldown_tracker.py:158`).
- Paper trades. Overlapping trades lose a change of the balance: each writes the balance it read, adjusted
  (`simulator.py:161`, whose docstring at `:153` promises an adjustment), and overlapping buys spend the
  same cash (`:271`). The caller does not commit, so a restart can lose confirmed trades (`:317`); what
  survives is a prefix, with cash, positions and profit to match.
- Analysis. A run without an enabled configuration, or whose SELECT of it raises, leaves no history row
  (`engine.py:109`, outside the `try`). When an enqueue fails the run has a success row and an error row. An
  empty whitelist allows everything in the parser, and nothing in the guardrails.
- Connection. The transaction of a snapshot includes what others write meanwhile, and a commit of theirs
  splits it. When the snapshot fails its ROLLBACK (`tracker.py:214`) undoes whatever anybody has pending,
  and nobody is told: an approval before its commit, after which the order goes out with PROPOSED on disk
  and the proposal can be approved again; a paper trade before its proposal is marked; half of a paper
  trade, whose other half is then written. A tracker cancelled in the middle leaves the transaction open,
  and the final snapshot is lost. A session deleted while an answer is awaited leaves an orphaned message.
  `message_count` does not count unanswered messages.
- Market data. `GET /api/market-data/stream` is declared after `GET /api/market-data/{symbol}`
  (`server.py:490`, `:427`), which therefore answers it, as the symbol "stream"; and the fetcher of both is
  never started. The stream delivers nothing, where the step-1 document (`:698`) has it deliver JSON events.
  A change of the pair list does not reach the fetcher (`server.py:346`). A refresh whose request fails
  leaves an empty cache (`cache.py:76`); overlapping ones leave rows of two exchanges or an IntegrityError
  in a task nobody awaits. A client that leaves while a message is being sent stays subscribed
  (`server.py:505`). `get_ticker` without an exchange returns the first ever filed, perhaps of an inactive
  one; the tracker's total includes such exchanges' balances.
- Candles. 4-hour candles are asked for as hourly ones without an aggregate, 5- and 15-minute candles as
  minutes with aggregate 1 (`cryptocompare.py:85`, `:96`; the comment at `:93` says this yields native
  candles). A request with a small limit is cached and answers later ones with a larger limit short; an
  empty answer is cached as fresh. The design document's fallback to Binance and its backoff
  (`kline-cache-design.md`, Error Handling) do not exist. The file is overwritten in place: a save that is
  cut loses all candles at the next start.

## 6. Not modelled

- Of the exchange adapters: signing, transport, balances and tickers. Their state is an HTTP
  session.
- Indicators, valuation and trade statistics: floating-point formulas without control.
- Prompts, JSON extraction and the front end: text.
- Settings file, migration runner, reset script: I/O, one actor, run once.
- The periodic loop of `LLMScheduler`: `main.py` never starts it.
- Exposure, position-size and daily-loss rules: they never fail as wired.
- A second market in `PaperAccount` and symbols beyond one in `MarketData`: rows of different
  markets share nothing but cash.
- The number of candles in a list, and the event stream as deployed (no message is ever sent);
  `MarketData` has the stream on the fetcher that runs.

## 7. Next steps

In this order:

1. *Composition.* The queue's placement as a call of the order manager, so that an order can be
   followed from proposal to exchange, through `ProposalLifecycle` and `OrderLifecycle`.
2. *Abstract specifications* of the other components, as `AuditTrail` is of the engine: what a client of
   the event stream is sent, and what the guardrails promise between two orders on a pair.
3. *Guardrail arithmetic* of the exposure and position rules over bounded inputs, for the day the
   evaluator gets a snapshot.
4. *Wiring.* The stream on the fetcher that runs, with the liveness "who stays connected is sent
   something", once the deployed program has it.
