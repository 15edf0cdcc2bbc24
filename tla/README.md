# Verification of stock-viz-simulator

TLA+ models of the parts of stock-viz-simulator where order matters: database
transactions that share rows, a Kafka pipeline with redelivery, replay sessions,
and the web client, whose pages race with their own requests, with the browser's
history and with other tabs. TLC checks the models on small instances; TLAPS proves
the main results for every value of the constants. Paths below are relative to
`src/apps/api/src/stockviz/`, those of the web client (`.ts`, `.tsx`) to
`src/apps/web/`, unless they start with `docs/`.

## 1. Inventory

The program is a FastAPI service over PostgreSQL with a scheduler process, a set
of Kafka workers and a Next.js client.

| Part | State | Operations | What is hard | What makes it correct |
|---|---|---|---|---|
| Trading ledger (`services/trading`) | portfolios, positions, pending orders, trades | market order, place, cancel, settle batch | requests and the nightly batch interleave; unlocked reads before the row lock; reservations derived from open orders | cash and shares never promised twice; the trade log explains the balances; a fill or cancel is final |
| Outbox and publishers (`events/outbox.py`, `workers/outbox_publisher.py`) | `event_outbox` | enqueue, claim with SKIP LOCKED, produce, mark, commit | crash between produce and mark; one failed produce in a batch | nothing is marked published unless it is in the topic |
| Trade activity (`workers/trade_activity_consumer.py`, `events/activity.py`) | inbox receipts, activity counters, group offsets | poll, apply, commit offset | redelivery, rebalance during handling, unlocked read of the counter, poison records | each event counted at most once; none passed over; per-portfolio order |
| Market and news pipelines (`events/dispatcher.py`, `handlers.py`, `inbox.py`) | inbox, bars, news, downstream outbox rows | handle, rewind, seek, commit | inbox race inside a savepoint, failed seek | each event applied once, with one downstream event |
| Replay sessions (`services/replay`) | session, position, fills, journal | create, advance, cancel, order, journal read and edit | journal is edited without the session's lock; bars change meanwhile | the book is what the fills say; no look-ahead; closed is final; thesis freezes |
| Options (`services/options/trade.py`) | option positions, cash, shares | open, close, expiry batch | the batch keeps locks across portfolios; shares the buying power with the ledger | collateral stays covered; each contract settles once |
| Dividends (`services/trading/dividends.py`) | credits | credit due dividends | the quantity is read before the lock | one credit per portfolio, ticker and ex-date, on the quantity held |
| Settlement calendar (`scheduler.py`, `services/ingest/bar_semantics.py`) | session dates, daily bars | jobs at fixed times | bars of a day are stored only after the day is over | a triggered order fills at the first eligible close |
| Scheduler (`scheduler.py`) | advisory locks | jobs | the lock's connection drops | one instance of each job |
| Bar screening (`services/ingest/screening.py`) | bars, quarantine | screen, release | the reference close moves between screening and release | no implausible bar is stored without a release |
| Alerts (`services/alerts.py`) | alert rows | evaluate | two passes over the same alert | one trigger per alert |
| Cache (`services/cache.py`) | permits, circuit | get, set | caller times out while the command runs on | permits are returned; the circuit closes again |
| Pure computations (analytics, journal aggregates, backtest, forensics, indicators) | none | read-only | boundary cases | agree with a reference definition |
| HTTP routers, auth, CLI, infrastructure | request-local | decoding, layout | none beyond the services they call | |
| Global search (`components/global-ticker-search.tsx`) | text, results, highlight | type, debounce, answer, pick | answers out of order, also across openings | the list answers the text |
| Comparison (`lib/compare-workspace.ts`, `components/compare-*.tsx`) | basket in the address, picker | parse, add, remove, navigate | the basket on the screen lags behind the address that was pushed | an address reads back as what was meant; figures agree |
| Trading journal (`components/journal`) | month cache, day and week reads | choose, refresh, abort, page, retry | aborts and retries overlap | every spinner has a request, every list is a prefix |
| Order tickets (`components/order-ticket.tsx`, `contextual-trade-ticket.tsx`) | form, address, pending actions | pick, follow, submit | the answer is lost after the booking | nothing is booked twice; ticket and page are of one symbol |
| Order and option lists (`orders/actions.ts`, `components/portfolio-*.tsx`) | rendered rows | cancel, close | the row ended elsewhere | a row that is gone is no longer offered |
| Replay pages (`components/replay-*.tsx`, `replay/actions.ts`) | range, rendered session, forms | choose, create, advance, order, cancel, journal | late ranges, another tab | dates are of the symbol; what is announced is shown |
| Alerts bell and page (`components/alerts-bell.tsx`, `alerts/`) | polls, rows | poll, create, dismiss, delete, evaluate | overlapping polls | a triggered alert gets to the bell |
| Signals (`components/signals-table.tsx`) | selection, history, transition | select, close, traverse, follow | effects of older renders | the detail shows what the address selects |
| Watchlist (`components/watchlist-*.tsx`) | star, rows | add, remove | other places change the same row | the star tells its last answer |
| Stock page (`stocks/[ticker]`) | comments, forms, tabs, chart address | post, reply, delete | navigations while an action runs | what was posted is shown |
| Backtest form (`components/backtest-form.tsx`) | fields, run, results | edit, run | edits while a run is under way | results say their run |
| Markets and screener (`lib/markets-table.ts`, `screener/page.tsx`) | address, rows, cached summaries | press, filter, apply | defaults, missing figures, meaningless parameters | a press turns the table; applying keeps the rows |
| Accounts (`lib/users.ts`, `auth.ts`, `proxy.ts`) | users, sessions, attempts | sign up, sign in, guard | two first sign-ins of one address | one account per address |

Interactions. Every fill inserts its trade row and its outbox row in the
transaction that changes the balance; the publishers and the activity workers
pick the event up from there. Settlement, options expiry, dividend credits and
requests serialise on the portfolio row (`SELECT ... FOR UPDATE`). Ingestion
writes bars and FX rates that all of the above read without a lock. The web client
reads and writes through the API only, by server actions and by requests of the
browser, except for the users' table, which the Next.js server keeps itself.

`PROJECT.json` lists every component with its status, and under `hazards` every
place where the code can go wrong in a way a test would hardly reach, with the
properties that watch it.

## 2. Modules

| Module | Models |
|---|---|
| `Tally` | finite sums `SUM_{x in S} f[x]`, without recursion |
| `AccountBook` | abstract: each accepted request and each settlement is one step on the committed books |
| `TradingLedger` | `services/trading`: `buying_power.py`, `execute.py`, `orders.py` |
| `Outbox` | `events/outbox.py`, `workers/outbox_publisher.py`; a library of actions |
| `TradePipeline` | extends `Outbox` with the consumer: `workers/trade_activity_consumer.py`, `events/activity.py`, `events/producer.py` |
| `ActivityFeed` | abstract: every committed trade is counted once |
| `ReplaySession` | `services/replay/session.py`, `ledger.py`, `market.py`, `journal.py` |
| `TickerSearch`, `CompareWorkspace`, `JournalPanel`, `JournalCalendar`, `OrderTicket`, `OrderBlotter`, `ReplayLauncher`, `ReplayDesk`, `AlertsBell`, `SignalsPage`, `Watching`, `StockPage`, `BacktestForm`, `MarketsTable`, `Screener`, `SignIn` | the parts of the web client, each with the API behind it |
| `MCTradingLedger`, `MCTradePipeline`, `MCReplaySession`, `MCWebPages` | instances for TLC |
| `TallyProofs`, `TradingLedgerProofs`, `LedgerBookProofs`, `TradePipelineProofs`, `ReplaySessionProofs` | theorems about the API |
| `WebFormsProofs`, `WebPagesProofs`, `WebWorkspaceProofs` | theorems about the web client: what is typed and submitted; pages and tables; selections that live in the address |

### TradingLedger

A request takes its steps where the code reads: the handler loads the bar and its copy of the
portfolio without a lock (`BeginMarket`, `BeginPlace`, `BeginCancel`), then the rate of the
trade (`ReadFxRate`); `lock_portfolio` waits for the row and refreshes the copy
(`LockPortfolio`, `RefreshedCash`); under the lock one query per order reads the rate that
prices its reservation (`PriceClaim`, kept in `quoted`); then the checks and writes commit
together (`MarketBuy`, `MarketSell`, `PlaceOrder`, `CancelOrder`) or the request is refused
(`Reject`). It may die at any point (`Abort`). `StoreRate` may fall between any two of these
steps, since no portfolio lock protects a row of `fx_rates`: one decision may price two
orders of one currency at two rates, and neither need be the latest at the commit. Check and
commit are one step because what the check used, the locked rows and the rates in hand, cannot
change in between.

`settle_pending_orders` is one transaction over all portfolios. `BeginSettle` is the
unlocked SELECT of pending orders. Each order is priced unlocked (`PriceOrder`,
`LeavePending`, `ReadFillRate`), its portfolio is locked (`LockForFill`), the order is
re-read, the claims of the others are priced (`PriceOtherClaim`), and it is
filled, dropped or cancelled (`FillOrder`, `DropOrder`, `CancelUncovered`). The
locks accumulate; the uncommitted writes live in the `draft*` variables until
`CommitSettle` publishes them together, or `AbortSettle` throws them away.

Reservations are not stored in the code and not in the model: `ReservedCash` and
`ReservedShares` compute them from the orders, at the rates that were read for them, as
`buying_power.py` does.

`AccountBook` is what this machinery promises: the same books with no sessions, locks,
copies, drafts or crashes, on which `Buy`, `Sell`, `Place`, `Cancel` and `Settle` are
indivisible and look at the cash, holdings and orders of that very moment. Only the rates that
price the claims may be older: `AskRate` puts one in hand at any time, every claim must have
one, and a decision on a book uses up those of its orders. `Settle` says of each book that
it takes exactly one row for each order it fills, at a close the order allows, and moves
by what those rows say. `BookSpec` (`TradingLedger`) states that the committed variables,
under their own names, behave so. An abstract market order may use any close and rate:
the code decides on a quote it read before the lock.

Abstractions. Money is counted in micros, so nothing is rounded. Average cost,
realized P&L and provenance rows are data that no check reads. Symbols and FX rows are
never deleted and a symbol's currency never changes, so the branch of
`orders.py:198-200` that cancels an order of a vanished symbol cannot be reached and
has no action.

### Outbox and TradePipeline

`Enqueue` belongs to the business transaction. `Claim` takes the oldest unpublished
rows that no other publisher has locked; `Publish` produces one and notes the mark;
`PublishFails` is a produce that raises, whether or not the record had reached the
broker (a flush that times out leaves it in librdkafka's queue); the batch goes on in
either case, and `CommitBatch` commits the marks. `PublisherDies` rolls them back.
`created` is the order of the rows' timestamps, which are taken under the portfolio's
lock, so within a portfolio it is the order of the commits.

The consumer: `Poll` advances the in-memory position at once; `SkipIncompatible` is the
`continue` on `SchemaIncompatibleError`; `FindDuplicate` and `ReadActivity` are the
inbox check and the unlocked read of the counter; `ApplyTrade` commits counter and
receipt together; `LoseRace` is the unique violation, which ends the worker because
`begin_nested` has flushed outside the savepoint; `CommitOffset` is the synchronous
commit, `FencedCommit` its refusal after the partition has moved. `Rebalance` gives a
partition to a worker that is in its poll; the old owner may still hold a record.
`WorkerDies` covers every other exception, including payloads that fail validation.

### ReplaySession

`Create` snaps the requested range to stored bars. Advance, cancel and order requests
load the row (`Load`), take its lock with a refresh (`LockSession`, `LockedCopy`) and
commit once (`Advance`, `CancelSession`, `CommitFill`) or end without a change
(`Refuse`, `NotFilled`, `Abandon`). `FindNextBar` and `Evaluate` are the reads in
between; ingestion may store or correct a bar after them.

Journal requests take no lock on the session. `ReadJournal`, `ReadFills`, `MakeRow`,
`FreezeRow`, `RereadJournal`, `CheckThesis` and `WriteThesis` are the separate reads and commits of
`journal.py`. The update statement names only the columns that differ from the row as
it was loaded, so `WriteThesis` leaves a lock that a fill has set meanwhile alone.
`MakeRow` waits for the session's lock because the insert's foreign key needs a share
lock on that row.

One thesis value stands for the four fields that freeze together. The reflection
field, average cost and realized P&L are not modelled.

### The web client

React and Next.js give the steps. An event handler, or an effect, runs to its end with
the effects of the render it causes, so it is one step; what comes back later (a
timer, an answer, the server's render of an address, the router's commit) is a step of
its own, and several may be outstanding in any order. A server action is sent, executed
or refused by the API, and answered or lost: a lost answer throws into the error
boundary, whose "Try again" mounts the segment anew. Rows at the API are a variable of
the module, and where the code allows it another tab, the settlement or the evaluation
pass changes them at any time.

- `TickerSearch`: the palette. `Type` and the debounce number the requests, `IsCurrent` is the guard on a late answer.
- `CompareWorkspace`: `ParseTickers` and `Push` are the two directions of the address; the picker adds to the basket it was rendered with, its universe and its searches come when they come. Returns and drawdowns of the window are fractions, compared exactly. Its loops (`OnlyIn`, `Distinct`, `MaxDrawdown`) are recursive functions on the positions of a sequence.
- `JournalPanel`: one record per request in flight; `Abort` ends what a new choice replaces. `recorded` counts the trades the API has by then, so that a page and a refresh may differ.
- `JournalCalendar`: `BuildCalendar` is the grid of the browser, `WeekSpans` and `MonthEnd` the loop and the bounds of `services/journal/aggregate.py`. The browser takes a month's last day from the Date of the next month's day 0, the API from the day before the next month starts; `DaysInMonth` and `FirstDay` are the two sides of that. TLC compares them for nine years around 2100, a century without a leap day between two leap years; the theorem is for every year.
- `OrderTicket`: both tickets. A submission carries what was in the form; `ApiBooks` counts the bookings of each in `book`. Answers are not kept: no property reads what a ticket says of them.
- `OrderBlotter`: rows as read for the screen beside rows at the API; `EndsElsewhere` is settlement, expiry or another tab. A status of the orders page or a tab of the portfolio is a navigation (`Choose`), which the server reads (`ReadRows`) and the router shows (`ShowPage`) in their own time, as it does with the page an action brings (`Revalidate`, `Return`). The router sends actions one at a time (`Sent`) and may drop the page of one that a navigation has overtaken. `missed` are the rows whose actions came back after a page was read.
- `ReplayLauncher`, `ReplayDesk`: the range of the chosen symbol, and the workspace of a session as it was last rendered. `ReplayDesk` keeps of the API only what the forms meet; `ReplaySession` is the API's own model.
- `AlertsBell`: bell, page and form over `alertRow`, with the unlocked read of the evaluation pass (`ReadPending`, `CommitHits`).
- `SignalsPage`: `trail` is the browser's history, `detail` the component's refs and state; `SyncOnce` is the effect that reads the address.
- `Watching`: the star, the controls and the page over the same rows.
- `StockPage`: comments of the user and of others, with their forms. The API lists the newest top-level comments up to a limit, with their replies (`PagesRead`). As on the orders page, the server reads a page (`ReadComments`, `Revalidate_`) and the router shows it later (`NavigationArrives`, `Return_`), or drops that of an action a navigation has overtaken. `missed` are the comments whose posts came back after the page on the screen, or one under way, was read. The comments carry what the property needs; the chart and the user's position keep no state on the client and are left out.
- `BacktestForm`, `MarketsTable`, `Screener`: what the fields and the address say, what the API answers, and what the results say of both. The screener's limit cuts before the momentum filter, as the code does. The sort of the markets table is given by rank: a row stands behind those the comparison puts before it, which is where any correct sort puts it, since the comparison falls back on the API's order. A text in the screener's address is a number, one that only `Number()` reads (`ReadAs`: `" "`, `"+30"`, `"0x1f"`), the empty text, or none; `num` and `FieldOf` are the two readings of it, the request's and the number field's.
- `SignIn`: browsers over one table of users; looking up and inserting are two steps, the unique key makes the second insert fail.

`MCWebPages` explores them, but for the bell, together without multiplying them: the page is chosen at the
start, its part takes the steps and the others rest. The parts share no variable, and
each meets the rest of the system through the rows its own module keeps, so that no
behaviour of a part is lost.

## 3. Runs

| Run | Question | Bounds |
|---|---|---|
| `ledger_one_book` | do overlapping requests, settlement and crashes keep every promise backed at fixed rates? | one portfolio, two sessions, three orders that compete for 3 units of cash and 1 share, closes 1 and 2, at most one trade before a further market order |
| `ledger_fx` | does the ledger implement `AccountBook`, also when FX re-prices the reservations? | two portfolios in one batch, one promising shares and one cash, two sessions, two rates, so that what was left after a market buy no longer covers an accepted order |
| `ledger_liveness` | does waiting for row locks end? | two portfolios, so the batch holds one lock while waiting for the other |
| `pipeline_safety` | are events counted exactly, and does the pipeline implement `ActivityFeed`? | two trades, two publishers, two workers, batch of two, two copies |
| `pipeline_incompatible` | do unparsable records disturb the counts? | two portfolios on one partition, one record that does not parse |
| `pipeline_liveness` | is every trade counted in the end? | one publisher, two workers, two trades |
| `pipeline_order` (violation) | does one portfolio's activity stay in order? | as above |
| `pipeline_skip` (violation) | is a skipped record ever applied? | as above |
| `replay_safety` | is the replay book right, the clock honest, a closed session final? | two overlapping requests, three bars, the middle one corrected, two fills |
| `replay_journal` (violation) | does the thesis freeze at the first fill? | two requests, one fill |
| `web_pages` | does every page show what was asked, and write it once? | one page at a time; two or three symbols, rows or requests each, two submissions, two mounts of a ticket, history of three addresses |
| `web_bell` | does a triggered alert reach the bell? | one alert, two polls at a time, two buttons pressed |

Two sessions, two publishers or two requests are enough for the hazards listed: each
is a conflict of two transactions, or of one with itself run again. Sums and queues
need two entries to show a lost or repeated one. The bounds appear in the guards:
`MaxTrades` and `MaxFills` limit how many requests are started, `MaxCopies` how many
faults may repeat a record; none of them forbids an outcome of a step once begun.
The safety runs of the ledger, the pipeline and the replay use symmetry over interchangeable
processes; `web_pages`, whose lists are ordered, and the liveness runs do not.

What the properties of `web_pages` say, each on its page:

| Property | States |
|---|---|
| `ListAnswersQuery` | after the debounce the list is that of the text, in whatever order the answers came |
| `ComparisonIsRight` | an address that is pushed reads back as its basket; drawdown, ranking and leader agree |
| `PanelIsSound` | nothing loads without a request for what is open; the trades listed are a day's first, each once |
| `CalendarRowsMatchWeeks` | browser and API cut a month into the same weeks, and Home and End stay in a row |
| `SubmissionsAreSafe` | no submission is booked twice; the trade page has one at a time |
| `TicketFollowsUrl` | the ticket is for the symbol the page shows, unless a link overtook a pick |
| `EndedRowsAreNotOffered` | a row whose action came back is offered again only by a page read before it, and only if the user navigated meanwhile |
| `RangeIsOfTicker` | the launcher's range is the chosen symbol's, once the request for it has its answer |
| `AnnouncedIsShown` | a fill or an advance that is announced is also shown |
| `SelectionFollowsAddress` | at rest the detail is what the address selects |
| `StarTells` | the star tells whether its symbol is listed while the press it answers is the last write |
| `PostedIsShown` | a comment the form calls posted is on the page until it is deleted or newer threads fill the page; a page that could not be read is left out, and one read before the post came back, which takes a navigation |
| `ResultsSayTheirRun` | figures name the run they are of, and stand beside no error |
| `OneAccountPerAddress` | one account per address, in any spelling and race |
| `PressTurnsTheTable` | a press on a head keeps the symbols and sorts them as it then says, missing figures last; on the sorted column it turns them, but for a table ascending by default |
| `ApplyKeepsRows` | applying a form as rendered drops the filters it cannot show and no other, and keeps the rows when there are none |

Two mounts, two outstanding requests and one other writer are what the hazards of these
pages take: an answer for something that has been replaced, and a row that changed
between being rendered and being pressed. The bounds (`MaxSearches`, `MaxQueries`, `MaxClicks`,
`MaxSubmissions`, `MaxMounts`, `MaxViews`, `MaxCalls`, `MaxHistory`, `MaxToggles`, `MaxPosts`,
`MaxForms`, `MaxRanges`, `MaxEdits`, `MaxPolls`, `MaxPresses`) are guards of what a user starts, never of
an answer. A user may stop at any time, so these runs do not check deadlock.

`CashPromisedIsThere` and `OnlyOwnerCancels` hold only while no rate moves, and
`ledger_fx` therefore does not check them: a reservation is re-priced at today's rate,
and settlement then cancels what the account no longer covers (`orders.py:302-313`).
`TypeOK` and `SharesPromisedAreHeld` do survive FX moves: cash and holdings stay natural
numbers and promised shares are held. `ledger_one_book` checks them at a fixed rate and the
theorems `TypeCorrect` and `SharesSafe` prove them for any moves.

What the violation runs show:

- **`pipeline_order`**. `publish_batch` notes a failed produce and goes on. A later trade of the same
  portfolio reaches the topic first, and `last_trade_id` later moves backwards.
  `docs/KAFKA_SCALING.md:94` says keying keeps a portfolio's activity in order.
- **`pipeline_skip`**. The trade-activity loop continues after an incompatible record, and
  the next record's offset commit passes over it for good. `events/dispatcher.py:53-54`
  calls that silent data loss, for this stream too.
- **`replay_journal`**. A journal edit finds no fill, the first fill commits, and the edit
  then writes its thesis. `docs/SIMULATION.md:392-394` says the thesis locks at the first fill.

Each property of a passing run has a mutant in `PROJECT.json`: a definition of the
model changed as a plausible bug would change it, under which TLC finds the property
violated in the same run. The mutated forms stand next to the definitions.

## 4. Fairness

`TradingLedger!Fairness`: a transaction that is not waiting goes on (weak fairness of
its reads of rates and of the steps under the lock); PostgreSQL queues the waiters of a row, so one that keeps
waiting gets it (strong fairness of `LockPortfolio` and `LockForFill`). Nothing obliges
a request or a batch to start or the market to move.

`TradePipeline!LoopFairness`: the publisher and worker loops run for ever and their
supervisor restarts them, so a process with work to do does it. `FaultsEnd`: failures
are finite in effect. Without it no pipeline delivers anything. `FeedLiveSpec` is
checked under both.

`AlertsBell!AlertsFairness`: the interval of the bell goes on; a poll that is sent again and
again is served again and again, and its answer lands (strong fairness: neither refusals nor
lost requests go on for ever). Nothing is assumed of the user, the page or the evaluation pass.

`ReplaySession` and the other parts of the web client state no fairness: they are checked
for safety only.

## 5. Proofs

All theorems are about the specifications that TLC checks, for any constants that
satisfy the named assumptions.

**Sums (`TallyProofs`).** `Tally(f, S)` counts pairs, so its laws (empty, add one, remove
one, disjoint union, equal on equal values, monotone) follow from the theorems on finite sets and need
no induction. They are what the reservation arguments rest on.

**Ledger (`TradingLedgerProofs`).** `Coherent` is `TypeOK` with `RequestsCoherent` (a request past its
lock holds the row and a copy equal to it) and `BatchCoherent` (the order at hand
triggered at the price that was read). `TypeOK` alone is not inductive: that cash
stays a natural number after a debit depends on the copy being fresh, which is what the
refresh under the lock gives. `TypeCorrect` follows. `SharesSafe` adds
`SharesBacked`: promised shares are held both in the committed books and in the drafts
of every portfolio the batch has locked, since `CommitSettle` publishes those drafts.
The lemmas take one group of actions each, and say what a smaller set of pending
sells, or one sell less, does to the sum.

**Ledger books (`LedgerBookProofs`).** The same doubling serves the other properties of the
ledger. `StatusesSound` says that a draft changes pending orders only, and that an order about
to be inserted is inserted by one request; no ended order is then reopened by a commit
(`TerminalFinal`). `BooksSound` says that committed and draft books alike are what their trade
rows add up to, with one row for each filled order; it numbers the rows, so that a new row
is never one that was there (`BookExplainedByTrades`, `OneTradeForEachFill`).
`RequestIsolated`, `LockForFillStep` and `EndSettleStep` say once what a step does to one book:
keeps it, copies it, publishes it.
`CashBacked` is `SharesBacked` for cash, and an invariant only of behaviours in which no
rate moves, so `CashSafe` and `OwnerCancelsOnly` assume `[][RateKept]_vars`: a reservation is
valued at today's rate. Rates in hand are then the current ones (`QuotesCurrent`), so what a
decision adds up is what is promised (`QuotedPromise`). Under that assumption the order at hand was priced at the rate that its
reservation uses and fills at its limit or better, so its own reservation covers it
(`FillIsCovered`) and `CancelUncovered` is never enabled.

`LedgerIsAccountBook` is the refinement. A request's guard, evaluated on its own copy of the
cash, is the abstract one because the copy of a lock's holder is fresh and the orders it
priced are the pending ones at the commit (`SameClaims`, `ServedIsAtomic`); every other step
but `CommitSettle` leaves the committed books alone. The rates in hand are the same in both
modules: a read is `AskRate`, a rolled-back transaction forgets (`ForgottenIsForget`), and only
the holder of a book's lock has any for it, so a decision uses up its own (`LocksOwned`).
For the commit, `DraftsExtend` is the invariant that is needed: the draft of a locked book is the
committed book with some of its pending orders filled, each by a row at a close it allows,
and some cancelled. Committed book and draft are both explained by their rows (`BooksSound`),
so the new rows explain the difference (`NewRowsAdd`), and each filled order has one of them.

**Pipeline (`TradePipelineProofs`).** `PipeInv` joins the outbox's invariant (a row acknowledged in
an open transaction is in the topic) with the consumer's: positions and committed
offsets lie in the log, a record in hand is the one at its offset, everything below
the committed offset was counted or is incompatible, and a count read for an
event without a receipt is still the stored one. The last part is why the unlocked read
of the counter is safe: everything before a record in hand has been applied, so two
workers that both hold uncounted records of a partition hold the same event, and the
receipt's unique key lets one of them through.
From it follow `CountExact`, `PublishedSafe`, `PipelineTypes`, and, when every payload
parses, `CommittedSafe`. `PipelineImplementsFeed` is the refinement: outbox rows are
what was recorded, receipts are what was counted, and every step is a `Record`, a
`Count` or a stutter.

**Replay sessions (`ReplaySessionProofs`).** `ReplayInv` adds to `TypeOK` what a session
is (`SessionSound`: it stands on a stored bar, the end of its range is stored, it is active
before the end and completed at it) and what a request knows (`RequestSound`: under
the lock its copy is the session; the bar it found is ahead and stored; the fill it is
about to commit is covered; the instant it may lock the journal at is that of a fill).
The end being stored, and bars never being deleted, is why `CanAdvance` needs no bar:
`HasNextIsRightHolds`. From `ReplayInv` also follow `TypeCorrect` (no order takes cash or
shares that are not there), `FillsFollowClockHolds`, `LockedByFillHolds` and
`TerminalIsFinalHolds`; `FillsExplainBookHolds` is a second induction on top of it, by the
laws of sums.

**Web pages (`WebPagesProofs`).** Each page has an invariant that says what an answer under way
may claim. `BlotterSound`: a row that an answer calls ended has ended at the API (`AnswersTrue`); the
rows of every page, shown or under way, are those of a moment, and all actions that came
back later are in its `missed`; without a navigation one action at most is at the API
(`OneAtATime`), so none comes back beside a page under way (`BlotterSafe`).
`LauncherSound`: the newest request is the one awaited and is for the symbol on the screen,
so a late answer is another request's (`LauncherSafe`). `BacktestSound`: a request under way
is the last submission (`BacktestSafe`). `DeskSound`: the session only moves on, the page shows
a state it was in, and what an answer tells was true when it was given (`ToldTrue`), so a
page rendered when the answer arrives shows it (`DeskSafe`). `ScreenSound`: rows on the screen
are those of the address; `FormAsksTheSame` is the lemma that a form rendered from an address
asks for what the address asks for, but for the filters it hides (`ScreenerSafe`, an action property).

The markets table is an action property and an algorithm. `TableIsOrdered` shows that the
comparison orders the symbols strictly, whatever column, direction and figures, so that the
ranks of a finite set are 1 to its size and `ShownIsSorted`: the table holds exactly the
members of the sector, each above those it goes before. `HeaderLeads` says what address a
press leads to; with both, a press on the sorted column turns around every pair that has
different figures, unless the table is `AscendingByDefault` (`MarketsSafe`). `MarketsSound` only keeps the day one that has figures.

**Forms (`WebFormsProofs`).** These are races of an answer with a later input.

- `SearchSound`: the search that is due or under way with the newest number is for what is typed; any other answer has an older number (`SearchSafe`).
- `SignInSound`: every address is stored in lower case, a session names a row, and nobody is on a protected page without one. That two rows never share an address then rests on the lookup being of the lower-cased address and on the unique key (`AccountsSafe`).
- `WatchingSound`: a call the API has carried out is the writer of its symbol until another is, and the list then says what the call asked for. It ties the star to the call it answers rather than to the list, because the list may have changed since (`StarSafe`).
- `SubmissionsSound`: each request in flight carries a submission of its own, of which the API has booked nothing while the request may still reach it (`SubmissionsSafe`). A request is tried once, never again after a lost answer; without that the invariant fails, and with it the property.
- `SymbolSound`: a ticket for another symbol than the page's is one whose navigation is pending or was overtaken (`TicketSafe`).
- `StockSound`: a post writes its comment once and replies to one that may be answered, a form says Posted of a comment that was written, and every page, shown or under way, lists a written comment unless it missed it or newer threads fill it. Without a navigation one action at most has left the browser (`OneCall`), so that no page under way misses the other (`DiscussionSafe`).

**Workspaces (`WebWorkspaceProofs`).** Pages whose selection lives in the address.

- `SignalsSound`: a detail that neither moves nor waits for an address shows what the address it was last rendered for selects. Each handler and effect either settles the detail or leaves it waiting, so the invariant passes through the states in which selection and address differ (`SelectionSafe`).
- `PanelSound` is a conjunction of parts that read different fields of the journal's panel (month, week, day), so a step has to show only the part it disturbs. The day's part is the deep one: at most one read serves the open day, and a further page starts where the list ends (`PanelSafe`).
- `CompareSound`: baskets on the screen and in a pushed address hold known symbols, no repetition and at most six. The rest is about algorithms. `OnlyInIs` and `DistinctIs` characterise the two loops of the parser, `BasketReadsBack` says that parsing a basket returns it; `DrawdownIsWorst` that one pass with a running peak finds the worst fall between any two closes; `ReturnsRankChartEnds` and `LeaderRanksFirst` that ranking by return is ranking by the chart's last point (`ComparisonSafe`).
- `CalendarSound` says little; the theorem is about dates (`CalendarSafe`). `MonthsMeet`: the day before the first of the next month is the last of this one, over leap years and centuries. `LoopCutsWeeks`: the API's loop yields the weeks of a closed form. `GridCutsWeeks`: so do the browser's padded rows. `KeysFollow`: Home and End are the ends of that form.

Induction over data. The library's induction theorems take an operator as a parameter,
which the installed provers cannot instantiate. `UpTo` is induction for a set of naturals that
holds what is to be shown, from the library's theorem on minimal elements; `LoopRuns` uses
it to show that a loop given by a step function has a run, so that the function a recursive
definition chooses exists and satisfies its equation. With both, `OnlyIn`, `Distinct`,
`MaxDrawdown` and `WeekSpans` are proved for sequences and months of any length.

**Assumptions on the constants.** They are what the code or its schema fixes: known symbols and
columns, parsers that are idempotent on known spellings, markers such as `Blank`, `NoFigure` or
`Absent` that are no value, a sample basket without repetition, years from 1 on for the calendar.
TLC evaluates each in a run.

**Only model-checked.** Liveness, which is out of the prover's reach: `RequestsEnd`, `BatchEnds`,
`FeedLiveSpec` and `BellCatchesUp`. Every other property of a passing run is a theorem.

## 6. Not modelled

`PROJECT.json` gives the reason for each component. In short: screens of numbers
(indicators, recommendations, sentiment scores, the strategies of a backtest) are floating
point; routers and the CLI add no state of their own; provider ingestion appears as its
effect on bars and rates; dashboard, portfolio, settings and public pages render what
the server has read. Portfolios start funded: the creation of a user's default portfolio is
outside `TradingLedger`. Dividends, options (`services/options`) and the settlement calendar
change the same books and are the largest parts of the API without a model.

Behaviour that was met while modelling and that no property forbids:

- `trade/options-actions.ts:101` takes only a 404 for a position that is "already gone", while
  `services/options/trade.py:213-229` keeps the row and answers 400: closing late throws into the error boundary.
- A failed read of the comments or the watchlist is rendered as none (`stocks/[ticker]/page.tsx:111`): the page says there are no comments.
- The sheet's ticket waits for the hook of the chosen mode only, and a sheet that is opened again for none (`contextual-trade-ticket.tsx:136`, `mobile-trade-sheet.tsx:62-66`).
- `replay/actions.ts:29-37` revalidates nothing on a 409, so that a stale workspace keeps offering what is refused; its page is made of seven parallel reads (`replay/[sessionId]/page.tsx:56-64`).
- `replay-launcher.tsx:54` keeps a start that lies after the new symbol's last date.
- Quick toggles of the chart start from the rendered indicators (`stock-chart-toolbar.tsx:28`), and the signal links from the selection the server knew (`recommendations/page.tsx:84`).
- `/markets` and `/markets?sort=ticker` are ascending, and their Ticker header leads to ascending again: `sortHref` takes an absent direction for `desc` (`markets-table.ts:93`, `markets/page.tsx:47`), so the first press turns nothing. `flipDir` itself toggles, as its test says (`tests/unit/markets-table.test.ts:108`).
- The screener filters by texts its fields show as empty: `Number()` makes 0 of `rsi_min=%20` and 30 of `+30` (`screener/page.tsx:38-42`), and Apply then drops the filter.
- A star keeps its last answer over a later render that knows better (`watchlist-toggle.tsx:24`).
- A comment just posted as a reply may be off the page at once, when 50 newer threads fill it (`lib/api/comments.ts:15`), or missing from one that was read before it.
- The cap on alerts counts before it inserts (`routers/alerts.py:58-66`); a deletion during the evaluation pass loses the whole pass (`services/alerts.py:44-71`); the scheduled and the event-driven pass may trigger the same alert.
- A deletion of a comment fails when a reply arrives in between (`routers/comments.py:191-197`).
- The navigation's link to the screener keeps edited fields over an unfiltered list (`app-navigation.tsx:81`); the limit cuts before the momentum filter (`routers/screener.py:102`).
- A sign-in that fails after the account was created makes the second submission say it exists (`(auth)/actions.ts:90`); the guard drops the query of the page it interrupts (`proxy.ts:35`).
- In the API, and outside the models: expiry settles at the latest bar, which may be the previous day's (`services/options/trade.py:376`), and keeps locks across portfolios (`:390`); the advisory lock ends with its connection (`scheduler.py:103`); a cache call runs on after its 40 ms (`services/cache.py:124`).

## 7. Where it could go on

`OptionsLedger` and `DividendCredit`, the other writers of a portfolio; the settlement
calendar; `MarketPipeline` on top of `Outbox`.

## 8. Running

    tlc -workers 2 -config LedgerOneBook.cfg MCTradingLedger
    tlc -workers 2 -config PipelineSafety.cfg MCTradePipeline
    tlc -workers 2 -config ReplaySafety.cfg MCReplaySession
    tlc -workers 2 -config WebPages.cfg MCWebPages
    tlc -workers 2 -config AlertsBell.cfg AlertsBell
    tlapm TallyProofs.tla
    tlapm TradingLedgerProofs.tla
    tlapm LedgerBookProofs.tla
    tlapm TradePipelineProofs.tla
    tlapm ReplaySessionProofs.tla
    tlapm WebFormsProofs.tla
    tlapm WebPagesProofs.tla
    tlapm WebWorkspaceProofs.tla

A violation run must end with the violated property. The other configurations pair
with the module whose name they begin with (`Ledger*`, `Pipeline*`, `Replay*`).
