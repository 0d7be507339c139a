# Verification of ib-gateway-mcp

ib-gateway-mcp is an MCP server in front of an Interactive Brokers gateway. A
language model calls its tools; the server previews orders, asks a human where
real money is involved, sends what was previewed, and keeps the session with the
gateway alive. This directory holds TLA+ modules of the server, the TLC runs
that check them on small instances, and TLAPS proofs for instances of any size.
Paths below are relative to `src/src/ib_gateway_mcp/`.

The server is one asyncio event loop: a coroutine runs undisturbed from one
`await` to the next, so an action of a module is the code between two awaits.
What interleaves is everything across an await: other tool calls, a human's
answer, IBKR's events, the session dropping.

## Inventory

| Component | State | Operations | Hard because |
|---|---|---|---|
| Preview tokens (`safety/tokens.py`) | pending previews and tombstones, two ordered dicts with a cap | issue, peek, consume, discard, purge | long call sequences, expiry by a wall clock that may be set back, eviction |
| Rate limiter (`safety/ratelimit.py`) | stamps of the last window | check, acquire, remaining, retry_after, reset | window boundaries, several slots at once, two clock readings in acquire |
| Circuit breaker (`safety/ratelimit.py`, `services/admin.py`, `mcp/tools/admin.py`) | count, opened_at, a state file | record_success, record_rejection, reset, save, load | writes that fail or are torn, restarts, concurrent resets |
| Submit path (`services/orders/`, `mcp/confirm.py`, `mcp/tools/orders.py`) | none of its own: tokens, limiter, breaker, login | submit_order from resolver to result | a human answers between the check and the act, the login changes, IBKR answers late or never |
| Orders at IBKR (`services/orders/_submit.py`, `_cancel.py`, `_trades.py`) | ib_async's trades and their logs | bracket unwinding, modify and restore, cancel-all | partial failure, errors attributed by log position |
| Previews and planning (`services/orders/_preview.py`, `_planning.py`) | none | what-if, bracket prices | arithmetic on ticks and sides |
| Order policy (`safety/policy.py`) | none | check | many limits, missing prices |
| Audit log (`safety/audit.py`) | a file | record | pure output |
| Connection manager (`connection.py`) | session state, flags, supervisor task | start, stop, connect, drop, probe, connectivity codes | every callback interleaves with the set-up |
| Account scope (`accounts.py`) | managed, allowed and default accounts | refresh, resolve, filter | refreshed at every connect |
| Subscription registry (`subscriptions.py`) | entries, key index, per-key locks | open, read, cancel, resubscribe, reap | opens awaited under a lock, drops during a resubscribe pass |
| Market-data streams (`services/market_data/`) | tickers, market-data lines | open, cancel, resubscribe | shared tickers, the line limit |
| Request plumbing (`services/base.py`) | request locks, pending requests | _call, _await_or_reject | answers after the timeout |
| Pacing and historical data (`services/_pacing.py`, `history.py`, `_durations.py`) | stamps, recent results, slots | admit, request, convert durations | two windows, weights, time passing while a call waits |
| FA configuration (`services/advisor.py`, `_fa_xml.py`) | previews of a replacement | fetch, preview, apply | late answers under a shared request key |
| Gateway log and health (`_gateway_log.py`, `services/ops.py`) | a worker thread, the last reading | choose files, date lines, fold phases, explain | rotation, lines cut off, offsets from UTC, a read that hangs |
| Accounts, positions, P&L (`services/account.py`, `_account_rows.py`) | the account streamed, locks | portfolio, P&L, open and completed orders, executions | one account streams at a time, answers without ids |
| Contracts and options (`services/contracts.py`, `_resolve.py`, `options.py`) | session caches | resolve, details, chains, slices | one row of several must be chosen, or none |
| News and scanners (`services/news.py`, `_hooks.py`, `scanners.py`) | streams, routes by request id, slots | subscribe, run, list | request ids start again with each session |
| Fundamentals and Wall Street Horizon (`services/fundamentals.py`) | metadata of the session | reports, events | IBKR wants the metadata first, in each session |
| Display groups, log level (`services/admin.py`) | group streams | subscribe, update | one more stream of the registry |
| MCP wiring (`mcp/`), facade and start-up (`gateway.py`, `startup.py`, `config.py`) | construction | register, build, validate | order of construction |

How they interact: a tool of `mcp/tools` is wrapped in the trading gate
(`registry.with_trading_gate`) and, where a human must agree, has a resolver
that runs first (`confirm.live_confirmation`). The tool calls a service; the
services share one connection manager, one subscription registry and one set of
safety rails (`safety/rails.py`: policy, limiters, breaker, previews, audit).
The connection manager calls the registry back after a reconnect.

## Correctness

* Tokens: single-use, good only for what was previewed, only while fresh; the
  caller is told truthfully why one is gone.
* Limiter: no window holds more than the limit; refusals are necessary and the
  announced wait is exact.
* Breaker: opens exactly after the configured number of consecutive rejections,
  stays open over restarts, closes only when a human says so.
* Submit: one submit per token; no live order without the human of that very
  call; a no is final once the tool's body has heard it; the account is the previewed
  one; a submit returns.
* Connection: the state shown is the socket's and the link's, an outage is dated
  from its start, silence is noticed, trading follows the present login.
* Subscriptions: one stream per key, caps hold, and a stream that does not say it is
  stale is served, but for the named cases.
* Orders at IBKR: an entry and its exits stay together, but for named races; a
  modification's terms are IBKR's in the end; an order is found wherever it moves.
* Requests: an answer is that of the caller's own request; what one session began is
  not confused with what the next has under the same id.
* FA groups: a replacement overwrites only what its preview showed.
* History: IBKR's pacing limits are kept. Log: the phase shown is the gateway's.
* Calculations: checks accept what they may, lists are whole or told as cut.

## Modules

`TokenBook` is the abstract promise of a token: *fresh*, then *pending*, then
*redeemed* or *lapsed*, one way, redeemed for exactly what it was issued for.

`PreviewStore` is `safety/tokens.py`. `entries` and `tombs` are the two dicts; a
serial number in each entry stands for dict order. Every public method holds the
store's lock and is one action, which purges first, as the code does, and
evicts, buries and caps in the same step. `Mutate` alters a stored entry behind
the store's back, which the digest is there to catch; `Tick` moves the wall
clock, backwards too. The variables `issued`, `uses`, `discards`, `granted`,
`latest` and `reply` record what callers saw. The digest is modelled by what it
detects (a preview that is not the sealed one); tokens are never drawn twice.

`RateLimiter` is the limiter with its deque as a sequence. `Acquire` takes the
second clock reading as a parameter. `taken` remembers every slot since the last
reset, the reference the deque is compared with.

`BreakerRules` is what one outcome does to the breaker in memory.
`CircuitBreaker` adds the file (absent, saved or torn), failing writes and
unlinks, the process dying anywhere, even inside the save, and the tool that
resets: `AskReset` is the resolver, `Confirm` and `Decline` the human (or the
gate), `ResetBreaker` the service, which looks at the breaker again. The limits
that configuration can switch off are modelled switched on.

`SubmitFlow` composes them: its tokens are `TokenBook`'s, which `PreviewStore`
is shown to implement, its breaker is `BreakerRules`, its rate window a number of
slots in use. A call of submit_order goes through `CallSubmit` (the resolver:
gate, precheck, question), `HumanAnswers`, then the tool's body: `DiscardToken`,
`RefuseSubmit` or `Submit`, the step without an await that checks everything
again, consumes the token and takes the slots; then `LookupEnds` for kinds that
look their order up first, and `ReturnResult`, which feeds the breaker. `Verdict`
is IBKR, at any time, also after the call has returned. `Disconnect` and
`Connect` change the login. Order limits depend on the stored preview only, so
they are left out; accounts are reduced to one per login, which is what the
checks tell apart.

A human's no is recorded with the call when it is given (`answer`). It ends the token
only when the call's body runs. Before that the resolver, which runs again under the
protocol that answers with a new request, or the trading gate may refuse the call; the
caller then gets that refusal, and the token stays as it was (`unheard`). Until the body
runs, another call of the same token with its own human's yes may be executed.
`DeclinedIsFinal` names both cases and excludes every other.

`Connection` begins with `accounts.py`, as operators on the settings and the accounts a
login manages. The rest is `connection.py`: `sup` is where the supervisor task is
suspended (`connecting`, `syncing`, `fetching`, `waiting`, `sleeping`), `state`
what it shows, `sock`, `link`, `login` and `hung` what the gateway is. The set-up is
one action per await (`SetUp`, `SetUpResumes`), and checks for a drop after each, as
`_on_connected` does; `Drop`, `LinkLost`, `LinkBack` and the idle timer and probe come
between any two. `StopBegins` and `StopEnds` are `stop` and `_abort`. A probe that
outlives its session (`orphaned`) has failed before the backoff ends: it times out in
10 s, the idle timer starts at 30 s. So `BeginAttempt` waits for it and for a forced
reconnect that is scheduled: that either hits the session after is assumed away.

`Subscriptions` is `subscriptions.py` with the tools that use it. A call opens at
most one stream, which bears its name. `entries` maps it to the number it was entered
with, which stands for dict order; `todo` is what a pass still has to go over. `held` is what IBKR serves, `stale` what the
entry says, `missed` and `leaked` remember how a stream came to differ. Opening waits
in `settling` or `asked`; a pass goes over the entries it began with (`PassGoesOn`) and
waits only for streams whose `resubscribe` is a coroutine (bars); the others run
without suspension. Settling (1 s) ends before the next connect. A stream of live
bars that is unsubscribed while its re-request waits is left at IBKR, as in the code.

The services keep little state of their own and share none of it, so each part is a
module of its own, small enough to be explored completely:

| Module | Part of the code | State and actions |
|---|---|---|
| `SharedRequests` | `services/base.py`: `_call` with an exclusive key, `_hooked_request` | the lock of the key, ib_async's one future per name, what IBKR was asked; timeouts, drops, late answers |
| `Modifications` | `_submit.py`, `_trades.py`: preview and submit of a modification | terms of the cached trade and of IBKR, the trade's log, the terms each call remembered; IBKR accepts, refuses or warns in its own time |
| `Brackets` | `_submit.py`, `_cancel.py`: placing, unwinding, cancel-all | each order at IBKR and as shown, the messages in between, the connection |
| `OrderLookups` | `service.py`, `_cancel.py`: order_status, cancel_order, the global cancel | the order's place at IBKR, the cache, the three places looked at in turn |
| `PreviewSteps` | `_preview.py`, `_planning.py` | where each preview is, slots, the market rule, what-ifs of one contract side by side |
| `OrderTerms` | `models/orders.py`, `_planning.py`, `_preview.py`, `safety/policy.py` | pure: terms of order types, modifications, brackets, price increments, limits |
| `HistoricalRequests` | `_pacing.py`, `history.py` | windows, bursts, cache, slots, under a clock |
| `FaConfig` | `services/advisor.py` | calls that read, preview and apply, the answers under way, IBKR's groups, another editor |
| `AccountUpdates`, `PnlReadings`, `OrderRecords`, `AccountRows` | `services/account.py`, `_account_rows.py` | the one portfolio stream; P&L subscriptions; open and completed orders of a read-only API; rows |
| `Resolving`, `OptionSlices` | `_resolve.py`, `contracts.py`, `options.py` | pure: which row answers a description, which chain and strikes |
| `SessionCache` | depth exchanges, scanner parameters, news providers, WSH metadata | a slot labelled with its session, fetched under a lock |
| `QuoteStreams`, `QuoteLists` | `services/market_data/` | the ticker's request, its ticks, widening and rollback; pure: lists of quotes |
| `NewsStreams`, `ScannerStreams` | `news.py`, `_hooks.py`, `scanners.py` | streams and what each request id stands for in this session; scanner slots |
| `Catalogs` | `news.py`, `scanners.py`, `fundamentals.py`, `_durations.py` | pure: cutting and filtering of lists, conversions of durations |
| `LoginPhases`, `LogReading` | `_gateway_log.py`, `ops.py` | a gateway that logs in and writes lines, and the fold of them; which lines are read and how they are dated; the worker thread |

A pure part is checked case by case: `...Cases` is the set of inputs, `...Right` compares
the operator translated from the code with a definition of what it is for.
The parts that have state and are proved about stand side by side in two modules over the
variables of `ServiceState`: `AnswerParts` has those whose answers and messages must be told apart,
`SessionParts` those that live with a session of the gateway. `AnswersSpec` and
`SessionsSpec` are behaviours of one part (`part`); parts that name a variable alike share
it, for only one of them moves. `MCServices` adds the pure parts, whose cases are `case`;
it is what TLC runs. The properties are grouped by what they promise.

What the parts show of the code, and what they leave out:

* `Modifications`: an error ends the wait of every modification of the order, and an
  acceptance of one ends the wait of another (IBKR's messages name the order only).
  A refusal by error code followed by a fill, before the call resumes, is reported
  accepted. The session holds throughout. Fills are left to the proof (`MaxFills` is 0
  for TLC).
* `Brackets`: the orders are placed without an await; a connection found lost on the way
  stops the row. What the code does not keep together, and the properties excuse by name:
  an exit IBKR rejects after the wait for its first answer, when nobody unwinds
  (`rejectedLate`); an entry that had begun to fill when an exit was rejected, which is
  left working, as the answer says (`left_filled`); an entry that begins to fill after the
  submit judged and before IBKR takes its cancel, which takes the exits of what filled
  along (`knewFill`); a filled entry whose exits a cancel-all takes (`swept`); a
  cancel-all whose re-sync fails, goes on with the stale trades, and so may skip an order
  that is working (`unanswered`). With the session gone when a bracket should be unwound,
  `submit` raises: nothing is cancelled and the breaker hears of no rejection; what holds
  at IBKR is stated of a session that is up.
* `OrderLookups`: one caller (locks are in `SharedRequests`); an order IBKR completed is
  listed as completed at once; a completed order of this client is found by order id
  only if its perm id was remembered; the allowlist is left out.
* `PreviewSteps`: one contract and one market rule; `flaw` is what is wrong with the
  order, prices off the increments or an order past the limits; a drop fails every wait
  at once; modifications' own trades are in `Modifications`. Prices are not held against
  a rule that could not be had, of a combo, or of a modification that changes none
  (`TicksChecked`).
* `OrderTerms`: a modification checks neither the display size against the quantity nor
  good-after against good-till again, and a bracket's stop entry is not compared with
  its exits. The policy's check: a sell with limit-if-touched is estimated at its limit.
* `HistoricalRequests`: an empty answer after nine tenths of ib_async's timeout is told as
  that timeout, since timers may fire early (`LooksTimedOut`); a request counts before it
  waits for a slot, so IBKR may see the requests of two windows together (`AtOnce` names
  the case); two equal requests that wait together both go out.
* `AccountUpdates`: a portfolio asked for just as the session drops may be the home
  account's last one; a late end of a download that was given up may end another's
  wait, so readings that begin after one was given up are not judged until the session
  drops (`late`, `spoilt`). `OrderRecords` has the same, for lists.
* `PnlReadings`: a reading does not share an open subscription here.
* `SessionCache`: what is kept may bear an older session than it came in, and is then
  fetched once more.
* `QuoteStreams`: a stream widened between a data loss and its pass is re-requested
  without a cancel (`replaced`); quotes read after a reconnect may be older than it,
  since `updates` is not reset; a refusal after the settling second ends the widened
  stream without a rollback.
* `OptionSlices`: rows of one class share the first row's multiplier.
* `NewsStreams`: one router; bulletins left out; the grace second ends before a
  reconnect. `ScannerStreams`: scans being opened by two callers at once are not
  counted (`raced`). `Catalogs`: the parameters' tree is two levels deep.
* `LoginPhases`: the lines a gateway writes are taken from the patterns in the code
  and their comments; the code never sees the gateway itself.

Names that a comment calls a *slip* are plausible mistakes in the definition
that follows. They are used by no specification; each property has one that
breaks it, listed in `PROJECT.json`.

## Runs

| Run | Checks | Bounds |
|---|---|---|
| `preview_store` | `MCPreviewStore.cfg`: invariant, single use, freshness, truthful explanations, late forgetting, caps, refinement of `TokenBook` | 3 tokens, 2 previews, cap 2, lifetime 1, clock 0..2 in steps 1, 2, -1: one more token than fits, expiry, two lifetimes at once, a set-back clock; tokens and previews are symmetric |
| `rate_limiter` | `RateLimiter.cfg`: window, waits, slots that stay free | limit 3, window 3, times 0..9 (three windows), requests of 1..4 (one over the limit) |
| `circuit_breaker` | `CircuitBreaker.cfg`: trips and resets over restarts, the exact threshold, confirmed resets; deadlock is checked | threshold 3, 5 outcomes per process, 2 crashes, 2 concurrent resets, 2 confirmations |
| `submit_live` | `SubmitFlowLive.cfg`: one submit per token, a no that was heard is final, halted new orders | 3 calls, 2 tokens, every kind of job, a live login that drops and returns, orders of 2, 2 slots, threshold 1: a third call always competes, one bracket fills the window |
| `submit_swap` | `SubmitFlowSwap.cfg`: live needs a human, right account, every submit returns | 2 calls, 2 tokens, two logins, paper or live; no symmetry, for liveness |
| `modify_while_open` | `SubmitFlowModifyWhileOpen.cfg`, expected violation | 2 calls, paper |
| `late_reject` | `SubmitFlowLateReject.cfg`, expected violation | 2 calls, paper, threshold 2 |
| `connection` | `MCConnection.cfg`: invariant, trading follows the login, silence is noticed, the manager keeps trying; deadlock is checked | a paper and a live account, any subset as login at each connect, four settings; no bound is needed, the state is finite |
| `subscriptions` | `MCSubscriptions.cfg`: invariant, nothing frozen or leaked but in the named cases | 3 calls, 5 keys of 5 kinds, cap 2, cap 1 per kind, 2 drops or losses: two openers of one key and a third at the cap, a loss during the pass after a drop; calls and bars are symmetric |
| `lost_open` | `SubscriptionsLostOpen.cfg`, expected violation | 1 loss |
| `services` | `MCServices.cfg`: ten properties of the parts above | two callers of each part (three for scanners), one more id, request, send or session than one call uses, so that a late answer or a reused id meets the next request; clocks run to the end of every window and timeout; no fills of a modified order; the cases of the pure parts are listed in their modules |
| `blamed_for_another` | `ModificationsBlamed.cfg`, expected violation | 2 calls, one changes the price |

Deadlock is not checked where the bounds stop the model: calls of `SubmitFlow` are
one-shot, clocks, tokens and request ids run out, and the pure parts of `services`
have no steps.

`connection` assumes weak fairness of the supervisor's next step (its task is ready,
a connect and each wait of the set-up has a timeout, the backoff is a sleep), of a
forced reconnect that was scheduled, of a probe that failed, and of the idle timer
and the probe's timeout while the gateway is silent. Neither the gateway nor IBKR
need ever do anything.

`submit_swap` assumes weak fairness of a call's own steps, and of nothing else:
the event loop runs a task that is ready, a lookup has `IB_REQUEST_TIMEOUT` and
the wait for a status has `status_wait`. Humans, IBKR and the connection may stay
silent forever.

### What the expected violations show

* `modify_while_open`: `_submit_modify` awaits `_own_trade` after the breaker was
  checked (`services/orders/_submit.py:411`). If another submit's rejection opens
  the breaker meanwhile, the modification is still sent. README and docs/tools.md
  say the breaker halts submission until a human resets it. New orders and
  exercises have no await there and do halt (`NewOrdersHaltWhileOpen`, proved).
* `late_reject`: the breaker hears of an order once, when the wait for its first
  status ends (`_submit.py:586`). Orders that IBKR rejects later never count, so
  consecutive rejections need not halt anything. README says they do.

* `lost_open`: a resubscribe pass takes the entries it finds (`subscriptions.py:327`). A
  quote stream that settles when IBKR loses its data is registered after the pass, as
  fresh, and stays frozen. The module says it is re-requested after error 1101.
  `FrozenOnlyIfOvertaken`, which holds, says that this and a cancel by a reused id are
  the only ways.
* `blamed_for_another`: two modifications of one order wait at a time. Each reads every
  error in the order's log after its own start, so one that IBKR accepts is reported
  rejected for the other's error, and its terms are put back in the cache. `_trades.py`
  calls it "why IBKR refused a modification". `ModificationsAreTrue`, which holds, says
  it does not happen to one that is alone.

## Proofs

Every constant is arbitrary, within the named assumptions of each module
(`StoreAssumption`, `LimiterAssumption`, `ThresholdAssumption`,
`FlowAssumption`, `ConnectionAssumption`, `ScopeAssumption`, `RegistryAssumption`, and
`AnswerPartsAssumption` and `SessionPartsAssumption`, which collect those of the services'
parts), which say no more than the constructors check or the types give; bounds of the models are any numbers. Each
module of proofs first shows that an inductive invariant holds. TLC checks every one of
these invariants too.

* `PreviewStoreProofs`: single use is not inductive alone. `IInv` adds that what
  is pending was issued, for that preview and that expiry, and never ended
  (`PendingIsIssued`), that what is buried was issued and is not pending, and
  that what was never issued is untouched. Lemmas about `Bury`, `Purge`,
  `MakeRoom` and `Verified` show that each only takes entries away; every action
  follows from them. That the tables keep within their caps needs a count: the keys
  lie in the order of the serial numbers they were entered with, so the later keys
  inject into 0..n-1 and what `Bury` and `MakeRoom` keep is no more than the cap. That
  a refusal is explained truthfully needs every tombstone to carry the reason of its
  token's end (`TombsTrue`). That a token is forgotten only late needs an account of
  every token that is in neither table (`Accounts`): it is two lifetimes old, or the
  table of tombstones was full of others when it was dropped, and those that are gone
  stay gone. The refinement maps a step that issues to `Issue`, a
  successful consume to `Redeem`, everything else to `Lapse` or a stutter.
* `RateLimiterProofs`: `StampsAreTheRecent` says the deque is a suffix of
  everything taken and the rest has left the window; that an acquire fits then
  gives `NeverTooMany`. Stamps are in order, so the slots that count at any later time
  are an interval of indices, whose size is a difference: that gives the exact wait
  (the slot it waits for is the last that must leave) and that free slots stay free.
* `CircuitBreakerProofs`: `TripIsSaved` follows the file from the trip to the
  reset; across a restart nothing else remembers. `YesesCovered` counts the yeses a
  human gave: each is used up by a reset, given up, or still held by a call that was
  told yes. `Counting` ties the count to the rejections at the end of the results since
  the start: a streak of `Threshold` is there exactly when the count got there.
* `SubmitFlowProofs`: `CallsConsistent` says where a call stands and what it may
  still do (one that looks an order up has every permission, on that login), and
  `AnswersConsistent` that only live accounts' humans are asked and that a no heard by a
  body ended its token, from which `DeclinedIsFinal` follows: only `Submit` executes
  (`OnlySubmitExecutes`), and only a pending token. One lemma per action.

* `ConnectionProofs`: the invariant speaks of state and socket, but a step's effect
  depends on where the supervisor is suspended. `Where` adds that, `Dating` what an
  outage was dated from, `Probing` that a probe is of the session that is up, `Scope`
  that a session being set up already has the accounts of its login. One lemma per
  action; `ResolvedIsAllowed` and `TradedIsPermitted` then give `TradingMatchesLogin`
  for every set of accounts and settings.
* `SubscriptionsProofs`: what TLC checks, that nothing is frozen once the passes are
  over, says nothing of the steps on the way. `SeenTo` does: a stream that is not served
  was overtaken, or a pass is to come, or the present one has not got to it. A pass that
  goes on takes several entries in one step; they are split at the first it waits for
  (`GoOn` picks the least, without a recursion; lemma `GoOnSplits`). The caps are counts
  of finite sets, which an opening can only move from one side to the other.
* `AnswerProofs`: for each part, an invariant that types what is on its way and ties
  it to the lock. `SharedRequests`: `Locked` says who has the lock and the hook, `Alone`
  that a call that asks has the line for itself, or sent behind one that gave up.
  `FaConfig`: what is awaited is the lock holder's, and `Compared` ties what an apply
  compared to IBKR's groups when the answer left. `PnlReadings`: who waits holds the
  lock, its subscription is the one filed, and IBKR streams no other (`FiledOnly`).
  `OrderRecords`: `OnTheLine`, that nothing of another kind is under way under the name
  of a call that is not spoilt. The steps of a behaviour of any part are that part's,
  which gives `AnswersAreOwn` and `OverwritesWhatWasShown`.
  `HistoricalRequests` (`HistoryIsPaced`): a request with rows is in the cache
  (`CacheHolds`), so what a call knew when it looked in vain was too old (`LookedInVain`)
  and is older when it sends, which gives `NotIdentical`; the rows are cached under the
  right request since the one a call has open is its last (`LastIsOpen`). For the pacing
  rules, `Counts` ties the stamps to what was admitted (`Load`, sent or waiting for a
  slot): since any time in the window no more was admitted than there are stamps since
  then, so an admission that fits leaves no window over the limit. The weights are
  counted as two sizes of sets, which need no sum. A refusal's wait is long enough since
  the stamps are in order (`LeavesInTime`), and a purge takes as much from the overflow
  as from the stamps.
  `PreviewSteps` (`PreviewsAreChecked`): who waits on IBKR holds a slot, the slots are
  finite, and each check is done before the step that needs it (`StepsInOrder`): the
  price increments before the limits, the limits before the what-ifs.
  `Modifications` (`ModificationsAreTrue`): what was asked and what IBKR says of it are in
  order, and each is sent once (`SentOnce`); an order's news of a call that is alone is its
  own (`HearsItsOwn`, `ReadInTurn`); while nothing overlapped, the terms in the cache are
  those IBKR has, will read or will echo (`TermsToKeep`).
  `LoginPhases`, `LogReading` (`LogIsReadRight`): the phase folded from the log tells
  where its gateway is (`PhaseIsWhere`), the times it is judged by are the gateway's own
  (`TimesAreKept`) and its counts start again with each login (`CountsStartAgain`), from
  which the advice follows. Of the worker: reads are numbered, and one that somebody gave
  up on is known to be overdue (`GivenUpIsOverdue`), so nobody else joins it.
* `SessionProofs`: the same for what lives with a session. `NewsStreams`,
  `ScannerStreams`: a session gives each id out once (`IdsAreApart`), and what IBKR sends
  is routed to who holds it (`Routed`); scans that run inject into the callers that hold
  one, which are counted (`SlotsCounted`). `SessionCache`: a slot is of a session that
  has been, and the exchanges fetched in this one are kept under it (`SlotFits`,
  `DepthKept`). `AccountUpdates`: IBKR's last switch is the lock holder's, and without a
  download that was given up the line holds only its own (`TargetFits`, `LineFits`,
  `GotFits`). `QuoteStreams`: the stream listened to is the one open or being opened
  (`Listened`), which is alone while it opens (`OpensAlone`); the request under the
  ticker is of a stream listened to (`FiledIsHeld`), with the ticks it has
  (`TicksAreStreamed`); one call widens at a time, and knows what the others were
  granted, so that a roll-back takes nothing from them (`WidenedAlone`). Together they
  give `SessionsAreApart`. `OrderLookups` (`OrdersAreFound`): a call that looks among
  the completed orders has an order that is open no longer (`LooksOn`), and the cache says
  of an own order that it is done only if it is (`CacheIsTrue`).
  `Brackets` (`BracketsAreWhole`): what holds of a bracket that has landed says nothing
  of the way there. A rejected exit is told of, or was shown before the judge looks, or
  came too late, or the answer says that the entry had begun to fill
  (`RejectionsAreHeard`), and no exit is cancelled unless the entry is over or is being
  cancelled (`CancelsTakeTheEntry`, `EntryEnds`); together they give `NoNakedEntry`. They need that what IBKR says is so when it is read and that nothing
  follows a refusal (`NewsIsTrue`), that what shows as over is (`ShownIsTrue`), and that
  orders are read before their cancels (`PlacedFirst`). A submit that saw a fill cancels
  nothing, and an exit it cancelled without one went with the entry (`FillsAreSpared`),
  which gives `ExitsOutliveTheFill`, and leaves it the race it names. For a cancel-all, what IBKR lists shows as open once its
  answer is in, whatever error comes in between (`AnswerShowsAll`), so that what it skips
  is over, and stays so (`StaysOver`): `SkippedIsOver`.

The theorems of the last two are about `AnswersSpec` and `SessionsSpec`; `services` checks
their properties of `MCServices`, whose behaviours of those parts are the same.

Theorems say for every configuration what the runs show for one. Only model-checked:
`CalculationsAreRight`, and all liveness (`SubmitReturns`, `HungIsNoticed`,
`KeepsTrying`). Liveness under fairness and ENABLED are
beyond the prover, and so is what a recursive definition or a fold computes (sums,
filters by `SelectSeq`): the registry and the limiter were given definitions by sets and
order instead; the pure parts, which sort, sum and filter lists, stay with TLC.

## Plan

1. *done* `TokenBook`, `PreviewStore`, `RateLimiter`, `BreakerRules`,
   `CircuitBreaker`, `SubmitFlow`, and their proofs.
2. *done* `Connection` composed with `accounts.py`, and their proofs.
3. *done* `Subscriptions`; the market-data streams on top as `QuoteStreams`.
4. *done* Orders at IBKR: `Brackets`, `Modifications`, `OrderLookups`.
5. *done* `FaConfig`, `SharedRequests`, `HistoricalRequests`.
6. *done* Proofs of the registry, and of the services' parts in `AnswerParts` and `SessionParts`.
7. *done* Pure operators with reference definitions, the gateway log, and the other
   services.

Left to model: depth and tick-by-tick streams, display groups, and snapshots of
subscriptions with the reaper's clock.

## Not modelled

`PROJECT.json` lists every component with its status. Left out on purpose:

* wording, logging and the audit trail: no decision reads them;
* MCP registration, wiring and authentication, the facade, start-up and the command
  line: built once, in a fixed order; what they decide for a call (the trading gate, the
  confirmation) is in `SubmitFlow`;
* display groups and the log level: a stream like the others, without data that
  decides anything;
* conversions of IBKR's data to the server's models, XML and HTML, where no property
  depends on them.
