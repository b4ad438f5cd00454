# SharekhanCopyTrader in TLA+

TLA+ modules, TLC configurations and TLAPS proofs for the copy trading system of
this repository: a FastAPI main API, a broker-router that talks to Sharekhan, a
queue worker, Postgres and Redis. Paths below are relative to the repository
(`apps/...` is `src/apps/...` in `PROJECT.json`).

The program copies the orders of a *master* broker account to the *copy
accounts* of a copy group. An operator starts a copy session for a master; the
API connects the master's order stream in broker-router and starts a listener;
for every order ack that arrives the listener places one child order for each
copy account and stores what happened.

What is at stake, in the order the project treats it:

1. a child order is placed once, or not at all, and the tables say which;
2. a stopped session copies nothing any more, and an active one is served;
3. a master has one active session, because each one copies every order;
4. the stream of a master delivers its acks after every reconnect;
5. a dispatch uses the accounts, settings, tokens and instruments that are in
   force, or says how old they may be.

## 1. Inventory

### Processes and how they interact

```
 browser -> API (apps/api)  --HTTP-->  broker-router (apps/broker-router) --HTTP, websocket--> Sharekhan
              |   ^                         |
              |   +------ Redis pub/sub <---+   acks, feeds, status
              v
           Postgres  <---- worker (apps/worker) <---- Redis list copy_jobs <---- (producer not in the repository)
```

The API is one uvicorn process with one asyncio event loop: request handlers and
listener tasks interleave at every `await`, and nowhere else. broker-router is a
second such process, the worker a third. Nothing but Postgres and Redis survives
a restart. Handlers use one SQLAlchemy session each, read rows without locks and
write with `UPDATE ... WHERE id = ...` at commit.

### Components

| component | code | state it keeps | operations | status |
|---|---|---|---|---|
| copy session life cycle | `api/app/routers/copy_sessions.py`, `routers/accounts.py` (deletion), `services/live_copy.py` (task management), `api/app/main.py` | `copy_sessions.status`, `LiveCopyManager._tasks`, the streams connected in broker-router | start, pause, resume, stop, delete; deletion of the master's account; startup resume; shutdown | `CopySessions` |
| live copy dispatch | `services/live_copy.py` | the message in hand, `master_trade_events`, `copied_trade_orders` | receive, duplicate lookup, prepare, place, aggregate, commit; deletion of copy accounts and groups | `LiveCopy` |
| copy worker | `worker/app/engine.py`, `main.py`, `repository.py` | job in hand, `copy_orders` | pop, lookup, risk check, send and retry, insert | `CopyWorker` |
| stream manager | `broker-router/app/websocket_manager.py` | `connections`, one `StreamConnection` and task per account | connect, disconnect, subscribe, unsubscribe, the reconnecting task | `MasterStream` |
| REST proxy | `broker-router/app/main.py`, `brokers/sharekhan/client.py`, `limiter.py` | rate limiter windows, account tokens | place, modify, cancel, positions, ..., token exchange | placement only, inside `LiveCopy` and `CopyWorker` |
| ack normalisation, sizing, risk | `services/live_copy.py:210-400, 837-1100`, `worker/app/risk.py` | none (pure); the rows it counts | normalise, quantity, price, payload, limits | the API's in `CopyRules`; the worker's variant is not modelled |
| copy groups, settings and the target cache | `routers/copy_groups.py`, `routers/copy_settings.py`, `services/live_copy.py:420-440, 739-818` | group, member and settings rows; targets per session | edit, remove, invalidate, load | `CopyTargets`, with `StaleReads` as its specification |
| script master | `services/script_master.py`, `script_master_preload.py`, `routers/script_master.py` | instrument table, lock and cache per exchange | preload, refresh, resolve; search, watchlist | `ScriptMatch` (the match), `ScriptMaster` (the tasks); search and watchlist are not modelled |
| accounts and tokens | `routers/accounts.py`, `broker-router/app/db.py` | account rows, encrypted tokens | create, log in, callback, exchange, update, delete | `AccountTokens`, inside `CopyTargets`; deletion of masters in `CopySessions`, of copy accounts in `LiveCopy` and `CopyTargets` |
| users, auth, audit; dashboard, portfolio, logs, system, live status; migrations; web frontend | see `PROJECT.json` | rows, nothing shared between requests | CRUD, queries | not modelled |

### What is hard

* **Interleaving.** A handler awaits the database and broker-router up to five
  times between the row it read and the row it writes; other handlers and the
  listeners run in between (two starts of one master, a stop overtaken by a
  resume, a crashing listener that writes ERROR over STOPPED).
* **Order before record.** Child orders leave before the transaction that
  records them and the ack's duplicate hash is committed; a stop, an exception
  or a crash in between rolls the record back and not the order.
* **Lost answers.** `place_order` gives up after 30 seconds; the order may have
  been carried out, may be carried out later, or never.
* **Deletions in parts.** Deleting a master account stops listeners, deletes rows
  by cascade and disconnects the stream in three steps, the first before it is
  known whether the second succeeds; deleting a copy account or a group takes
  the target of a dispatch away while the order is out.
* **Stale copies.** The target cache is filled after an await and dropped by some
  edits and not by others; the script master cache is replaced before the
  transaction it belongs to; an access token is written by a second process, by
  account id, after the keys it was made with may have been replaced.
* **Locks in two places.** The exchange lock of the script master lives in the
  event loop, the row locks of the same rows in Postgres, and a dispatch holds
  the second kind until its placements are answered.
* **Restarts.** RUNNING sessions are reconnected when the API starts;
  broker-router's connections are gone after its restart and nobody reopens
  them.
* **One stream, many writers.** The stream task and connect requests read and
  write the same flags and send on the same socket, which is replaced under
  them.
* **Liveness.** A request that waits for a row lock a dispatch holds; a listener
  that must notice the end of its session; a queue that must drain after
  failures.

`PROJECT.json` lists each hazard at its line, with the properties that cover it
or the reason why none does yet.

## 2. Modules

```
CopySessions <- ServedSessions      history: who lost a listener, and where
      ^
      +-------- LiveCopy            extends and refines it
                    ^
                    +-- CopyLedger  history: lost answers, rolled-back dispatches
AccountTokens <- CopyTargets -----> StaleReads   (INSTANCE ... WITH, BoundedStaleness)
ScriptMatch  <- ScriptMaster
CopyWorker    MasterStream    CopyRules
```

`CopySessions` is the base of the session modules. `CopyWorker` and
`MasterStream` stand alone, because the worker shares nothing with the API but
the broker, and an account's stream shares nothing with other accounts.
`CopyRules` looks at one dispatch of `LiveCopy` from the other side: there the
steps are kept and the amounts are not, here a dispatch is one step and the
amounts are kept. `CopyTargets` and `ScriptMaster` are what a dispatch asks
before it places anything: whom to copy to, and which instrument an ack means.
`MC*` modules give values to constants and, where a run asks about a part of the
behaviours, name that part as a specification (`ApartSpec`, `BoundedSpec`);
`*Proofs` modules hold the proofs.
Definitions preceded by "Mutation:" are plausible mistakes in the definition
that follows; each is used to show that a property notices the mistake, and none
is part of a specification.

### CopySessions

| TLA+ | code |
|---|---|
| `masters` | master rows of `broker_accounts`; those in `Purgeable` may be deleted |
| `status` | the `status` column of each session row |
| `listener` | the entry of `LiveCopyManager._tasks` and how far its task is (`raised`: ended with an exception that is still in the task object) |
| `stream` | masters with an entry in broker-router's `connections` |
| `req[r]` | an HTTP request in flight: operation, session (or master), the await it stands at |
| `api`, `boot` | the API process and `resume_running_sessions` |

One action is the code between two awaits that let others see or change shared
state. `StartCheck`/`StartCommit`, `PauseRead`/`PauseCommit` and so on keep the
read and the write of a handler apart; `CommitStatus` is the unconditional
UPDATE by id. `Connect*` and `Disconnect*` have a version for success, one for an
error status (an `HTTPException`, which marks the session ERROR) and one for a
network error (an `httpx` exception, which does not). Database calls fail too:
`DatabaseFails` is a commit of a handler, or a `db.refresh` or
`preload_session_targets` after it, that raises, and `ConnectRefusedUnmarked` a
refused connection whose commit of ERROR raises. Merged, because nothing
else can tell the difference: the refused connection and the commit of ERROR
after it; the script master preload and the connect; cancelling and awaiting a
listener; the start-up reconnect of one session and the start of its listener.

`DELETE /accounts/{id}` is `PurgeCancel` (the active sessions are read and their
listeners cancelled, in one step; if one of them ends with its stored exception,
the handler ends there with any subset of the others cancelled), `PurgeCommit`
(the account and, by cascade, its sessions) or `PurgeConflict` (409), and
`PurgeDisconnect` in the background. A start or resume that is past its own
check goes on and meets the deletion at its insert, at `db.refresh` or in
broker-router, which reads the account before it connects.

`Faults` chooses which faults an instance meets, so that a run can say which
property survives which fault.

### ServedSessions

The tables do not say whether anybody listens for a RUNNING session. The history
variable `abandoned` holds the sessions that one of eight places has left behind,
until they have a listener again or do not say RUNNING any more:

| TLA+ | code |
|---|---|
| `ConnectGaveUp` | an `httpx` error of the connect call ends start or resume; only an `HTTPException` marks the session ERROR (`copy_sessions.py:130`) |
| `RefusalUnrecorded` | broker-router refused the connection and the commit of ERROR failed (`copy_sessions.py:133`) |
| `ReadBackGaveUp` | after RUNNING was committed, `db.refresh` or the loading of the targets failed (`copy_sessions.py:164`, `:226`) |
| `OldTaskInTheWay` | `start_session_task` finds the old task in its `finally` block, not `done()` yet, and starts no other (`live_copy.py:446`) |
| `CrashUnrecorded` | the listener crashed and writing ERROR failed too (`live_copy.py:529`) |
| `DeletionGaveUp` | the deletion of a session cancelled the listener, then its disconnect or its own commit raised |
| `StopOverwritten` | a stop cancels the listener of a session that another handler has made RUNNING again after the stop committed STOPPED (`copy_sessions.py:249`) |
| `PurgeGaveUp` | the deletion of the master cancelled the listeners and ended in an exception or a conflict (`accounts.py:303`) |

Naming the places makes the property sharp: with every fault and every overlap
of requests allowed, nothing *else* leaves a RUNNING session without a listener.

### LiveCopy

| TLA+ | code |
|---|---|
| `inbox` | messages in a listener's Redis subscription (pub/sub: delivered at most once, to those subscribed) |
| `work` | the ack a listener is copying, and per account `ready`, `sent` or its final status |
| `events`, `orders` | committed rows of `master_trade_events` and `copied_trade_orders` |
| `copiers` | copy accounts that exist; those in `Removable` may be deleted, or their group |
| `wire`, `placed`, `declined` | requests that broker-router has not finished; orders the broker has accepted; orders it declined in the body of a 2xx reply |

An ack is a model value with the three things the code tells acks apart by: its
account, its duplicate hash and its trade id. `Receive` is the handling of a
message up to the duplicate lookup, `Prepare` the flush of the event and the
loading and checking of targets (each account is no target, skipped or ready, by
free choice), `Send`, `Answer` and `AnswerLost` the concurrent placements,
`Commit` the aggregation and the one commit at the end. A row says PLACED when
the call of broker-router was answered with success, and broker-router answers
so for every 2xx reply of Sharekhan, whatever the body says
(`broker-router/app/main.py:237`): an order may be accepted, declined that way
(`BrokerDeclines`), or refused with an error status (`BrokerRefuses`), and the
listener cannot tell the first two apart. `LifeCycle(step)` is a
step of `CopySessions` together with what it does to work in hand: a listener
that no longer polls drops its messages and its transaction (`DropAbandoned`),
and its requests on the wire stay. `Delete` (of a session, or of a master with
all its sessions) waits for the key lock a flushed but uncommitted event holds
on the session row, then cascades. `RemoveCopier` deletes a copy account or its
group with the order rows of that account; a dispatch that has it as a target
then fails at its flush (`CommitFails`), and the rows of all accounts are rolled
back. `Prepare` may choose a deleted account as a target: the target cache keeps
targets for up to 15 seconds and a deleted group does not invalidate it. The
model does not bound that time.

### CopyLedger

The tables do not say which orders they have lost. Two history variables do:
`unheard` holds the attempts whose answer the listener did not get
(`AnswerLost`), `rolledBack` those whose dispatch ended in anything but its
commit (`Rollback`: cancellation, crash, failed flush). `AcceptedIsRecorded` and
`DoublesOnlyAfterRollback` say that these are the only ways to lose the row of an
accepted order and to copy a master order twice. `RowsTellWhatWasHeard` says
what a row is worth: PLACED, that a successful answer came; FAILED, that none
did, so that an order that is out all the same had its answer lost; SKIPPED, that
nothing was sent.

### CopyWorker

One step machine per worker process (`lookup`, `risk`, `send`, `answer`, `save`)
over the Redis list and `copy_orders`. `lost` is a history variable: the
attempts whose outcome never reached a row, because the call timed out or the
process died. The producer of `copy_jobs` is not in the repository; `Enqueue`
pushes each message once, and two messages may name the same master order. The
pause between retries is part of the next send. `answered` holds the attempts
that broker-router answered as carried out; a refusal inside a 2xx reply is one of
them, is stored as SUCCESS and is not retried. The compose file starts one
worker process; the list and the tables allow several, and so does the model.
`Claiming(w)` names the gap between a worker's lookup of a key and its insert.

### MasterStream

`conn[c]` is a `StreamConnection` with the state of its task, its socket, its
flags and what the broker has received on the present socket (`acks`, `fed`).
`handler[h]` is a connect request whose own ack subscription is suspended in
`send`. The account row is read and the connection made or refreshed in one
step, and the send of `subscribe` is one step with its update of the symbols. A
send ends, well or badly, before the task's five seconds of sleep do (guard of
`Wake`). Counters and timestamps that only the status endpoint shows are left
out. When Redis refuses the publish in the `except` block, the exception leaves
the loop and the task is dead (`Failed`).

### CopyRules

| TLA+ | code |
|---|---|
| `master`, `feed` | the exchange's view of each master order, and the acks about it that are under way (external: the broker) |
| `setting` | the `copy_settings` row of each copy account, or `_default_setting` |
| `known` | duplicate hashes of `master_trade_events`: with an order id in the ack the hash names the order, without one it names the report (trade id and event time, here one `Stamps` value, symbol, side, quantity, price) |
| `sent` | child orders, with their event, quantity, price and whether the row says PLACED |

`Accepted`, `EventOf`, `Hash` and `Unknown` are `normalize_sharekhan_ack` and the
duplicate lookup; `CopyQuantity`, `QuantityAllowed`, `CopyPrice`, `ValueAllowed`,
`FilterAllowed` and `UsageAllowed` are the rules of
`build_sharekhan_copy_order_payload` in its order, which does not matter because
each of them ends the account's copy; `TradesOf` is the count of
`_load_risk_usage`. Prices are integers in paise and multipliers in hundredths,
so that rounding is what the code's `Decimal` does (`ROUND_DOWN` is towards
zero: `Trunc`). A master order is accepted, filled in parts at other prices,
refused, or cancelled; a confirmation may be repeated, any ack may lack the order
id, and any ack may be lost.
Which accounts are usable, whether scrip code and product type pass, which
placements fail and what loss the positions show is free choice. Settings do not
change during the day.

### AccountTokens

| TLA+ | code |
|---|---|
| `account[a]` | the row of `broker_accounts`: keys (by version), login state, access token, active |
| `pages` | Sharekhan login pages open in browsers, with the request token they will bring back (external) |
| `call[r]` | a request in flight and the row it has loaded |
| `overtaken` | history: accounts whose keys were replaced while an exchange was under way |

A handler loads a row, changes the object and commits; SQLAlchemy's UPDATE names
only the columns that differ from what was loaded (`Column`), which is why two
handlers do not simply overwrite each other. The login state is unique
(`Taken`). A page may come back twice, late, without its state or for whatever
account the browser remembers (`Addressed`). The exchange is two steps of
broker-router, which loads the row, calls Sharekhan, and writes the access token
by account id. A token is told apart by the account and the keys it was made
with. Deleting an account is a commit and, after it, the invalidation of the
masters it was copied from.

### CopyTargets

| TLA+ | code |
|---|---|
| `group`, `member`, `setting` | rows of `copy_groups`, `copy_group_members`, `copy_settings` |
| `edit[r]` | a handler of the two routers: what it loaded, then whether its invalidation is due (`forget`) |
| `load[l]` | `_load_copy_targets` at its query (`asked`) or with a result not stored yet (`answered`) |
| `cache`, `answer` | the session's entry of `_target_cache` with its age; what a loader returns in this step |
| `past`, `missed` | history: earlier results of the query with their age; the copies that no invalidation will reach |

`Content` is the query itself: enabled members of the session's groups, oldest
group first, one plan per account, the default where a setting has no row.
Editing a member or a setting is open, commit, `Forget`; editing or deleting a
group invalidates nothing, and neither does any account handler but the
deletion. `Written` is common to every write: it keeps the former result in
`past` and, when the write will not invalidate, notes who holds a copy of it.
`Tick` is a unit of the 15 seconds (`TTL`); `Lag` bounds the time between a
query's snapshot and the storing of its result and is an assumption about the
database, not a fact of the code.

### StaleReads

The abstract specification: a source changes, time passes, a reader is given the
present value or one that was in force at most `Window` ticks ago. `CopyTargets`
implements it with `value <- Content`, `Window <- TTL + Lag` and the history
`past`; no request, loader, cache or invalidation is visible in it.

### ScriptMatch and ScriptMaster

`ScriptMatch` is the pure part: which rows of Sharekhan's answer are kept
(`Normalised`), which records the identity index offers (`Indexed`), and how the
match narrows them (`Candidates`; each narrowing falls back to all candidates
when none matches: `Part`). `Exact` says what a resolved code must be, without
following the narrowing: the code of an instrument the ack fits, with no
competitor that the ack's lot size, ISIN or kind does not rule out.

| TLA+ | code |
|---|---|
| `table` | committed rows of `script_master_instruments` of one exchange and `refreshed_at` |
| `cache` | `_exchange_cache` of the process |
| `queue` | `_exchange_lock`: holder first, then those who wait, in order |
| `task[t]` | a login's preload, a manual refresh, or the lookup inside a dispatch |
| `writer` | the task whose delete and inserts are flushed and not committed |
| `split` | history: the cache was filled and the table was not |

A task waits for the lock, loads or decides, downloads (`FetchFails`,
`FetchEmpty`, `FetchRows`), stores (`Store`), and lets the lock go before its
transaction ends. `Block` and `Conflict` are Postgres: the delete waits for
another writer's rows, and the insert that did not see them violates the unique
constraint. A lookup's transaction is the dispatch's, so it ends with the
dispatch (`Commit`, `CommitFails`) or with its cancellation (`Cancel`). `Crash`
forgets everything but the table.

## 3. Runs

| run | asks | instance |
|---|---|---|
| `sessions_apart` | requests overlap, but not as `ActivationsApart`, `StopsApart` and `DeletesApart` forbid (`ApartSpec`), with every fault: one active session per master, stopped stays stopped, deleted stays deleted, a deletion spares other sessions' streams, a RUNNING session is listened for except where one of the eight places left it | 1 master (can be deleted), its 2 sessions, 2 requests, symmetric in both (`Twins`); 155,466 states |
| `sessions_two_starts` | finding: two overlapping starts give a master two RUNNING sessions | 2 sessions, 2 requests, no fault |
| `copy_safety` | two overlapping requests and every fault but a restart of broker-router, which touches nothing it asks about: recorded orders are not sent again, and a stopped session is quiet unless its stop fails before the cancellation | 1 session whose master can be deleted, 2 acks of one order, 1 account; 952,035 states |
| `copy_partial` | what the tables tell of the orders (`CopyLedger`): events and orders agree for mixed outcomes and colliding trade ids, rows tell what the listener heard, an accepted order is recorded unless its answer was lost or its dispatch rolled back, and only a rollback doubles one | 1 session, 1 request, 2 accounts (symmetric, both can be deleted), one ack and either a repetition of it or an ack of another order with the same trade id, at most one order declined in a 2xx reply or one account deleted, and not both in one behaviour (`BoundedSpec`), faults `listener` and `network`; 1,487,331 states |
| `copy_live` | messages are worked off, requests return, a stopped session loses its listener | 1 session, 2 requests, 1 ack, master and copy account can be deleted; 141,294 states |
| `copy_crash_doubles` | finding: after a crash the next ack of the same order is copied again | 2 acks of one order |
| `worker_retries` | orders double only through answers nobody heard or beside a worker that will get no row for its own, rows tell what the worker heard, the queue drains | 2 workers, 2 jobs of one order, 2 accounts, `MaxRetries` 1, faults `network` and `exit`; 218,088 states |
| `worker_duplicate` | finding: a duplicate job stores no SKIPPED row and ends the worker | the same with 1 worker and without faults |
| `copy_rules` | child orders obey the settings at the price they are sent with, an order is copied once for all acks with its id and a report without one once, no copy is larger than its order, and none is made after a refusal | 2 orders (symmetric), 3 kinds of order (buy, sell, market), 8 settings, 1 account, 2 acks under way; acks without an order id on days with one order, and at most two different ones (`BoundedSpec`); 1,664,974 states |
| `stream_acks` | the ack flag is honest, no stream outlives its entry, the number of ack frames is bounded, feeds are replayed, every ready stream gets its ack subscription | 2 connection objects, 2 connect requests, 1 symbol |
| `copy_targets` | what a dispatch is given is present or at most `TTL + Lag` ticks old (`StaleReads`), an edit that invalidates takes effect at once, access tokens fit their rows | 2 accounts, of which one exists at the start, 2 groups, 2 masters, 2 account requests, 2 editors, 1 loader, 2 login states, 2 settings, `MaxCalls` 2, `TTL` 1, `Lag` 1 |
| `script_master` | cache and table agree, a lookup resolves to the one instrument that fits, every task gets the lock and ends | 2 tasks, 4 answers (overlapping, repeated, empty), 3 kinds of ack, `TTL` 1, `MaxNow` 1 |

### Why these bounds are enough

* *Sessions.* A session interacts with others only through its master, so two
  sessions of one master are every pair that can interfere; sessions of other
  masters share nothing with them but the API process. Two requests are what it
  takes to break one active session per master (`sessions_two_starts`), what
  `copy_safety` uses to show what holds nevertheless, and what `sessions_apart`
  uses to show that the three conditions are enough.
* *Acks.* Two acks of one order are needed for the duplicate lookup, two of
  different orders with a common trade id for the second unique constraint.
  `copy_partial` has both pairs in one state graph, one of them at a time. A
  third ack in flight adds no new relation. A second declined order or a second
  deleted account only repeats the first, and a declined order and a deleted
  account meet in no guard; the proofs have any number of both.
* *Workers.* Two workers race for a key between lookup and insert.
* *Accounts.* One placement suffices for PLACED and FAILED, two for PARTIAL and
  for placements that overtake each other, and for the deletion of one while the
  other's order is out.
* *Amounts.* Orders of 1 to 3 shares at 5 and 7 paise show every rounding that
  matters: halves, a product one below and one above `max_order_value`, a
  slippage that rounds. Two orders are what a daily limit of one trade needs,
  two acks under way what a lost confirmation and a repeated fill need
  (`MaxFeed`). Two reports without an order id are the same one repeated or two
  fills of one order. Accounts do not influence each other here. The proofs remove
  these bounds.
* *Retries.* `MaxRetries` 1 has a first and a last attempt.
* *Streams.* A second connection object is needed for a connect after a
  disconnect while the cancelled task ends; an object nobody refers to is used
  again, so no run of connects and disconnects is cut off. Two handlers race
  each other and the task. No counter needs a bound: `acks` is reset with the
  socket, and the run shows it never exceeds the number of handlers plus one.

* *Targets.* Two handlers in flight, of the same router or of the two kinds, are
  every pair that can interfere around one cache entry; two groups of one master
  are what the order of groups and a moved group need. `MaxCalls` counts
  account requests and edits together, so a run has any two of them; `TTL` 1
  has a fresh, an expiring and an expired entry. The proofs remove these bounds.
* *Script master.* Two tasks contend for the lock and for the rows; a third
  would only queue behind them. One hour after a refresh at hour 0 makes it
  stale. The answers hold a share, an option on it, a twin of its name, a row
  without a numeric code, a repeated code and a list without a usable row, and
  any two of the usable lists share a code (`OverlapAssumption`), as successive
  lists of one exchange do.

Deadlock is checked where the system can always move (`sessions_*`,
`stream_acks`, `script_master`). The copy, targets, rules and worker runs end when the finite supply of session
ids, acks or jobs is used up, and two starts leave nothing to do when the ids
are drawn; their configurations say so.

### Fairness

Only the event loops are fair: a handler, listener, worker or stream task whose
await has completed goes on, and every await completes (the HTTP clients time
out after 30 seconds, the module ack after 10, a send on a closed socket raises,
Postgres grants a lock once it is free, broker-router finishes or refuses a
request). All fairness is weak. Requests, acks, jobs, dropped sockets, crashes
and restarts are not fair, nor is it assumed that a placement succeeds. A
script master task is fair because its download has a timeout and the database
answers; `copy_targets` asks nothing that needs fairness. The
listener's end of a finished session (`QuietPoll`) is fair because its poll
times out after a second whenever no message is there.

### What the findings show

Three runs end in a violation and show the trace; `PROJECT.json` quotes the text
the code disagrees with.

1. `copy_sessions.py:75` (`sessions_two_starts`): the active-session check and
   the insert are separate statements without lock or unique index; two requests
   both pass.
2. `live_copy.py:605` (`copy_crash_doubles`): the duplicate hash is committed
   after the placements, so a crash lets the next ack double the order
   (`docs/data-model.md:202`).
3. `engine.py:55` (`worker_duplicate`): the SKIPPED row of a duplicate violates
   the unique key (`docs/copy-worker.md:211`).

Further disagreements that have no run of their own:

* Rows are committed after the placements, so a stop in the middle of a dispatch
  loses the record of an accepted order, against `docs/data-model.md:211`.
  `AcceptedIsRecorded` says what is left of the documented rule: a lost answer
  and a rollback are the only exceptions, and by `DoublesOnlyAfterRollback` only
  the rollback makes a second order possible.
* `docs/live-copy-trading.md:112` says that only acks with executed quantity are
  copied and `:116` that `NewOrderConfirmation` is ignored; `Accepted` takes a
  new order that is not rejected, as the code (`live_copy.py:225`) and its tests
  do. `OnlyExecutedCopied` in `CopyRules` states the documented rule and is
  violated after three steps (place, confirm, copy).
* `docs/live-copy-trading.md:143` says that the duplicate hash is made of trade
  or order id, symbol, side, quantity, price and event time, by which every fill
  of an order would be an event of its own. In the code (`live_copy.py:243`) an
  ack with an order id is hashed by order id, symbol and side alone, so that the
  first ack decides what is copied and later fills are dropped; only an ack
  without an order id has the other fields. `Hash` follows the code, and
  `NeverOvercopied` says what follows from it.
* A copied order that says PLACED (`docs/data-model.md:201`), or SUCCESS in the
  worker, need not be at the broker: any 2xx reply counts
  (`live_copy.py:1095`, `engine.py:83`, `broker-router/app/main.py:237`).
* `docs/live-copy-trading.md:220` says that group mutations invalidate the
  cached targets; `update_group` and `delete_group` (`copy_groups.py:264-290`)
  do not, nor does a change of an account or a login. `FreshUnlessMissed` names
  them (`Written(FALSE)`), `BoundedStaleness` says how long they are overlooked.
* `docs/live-copy-trading.md:170` says that an empty script master answer is
  remembered for the lifetime of the cache; when the cache has rows,
  `refreshed_at` stays as it was (`script_master.py:380`) and the next login
  downloads again. When it has none and was never loaded, an empty manual
  refresh hides the stored rows until the next refresh or restart.

Some properties were narrowed to what the code does promise, and say so where
they are defined:

* `RunningHasListener` excepts the sessions that one of the eight places of
  `ServedSessions` left behind.
* `StoppedMeansQuiet` excepts a stop whose `db.refresh` raises after STOPPED was
  committed: it never cancels the listener, which ends with its next message.
* `FeedsReplayed` is about a module ack that came in time; after a late one, the
  ack subscription is made up for and the feeds are not.
* `RowsAgree` says that an event is PLACED *exactly* when it has orders and all
  of them are only until a copy account is deleted: the deletion takes single
  orders of an event away.
* `TokensFit` excepts accounts whose keys were replaced during an exchange
  (`overtaken`): broker-router writes the token of the old keys by account id.
* `FreshUnlessMissed` excepts what no invalidation reaches: writes that do not
  invalidate, and results on their way from the database when it came.
* `MemoryMatchesTable` and `ResolvedIsExact` except a cache that a rollback, or
  an empty refresh before the first load, has parted from its table (`split`).

## 4. Proofs

All theorems hold for every value of the constants that satisfies the named
assumptions of the modules:

| module | assumptions |
|---|---|
| `CopySessions` | `MasterOfAssumption`, `NoSessionAssumption`, `PurgeableAssumption`, `FaultsAssumption` |
| `LiveCopy` | `AckAssumption`, `RemovableAssumption`, `ListenersMayFail`, `DryRunAssumption` |
| `CopyWorker` | `JobsAssumption`, `RetriesAssumption`, `FaultsAssumption` |
| `MasterStream` | `NoConnAssumption` |
| `CopyRules` | `DetailsAssumption`, `SettingsAssumption`, `LossesAssumption` |
| `AccountTokens`, `CopyTargets` | `TokenAssumption`, `TargetAssumption` |
| `ScriptMaster` | `AnswerAssumption` (rows name no other exchange), `OverlapAssumption` (two lists of one exchange share a code), `NoneAssumption` |

Some results need one more hypothesis, which their statements carry. It is needed:
with two sessions of a master and two requests, or two workers, TLC violates each
of these properties in a few thousand states when one of its conditions on
overlaps is dropped.

| theorem | hypothesis |
|---|---|
| `ApartOneActive` | `[]ActivationsApart`: no two sessions of a master between read and write of an activation |
| `ApartStoppedStays` | `[]StopsApart`: no session between read and write of an activation and of a stop |
| `ApartDeleteSpares` | `[]ActivationsApart` and `[]DeletesApart`: nor beside the deletion of another session of the master |
| `CopyKeepsSessions` | the same, each for its result |
| `ApartHeardOnce` | `[]KeysApart`: no two workers between lookup and insert of one key |
| `OneWorkerHeardOnce` | one worker, as in the compose file: there the condition holds by itself |
| `AckFramesAlwaysBounded` | `IsFiniteSet(Handlers)` |

The conditions are about handlers in flight at one moment, not about requests:
what they exclude is two particular windows being open together. Everything else
is proved of the bare specifications, with every overlap and fault.

**`CopySessionsProofs`.** `TypeCorrect` goes action by action. `OneActivePerMaster`
is not inductive: nothing in it says that a session a handler is about to commit
as RUNNING or PAUSED may still become so. `CheckedInv` adds `OthersInactive`:
while a handler is between its check and its write (`Activating`), no other
session of that master is active. Only another activation can break it, which
is what `ActivationsApart` excludes; listeners and the start-up code write
nothing but ERROR. Hence `ApartOneActive`. `ApartStoppedStays` needs
instead that the session of an activation is not STOPPED (`NotStopped`), and
`ApartDeleteSpares` adds what a deletion read when it found its session active: no
other session of the master is (`DeleteAlone`). `DeletedForGood` holds without any
condition, although a start's insert and the start-up's last commit write
without looking. `FreshInv` says why: the session of a start that has not
inserted yet does not exist and no other start has its id (`StartsFresh`), every
other handler holds a row that exists or existed (`FoundRows`), and the sessions
the start-up code has yet to commit are there, because no request is served
beside it (`BootRows`). `RequestsGoOn` shows that a
handler in flight is always served by a running API and at one of the places it
goes on from (`RequestsPlaced`).

**`ServedSessionsProofs`.** `RunningIsListened`, without any condition on the
requests. The property speaks of the moment when no request is in flight; the
invariant `ServedInv` says what is true in between: a RUNNING session that was not
left behind has a listener (`Heard`), or a request is on its way to start it or to
remove the row (`Owed`), or the start-up code has yet to come to it
(`AwaitsBoot`). Each action is shown to keep one of the three or to be one of the
eight places (`StepOwes`); statements that fail are in `FailureServes`.
`StopOverwritten` was found by this proof: with overlapping requests the case of
a stop's `cancel` did not close.

**`LiveCopyProofs`.** Every step of the copying system is, by the way the modules
are written, a step of `CopySessions` or leaves its variables alone, so what is
proved about sessions carries over (`CopyKeepsSessions`). `TablesAgree`
comes from the inductive invariant `TableInv`: types; a busy
listener has an ack (`BusyHasAck`); that ack is not in the tables yet, although
lookup and insert are different steps (`UnrecordedWork`, which holds because the
listener is the only writer of its session's rows and handles one message at a
time); and the property. `SendsUnrecorded` is an action
property that follows from `UnrecordedWork`. `StopIsQuiet` needs no table: work
begins only in a RUNNING session, and the one step that makes a busy session
STOPPED leaves its request at the point from which it cancels the listener, unless
the database fails there (`StopGivesUp`); it holds for any number of overlapping
requests.

The ledger theorems follow an order from its send to its row. `LedgerInv` says
of every attempt that is on the wire or accepted, and not rolled back: its
dispatch is still under way or its event is stored (`OutTraced`); if its answer
was heard, its PLACED row is there or will be (`OutTold`); and there is one per
master order, session and account (`OutSingle`). The last rests on the first: the
duplicate lookup of the next ack sees the event. Both survive the deletion
of a session only because its DELETE waits for the dispatch (`DispatchStored`)
and a deleted session never comes back (`FreshInv`). From it follow
`AcceptedOrdersRecorded` and `DoublesNeedRollback`. `RowsAreHeard` has its own
invariant, `HeardInv`: what holds of a row (`RowsTold`) holds of the outcome it
will be made from while its dispatch is under way (`WorkTold`), and no attempt is
made again: a published message is handled once, rolled back or not (`Once`; a
repeated frame is an ack of its own, with the same hash).

`NothingWaitsInVain` is the safety half of `InboxDrains` and `RequestsReturn`:
messages and uncommitted rows always belong to a listener that polls, so neither
a subscription nor a DELETE ever waits for a listener that is gone
(`WorkAttended`), and no request stands where its handler cannot go on.

**`CopyWorkerProofs`.** Any number of workers. The two safety properties are
about attempts nobody heard of, so the invariant says where every other attempt
is: a worker waits for it, or is about to store its success, or a SUCCESS row
names it (`HeardOK`); attempts of a target in hand are no newer than the current
one (`SentOK`); a worker waits for no attempt that is lost already, and a success
about to be stored is that of an accepted order (`KnownOK`), which its row then
names for good (`SuccessOK`); of two accepted orders of a key, one was lost or
is still in the hand of its worker (`DoubleOK`), and so is an accepted order whose
key has a row that is no success (`FailedOK`); and a job is in one place only
(`QueueOK`). Hence
`HeardOrdersPlacedOnce` and `StoredRowsHeard`. While no two workers claim
one key, a target past the lookup has no row (`UnkeyedOK`), and each key has at
most one order that was heard of (`ApartHeardOnce`).

**`MasterStreamProofs`.** `AckFlagHonest`, `NoOrphanStream` and `FeedsReplayed`
are each inductive together with `TypeOK`, for any number of concurrent connect
requests. Two lemmas say what the only two steps with an effect on several
fields do (`SendAckEffect`, `ResetEffect`). `AckFramesAlwaysBounded` needs a
count that includes the future: frames received, the frame the task owes, and the
connect requests that have passed the flag and hold the socket are together at
most one more than there are requests, and while the flag is down there is no
frame (`FramesOK`). Every step moves one unit from the second or third summand to
the first, or raises one of them only while the flag is down (`FrameMove`).
`AckNeverForgotten` is the safety half of `AcksSubscribed`: while a ready socket
is owed its ack subscription, the task is still at a point where it looks at the
flag, or a request holds the connection. The task takes `ready` down
before every wait that would let the debt be overlooked (`QuietStream`).

**`CopyRulesProofs`.** A child order outlives the ack it was made from, so the
invariant `RulesInv` has two halves: `FeedInv`, what an ack under way can say of
its order (no more than the order's size, and of a refused order only the
refusal), and `SentInv`, that every child order is what the rules make of an
event no larger than the order, with `CopiedOnce` and the hash on file. From it
follow `OvercopiesNever` (sizing is monotone: `QuantityMonotone`),
`SettingsObeyed` (rounding stays within a paisa: `TruncWithin`, `PriceBounds`)
and `RefusedNeverCopied`, for all quantities, prices and settings.
`TradesBounded` is inductive with the finiteness of an account's trades.

**`CopyTargetsProofs`.** The invariant has three parts. `TokenInv`: an exchange
that is waiting for Sharekhan carries a token that fits the row unless the keys
were replaced since (`ExchangesFit`), from which `TokensAlwaysFit`. `EditTypeOK`:
what editors have loaded. `CacheInv`: every result under way and every cache
entry is the present one or is found in `past` with an age within the bound
(`LoadsTraced`, `CacheTraced`), and is the present one when nothing was missed
and nothing is due (`LoadsFresh`, `FreshUnlessMissed`). `NextInv` proves for each
step both that it keeps the invariant and that it is a step of `StaleReads` or
none, which gives `FreshWhenServed` and the refinement
`CacheImplementsStaleReads`.

**`ScriptMasterProofs`.** `ResolveExact` is about the match alone, for any list
and any ack: each narrowing keeps some instrument and drops only those that the
ack tells apart (`LotNarrows`, `IsinNarrows`, `EquitiesNarrow`), and one code is
left. For the tasks, the invariant says that whoever is past the waiting holds
the lock (`Locked`), that flushed rows are the rows in memory
(`FlushedInMemory`) and that an answer was made from memory
(`AnsweredFromMemory`); `MemoryFollowsTable` and `LookupsExact` follow, the second
with `ResolveExact`. `ResolveComplete` is its converse: an ack that names its
symbol and exchange, and for a derivative its contract, is resolved whenever the
instruments it describes agree on one numeric code; no index key and no
narrowing loses an order that could be copied.

`TasksNeverStandStill` is the safety half of `TasksReturn`. The line at the lock is
exactly the tasks that need it, each once (`QueueInv`), and flushed rows belong to
a task that needs the lock no more (`WriterInv`). So a task that cannot go waits
behind a holder that can, or for rows whose transaction the next step of their
task ends: asyncio's lock and Postgres's rows, taken in both orders, never close a
circle.

**Only model-checked.** Liveness under fairness, which is beyond the prover:
`InboxDrains`, `RequestsReturn`, `StoppedSessionIsLetGo`, `QueueDrains`,
`AcksSubscribed`, `TasksReturn`. Their safety halves, that nothing waits for what
cannot come, are proved for four of them (`NothingWaitsInVain`,
`AckNeverForgotten`, `TasksNeverStandStill`); that it does come is checked by TLC.
Every safety property of a passing run has a theorem, with the hypotheses named
above.

## 5. Not modelled, and why

* Contents of orders, prices, quantities and names in the concurrent modules:
  acks and accounts are model values there. `CopyRules` has the amounts and
  leaves the concurrency out.
* Settings that change during the day; product types inside `CopyRules`.
* The worker's variant of the rules (`worker/app/risk.py`): `CopyWorker` takes
  its verdict as a free choice.
* Target loading, limits and sizing inside `LiveCopy`: a free choice per
  account, which includes everything `CopyRules` and `CopyTargets` can answer.
  Paper trading answers count as acceptances.
* Creating a copy group (a running session never names a new one), and the
  composition of `CopyTargets` with several sessions: each has its own cache
  entry, and invalidation goes by master.
* Lists whose rows name another exchange: `_refresh_exchange_unlocked` deletes by the
  exchange that was asked for, so such rows would survive it
  (`AnswerAssumption` excludes them). Futures have neither strike nor option and
  are never resolved by the code; the model follows it. Search and watchlist are
  single statements.
* The rate limiter: a synchronous check of one list. The endpoints of
  broker-router and of `/accounts/{id}/sharekhan` that forward one request and
  store nothing.
* A restart of broker-router reopens no connection; `CopySessions` has the
  restart (`stream` becomes empty) and claims nothing about who reconnects.
* The broker. It accepts, declines in the body of a 2xx reply, or refuses with an
  error status; a request that broker-router drops when it restarts is one that
  was refused.
* Users, authentication and audit (handlers whose only effect is one statement),
  read-only endpoints (dashboard, portfolio, logs, system, live status), DDL, and
  the web frontend, which keeps no state the system uses.

## 6. What could come next

1. The worker's rules beside `CopyRules`: they compare `max_order_value` at the
   master's price and check the product before it is mapped; lots, and settings
   that change during the day.
2. The rate limiter as a refinement of "at most N in any 60 seconds".
3. A composition of `AccountTokens` with `MasterStream` through the customer id
   of a new login.
