# A TLA+ verification of the new-api gateway: payment, tasks, sessions and the chat

new-api is an LLM gateway sold as a service: workspaces of users send requests
through API tokens, the gateway relays each one to an upstream provider and
charges its cost to the user's quota and to the token. It is a Go backend with
a web console; several processes share one database and one Redis. This
directory holds TLA+ models of the parts in which money and work can be lost or
done twice, of the login session from the browser's tabs down to the cached row
of the server, and of the console's chat; the TLC runs that check them on small
instances, and theorems that TLAPS proves for instances of every size.

1. [Inventory](#1-inventory) of the system
2. [Modules](#2-modules) and how they correspond to the code
3. [Runs](#3-runs), bounds and fairness
4. [Findings and known deviations](#4-findings-and-known-deviations)
5. [Proofs](#5-proofs)
6. [What is not modelled](#6-what-is-not-modelled)
7. [Plan](#7-plan)

To check: `tlc -config MCBilling.cfg MCBilling` (and so on, see the table of
runs), `tlapm BillingProofs.tla`, `tlapm SystemTaskProofs.tla`,
`tlapm TaskPollingProofs.tla` and so on for every module named `...Proofs`.
`PROJECT.json` lists the runs, the source lines of every definition, the mutants
that show each property can fail, the hazards of the code and the theorems.

## 1. Inventory

State is in the database unless said otherwise. "Hard" is what a unit test
hardly reaches; each item has its line in the hazards of `PROJECT.json`.

### Billing sessions (`service/billing_session.go`, `funding_source.go`, `billing.go`, `quota.go`)

- *State.* One `BillingSession` per relay request, in memory: the amounts it
  holds on the funding source and on the token (`preConsumedQuota`,
  `tokenConsumed`, `extraReserved`), the flags `trusted`, `fundingSettled`,
  `settled`, `refunded`. It points to a `WalletFunding` or a
  `SubscriptionFunding`, which remember what they took. Balances: `users.quota`,
  `tokens.remain_quota`, `user_subscriptions.amount_used`.
- *Operations.* `NewBillingSession` (with the fallback order of the user's
  billing preference), `preConsume` and its rollback, `Reserve` and its
  rollback, `Settle`, `Refund`. `PostConsumeQuota` charges beside the session:
  for the violation fee (`violation_fee.go:128`), for the settlement of a request
  that has no session (`billing.go:93`) and for the metering of realtime
  conversations (`PreWssConsumeQuota`, `quota.go:151`).
- *Interaction.* The relay handler (`controller/relay.go`) opens a session,
  may raise it, settles it when the upstream has answered, and otherwise
  refunds it in a deferred function. `Refund` only starts a goroutine. In a
  realtime conversation the goroutine that reads the upstream meters each
  response, the handler meters the rest and then settles the total.
- *Hard.* Requests of one user share balances. Each of the up to three
  balance changes of an operation can fail on its own and has its own rollback.
  The refund goroutine runs beside the fee of the same request and beside other
  requests, and retries. The subscription can end, or start a new period, between
  any two steps. Trusted requests hold nothing.
- *Correct when.* A request that is over has cost exactly what it owes (and what
  was metered), on one funding source and on the token; held quota is covered by the balance; a
  session is closed once; every request comes to an end.

### Quota balances (`model/quota_reserve.go`, `user.go`, `token.go`, `user_cache.go`, `token_cache.go`, `utils.go`)

- *State.* The balances, their Redis copies, and deltas batched in memory.
- *Operations.* A conditional reservation (one Lua script or one conditional
  UPDATE), an unconditional change, rehydration of a missing copy, the periodic
  batch update.
- *Hard.* Three copies of one number; a crash loses the batch; rehydration reads
  a database that lags behind.
- *Correct when.* No reservation succeeds on quota that is spent; the copies
  agree once the batch is written.

### Subscriptions (`model/subscription.go`, `service/subscription_reset_task.go`)

- *State.* Plans, orders, user subscriptions with `amount_used` and a period,
  pre-consume records keyed by request id, the user's group.
- *Operations.* Pre-consume, refund, usage delta, period reset, order
  completion, expiry, cancellation and deletion with a change of group.
- *Hard.* A refund spans two transactions; a reset between a pre-consume and its
  settlement; payment callbacks that arrive twice.
- *Correct when.* Usage is the sum of what requests hold and were charged in the
  period;
  an order is granted once.

### Asynchronous tasks (`service/task_polling.go`, `task_billing.go`, `model/task.go`, `relay/relay_task.go`)

- *State.* One row per task: status, progress, quota, failure count, billing
  context.
- *Operations.* Submission (pre-consume, upstream call, insert, settle), the
  timeout sweep, the polling pass per channel, refund and recalculation of the
  quota, the realtime write of a client's GET.
- *Interaction.* The pass is the handler of a system task, so a lease decides
  which process runs it; two passes overlap when a runner outlives its lease.
- *Hard.* A task is visible to passes before its submission is settled. A final
  status and its billing are separate writes. A GET writes a row it read before
  a network call.
- *Correct when.* The quota column is what the task has taken; a failed task is
  refunded once; a finished task stays finished; every task ends.

### System tasks (`model/system_task.go`, `service/system_task.go`, `service/tenant.go`)

- *State.* Task rows with a unique `active_key` per type, one lock row per type
  with `locked_until`, a goroutine per claimed task in the runner's memory.
- *Operations.* Create, expire stale locks, claim (read, insert or take over the
  lock, fail the old task, start), heartbeat, state update, finish, release.
- *Hard.* Each SQL statement is its own transaction and uses a clock read
  earlier; runners die and stall anywhere.
- *Correct when.* No task is executed twice, an outcome is final, a type is
  never blocked for ever, a live lease protects its task.

### User sessions (`model/user_session.go`, `service/auth_session.go`, `controller/auth_session.go`)

- *State.* One row per login: status, hash of the refresh secret, the previous
  hash with its time of rotation, a version and the user's authentication
  version. A snapshot of the row in Redis with a time to live. The secret itself
  is in a cookie, the access token (15 minutes) in the memory of a tab.
- *Operations.* Login, refresh (check, then a compare-and-swap rotation with a
  30 s grace window in which the previous secret gets the same successor again),
  logout by token or by possession of the cookie, revocation of one or of the
  other sessions, advance of the version after a security change, validation of
  an access token through Redis.
- *Hard.* A rotation whose answer is lost, two presentations of one secret, a
  snapshot read before a revocation and written to Redis after it, a crash
  between the fence in Redis and the transaction.
- *Correct when.* Only a stolen secret trips the detection of reuse; a revoked
  session, or an older version, is not accepted; stale snapshots die.

### Login session of the web console (`web/src/lib/auth-session.ts`, `http-client.ts`, `auth-session-sync.ts`, `stores/auth-store.ts`)

- *State.* Per tab: the store (bundle, bootstrap state), `refreshPromise`,
  `authEpoch`, the calls that await it. Shared by tabs: the cookie, a Web Lock,
  a BroadcastChannel.
- *Operations.* Bootstrap in a route guard, refresh under the lock with retries,
  an API call with one replay after a 401, login, logout with one retry, the
  answer of a security change, events of other tabs, page loads.
- *Hard.* Everything between two awaits: an answer that arrives after a login or
  a logout, of this tab or another one; waiters on one promise and one lock.
- *Correct when.* A tab that is out stays out, tabs agree with the cookie, no
  answer puts an older token back, every request ends.

### Playground chat (`web/src/features/playground`)

- *State.* The conversation in React, updaters React has not called, buffered
  chunks and their timer, the stream controller with its generation, an abort
  controller, the copy in `localStorage` with its debounced save.
- *Operations.* Send, stop, regenerate, edit, edit and submit, delete, clear;
  headers, chunks, end and error of a stream, a plain answer; flush, render,
  save, load, unmount, reload.
- *Hard.* Answers of a stopped or superseded request; updaters that run after
  the state they were made for; a reload mid-stream.
- *Correct when.* A message holds a beginning of its own answer; a final answer
  stays; nothing is left pending, streaming or unsaved.

### Not modelled yet

| part | state and operations | hard | correct when |
|---|---|---|---|
| Authentication version (`model/user_auth_cache.go`) | version floor in Redis; bump, populate | a populate that read before the bump | a stale user record never re-enters the cache |
| Midjourney tasks (`controller/midjourney.go`) | own rows, own loop | like asynchronous tasks | like asynchronous tasks |
| Top-ups, codes, check-ins (`model/topup.go`, `redemption.go`, `checkin.go`) | orders credited on a callback | duplicated callbacks | credited once |
| Channel selection (`service/channel_select.go`, `model/channel_cache.go`) | abilities, cached weights, affinity, key rotation | refresh of the cache during a retry sequence | a retry moves through the priorities and ends |
| Workspaces and plans (`plan/`, `tenant/`) | monthly reservation counters | reservation and release across a month | usage never exceeds the plan |

## 2. Modules

| module | part | depends on |
|---|---|---|
| `Billing` | billing sessions, funding sources, fee, the handler that drives them | `Charging` |
| `Charging` | abstract: what billing promises a client | |
| `BillingProofs` | what each request has cost in the end | `Billing` |
| `FundingProofs` | one funding source, no refund beyond what was taken, the refinement of `Charging` | `BillingProofs` |
| `BalanceProofs` | the balances as sums over all requests | `FundingProofs` |
| `SystemTask` | system tasks of one type: rows, lease, runners | |
| `SystemTaskProofs` | theorems about `SystemTask` | `SystemTask` |
| `TaskPolling` | asynchronous tasks: rows, passes, sweep, billing, GETs | |
| `TaskPollingProofs` | theorems about `TaskPolling` | `TaskPolling` |
| `WebSession` | tabs of one browser, their cookie, lock and events, and the session rows behind `/api/user/auth` | |
| `WebSessionProofs` | theorems about `WebSession` | `WebSession` |
| `SessionCache` | one session row and its snapshot in Redis under concurrent readers and writers | |
| `SessionCacheProofs` | theorems about `SessionCache` | `SessionCache` |
| `Playground` | the console's chat: React state, streams, `localStorage` | |
| `PlaygroundProofs` | theorems about `Playground` | `Playground` |
| `MCBilling`, `MCSystemTask`, `MCTaskPolling`, `MCWebSession`, `MCSessionCache`, `MCPlayground` | model values and symmetry for TLC | |

`WebSession` and `SessionCache` are two views of the same rows. `WebSession`
takes a check of a session as one atomic read, and `SessionCache` says in which
sense that is so: at once when nothing stalls and Redis answers, and otherwise
after at most the time to live of a snapshot.

### Billing

The requests of one user through one token, with a wallet and at most one
subscription. `sess[r]` is the record of the `BillingSession`, its funding
source and the fields of `RelayInfo` that matter; `pc[r]` is where the handler
goroutine stands, `refund[r]` where the goroutine of `Refund` stands. One step
is one balance operation of package `model`, because each is one conditional
UPDATE, one Lua script or one transaction. `walletDebit`, `tokenDebit` and
`subDebit` are history variables: what each request has taken from each balance.

| action | code |
|---|---|
| `StartRequest`, `OpenLate`, `OpenWallet` | `NewBillingSession` with preference and fallback; requests priced late open their session while relaying |
| `PreConsumeToken`, `PreConsumeFunding`, `RollbackToken` | `preConsume`: token, then funding, with rollback and then the next funding source |
| `Reserve`, `ReserveToken`, `RollbackReserve` | `Reserve` and its rollback |
| `Settle`, `SettleToken` | `Settle`: funding, then token |
| `Answer`, `UpstreamFails`, `Refund` | the end of the handler and its deferred refund |
| `RefundFunding`, `RefundMark`, `RefundExtra`, `RefundToken` | the goroutine of `Refund`, with `refundWithRetry`; `RefundMark` is the save of the pre-consume record after the inner transaction has committed |
| `FeeFunding`, `FeeToken` | `ChargeViolationFeeIfNeeded` through `PostConsumeQuota` |
| `Connect`, `PreWssConsumeQuota`, `MeterFunding`, `MeterToken` | a realtime conversation: its start in `WssHelper`, the check of `PreWssConsumeQuota` and its `PostConsumeQuota` |
| `SubscriptionEnds` | the subscription expires or is cancelled |
| `PeriodEnds`, `ResetDueSubscriptions`, `AdminReset` | the clock passes `next_reset_time`; the maintenance task; an administrator's reset |

Every write has a name in `FaultPoints` and fails at most `MaxFaults` times in a
behaviour. `errlog[r]` records that a failure was only logged: the code then
makes no promise, and neither does `FinalAccounting`. Prices are arbitrary
members of `Quotas`; the quota read at authentication for the trust decision is
the Boolean `tokenTrusted`, taken when the request starts and stale when used.

`meter[r][c]` is the call of `PreWssConsumeQuota` that the reader goroutine or
the handler itself (`Callers`) is in. The handler of a conversation waits for its
own call and not for the reader's, so a response may be metered while the session
is settled, or after it. Metering reads the wallet and the token, charges
whatever the source of the session is, and is noted in `metered[r]`, apart from
the debits of the session. A reset that is due (`resetDue`) happens in whatever
comes first: the pre-consume of a request, inside its transaction, or the
maintenance task. `carried[r]` notes what a request had asked the subscription
for at the last reset.

`Charging` has two variables per request, `phase` and `amount`. While a request
is open its amount moves; then it is closed once, by a charge or by a release at
zero. `ImplementsCharging` maps the phase to the flags of the session and to the
progress of the refund goroutine, and the amount to the net debit without fee.

### SystemTask

The tasks of one type in one workspace. `status` and `lockedBy` are columns of
the task row, `lock` is the lock row. A scheduler pass of a runner is a chain of
steps, one per SQL statement: `ExpireScan`, `ExpireMark`, `ExpireDelete` for
`ExpireStaleSystemTaskLocks`; `ClaimRead`, `AcquireLock`, `TakeOverLock`,
`MarkOld`, `StartTask`, `ReleaseClaim`, `ClaimFails` for `ClaimSystemTask`.
`handler[r][t]` is the goroutine that runs a task, with `Heartbeat`,
`FinishTask`, `FinishRelease` and `HandlerCancelled`. `CreateSystemTask` needs
the `active_key` to be free. `Crash` ends a process for good (a restart has a
new runner id, so it is another member of `Runners`).

Time is relative: `lock.left` is `locked_until - now` in ticks and `age[r]` the
ticks since the pass of `r` read the clock, so a comparison with a stale clock
is exactly that. `MaxStall` bounds the stall; a value above `TTL` is a process
paused for longer than its lease. `UpdateSystemTaskState` has the guard of
`FinishTask` and writes only progress text, which no property reads.

### TaskPolling

`row[t]` is the task's row: its `status`, whether its progress reads "100%"
(`full`), the time it was `submitted`, its quota and its count of failures. The
queries select by status and progress, and the two are written apart: a plugin
may report "100%" of a task that still runs. `cutoff` is the time
`TaskTimeoutMinutes` ago; a batch answer may replace the submit time it is
compared with, and that `IsLegacy` reads. `charged` and
`tokenCharged` are what the task has taken from its funding source and token,
`surplus` what was pre-consumed beyond the final quota and is not settled yet.
A worker's pass sweeps timed-out tasks one after the other and then polls; each
task is taken to be on a channel of its own, so tasks are polled concurrently.
`job[w][t]` holds the copy of the row a pass works on and the billing step it
is at.

| action | code |
|---|---|
| `Submit`, `SettleSubmission`, `SettleSubmissionFails` | `relay_task.go` and the task path of `controller/relay.go` |
| `Tick` | the clock, by which tasks pass `submit_time + TaskTimeoutMinutes` |
| `StartPass`, `SweepTask`, `ListUnfinished`, `EndPass` | `RunTaskPollingOnce` and `sweepTimedOutTasks` |
| `ChannelMissing` | failure of `CacheGetChannel`: update by id, no status check |
| `PollSkipped`, `PollRunning`, `PollFinished`, `PollNotFound`, `PollFails` | the outcomes of one poll; the last two include the failure cutoff |
| `AdjustFunding`, `AdjustToken`, `UpdateQuota` and their failures | `RefundTaskQuota` and `RecalculateTaskQuota` |
| `FetchRead`, `FetchWrite` | `tryRealtimeFetch` |
| `Crash` | the process ends, or the context is cancelled because the lease is lost |

The batch path and the per-task path write rows in the same way and are one set
of actions. A usage-billed task may end at any amount of `Quotas` when it
finishes. Left out: the limits of the queries, the used-quota statistics, tasks
without a token, `TaskTimeoutMinutes <= 0`, which turns the sweep off, and the
branch for an empty upstream id, which `GetUpstreamTaskID` makes unreachable. `lost[t]` names
the billing steps of a task that never took effect, by an error or a crash: the
properties say for which losses the books still balance.

### WebSession

`page[t]` is the memory of the document in tab `t`: `store` and `boot` of the
auth store, `flight` for `refreshPromise` with the request it is at, `call` for
one API call, `leave` for a logout, `enter` for a login whose answer is on its
way, `change` for a security change. `row[s]`, `userAuth` and `cookie` are the
server's rows, the user's authentication version and the browser's cookie. A
refresh secret is its place in the chain of `deriveNextRefreshSecret`, so the
cookie is `[sid, gen]`. `authEpoch` is kept as `flight.current`: whether the epoch is
still the one the refresh captured.

| action | code |
|---|---|
| `Navigate` | `bootstrapAuthentication`, `resolveAuthentication` |
| `StartRefresh`, `RefreshBack` | `performRefreshWithBrowserLock`, `runRefresh`, `createRefreshRunner` |
| `RefreshCheck`, `RefreshRotate`, `OrphanServe` | `RefreshAuth` with `RefreshLoginSession` and `RotateUserSessionRefresh` |
| `RefreshFails`, `AnswerLost`, `LeaveFails`, `EventLost` | failed requests, lost answers, events that come too late |
| `CallSend`, `CallOnce`, `CallDone`, `CallDenied`, `ReplayDenied` | the interceptors of `http-client.ts`, `getFreshAuthHeaders` |
| `LoginServe`, `LoginBack` | `createLoginSession`; `handleLoginSuccess`, which ignores the bundle when its form was left or the session has changed, and the callback of `oauth.tsx`, which does not |
| `LeaveSend`, `LeaveServe`, `LeaveBack` | `handleSignOut`, `executeLogout`, `AuthLogout` |
| `ChangeServe`, `ChangeAdvance`, `ChangeBack` | `AdvanceCurrentSessionSecurity`, `AdvanceCurrentSessionToUserVersion`, `applyAuthRotation` |
| `Deliver` | the listener of `__root.tsx` |
| `UserReload`, `Expire`, `GraceEnds`, `RemoteRevoke` | page loads, the clock, other devices |

Assumptions: all logins are of one user; calls come from pages other than
`/sign-in`; a round trip is shorter than the 30 s of the grace window
(`GraceEnds`); the end of a session after 30 days is covered by `RemoteRevoke`.
Left out: the de-duplication of equal GETs and the `localStorage` fallback of the
event channel, which carry no session state.

### SessionCache

`row` is the session row, `cache` the hash in Redis with the time it has left,
`op[p]` the operation a goroutine is in with the snapshot it holds and the time
since it fixed its `cacheDeadline`. Every database statement and every Lua
script is a step; between any two the clock may tick (`Tick`) or the process end
(`Abort`). `RedisFails` is a command that fails before or after the server has
run it.

| action | code |
|---|---|
| `ReadHit`, `ReadMiss`, `Load`, `Bury` | `GetUserSessionCached` |
| `Fill`, `Eval`, `EvalFails`, `Check`, `Confirm` | `writeUserSessionCache` of an active snapshot, `confirmUserSessionActiveSnapshot` |
| `RotateRead`, `RotateSwap` | `RotateUserSessionRefresh` |
| `AdvanceBegin`, `Advance`, `AdvanceDenied` | `AdvanceUserSessionAuthVersion` |
| `RevokeRead`, `Fence`, `Commit`, `Final` | `RevokeUserSession` and the other revocations, which take the same steps |

`last` is what the step's validation accepted, with its lag, and `since[v]` for
how long version `v` has not been good: history that the properties read. Left
out: the first snapshot of a new session and `ExpiresAt`, which each reader
compares itself.

### Playground

`messages` is the conversation as rendered last and `queue` the updaters that
React has been handed and has not called. A click renders at once; updates from
timers and the network wait for `Render`, or are called right away when nothing
is queued, which decides which generation they see. `req[r]` is a chat request
on the network, `fresh` while both generations (chat handler and stream
controller) are still its own. A text is a sequence of tokens named by their request,
their part and their place, so an answer in the wrong message or with a gap is
visible. What a token reads is `Letter`, of which nothing is assumed: the prefix
tests of `getAppendableChunk` and `mergePendingStreamChunk` compare what tokens
read, so deltas that repeat what is pending or shown are dropped as in the code.
`unsaved` notes an error of the last save or load, which `saveMessages` and
`loadMessages` swallow: the stored copy stays as it was and no save is due.

| action | code |
|---|---|
| `SendMessage`, `RegenerateMessage`, `SubmitEdit`, `SaveEdit`, `EditMessage`, `CancelEdit`, `DeleteMessage`, `ClearMessages` | `use-playground-conversation.ts`, `index.tsx` |
| `StopGeneration` | `stopGeneration`, `cancel` |
| `HeadersBack`, `HeadersFail`, `ChunkBack`, `StreamEnds`, `StreamGoesSilent` | `createStreamRequestController`, `stream-utils.ts` |
| `ResponseBack` | `sendNonStreamingChat` |
| `Flush`, `Render` | `scheduleStreamFlush`, `flushStreamUpdates`, React |
| `Save`, `Load`, `Unmount`, `Reload` | `use-playground-state.ts`, `storage.ts` |

Assumption: the user does not send before the timer of 0 ms has loaded the
conversation. Left out: `<think>` tags, timing,
wording, the cut of one overlong message on load, the settings of the chat.

## 3. Runs

| run | configuration | states | shows |
|---|---|---|---|
| `billing` | a playground request that may be trusted and a realtime conversation with one metered response and up to two leftovers, one failing write of the metering, one reset, quotas 0 and 2, wallet 3, token 4, subscription total 2, fee 1, trust quota 1, both fallback orders | 3,998,803 | `FinalAccounting`, `OneFundingSource`, `UsageIsSumOfRequests`, `ImplementsCharging` over all interleavings |
| `billing_faults` | a request with a forced pre-consume and an image request that may be trusted, on one token of 3 and a wallet of 3, quotas 1-2, three failures at any point but the refund record | 3,340,253 | `FinalAccounting`, `NoOverRefund`, `ReservationsCovered` |
| `billing_live` | one request, every preference, every write failing up to three times, one reset | 55,483 | `EventuallyFinished` |
| `billing_retry` | two subscription requests | | violated, see findings |
| `tasks` | 2 runners, 2 tasks, lease 1, stalls up to 1 tick, one crash or failed statement | 79,692 | `OneRunnerPerTask`, `RunningTaskHasLock`, `FinishedIsFinal`, `EveryTaskFinishes` |
| `tasks_stuck` | 2 runners, 1 task, stall 2 | | violated, see findings |
| `polling` | 1 task, 2 workers, quotas 0-2, failure cutoff 2, submit times 1 and 2 of which 1 is of the old system, clock to 2, two faults | 1,328,605 | `ChargedIsQuota`, `FailedTaskRefunded`, `NoOverRefund`, `FinishedStays` |
| `polling_live` | 1 task whose channel may be missing and which one GET rewrites, 1 worker, failure cutoff 2, the same submit times, clock to 3, one fault | 460,539 | `EverySubmissionEnds` |
| `web_session` | 2 tabs with Web Locks, 2 sessions, 3 events of users and clock, 1 fault | 1,436,096 | `NoFalseReuse`, `NoRace`, `StaysOut`, `TabsAgree`, `NoOlderToken` |
| `web_session_live` | the same with 2 events, without symmetry | 125,481 | `EveryRequestSettles` |
| `session_cache` | 2 goroutines, time to live 3, slow from 2 ticks on, versions 1-3, 1 failed command | 2,566,693 | `NoLateAccept`, `BoundedStaleness`, `NoOldVersion`, `SnapshotsAge` |
| `playground` | 2 requests (the second sends the text so far), 2 tokens of content and of reasoning each, where the two of the content read the same, 3 events or swallowed errors, 3 stored messages | 3,709,000 | `OwnText`, `NoPendingWhenIdle`, `OneStream`, `NothingUnsaved`, `NotStuck`, `FinalAnswersStay` |

*Why the bounds are enough.* Two requests are what a race on a balance needs,
and the balances are chosen so that one request fits and two do not, that an
estimate can be raised past the subscription's total, and that a settlement can
push a balance below zero. Amounts of 0 and 2, and of 1 and 2, give an estimate
below, equal to and above the cost. One metered response per reader and two
calls of the handler are the calls that can overlap; one reset falls before,
between and after the steps of both requests. Three faults are enough for every
attempt of `refundWithRetry` to fail, or for an operation, its rollback and a
later refund to fail together. For system tasks a lease of one tick lets a row
expire, be taken over and be renewed around a pass that stalls for as long as
the lease; two tasks exercise the reuse of `active_key`. Stalls beyond the lease
break `RunningTaskHasLock` and `EveryTaskFinishes` (`tasks_stuck`), so they are
not in the same run; that `OneRunnerPerTask` and `FinishedIsFinal` survive them
is proved (`SingleExecution` and `FinishedForGood` assume nothing of
`MaxStall`). For polling, two workers are an outlived runner and its successor;
cutoff 2 distinguishes the first failure from the last; two submit times let a
batch answer move a task over the cutoff and back, and over the cutoff of the
old system. Two tabs and two sessions are a login in one tab around a request of
the other; three events allow an expiry, a logout and a login, or a reload
between two calls (three sessions with four events have been explored to 12
million states without an error). In `session_cache` a time to live of 3 with
`MaxStall` 1 is the least that satisfies the assumption `2 * MaxStall < TTL`,
which is needed: a fence that has aged by one stall must outlive a fill that
began just before it, and with 2 and 1 `NoLateAccept` fails. In `playground` two
requests are a superseded one and its successor, three stored messages cut a
conversation of four, and 4 and 6 tokens are limits that two answers exceed. The
theorems of section 5 remove the bounds for the safety properties they state.

*Deadlock* is checked in every run but those of `WebSession` and `Playground`,
where users may stop doing anything and the bound on events ends a behaviour.
`Billing` and `TaskPolling` have an explicit
stuttering step that is enabled only when all work is over.

*Fairness.* `Billing`: weak fairness of each handler and each refund goroutine,
since Go schedules runnable goroutines and every wait has a timeout; nothing is
assumed of clients (`StartRequest`) or of the subscription. A realtime
conversation lasts as long as its two ends keep it open, so `EventuallyFinished`
leaves it out. `SystemTask`: weak
fairness of the clock, of the passes (a ticker starts them for ever) and of
handlers (they return or are cancelled); a crashed runner is not scheduled, and
heartbeats and creation are not assumed. `TaskPolling`: weak fairness of a
worker's pass as a whole (the scheduler enqueues a pass every few seconds), of
the settlement of a submission and of the timeout (`TaskTimeoutMinutes > 0`).
No fairness is assumed on a particular answer of an upstream: an upstream may
report progress for ever, and the timeout has to end the task. `WebSession`:
weak fairness of each request under way (the browser answers it or reports its
failure) and strong fairness of `StartRefresh`, because Web Locks are granted in
the order of the requests; nothing is assumed of users, events or the clock.

## 4. Findings and known deviations

Two runs state what the repository says and are refuted by TLC; `PROJECT.json`
quotes the lines.

- `billing_retry`: `RefundSubscriptionPreConsume` lowers the usage in an inner
  transaction before the record is saved as refunded (`subscription.go:1429`).
  When the save fails, the retry lowers it again.
- `tasks_stuck`: a claim that stalls past its lease between taking the lock and
  starting the task leaves a running task without a lock row
  (`system_task.go:251`). Nothing ever ends it and its type is blocked.

The models show more behaviour that a reader of the code should know. No run is
kept for these; the properties say explicitly which cases they leave out.

- An image request reserves a second time through `WalletFunding.PreConsume`,
  which overwrites `consumed` (`funding_source.go:57`); if it then fails, the
  refund returns only the second amount. `FinalAccounting` leaves image requests
  out.
- A realtime conversation is paid twice: each response is charged when it is
  metered (`quota.go:151`), and the total of all responses is settled at the end
  (`quota.go:232`) without what was metered being taken off. `FinalAccounting`
  states what the session owes and, beside it, that metering has charged the
  funding source and the token alike. A conversation paid by a subscription is
  still refused when the wallet does not cover a response (`quota.go:143`).
- A refund or a settlement that comes after a reset lowers or raises the usage of
  the new period, for a reservation of the old one; the cut at zero
  (`subscription.go:1520`) then swallows a part of it. `UsageIsSumOfRequests`
  bounds the usage from both sides by what was asked since the reset and in all.
- The expiry marks a system task failed by the lock row it read earlier
  (`system_task.go:386`), though the same task may have been claimed meanwhile
  by a runner with a live lease.
- A task that is reported at 100% while it runs (`task_polling.go:342`, `598`,
  `relay_task.go:567`) is selected by no query again, neither to be polled nor to
  be timed out (`model/task.go:354`, `370`): it keeps its status and its quota for
  ever. `EverySubmissionEnds` names this exception `Stranded`. A batch answer with
  a submit time before the cutoff of the old system (`task_polling.go:339`) makes
  the sweep close a new task without a refund.
- Tasks of a channel that cannot be read are failed without a refund
  (`task_polling.go:434`), and a client's GET writes back a whole row that was
  refunded and finished meanwhile (`relay_task.go:580`). The accounting of
  `TaskPolling` leaves out `Unreachable` and `Realtime` tasks; tasks of the old
  system are left out because the sweep closes them without a refund on purpose
  (`ClosedOld`).
- Sessions: a refresh answered 401 after another tab logged in clears the new
  cookie; a logout with an expired token that two rotations have overtaken
  reports success and revokes nothing. Tabs may then stay on different sessions:
  `astray` marks a missed event, an answer that brings back the cookie of a
  session a newer login replaced, the answer to a sign-in that comes when its
  form was left or its tab holds another session (`use-auth-redirect.ts:55`: the
  cookie is stored, the bundle ignored, and no tab is told), and the answer to a
  sign-out that reaches a tab holding another session, and `TabsAgree` leaves
  these out. A refresh between the increment of the user's version and the
  advance of the session revokes it; a database error in the check is answered
  as an invalid session and clears the cookie (`service/auth_session.go:229`); a
  rotation on a row that was just revoked is answered 500; a replayed call may
  carry the token of another session (`http-client.ts:106`).
  `AUTH_REFRESH_RACE`, which the client retries three times, cannot be answered
  (`NoRace`).
- Session cache: a reader whose fill fails in Redis accepts its snapshot without
  looking at the clock again (`BoundedStaleness` leaves it out).
- Playground: saving an edit replaces the conversation by the one rendered last,
  which drops updates React has queued (`use-playground-conversation.ts:76`, the
  history variable `overwrote`); a stream closed with status 200 and without
  `[DONE]` never ends (`stream-utils.ts:96`); the stop button can drop the last
  chunk (`use-chat-handler.ts:362`); deltas that repeat at once what is pending
  or shown are dropped (`message-streaming-utils.ts:74`,
  `use-chat-handler.ts:60`), so `OwnText` claims a text without a gap only of
  answers in which no stretch repeats itself at once (`Unrepeated`) and of
  upstreams that send the text so far; an error of `localStorage` or of the
  schema is swallowed by save and load (`storage.ts:367`, `382`), after which
  the stored copy differs from the page until the next change (`unsaved`); the
  save has no maximal wait, so a reload in a long stream loses the exchange
  (`use-playground-state.ts:64`); a conversation above a megabyte is deleted on
  load (`storage.ts:58`).

## 5. Proofs

All theorems hold for every value of the constants that satisfies the named
`ASSUME`s: any sets of requests, runners, tasks, workers and tabs, any amounts,
any number of faults. Each invariant was first checked with TLC. For each theorem
`Spec => []P` the proof shows `Init => I`, `I /\ [Next]_vars => I'` and
`I => P`; the step lemma has one case per action. An action property is proved
of one step from the same invariant. A hypothesis of a theorem beyond the
`ASSUME`s of its module is stated in the theorem and named below; each one has
instances among the runs.

**`BillingProofs`**

- `BillingTypes`: `Spec => []TypeOK`.
- `FinalAccountingHolds`: under the hypothesis that the save of the refund
  record does not fail (`"refundMark" \notin FaultPoints`),
  `Spec => []FinalAccounting`.

`FinalAccounting` speaks of finished requests only, so the invariant has to say
what a request holds at every stage. It is `TypeOK /\ AllGood`, where `Good(r)`
is the conjunction of `Flags` (which flags and refund stages go with which
stage of the handler; a session is not both settled and refunded), `Amounts`
(the fields agree: nothing is held before admission, `consumed`,
`preConsumed` and `extraReserved` are related, a reservation under way is
`delta`) and `Ledger`: the debits equal what the fields say is held, stage by
stage, on the funding source and on the token. `Ledger` is claimed for requests
that are not image requests and have no logged failure (`Exact`). `MeterLedger`
says the same of the metering beside the session: what it has charged on the
funding source and on the token differs by the amounts of the calls that have
done the first and not yet the second.

**`FundingProofs`** drops the restriction to `Exact` requests where the claim
allows it, so it also covers image requests and requests some of whose writes
have failed.

- `OneFundingSourceHolds`: `Spec => []OneFundingSource`, without hypothesis. The
  invariant `Sided` says that nothing is charged before the source is chosen,
  and that the fallback to the other source begins with both at zero.
- `NoOverRefundHolds`: `Spec => []NoOverRefund` when the save of the refund
  record does not fail (`billing_retry` shows that it must not). `Floor` bounds
  what the session may still give back by what its source and its token have
  been asked for, stage by stage.
- `BillingImplementsCharging`: `Spec => ImplementsCharging`, the refinement of
  `Charging`, under `FundingExact`: no image requests, and no failing write
  among those of the rollback and the refund, as in the run `billing`. A write
  that fails there is only logged and `Charging` has no step for it. The mapped
  amount is tied to the fields of the session by `FundingLedger` and
  `AmountIsHeld`.

**`BalanceProofs`** speaks of all requests at once, when the save of the refund
record does not fail:

- `UsageIsSum`: `Spec => []UsageIsSumOfRequests`.
- `ReservationsAreCovered`: `Spec => []ReservationsCovered`.

`Conserved` says that a balance and the debits of the sessions on it add up to
at most the initial balance (metering takes the rest), that the usage satisfies
`UsageIsSumOfRequests`, and that a subscription stays within its total. Cutting
the usage at zero keeps its lower bound, and its upper bound because the sum of
what was asked for never falls below zero, as no request gives back more than it
took (`UsageBounds`, `MeterUsage`); a reset starts again at the lower bound
(`ResetBounds`). While nothing was asked for before a reset `carried` is zero and the two bounds
coincide. `Covered` bounds the checked reservations of all requests by the
initial balance: a step that raises the share of one request has just seen the
balance stay at zero or above (`WalletChecked`, `TokenChecked`), and `Conserved`
turns that into the bound. Settlements and fees, which may push a balance below
zero, never raise a share. `SumFunction` is a fold over a finite set; that it is
zero on zeros, monotonic, and changes by as much as one term does is proved
first, by taking a least counterexample among the cardinalities of subsets.

**`SystemTaskProofs`**

- `TypeCorrect`, and `SingleExecution`: `Spec => []OneRunnerPerTask`, however
  long a runner stalls. The invariant `Claimed` says that a dispatched task
  names its runner in `lockedBy` and is no longer pending, and that a claiming
  pass has a candidate: what makes double execution impossible is the
  conditional start, not the lease.
- `FinishedForGood`: `Spec => FinishedIsFinal`.
- `RunningIsLocked`: with `MaxStall <= TTL`, `Spec => []RunningTaskHasLock`. The
  invariant `Leased` adds that a claim between lock and start still holds a row
  that no other pass can consider expired, that at most one task is active, and
  that a pass which deletes or releases a row has seen its task end. The
  hypothesis is needed: `tasks_stuck` refutes the conclusion without it.

**`TaskPollingProofs`**

- `PollingTypes`, `QuotaIsCharge` (`ChargedIsQuota`), `FailureRefunds`
  (`FailedTaskRefunded`), `NeverOverRefunded` (`NoOverRefund`) and
  `FinishedTaskStays` (`FinishedStays`).

The invariant is `TypeOK /\ AllGood /\ OffGood /\ FetchGood`. `Good(t)` says
that only the worker that won the conditional write bills a task, that there is
at most one such worker, and what the task holds at each billing stage:
before the funding step both amounts equal the old quota, after it the funding
has the target, after the token both have it. `Held = charged - surplus`
separates this from the settlement of the submission, which may come at any
time. `OffGood` (an idle worker holds no copies) and `FetchGood` (a GET waits
only for a realtime task) frame the rest.

**`SessionCacheProofs`**, for any number of goroutines, any time to live, any
`MaxStall` below half of it and any number of versions and failed commands:

- `SessionTypes`: `Spec => []TypeOK`.
- `SnapshotsGrowOld`: `Spec => []SnapshotsAge`, which is inductive with the types:
  whoever holds a snapshot has held it for at least as long as its version has
  not been good, and an entry has no more time left than that.
- `StaleSnapshotsDie`: `Spec => []BoundedStaleness`, from the same invariant.
- `RevokedAtOnce`: `Spec => []NoLateAccept`. The invariant `LateInv` says, while
  nothing has been slow and Redis has not failed (`Calm`): every operation is
  younger than `MaxStall` or just that old (`AllPrompt`); a revocation that is
  about to commit has a fence in Redis that is as young as itself (`AllFenced`);
  and after the commit the tombstone outlives every operation that had read the
  row before (`Buried`). Here `2 * MaxStall < TTL` is used.

- `OldVersionsRefused`: `Spec => []NoOldVersion`. It is the same argument with an
  entry of a newer version in the place of a tombstone. `VersionInv` says that
  what was announced is committed, that a snapshot is not older than what was
  announced when its operation began, that an advance has been at work since it
  committed, and, while `Calm`, that Redis refuses the version before the
  announced one for as long as an operation may hold it (`Shielded`).

**`WebSessionProofs`**, for any number of tabs, sessions, events and faults:

- `WebTypes`: `Spec => []TypeOK`, inductive with `Named` (an answer with a bundle
  names a session).
- `NobodyRaces`: `Spec => []NoRace`, with or without Web Locks: a secret has
  one successor, because the rows keep the chain (`RowInv`).
- `SignedOutForGood`: `Spec => []StaysOut`. `SeenInv` says that nobody names a
  session before the answer to its login has arrived and that an answer is about
  the session that was presented; `LeftInv`, that what a tab has signed out of
  is revoked and that no answer it will still take is about it.
- `TokensNeverGoBack`: `Spec => NoOlderToken`. By `VersionInv` every version in a
  page was one of the row, and an answer that will be taken is not older than
  the token it replaces: this is what the epoch of `auth-session.ts` is for.
- `LockPreventsReuse`: with `UseLocks`, `Spec => []NoFalseReuse`. `ReuseInv` says
  that only the holder of the lock has a refresh under way, that the cookie is
  the current secret unless the answer that brings it is arriving, and that a
  request whose page has gone can only present the previous secret within its
  grace. Without Web Locks two tabs rotate concurrently and the claim is false.
- `TabsComeTogether`: `Spec => []TabsAgree`, with or without Web Locks.
  `TabsAgree` speaks of quiet states only, so the invariant says how the tabs get
  there. `AskInv`: a refresh whose answer counts expects the session of the
  store, and a sign-out that leaves the cookie alone had sent none. `SyncInv`, as long as
  nothing is `astray`: what events sign out of, and what requests name beside
  the session of the cookie, is `Past`, seen and no longer the cookie's, which
  stays so; and every tab holds the session of the cookie, is still going to
  look for it, or has the event that tells it in its queue. The search for this
  invariant showed that several exceptions of `astray`, and the hypothesis that
  the session of the cookie is still valid, were not needed: the property was
  strengthened and now holds of every cookie.

The step lemmas do not work on the actions themselves: every action is first
shown to be one of some twenty kinds of step (`PlainStep`, `SendStep`,
`RotateStep` and so on, collected in `OneTab`), which say what it does to rows,
cookie and page, and the invariants are proved of these.

**`PlaygroundProofs`**, for any number of requests, events, tokens and messages:
all properties of the run `playground`.

- `OneStreamHolds` and `NeverStuck`, from `NetInv`: at most one request is of the
  current generation, it is the source or the one that can be aborted once it
  has got that far, and `requesting` holds exactly while there is one.
- `PlaygroundTypes`, `NothingIsLost` (`NothingUnsaved`) and `IdleMeansFinal`
  (`NoPendingWhenIdle`), from `PageGood`: the conversation has unique keys
  (`ConvInv`), the queue has flushes and at most one end, which comes last
  (`QueueInv`), while an answer is generated the last message waits for it and
  is not being edited (`ScreenInv`), and unless an edit has overwritten an
  update only that message is pending (`PendInv`).
- `FinalAnswersAreKept`: `Spec => FinalAnswersStay`. Every action changes the
  conversation by updaters, which reach the pending last message only, by
  cutting it (`Part`), or by an edit.
- `TextsAreTheirOwn`: `Spec => []OwnText`, for any `Letter`. `TextInv` ties the
  message that waits, as the next render will show it, to the request and the
  buffered chunks: its text consists of tokens of the answer in their order, and
  the chunks hold only later ones, or, where nothing repeats itself, lead from
  there to what was received without a gap (`Waits`, `Leads`). This also covers
  the text that a stop leaves when React has called one of the queued updaters
  and not the others.

A render is a fold over the queue. What it computes is proved from the
definition of the fold (`RenderedSteps`, `RenderedKeeps` and the lemmas before
them), by taking the shortest queue for which a claim fails.

**Only model-checked.** Liveness (`EventuallyFinished`, `EveryTaskFinishes`,
`EverySubmissionEnds`, `EveryRequestSettles`): fairness and `ENABLED` are out of
the prover's reach. Every other property of a passing run is proved.

## 6. What is not modelled

- Prices (`pkg/billingexpr`, `text_quota.go`, `tiered_settle.go`): floating-point
  arithmetic over provider tables. The models take any amount as the result.
- Redis copies and batched updates of the balances: `Billing` treats a balance
  as one value that one step changes (planned, see below).
- Process crashes in `Billing`: a session lives in memory and nothing recovers
  its hold, so no promise survives the first crash. It is listed as a hazard.
- Protocol conversion, upstream adaptors, JavaScript plugins: translation
  without shared state.
- The rest of the web console and the desktop shell. The console has some
  236,000 lines of TypeScript, of which the modules here cover the login session
  and the chat. Nearly all the others are forms, tables, dialogs, translations
  and generated routes: they show the answer of a query and post a form, so a
  model of them would restate the code line by line and have no property that
  takes two steps to violate.
- Rate limits: sliding windows in real time.
- Tenant scoping: a filter on every query; each model is of one workspace.
- Integer overflow: quotas are clamped far below the width of an int.

## 7. Plan

Done: `Billing` with `Charging`, `SystemTask`, `TaskPolling`, `WebSession`,
`SessionCache`, `Playground`, and the proofs of section 5: every safety property
of the passing runs is proved. Next, most important first:

1. `QuotaCache`: the balance in database, Redis and batch; reservation,
   rehydration, batch write, crash; the monthly reservation of `plan.Reserve`.
   An abstract single-value balance is its specification, and the assumption
   `Billing` makes of it. Run: two processes, one balance, one lost batch.
2. `Subscription`: several subscriptions of one user; order completion by
   repeated callbacks; change of group on expiry.
3. `TaskLedger`, the abstract specification of a task's bill (held, then charged
   or released once), refined by `TaskPolling`.
4. Composition of `SystemTask` with `TaskPolling`: the lease decides who polls,
   in place of two unrelated workers.
5. The authentication version of a user, whose fence is that of `SessionCache`.
6. `Midjourney`; top-ups, codes and check-ins with duplicated callbacks.
7. Channel selection: that a retry sequence visits the priorities and ends.
