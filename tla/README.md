# ucli-server in TLA+

ucli-server is a gateway for model calls inside a company. Employees call
models through it; administrators divide money between usage groups and
projects; every call reserves money before it is sent, and settles, holds or
releases the reservation afterwards. This directory models, first, the part of
the program that must not lose money or quota however its processes interleave,
fail and restart: the budget ledgers of groups and projects, the Redis quota,
the request handler of the gateway and the recovery of the worker. Second, the
administration around it, whose calls race with each other and with requests:
accounts, device grants, keys and memberships, the catalogue of models and
channels with its tests, the routing of unbudgeted requests, and the page of a
user in the browser. Third, the algorithms and views that have to agree with
them: prices, cost schedules, budget summaries and lists, and the views of usage.

Paths below are relative to the repository; the glossary is its `CONTEXT.md`.

## 1. Inventory

### Processes and stores

| Part | Where | State |
|---|---|---|
| Control API (NestJS) | `apps/api` | none of its own: PostgreSQL |
| Model Gateway | `apps/gateway`, `packages/gateway-core` | the requests in flight, in memory |
| Worker | `apps/worker` | none: cron jobs over PostgreSQL and Redis |
| Admin web application (Vue) | `apps/admin` | a client of the Control API |
| Budget ledger | `packages/quota/src/group-budget.service.ts`, `project-budget.service.ts` | PostgreSQL: periods, entries, usage logs, applications |
| Redis quota | `packages/quota/src/redis-quota.ts` | Redis: counters, concurrency keys, markers |
| Everything else | `packages/security`, `storage`, `skills`, `reports`, ... | see the table of components |

Control API, gateway and worker are separate processes. They share only
PostgreSQL (each service method is one transaction that locks the group or the
project row first) and Redis (each operation is one Lua script). Between two
such steps any other process may run, and any process may die. A reply may be
lost after the transaction or the script has taken effect.

### A budgeted call

1. `group-request.ts` reserves quota in Redis, one policy after another. Each
   reservation leaves a *marker* that records it and its recovery time, 120 s
   later.
2. It reserves the estimated cost in the ledger: an entry in state `RESERVED`
   with a lease of 60 s.
3. `relay.ts` tries suppliers in turn. Before each attempt it extends the
   reservation if the previous attempt may have been charged, renews the
   markers and records the dispatch in the ledger, which sets the lease to the
   longest timeout of the candidates and a minute. A heartbeat does the last two
   every 30 s.
4. At the end the handler **settles** (every attempt's cost is known),
   **holds** (some cost is unknown: its estimate stays reserved and an
   administrator has to decide), or **releases** (nothing was sent). If that
   fails twice it marks the entry uncertain.
5. `syncQuota` carries the outcome to the markers and then marks the entry as
   synchronised. A later manual reconciliation bumps a version and is carried
   the same way.
6. Every minute the worker recovers what a dead gateway left: entries whose
   lease has passed (`recoverExpired`), entries not synchronised, and markers
   whose recovery time has passed (`recoverQuota`).

### Administration

An administrator's call is a handler of the Control API. Some run in one
transaction under the row locks of what they change (projects, grants, groups);
many read a row, check, and write it later by its id (catalogue, passwords); a
few compare and set (claims of probes, refresh tokens, failure counts). Calls of
several administrators, of employees, of the worker and of requests overlap.
The browser sends calls whose answers may arrive in another order than they
were sent, after the page has gone on to another user.

### Components

`PROJECT.json` gives each component's sources, modules and status. What makes
each correct, and what is hard about it:

| Component | State and operations | Correct when | Hard because |
|---|---|---|---|
| Group budget ledger | periods, entries, logs; reserve, extend, settle, hold, release, markDispatched, markUncertain, recoverExpired, syncQuota's confirmation, reconcile, adjust, configure | totals are the sums over the entries; a dispatched request is not refunded silently; the log agrees with the ledger; manual decisions are final; months are not split under a request | nine callers on one row, repeated calls, changes of timezone at a month's end |
| Redis quota | counters, concurrency key with a generation, markers; reserve, settle, renew, releaseConcurrency, correctCost; expiry | counters are the sums over the markers; slots are given back once; corrections apply in order | keys expire under their users; late and repeated calls; requests with and without markers on the same keys |
| Budgeted request handler | stage of each request | ledger, quota, handler and worker agree | a crash or a lost reply between any two steps, the heartbeat beside the handler |
| Relay loop | attempts, their billing states | every attempt that may be charged is covered | retries, unknown cost |
| Worker recovery | none | everything abandoned is recovered, nothing live is taken | races a stalled gateway that is still alive |
| Project budget ledger | its own periods and limits, entries tied to project, member and key | as the group's; an archived project has nothing open | a request is admitted before its project is archived and reserves after; its recovery is not called |
| Budget applications | one row each; submit, reject, approve with the limit | decided once, together with the limit | the archive flag is read before the insert |
| Legacy gateway path | memory only; Redis without markers | each reservation is ended once; a refused key stays out of the routes | `finish` and `close` both end a response; nothing repeats a failed settlement; stale rows are written back |
| Budget views | none | what a page shows agrees with what the ledger admits and alerts | computed apart, partly in SQL |
| Device grants, links, sessions | grants, links, refresh tokens, row locks | one usable link per grant; what is taken away stays with nobody; a token is exchanged once; no deadlock | concurrent refresh, redeem, disable, delete, archive |
| Employee keys, gateway authentication | keys, memberships | who was removed holds no live key | a key being issued or enabled while its owner is removed |
| Usage groups, org units, projects | rows with status and memberships | archived things admit nothing new | two services change the same memberships under different locks |
| Users | accounts, roles, tokens | an administrator remains; a token proves the present password | mutual demotion; slow hashing between read and write |
| Channels, models, costs | catalogue rows | cost rules do not overlap; mappings follow their parents | read, check, write later by id; archive and restore |
| Model testing | probe claims, failure counters | one claim per due probe; no outcome lost | probes that end at once, after a rebinding or an archive |
| Routing, pricing, protocols | pure functions | against reference definitions | boundaries of windows and weeks; rounding |
| Admin web application | what the page of a user shows | no late answer is shown in the place of a newer one | overlapping calls |
| Usage views | none: sums over logs and route attempts | every request is shown, rows add up to the totals, a row's link leads to that row, nobody sees another's requests | the cost of a request is split over its routes, with a rest that belongs to none |
| Skills, storage, HTTP, security, scripts, exports and reports | none, or pure input and output | outside this development | |

The hazards of `PROJECT.json` list, at its line, each thing in this code that
a test would hardly reach, and the properties that cover it. Those without a
property say why.

## 2. Modules

```
Totals                        sums over finite sets
 ├─ TotalsProofs              their laws
 ├─ BudgetAccount             what a budget promises, whoever keeps it
 ├─ BudgetLedger              the durable ledger of one group   (implements BudgetAccount)
 │   ├─ LedgerViews           what the pages show of it
 │   ├─ BudgetLedgerProofs         (extends LedgerViews, TotalsProofs)
 │   ├─ MCBudgetLedger
 │   └─ BudgetedRequest       ledger + INSTANCE QuotaRedis + gateway + worker
 │       ├─ MCBudgetedRequest
 │       └─ RequestProofs          (extends BudgetLedgerProofs, INSTANCE QuotaProofs)
 ├─ QuotaRedis                counters, concurrency keys, markers
 │   ├─ QuotaProofs                (extends TotalsProofs)
 │   └─ MCQuotaRedis
 └─ UsageViews                what the usage pages add up

Accounts                      accounts, roles, passwords, tokens
DeviceGrants                  grants, links, row locks, sessions
 └─ DeviceProofs
Workspace                     units, projects, members, keys
 └─ ProjectLedger             the budgets of projects   (implements BudgetAccount)
     └─ WorkspaceViews        what the pages show of both   (extends Totals)
Console                       the page of a user in the browser
PeopleProofs                  of Accounts, Console, ProjectLedger and WorkspaceViews
MCPeople                      Accounts + DeviceGrants + ProjectLedger + Console

CostSchedule                  which cost applies when
 ├─ MCSchedule
 └─ Catalog                   channels, keys, models, mappings, rules, prices
     ├─ ModelTesting          tests and probes of the mappings
     ├─ LegacyRelay           unbudgeted requests
     ├─ MCModels              ModelTesting + LegacyRelay
     └─ CatalogProofs         of both at once       (extends CostProofs)
Pricing                       limits, usage and price of a call
CostProofs                    of CostSchedule, Pricing and UsageViews
```

### BudgetAccount

The abstract specification of both ledgers. A request makes one *deal* with one
account: what it may cost is promised, then sent, then perhaps held once, and in
the end settled or returned. The account has no running totals, no leases, no
log and no calendar: what it has used is the sum over its deals. It promises

- nothing new unless the limit covers it together with all that is promised and
  paid already; what was sent is paid, covered or not;
- to give back nothing that was sent, unless an administrator corrects it, and
  to lose nothing that was promised;
- that a deal stays with its account and is over when it is over, except for
  corrections by hand;
- no limit below what is used.

`DealOf` maps an entry of a ledger to the deal it records. In `BudgetLedger`
an account is a period, whose limit is the group's default until the period is
opened (`LimitOf`); in `ProjectLedger` it is a project and a month. An
admitted request of a project has made no deal yet. Because both ledgers admit
against totals that they keep beside the entries, the refinement says that these
totals can stand for the sums in every interleaving.

### BudgetLedger

`group`, `period`, `entry`, `log` and `application` are the tables of the same
purpose; `outbox` is the part of an entry's snapshot that the Redis quota has
not yet seen, `done` the operation ids recorded by adjustment entries. One
action per method, with its guards in the order of the code. A call that is
refused, or that repeats what was recorded, changes nothing and is a stutter,
so idempotence is the *absence* of a second effect: for instance `Settle` on a
settled entry is not enabled.

What is worth knowing when reading it against the code:

- `Reserve(r, at, ...)` takes the instant the request *started*, which may be
  earlier than the present: a request that crosses the end of a month reserves
  in the month it began in, and may be the one that opens it.
- `AdjustDefault` and `Configure` first open the current period with the old
  defaults. That upsert is part of the action.
- `RecoverExpired(r, now)` takes the instant at which the scan began, because
  the scan and the recovery of each entry are separate transactions.
- The alert threshold is raised in the action that moves the totals.
- Amounts are natural numbers in an unspecified unit. The code computes with
  decimals of fixed precision; rounding is outside the model.
- Months and timezones are abstract: `MonthOf[tz][t]`. The instance has two
  timezones that disagree about one instant only.

### QuotaRedis

One action per Lua script. A time to live is not a number here but the
condition under which nothing refreshes the key: the concurrency key of a
policy may expire unless a live gateway renews a marker of its present
generation; the counters of a window expire only after the unbudgeted requests
that reserved in it are over; a settled marker expires after the month's
counter. A gateway reserves under its policies one after another before it does
anything else (`Started`): it never reserves again for a request that it has
stopped renewing. `Legacy` requests are those of the unbudgeted path, which reserve and
settle the same keys without a marker. The token counters move like the cost
counters, and the per-second and per-minute rate keys only refuse: both are
left out.

### BudgetedRequest

`gateway[r].stage` is the position of the handler; each stage boundary is an
`await`. `session` holds the snapshots from which two runs of `syncQuota` (the
handler's and the worker's) work at the same time, `orphan` the markers that
`recoverQuota` has found without an entry and not yet released. `Crash` stops
a handler at any stage; `faults` bounds the calls that fail or whose reply is
lost. `LedgerKind = "PROJECT"` is a project credential: the request methods of
`ProjectBudgetService` have the guards and effects of the group's, so the same
actions serve, but the worker's recovery does not find the entries.

Nothing is assumed of time. A marker may fall due, and the lease may pass, at
any moment and under a live gateway. So a gateway that stalls for 120 s between
its quota and its ledger reservation can find that `recoverQuota` has taken its
marker for an orphan's, or is about to release it without looking again
(`group-budget.service.ts:346-349`). It goes on all the same, and calls
suppliers with slot and quota given back. `gateway[r].overtaken` is a history of
the policies to which this had happened when the entry was inserted, and
`InFlightHoldsSlot`, `UnresolvedKeepsQuota` and `EventuallySynced` exempt exactly
these (section 6). Counters and
markers do not expire in the composition (they live for days and months), the
concurrency key does. The worker takes entries in batches of 100; the model
recovers each entry on its own, so starvation of a batch is not covered.

### LedgerViews and WorkspaceViews

Operators without state: the budget summaries, the page of groups at risk, what
a leader sees, and the pages of units, projects, members and keys. Each asks
the tables with conditions of its own, apart from those of the ledger and the
gateway, some of them in SQL. Their properties (`RisksMatchLedger`,
`UsageMatchesSpending`, `AdmittedKeysShown`, `AlertsReported`,
`UncertainIsReserved`) say that the two agree. They are functions of the
ledger's state, and are proved rather than run.

### Accounts

A role update is a transaction of two statements, `LockActor` and the write of
the target's row: the first updates, and so locks, the actor's own membership.
The set-up counts accounts under an advisory lock. A password change reads the
account (`BeginChange`), hashes, and writes later without a lock; its version is
incremented in the row. `tokens` is a history of the tokens issued, each with
the version and the password it was issued for.

### DeviceGrants

One account in one usage group. A transaction takes its row locks one step
each, in the order of its statements (links newest first, then the grant, the
group), makes all its writes in one step when it commits, and may
abort at any point; a retry is a new transaction. The locks are part of the
state, so a circle of waiting transactions would be found (`NoDeadlock`).
Grants are numbered, because the deletion or archiving of a group visits them in
the order of their ids. A
refresh reads the token and exchanges it later by compare-and-set; `used`
counts the exchanges of each token.

### Workspace and ProjectLedger

Two services change the same memberships. That of the usage groups locks the
group; that of the organization units locks nothing; that of the projects locks
the project. Each is one step, except three that look and later write under one
lock: the issue of a key and the archiving of a project hold the project's, the
enabling of a key the group's (`enabling`). A project's members may be removed
while one of its keys is being enabled, and the removal revokes the key between
the look and the write. A step that takes a lock waits for whoever holds it
(`ProjectFree`, `UnitFree`).
`leavers` is a history of who was removed from which project and not added back.

The budgets of projects are tied to this: `Admit` is the gateway's guard, and
`Reserve` looks again at project, membership and key under the project's lock.
The postings are those of `BudgetLedger` without configuration and
reconciliation.

### Console

The page of one user and the link of the user's device grant. `onWay` holds the
calls that have been sent; an answer arrives in any order, or fails. The
generations that the code counts are compared only for equality, so a call on
the way says instead whether the page was reset since it began and whether a
later call took its place. `told` is a history of what was answered since the
reset.

### CostSchedule, Catalog

`CostSchedule` is pure: a week of days, minutes and ticks, windows that may pass
midnight, validity, priority, and the resolution, the overlap check and the
search for the next change, which stands beside a definition by brute
force over the instants (`EarliestChange`). Of the pages it has the weekly
timeline with its slot for an instant, the cost status of a mapping, and the
form of a rule: what opening a rule fills in, what the form accepts, and what
saving it sends.

`Catalog` is the tables of channels, keys, models, mappings, rules and prices
with the handlers that change them. Most handlers read a row, decide and write
later by id: a call in `calls` keeps what will be written between the two. What
runs under advisory locks (a binding, an archive) or under a mapping's lock (the
check and write of a cost rule) is one step, or a call that excludes the others.
A restore or create takes no lock, so a parent that it found in use can be
archived before it writes. `overtaken` is a history of the calls to which this
has happened, `stale` of the mappings that they have brought back;
`BindingsFollowParents` exempts these, and no mapping brought back under a parent
that was archived before the call looked. The form of what an
administrator sends is part of the assumptions (`RuleInput`, `Fits`): a patch has
only fields of the row's DTO, each of its type.

### ModelTesting, LegacyRelay

`ModelTesting` adds tests: a test reads a mapping, waits for the supplier, and
moves the failure count by compare-and-set, up to `MaxTries` times; a worker's
pass claims a due mapping by the time of its last test. `inARow` and `claims`
are histories.

`LegacyRelay` adds requests without a group: candidates from the catalogue,
one reservation per policy, attempts with retries and fall-backs, and the end of
the response, which `finish` and `close` both report. What a request learns of
keys and channels is written to the catalogue's rows. `quota` is the set of
requests that hold a reservation of each policy; how Redis keeps it is
`QuotaRedis`.

### Pricing

Pure: the limits put on a budgeted call, the estimate, the usage that suppliers
report in each protocol, and its price, with rounding to eight decimals, up for
the estimate and to the nearest for the cost.

### UsageViews

Pure, and proved rather than run: logs and route attempts are any tables, since
what the pages add up must be right for every history. A request's cost is split
into *allocations*: one for each route that has a bill, one for a log without
any, and one for the difference between log and routes. On these stand the
filter with the columns that a caller's role pins, the overview, the breakdowns
and the time series, the links of their rows, the detail of a request, and the
amounts on a member's page. A column that may be NULL is `Unset`, which every
comparison with a condition leaves out and a link may ask for by name. Tokens and
latencies are added up like costs and are left out.

### MCPeople, MCModels

Each composes components that share no state, or that use one catalogue from
different sides. Interleaving parts that share nothing adds no behaviour, so a
variable `part` chooses in the initial state which of them moves, and the run
explores the *sum* of the parts instead of their product. What a part restricts
is written in the part's next-state relation, as a condition on what the step
may reach.

| `MCPeople` part | Moves |
|---|---|
| roles | set-up, role updates, status |
| passwords | password changes, resets and addresses of a second account |
| links | two transactions on one grant |
| sessions | a transaction and two refreshes |
| group | two transactions on two grants of a group that is archived |
| members | units, projects, memberships, the issue and the enabling of a key |
| money | a project in use: requests, worker, applications, archive |
| details, grant, link | the page of a user: its details, a new grant, the grant's link |

| `MCModels` part | Moves |
|---|---|
| binding | two calls that bind and rebind mappings of one channel |
| rules | two calls that change the cost rules of one mapping |
| channels | one call: channels and keys |
| offer | one call: a model, its mapping and its price |
| probes | two tests of a mapping, an administrator who rebinds and archives it |
| relay | two requests under two policies of one slot each |
| keys | two requests over two channels, an administrator and a probe on the first's key |

## 3. Runs

| Run | Instance | Asks |
|---|---|---|
| `ledger_money` | two requests, amounts 0 and 1, limits 0 and 1, one operation, all calls in all orders | Is money conserved in every period? Does anything but a charged cost overdraw one? Does the ledger implement `BudgetAccount`? |
| `ledger_request` | one request, amounts 0, 1 and 4, limits 0 and 5, two operations, an application | Do log, entry, lease and alerts agree after every path, with up to two manual corrections? |
| `ledger_calendar` | two requests, two timezones, two months, three instants, two changes | Does a change of mode or timezone split a month, or touch a period with requests? |
| `ledger_timezone_label` | the same instance | Violated: finding 1 |
| `quota` | three budgeted requests and an unbudgeted one on two slots; one of each under a cost quota, amounts 0 to 2, two versions | Are slots given back once, and is the limit kept while keys expire? Are the counters exact under late and reordered corrections? |
| `request_safety` | one request, two policies, one attempt, one correction, one failed or lost call, crashes anywhere | Do ledger, quota, handler and worker agree in every interleaving? |
| `request_liveness` | one request, one policy, two attempts, one failed or lost call, a crash anywhere | Is every attempt covered and accounted for? Does the worker finish what a handler leaves? |
| `project_recovery` | the liveness instance with a project credential | Violated: finding 2 |
| `project_quota` | a project credential | Violated: finding 3 |
| `people` | the parts of `MCPeople`: two of each kind of concurrent call, two accounts, two grants with two links and two refresh tokens each, one employee in two units, two projects and two keys, one request with amounts 0 and 2 and limits 0 and 3 in two months, two users with two versions and two calls on the way | Does an administrator remain, a token prove the present password, a link belong to a grant that may be bound? Is what was taken away taken from all? Do transactions deadlock? Does the page show an answer that came too late? Does the project ledger implement `BudgetAccount`? |
| `models` | the parts of `MCModels`: a week of two days of three minutes; two channels, keys, models, mappings and rules, one price; two calls, tests and requests; two policies of one slot; one retry, two tries of a compare-and-set, three failures | Is the cost unambiguous? Do mappings follow their parents? Are outcomes counted once and reservations ended once? Does a refused key stay out? |
| `next_cost_change` | a rule that always holds and one that begins later, on one day of a week of three | Violated: finding 4 |

Why these bounds are enough to reach the interesting cases:

- Money moves between one request and its period, and requests meet only in a
  period's totals and in the guard on its funds. Two requests compete for the
  last unit; a third adds no new kind of step. The proofs of section 5 remove
  the bound for conservation.
- `ledger_request` needs a limit at which 80 % and 100 % are distinct (4 and 5
  of 5) and one request that goes through a hold, a settlement and two
  corrections.
- Two timezones that disagree about one instant give every order of: period
  opened, left, target already open, target new. Three instants make the month
  end in one timezone before it does in the other.
- With two slots and three budgeted requests, one of them can outlive the
  concurrency key while the other two fill its next life.
- In the composition two policies are needed for a partial reservation
  (`request_safety`), two attempts for a retry (`request_liveness`), and one
  correction for a snapshot that is overtaken (both). The proofs have any number
  of each.
  Budgeted requests interact only through totals and slots, which the two
  component runs cover with several requests. `request_safety` fixes the mode
  to MONTHLY: the instance has one month, so both modes behave alike.
- The races of `people` and `models` are between two calls on one row: a check
  and a write, a lock and a lock. Two of each reach every order of their steps;
  two accounts are needed for a mutual demotion, two grants for a deadlock over
  links, two users for an answer to the wrong page. The proofs of section 5 remove
  these bounds.
- Three failures are what makes a mapping unhealthy. The two tries of the
  compare-and-set (five in the code) let one test lose once and win, and lose
  for good. The week is small, but its windows pass midnight and the week's
  end.
- `CHECK_DEADLOCK FALSE` everywhere: a request ends, the operation ids are
  used up, the clock is bounded. Deadlock of *transactions* is a property of its
  own, `NoDeadlock`.

Each specification has a type invariant (`...TypeOK`). That of the ledger is
checked by `ledger_request`; those of the other stateful components and of the
composition are theorems of section 5.

Every property has a *mutant*: an operator beside the original
(marked "Mutant of") that changes it as a plausible bug would, and under which
the property fails in the same run. The mutants are not part of any
specification.

## 4. Fairness

Only the worker is assumed to be fair, and of it only what its cron does
(`worker.service.ts`): whatever it keeps finding, it eventually handles. Each
fairness conjunct is weak and about one step of it, for one request and at
most one policy. Time passes for what is abandoned: the lease and the marker of a request whose handler has
ended eventually run out. Nothing is assumed of the gateway, which may stop at
any stage; the properties are about requests whose handler has ended. Failures
are bounded by `MaxFaults`: a worker whose database never answers recovers
nothing.

That a handler in flight ever ends is not claimed. The timer of an attempt is
cleared when the headers arrive (`relay.ts`), and nothing bounds the stream
after that. The administration makes no progress of its own, and its runs state
no fairness.

## 5. Proofs

The modules of proofs extend the modules of the specifications. "Action" marks
the properties of steps, "views" those of a state or of any tables.

| Theorem | Module | Says |
|---|---|---|
| `LedgerTypeCorrect` | BudgetLedgerProofs | the ledger's type invariant |
| `LogsMatch` | BudgetLedgerProofs | log and entry agree about every request |
| `DispatchedKept` | BudgetLedgerProofs | only an administrator releases a dispatched request |
| `ReservedLeased` | BudgetLedgerProofs | exactly the RESERVED entries have a lease |
| `ManualDecisionFinal` | BudgetLedgerProofs | no automatic result changes a manual decision (action) |
| `ReservationsConserved` | BudgetLedgerProofs | reserved totals are sums over open requests |
| `SpendingConserved` | BudgetLedgerProofs | spent totals are sums over costs |
| `AlertsReachTotals` | BudgetLedgerProofs | a period in use past a threshold has been alerted at it |
| `OverdraftsAreCosts` | BudgetLedgerProofs | only a cost overdraws a period; no reservation, extension or change of limits does (action) |
| `OpenRequestsFollow` | BudgetLedgerProofs | an open request is in the period that the present settings give its start |
| `HistorySpared` | BudgetLedgerProofs | a change of mode or timezone leaves every period with requests alone (action) |
| `AccountKept` | BudgetLedgerProofs | the group ledger implements `BudgetAccount` |
| `RisksShown` | BudgetLedgerProofs | the groups at risk, computed in SQL, are those that admit nothing or have been alerted (views) |
| `UsageAddsUp` | BudgetLedgerProofs | the usage logs add up to what a period has spent (views) |
| `QuotaTypeCorrect` | QuotaProofs | the type invariant; no counter falls below zero |
| `CountersExact` | QuotaProofs | a counter is the sum of what its requests have reserved or been charged |
| `SlotsCount` | QuotaProofs | a concurrency key counts the holders of its present life |
| `ConcurrencyWithinLimit` | QuotaProofs | no more requests of live gateways in flight than the limit |
| `CorrectionsOrdered` | QuotaProofs | no correction is undone by an older one (action) |
| `QuotaRefined` | RequestProofs | the composition of ledger, gateway and worker implements `QuotaSpec` |
| `RequestTypeCorrect` | RequestProofs | the composition's type invariant |
| `QuotaLawsHold` | RequestProofs | `UsageExact` and `SlotsExact` in the composition |
| `LedgerLawsHold` | RequestProofs | conservation, log and dispatch rule in the composition |
| `RequestsKeepAccount` | RequestProofs | the composition implements `BudgetAccount` |
| `QuotaFollows` | RequestProofs | the markers of a synchronised entry record what the ledger has settled |
| `CallsAccounted` | RequestProofs | a request that a supplier was called for is given back by an administrator only |
| `SlotHeldInFlight` | RequestProofs | a group request that is calling a supplier holds its slots |
| `QuotaKeptUnresolved` | RequestProofs | a group request of unresolved cost keeps its quota |
| `HoldsCovered` | RequestProofs | a hold never reserves more than was reserved (action) |
| `AdministratorRemains` | PeopleProofs | one set-up wins, and an active platform administrator remains |
| `TokensProvePasswords` | PeopleProofs | a token that is honoured was issued for the present password |
| `LateRepliesHidden` | PeopleProofs | no answer that came late is shown in the place of a newer one |
| `OwnChangesAppear` | PeopleProofs | a page that has loaded includes every change answered on it |
| `LeaversHaveNoKeys` | PeopleProofs | who was removed from a project has no live key for it |
| `ProjectMoneyConserved` | PeopleProofs | a project period's totals are the sums over its entries |
| `ArchivedProjectsSettled` | PeopleProofs | an archived project has nothing open and nothing reserved |
| `ProjectAccountKept` | PeopleProofs | the project ledger implements `BudgetAccount` |
| `AlertsAreReported` | PeopleProofs | a project counted as in alert has been reported (views) |
| `AdmittedKeysAreShown` | PeopleProofs | a key that the gateway takes is on every list that should have it (views) |
| `UncertainWithinReserved` | PeopleProofs | what is shown as uncertain is a part of what is shown as reserved (views) |
| `LinksUsable` | DeviceProofs | a usable link is the only one of its grant, and the grant may be bound |
| `RevocationsComplete` | DeviceProofs | what was deleted or archived leaves no live device or grant |
| `RequirementKept` | DeviceProofs | while groups are required, no live grant is without one |
| `TokensExchangedOnce` | DeviceProofs | a refresh token is exchanged at most once |
| `DeadlockFree` | DeviceProofs | no transactions wait in a circle |
| `CostsUnambiguous` | CatalogProofs | enabled rules of one mapping and priority never apply at one instant |
| `MappingsFollowParents` | CatalogProofs | a mapping in use has a channel and a model in use |
| `EveryOutcomeCounted` | CatalogProofs | each outcome of a test is counted once, each due mapping claimed by one pass |
| `EveryReservationEnds` | CatalogProofs | a request that is over has ended each reservation exactly once |
| `RefusedKeysStayOut` | CatalogProofs | a refused key takes no request until it is enabled |
| `ReservationCoversCost` | CostProofs | a call within its limits costs no more than was reserved for it |
| `TimelineShowsCost` | CostProofs | the page's timeline shows in each slot what the gateway resolves (views) |
| `NoOverlapNoTie` | CostProofs | rules that pass the overlap check never apply at one instant |
| `PriorityDecides` | CostProofs | without overlaps the applicable rule of highest priority gives the cost |
| `StatusTruthful` | CostProofs | a mapping's cost status is true of every instant with the same rules in force (views) |
| `SavedUnchangedByDays` | CostProofs | a rule saved from its form unchanged has its validity cut to midnights |
| `EveryRequestShown` | CostProofs | without a condition on allocations the pages show every request (views) |
| `BreakdownComplete` | CostProofs | the rows of a breakdown add up to the overview's cost (views) |
| `DrillExact` | CostProofs | the link of a row leads to that row's allocations and no others (views) |
| `ProfileAvailable` | CostProofs | what a member's page shows as available is the sum over the limited projects (views) |

Six more theorems give the types of accounts, page, devices, catalogue,
workspace and project ledger, and three in CostProofs say that the counts by state add up to
the requests (`StatesAddUp`), that nobody is shown requests outside the own
account or organization (`OwnRequestsOnly`), and that a request's detail and the
lists agree about its unallocated cost (`DetailAgrees`). All hold for every finite set of requests and people, any units,
projects, keys, operations, applications, timezones and months, all natural
amounts and limits, and any number of concurrent calls, transactions, tests and
policies.

**Assumptions.** The only ones are those that the modules name, about their
constants; TLC evaluates each on a run. Amounts, limits and bounds are natural
numbers, sets that are summed or counted are finite, and the value that stands
for "none" is no member of the set beside it. Beyond that:
`LedgerAssumption` and `ScheduleAssumption` give the calendar its form;
`WorkspaceAssumption` gives each unit a kind and each project a unit;
`DeviceAssumption` numbers the grants from 1; `CatalogAssumption` gives the
administrators' input the form of the DTOs; `TestingAssumption` makes the
interval of the probes positive (with none, a mapping would be due again at the
instant of its test); `RequestAssumption` has an operation id of the ledger for
the extension of each attempt. Where a theorem needs a further condition, the
condition is in its statement.

**The group ledger** goes in three layers. (1) `LedgerTypeOK` is inductive by
itself; one lemma per action. (2) `Rows` (log, dispatch and lease) relates one
request's entry to its log. It is inductive given the type, since each action
rewrites the row of one request, and no administrator's call but reconcile
touches one. `ManualFinalHolds` follows from it step by step: after a manual
decision the entry is neither RESERVED nor open without a version bump.
(3) Conservation is not inductive alone. A reservation may open its period, so
the row that is replaced must have had empty totals, and later postings must
find it open: that is `PeriodsOpened`. A new entry overwrites the row of a
request that had cost nothing. So `Money` is the conjunction of the type, the
log, `PeriodsOpened` and the two conservation laws. `ConservedByPosting` reduces
a step to arithmetic about one entry: a step conserves money if in each period
it moves exactly what that entry's share changes by. The views are consequences
of `Money` in a state. Beside them stand two facts about one step, which need
only the type. `Guarded` says of a period's row that its alerts stay complete
and that it is overdrawn only by a charge: every posting ends in the alert, a
release only lowers, `reserve` and `extend` look for funds first, and a limit
is never set below what is used. `Steady`
and `Settled` say that no step but `configure` changes the settings and none
moves a request between periods; `configure` changes them only when it finds
no open request and no request in the two periods that it writes.

**The abstract account.** `AccountUses` is where the two views of money meet: by
conservation, what an account has used is what its period has spent and reserved,
so the ledger's check of funds is the account's `Covers` (`AccountCovers`). Then
each action is one deal (`OneDeal`) or leaves all deals as they are. Two things
had to be added to the invariants. An entry that may still be reserved was never
held (`~e.held` in `Rows`, and in `EntryOK` for projects): without it a step that
keeps or makes an entry RESERVED could reopen a deal whose cost is partly paid.
And a project's request is not dispatched before its entry exists. A change of limits is the account's
`LimitsNext`: an administrator's call opens the current period with the defaults
and may set both; the limit that a period is opened with is the one it showed
before (`LimitCovers`, `LimitsKept`), and no period in use gets one below its use.
`AccountKept` and `ProjectAccountKept` are the two refinements;
`RequestsKeepAccount` is that of the whole composition, by the moves of the
ledger that its steps make.

**The quota.** A counter can be compared with a sum only if it has seen all of
it, and expiry breaks that. `UsageInv` therefore says, beside `UsageExact`, that
a window that was never opened has no marker, and that the month's counter
outlives the day's. Types are proved with integer counters first; that none is
negative is a consequence of being a sum. `SlotInv` follows the lives of a
concurrency key: a generation is named after a request that has a marker, a
request of a live gateway holds the present generation (`SlotsKnown`), nobody
without a generation is left from an earlier life (`NoneLeft`), and the count
is that of the holders, or more once a generation has lapsed with slots that
nobody can give back (`SlotsCounted`). The last two exempt a key that expired
under a request with nothing left to match (`overrun`), as `SlotsExact` does.
`ConcurrencyLimited` exempts nothing: the requests that are running exceed the
limit by no more than there are in `overrun`, because each is missing from the
count, or will be taken from it, once.

**The composition.** `RequestInv` conjoins the types, the ledger's `Rows`,
`Delivery` and `Handlers`. Its proof rests on the *shape* of a step: it is about
one request, makes at most one move of the ledger and runs at most one script,
or ends the renewals; all other requests are `Spared`. So each part is shown for
the request of the step only.
- `Delivery` is what makes `QuotaFollowsLedger` inductive. The outbox owes the
  first cost until a correction, the last correction afterwards (`OutboxOK`); no
  marker is ahead of the outbox, and one level with it agrees (`MarkerOK`); a
  snapshot of a run of `syncQuota` may be behind, but then its confirmation is
  refused, and one of the present version is done with a policy only when the
  marker is (`SnapshotOK`). That is why two runs and a correction between them
  are harmless.
- `Handlers` is about the gateway's stages. Before the entry exists nobody else
  can take the markers away, but for those that an orphan scan has taken or has
  in hand, which the insertion of the entry records (`overtaken`, section 2); a
  call has been dispatched before it is made
  (`HandlerOK`); the reservation covers all attempts of unknown cost, and the
  next one once it may be sent (`CoveredOK`, which gives `HoldsCovered`).
- `HoldsOK` holds for groups only and gives `SlotHeldInFlight` and
  `QuotaKeptUnresolved`. With a project credential both fail (finding 3), so
  they have the hypothesis `LedgerKind = "GROUP"`; the run `project_quota` shows
  that it is needed.

`QuotaRefined` maps each step to a step of `QuotaSpec` or a stutter, with no
unbudgeted request, no limits (a limit only refuses) and the number of operation
ids as the highest version. The laws of the quota come with it. The composition is no
refinement of `LedgerSpec` in this sense, because in it the lease
may pass at any moment without the clock; the ledger's laws are carried over by the
lemmas about its moves (`RequestMoves`, `MoneyMoves`, `AccountMoves`), which do
not ask why a move was made. `BudgetAccount` knows no lease, so that the
composition does implement it.

**Accounts.** `AdminRemains` needs to know of the calls under way: a set-up that
holds the lock and has counted nobody is the only one and finds no account
(`SetupInv`); a role update that holds its actor's row still has that actor as
an active administrator, and names another person as its target (`EditInv`).
`TokenProvesPassword` needs that no token is ahead of its account's version and
that those of the present version were issued for the present password
(`TokenInv`). Their conjunction is `AccountInv`.

**The page of a user.** `ConsoleSpec` is the page on its own. `ConsoleInv` adds
to the types what an answer on its way may still be shown as (`CallsInv`): a
call of this page is about its user, an answer that counts is no older than
what the page was told, and while a link is being regenerated no view of it
counts. And of the page (`PageInv`): what it shows belongs to the user it was
reset for, and is no older than what was answered.

**Keys.** `LeaverHasNoKey` fails to be inductive at the issue of a key. `KeyInv`
adds that no key is being issued for a leaver (one that is being enabled may
be: enabling writes one field, and leaves a revocation alone), and that a leaver is outside an
existing project that is no department's: those get and lose their members with
the unit.

**Project money.** `MoneyInv` conjoins the types (with totals as integers, which
conservation then shows to be natural), `EntryOK`, `PeriodsBalance`, and that a
project being archived has no open entry. It is inductive together with
`KeyInv`, because the entry of a request stays with the project of its key.
`AlertsReported` is inductive given both: every posting that can raise a total
ends in the alert, and a release only lowers it.

**Devices.** `DeviceInv` says of every transaction what it holds and what it
still wants at each point (`Ordered`), and that no two hold conflicting locks
(`Exclusive`). From these follows that the rows it has read under its locks have
not changed when it writes; the properties of the rows are then a matter of the
writes. The deletion or archiving of a group is the hard one: it visits the
grants by their ids, each after its links, and must have missed none that was
created or assigned meanwhile, which the group's lock prevents. `DeadlockFree`
shows that every lock waited for comes after (`After`) every lock that is held:
organization, group, the links of a grant from the newest, the grant, the next
grant. Nobody waits while holding the last row, that of the audit. A set of
transactions in a circle would need a set of locks without a last one.

**The catalogue.** `GatewaySpec` is everything at once, where the run `models`
takes its parts: any number of calls of administrators, tests, probes and
requests over one catalogue. `CatalogHistory` says what an administrator's call
means for the histories of the others (a binding starts the count of failures
again, enabling a key calls it back). `CatalogInv` keeps rows and calls in form, since a
call writes fields of its table only; the rows a call has read still exist;
the parents of a binding stay under its locks. For the rules it has three parts:
of the calls that have checked a rule of a mapping one is to write it
(`CheckedOnce`), what it has checked still holds (`ChecksHold`), and so the rules
do not conflict (`NoConflicts`); `NoOverlapNoTie` turns that into
`CostUnambiguous`. `TestsInv`, `RelayInv` and `KeysInv` are beside it: claims
were made from earlier tests, a request's reservations are given back at one
place, and a key that was refused is disabled in its row.

**Cost and schedule.** `ReservationCoversCost` is about one call: a usage whose
cached tokens are among its input, whose input is at most the bytes of the body
and the envelope of 256, whose reasoning is among its output and whose output
respects the cap. The prices have a common bound, as a decimal column has. That
`Decimal` keeps 20 significant digits is left out. `TimelineShowsCost` has as
hypothesis that the rules begin and end on the slots of the timeline (or that
the instant is the first of its slot), and that the same rules are in force at
the instant as at the one for which the page was drawn: the page shows one
week, the present one.

**Usage.** `BreakdownComplete` is a partition: each allocation is in one row,
and sums over the rows of a partition are the sum over all
(`TotalPartition`, `BalancePartition`). `DrillExact` is for every dimension but
the project, with the two exceptions of section 6 as hypotheses.

Sums are cardinalities of sets of units (`Totals`), not recursive functions:
what a recursion computes for every input is beyond the prover here, while the
laws of a cardinality (`TotalsProofs`: a sum splits at one element, an
update changes it by the difference, a partition keeps it) follow from those of
finite sets, the last by a bijection between the units.

**Only model-checked:** all liveness (`Recovered`, `EventuallySynced`,
`SlotsReturned`) and, with it, ENABLED, which are out of the prover's reach;
the findings, which are counterexamples; and
`nextCostTransition`, a search by recursion.

## 6. Findings

1. **A used month can be relabelled** (`ledger_timezone_label`).
   `group-budget.service.ts:123` says that request history is never rewritten.
   `configure` looks for requests only when the mode or the timezone changes,
   but writes the current period's timezone always. A month can be opened
   under one timezone, left by a change of timezone, then become current again
   and be used: repeating the present settings then rewrites its label.
2. **Project reservations are not recovered** (`project_recovery`).
   `docs/employee-api-access.md:150` promises recovery every minute. The worker
   calls the group service only; `ProjectBudgetService.recoverExpired` has no
   caller outside tests.
3. **Quota of an unresolved project call is cleared** (`project_quota`).
   `docs/employee-api-access.md:148` says a cost that is unknown stays reserved.
   The group's `recoverQuota` scans all markers, finds no group entry for a
   project's and settles it at no cost. (A group's request meets the same fate if
   its gateway stalls for 120 s before its entry is inserted, see the first point
   below.)
4. **The next change of cost can be missed** (`next_cost_change`).
   `nextCostTransition` searches eight days and then goes on only from a boundary
   that lies after them (`cost-schedule.ts:187`). A rule that begins inside the
   eight days and first applies after them leaves no boundary: the answer is
   null although the cost does change.

What was noticed while reading and is stated by no property, because no document
promises otherwise:

- `recoverQuota` releases a marker for which it found no entry, although the
  entry may be inserted before the release, and `reserve` of the ledger does not
  look whether the markers are still there. A request that was overtaken runs
  without slot and quota, its settlement finds its markers closed with another
  cost and fails, and so does every repetition by the worker.
- The concurrency key lives for 600 s from its last use. An unbudgeted request
  that runs longer loses its slot, and another is let in.
- `employee-keys.create` checks project and membership under the project's lock,
  while the group's `removeMember` and `archive` revoke keys under the group's
  lock only: a key inserted after such a removal stays live. After an archive the
  gateway refuses it; after a removal it is honoured as long as the membership
  of the project lasts.
- Removing a member of a FUNCTIONAL group leaves the membership of the
  department's project (`projects.service.ts:191`). The organization-unit pages
  ignore `archivedAt`. A member who is removed through the organization's pages
  and comes back finds the device grants alive
  (`docs/employee-api-access.md:9`).
- `changePassword` and `updateInitialCredentials` can overwrite a reset that an
  administrator makes while they hash.
- A probe that began before a rebinding records its outcome on the new binding.
- A price is edited after a count of the usage logs that refer to it, without a
  lock (`models.service.ts:165` and 171): a log written in between refers to a
  price that has changed. Archiving a mapping and rebinding it take their locks
  in different orders, which PostgreSQL would resolve by aborting one. A mapping
  can be restored or created, without the lock, under a parent that is archived
  between the look and the write (`stale`).
- A client that leaves before the listeners of its response are registered
  (`gateway.service.ts:324`), or an error body that breaks off while it is read,
  never reaches `saveLog`: its reservations wait for the expiry of their keys.
  `LegacyRelay` has both (`ClientGoes`, `BodyBreaks`), and `ReservationsEnd` is
  about the requests that reach their log.
- The UNSETTLED risk covers the current period only. The two summaries of an
  organization unit disagree about what is available: one clamps at zero and
  knows no limit, the other may be negative and does not ask for `unlimited`.
- Two workers that make the daily report at once both insert it
  (`worker.service.ts:153`).
- A page filtered by billing state alone asks it of the requests; the link of a
  row adds a condition on allocations, and the same state is then asked of these:
  the row and its detail differ, against
  `docs/superpowers/plans/2026-09-15-admin-cost-operations.md:167`. The link of a
  cost-rule row drops the page's own condition on the rule. A breakdown by
  project counts a request with its group's project where it names none; the
  filter by project does not. `DrillExact` excludes these three.
- The form of a cost rule cuts the validity to midnights and refuses a rule that
  begins and ends on one day, which the server accepts (`SavedUnchangedByDays`).

## 7. Not modelled

In what is modelled:

- Ledger and quota: token counters and rate keys; decimal rounding; the contents
  of usage logs other than cost and billing state; the worker's `enforceRetention`
  (`worker.service.ts:122-126`), which deletes logs of a certain age whatever the
  state of their entries, so that `LogMatchesLedger` and `UsageMatchesSpending`
  are about requests whose logs are retained; streaming inside an attempt;
  batches of the worker, and more than one (a second is the same steps, more
  often).
- People: the lock model of `DeviceGrants` has links, grants, group and
  organization; the rows of devices, accounts and memberships are locked in no
  model but `Accounts`;
  names; previews; the expiry of links by time; the check of a device
  credential in a project's reservation; renaming, expiry and revealing of
  keys; which models a group may use (`replaceModels`), which is read only by
  the client's catalogue and the routing's access policies, themselves left out.
- Catalogue: more than one protocol of a mapping; changes of clocks in a
  channel's timezone; descriptions; the discovery of models at a supplier.
- Console: a form is filled and submitted in one step; between a change of the
  route and its watcher only answers that have come are handled; and the
  failure of the address check after `regenerate` has committed is taken
  together with a lost answer.
- The translation of requests and streams between protocols is string and
  JSON handling without state.

Components left out: the in-memory quota ledger (no caller outside its test);
exports, aggregates and reports, and the options of the usage filters; skills and
object storage; HTTP
filters and monitoring; cryptographic primitives; the scripts run once by an
operator; the other pages of the browser, which load and show. `PROJECT.json`
gives each with its reason.

## 8. What could come next

1. **Project credentials in the composition**: which of `HoldsOK` is left, and
   what the project's ledger keeps although its requests are not recovered.
2. **The organization-unit path beside the device grants**: the two services
   over one membership, in one model.
3. **Batches of the worker**, and the starvation that a full batch of entries
   that always fail can cause.
4. **The translation between protocols**, as far as billing depends on it.
