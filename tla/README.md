# Verification of 402index

402index is an index of paid HTTP endpoints (x402, L402, MPP) with a second
process beside it, the router, which pays such endpoints for agents. This
directory holds TLA+ models of the parts of both whose correctness depends on
order: on what happens between two awaits, two processes, two writes or two
restarts. TLC checks them on small instances; TLAPS proves the central
properties of all the modelled components for every value of the constants.

## 1. Inventory

| Component | State it keeps | Operations | What is hard | What makes it correct |
|---|---|---|---|---|
| Router: `invoke` (`router/src/tools/invoke.ts`, `state.ts`, `guards.ts`, `ledger.ts`, `billing/`) | `state_nonces`, `pending_jobs`, `spend_ledger`, `mandates`, `degraded_candidates`; card holds at Stripe; the wallet | cold call, retry with consent, execution, capture or void | five awaits on three outside parties per job, replayed consents, crashes | a charge has a result behind it; "charged $0" is true; one execution per job; the cap and the budget |
| Router: credentials and recovery (`credentials.ts`, `recovery.ts`) | `paid_credentials`; a snapshot in memory | record, redeem, scheduled retry of everything unredeemed | a long pass over a snapshot beside live executions | a receipt stands; nothing bought is lost |
| Router: settlement adapters (`settlement/`) | none (the wallet is elsewhere) | `select`, `pay` | an error after the money left | every outflow is booked |
| Router: candidates and quotes (`quote.ts`, `routes/`, `challenge.ts`, `config.ts`, `settlement/index.ts`) | rows and a ladder in memory; `degraded_candidates` is shared | read pages, rank, ask for quotes, choose an adapter, pay | the index moves between two pages, other jobs degrade pairs, a quote is not an invoice | the best pair that would sell is the one prepared |
| Router: setup and registration (`setup.ts`, `registration.ts`, `auth.ts`) | `cards`, `tokens`, `setup_sessions`, `pending_registrations`, `mandates` | checkout, completion, registration inside a call, revocation | reads, calls of Stripe, then inserts; visits of one session overlap | a token that was shown pays with the card and budget of its one session |
| Quarantine (`src/health/quarantine.js`, `src/services/visibility.js`, `scripts/ops/`) | `quarantined_hosts`, `quarantine_events` | health run, operator seed and release | decisions spread over days, read-probe-write, other processes | evidence before every move; a flap is held; hosts that pay come back |
| Domain claims and listings (`src/services/domain-verify.js`, admin and register routes, the upserts, `src/listings.js`) | `domain_claims`, `services` | claim, verify, edit, delete, revoke, reset, register, approve, poll, sweep, load at a start | a verification awaits the network; many writers of one row | proof before ownership; the texts an owner wrote survive the upserts |
| Bazaar passes (`src/aggregators/bazaar.js`, `bazaar-presence.js`) | `sync_state`, `bazaar_passes`, presence columns of `services` | page, close a pass, mark, retire | resumed polls, six commits per pass, overlap | nothing is retired that was listed; nothing is skipped |
| Other aggregators (`mpp.js`, `mppscan.js`, `satring.js`, `l402apps.js`, `l402directory.js`, `sponge.js`, `listings.js`) | rows of `services`, their merged `source` | upsert, sweep | seven pollers and the registration write the same row; truncated answers | a sweep hides only what its own list left out |
| Registration: limits (`routes/api/register.js`) | rows registered within the hour | register, renew, bonus rows, approve a change | the limit counts rows by their source, which others rename | a domain gets the rows its limit allows |
| Registration: probe configuration (`probe-endpoint.js`, `wellknown-discovery.js`) | `http_method`, `probe_body` | probe, promote to POST, discover, probe again | the call that was validated is composed of four sources | the stored call is the one that was answered |
| Registration: probe queue (`register.js`) | a promise chain per host | queue, probe, open the gate | concurrent bursts | one probe per host at a time, in order |
| Health checker (`src/health/checker.js`) | `health_checks`, health columns | sweep, classify, persist, change protocol | workers, siblings of one url and a budget, over rows others change for most of an hour | the failure count is the failures logged; every listed row is checked in the end |
| Scheduler (`src/scheduler.js`), snapshots (`daily-snapshot.js`, `scripts/backfill-snapshots.mjs`) | one flag, a date, `daily_snapshots` | start sweeps, capture, signals; fill the past in | a script writes the table the server fills; two handlers of one signal | captures survive, the rest is on the line between known points |
| Webhooks (`src/services/webhooks.js`) | `webhooks.failure_count` | deliver, deactivate, reset | read, await, write back | ten failures in a row deactivate, and only those |
| Embeddings (`src/services/embeddings.js`, `queries/services.js`, `scripts/backfill-embeddings.mjs`) | slots, waiters, circuit breaker, cache, vectors | acquire, release, embed, search; trip, half-open | late failures, hand-over of slots, rows that come and go around an await | slots are conserved; the circuit closes again; a row is counted once |
| Live probe (`routes/api/demo.js`, `live-probe-cache.js`, `probe-live.js`) | a cache per host, calls per address | limit, probe, cache, report | probes of one host overlap | a report is of a recent answer of the host |
| Free tier and paywall (`middleware/l402.js`, `middleware/rate-limit.js`, `routes/api/services.js`) | four windows per address | verify a token, count, sell | two awaits of a gateway per request | who is refused was over a limit; who must pay gets an invoice |
| Endpoint discovery (`scripts/l402-discovery.js`) | none: a report | five stages of requests, a pool of workers, statements an operator runs | a budget per endpoint shared by the stages, lost answers | the first request with a valid 402 is what the statements store |
| Migrations (`src/db.js`) | the schema | some twenty guarded steps at every boot | a boot cut short leaves a schema between two versions | any later boot gets to the current schema |
| Query log (`query-log-rollup.js`, `db.js`, `scripts/ops/rollup-query-log.mjs`) | `query_log`, `query_log_daily` | log, fold in chunks, report | two processes fold at once, crashes between chunks | every row is counted once |
| Digests, opportunities | none | counting in SQL | none | not state |
| Protocol detection, classification, normalization | none | pure functions | wording of headers | as their tests say |
| Pages, API reads, middleware, MCP package | none | rendering, reading | none | not state |

How they meet: the aggregators, the registration, the owner's API and the
administrator all write `services`; the checker reads and updates it; the
quarantine reads the checker's verdicts and hides rows of whole hosts; the
router reads the live index over HTTP and keeps a database of its own. Nothing
but the two SQLite files is shared between processes (the operator scripts open
the index's file), and Node runs one piece of JavaScript at a time.

## 2. Modules

| Module | Models | Proofs |
|---|---|---|
| `PaidDelivery` | what the router promises about one job: held, bought, obtained, then charged or returned | |
| `Router` | the router: `invoke`, ledger, credentials, recovery; implements `PaidDelivery` | `Router_proofs` |
| `QuoteLadder` | the router's candidates, quotes and the invoice that is paid | `Requests_proofs` |
| `Onboarding` | how a principal gets its token and card | `Services_proofs` |
| `Quarantine` | one host, the run and the operator | `Quarantine_proofs` |
| `DomainClaim` | one domain, its claim and its listings | `Requests_proofs` |
| `Intake` | the rows of one host: registrations, pollers, sweeps, limits | `Intake_proofs` |
| `ProbeConfig` | the method and body a row keeps | `Listings_proofs` |
| `HostLock` | what the registration promises a host: one probe at a time, in order | `Upkeep_proofs` |
| `ProbeQueue` | the chain of gates; implements `HostLock` | `Upkeep_proofs` |
| `BazaarPass` | polls and passes over the Bazaar listing | `Listings_proofs` |
| `HealthSweep` | a sweep: order, budget, workers, siblings, verdicts | `Upkeep_proofs` |
| `Scheduler` | sweeps, snapshots and their backfill, signals | `Services_proofs` |
| `Webhooks` | deliveries and failure counts | `Services_proofs` |
| `VectorIndex` | the semaphore, the vectors, the backfill and the hybrid search | `Listings_proofs` |
| `QueryEmbedding` | cache and circuit breaker of a search's vector | `Listings_proofs` |
| `QueryLog` | the folded log of searches | `Upkeep_proofs` |
| `Migrations` | a boot over an older database | `Upkeep_proofs` |
| `Discovery` | the discovery script and its statements | `Services_proofs` |
| `Paywall` | the free tier, its windows and the gateway | `Requests_proofs` |
| `LiveProbe` | the live probe and its cache | `Requests_proofs` |

The rest instantiate these for TLC. `MCRouter` and `MCClaim` serve one module
each. `MCScheduler`, `MCDiscovery`, `MCPaywall`, `MCLiveProbe` and `MCQuoteLadder`
only name the data of an instance (the known points of a curve, what endpoints
answer, limits, replies, challenges). Four modules put components side by side
that share no state a property depends on: the variable `part` chooses in the
initial state which component the behaviour is about, and the others rest in one
initial state each. The state space is the sum of those of the parts, never
their product, and every property is of the part it belongs to.

| Module | Parts |
|---|---|
| `MCRequests` | `DomainClaim`, `Paywall`, `LiveProbe`, `QuoteLadder` |
| `MCListings` | `BazaarPass`, `Intake` (rows MPP and L402, rows MPP and x402), `ProbeConfig`, `VectorIndex` |
| `MCServices` | `HealthSweep`, `Webhooks`, `QueryLog`, `Migrations`, `Onboarding`, `Scheduler`, `Discovery` |
| `MCServicesFair` | `HealthSweep`, `Quarantine`, `QueryEmbedding`, `Webhooks`, `ProbeQueue`, with the fairness of each |

Proofs about components that share nothing are in one module, one part each;
`Requests_proofs`, `Listings_proofs` and `Services_proofs` are also about the
compositions `MCRequests`, `MCListings` and `MCServices`, and `SumLemmas` holds the
lemmas on sums that several of them cite.

`PROJECT.json` gives the source lines of every definition.

### Atomicity

An action is what the code does from one await to the next. Outside parties
(Stripe, the wallet, an upstream listing, a domain's web server) have steps of
their own, so an effect can happen and its answer be lost, or the process die in
between. Inside a stretch without awaits every SQLite statement commits on its
own and the process could in principle be killed between two of them. That is
modelled where it matters most: in `BazaarPass`, whose closing runs chunked
updates over 85 000 rows, in `Migrations`, in `Onboarding` (a death between two
of the inserts of a visit) and in the scripts of `Scheduler` and `VectorIndex`,
which are processes of their own. Elsewhere a stretch is one step: in particular
the two inserts after a settlement (ledger, credential) and the two writes of a
quarantine move (event, state) are not separated, and `recordQuarantineEvent`,
which swallows a database error, is taken to succeed.

### Router

A call of the tool is an element of `Calls`, and a cold call gives its name to
the job it prepares: `hold[j]`, `cred[j]`, `ledger[j]`, `sats[j]`, `charge[j]` and
the nonce all carry it. `pc[c]` says which await the handler of call `c` is in;
when it is done, what it answered. `job[c]` is the job a call works on: its own
under a standing budget, an earlier call's for a retry.

| In the model | In the code |
|---|---|
| `ColdCall`, `Quoted`, `QuoteFailed` | `handleColdCall` and `prepareJob` up to the authorization |
| `StripeHolds`, `Authorized` | `billing.authorize`; the budget test, the pending row, the consent blob |
| `RetryApproved`, `RetryDeclined`, `RetryRejected` | the three outcomes of `handleRetry` before its first await |
| `Start` | the head of `executeJob`: the guard again, the adapter |
| `WalletPays`, `Settled`, `PayThrew` | `adapter.pay`: the effect, the answer, the exception |
| `RedeemAnswered`, `RedeemFailed`, `BodyRead`, `BodyThrew` | redemption and the response body |
| `StripeCaptures`, `Captured` | `billing.capture` and everything after it |
| `StripeVoids`, `Released`, `Failed` | `billing.void` and everything after it |
| `StripeThrew` | an exception from any of the billing calls |
| `RecoveryTick`, `RecoveryDelivered`, `RecoveryFailed` | `startRecoverySchedule`, `retryUnredeemed` |
| `BlobExpires`, `MandateExpires`, `Crash` | time and the operating system |

Left out: the candidate ladder (a cold call names the one it ends with; the
ladder is `QuoteLadder`), the route names, the card registration before a first
call (it is in `Onboarding`), the attempt counter of a credential, timings. The effect of a lost call is ordered before its answer:
a capture or a payment that takes effect after the router has given up on it is
not modelled.

### QuoteLadder

`FetchPage` and `FetchFails` read the index page by page while `IndexMoves` moves
it. A rung is a place in the rows that were read and a place in the order of the
routes; the rows compare as in a stable sort (`Precedes`), and `AskRoute` asks
the topmost rung of the set `ladder` for a quote. `PayJob` is the payment
after consent, when a second challenge names an invoice of its own. `quote` is
the prepared job, `outflow` what the wallet was told to pay. A challenge is the
price it states and the amount of its invoice, either of which may be missing.
`known` (what was read and degraded when the ladder was made) and `refused` are
history. Prices in cents round as the code rounds them.

### Onboarding

A visit of `/setup/complete` is `CompleteStarts`, `CompleteRetrieved`,
`CompleteInserts`: the look at `setup_sessions`, the calls of Stripe, the
inserts. The last insert is refused when another visit took the session
meanwhile. `DiesInserting(v, n)` dies after the n-th insert. A tool call of an agent without a card is `ColdCall`, `Checked`,
`CardStored`, `Polled`, `SessionMade`, `SessionStored`. Stripe's sessions complete or
expire on their own (`CheckoutEnds`).

### Quarantine

`host` is the host's row in `quarantined_hosts`, `snap` the copy a run read before
its probes, `outByLog` what the events say. A timestamp is its age in steps of
`TimePasses`, up to `MaxAge`, which is past every threshold. `Verdict` is
`evaluateHost` after its probes, `Seed` and `ReleaseHeld` are the two scripts.
`bad`, `good` and `left` are history: the verdicts a reader of the rules would
count. Which hosts become candidates depends on the sweep and is left open.

### DomainClaim

`claim` is the row in `domain_claims`, `row[s]` a listing, `req[v]` a call of
`verifyClaim`, `file` what the domain serves. A token is the number of its
issue. A listing keeps what some rule depends on: whether its source is a sweeping
catalog's, its status, the two flags, whether it was approved in the domain's name,
and in `own` which of the columns of `EDITABLE_FIELDS` hold what the owner wrote.
Those columns are two groups, because the writers treat them differently:

| | "text": name, description, category | "price": both prices, asset, network |
|---|---|---|
| `editService` | written when named, and the row is flagged | the same |
| upserts of `bazaar`, `satring` | spared on a flagged row | always written, a missing price included |
| upserts of `mpp`, `mppscan`, `l402apps`, `l402directory`, `sponge` | spared on a flagged row | written if the upstream has one |
| registration, renewal | the name written, whoever registers | written if the caller has one |
| approval of a protocol change | written | kept |
| `loadListings`, at every start, for the rows of `listings/*.yaml` | written, flag or not | written |

So the flag `domain_verified` protects the texts from the aggregators and nothing
else, and `OwnerEditStands` claims no more: what an owner wrote as text stands until
the claim is revoked, somebody registers the row anew, a protocol change is
approved over it or the row is removed. The listings that a YAML file describes
(`exclusive`, chosen in the initial state) are excluded by name, since every start
writes all their columns; the prices are not claimed at all. That more is said of
the flag in `db.js` is `EveryEditStands` in section 4. `Restart` is such a start; it also
loses the verifications in flight. `provider` and the schemas are not editable and left out.

`ApproveChange` is the administrator's approval of a protocol that a health check
found at a url; how it was found is not modelled, so it may come at any time.
`shown` (tokens whose hash was ever served) and `kept` (what the owner wrote since
the last of those four acts) are history.

### Intake

`entry[k]` is the row of a url and protocol of one host: its merged sources,
whether it is hidden, whether it was registered within the hour. `RegisterRow` is
a registration with the bonus rows its probe found, `Poll` a poll of a catalog:
the upserts that were done, then, for the two catalogs that sweep, the rows it
hides. The seven catalogs are actions of their own (`PollMPP` and so on), since
they differ in what they carry, merge, guard and sweep. `hourly`, `onList` and
`hiddenBy` are history.

### ProbeConfig

`site` is an endpoint that answers the same call the same way, any of a set that
holds every combination of HEAD, GET and POST answers; `config` is what the row
keeps. `Register`, `CatalogWrites` and `Check` write it. `assured` is history: the
last writer found the challenge with this very call.

### ProbeQueue and HostLock

`ahead[r]` is the gate request `r` awaits, `lastIn` the gate in the map.
`ServedInTurn` is `HostLock`'s specification with the queue read off `arrived`.

### BazaarPass

`catalog` is the upstream listing and changes under the polls; `poll[p]` is a
call of `pollBazaar`. Closing a pass is six actions, one per commit, with the
chunks of an update one row each; nothing else of the process runs in between.
`listed`, `absent`, `steady` and `moved` are history.

### HealthSweep

`row[r]` is a row of `services`, `sweep` the call of `runHealthChecks` with the
rows as it read them, `check[r]` the call of `checkService` for row `r`, `checked`
the set `checkedThisCycle`. `recency` stands for `last_checked`: the rows in the
order of their last check, so that ages need no clock. `Tick`, `DiskGuard` and
`SweepStart` lead to a sweep, `Take` hands a row to a worker, `Answers` is the
answer, `Recorded` the verdict of the row with those of the siblings that need no
await, `SiblingRecorded` the verdict of a sibling after one. `Delist`, `Relist`,
`RowRemoved`, `Reregister`, `SetUnprobeable` and `SetProbeable` are what the rest of the
index does to a row meanwhile, and `SweepStart` may find the quarantine changed.
`streak`, `logged`, `chosen` and `fault` are history.

What decides between healthy and degraded (latency, hash of the challenge) is
left open, and so are uptime, scores and protocol changes. The count of
failures stops at `DOWN_AFTER`, where the verdict no longer depends on it.

### Scheduler

`RunHealthCheckGuarded`, `SweepOver` and `CaptureSnapshot` are the hourly sweep and
the snapshot after the first sweep of a day; `Signal` runs the handlers in the
order they were registered; `BackfillStatement` is one statement of the script.
`Statements` is recomputed from the known points whenever it is run, `statements`
holds those that are left, and they go in three passes from day to day (`Sooner`).

### Discovery

An item is a place of the listing the API answered; a request is a stage, a url
and a method. A worker's job holds the requests left in `rest`; `Continued` adds
what a page or a file names, in the place the code adds it. Requests that get no
answer are `TimesOut`. Urls in JSON answers are not in the model because
`extractUrlsFromJson` returns before it collects any. The flag `--url`, a test of one
url typed by hand, is left out: it asks no API, goes through the same stages, and its
statement names a row `manual` that the index does not have.

`PrintUpdates` is `generateSummary`, `script` the statements still to be run and
`stored` the rows. The operator runs the statements in the order they are printed,
those that change a url first (`RunsBefore`); one that would give two rows of a
host the same url is refused by the index of `db.js` (`Collides`), and the next one
is run.

### Webhooks, QueryEmbedding, VectorIndex

`sends[s]` is a delivery with the count it read; `Delivered` and `DeliveryFailed`
write what they compute from it. In `QueryEmbedding`, `read[s]` holds the circuit the
call saw when it began, because that decides who clears the trial flag. In
`VectorIndex`, `job[r]` is a call of `generateEmbedding` and `pending` the queue of
waiters; a slot is handed to the next waiter without the count changing. The
search has its page, awaits its vector, and is joined with the index as it is by
then; `quiet` says that nothing was written meanwhile.

### QueryLog and Migrations

`raw` are the rows still in `query_log`, `daily` the folded ones; the server's
prune and the operator's script are two `Rollers`. `Migrations` has one action for
each guarded step, in the order of `Boot`, and `Reboot` cuts a boot anywhere. The
old database is any combination of steps done and not done.

### Paywall and LiveProbe

`Incoming`, `Verified402` and `Challenged402` are a request up to its token's check,
from there to the answer or the sale, and the sale. `window` holds a count and an
end per limiter and address, as `express-rate-limit` does; `hits` is history.
`AskLive` looks at the cache, `ProbeOver` stores and reports; `seen` is history: what
each host answered, and when the probe began and ended.

## 3. Runs

Every passing run explores its whole state space within minutes on two workers.

| Run | Bounds | Shows |
|---|---|---|
| `RouterJobs` | 3 calls, 2 principals | a consent is used once, by its principal, before any payment; budgets; "free" is true |
| `RouterRestart` | 3 calls, 2 candidates, 1 crash | ledger, credential and card agree; implements `PaidDelivery` |
| `RouterFair` | 2 calls, 1 crash, fairness | everything is answered, everything bought is redeemed |
| `Requests` | 1 listing of any source, in a YAML file or not, 2 verifications, 2 tokens; 3 requests of 1 address, 3 instants; 3 live calls of 3 urls on 2 hosts, a cache of 1; 4 rows of the index, pages of 2, 1 move | claims, edits and closed claims; the paywall's answers; live reports; the prepared pair is the best |
| `Listings` | 4 resources (1 malformed), 4 passes, 2 changes, 1 crash; 1 url with 3 protocols, 7 catalogs, limits 1 and 2; 3 ids, 1 slot, 1 waiter | retirement is exact, nothing is skipped; the limit of a domain, sweeps; the stored call; slots, totals |
| `Services` | 3 rows (2 siblings), 2 workers, 1 change or failing write; 2 hooks, 3 deliveries, 3 failures; 3 searches, 3 ticks; 2 rows, 2 claims, 2 cuts; 2 sessions, 2 visits, 1 agent, 2 calls; 5 days; 2 discovery workers, a budget of 30, 1 timeout | failure counts are the failures logged and sweeps cover; deactivations are earned; reports are exact; boots catch up; tokens pay; the backfill settles; discoveries are stored |
| `ServicesFair` | ages to 6, 2 operator steps; 3 rows, 1 worker, 2 checks per sweep; 2 reads of 2 texts, 2 outages; 1 hook, 3 deliveries; 3 registrations; fairness | the evidence for every move of a host; hosts that pay come back, rows are checked, the circuit heals, dead hooks are dropped, every registration has its turn |
| `RouterCap`, `RouterRepair`, `ClaimToken`, `BazaarOverlap`, `Shutdown` | as the runs above, smaller | the five sentences of section 4 |

Three calls of the router are a job, a rival for it and a bystander (or two jobs
and a rival); with two principals a consent can be presented by the wrong one.
One crash is enough to separate memory from disk at every point, because nothing
in memory survives to be lost a second time. Two verifications of one domain can
straddle each other and a reset; listings of a domain do not influence each
other, so one is enough, and whether it is of Bazaar or MPP and whether a YAML file describes
it is chosen in the initial state. The two verifications are alike, which is the
symmetry of the run. Four passes let a row be absent from `RETIRE_AFTER = 3` and be
listed again; the page size of 1 puts a page boundary everywhere. The quarantine
thresholds are scaled down (`ENTER` 3, `EXIT` 2 over 2 hours, 3 over 3 for a large
host, a window of 5) but keep their order.

Two siblings and a stranger are the least that shows a row skipped because
another worker covers it while a third is checked; the sibling may be off the
list or unprobeable at the start, so that it can also come back. Two failures
make a row down in `Services` (three in the code), one in `ServicesFair`, where the
count plays no part. `MinChecks` is an assumption on the budget: a sweep begins at
least two checks, one more than the first tier of the instance holds. Without
it the first tier alone could use up every budget. `AdminDuringSweep` is FALSE in
both runs, for the reason section 4 gives.

Three requests of one address suffice to be counted, to be refused and to be
refused after a window has ended; addresses share nothing. Of the live probe, two
urls share a host and a third is a stranger, with a cache of one entry, so that
entries are shared, overwritten and evicted. Pages of two put the move of the index
between two pages and let a row be read twice or not at all. One row per protocol
of one url is all a registration can touch; limits of 1 and 2 let each be
reached and passed from either side. One slot and one waiter show a hand-over, a
full queue and a caller turned away. Three deliveries can each hold another stale
count of the three that deactivate a hook. Three searches over two days, folded
one at a time, put a chunk boundary between any two. Two cuts show a boot that
meets what a cut boot left. Two visits and two calls overlap on one session and
one agent. The six endpoints of the discovery instance are two of one host, where
the gate found for the second is the url of the first, one whose gate is the last
request the budget reaches, one registered with the wrong method, one that only
hints, and a healthy one.

### Fairness

`RouterFair`: each handler is weakly fair, since every call it awaits has a
timeout and every error is an answer; Stripe and the wallet are not fair. The
recovery interval keeps firing and each retry ends. That a provider delivers
when asked again and again is an assumption on the world (strong fairness of
`RecoveryDelivered`), stated apart as `ProvidersRecover`.

`ServicesFair` asks of each part what its own scheduling gives. Quarantine: time
passes and a health run starts every interval (`setInterval`), both weakly fair; a
run's probes end (strong fairness of `SomeVerdict`, because crashes may interrupt
any number of runs). Health: the interval fires, a probe and its writes end (each
await has a timeout), weakly fair in `Advance`, and the disk guard does not skip
every sweep for ever (strong fairness of `SweepStart`); nothing is assumed about
which worker or which row goes first. Embedding: a call ends by its deadline, the
cooling time passes, a cached vector expires; that searches for uncached texts
keep coming is an assumption on the clients. Webhooks: a delivery ends by its five
seconds; that events keep coming is an assumption on the index, and
`MayCrash = FALSE`, because a process that dies with every delivery would never
write a count. Queue: a probe ends (it has a timeout), so each request goes on
(`GoesOn`).

## 4. What the code does not keep

Five runs each show one sentence of the repository that TLC refutes:

| Run | The sentence | What happens |
|---|---|---|
| `RouterCap` | `guards.ts`, `ledger.ts`: the cap counts in-flight jobs | checked before, booked after the payment |
| `RouterRepair` | `credentials.ts`: a recovery repairs the ledger row | the execution overwrites it |
| `ClaimToken` | `domain-verification-spec.md`: the token matches | the token was reset meanwhile |
| `BazaarOverlap` | `bazaar-presence.js`: rows it did not list are missing | a row the poll lists is marked |
| `Shutdown` | `scheduler.js`: a shutdown waits for the sweep | the handler of `db.js` is registered first and exits |

The modules state more such sentences, under "What the repository says and the
code does not do". No run of their own checks them; each fails on the instance
named, with the definition put in place of the properties of that configuration.

| Definition | Module, instance | The sentence | What happens |
|---|---|---|---|
| `OutflowBooked` | `Router`, `MCRouterRestart.cfg` | `golem-http.ts`: an ambiguous payment is an outflow for the ledger | the catch only voids |
| `NoParallelRedeem` | `Router`, `MCRouterRestart.cfg` | `NOTES.md`: no parallel redeems | recovery takes rows that are being redeemed |
| `FailureVoids` | `Router`, `MCRouterJobs.cfg` | `invoke.ts`: any failure voids the hold | a broken body does not |
| `ExpiryVoids` | `Router`, `MCRouterJobs.cfg` | `invoke.ts`: every failure after authorization voids | an expired consent does not |
| `MandatedWithinBudget` | `Router`, `MCRouterJobs.cfg` | `invoke.ts`: the standing budget covers the charge | tested before, debited after |
| `NeverPaysMore` | `QuoteLadder`, `MCRequests.cfg` | `quote.ts`: you never pay more than it states | the wallet's limit is the cap of a job, not the quote |
| `ReleaseSticks` | `Quarantine`, `MCServicesFair.cfg` with `OpsDuringRun = TRUE` | `release-held.mjs`: the host becomes released | a run in flight writes held back |
| `SeedLeavesNormally` | `Quarantine`, `MCServicesFair.cfg` with `OpsDuringRun = TRUE` | `seed-quarantine.mjs`: it leaves the normal way | a run in flight deletes the row |
| `VerifiedAnswerTrue` | `DomainClaim`, `MCRequests.cfg` | `domain-verify.js`: marked, atomically | nothing was marked, the answer says so |
| `VerifyFlagsAll` | `DomainClaim`, `MCRequests.cfg` | `domain-verify.js`: all services are flagged | those approved by the same call are not |
| `RevokeFreesRows` | `DomainClaim`, `MCRequests.cfg` | `domain-verify.js`: the flag is reset | only on active rows |
| `EveryEditStands` | `DomainClaim`, `MCRequests.cfg` | `db.js`: the flag protects provider edits from poller overwrite | polls write the prices of flagged rows, a start every column of a YAML listing |
| `UpsertKeepsDeleted` | `DomainClaim`, `MCRequests.cfg` | `domain-verification.test.js`: no resurrection | the upsert resurrects |
| `FullPassIsLogged` | `BazaarPass`, `MCListings.cfg` | `bazaar-presence.js`: every full pass is logged | none is after a crash between two writes |
| `OneCheckPerSweep` | `HealthSweep`, `MCServices.cfg` | `checker.js`: skip if already checked by a sibling | a sibling in flight is checked twice |
| `UnprobeableUntouched` | `HealthSweep`, `MCServices.cfg` with `AdminDuringSweep = TRUE` | `checker.js`: an unprobeable row is the administrator's | the sweep's query does not read `probe_status`, so the guard never fires |
| `StubIsHonest` | `Paywall`, `MCRequests.cfg` with `Gateway = "none"` | `rate-limit.js`: without a gateway the client really did exhaust the free tier | a first request with `?l402=require` gets 429 |
| `ProbesAreSpaced` | `LiveProbe`, `MCRequests.cfg` | `live-probe-cache.js`: the cached result if the host was probed within 3 s | an older entry replaces a newer one |
| `AnswerIsOfUrl` | `LiveProbe`, `MCRequests.cfg` | `probe-live.js`: "GET" of the url | the cached answer is of another url of the host |
| `RobotsPathsProbed` | `Discovery`, `MCServices.cfg` | `L402-DISCOVERY-SCRIPT-SPEC.md`: stage 1 on discovered paths | the budget is spent before |
| `UpdatesApply` | `Discovery`, `MCServices.cfg` | `L402-DISCOVERY-SCRIPT-SPEC.md`: the updates are auto-applicable | two rows of a host are given one url, which the database refuses |

The quarantine properties of `ServicesFair` keep the operator between runs, since
they are about the rules and not about the race of the first two of those rows.

Two cases are left out of `StoredConfigAnswers`, because the code does not keep it
in them: a registration that names a method or a body and succeeds with the
discovered one (the row keeps what was named), and one that ends without a body over
a row that has one (the row keeps the old one). `OwnerEditStands` leaves out the
prices and the YAML listings (section 2). `BootCatchesUp` claims less for a boot
that was cut short: a cut between the drop and the rename of the new claims table
loses the claims, one between a column and its filling leaves `lnget_compatible`
empty, and one between the trial row of the MPP migration and its removal leaves
that row in the table. Without a property of their own: a JSON answer's urls are
never probed by the discovery script, a gate at the root or at one of the two files
is never found, a row whose url and method both change has its statement printed
twice, anybody's registration of a url writes over its owner's texts, a quote over
the job's cap ends the ladder instead of moving on, and a request refused for
`?l402=require` counts against the free window.

## 5. Proofs

Every theorem is of the form `Spec => []Inv` or `Spec => [][A]_vars`, or a
refinement, and holds for every value of the constants that the module's
assumption admits. A proof has a lemma for the initial state, one for each
action or group of like actions, and a last temporal step. Three theorems have
a hypothesis of their own, `BetweenRuns`, `OnePoll` or `~AdminDuringSweep`: each names
the case in which the code does not keep the property (section 4).

### Router (`Router_proofs`)

`Inductive` proves `IInv`, from which most of the other theorems follow. The safety
properties alone are not inductive. That a captured card has a result
behind it (`ChargeIsBacked`) needs to know what each await of `executeJob` may
assume (`StageOK`), which holds only because no second call works on the same
job (`SingleExecution`), which needs that a retry holds the nonce and has taken
the pending row (`RetryClaimed`) of a job that nothing has executed before
(`ReadyIsClean`), whose consent was handed out (`JobNamed`). What was bought is
on disk before it is used (`AssetsKept`), and the recovery pass only touches
what was bought (`RecoveryOwns`). The proof has one lemma per action, and one
for the initial state. `PromiseKept` shows from the same invariant that every
step is a step of `PaidDelivery` or leaves its variables alone. Assumptions:
`CallsAssumption` and `LimitsAssumption` of `Router`: finitely many calls, nothing
about their number, the principals or the candidates.

`BudgetsPayForCaptured` adds an invariant of its own: a budget was debited for no
more than the jobs in `Debitable` cost (`DebitsArePaid`). Those are the captured
jobs of the principal whose execution has gone past its debit. A job still being
captured is not among them, which is what lets the debit that follows take it
in; `PayerOwns` says that the caller debited is the one the job was quoted to.

### Sums (`SumLemmas`)

A sum over a finite set takes its elements out one by one, is natural, grows with
its set and depends only on the values it adds. The fold of the community modules
picks its elements in an order nobody knows, so each lemma is an induction over the
subsets of a finite set. It is done by a least counterexample in the order of the
naturals, since the induction theorems of the library cannot be instantiated.

### Requests (`Requests_proofs`)

Domain claims: `ClaimInductive` proves `IInv`, which adds to the two safety
properties that tokens in requests were issued and files fetched were served
(`TokensIssued`), and that a row its owner edited exists and carries the flag
(`EditsAreFlagged`), without which the next upsert would write its texts.
`EditsAreProtected` is about the texts, for any set of YAML listings, which it
leaves out; it says nothing of the prices. `ClosedClaimsStayClosed` is the action
property, from the same invariant. Assumption: `ClaimAssumption`.

Paywall: `CountsAreHits` equates the counter of a window with the number of
requests that fell into it, by cardinalities of sets of hits; `HitsAreRequests` and
`StagesOK402` say what a request at each await has done. A 429 then has more
requests behind it, in its window, than the limit.

Live probe: `CacheIsOfHost`: an entry is an answer of its host, stamped with the
time its probe began. Overlapping probes may store an older entry over a newer one;
the stamp still tells its age. Assumption: the time to live is positive.

Quotes: `PreparedJobsAreBest` rests on the ladder as it stands (`LadderInv`): a rung
it was made of is still on it, or its pair was turned down. The rest is about the
order. `Before` compares four numbers lexicographically and is a strict weak
order, so `Precedes`, which breaks ties by place, is a strict total one. A
candidate better than the one on the top rung then has few enough others before
it to be among the first `MAX_DEAD_CANDIDATES`, and its rungs are above, hence gone
and refused. The index may move between any two pages.

`RequestsAreComposed` says that a behaviour of `MCRequests` is one of each of the
four components, so these theorems hold of the run.

### Quarantine (`Quarantine_proofs`)

`QInductive` proves `QInv`: types; `RunSeesRow` (the copy a run read is still the
row, which is where the theorems need `BetweenRuns`, the operator steps in between
runs only); `EventsTellState` (the events replayed give the state, a theorem of its
own without a run); `FailsAreBad` and `PassesAreGood`, which bound the counters in
the row by the verdicts that were really given, with the age of the first of
them; and `ExitIsKept`, that the exit record lives as long as a flap would count.
`EntriesHaveEvidence`, `ExitsHaveEvidence` and `FlapsAreHeld` follow step by step.
The thresholds are any that keep the code's order, `ENTER` at least 2 and `MIN_GAP` at
least 1.

### Intake (`Intake_proofs`)

The source of a row can be rewritten by seven pollers, so the theorem rests on
`SourcesTellLists`: a row on a sweeping catalog's latest list carries that
catalog's token, unless the administrator has renamed it since. From it, no
sweep hides a row another sweeping catalog still lists.

`WindowsHold` counts: the rows a registration adds are at most what its own
arithmetic leaves of the limit (`RegisterWithin`), and every other step only takes
rows out of the count (`PollKeepsCount`, `HandsKeepCount`). The larger limit is
explained by a claim that was verified within the hour (`ClaimIsRemembered`).

### Listings (`Listings_proofs`)

Passes of the Bazaar: `BZInv` is what a pass is with any polls in flight (at most
one is closing it, stamps are of passes so far). `StampsTell` relates the columns to
the listing: a row carries the number of the present pass exactly when it was listed
in it, and has been absent from as many complete passes as are later than its stamp.
`KthGreatest` turns that count into the cutoff the code computes, which gives
`RetiresExactly`. `NoneMissed` follows the part of the listing that is done through
stops and resumptions, for `NothingSkipped`. Both have the hypothesis `OnePoll`: two
polls that overlap stamp rows with a pass that is closed (`BazaarOverlap`).

Stored calls: `StoredConfigAnswers` is inductive with its types: no step makes the
stored call another one than was answered, as long as the site stays as it is.
Embeddings: `SemaphoreOK` adds to the count of slots that only rows in the index have
calls. The queue of waiters has no repetitions, so a slot handed over goes to one
caller. Search: `SearchOK` gives each stage its fields; the total of a quiet search is
a sum of two disjoint sets, whatever the caps.

Circuit of the searches: `TrialsAreSingle` says that a half open circuit lets one
call through, and that the flag of the trial is up exactly while that call is out.
It is the safety that `CircuitHeals`, which a run checks, depends on. The invariant
adds when the circuit is closed (`CircuitTells`) and that a call which began before it
opened is over when it is half open (`OnlyTrialIsOut`). That comes from `CoolsDown`,
which waits for them, as the deadline of 1.5 s against 60 s of cooling does in the code.

`ListingsAreComposed` says that a behaviour of `MCListings` is one of each component,
so the theorems hold of the run; `ListingsTypeCorrect` is its type invariant.

### Services (`Services_proofs`)

Webhooks: `RowIsEarned` and `CopyIsEarned`: a count in a row, and a count a delivery
read, are never more than the failures so far, except for the delivery's own. So a
stale count written late can lose failures and cannot invent one.

Onboarding: a session is followed through everybody who may hold it: a visit
(`VisitHolds`), a call (`CallHolds`), the row of an agent sent to it (`PendingHolds`) and
the card (`CardHolds`); a session made for one use is never held for the other, and a
card comes from a completed session. `ShownHolds` adds that a visit that showed its
token is the one the session was used for. Assumption: a visit's principal is
nobody's, `Visits` and `Agents` are disjoint.

Snapshots: in `ScriptInv` a day is what the server captured, empty, the point or the
line, or a total whose verified count is still to come (`DayOK`), and a statement that
is no longer left has been executed, by this run or a killed one (`Executed`). That the
gaps the script fills are the days between the nearest points (`LineInGap`,
`PointOrGap`) gives the values. Midnight, captures and crashes may fall between any two
statements.

Discovery: `DiscoveriesAreStored` holds of any listing, any number of workers, any
budget and any requests without an answer. `DCInv` gives every endpoint in work the
course its worker is on (`Course`): the requests it has made are the first ones of
the five stages, as the answers so far make them (`AllIn`), and nothing before the
last request was a gate; what is left is the rest of that list (`RestOf`), as far as
the budget goes. The list changes under the worker, with the links of a page and
the paths of two files. `CourseGoesOn` shows that it never changes where requests
have already been made (`KnownIn`). So the report is of the first gate
(`ReportsOK`), and for the statements it remains that each one, when it has been
run, has stored its gate or been hindered by another row (`ScriptOK`): a row can
only be in the way with the url it is listed with or with that of its own gate.

The composition: `ServicesAreComposed` says that a behaviour of `MCServices` is one of
each of its components, so the theorems about them, here and in `Upkeep_proofs`,
hold of the run. `ServicesTypeCorrect` is its type invariant. It needs, besides the
invariants above, what a call and a card name (`CallsTyped`, `CardNamesTyped`), what
the server of the snapshots remembers (`ServerTyped`), that a filled day is a natural
number (`LineTyped`), and the bounds of the sweep and of the folding.

### Upkeep (`Upkeep_proofs`)

Sweep: `SweepInv` follows a row of a sweep: it is queued once (`QueuedOnce`) until it is
marked as checked (`ChosenAreQueued`), and a marked row has its verdict, or is gone, or
somebody is about to write it: its own worker, or that of a sibling whose list it
heads (`MarkedAreAttended`). `SweepsCover` follows at the end, when nobody is about to
write anything. `StreaksMatchLog` needs that the copy of a count in the queue is the
one stored (`CopiesAreCurrent`), which holds for a row without siblings, and only while
the administrator does not make a row probeable in mid-sweep: hence
`~AdminDuringSweep`.

Line of a host: `LineInv` says that those who wait form one chain in the order of
arrival. `GatesAreALock` shows that every step is a step of `HostLock` or a stutter; it is
the safety half of `ServedInTurn`.

Query log: the folded rows are the summary of the searches that are not raw
(`FoldedIsSummary`), nothing later than the present cutoff is folded (`RecentIsRaw`), and
a run's cutoff is never ahead (`CutoffsPast`). The summary of a union is then the merge
of two summaries: counts as cardinalities of disjoint sets, first and last times as
extremes of extremes.

Bounds: no more checks are begun in a sweep than there are rows, and a row in its
queue is one of those chosen (`SweepBounds`); `RollupBounds` is of the log's length, the
clock and the chunks of a run.

Migrations: `MGInv` says by the place of a boot which migrations are done for good
(`ServicesStand`, `ChecksStand`, `HashesStand`), whatever was cut before, and what holds
besides while no boot was cut (`UncutServices`, `UncutClaims`).

### Only model-checked

Liveness (`Answered`, `Recovered`, `PayingHostReturns`, `RowsChecked`, `CircuitHeals`,
`DeadHookDropped`) and the fair half of `ServedInTurn`, which the installed provers do not
reach. Every other property of a passing run is a theorem. What an operator that is
recursive over its data computes (`SelectSeq`, the folds) could not be proved, apart
from the sums of `SumLemmas`: no proof depends on it, and where an order matters it
is stated by places.

## 6. Plan

1. The wait between two probes of one host inside a sweep, and the protocol
   changes a sweep proposes.
2. The script that retires Bazaar churn (`scripts/ops`), beside the polls.

## 7. Not modelled

Rendering, documentation pages, the OpenAPI text, classification by keywords,
parsing of headers and invoices, currency conversion, notification channels
other than webhooks, digests, and the MCP package: pure functions or output,
without state that another step depends on. The router's server plumbing and
price cache have no state a step of another component reads back. `PROJECT.json`
lists every component with the reason.
