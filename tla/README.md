# Verification of the Transaction Reconciliation Engine

TLA+ models of the engine, model-checked with TLC on small instances,
and theorems about them for every value of the constants, checked by TLAPS.
Every definition is translated from the Go code under `src/`; `PROJECT.json`
maps each to its lines.

## 1. The system

The engine takes transactions from payment gateways, banks and ledgers into one
PostgreSQL table (*ingestion*), pairs gateway transactions with ledger
transactions (*reconciliation*), and tracks what it could not pair
(*discrepancies*). It runs as a server (`recon serve`), of which there may be
several instances, and as short-lived commands (`recon reconcile`,
`recon upload`, ...). All of them share one PostgreSQL database and one Redis.

### Inventory

| Component | State | Operations | Hard behaviour | What makes it correct |
|---|---|---|---|---|
| Matching rules and scorer (`engine/rules.go`, `engine/scorer.go`) | none (pure) | four rules, `Score`, `ScoreAll` | amount of least value, calendar-day cuts, relative tolerance, order of rules, ties in an unstable sort | the scorer agrees with the documented passes; the rules are ordered by strictness; a closer date never scores lower |
| Reconciler (`engine/reconciler.go`) | tables `reconciliation_runs`, `matches`, `discrepancies`; the local lists, marks and counts of a call | `Reconcile`, `failRun` | overlapping runs over stale lists, failure between two inserts, a failed call that was committed, cancellation of the context that the clean-up uses | a run uses a transaction once; its record agrees with its rows; it leaves no acceptable pair; what is settled stays; runs apart in time share nothing |
| Distributed lock (`lock/redis_lock.go`) | the Redis key `reconcile:lock` | `Lock` (SET NX with TTL), `Unlock` (compare and delete) | expiry under a running holder, an owner per process and not per call, the dropped answer | at most one call is under way (it is not so: section 6) |
| Ingester (`engine/ingester.go`, handlers, `runUpload`) | table `transactions`, Redis keys `dedup:...` | `Ingest` for single requests, batches, uploads, the command | check-then-insert races, a cache that outlives its row's insert, failed inserts that were committed | one row per key; nobody is told "duplicate" of a record that is not there |
| Discrepancy manager and updates (`engine/discrepancy_manager.go`, `api/discrepancy_handler.go`) | table `discrepancies` | `PreventDuplicate`, `Resolve`, `AutoResolve`, `AgeOpenDiscrepancies`, PATCH | check-then-insert, decisions on stale lists, unconditional updates; the program calls only PATCH | no second open discrepancy, no decision undone, no severity lowered, as far as calls do not overlap |
| Scheduler and shutdown (`scheduler/scheduler.go`, `cmd/recon/main.go`) | goroutines, tickers, contexts | `Start`, `run`, `Stop`, `runServe` | a tick racing the end of the context; an unbounded wait in `Stop` while requests come in | a graceful exit leaves nothing under way; a signal ends the process |
| PayPal adapter (`adapter/paypal.go`) | the shared token, its expiry and mutex | `FetchTransactions`, `fetchPage`, `authenticate`, `clearToken` | concurrent refresh of one token, retries, windows that share a boundary | a fetch that succeeds returns its period; it fails only for a cause; fetches end |
| Stripe adapter (`adapter/stripe.go`) | cursor of a fetch | `FetchTransactions`, `fetchPage` | pages of a list that grows while it is read, retries | a fetch returns the list as it stood at one moment |
| Bank file adapter (`adapter/bankfile.go`, `bankfile_camt053.go`) | parser state | `ParseFile` | text carried from line to line, entries and blocks that do not parse | each entry is returned or warned of, and keeps its own details |
| HTTP router and middleware (`api/router.go`, `api/middleware.go`) | buckets of the rate limiter | `RateLimiter`, recovery, authentication | refill at a minute's edge, rounding of Retry-After, one bucket per remote port | never three windows' worth in a minute; nobody is refused who has not used up the limit |
| Reports (`report/`) | none | `GenerateSettlement`, discrepancy report | two queries over changing tables, date defaults | what it counts is among what it lists |
| Configuration (`config/config.go`) | the settings | `Load`, `validate` | unbounded date tolerance | the bounds the matcher relies on |
| Others (`repository/source_repo.go`, `ingestion_log_repo.go`, `observability/`) | - | never called from the server, or logging | - | - |

How they interact. HTTP handlers call `Ingest` and `Reconcile` with the
request's context; the scheduler calls `Reconcile` with the context of the
server, which ends at shutdown; commands call them with a context that never
ends. The ingester feeds the table that `FindUnmatched` reads. Reconcilers of
different processes meet only in the tables and in the lock. `Reconcile` and the
PATCH handler write the discrepancies that the reports read. The scheduler and
the HTTP server are stopped in turn by `runServe`. The adapters feed the
ingester: bank files from an upload, the two APIs from nowhere yet (their jobs
are placeholders). Only the API adapters retry; any other failed request is the
client's to repeat.

`PROJECT.json` lists the hazards of the code with their lines, and for each the
properties that would catch it going wrong, or why there is none yet.

## 2. The modules

| Module | What it is |
|---|---|
| `Matching` | The rules and the scorer as operators, with no state. |
| `MatchingPairs` | Pairs of rows as states; a step moves the ledger row in time. EXTENDS `Matching`. |
| `MatchingMC`, `MatchingProofs` | A small space of rows; what the scorer says of any rows. |
| `Reconciler` | Calls of `Reconcile` in several processes over the tables and the lock. EXTENDS `Matching`. |
| `ReconcilerMC` | Instances of `Reconciler`. |
| `ReconcilerProofs` | Type correctness; the inductive invariant and what follows from it. |
| `DedupStore` | The abstract specification of ingestion: no caches, no races, no faults. |
| `Ingester` | Requests served by `Ingest` over the table and the cache; implements `DedupStore`. |
| `IngesterMC`, `IngesterProofs` | Its instance; its invariant, the refinement and the cause of errors. |
| `Discrepancies`, `DiscrepanciesMC` | The calls that write and read the table `discrepancies`; four meetings of such calls. |
| `DiscrepanciesProofs` | Its inductive invariant and its properties for any meeting. |
| `PayPal`, `Stripe`, `BankFile` | One adapter each. |
| `Adapters`, `AdaptersMC` | The three adapters as `runServe` builds them, by named INSTANCEs; the initial state picks the one in use. |
| `PayPalProofs` | What a fetch knows of the token it has refreshed, and what it has seen of its windows and pages. |
| `BankFileProofs` | What the parser knows of the lines read so far. |
| `AdaptersProofs` | The adapters implement their parts; the Stripe adapter's invariant. |
| `RateLimiter` | A bucket of tokens for each remote address. |
| `Server` | `recon serve` from start to exit: scheduler, requests behind the limiter, shutdown. EXTENDS `RateLimiter`. |
| `ServerProofs` | Where in time the limiter's admissions lie; the server implements the limiter; its graceful exit is quiet. |

Operators named `...OrNot`, `...Retried`, `AnyOf` and the like, each commented
"A plausible slip", are mutations: nothing uses them, and each, put in the place
of the definition after it, makes one property fail.

### Matching

A row holds what the rules read. Amounts are integers of a fixed width whose
least value is its own negation (`absInt64`), days are `TicksPerDay` instants
cut at multiples (`Truncate`), confidences are percentages and the tolerance is
in thousandths, so that no floating point is left. `Normal` is the lower-casing
and trimming of counterparties. References are abstracted to which reference a
description mentions. `Score` is a set of at most one rule. `BestOfAll` is a set
because `sort.Slice` is not stable: the code takes some member of it.

### Reconciler

One step is one call to a store, with the local computation up to the next:

| Action | Code |
|---|---|
| `Lock`, `LockPanics` | the SET NX whose answer is dropped; the nil locker |
| `CreateRun`, `FetchGateway`, `FetchLedger` | the run's row, the two queries |
| `MatchNext` (`Skip`, `InsertMatch`) | one round of the matching loop |
| `NextLoop`, `ReportGateway`, `ReportLedger` | the loops over what is left |
| `CompleteRun`, `FailRun`, `Unlock` | the last update, `failRun`, the deferred unlock |
| `Ingest`, `LockExpires`, `Cancel`, `Crash` | the environment |

Each store call has three outcomes: it is answered; it fails because the
context is cancelled and has no effect; or it fails of itself, and what it wrote
may or may not have been committed (`Leaves`). A call makes at most one run, so
runs are named by their calls. `endedBefore` is a history variable: the calls
that had ended when a call began.

### Ingester and DedupStore

A request is a sequence of items served in order on one context. `GetCached`,
`Find`, `Recache`, `Insert` and `CacheNew` are the store calls of `Ingest`, with
the same three outcomes; `Reject` is `validate`; `Return` is the handler's loop.
What passes `validate` may still be refused by the table, for good and with the
store alive (`Storable`): `validate` looks neither at the length of
`external_id` and `counterparty` nor at the encoding of texts, nor whether
`raw_data` is JSON, nor whether the source exists.
The id that a call draws for a row is named by its item. `DedupStore` says what
is promised: of the items that share a key at most one is kept, `created` is
said only of a kept item and `duplicate` only when another item of that key is
kept. The refinement maps `kept` to the rows and `told` to the statuses.

### Discrepancies

A row is named by the call that inserted it and its transaction. Time is a
calendar of days, since ages and reports are in days. Each kind of call has its
actions: `CreateRun`, `InsertDiscrepancy`, `FailRun`, `CompleteRun` (the second
half of `Reconcile`, with the transactions it could not match as a given set);
`LookUp`, `InsertNew` (`PreventDuplicate`); `Patch`, `Resolve`, `Rejected`;
`FindOpen`, `AutoResolve`; `ReadClock`, `Age`, `AgeEnds`; `SumRuns`,
`ListDiscrepancies`, `ReportFails` (`GenerateSettlement`). A store call fails
with or without effect. `list` keeps the rows as they were read, so that what is
stale is visible. `untouched` and `overlap` are histories: the rows whose status
nobody has written since a call began, and the calls that ran beside it.

### The adapters

`PayPal`: a step is a critical section of the token's mutex or an HTTP call;
`authenticate` keeps the mutex during its call. `Lapse` is PayPal's refusal of a
token, `Expire` the adapter's own reckoning, and either may come first. A token
is a number, and the empty one, which `clearToken` leaves, is 0. `disturbed` is
a history: the fetches whose refreshed token was taken from them. `Stripe`: a
step is an HTTP call; transactions are numbered as they are created and pages go
from the newest down. `BankFile`: a step reads a line (an entry of CAMT.053); a
file is any sequence of the kinds of lines that the code tells apart.

### RateLimiter and Server

A request is decided in one step because the bucket is under a mutex. A key
without a bucket is one whose minute is over. `admitted` and `promised` are
histories. In `Server`, `StartJob` and `StopJob` are the two cases of the
scheduler's select, both possible when a tick and the end of the context are
there; a ticker holds one tick. `StopScheduler`, `Drain`, `Exit` and
`DrainTimesOut` are the end of `runServe`. Requests come until the drain begins,
which is after the last job ended. A second signal does nothing: it is caught
until the process exits.

## 3. Runs that pass

| Run | What it shows | Instance |
|---|---|---|
| `MatchingRules` | `FirstPassWins`, `RulesNest`, `CloserDateNeverScoresLower` | amounts -8 (the least of four bits), -5, 4, 5; two currencies; six instants over three days; four counterparties of which two are spellings of one; references in either direction |
| `ReconcilerOverlap` | the safety of each run by itself | two servers, one call each, three transactions stored and a gateway transaction, earlier than the others, that may arrive at any moment; up to two faults; the key may expire at any moment |
| `ReconcilerEnds` | every call ends; as long as nothing fails every run is settled | two calls of one server, four transactions, one fault |
| `ReconcilerMixed` | the record and the separation of runs whose two sides are the same set | two jobs of one scheduler, a command and a server without Redis; three transactions; one fault |
| `IngesterRaces` | deduplication, the cache, the causes of errors, that every request ends | a batch that repeats its first record, a single ingest of the same record, whose counterparty its column does not hold, and a request without Redis that races for the second record and has an invalid one and one of an unknown source; up to two faults |
| `Discrepancies` | duplicates, decisions, severities, totals | two attempts at one transaction while a clerk closes and reopens it; AutoResolve and two people; two agings and a new row; two runs and a report; three days, one fault |
| `Adapters` | each adapter returns what it should, or fails for a cause; fetches end | two PayPal fetches over two windows, the first of two pages, with a transaction on the boundary, two tokens that lapse, two failed calls, one retry; a Stripe list of up to eight with pages of two; bank files of up to five lines |
| `Server` | the limiter's promises, a quiet exit, an end after a signal | one job, five requests of one address, a limit of two a minute, a second of two ticks, a minute of two seconds, two minutes |

Properties worth a word:

- `MatchedOncePerRun`: a run never uses a transaction twice on a side, not even
  when an insert it was told had failed was committed.
- `CompletedRunAccounts`: each fetched transaction is matched or reported, never
  both, and the row of the run holds exactly those numbers.
- `MatchingIsMaximal`, `NoOvertaking`: a completed run leaves no acceptable pair
  apart, and a better candidate is passed over only if an earlier gateway
  transaction holds it. Both rest on the order of the query and on the marks.
- `RunsApartShareNothing`: what one call committed before another began is out
  of that one's reach. This is what is left of "one transaction, one match" when
  the lock excludes nobody.
- `KeyHasActiveOwner`: while nothing fails, no way out of `Reconcile` leaves the
  key to its expiry.
- `SettledRunIsFrozen`: a settled run gets no more rows and no more updates.
- `Deduplicates`: the refinement of `DedupStore`.
- `ErrorsHaveCause`: while nothing fails, only an item that `validate` or the
  table refuses is answered with an error; the loser of a race is not.
- `NoSecondOpen`, `DecisionsStand`, `SeverityFallsOnOverlap`, `AgedEnough`: what
  the manager's check-then-act calls promise as far as nobody intervenes between
  the check and the act. Where two calls overlap none of the four holds, and
  nothing in the code (no lock, no condition of an UPDATE, no unique index)
  would make it hold. `AgedEnough` covers the repair of a partial failure: an
  aging stops at the first update that fails, and the next one that succeeds
  catches up with every row that it left behind.
- `TotalsAreListed`: a run inserts its discrepancies and then writes its count,
  a report reads the counts and then the discrepancies. It holds because both
  orders are what they are, and because a run that fails writes no count.
- `FetchIsExact`: it also says what is not exact: a transaction at the boundary
  of two windows is returned twice, which deduplication absorbs, and a period
  whose two ends are equal, valid by `Validate`, returns nothing.
- `FailureHasCause`: while no call fails, a fetch fails only if its refreshed
  token was cleared by the other fetch or lapsed.
- `AtMostTwoWindows`: the window is fixed and not sliding, so twice the limit in
  one minute is possible, and three times is not.
- `GracefulExitIsQuiet`: the database is closed with no job and no admitted
  request under way.

**Bounds.** Two overlapping calls give every pair of interleaved steps, and no
property relates more than two calls; four transactions let two gateway
transactions compete for one ledger transaction with a second choice, and one
arrive late. `MaxFaults` bounds failures, cancellations and crashes: two suffice
for a failed insert followed by a failed `failRun`, or a cancellation in each
call. In ingestion three requests on two keys give a race, a repeat within a
batch, a cache entry made by another request, and a row refused before or after
another of its key is stored. Two lapses let
a refreshed token be refused; two PayPal fetches give every race for the token,
of which each pair of fetches has the same. Five lines hold a block with two
entries and details, or two blocks. `MaxTime` is two minutes, which gives a
window's end, its refill and the edge after it; with a limit of two, a window may
be used up at its end and the next one at its start, which is what
`AtMostTwoWindows` is about and takes five requests to violate. One job gives
each race of a tick with the end of the context; that the exit waits for every
one of several jobs is `QuietHolds`. Three days with the thresholds
of age at zero and one give both escalations. The four meetings of
`DiscrepanciesMC` are the groups of calls that touch the same rows; larger
groups would repeat them. The theorems of section 5 have none of these bounds.

**Fairness.** `FairSpec` assumes weak fairness of each call's own steps and of
nothing else: every store call returns, with an answer or an error (the drivers
and the contexts see to it), and a goroutine that is not blocked runs. No
fairness is assumed of the environment. A call that has not begun need not
begin. `Adapters!FairSpec` is the same for fetches and Stripe calls: HTTP
calls return (the client or the context ends them). `Server!FairSpec` assumes
that a job's function returns, which `CallsEnd` shows of the only one that does
anything; that the main goroutine goes on; and *strong* fairness of `StopJob`:
Go's select draws at random among the cases that are ready, so a loop that comes
back to it with the context ended takes that case in the end, however often a
tick is there too. Requests are not assumed to end: the drain has its
timeout. Deadlock is not checked because the system stops when every call or fetch has ended, a file
is read, or the server has exited.

## 4. Abstractions

`Reconciler` leaves out the contents of discrepancies and of runs (severity, age,
durations, the match rate), which no decision of it reads; `Discrepancies` has
the severity, the age and the count. `Discrepancies` takes from `Reconcile` that
it inserts one discrepancy for each of a set of transactions, and leaves how it
finds them to `Reconciler`. Validation of an
item is a Boolean, and so is whether its texts and its `raw_data` are such as
their columns take (`storable`). A source that PostgreSQL does not know is one
whose insert is refused. Deletion is nobody's operation. Redis may lose a key at any time; it
never invents one. Retries by clients are further requests. The model takes the
text of a source for the source (PostgreSQL takes several spellings of a UUID).
The manager's store is an interface that only tests implement: its reads and its
update of age and severity are taken to be one statement each, as those of the
repository are. PayPal's transactions do not change during a fetch; Stripe's
only grow. The sleeps of a backoff change nothing. A request of the server ends
when its handler does, whatever the stores do.

## 5. Theorems

Every safety invariant and every action property of the passing runs is the
statement of a theorem, and so is the refinement `Deduplicates`.

`MatchingProofs`: `FirstPassHolds` compares the scorer, which evaluates the four
rules and keeps the most confident, with the table of passes: the confidences
fall in the order of the passes, so the first pass that accepts is the most
confident one (`ScoreIsFirstPass`). `RulesNestHolds` rests on
the distance of amounts that match, which is zero and within any tolerance;
`CloserHolds` on `CloserFires`: every rule that accepts a
pair accepts it when the ledger row comes closer.

`TypeCorrect` (`ReconcilerProofs`) is type correctness of `Reconciler`.
`NoBestMeansNoneAcceptable` is what the matching loop needs of `ScoreAll`.

`Invariance` (`ReconcilerProofs`) is `Spec => []IInv`. The properties are not
inductive by themselves: that a completed run accounts for its transactions
depends on what the local variables meant all along. `IInv` says, of each call:

- `NothingYet`: before the matching starts there are no rows and no marks;
- `SettledLate`: a status other than running is written only on the way out;
- `FromFetched`, `OncePerRun`, `Overtaken`: of the rows of its run;
- `MarksAgree`, `ReportsAgree`, `CountsAgree`: the local variables describe the
  rows. After a failed insert they need not, so they are stated for the loops
  and for completed runs only (`Sound`);
- `VisitedInOrder`, `LeftRefused`: what the matching loop has left is earlier
  than what it will visit, and is refused by every free ledger transaction.
  `LeftRefused` is kept because the set of free ledger transactions only shrinks;
- `EarlierApart`: the calls that had ended before stay ended, and what they
  matched is not among what this one fetched.

Each step of one call leaves the invariant of the others alone, because a step
changes the rows of its own run only; the proofs have that as lemmas, and one
lemma per action. From `IInv` follow `OncePerRunHolds`, `AccountsHold`,
`MaximalHolds`, `NoOvertakingHolds`, `RunsApartHold` and, from the step lemmas,
`FrozenHolds`. `KeyHolds` has an invariant of its own over the key, the calls
and the faults.

`IngesterProofs`: `IngesterTyped`; `CacheIsRight` and `IngesterImplements` from
the invariant that the ids of items to come are unused (`IdsAreNew`), results
come in order (`InOrder`) and what is about to be cached is stored
(`CachesStored`); `ErrorsAreCaused` from that and from the fact that no context
is cancelled before the first fault: what is left to refuse an item is
`validate`, or a row that the table does not take.

`DiscrepanciesProofs`: the invariant `DInv` says, of each call, which of its
rows are still to come (`ToCome`), that it decides on a row once (`Acted`), that
what it has read of a row it read once and the row is still there (`ReadOnce`),
and of the histories that a row nobody has decided on since a call began was
there then with the status it has (`WereThere`). These give `NoDuplicateAdded`
and `DecisionsAreKept`. `Ages` is what an aging knows while it is alone: the
severities it has read are those of the table, and each open row that it is
done with is as severe as its age asks, unless it has failed; `AgingReaches` and `SeverityRises`
follow. For `ReportsAdd`, `Counts` says that a completed run's rows were created
between its start and its end, and `Totals` that a report's sum is no more than
the rows of a set of completed runs, whose rows the second query then lists:
`CountedRows` is the lemma that the sum of such runs' counts is no more than
their rows.

`ServerProofs`, of the limiter: that no minute sees three windows is not inductive, since a
bucket remembers only the start of its window and the tokens left. `Placed` says
where the history of admissions lies by these two: the last `maxPerMinute -
tokens` of it inside the window, the rest before it, and all but the last
`maxPerMinute` of the rest more than a minute before it. `TwoWindowsHold` and
`RefusedHolds` follow; `RetryAfterHolds` rests on `RoundedUp`, that a division
rounded down and one more second go beyond what was divided.

Of the server, `ServerImplementsLimiter` shows that every step of the server is
one of the limiter or leaves its variables alone, so `ServerLimits` has the
limiter's promises in the server. `QuietHolds` needs that the requests in a
handler or answered are exactly those let through (`RequestsAccounted`) and that
the drain comes after the jobs (`OrderOfExit`).

`PayPalProofs`: `FailuresAreCaused` needs to know what a refresh buys.
`TokenKnown` says that a fetch which has refreshed the token, and which nobody
has disturbed since, finds in the cache a token that PayPal takes, and sends no
other; `FewAttempts` that without faults it always has an attempt left after its
refresh. `ExchangesAreNeeded` follows from `NeedLasts`: while one fetch holds the
mutex for its exchange, nobody fills the cache. `FetchesAreExact` is arithmetic
and counting. A transaction of a period is listed by the window in which its day
lies, and by the one before it too when it lies on their boundary
(`WindowsCover`, `SlicesCounted`); within a window it is on exactly one page,
given by the number of transactions listed before it (`PageExists`). The
invariant `Exact` then says that what a fetch has of each transaction is the
number of windows behind it that list the transaction, and one more if the pages
read of the current window have it.

`BankFileProofs`: after each line, `BInv` says of the lines of closed blocks that
each entry is returned or warned of, itself or by the end of its block
(`ClosedAccounted`); of the open block, that each entry is pending, complete or
warned of (`OpenAccounted`); of the entries complete, that they are in order and
own their details (`Complete`); and of the state carried from line to line, that
the pending entry is the last mark and the details held are its own, or nobody's
yet (`Ready`). `EntriesAccounted` and `DetailsAreOwn` look at whole files; for
the induction they are restated as operators of a file, so that `Settled` and
`NewDetails` can say what one more line changes.

`AdaptersProofs`: every step of the whole is one of an adapter or leaves its
variables alone (`PayPalRuns`, `BankRuns`), so the theorems of the parts hold in
the whole. `SnapshotsHold` has its invariant here: the cursor is the least
transaction read, and what was read is all of the period from the cursor up, in
the list as it stood at one moment since the fetch began (`ReadDownTo`). Since
pages go downwards from the cursor and transactions are only added above it,
later arrivals change nothing of what is left to read (`RestIsOlder`).

The theorems assume `TxnAssumption`, `ToleranceAssumption`, `CallAssumption` and
`BatchAssumption`: the bounds that `config.go` checks, finite sets of calls and
transactions, and amounts within their width; `RateAssumption` and
`ServerAssumption`: a limit, a second and a minute that are not zero. `PairsAssumption`: the pairs are of those rows;
`DiscrepancyAssumption`: finite sets of calls and transactions, an attempt at one
transaction, thresholds of age in their order. TLC
evaluates them in every run. `PayPalAssumption` is a hypothesis of the theorems
of `PayPalProofs`; `AdaptersProofs` discharges it from `AdaptersAssumption`, which
joins the assumptions of the three adapters.

Only model-checked: the liveness properties (`CallsEnd`, `RunsSettle`,
`RequestsEnd`, `FetchesEnd`, `ShutdownEnds`), which need fairness and ENABLED and
are out of the prover's reach; and, by their nature, the four counterexamples of
section 6.

## 6. What the code does not keep

Each of these runs ends in a counterexample to a sentence of the repository.

| Run | Sentence | What happens |
|---|---|---|
| `MutualExclusion` | README: runs "must be mutually exclusive across multiple instances" | `Reconcile` ignores whether the key was set |
| `MatchLinksTwo` | `domain/match.go`: "between a gateway and ledger transaction" | the scheduled job names no source and matches transactions with themselves |
| `DuplicateNamesRow` | `ingester_test.go`: a duplicate has the "same TransactionID" | the loser of a race gets an id that no row has |
| `SurvivesExpiry` | `paypal.go`: "Token expired - refresh once and retry" | each of two fetches clears the token that the other has just obtained |

Read off the code while modelling it, without a run of their own:

- Only the pair of ids of a match is unique, so two overlapping runs may match
  one transaction twice; CODEBASE_CONTEXT has each id unique.
- The matching loop goes by gateway transaction, not "pass by pass" as its
  comment says: an earlier one may take by a fuzzy rule what a later one would
  have matched exactly.
- `recon reconcile`, and a server without Redis, pass a nil locker and panic
  (`LockPanics`). `recon upload` names the source `bankfile`, which is no UUID,
  so every insert is refused (the request `bare` of `IngesterMC` has one); and it
  counts results of status `inserted`, where `Ingest` says `created`.
- `validate` lets through what the table refuses (a `counterparty` over 255
  characters, a text with a NUL or in Latin-1, `raw_data` that is not JSON, a
  source that does not exist), and `IngestHandler` answers every error of a store,
  a database that is down included, as a validation error with status 422.
- A report's `date_to` is the midnight at which that day begins, so the day
  itself is left out.
- The table `discrepancies` has no column for the age, the repository does not
  implement the manager's store, and nothing in the program calls the manager:
  the job `discrepancy_aging` logs a line. A discrepancy that is reopened keeps
  its `resolved_at`.
- `RateLimiter` is documented as per client IP; its key is the remote address
  with its port, so each connection has a bucket, and none is ever removed.
- The upload handler drops the warnings of the parser, so what `EntriesAccounted`
  accounts for by a warning the client never hears of; a block without a currency
  takes the warnings of its lines with it.

## 7. Plan

Done: every component of section 2, with the safety of its runs proved. Next: an
abstract specification of a discrepancy's life (reported, aged, decided), which
`Discrepancies` implements, with the refinement proved; of the limiter, an
abstract bucket that the fixed window implements; and the parts of `Reconciler`
that decide liveness without fairness (a call's measure falls with each of its
steps), as theorems.

### Not modelled

Reading the configuration, flags and files; the rendering of reports as JSON, CSV
and text; the read-only handlers; authentication; logging. `mapTransaction` and
the parsers of amounts, dates and subfields convert text to fields, and no
property here tells two texts apart beyond whether they parse. `Categorize` is a
pure function that nothing calls. `sync` and `report` of the command line print
what other components compute.

## 8. Running

    tlc -config ReconcilerOverlap.cfg ReconcilerMC
    tlapm ReconcilerProofs.tla
