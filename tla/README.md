# A verification of gservice

gservice is a JSON server in C: gSOAP accepts HTTP connections, a pool of worker threads serves
them, and the handlers answer from PostgreSQL through a pool of libpq connections. This directory
holds TLA+ models of its core, the TLC runs that check them on small instances, and proofs that
the TLA+ proof system checks for every value of the parameters. All paths below are relative to
the repository.

## 1. The system

### 1.1 Inventory

| component | state | operations | hard part |
|---|---|---|---|
| service lifecycle (`core/se_service.c`, `main.c`) | `global_shared`, `isrun`, the threads | `SE_start`, `SE_isten`, `SE_workthred_make/free`, `SE_stop` | start and stop race with threads that begin, wait and work |
| request queue (`core/se_service.c`) | `head`, `tail`, `queues`; one mutex, one condition variable | `enqueue`, `dequeue` | wrap-around, full and empty, one signal per connection |
| database pool (`core/se_service.c`) | `isuse`, `use_count`, `current_weight` of each connection, and the session behind it | `get_dbserver`, release in `SE_soap_serve` | taken under the mutex, released without it; spinning with the mutex; `PQreset` |
| database clusters (`core/se_service.c`) | `wcluster`, `rcluster` | `SE_dbconf_copy`, `SE_pgcluster_make`, `SE_connect_pgcluster`, `get_next_dbserver_index` | failure half-way through two clusters; credits that are never reset |
| transactions (`core/se_utils.c`) | the session's transaction | `SEPQ_begin`, `SEPQ_commit`, `SEPQ_rollback` | every failure path must end the transaction |
| handlers (`se_handler.c`, `se_users.c`) | the request and the answer of a worker | `user_process` and one function per method | the order lease, begin, statements, token, commit |
| tokens (`core/se_utils.c`) | claims `userid`, `expired`, `last` | `SE_make_token`, `SE_parse_token` | a chain of renewals |
| answers and record sets (`core/se_utils.c`, `core/se_pqbin.c`) | the text in `arg->sys` | `SE_soap_generate_*`, `SE_reader` | JSON written in place, commas removed afterwards, error texts that start over |
| statement parameters (`core/se_params.c`) | `SEPQ_EXECPARAMS` | `SEPQ_params_*` | sizes computed in one loop, bytes written in another |
| string builder (`pg/stringbuilder.c`) | `data`, `len`, `maxlen` | append, enlarge | doubling in `int32_t` |
| configuration (`core/se_conf.c`) | `SE_CONF` | `SE_conf_create` | ranges in code, messages and documentation |
| encodings (`core/se_std.c`, `core/se_crc.c`, `pg/base64.c`) | none | pure functions | - |
| gSOAP, libjwt, aes, argparse, PostgreSQL's headers | third party | - | - |

### 1.2 How they interact

The main thread calls `SE_start`, which connects the clusters and creates the listener thread, then
sleeps until a signal and calls `SE_stop`. The listener creates the workers, accepts connections and
puts their sockets in the ring; a worker takes one, calls the handler, and closes it. **One mutex**
protects `isrun`, the ring *and* the leases of database connections; one condition variable tells
workers of a new socket and of the end. Handlers lease a connection from the pool under that mutex;
`SE_soap_serve` gives it back without. `SE_stop` clears `isrun`, connects to its own port so that
`soap_accept` returns, broadcasts, and joins the listener, which itself broadcasts and joins the
workers.

What makes each component correct: a connection is in exactly one place and reaches a worker
(queue); nothing is freed before its last user has ended, and stopping ends (lifecycle); a database
connection is with at most one worker, comes back without a transaction and the mutex is always
given back (pool, transactions); the clusters are complete or absent and shared by weight
(clusters); a token lives as long as documented (tokens); the answer is well-formed JSON (record
sets); the bytes written are the bytes counted (parameters, string builder). `PROJECT.json` lists
the hazards at their lines and which property watches each.

## 2. The modules

| module | models | composed with |
|---|---|---|
| `RequestQueue` | what the queue promises: a bounded first-in first-out line, each connection joins at most once and goes to one worker | instantiated by `Service` |
| `Service` | `SE_start`, `SE_stop`, `SE_isten`, `process_queue`, the ring, the condition variable, and the kernel's backlog | refines `RequestQueue` |
| `WeightedDraw` | the operators of `get_next_dbserver_index` | used by `DbPool` and `Clusters` |
| `ConnectionPool` | what the users of a database connection promise: one thread at a time, nobody else in its session, given back outside a transaction | instantiated by `DbPool` and `Requests` |
| `DbPool` | the workers' leases, `get_dbserver`, the transactions of the handlers, the release, the sessions | `WeightedDraw`; refines `ConnectionPool` |
| `Clusters` | from the databases node of `conf.json` to the two clusters, and the picks from them | `WeightedDraw` |
| `Answer` | the JSON in `arg->sys`: `SE_soap_generate_*`, `SE_reader`, and the rules by which a client reads it | used by `Requests` |
| `Requests` | `user_process`, all handlers step by step, the token they issue and check, the clock | `Answer`; refines `ConnectionPool` |
| `StringBuilder` | `pg/stringbuilder.c` | |
| `Base64` | `pg/base64.c` | extended by `Params` |
| `Params` | `core/se_params.c`: the values, the blocks they live in, what PostgreSQL makes of them | `Base64` |
| `Cells` | NUMERIC, dates and times from the binary format to the text (`core/se_numeric.c`, `core/se_pqbin.c`) | used by `Statement` |
| `Statement` | a statement: its parameters out, a cell of its result back | `Params`, `Cells` |
| `MCDbPool`, `MCRequests`, `MCStatement` | values for TLC (`Service`, `Clusters` and `StringBuilder` are run as they are) | |
| `ServiceProofs`, `DbPoolProofs`, `ClustersProofs`, `AnswerProofs`, `RequestsProofs`, `StringBuilderProofs`, `StatementProofs` | theorems and proofs | |
| `SharedFacts` | lemmas on the operators of the community modules the models use (folds, sums, flattened texts) and on `WeightedDraw` | extended by the proofs that need them |

### 2.1 Service

A step is a critical section, or a step of one thread between two of them. That grain loses
nothing: what is read and written between lock and unlock is touched under that mutex only, except
for the store to `isrun` after a failed `soap_bind`, an action of its own. `pthread_cond_wait` gives
the mutex up and is therefore split: `DequeueWaits` goes to sleep, `Signal`/`Broadcast` (or a
spurious wake-up) make the worker `"woken"`, and `WokenExits`, `WokenWaits` or `WokenTakes` is what
the loop does with the mutex again. Program counters: `cpc` for the main thread, `lpc` for the
listener, `wpc` for the workers.

| state | code |
|---|---|
| `isrun`, `shared`, `global` | `shared->isrun`; the object allocated, or freed; `global_shared` |
| `head`, `tail`, `queues` | `SE_QUEUE` |
| `attempt` | `count` in `SE_stop` |
| `lsock`, `lrun`, `made`, `joined` | `s` and `isrun` in `SE_isten`, the counters of the loops over the workers |
| `wsock` | `tsoap->socket` |
| `fresh`, `backlog`, `bound` | connections not made yet, made but not accepted, and the listening socket (kernel; external) |
| `served` | history: connections served and closed |
| `alive` | FALSE after undefined behaviour (freed memory used, a `pthread_t` joined that no thread ever had): the process may have ended, so nothing is sure to happen any more |

Failures (constant `Failures`) are those of allocation, `pthread_create`, `soap_bind` and
`soap_accept`; each takes the code's own error path. Left out: sleeps, the time limits of the
wake-up call (it connects, or is refused when nothing listens), the `Server timed out` branch (no
accept time limit is ever set) and the way the operator's signal reaches `main.c`: `StopBegins` may
happen at any time after `Publish`.

### 2.2 DbPool

A worker is idle, asks (`Ask`), gets the mutex (`Lock`), spins with it (`LookAgain`, one pick each)
and takes (`Take`), counts its use or recycles the session (`Count`, `Recycle`), runs its handler and
releases. The handlers share one shape and are modelled once: `hello_world` uses the connection
without a transaction (`Plain`), all others go through `SEPQ_begin`, statements, `SEPQ_commit` and on
any failure `SEPQ_rollback`. A session is `"clean"`, `"open"` (in a transaction, aborted or not) or
`"broken"`; any command may find the connection broken. `use_count` is kept only when there is a
maximum, because nothing reads it otherwise. It is not the number of uses of a session: the use for
which the session is opened again is not counted (section 3.2).

The other user of the mutex, the request queue, is left out here, and the pool is left out of
`Service`: a critical section of the queue never blocks, so it can delay a worker in `get_dbserver`
but not stop it, and `Service` assumes that the mutex is given back, which `MutexGivenBack` shows.

### 2.3 Clusters

`SE_conf_create` and `SE_connect_pgcluster` run in one thread before any other exists. `Parse` turns
the databases node of `conf.json` into the servers, cutting the 64-bit integers of JSON to 32 bits
before it looks at their range, as the code does; then come the copies of the configuration, one
`Connect` per connection (writers first, then readers), and the failures. After `Publish`, `Draw` is
one call of `get_next_dbserver_index`; `drawn` and `draws` record the picks of the current round, a
round being as many picks as the weights sum up to. `Init` ranges over every databases node within
the bounds, the invalid ones too.

### 2.4 Answer and Requests

A worker's requests, one after the other. A handler is the sequence of its steps (`Steps`); a step
either succeeds, and the handler goes on, or fails, and it goes to its `SE_ERROR_CLEAR` (`CleanUp`).
`Finish` is the end of `SE_soap_serve`. The database may fail at every step, and a broken connection
during COMMIT leaves open whether the transaction was committed.

| state | code |
|---|---|
| `method`, `at`, `phase` | the method and where its handler is |
| `sys` | `arg->sys`, as a sequence of brackets, commas, keys and values |
| `leased`, `session` | `arg->pg`, and the session behind it |
| `minted`, `token` | the token in the answer; the one the client has |
| `check` | history: what `SE_parse_token` said, when, of which token |
| `committed`, `odd` | history: what became of the transaction; a result could not be written as it should |
| `now` | `time(NULL)` |

A result is its rows and columns and, for each cell, whether it is a plain value, an array of one
dimension, an array the code does not support, or a text that needs escapes. `IsJson` reads the
text as a client does. A token has the claims `expired` and `last`; when it was made and when its
chain began (`issued`, `login`) are a history. The user number has no bearing on either.

A request whose body is no JSON never reaches a handler (`SE_soap_print_fault`) and is left out.

### 2.5 StringBuilder

Every append function is a call: it asks for room, `enlargeStringBuilder` goes through its test, its
doublings and its `realloc` in steps, and the text is written; a formatted text is tried again until
it fits. `needed` and `newlen` are the `int32_t` variables. `touched` is the end of what was written,
so that a write beyond `maxlen` shows. "dead" is `abort`.

### 2.6 Base64, Params, Cells, Statement

Memory is counted in cells, of which a byte, a character and an `int32_t` take one each. A value is
a block: its size and its cells, with `Garbage` in the cells that were never written; a block written
beyond its end is longer than its size. `live` has the blocks that are allocated. The
`SEPQ_params_add` functions are told apart by kind: numbers, `BYTEA`, text, dates, `JSONB`, `UUID`,
arrays of fixed and of variable size. `Understood` is what PostgreSQL reads in the bytes it is sent,
and `given` what the handler had set. `Statement` adds the way back: a cell of the result, in a
session of some time zone, and what `SE_reader` shows of it (`Shown`), which `CellIsShown` compares
with the value (`RightlyShown`).

## 3. What is checked

| run | module, bounds | asks | answer |
|---|---|---|---|
| `service` | 3 clients and SE_stop's own call, 2 workers, 3 slots (2 usable), all failures, fair threads | `TypeOK`, `SoleOwner`, `NoneLost`, `NoMissedSignal`, `FreedAfterJoin`, `QueueSpec`, `QueuedServed`, `QuietStop` | hold, 279,701 states |
| `service_stop` | 1 client, 2 workers, no failures, fair threads | `StopCompletes` | violated |
| `pool` | 2 workers, 1 writable and 2 read-only connections (weights 1, 2, 1), recycled at every second use, fair workers | `TypeOK`, `LeasedOnce`, `FreeIsClean`, `LendingSpec`, `MutexGivenBack` | hold, 198,569 states |
| `pool_timeout` | 1 worker, recycling | `StatementEnds` | violated |
| `clusters` | up to 3 servers, `max_connection` up to 2, weights up to 3, numbers out of range and beyond `int32_t`: every such configuration | `TypeOK`, `AllOrNothing`, `RoundIsFair`, `CreditBounded` | hold, 432,539 states |
| `clusters_limits` | 2 servers with limits 1 or 3 | `OwnLimits` | violated |
| `requests` | all 13 methods, 7 kinds of results, `token_keep` of one tick, a life of three, time 0 to 5 | `TypeOK`, `PlainAnswerIsJson`, `NothingUncommittedIsTold`, `StatusTellsOutcome`, `AcceptedInTime`, `LendingSpec` | hold, 89,249 states |
| `requests_json` | the same, results that are plain, or have no rows | `RecordsetIsJson` | violated |
| `requests_renewal` | the same as `requests` | `RefusedOnlyWhenLate` | violated |
| `stringbuilder` | `MaxAllocSize` and `int32_t` scaled down, every length, every order of calls | `TypeOK`, `InBounds`, `NoOverflow`, `CallEnds` | hold, 267,921 states |
| `stringbuilder_limit` | the same | `ExitsOnlyPastMaxAlloc` | violated |
| `statement` | 2 parameters, each of every kind with regular and irregular values; about 100 cells in 4 time zones | `TypeOK`, `StaysInBlock`, `SentIsGiven`, `NothingFreedIsSent`, `NothingLeft`, `CellIsShown`, `NumericInBlock` | hold, 663,435 states |

**Why the bounds are enough.** Three clients and the wake-up call on a ring of two usable places
fill it, wrap it and make the listener retry; two workers are the smallest number for a signal to
reach the wrong one, for a worker to overtake a woken one, and for one to be busy while the other
waits. Two workers on three connections, one of them alone in its cluster, wait for each other where
both write, and pick busy connections and pay for them where both read; `MaxUse = 1` recycles at
every second use. What the run says of safety is proved for any number of workers. Three servers of two
connections give clusters of up to six connections, with ties, unequal weights and both kinds; the
numbers of `conf.json` reach past both ends of a range and past the width of an `int32_t`, which is
16 values there. The methods of `Requests` share no state but the session and the token, so that the
requests that matter are a login, a renewal and a third one; the clock runs past both ends of a
token's life between any two steps. In `StringBuilder` the constants keep the order of the real ones
(`2 * MaxAllocSize < INT_MAX`, `Least <= More`, the smallest buffer far below the limit), and every
length up to the longest is tried at every fill, so that each off-by-one has its length. Two
parameters are enough for a failing call to meet a value another call has made. A uuid of four bytes
of one digit has dashes, braces, and texts that are too short or broken in the middle; digits of
NUMERIC have two decimals, and weight and scale go past both ends of the digits; the dates lie on
both sides of 2000 and of the last one that fits, intervals on both sides of the last one whose hours
fit as seconds, one of them beyond the hours themselves; one time zone is not of whole minutes. No run
uses symmetry. A mutant of the code,
listed in `PROJECT.json`, breaks every property of every passing run, so none of them holds for lack
of the interesting case.

**Fairness.** Each thread gets weak fairness on its own steps: POSIX threads are scheduled, the
mutex is held for bounded sections only, and the listener's retry loop sleeps a millisecond and
tries again. Nothing is asked of clients, of the signal that stops the service, of failures (an
accept without a connection is not helped out by one that fails) or of spurious wake-ups. In `DbPool` getting the mutex is *not* fair, since `pthread_mutex_lock` does not
promise it; a statement ends only in a session that has its `statement_timeout`, and `MutexGivenBack`
supposes that none hangs for ever in another. In `StringBuilder`
a call that was made goes on; nobody has to make one. The other modules assume no fairness.

### 3.1 What the violated properties show

1. **`StopCompletes`** - `dequeue` looks at `isrun` only after a wait. A worker that serves during
   both broadcasts comes back to an empty queue, waits, and nobody signals again: `SE_stop` never
   returns (`core/se_service.c:193`). `QuietStop` shows the rest is right: when all workers wait, the
   service stops.
2. **`StatementEnds`** - `PQreset` loses the session's `statement_timeout` (`:741`).
3. **`RefusedOnlyWhenLate`** - a renewed token has no `last` claim (`core/se_utils.c:256`), and is
   refused at its first use. Nothing is accepted too late in consequence (`AcceptedInTime`): its
   mutant, which carries `last` over, breaks that property, since the expiry of a renewed token is
   `token_keep` added twice (`:310` and `:253`). Whoever repairs the one has to repair the other.
4. **`RecordsetIsJson`** - a query with columns and without rows loses the bracket that opens its
   record set (`core/se_pqbin.c:447`).
5. **`OwnLimits`** - the connections of a cluster, as many as the limits of its servers add up to, are
   dealt to them in turn (`core/se_service.c:350`): servers with a `max_connection` of 1 and 3 get two
   each. `ClustersKeepEqualLimits` proves that equal limits are kept.
6. **`ExitsOnlyPastMaxAlloc`** - `pg/stringbuilder.h:7-9` allows strings of up to 1 GB and lets the
   process end only for larger ones, or when `vsnprintf` fails. It also ends for an empty text
   (`pg/stringbuilder.c:51`), and, below the limit, for a JSON text, which asks for twice its length
   (`:191`), and for a formatted one whose length `vsnprintf` does not tell (`:42`). No caller passes an
   empty text, but a text of PostgreSQL may have half a gigabyte. `BuilderDiesOnlyWhenLarge` proves what
   is left of the promise: half of it. (The message is never seen: it reads the pointer that was just
   set to NULL, `:52-53`.)

### 3.2 Observations without a run

The models also contain these, which no document of the repository contradicts in so many words, or
which the properties above exclude by name.

- After a third attempt to allocate the wake-up call `SE_stop` frees the shared object without
  waiting for any thread (`core/se_service.c:657`), even if that attempt succeeded (`StopEarly`,
  `UseAfterFree`). `FreedAfterJoin` shows that the other ways out are safe.
- The listener reads `global_shared`, which `SE_start` sets after it has created the listener
  (`:616`); when the listener is first it exits, and the service never listens (`ListenEntry`).
- A session that was opened again is used `database_max_use_count` + 1 times: the test is `>`, and the
  use for which `PQreset` is called is not counted (`:740`-`:742`), although the comment there and
  `doc/conf.md:42` have the reset when the value is reached. `useCount`, which `TypeOK` bounds, is what
  the code counts, not what the session serves.
- The credits start at the weights instead of zero (`:278`): with weights 5, 1, 1, 1 five consecutive
  picks fall on the first connection, as in the plain weighted round-robin, not the smooth one.
- An integer of `conf.json` that is out of range by a multiple of 2^32 is accepted (`Int32`). Negative
  time limits, which `doc/conf.md` allows, are refused (`core/se_conf.c:358`). Host names, users,
  passwords and database names are cut to 16 characters (`:510`-`:528`).
- Text is escaped for quotes only (`pg/stringbuilder.c:194`), and `JSONB` ends in a NUL
  (`core/se_pqbin.c:416`), so that such an answer is no JSON (`Raw`, `"lines"`). An array that is not
  of one dimension, an empty one included, leaves an error with half a record set behind it (`:429`).
- Redirects have the status 302, where `doc/response.md` says 301.
- `string_to_uuid` is not asked whether it succeeded: a text that breaks off leaves zeros, or, in an
  array, what the element before had, or memory that was never written (`Parsed`, `Unknown`); 32
  digits without dashes are shorter than the 36 characters asked for and become zeros. Elements of a
  text array that are NULL or empty are counted but not written (`TextArray`).
- `pg_b64_decode` does not look at the bits behind the last byte of a padded text, so that several
  texts stand for the same bytes (`IsBase64`).
- Dates from January 2038 on overflow an `int32_t` (`core/se_pqbin.c:16`), and so do the seconds of the
  hours of an interval of 596,524 hours or more (`:151`), whose hours themselves are cut to 32 bits from
  2^31 on (`:149`). `infinity` is shown as a date like any other (`:57`). Before 2000 a fraction of a
  second rounds up; a clock before midnight has negative fields; the seconds of a time zone are not
  shown; `NaN` is shown as a number (`Representable` has all of them).
- Three error paths are simpler in the models than in the code, where nothing can reach the difference:
  `SE_b64soap_decrypt` writes no error when its constant cannot be decoded (`Prepare` always does);
  `get_str_from_var` may return NULL into `strlen` when there is no memory (`core/se_pqbin.c:372`-`:374`);
  and a `SEPQ_params_add` function given an index out of range reads `values[index]` on its error path.

## 4. What is proved

All theorems hold for every value of the constants allowed by the assumptions: any number of
connections, workers (at least one) and slots (at least two), failures or not; any finite clusters
and positive weights; answers of any number of rows, columns and array elements; texts, arrays and
numbers of any length. They assume no fairness.

| theorem | states |
|---|---|
| `TypeCorrect`, `OneOwner`, `NothingLost`, `SignalsReach`, `FreedLast` (`ServiceProofs`) | `Spec => []` of `TypeOK`, `SoleOwner`, `NoneLost`, `NoMissedSignal`, `FreedAfterJoin` |
| `RingRefinesLine` (`ServiceProofs`) | `Spec => QueueSpec`: the ring implements `RequestQueue` |
| `PoolTypeCorrect`, `PoolLeasedOnce`, `PoolFreeIsClean` (`DbPoolProofs`) | `Spec => []` of `TypeOK`, `LeasedOnce`, `FreeIsClean` |
| `PoolImplementsLending` (`DbPoolProofs`) | `Spec => LendingSpec`: the pool implements `ConnectionPool` |
| `ClustersTyped`, `ClustersWholeOrGone`, `ClustersDrawnFairly` (`ClustersProofs`) | `Spec => []` of `TypeOK`, `AllOrNothing`, `RoundIsFair` |
| `ClustersKeepEqualLimits` (`ClustersProofs`) | `Spec => [](EqualLimits => OwnLimits)`: limits that are the same for all servers of a kind are kept |
| `CreditsStayAbove`, `CreditsStayBelow` (`ClustersProofs`) | `Spec => []` of `CreditsAbove`, the lower half of `CreditBounded`, and of `CreditsBelow`: no credit exceeds `MaxWeight` times the sum of the weights |
| `RequestsTyped`, `TokensExpire`, `OnlyCommittedIsTold`, `StatusIsTrue`, `PlainAnswersAreJson` (`RequestsProofs`) | `Spec => []` of `TypeOK`, `AcceptedInTime`, `NothingUncommittedIsTold`, `StatusTellsOutcome`, `PlainAnswerIsJson` |
| `HandlersImplementLending` (`RequestsProofs`) | `Spec => LendingSpec`: the handlers implement `ConnectionPool` |
| `BuilderTypeCorrect`, `BuilderInBounds`, `BuilderNoOverflow`, `BuilderDiesOnlyWhenLarge` (`StringBuilderProofs`) | `Spec => []` of `TypeOK`, `InBounds`, `NoOverflow`, `DiesOnlyWhenLarge` |
| `StatementTyped`, `StatementStaysInBlock`, `StatementSendsLive`, `StatementLeavesNothing`, `StatementSendsGiven`, `StatementNumberInBlock`, `StatementShowsCells` (`StatementProofs`) | `StatementSpec => []` of `TypeOK`, `StaysInBlock`, `NothingFreedIsSent`, `NothingLeft`, `SentIsGiven`, `NumericInBlock`, `CellIsShown` |

**Induction.** The library's induction theorems take an operator as a parameter, which no installed
prover can instantiate, and yet most of what is above is about folds: sums over a cluster, a text that
is read sign by sign, bytes gathered from symbols. `SharedFacts` gets there in first-order steps. Of
the numbers at which a set or a function fails there is a least one (`LeastSet`, `LeastNumber`,
`UpFromZero`), and of the subsets at which a sum fails one of the least size (`SetInduction`); each
fold is then shown to be the end of a *run*, a function on `0 .. n` each of whose values is the step of
the one before (`FoldExists`, `FoldsAgree`), and the lemma that is wanted climbs the run. Since an
operator cannot be handed to such a lemma, every operator that is folded has a run lemma of its own
(`ReadsRun`, `CellsRun`, `RowsRun`, `SymbolsRun`, `FlattenRun`), which is why they look alike.

**Service.** The properties are not inductive: that a connection is not duplicated depends on
`Serve` finding a worker that has one, on the listener having nothing in hand when it accepts, on
the main thread having called its own port once. `IInv` adds what the program counters say about the
data: `MainInv` (how far `SE_start` and `SE_stop` are: who may still be running, whether `isrun` may
be set), `PoolInv` (workers are created and joined from 0 up, a serving worker has a connection),
`NetInv` (when the socket listens, what the listener's copy of `isrun` says). The proof of `SoleOwner`
goes by where a connection is: all steps but `Accept`, `Enqueue`, the dequeues and `Serve` leave every
place alone (lemma `Moves`), and these four move one connection from one place to the next
(`AcceptMoves`, `EnqueueMoves`, `DequeueMoves`, `ServeMoves`, on top of `RingEnqueue` and
`RingDequeue` about the ring itself). `NoMissedSignal` and `FreedAfterJoin` are inductive relative to
`IInv`. For the refinement the ring is read off as a sequence (`Read`), and the lemmas `ReadAppend` and
`ReadTail` show that an enqueue appends to it and a dequeue takes its head, through the wrap-around;
all other steps stutter.

**DbPool.** `PoolInv` joins to `LeasedOnce` and `FreeIsClean` that a worker has a connection exactly
between `Take` and `Release` (`LeaseInv`) and that its session has no open transaction outside
`"working"` and `"failing"` (`SessionInv`); then the unprotected `isuse = false` is safe because only
the worker that has the connection can be at `Release`. `RichestExists` shows that the loop of
`get_next_dbserver_index` ends on a connection of the cluster, by taking a maximum over a finite set.
The refinement needs no more: `Take` is a `Lend`, the steps of a handler are `Use`, `Release` is a
`GiveBack`, and everything about the mutex and the picks stutters.

**Clusters.** `Staged` says how complete the clusters are at each stage; only that sums of limits
stay the same while the servers do is needed for `AllOrNothing` (`SameLimits`). The others need
`IndInv`, which says where each connection came from and where the round is. `ClustersKeepEqualLimits`
is a fact about remainders: the connection number `i` belongs to the server `i % size`
(`LoadByRemainder`), of the first `size * m` numbers no remainder has more than `m` (`RemaindersFew`),
and `size * m` is what equal limits add up to (`SumOfEqual`).
`RoundIsFair` needs an invariant of the picks inside a round: `InRound` says that each credit is what
it was when the round began, plus a weight for each pick of the round, minus the sum of the weights
for each time this connection was picked, that they add up to the sum of weights, and that a
connection was picked no more often than its weight (`RoundStarts`, `RoundAdvances`, `RoundEnds`): the
richest one has a positive credit since the sum is positive, and a connection that was picked as often
as its weight has none. At the end of a round every credit is back where it began. That no credit ever
falls so low as the negative sum (`CreditsAbove`) follows from the same, and so does that none climbs
above what a connection of the largest weight earns in a round (`CreditsBelow`): with weights up to
100 that is in the range of `int32_t` for 200 servers of 1024 connections each. That none climbs to
twice the sum is a bound on how long the greedy choice can pass one connection over, which is left to
TLC.

**Requests.** The invariant has four parts: where a handler is in its steps (`Progress`), which tells
that a transaction is open exactly between its BEGIN and its COMMIT (`InTransaction`), that a record
set or token is in the answer only behind those steps and is gone when the handler fails (`Told`),
and what the claims of a token say of its making (`Claims`: a token that still has a `last` has the
claims it was given at login, `expired` one `token_keep` after `issued` and `last` one life after
`login`). The lemmas `StepsAre` and `StepsInOrder` give the steps of each handler and their order.

The two properties of the answer rest on a second invariant, `Tells`: what is in `arg->sys` at each
step of a handler, told by how a client would read it so far. `Reach(status, text, expect, opens)` of
`AnswerProofs` says that the reader, after this text, has this status, expects that sign next and has
these brackets open. Each writing function of the code then has a lemma that takes a text from one
reach to the next: an element of an array (`ListReached`), a cell (`CellReached`), a row
(`RowReached`), a record set (`RecordsetReached`), a member of the object (`MemberReached`), the end
(`ClosedReached`). The comma that is written behind every element and taken away before the closing
bracket is where they meet: what `Closed` gets is a text that ends in a comma and expects a key, or one
that does not and expects a comma (`Closable`), and it makes a whole of both. `Tells` says nothing of a
text in which a result could not be written as it should (`odd`), because the code does not either; but
a step that fails sets the text to an error, which can be closed whatever was there before
(`FailingTold`, `ErrorsAreClosable`).

**StringBuilder.** `BuilderInv` says what each place of a call knows: how far what is asked for may be
above the limit (`RoomInv`), that `newlen` is at most twice `MaxAllocSize` while it is doubled, and
that a text that is being written was given room; `LargeInv` that only a text which would take half of
`MaxAllocSize` asks for more than there is, which needs the loop of `pvsnprintf` to ask for at most
twice what it tried.

**Statement.** A value that is set stays live until the handler fails or is over, because the error
path that releases a value also ends the handler (`AddFails`); and whatever `live` holds while
parameters are added is in the frame, a value that is set, or not theirs (`ParamsInv`). `FilledInv`
says of every value that it fits: its block is as long as it was made, and the length that is sent is a
number within it (`Fits`). That this holds for every call is `MadeFits`, with a lemma per way of
making a value. The interesting ones are `DecodeFits`, that base64 gives at most three bytes for four
symbols, padding or not (so that the estimate of `pg_b64_dec_len` is enough, and the result is -1 or a
number), and `FlattenFits`, that texts one behind the other are no longer than the sum of their bounds
(so that what the first loop of an array measures is enough for what the second one writes, elements
that are passed over included). `NumberFits` adds up the sign, the digits before the point without
their zeros, the point, and the decimals up to the next full digit.

`StatementSendsGiven` says that PostgreSQL reads what the handler set. `GivenInv` is the invariant:
the value and the length of every parameter that was set are those its call makes, and a statement is
sent when all are set. `CallReceived` is then about one call of each kind. Of texts, dates, numbers and
`JSONB` it is that the bytes in question come first in the block and the length counts no more than
them (`SentStart`). `DecodesBack` inverts base64: read from left to right, the decoder holds after
every quad the bytes of those before it (`QuadAlong`), from whose 24 bits the four symbols come back
(`SymbolsBack`), and the padding of the last quad tells which bytes are there (`EndPadded`).
`UuidBack` follows `string_to_uuid` through a text with its dashes behind any even numbers of bytes,
which the 8-4-4-4-12 of a uuid is one way of, and shows that what the variable held before does not
matter. `ElementsBack` finds the elements of an array one behind the other, whatever their bytes are,
and `ArrayBack` joins it with the lengths measured (`PlacedLength`). The proof corrected the property:
a text that ends in a padded quad with bits set behind its last byte is decoded without complaint but
is not what those bytes are encoded as, so that it is not base64 in the sense of `IsBase64`.

`StatementShowsCells` says that the text is the right one. A NUMERIC comes in digits of several
decimals, and a reader goes by the place of a decimal: `DecimalOf` says which digit a place belongs
to, on the two sides of the point, where the division of a negative place rounds down; `GroupsRead`
that a row of digits written out has at each place the decimal of that place, the digits that are not
there being zeros. `TrimmedIs` says how many zeros go from the front, at most those of the first
digit, `WholeReads` that the rest is what a reader expects before the point, and `FractionReads` that
the decimals behind it are, although they are written by whole digits and cut afterwards; `NumberReads`
puts sign, whole part, point and fraction one behind the other. Of dates and times the crux is C's
division, which goes towards zero: it is the clock's wherever `Representable` holds (`QuotIsDiv`), the
hours, minutes and seconds of a time add up to it as long as those of its hours fit an `int32_t`
(`FieldsAddUp`, `WrapKeeps`: nothing that fits is changed by the conversions), a zone comes back from the hours
and minutes that show it, west of Greenwich too (`ZoneReadBack`), and a date that fits an `int32_t` of
seconds has one day (`DayIsRight`).

**Assumptions.** `ServiceAssumption`, `DbPoolAssumption`, `ClustersAssumption` and
`RequestsAssumption` restate what the configuration guarantees (`pool` from 1, `queue_max` from 1024,
a writable server, `token_keep` from 20 minutes to two hours); the last also that a result has the
shape libpq gives it, every row having a cell for every column. `StringBuilderAssumption` is the order of
the constants of `pg/stringbuilder.c`. `ParamsAssumption` and `CellsAssumption` say that sizes are
numbers, the second that an `int32_t` holds the seconds of a minute; the first also that a call has
data of its kind (a number has bytes, NULL has no element, an array any number of them and all others
one), which the C types of the `SEPQ_params_add` functions see to. `ResultsAssumption` says that a NUMERIC
comes as PostgreSQL's `numeric_send` puts it in its 16 bits: in digits of `DEC_DIGITS` decimals, the
first of which is not zero, with a scale that is not negative, and zero without digits; that the other
values are integers; and that the time of a day is not negative. Nothing else is assumed of calls or results. TLC evaluates all of
them.

**Only model-checked:** the liveness properties, which need fairness and `ENABLED`, out of this
prover's reach; and the upper half of `CreditBounded`, that no credit exceeds twice the sum of the
weights: it is not inductive, and how high a credit gets follows from the order of a whole round. The
violated properties of section 3.1 are counterexamples TLC finds, and there is nothing to prove.

## 5. Not modelled, and what is left

- **gSOAP** (`src/gsoap`): nine tenths of the lines of this tree, a vendored library and the code its
  generator wrote. `soap_accept`, `soap_bind`, `soap_malloc`, `soap_dealloc` and `soap_end` enter
  `Service` and `Params` as what their callers see; a model of the library would be one of another
  project. A large share of the tree is therefore outside these modules, whatever they cover of the
  program's own files.
- **libjwt, aes, argparse, PostgreSQL's headers and erand48**: vendored. Of libjwt the models use that a
  missing claim is an error and a forged token does not decode.
- **CRC, UTF-8 counting, byte swapping** (`core/se_crc.c`, `core/se_std.c`, `pg/pg_bswap.h`): pure
  functions on bytes, or tables of constants, on which no state depends.
- **The root node of `conf.json`**: a list of range checks, which are the assumptions on the constants.
  Connection parameters are strings, and PostgreSQL decides about them.
- **The SQL functions** of the sample handlers run in PostgreSQL.
- **`main.c`'s `sleep(500)`** and everything about elapsed time but the life of a token.
- Integers, floats and money in `SE_reader` go through `printf` and are values of `Answer`. Money is
  sent as an integer of cents and shown divided by a hundred.
- The messages of libpq are taken to be free of backslashes and control characters but the line end
  they close with; no caller passes an empty text to an append function that would end the process.

What could still be added: a single model of the mutex with both of its users, `Service` and `DbPool`,
which today meet in the argument of section 2.2.
