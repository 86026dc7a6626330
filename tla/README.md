# Verification of guardkit/api_test

TLA+ modules that model the parts of this repository where concurrency and
failure decide whether it is right, the TLC runs that check them on small
instances, and theorems TLAPS proves for instances of any size.

## 1. The system

The repository is a FastAPI service over one PostgreSQL table (`src/src`), and
the scripts that build, check, promote and roll back its containers (`deploy`).
Around them are the migrations (`alembic`), the quality gates (`qa`), feature
files, documents and tests.

| Component | State it keeps | Operations | Interacts with |
|---|---|---|---|
| Users CRUD and routes (`users/router.py`, `users/crud.py`, `db/session.py`) | the `users` table; per request, a session: one transaction, an identity map, unflushed changes | create, get, get by email, update, deactivate, delete, delete by email; list, count, recent, summary | PostgreSQL, through one connection per request; Redis |
| User summary cache (`users/router.py:46-94, 372-442`) | one Redis entry per user, for 300 s | write on every read, read when the database fails | the routes that change users never touch it |
| Listing, counting, search, analytics | none | read-only queries, some over today's date taken before; a page and its total are two reads | the table |
| Engine and pool (`db/session.py`) | the global engine; connections checked out | create, hand out, dispose | every request, the lifespan of the application |
| Middleware, ETag (`core/`) | none of its own | wrap each response: correlation id, statistics, log, version header, conditional answers | every route |
| Request statistics (`stats/router.py`) | a counter and a first-request stamp under a lock | increment, read | middleware, one route |
| Health, readiness, version, time, uptime, whoami | none | one statement or none | PostgreSQL |
| Validation, domain extraction | none | pure functions on strings | schemas, routes |
| Migrations, container start (`alembic`, `docker-entrypoint.sh`) | the schema and `alembic_version`, in a database whose data directory is a tmpfs | upgrade before the server starts | PostgreSQL, the image that is brought up |
| Deploy script (`deploy/deploy.sh`) | Docker's: image tags, the live project, candidate projects | normal, revert, candidate, promote, running identity, candidate down, sweep | Docker, the health route, forge, which runs it |
| Sandbox deploy, sandbox runner | staged checkouts behind a stamp, a virtual environment, two processes | stage, install, supervise | git, deploy.sh |
| Quality gates (`qa/gates`, `qa/smoke`, `qa/dcl-spike`) | the answers a program has so far | ask a running copy a few requests, compare, say a verdict | the routes, from outside; the copy may be replaced meanwhile |
| Whole-feature check (`qa/feature-check.sh`, `feature_check_twins.py`) | per run: a container, a port, a directory, what was covered and what was not | sweep, read the record, start database and app, run twins, observe, report | Docker, ports and process ids shared with other runs |

**What is hard here.** A request is a coroutine that gives up control at every
awaited statement. Between the statement that read a row and the statement that
writes it, any other request may commit. A writer holds its row, and its unique
email, until it commits, so requests wait on each other. A commit may succeed and
its acknowledgement be lost. The deploy script is a sequence of docker commands
that shares tags, one live project and one candidate port with every other leg
forge starts, and that can end after any command with what it did left done; so is
the whole-feature check, whose runs know each other only by the process ids in the
names of containers. A gate compares answers between which the copy it asks may have
been replaced, migrated or left with an empty database. The hazards, each at its line and with the properties that cover it, are in
`PROJECT.json`.

**What makes each component correct.**

- Users: emails are unique; a deactivation is claimed once; an answer is true of
  the account at some moment of the request; a delete is final; a write changes
  only what its request named; every request ends.
- Summary cache: a summary is one the account had during the request or, when the
  database failed, once; a user is reported absent only if it is, or the database
  failed; entries go back only by overlapping stores.
- Listing, counting, analytics: a page agrees with its total unless a user was deleted
  in between; what separate routes say of one table agrees; domains are those of the
  emails; a day's count is never taken back; each path reaches the route written for it.
- Migrations and the application's life: `alembic_version` is what the tables are,
  whoever died on the way; a process has its tables from the commit of its migrations on,
  and is refused only by what a later image's have left.
- Quality gates: green means an answer to each request, and of one process or one
  database where answers are compared.
- Whole-feature check: what a line covers was proved, no scenario is left out, a run
  leaves nothing behind and takes nothing from a live one.
- Engine: no request uses a disposed engine; the pool's limit is respected and its
  waits end.
- Middleware: a response is counted, logged and named once, as what it was; a 304 stands
  for the copy the client has.
- Deploy: a build is named only for the image that was checked as that build;
  "none" is said only while nothing runs; a check is not disturbed by another
  build's; a revert brings back an image that worked.
- Sandbox runner: a half-made stage is never taken for a finished one; a service
  that ends is started again.

## 2. The modules

| Module | What it is |
|---|---|
| `UserRows` | the data: rows, tables, routes, status codes, the effect of one write on a table, the unique constraint |
| `AccountStore` | abstract specification of the users API: between its arrival and its answer a request makes at most one change, in one step |
| `Users` | the handlers, one action per awaited statement, with transactions, row locks, the unique index, failures and lost acknowledgements; `ImplementsStore` maps it to `AccountStore` |
| `UsersInvariant` | an inductive invariant of `Users`, in named parts |
| `UsersProofs` | its proof, the theorems that follow from it, and the step simulation of `AccountStore` |
| `MCUsers` | small instances of `Users` |
| `Deploy` | `deploy.sh`: any number of legs, one action per docker command or group of queries |
| `DeployInvariant` | an inductive invariant of `Deploy`, in named parts |
| `DeployProofs` | its proof, and the theorems that follow from it |
| `MCDeploy` | small instances of `Deploy` |
| `UserReads` | the reads of the users API that take several steps: the summary with its Redis entry, the list with its total, and the pool they share |
| `UserReadsInvariant` | two inductive invariants of `UserReads`, in named parts: of one request, and of what requests owe to earlier ones |
| `UserReadsProofs` | their proofs, and the theorems that follow from them |
| `MCUserReads` | a small instance of `UserReads` |
| `Queries` | the routes that answer from one or two statements: lists, counts, domains, analytics, search; the order of the routes and the checks of their parameters |
| `QueriesProofs` | proofs about `Queries`, with an induction for sums |
| `MCQueries` | a small instance of `Queries` |
| `Middleware` | the five layers between a client and a route, in the order they run |
| `MiddlewareInvariant` | an inductive invariant of `Middleware`, in named parts |
| `MiddlewareProofs` | its proof, and the theorems that follow from it |
| `MCMiddleware` | a small instance of it |
| `SandboxStage` | `sandbox-runner.sh`, steps 1 to 4: copies, stamps, venv, install, cut at any command and run again |
| `SandboxRunner` | step 5 on top of it: the two services, their restart, the stop signal |
| `SandboxInvariant` | an inductive invariant of `SandboxRunner`, in named parts |
| `SandboxProofs` | its proof, and the theorems that follow from it |
| `MCSandbox` | small instances of it |
| `Lifecycle` | one compose project: the database on its tmpfs, the app container, its migrations and its engine |
| `LiveGates` | on top of it, the programs that ask a running copy and say a verdict |
| `LiveGatesInvariant` | an inductive invariant of `LiveGates`, and with it of `Lifecycle` |
| `LiveGatesProofs` | its proof, and the theorems that follow from it |
| `MCLiveGates` | a small instance of them |
| `FeatureCheck` | the whole-feature check: any number of runs on one machine, one action per step of the script, its helper's rules as operators |
| `FeatureCheckProofs` | two inductive invariants, of who owns what and of what is reported, their proofs and the theorems that follow from them |
| `MCFeatureCheck` | a small instance of `FeatureCheck` |

### Users

`users` is the committed table. A request `r` runs handler `op[r]` and awaits the
statement `pc[r]` next; `uid[r]` and `arg[r]` are its path parameter and its body
or query; `seen[r]` is the ORM object it has loaded, `patch[r]` the columns it has
flushed and not committed, `resp[r]` the status code it was answered.

- A row keeps `email`, `is_active` and `deleted_at`, the columns the handlers
  branch on. A timestamp is the request that took it, so that two are distinct.
  `full_name`, `domain` and the other timestamps are left out: no modelled
  handler reads them to decide anything.
- READ COMMITTED: a statement sees the table as committed. A write waits for a
  transaction that holds its row (`RowBusy`) or a row that carries or carried its
  email (`EmailBusy`), as PostgreSQL does, and holds both until it ends. The
  guarded UPDATE of `deactivate_user` evaluates its WHERE clause after the wait.
- The UPDATE of a PUT takes the two one after the other: `FlushUpdate` locks the row,
  and `EnterIndex`, where the email changes, waits in the unique index with the row
  locked. Two PUTs that exchange their emails so wait for each other (`Deadlocked`),
  until the database aborts one of them (`BreakDeadlock`), as its deadlock detector does.
- The flush of an update writes the attributes that differ from the loaded ones
  (`NetChange`), as the ORM does. `db.refresh` before the commit reads the
  request's own row and cannot change its answer; it is part of the flush.
- DELETE by email finds the row, reads it again by id within the same session
  (whose identity map keeps the first object) and then stamps it.
- `Fail` is any statement that fails (connection lost, pool timeout) or a process that
  dies; `CommitUnacknowledged` is a commit whose outcome nobody learns. Both roll back or
  keep exactly what the database would. The code answers 503 where the route catches `SQLAlchemyError` and lets
  it through as a 500 in the two routes that do not (`ErrorCode`).
- `before[r]`, `was[r]` and `applied` are history: who had been answered when `r`
  was sent, the statuses its row has had since, and whose write was committed.
  No guard of a handler reads them.

### Deploy

`appTag`, `rollbackTag`, `candTag` and `pin` are the four kinds of tags, `live`
and `cand` the containers that are up. A leg `p` runs in `mode[p]` for `build[p]`
(DEPLOY_IDENTITY) and `artifact[p]` (DEPLOY_ARTIFACT); `cid[p]` is the container
it has looked at, `answered[p]` the one that answered its health check, and `said[p]`
the line it printed for forge.

- Docker and Compose are external and modelled by what the script relies on:
  `up` replaces a container whose image changed and keeps it otherwise, the
  candidate port belongs to one container, an image id cannot be moved. `up` first
  removes the old container (`RemoveLive`, `RemoveCandidate`) and then creates the new
  one (`UpLive`, `UpCandidate`): a leg may end in between, and leave none.
- A container may end by itself (`Exit`), and stays there until an `up` starts it
  again: `docker-compose.yml` gives the app no restart policy. `ps -q` lists what runs
  (`LiveRuns`, `Runs`). `exited` and `restarted` say which have.
- Every query that fails, every command that fails under `set -e`, a health wait
  that times out and a killed script is `Die`: the leg ends with what it did left
  done. The two places where the script goes on after a failure (`|| true` on the
  snapshot and on the sweep's listing) are disjuncts of `Snapshot` and `Find`.
- `Start` lets a promote have an artifact only when a check has printed it for
  that build: that is what forge hands over (`deploy.sh:488-500`).
- `TokenOf` is the result of `candidate_token` on each identity. The script does
  not promise that two identities have two tokens; `ChecksUndisturbed` needs it
  and the run gives each build its own.

### UserReads

A request's content is a number: the write that made it. `ver` and `gone` are the
table as the commits of `Users` leave it, `cache` the Redis entries, `held` the
connections of the pool that are out.

- A summary reads its user (`ReadUser`), sets the Redis entry (`Store`, or
  `StoreFails`: the route swallows what Redis raises) and answers; when the
  database fails it it answers from the entry or with a 404 (`Fallback`). The list
  reads its page and then its total (`ReadPage`, `ReadTotal`).
- A connection is taken by the first statement and given back when the answer is
  given (`End`), so a summary that waits for Redis keeps one. The pool's limit is
  `PoolLimit`; `Timeout` is its `db_pool_timeout`.
- `seen[r]` is history: what its user has been since request `r` came, 0 for one that is
  not there; `thinned` are the lists between whose two statements a user was deleted.
- `Raise` is what no route catches, a refused connection (`OSError`): a 500.
- `Redis` has no fairness: its client is made without a timeout. `ReadsEnd`
  therefore lets a summary wait for Redis, and says that nobody else waits with it.

### Middleware

`Registered` is the order of `main.py`, `Stack` the order in which the layers run.
Request `r` is at `depth[r]`, on its `way[r]` in, out, or up as an exception;
`reply[r]` is the response it carries out and `ctx[r]` the correlation id its
context has at each depth: a layer calls the next one in a task with a copy of its
context, so what an inner layer binds an outer one never sees. A body stands for
its JSON. The routes are the four whose answers the properties compare: an account,
its removal, `/stats`, `/health`. The first may answer 503 (`Unavailable`), with a body of
its own (`Down`) that gets an ETag like any other; the second raises instead, as it
catches nothing. A client sends any tag it may have had of the account, of an earlier
503, the wildcard, or bytes that are not UTF-8.

### SandboxStage and SandboxRunner

A copy, a stamp or an installed package is the commit it was made from, `Absent`, or
`Partial`. `Move` is somebody working in a mounted checkout, whether or not the script
runs: it takes its HEAD to any commit, an earlier one included, since the mounts are live
checkouts. `was`, `returned` and `reverted` are history: the HEADs a mount has had since
this run read one, the mounts whose HEAD came back to the commit of a stamp whose copy was
another's or was being replaced, and whether one came back so to what the install's
stamp names. `Cut` ends a run at any command, by `set -e`, a kill
or the bootstrap-only setting, and leaves half of what that command does; `Enter`
starts it again on what is there. The script installs the first two packages with
one command and the others in a fixed order; the model takes the checkouts one by
one in any order, of copies and installs alike.

`SandboxRunner` extends it with `proc`, the last process of each service, `pid`,
whether the script's variable names that process, and `step`. A signal for the
script is heeded between two commands (`stop`, then `Trap`). bash is modelled by
what it was seen to do: `wait -n` reports children that ended, earlier ones
included, but not one that a signal killed while the foreground `sleep` ran.

### Queries

`row` is the users table with the columns these routes read. An OFFSET and a LIMIT without
an ORDER BY return any rows of the right number (`get_users`): PostgreSQL promises no order
between two such statements, not even on a table at rest. `now` is counted in halves of a
day. Each statement of `crud.py`, `analytics_crud.py` and `search/router.py` is an operator
of its source's name.

- A route with one statement answers in one step (`AnswerOne`); the two that take the
  date first (`TakeDate`) and the two with a page and a total (`ReadPage`) are under way
  in `req` while writers commit or midnight passes.
- `HandlerOf` is Starlette's choice among the `Routes` in the order of `main.py`;
  a request is answered by the operator of its path only if that choice is its route.
  Parameters that `validators.py` refuses are `RefuseRead`; a negative `skip` is not
  checked, PostgreSQL refuses it and the client gets a 503 (`Fail`).
- An email is its domain: plain, or internationalised, which `EmailStr` stores as
  Unicode and `extract_domain` refuses.
- `newer` is history: the users created since the request under way read its page.

### Lifecycle and LiveGates

`db` is the database with its `life` (a tmpfs starts empty), `tx` the one transaction of
alembic's `env.py`, `app` the container with its image, its step and its engine.
`Upgrade` is a revision's `upgrade()` and `Stamp` its row in `alembic_version`; `Commit`
ends the transaction. Only then does alembic end and uvicorn take its place, whose lifespan
makes the engine (`Serve`): a container that dies in between, or whose app does not
start, leaves the schema of an image that never served. `left` is history: the images
whose migrations were committed. `Up` replaces a
container, as deploys and reverts do; uvicorn ends its requests before the lifespan
disposes of the engine, so that no request meets a disposed one. `BeginUpgrade`
refuses a version the image does not know.

`LiveGates` extends it with a program that has `gate.got` answers of its `Script` and
then a verdict. A request is handled and its answer taken or lost (`Ask`), or it
reaches nobody (`AskNobody`). `Handled` is what the routes answer; a conditional
request goes through the etag layer (`Matched`). A verdict is an operator with the name
of the program's main; `GivesUp` has the exits on the way. An answer carries the process
and the database it comes from for the properties only.

### FeatureCheck

`check[r]` is run `r` with its step `at`, what it has still to do (`left`, `plan`) and
what it will say (`named`, `passed`, `failed`); `containers`, `listening` and `dirs` are
the machine. `plan` is the set of places in the record whose twins are still to run, and
`named` the not-checked file: the names on its lines, of which `read_not_checked` keeps the
first where some differ in case only. A container's name is the candidate's sha and the run's process id, and
`Pid` gives two runs one process id when the first is gone. `Kill` is SIGKILL at
any step, which no trap sees. A run that cannot enter its worktree says nothing
(`CannotEnter`), and a line is printed only if the helper succeeds, which the script does
not look at (`Printed`). The helper's rules are operators: which twin covers a
scenario (`TwinOf`), which names are not checked, which gate file names the feature's
entry point, which published call makes records.

## 3. What the runs check

| Run | Instance | Shows |
|---|---|---|
| `users_row` | 3 requests, 1 account, every route but GET by email | a deactivation is claimed once per activation, answers are justified, deletes are final, created accounts are found, only named columns change, and the handlers implement `AccountStore` |
| `users_live` | 2 requests, 2 accounts, 2 emails, PUT bodies with changed, unset and null fields | every request that is in ends, two that exchange their emails included; no duplicate email is ever stored; the type invariant and NOT NULL |
| `users_double_delete` | 2 requests, 1 account | a disagreement: two racing deletes are both answered 204 |
| `deploy_legs` | 3 legs of any mode, 2 builds, 2 healthy images and a bad one | checks, promotes and queries name only what was checked; tags and containers agree; none means that nothing runs |
| `deploy_rollback` | 2 legs, 1 build | a disagreement: the image kept for a revert may be the one that failed |
| `user_reads` | 3 reads, 1 account of up to 2 contents, 2 connections, pages of 1 | summaries and 404s are justified, a deleted user is a 404, the cache goes back only by overlapping stores, a page exceeds its total only after a delete in between, every read ends |
| `middleware` | 2 requests of 4 kinds, every `If-None-Match`, ids sent or generated | 200 and 404 are true of the account during the request, and a 304 stands for the client's copy; `/stats` counts who came; the log tells what became of each request; headers |
| `middleware_malformed` | the same | a disagreement: an `If-None-Match` that is not UTF-8 gets a 500 |
| `sandbox_runner` | 2 mounts, 2 commits, 3 moves of a HEAD in any direction, 2 services, 2 ends of a service | services start only from a whole install of what the run saw, unless a HEAD came back to a stamp's commit; exited services come back; a stop signal ends everything |
| `queries` | 3 users, one with an internationalised email, 2 days, pages of up to 2, parameters inside, at and outside their limits | counts, domains, analytics and search of separate routes agree; a short page is the last; each path reaches its route; a day's count is never taken back |
| `feature_check` | 3 runs of 2 candidates, two of them with one process id, 2 ports, 3 twins | what is covered was proved; no line leaves a scenario out; a run leaves nothing and takes nothing from a live one |
| `live_gates` | 2 images with and without the last migration, 2 databases, 2 containers, 2 programs, 1 twin | tables and `alembic_version` agree; an image is refused only by what a later one left; green comes from one process or one database |

**Why the bounds are enough.** A request takes part in one transaction on one row,
so a race has two writers and someone who observes: three requests. Which row is
irrelevant to the properties about one account; the ones about emails need a
second row and a second email, so that an address can be released by one row and
taken by another. Init starts from every table the earlier requests of a longer
history could leave: rows that are active, inactive, deleted or absent. For
liveness two requests suffice to wait on each other, and both are given rows and
emails in either order. Three legs suffice for a check that is disturbed by a
second leg and reported to a third; the third image makes "the image of another
build" and "a bad image" differ. Symmetry is used for safety only.

Three reads are one that answers, one that stores an older summary over it and one
that is served it; with two connections the third must wait. Two contents and a
deletion make every kind of stale answer. In `Middleware` a race has two requests,
and `Change` stands for all others. Two mounts make "one copied, the other not",
and two commits and three moves (`MaxMoves`) let a HEAD go to the other commit, back and
there again, while it is copied and before the next run; `MaxEnds` bounds how often
services end, so that each may end while the script pauses for the other.

Three users make the counts differ in who is deleted, inactive or created on another day,
leave somebody out of a page of two, and let one be created and one deleted between the
two statements of a list. An answer is read only in the step that gives it, so that the
view of the instance leaves `ans` out; action properties are checked on every step all the
same. The clock runs from the noon
of one day over two midnights, with a window of two days, so that users fall out of it.
The third run of `feature_check` has the process id of the first, the second is another
candidate whose app fails what the first's does: with two ports one may take over the
other's. The record has a scenario for each rule of the helper. In `live_gates` two
databases and two containers make every replacement, in either order of the images,
and two programs let one meet the user of the other; `MaxServed` bounds requests of one
process at six, the length of the longest script.

**Fairness.** `FairSpec` asks for weak fairness of `Proceed(r)` of each request:
the event loop runs every task that can run, a statement and its wait for a
connection are bounded (`db_pool_timeout`), and PostgreSQL looks for a deadlock after
`deadlock_timeout` and breaks what it finds (`BreakDeadlock` is part of `Proceed`): without
it `EveryRequestEnds` fails. Requests need not arrive and failures need not happen, so no property
holds thanks to either. The deploy legs have no liveness property: nothing obliges
forge to start one. `UserReads` asks it of the statements of each request and of
the pool's wait, not of Redis. `SandboxRunner` asks it of the script's next command
and of a service that is sent TERM: every command ends, the pause included, and
nobody has to start the script, move a HEAD or end a service. `Queries`, `FeatureCheck`
and `LiveGates` state none and have no liveness property.

**Deadlock** is checked in every run but two. `Finished` is the only step of a system
whose requests or legs have all ended; the sandbox can always be entered again. The
two are `feature_check`, where every run is over or killed in the end, and `live_gates`,
where all containers, databases and programs may have been used up.

## 4. Disagreements between the code and what is said of it

With a run that shows each:

- `crud.delete_user` says it "prevents double-delete" and `docs/API.md:1024` that
  deleting a deleted user gives 404. The check is made on an object read before
  the write, and the UPDATE does not repeat it: two deletes in a race both get 204
  and the later stamp replaces the earlier one. The account is deleted all the
  same (`DeleteIsFinal` holds).
- `deploy.sh` snapshots the rollback image off the live tag. A deploy that failed
  or died has already moved that tag, and the next deploy keeps the bad image in
  place of the good one: the image a revert serves need not be the "known-good
  image" of `deploy.sh:298` and `profile.yaml:106`.
- `etag.py:78` and the table at `docs/API.md:860` say that a malformed
  `If-None-Match` gets the full resource. The branch that handles one logs a
  warning with an argument `logging` does not take, and the `TypeError` makes it a
  500. The tests send odd but decodable headers, which never reach the branch.

In the models, but not given a run:

- `crud.deactivate_user` marks its last 404 as unreachable, "the claim just
  matched this row". The row is read again after the commit, in a new transaction,
  and a delete may have come first (`Users`): the deactivation took effect and its
  client is told 404.
- `middleware.py:105` binds the id "for all logs in this request" and
  `test_middleware.py:275` expects it in the request log. The log layer runs outside
  of the layer that binds it, so `Write` never has one.
- `sandbox-runner.sh:52` says a service that "exits is started again". bash forgets
  a child that a signal killed while the script pauses for the other service
  (observed with bash 5.2); `wait -n` then never names it.
- `sandbox-runner.sh:143` keeps a copy only if it "was made from that same commit". The
  stamp is written last and never removed first (lines 150, 155-158): when a run is cut
  while it copies another commit, or HEAD moves between the two times it is read, and HEAD
  is then switched back, the broken or other copy passes for the stamp's commit
  (`returned`). In the same way an install broken off for B passes for A's (line 188,
  `reverted`). The properties name these cases and allow no other.
- A revert brings back an image over the schema that a failed one has left. If that one
  added a revision, alembic refuses to start (`refused`), where `deploy/profile.yaml:106`
  says that re-serving the image brings the known-good build back up. The failed one need
  not have served: its migrations are committed before uvicorn starts
  (`docker-entrypoint.sh:9-12`).
- `deploy.sh:407-443` says "none" of what does not run: also while a live leg replaces the
  container, after one was cut off there, and when the app has exited, although a live leg
  has come up before. `NoneMeansDown` says when.
- A candidate that had exited and was started again by another check of its build, while
  the first waits, may pass on the health answer of another container (`restarted`).
- `feature-check.sh:37-41` says that a check that could not run says so in its line of
  JSON; line 51 exits 2 without one. Lines 251, 265 and 422-424 exit 0 or 1 whether or not
  the helper printed its line, which it does not if, for instance, the not-checked file was
  cut in the middle of a character (`cut -c1-200`, line 338).
- A 500 carries neither `X-API-Version` (`main.py:63`: "All responses include") nor
  `X-Correlation-ID` (`middleware.py:77`: "to all responses"): the exception passes both
  layers before their headers are set. `TypeOK` of `Middleware` therefore speaks of the
  other responses only.
- `If-None-Match: *` makes a 404 or a 503 a 304 (`docs/API.md:897`: "If the resource
  exists"), and so does the tag of an earlier 503, while the route answers the same 503
  (`Down`). `RepresentationCurrent` names both.
- The database's tmpfs is empty after a restart, and an app that was running goes on
  serving: `/health` says "connected" and every users route fails.
- `hurl_twin_gate.py:224` looks at a file's success only when it has no asserts: a twin
  that broke off after asserts that hold is green, where
  `qa/pass-bar-HURL-TWINS.yaml:4` asks for every assertion (`twins_main`).
- `/health` says "degraded" "when the database is unreachable" (`health/router.py:34`);
  a refused connection is an `OSError`, which it does not catch: a 500.
- `get_users` pages with OFFSET and has no ORDER BY: a client that pages may read a user
  twice or never, also if nothing is written meanwhile.
- `feature_check_twins.py:756` reports what the entry point answers "with nothing
  stored", and lines 60 to 61 speak of the empty database; the twins have run against it
  before.
- `feature-check.sh:44` leaves nothing behind; a killed run leaves its app and its
  directory, and only containers are swept. `freeport` gives a port back before the app
  has it: another run's app may answer a run's twins, which `CoveredIsProved` has to
  allow.

Found while reading: `get_recent_users` does not leave out deleted
users, as `get_distinct_domains` says every read does; the 503 that the summary route
documents is never given; a negative `skip` is a 503; "a longer title never satisfies a
shorter stamp" (`feature_check_twins.py:15`), but "X (two)" satisfies "X", as the
decoration rule beside it has it.

## 5. What is proved

`UsersProofs` proves, for any set of requests, rows, emails and PUT bodies that
meet the assumptions of `UserRows` and `Users` (a NULL is no value; bodies are
partial updates), that `IInv` of `UsersInvariant` is inductive, and from it:

| Theorem | Property |
|---|---|
| `Typed` | `TypeOK` |
| `EmailsStayUnique` | `EmailUnique` |
| `AnswersAreJustified` | `AnswerJustified` |
| `CreatedIsFound` | `CreatedStaysFound` |
| `DeletesAreFinal` | `DeleteIsFinal` |
| `NothingElseIsWritten` | `OnlyNamedColumns` |
| `ClaimsAreWonOnce` | `ClaimWonOncePerActivation` |
| `Implements` | `ImplementsStore` |

None of the properties is inductive. That emails stay unique, for instance, is
checked a statement before the commit and holds at the commit only because the
writer has kept the index entry since: `EmailLocked` says that no other request
has entered that email in the index and that no committed row carries it,
and `RowLocked` that two requests never hold versions of one row. `PastOK` ties
the history `was` to the table while a request is under way, `AnsweredOK` keeps
what was true when an answer was given, and `DeletedOK`/`CreatedOK` say what the
204s and 201s already sent imply about the table for everyone who comes later.
`UsersInvariant` is separate from the proofs so that TLC can check each part on
the instances of `MCUsers`, which it was before it was proved.

The proof is by lemmas, one per kind of step: beginning, looking up, moving to
another statement, flushing, answering and committing. `InstallChanges` says what
a commit does to a table; `NextKeeps` puts them together, and most theorems are a
line of temporal logic each.

`ClaimsAreWonOnce` counts, so it needs a stronger count: of an account that is active,
no more deactivations are applied than reactivations, of an inactive one at most one
more (`ClaimsOK`). A commit adds one request to one of the two sets, and which one is
told by what it had flushed (`FlushedOK`) and by the row before and after.

`Implements` is the refinement, step by step. `Phase` maps a handler's statements to the
phases of `AccountStore`, Init maps to Init (`InitMaps`), and each action to a step or a
stutter (`StepMaps`): a request that begins is sent, a lookup, a flush or a wait stutters, a
commit is the abstract change, an answer or a failure the abstract reply, and a commit
that answers at once is both. The guard of an abstract reply is that some status of the
account during the request explains the code; that is what the invariant keeps in
`AnswerJustified`, and why the simulation rests on it.

`DeployProofs` does the same for the deploy script, for any set of legs, builds and
images, any assignment of tokens to builds and any set of healthy images:

| Theorem | Property |
|---|---|
| `Typed` | `TypeOK` |
| `ReportsWhatAnswered` | `CheckedIsWhatAnswered` |
| `NamesAreChecked` | `NamedMeansChecked` |
| `LiveIsTagged` | `LiveFollowsTag` |
| `NoneIsDown` | `NoneMeansDown` |
| `ChecksAreUndisturbed` | `ChecksUndisturbed`, where no two builds have one token |

The argument for `ReportsWhatAnswered` is the one the script relies on. The health
wait asks a port, and the port may have changed hands since the check looked at its
container. But one candidate holds the port at a time (`OneUp`), and a container
that is gone never comes back, for every container is known by the leg that started
it and no leg starts two (`Belongs`, `Early`). So if the container seen before the
wait still runs after it, it ran throughout and was the one that answered, unless it had
exited and was started again (`ChecksOK`). `NamesAreChecked` needs what the tags and the artifacts handed over
mean (`NamesOK`), and that a check that has passed is never unmade (`Passed`).
There is one lemma per part of the invariant, one step per action in each.

`SandboxProofs` does it for the sandbox runner, for any set of mounts and services,
any number of commits and of ended services, and HEADs that go anywhere:

| Theorem | Property |
|---|---|
| `Typed` | `TypeOK` |
| `StagesAreWhole` | `StagedWhole` |
| `InstallsAreWhole` | `InstalledWhole` |

The script trusts two comparisons, of a copy's stamp with HEAD and of the install's
stamp with the copies' stamps, and both must be false whenever what they vouch for is
not whole. That can go
wrong in one way, a HEAD that comes back to the commit of a stamp, which `returned` and
`reverted` record. `StampsOK` says that nothing else does: a copy whose stamp is HEAD is of
that commit. `CopyingOK` carries it from the moment a HEAD is read to the new stamp:
HEAD has left the old stamp, and what was extracted was HEAD at some moment since.
`InstallStampOK` and `InstallOK` say it of the install: while packages are replaced its
stamp differs from the copies', and what it names for a mount that is at that commit is what
the copy is stamped with. `StagedOK` adds that the copies this run is done with are of
commits it has seen. Each action has a lemma, with a step
for every conjunct that takes more than the conjunct itself; the services' steps
leave the stage alone (`ServicesKeepTypes`).

`UserReadsProofs`, for any number of requests, users, contents and connections:

| Theorem | Property |
|---|---|
| `ReadsTyped` | `TypeOK` |
| `SummariesAreJustified` | `SummaryJustified` |
| `PagesAreWithin` | `PageWithinTotal` |
| `SummariesAreForward` | `SummariesGoForward` |

What a summary is about to store is a content the user has had since the request began
(`StoreOK`), and what a user has been is not forgotten; what the
cache holds was a content once (`FallbackOK`), and only a request the database failed
is answered from it. A page was within the users there were, and only a delete after it,
which marks the request, makes them fewer (`PageOK`).

`SummariesGoForward` compares a request with those answered before it came, which no part
of `ReadsInv` speaks of: `ForwardInv` does. What a request is about to store is no
older than what the database had answered before it came (`NewerOK`), since it read
the account later. So an entry is as new as every answer that Redis took, unless a request
that overlapped that one stored over it (`CacheOK`), which is the exception the property
allows; and an entry is what the fallback serves.

`LiveGatesProofs`, for any images, heads, twins and bounds:

| Theorem | Property |
|---|---|
| `SchemaStaysWhole` | `SchemaWhole` |
| `GreenIsOfOneSource` | `OneSource` |

`TxOwned` says that the open transaction belongs to the container that runs the
migrations and how far it is; a commit is therefore whole, and `VersionLeft` says that
the version there is was left by an image that knows it last, which is why only the
migrations of a later one make alembic refuse an image. `OneSource` rests on where each answer came from: statistics
name their process by its first instant (`StatsOwn`); the user a program was told it
made is in the database that said so for as long as that database lives (`EtagOwn`,
`ProbeOwn`), so that the next answer that finds it comes from there (`EtagSame`,
`ProbeSame`). `ProbeOwn` ends where the probe asks for its user again.

`FeatureCheckProofs`, for any runs, ports, process ids and candidates:

| Theorem | Property |
|---|---|
| `RunsEndClean` | `EndsClean` |
| `LiveRunsAreSpared` | `LiveSpared` |
| `CoveredWasProved` | `CoveredIsProved` |
| `NothingSlipsBy` | `NothingSlips` |

No two live runs have one process id (`PidsDiffer`), so a name carries the live run it
belongs to, and what there is belongs to a run that made it and has not ended
(`Owned`). Hence the trap, which goes by name, takes nothing of a live run, and the
sweep nothing whose process id lives.

`ReportInv` follows the scenarios through the run: each is planned, has passed or has
failed, or is named on a line (`Minded`); what has passed was shown by a twin that sent
requests to an app that did what the twin asserts (`ProofsOK`, with `HurlTells` for one
twin); and what a run says at its end is made from these (`SaidOK`). The name that
`read_not_checked` keeps of several is the one on the first such line, which is there
because lines are numbered by naturals (`NamesAreRead`, from `WFMin` of the library).
Both invariants were checked by TLC before.

`MiddlewareProofs`, for any requests, accounts, documents and ids:

| Theorem | Property |
|---|---|
| `Typed` | `TypeOK` |
| `Representation` | `RepresentationCurrent` |
| `StatisticsCount` | `StatsCountRequests` |
| `LogTells` | `LogTellsOutcome` |

`StackInv` says for each request how far it has come and what the layers it has passed
have left: its id and headers (`Identified`), the body that was read of the account since
it came (`Current`), its place among the counted (`CounterOK`, `Statistics`), and the lines
of the log that must and must not be there yet (`Logged`). No layer knows where the
others are, so every property relates two of them in a way that only the order of the
stack makes true; `StackIs` derives that order from `Registered`, and `Passed` and `Left`
say on which side of a layer a request is.

`QueriesProofs`, for any users, days and domains:

| Theorem | Property |
|---|---|
| `DaysNeverShrink` | `PerDayNeverShrinks` |
| `ShortPagesAreLast` | `ShortPageIsLast` |
| `CountsAlwaysAgree` | `CountsAgree` |
| `DomainsAlwaysAgree` | `DomainsAgree` |
| `LiteralsReached` | `LiteralRoutesReached` |

A row keeps the instant it was made at, and created-per-day counts deleted rows, so its
days never shrink. A page shorter than its limit has all the users beyond its
`skip` that there were, and what is live when the total is read was live then or was
created since (`newer`): who deletes or changes a user adds none.

The counts of separate routes agree in every well-formed table (`RowsOK`). The groups of
count-by-domain and the days of created-per-day add up because they are parts of the
table without a common user (`CountsAddUp`), and a sum is what the fold of the library
computes. The library's induction cannot be cited, since it takes an operator as a
parameter; the two inductions the sums need, on the number of arguments of a function,
take a least counterexample (`LeastOf`, from `WFMin`) and refute it. That no literal path
is hidden is a matter of the sixteen routes: the index of each is computed from the
lists of the three routers (`RoutesAre`), and what comes before one with a literal path
has another path or another method (`LiteralsFirst`). Both invariants were checked
by TLC before.

Every safety invariant and every action property of the passing runs is stated by a
theorem. Only model-checked are the liveness properties (`EveryRequestEnds`, `ReadsEnd`,
`ExitedIsRestarted`, `StopEnds`), which are out of the prover's reach, and the
disagreements of section 4, which are violated.

## 6. What is not modelled, and the plan

- `sandbox-deploy.sh`: one command after the other against an external sandbox
  service, whose behaviour the repository does not have.
- `dcl_gate.py`, which no registry names; the other SPEC gates, which ask one
  request of the form of `health`; `gherkin_to_hurl`, a text conversion.
- Settings, which are constants of a process; the readiness flag, which nothing sets
  to not ready; time, uptime and whoami, which keep nothing.
- The characters of ids, emails and names: validation is modelled by what it refuses
  where a property needs it.
- Of `Users`: requests refused before the database (400, 403, 422), the text of
  answers, logging. Of `Deploy`: legs refused before their first docker command,
  volumes. Of `LiveGates`: a request that is handled only after its program has given it
  up and sent the next one. Of `FeatureCheck`: the texts of reasons and the table.
- Downgrades and the offline mode of alembic, which nothing in the repository calls.

Next: the lemmas about single operators that a reader would look up (the helper of the
whole-feature check, the answers of the gates), and requests of `LiveGates` that are
handled after their program has given them up.

Liveness stays with TLC.
