# DB STAT: a TLA+ verification of its concurrent core

DB STAT is a Django application that shows statistics of PostgreSQL databases
("target databases") and runs maintenance operations and PDF reports on them.
The server is `db_statistics/`, the browser client is `static/js/home.js`, and
`docker-entrypoint.sh` starts gunicorn with several worker processes over one
application database (SQLite or PostgreSQL).

This directory holds TLA+ modules that model parts of that system, TLC
configurations that check them on small instances, and TLAPS proofs of theorems
about them for all instances. `PROJECT.json` says, for every definition, which
lines it models; this file says what it all amounts to.

## 1. The system

| Component | State | Operations | Interacts with |
| --- | --- | --- | --- |
| **Background jobs** (`apps.py`, `views/maintenance.py`, `views/reports.py`, `job_locks.py`, `recover_maintenance_jobs.py`) | rows `db_maintenance_job` / `db_report_job` with a `status`; one lock file per job; two thread pools per process | POST of a job, claim, execute, record, start-up sweep, recovery command, deletion in the admin | all processes through the rows and the `flock`s; pools of target connections |
| **Target-database pools** (`views/pool.py`) | per process: a table of `ThreadedConnectionPool`s under one lock | find / replace / create a pool, `getconn`, timeouts, clean-up, `putconn`, close | requests and background jobs of one process; the saved connection's row |
| **Connections registry** (`views/additional.py`, `models.py`) | rows `db_connection`, users' links | save, test, delete, list | closes pools of its process |
| **Login, lockout, sessions** (`auth_backends.py`, `views/additional.py`, `views/auth.py`) | `failed_login_attempts`, `lockout_until`; session keys | login in the application and in Django's admin, logout, expiry | both logins share the row |
| **Rate limits** (`views/auth.py`) | a cache counter per key with expiry | `_rate_limit_exceeded` | called by expensive requests |
| **Pagination settings** (`models.py`, `views/additional.py`) | rows with a unique `size`, at most five | create, change, delete | read by every table |
| **Sidebar settings** (`views/sidebar.py`) | a JSON value per user, in three historical formats | read, normalise, save | – |
| **Favourites** (`views/additional.py`, `home.js`) | one row per user and object; a set in the browser | toggle, list | the tables that are filtered by favourites |
| **Audit log** (`views/audit.py`) | append-only rows | write, filter, purge | its failure is a failure of its caller |
| **Password encryption** (`models.py`, a command) | an encrypted column | encrypt on save, decrypt on use, migrate | pools |
| **Schema adoption** (`migrate.py`, `ensure_*.py`, `reports.py`) | tables, indexes, migration history | adopt, create when missing | all processes at start |
| **Browser tables and polling** (`home.js`) | state per table, request numbers, timers | search, sort, page, refresh, poll | answers of the server in any order |
| **Statistics views, SQL text, layout** | none | one read-only statement per request | pools |

What is hard here:

* *Interleaving*: threads of several processes hold work items for the same
  row; threads of one process share, replace and close pools under each other.
* *Atomicity*: a lock is probed, released, and the row updated later; counters
  and limits are read, decided on, and written in separate statements.
* *Crashes*: queues and threads live in memory, rows on disk; a process may die
  between any two statements.
* *Partial failure*: statements before, between and after the `try` blocks fail.
* *Ordering*: answers arrive in the browser after newer requests were sent.

`PROJECT.json` lists every hazard with its line and the property that covers it.
What makes each component correct is stated with its module below; what is left out
of each is in section 7.

## 2. Modules

| Module | What it is |
| --- | --- |
| `JobLifecycle` | abstract specification: what the job subsystem promises about one job |
| `JobQueue` | the subsystem: processes, pools, threads, locks, sweeps, requests, faults |
| `MCJobQueue` | constants for TLC, and `BacklogSpec` (a start on a backlog) |
| `JobRows` | abstract specification: the jobs' rows as everybody else sees them |
| `JobQueue_proofs` | types, mutual exclusion, finality of results, locks and work items; `JobQueue` implements `JobLifecycle` and `JobRows` |
| `ConnectionPool` | the pools of one saved connection in one process |
| `MCConnectionPool` | the symmetry of its users |
| `ConnectionPool_proofs` | type correctness, the four safety invariants, the lock |
| `JobPolling` | how one browser tab follows background jobs; its server is `JobRows` |
| `MCJobPolling` | the symmetry of polls and lists |
| `JobPolling_proofs` | type correctness, the three safety invariants, what the tab does to the rows |
| `BackendMonitor` | the four pages of one browser tab that list backends, and terminations |
| `MCBackendMonitor` | the symmetry of connections and requests |
| `BackendMonitor_proofs` | type correctness and the four safety invariants |
| `ConnectionList` | the tab's list of connections, used by all pages below |
| `LatestAnswer` | abstract specification: what numbered requests promise |
| `PagedTable` | a table of which the server returns one page; implements `LatestAnswer` |
| `PagedTable_proofs` | type correctness, the four safety invariants, the refinement |
| `Distribution` | the page with the picker of a table and its figures; implements `LatestAnswer` |
| `Panels` | the pages that show one answer: overview, memory, segments |
| `Favorites` | stars and list of favourites, with the rows of the server |
| `Pages_proofs` | the invariants of `Distribution`, `Panels` and `Favorites`, a refinement |
| `SidebarSettings` | pages and order of the sidebar: row, tab, saves, a new version |
| `Logins` | failed logins, lockout and the admin's user form |
| `RateLimit` | one key of the limit, its three cache calls and its expiry |
| `PaginationSizes` | page sizes: count, check and write of overlapping requests |
| `Services_proofs` | the lockout is kept, the limit holds in a window, page sizes stay, the sidebar is the saved one |
| `Parts` | the modules from `PagedTable` on, side by side in one specification |
| `MCParts` | the pages of the sidebar for TLC, and the loop that `AddNewTabs` is compared with |
| `Parts_proofs` | what is proved of each part holds of it in `Parts` |

`Distribution`, `Panels`, `Favorites` and `PagedTable` EXTEND `ConnectionList`: its
`Select`, `Save` and `Delete` are part of their actions, together with what the page
in question does at that moment.

### 2.1 JobQueue

State and code:

| Variable | Code |
| --- | --- |
| `status[j]` | the `status` column; `"absent"` before the INSERT, `"deleted"` after a DELETE |
| `lock[j]` | holder of the `flock` on the job's lock file (`job_locks.py`) |
| `up[p]`, `queue[p][kind]` | a gunicorn worker and the unbounded queues of its two executors |
| `pc[t]`, `work[t]` | where thread `t` is in `_run_maintenance_operation` / `_run_report_job` |
| `creating[p]`, `submitting[p]` | requests between the check and the INSERT, and between the INSERT and `submit` |
| `sweepPc` … `sweepJob` | a process's `_resubmit_queued_jobs`, or an invocation of `recover_maintenance_jobs` |
| `faults` | process deaths and failing statements so far (bound `MaxFaults`) |

The grain is one database statement, lock operation or executor call per action,
because these are the points between which other actors step in. The operation
itself (VACUUM, building the PDF) is one step with either outcome. Three things
in the model are easily overlooked in the code:

* the claim is `UPDATE … WHERE status = 'queued'`, but the *result* is written
  unconditionally (`SetStatus`), so that mutual exclusion must come from the
  file lock, not from the row;
* a maintenance job's outcome is written outside its `try` block, a report's
  inside (`StatementFails` goes to `"rescuing"` only for a report);
* a sweep's probe takes the very lock it probes, so that another prober sees
  "alive" (`ProbeFree` … `ProbeRelease`).

Properties: `OneExecutor` (no job is executed twice at once), `ResultIsFinal`
(no late claim or sweep revives a finished job), `ImplementsLifecycle`
(refinement of `JobLifecycle` with `phase <- Phase`), `ImplementsRows` (of
`JobRows`), `TakenCareOfFinishes` and `RestartRecovers` (liveness).

`JobLifecycle` says, per job: pending → executing → completed or failed; an
execution begun is lost only to a fault, and then the job is pending again; a
result is final, except that a failing audit write turns a completed report
into a failed one. `Phase` computes this from `status` **and** the threads: a row
in status `running` without an executor is *pending*, one reset to `queued` under
its executor is still *executing*. That is what makes the refinement worth
stating, since the status column alone does not follow the life of the job.

`JobRows` is the other view: `status` alone, without threads, locks and sweeps. It is
what a browser can see of the queue, and `JobPolling` extends it. `FinishRequeued` is
the trace of a disagreement of section 5: a sweep has put the row of a live thread back
to `queued`, and the thread's result replaces that too.

### 2.2 ConnectionPool

Pools of different saved connections share only `_connection_pools_lock`, so one
saved connection is modelled. `saved` is the version of the stored parameters,
`pools` all pools ever created (with their version, whether closed, idle
connections, users of checked-out ones), `registry` the ones in the table. A
connection is what it carries over to its next user: timeouts, an open
transaction, autocommit. `ThreadedConnectionPool` of psycopg2 is external and is
modelled by what `getconn`, `putconn` and `closeall` do: `getconn` raises
`PoolError` when closed or full, `putconn` keeps at most `minconn` idle ones, and
`closeall` closes connections in use too.

A user is a thread of a request, or of a background job (`Background`): the
latter sets long timeouts and may switch autocommit on. Every statement may fail.

Properties: `OneOpenPool`, `NothingLeaks` (an open pool counts exactly the users
inside the `with` block), `WithinBudget`, `IdleIsFresh` (nothing is carried over)
and `EveryUseEnds` (liveness).

### 2.3 JobPolling

A tab of the browser and the rows it asks for. `tracked` is the key set of the
map `maintenanceJobs`, `chain[c]` one chain of polls (`pollMaintenanceJob` /
`pollReportJob`: timer, request, answer on its way, timer again), `load[l]` one
request of `loadBackgroundJobs` with the active jobs its answer names, `start[j]`
and `reportPost` the POSTs that create jobs, `told[j]` what the user has been
shown of job `j`, `hidden` the tab's visibility.

The server side is `status[j]` with the transitions of `JobRows`, which `JobQueue`
implements; so what is shown here of a tab holds in front of the processes, threads and
sweeps of that module. An answer is what the row says at one moment and arrives at a later one, in any order, or not at all.
Three sources start a chain: the answer of a POST, and every list that names
an active job the map does not have. Three things end one: a result, an error,
and the answer for a job that is not in the map any more.

Properties: `TrackedIsPolled` (a job in the map is polled; otherwise its buttons
would stay disabled and no list would ever pick it up again), `PollsBounded` (lists
and POSTs that overtake each other do not pile up chains), `ShownIsTrue` (a
result shown is the row's), `StartIsReported` and `PollingStops` (liveness).

Left out: a second connection (selecting another one enables the report button
during its POST), the limit of 25 rows of the list, and the entries a user
dismisses, which are display only.

### 2.4 BackendMonitor

The page lists the backends of the selected connection (`active`,
`activeConnectionId`). `table` is what the page shows: a message, or rows with
the connection `of` they were listed from; that connection is not in the code's
state, it is what the properties compare. `request[r]` is one request for
the list, `latest` the one numbered `activeQueriesRequestId`, `inFlight` the flag
the interval looks at. A row's button that was clicked lives in `dialog`
until the confirmation and in `post[t]` until the answer; `attached` says whether
that button is still on the page, since every writing of the table makes new ones.
`terminated` are the keys `connection:pid` that lists leave out, `refreshes` the timers
of 500 and 1500 ms, `form` a save or deletion of a connection that the user did not
wait for.

Three handlers change `active`: `onConnectionChange` and the answer to a save open the
first page of the sidebar (which may be this one: then the list is asked for twice,
by `activatePage` and by `refreshAll`); the answer to a deletion takes the connection
selected *by then* off the list and leaves the page as it is. So rows can outlive
their connection, and the two properties about ownership except such rows: their
process numbers would be sent to the connection selected instead. The same
answers can also drop the wrong entry from the tab's list (`Saved`, `Deleted`). A
creation that is answered when an edit form is open takes the place of the selected entry
(`home.js:4911` looks at the form that is open by then).

On locks and idle transactions there is a second way. The answer to a termination asks for
the list of the connection it was sent to, without looking at `activeConnectionId`
(`home.js:2458`). If another connection has been selected meanwhile, the rows of the former one
then stand under the new name, and a click on one sends its process number to the new
connection. The history variable `strayed` collects the connections asked for in this way.

Properties, of all four pages: `RowsAreOfActive` (the rows are of the selected connection, of
one that was taken off the list, or of one in `strayed`; on queries and sessions `strayed` stays
empty), `TerminatesWhatWasShown` (a termination goes to the connection the row was listed
from, whatever happens from the click to the request, with the same two exceptions), `LoadingIsAwaited` and `TerminatedRowIsLeaving` (what is out
of date on the page is about to be replaced by an answer that will be shown).

`monitor` says which of the four pages a behaviour is about: active queries, sessions,
locks or idle transactions. They share no state but the connections and differ in two
things. Queries and sessions keep `terminated` and refresh only if the connection is
still the selected one; locks and transactions forget, and refresh whatever is selected.
And `refreshAll` omits the sessions.

Abstracted: the interval is a step that may come at any time, the lists of the server
are any sets of process numbers, and what a termination does there is left out.

### 2.5 PagedTable and LatestAnswer

`LatestAnswer` is what every page with a request number promises: it waits for the
answer to the last question it asked (`wanted`), shows that answer and no other
(`answered`), and shows nothing of an earlier one from the moment it asks.

`PagedTable` stands for the eight instances of the class `PagedTable` and for the two
tables with code of their own, maintenance statistics and the audit. `which` is the
table a behaviour is about; its fields are what the code tells apart: whose methods run,
whether favourites filter it or open it, whether the server counts rows apart from the
page. `state` is `config.state`, `request[r]` the question that `buildParams` sent
with number `r`, `latest` the current `requestId`, `view` what the table shows, `timer`
the 300 ms of the search field, `dropping` a temporary table being dropped.
The three kinds of code differ where it matters: maintenance takes no number when it
warns, so that an answer under way replaces the warning; the audit belongs to no connection
and is not part of `refreshAll`; only the pager keeps the old total while it waits.

Properties: `ShownIsAsked` (the rows are the answer to what the controls say, of the
selected connection; rows read after a temporary table was dropped may be of the
connection of the drop), `ErrorLeavesNothing`, `LoadingIsAwaited`, `WayBack` (a page past
the end has an enabled button back) and `ImplementsLatestAnswer`.

### 2.6 Distribution and Panels

In `Distribution` two numbered requests feed each other: the list of tables that
arrives picks a table and asks for its figures, of the connection selected by *then*.
`tables`, `selected`, `field` are the picker. `FiguresAreOfSelected`: once a list has
arrived, the figures are of the table picked and of the selected connection; without a
list, late figures of another connection may appear (`RefreshTables` with no connection
takes no number of the figures). `FiguresImplementLatestAnswer` is the refinement.

`Panels` has the pages that show one answer. The segments keep the former answer under
a badge (`updating`), are asked for even when another page is open, and take no number
when they cannot ask. `PanelIsOfSelected`: what is shown is of the selected connection
unless the badge says otherwise. `UpdateIsAwaited`: "loading" and the badge end.

### 2.7 Favorites

`rows` are the server's, `favoriteKeys` the browser's stars (the list `favoriteItems` is
changed with them and names the same objects), `call[k]` a request under way with its
steps on the server (`get_or_create`, then the `DELETE` of the row found, which another
toggle may have deleted). A star follows the answer, not the click. Lists carry no number.
`StarIsRight`: with nothing about it under way, a star says what is in the table, except for the objects in `doubtful`: nothing read since the connection
was selected, a toggle that failed, two toggles that overlapped, a list read before a
toggle and arrived after it. The exceptions are reachable behaviours of the code.

### 2.8 SidebarSettings

The normalisation of both sides as operators (`NormalizeTabs`, `AddNewTabs`,
`SettingsForUser` of the server; `NormalizeSidebarPages`, `ApplyPageOrder`,
`ApplySidebar` of the tab), a row, a tab, overlapping saves, and one new version of the
server that adds pages. The pages there are, the fixed ones, the new ones and their
sections are constants.

A list without repetitions is an order of its pages: the set of the pairs `<<p, q>>` such
that `p` is `q` or comes before it (`IsList`). Filtering a list is `Among`, putting one
after another is `Then`, and the loop that inserts new pages one by one is stated by where
each of them ends up: after the visible page that precedes it on the server (`UpTo`), in
the server's order among those with the same one. Nothing recursive is left to reason
about; that the loop of `_add_new_sidebar_tabs` ends there is the assumption `AddsAsTheLoop`
of `MCParts`, which TLC evaluates for every list and every set of known pages of four. `SidebarIsSaved`: with no save under way the sidebar is the one a
reload would show. `HiddenIsChosen`: the pages a user does not get are those the last save
left unchecked, and those its list could not have (`unseen`: a tab of the old version saves on
the new server, which takes all its pages as known, `additional.py:171`).

`_sidebar_settings_for_user` reads the row, and writes it again if it is not in the form of the
version at work, in two statements without a transaction or lock (`sidebar.py:90` and `93-95`).
Page loads (`home`) and saves both call it. So `ReadSettings(a)` and `StoreNormalized(a)` are
steps of their own, and `read[a]` is the row that the page load or save `a` has in hand. A save
is carried out in between only where that makes a difference: one whose row is in
form already, or that writes it at once, is `PostSettings` alone.

After a release every row is out of form once. A page load that read it before a save was
carried out and writes it after undoes the save: the user's choice is gone, and the tab that saved
still shows it. `overwritten` says that this has happened since the last save, and
`HiddenIsChosen` does not hold then; `unsure` says that the tab is not known to agree with the row (saves
overlapped or failed, a write-back of a changed row, a page that arrived with such a row), and
`SidebarIsSaved` is not asked then.
`Upgrade` is the start of the new version: the requests at work on the old one are over or cut off.

### 2.9 Logins, RateLimit, PaginationSizes

Three services that read, decide and write without a lock, one step per database or
cache call. In each, the property says what is right as long as requests do not overlap
and bounds what happens if they do.

* `Logins`: `copy[r]` is the row as request `r` has read it; both logins and the
  admin's form write from their copy. `LockoutIsKept`: without overlap no failure is lost
  and a lockout lasts until its time.
* `RateLimit`: `cache.add`, `cache.incr`, and `cache.set` after a `ValueError`.
  `WindowIsLimited`: at most `Limit` calls in a window, and `Limit` more for each call
  that set the key anew; fewer than are under way at once.
* `PaginationSizes`: find, count, write. `SizesAreKept`: without overlap one size stays and
  at most `MaxRecords`; with overlap at most one more for each further request.

## 3. Runs

| Run | Instance | What it shows |
| --- | --- | --- |
| `jobs_safety` | 2 processes, 1 command, 1 maintenance job or 1 report, 2 faults, deletion | `TypeOK`, `OneExecutor`, `ResultIsFinal`, `ImplementsLifecycle`, `ImplementsRows` |
| `jobs_live` | 2 processes and 2 jobs left over, or 1 job and 1 command; 1 fault | `TakenCareOfFinishes`: one-thread pools that wait for file locks do not deadlock; `RestartRecovers` |
| `jobs_live_requeued`, `jobs_error_lost` | 1–2 processes, 1 job | disagreements, section 5 |
| `pool_safety` | 2 requests, 1 job, `MinConn` 1, `MaxConn` 2, 2 versions, 3 pools | `TypeOK` and the four invariants |
| `pool_live` | 1 request, 1 job, same sizes | `EveryUseEnds` |
| `pool_stale_parameters` | 1 request, 1 job | disagreement, section 5 |
| `polling_safety` | 1 maintenance job, 1 report, 3 chains, 2 lists | `TypeOK` and the three invariants |
| `polling_live` | 1 maintenance job or 1 report, 2 chains, 2 lists | `StartIsReported`, `PollingStops` |
| `monitor_safety` | 2 connections, 1 process number, 2 requests, 1 termination | `TypeOK` and the four invariants |
| `monitor_starved` | 1 connection, 2 requests | disagreement, section 5 |
| `parts_safety` | one part at a time of `PagedTable` … `PaginationSizes`; 2 connections, 2 requests (3 for panels and cache) | types, the thirteen invariants, two refinements of `LatestAnswer` |

**Bounds.** `MaxFaults` counts process deaths and failing statements: two let a
crash be followed by a failure of the recovery, which is what the safety
properties are about; the liveness runs quantify over `n \in 0..MaxFaults` and
ask what happens after the last fault. One job with two processes and a command
already has every race for a row and a lock, because jobs interact only through
the slots and queues of a pool; the second job of `jobs_live` is there to
compete for these, and without it a command takes part. "1 maintenance job or 1
report" is one instance with both whose initial states have the row of one of
them deleted (`Alone` in the MC modules). One thread per pool is the hardest case for waiting in a
slot, and two processes supply the concurrency that two threads would.
`MaxVersion` 2 has an edit between any two steps of a user; `MaxPools` 3 lets a
pool be replaced and the replacement be replaced by a user with the old
parameters; `MaxConn` 2 with three users reaches the limit. The initial states
of `JobQueue` are all mixtures of rows a previous life of the server could leave.
Deadlock checking is off for the job runs (all jobs finished, faults used
up: the server may be at rest) and on for the pool runs.
In `JobPolling`, `Chains` and `Loads` bound how many polls and lists exist at once;
three chains are one more than `PollsBounded` allows a job, and two lists can
overtake each other. `MaxReportChains` stops a user from asking for reports
without end. In `BackendMonitor`, two requests are what it takes for one to
supersede the other; one process number on two servers is the confusion that matters;
`MaxRefreshes` 2 are the timers of one termination. In `JobPolling` all of a row's
statuses are initial: jobs of any age.

`parts_safety` (935 000 states) is one run because its parts need the same small sets:
`part`, chosen at the start, says which one moves. Two connections are one to leave and
one to arrive at; two requests one to be late (a panel asks up to three times in a handler;
three calls of the cache let one create a key that two others missed); two texts and one
order, two page sizes and at most two rows make pages that exist, are empty and are past
the end. One object is enough for `Favorites`, whose objects share nothing but the
list that is read. `MaxFailed` 3 has a count between none and a lockout; `Limit` 2 with
`MaxCalls` 4 goes past the limit; three keys and sizes with `MaxRecords` 2 reach both ends. The sidebar
has four pages in three sections, one of them fixed and one new between two others;
`SectionsMove` is off: with sections in one order all orders within them remain. Two requests
about the sidebar are under way at once (`MaxUnderWay`), two saves or a save and a page load:
what the properties except begins with two, and a third only repeats it.
`ToastTables` is left out as `which`: it does what `Views` does, and less. Deadlock
checking is off: a tab may have no connection, or no request left to send.

**Symmetry** is used in `pool_safety`, on requests and on jobs separately, and in
`polling_safety`, on chains and on lists, in `monitor_safety`, on connections and
requests, and in `parts_safety`, on connections, requests and texts, which no definition
tells apart; no liveness run uses it.

**Fairness.** In `JobQueue`: weak fairness of every thread (each statement and
each operation has a timeout in the code: `statement_timeout`, SQLite's
`timeout`), of a sweep once armed, of the two statements that follow a request's
check, of a recovery command *once started*, and of `Start` (gunicorn's master
replaces a worker). Not of requests, commands, faults, deletions. `RestartRecovers`
assumes the recovery command is over when the server starts, as
`docker-entrypoint.sh` runs it before gunicorn; without that it fails, because a
command that probes concurrently makes a sweep take a job for alive, and then
submits nothing. In `ConnectionPool`: weak fairness of a user's steps, strong
fairness of the two steps that take `_connection_pools_lock` (a waiting thread is
let in eventually, however often others take the lock). Not of loading,
statements, edits or deletions. In `JobPolling`: weak fairness of every chain,
list and POST (timers fire; a request is answered, or given up by
`connectionRequest` or the browser), of `Begin`, and strong fairness of `Finish`:
that jobs end is `TakenCareOfFinishes` of `JobQueue`, and a recovery may put one
back, but not for ever. In `BackendMonitor`: weak fairness of answers (or of
`connectionRequest` giving up) and of timers, the interval being switched on; not of the
user, and `LoadingEnds` is asked only once the user has stopped.

## 4. Proofs

All theorems hold for every value of the constants that satisfies the module's
named assumptions (finite pools, disjoint kinds of actors, `1 <= MaxConn`,
`MinConn <= MaxConn`, …).

* **`JobQueue_proofs`**: `TypeCorrect`, `MutualExclusion`, `ResultsAreFinal`.
  `OneExecutor` is not inductive. `IInv` adds: a thread past `"locking"` holds the
  lock of its job, and only such threads and probing sweepers hold locks; a
  thread that has won the claim works on a job whose status is not terminal as
  long as its result is not written; a sweeper has a row in hand exactly where
  the code has one; a process that is down has no threads at work, and a thread
  works on a job of its own kind. Mutual exclusion follows because two threads
  cannot both be the one holder of a lock.
  Two more say what the liveness properties rest on. `LocksNeverStray`: a lock is
  with a thread that works on its job or with a sweep at its probe, and neither waits for
  another lock (so that waiting never forms a circle); and a process that is down has
  no queue, no request, no sweep and no thread at work. `NeverDropped`: a job
  taken care of (`TakenCareOf`) stays so with every step until its row is no longer
  active or there is a fault. What `TakenCareOfFinishes` adds is fairness.

  `Refinement == Spec => ImplementsLifecycle` and `RowsRefinement == Spec => ImplementsRows`. `RInv`
  adds to `IInv` what relates row and phase (jobs being created are absent, an
  executing thread's row is active or deleted). Every action is then shown
  to map to one action of `JobLifecycle` or to leave `<<phase, faults>>` alone; a
  crash maps to `Fault(lost)` with `lost` the jobs its threads were executing. For the
  rows, only eight actions write one; that the thread of a record finds its row active or
  deleted, and that of a rescue a report's, is again `RInv`.
* **`ConnectionPool_proofs`**: `PoolTypeCorrect`, `SinglePool`, `NoLeak`, `Budget`,
  `NothingCarriedOver`. `PInv` is the conjunction of these with `UserState` (which
  variables are set at which point), `CreatorAlone` (the table is empty and no
  other user creates while one holds the lock) and `CleanHands` (a connection in
  hand at `"putting"` is either discarded or clean, and one of a request never has
  background timeouts). `Budget` needs the cardinality theorems of finite sets.
  `LockIsReleased`: a thread holds `_connection_pools_lock` exactly while it connects a
  pool, so that a waiting one waits for a step that ends; the safety part of `EveryUseEnds`.

* **`JobPolling_proofs`**: `TypeCorrect`, `FollowedIsPolled`, `PollsAreBounded`,
  `ShownResultsAreTrue`. `PollCases` sorts all steps into five kinds by what they do to
  the map and to the chains (nothing, follow a job, follow a report, abandon one,
  adopt those of a list); the two invariants about polls are then shown for each
  kind. `ShownIsTrue` needs `AnswersAreTrue`: results on their way are already
  true, and a row with a result keeps it (`ResultStays`). `RowsInFront == Spec => RowsSpec`
  closes the circle with `RowsRefinement`: the rows the tab is proved against are
  those of `JobRows`, which `JobQueue` implements.
* **`BackendMonitor_proofs`**: `TypeCorrect`, `RowsOfTheSelected`,
  `LoadingOnlyWhileAwaited`, `TerminatedRowsLeave`, `RightBackendTerminated`. `PageInv`
  adds that the latest request asks for the list of `active`, of a connection that
  left or of one in `strayed` (and so its answer may be shown), and that requests are for
  connections the tab knows or knew. `RightBackendTerminated` rests on `StepKeepsRows`: a step
  leaves a row acted upon as it is, detaches its button, ends it, or hands it from
  the dialog to a request; only a click makes one.

* **`PagedTable_proofs`**: `TypeCorrect`, `LoadingOnlyWhileAwaited`, `ShownRowsAreAsked`,
  `ErrorsLeaveNothing`, `WayBackAlways`, `Implements`. Every step is of one of four kinds
  (`Steps`): a question is asked, a warning is shown, the page rests, an answer or a failure
  arrives; the invariants are then shown for each kind. `ShownIsAsked` is not
  inductive: `RequestIsAsked` adds that the question under way has been right ever since
  it was asked (every control that changes the state asks anew, which takes the number away
  from the former question), and `RowsPage` that paging never runs ahead of the rows.
  `Implements` maps the first kind to `Asks`, the second to `Warns`, the third to a stutter and
  the last to `Answers`, `Warns` or a stutter. `NoneAssumption` says `None` is no question.
* **`Pages_proofs`**: for `Panels`, `PanelsAreOfSelected` and `UpdatesAreAwaited`;
  `PanelQuestionIsRight` adds that the question under way is of the selected connection
  or of one that has left. For `Distribution`, `FiguresBelong` and `FiguresImplement`;
  `QuestionIsPicked` adds that the question under way is about what the picker says, and
  `FieldIsPicked` that its field and its choice agree. Steps are sorted by what they do to
  the figures (leave them, ask, warn, sort, settle), and each kind maps to a step of
  `LatestAnswer` or a stutter. For `Favorites`, `StarsAreRight`;
  `ObjectIsRight` adds that at most one toggle of an undoubted object is under way, that its
  answer, once given, says what is in the table, and `ListIsRight` that a list on its way is
  right but for what was toggled since it was read.
* **`Services_proofs`**: `LockoutsAreKept`; without overlap at most one request is at work
  and its copy is the row. `LimitHolds`; `allowed` is bounded by the key's value within the
  present window, and `MissingAreLeft` counts the callers that still may set the key anew:
  the one that created the key is not among them. `SizesStay`; the rows alone are no
  inductive bound, because a row that is deleted while a request edits it is inserted again
  without a count. `SizesBounded` counts such rows (`GoneIds`, each held by a request
  of its own) and the requests that have made sure of room (`Adders`) as if they were there.

  `SizesTypeCorrect` adds that only sizes that are offered are ever stored.
  For the sidebar, `SidebarStaysSaved`, `HiddenStaysChosen` and `SidebarTypeCorrect`. The
  lemmas about lists come first: `Among` and `Then` make lists of lists, `AddIsList` says
  so of the insertion of new pages, and `SettingsFacts` what a request makes of a
  row: the choice stays in its order and the new pages join it. `SidebarIInv` adds that row,
  tab and saves are choices (a page that is not fixed, and all fixed ones) among pages the
  server has; that the pages known and not visible are those hidden or unseen; and, unless
  saves have overlapped or failed, that the tab shows what the row says of the tab's pages
  or awaits the one save whose answer is the row; and that what a request has read is a choice too, so
  that writing it back changes nothing unless the row has been given other settings meanwhile
  (`Overtaken`). That inserting new pages keeps the order of the
  others is why the tab of an old version still agrees with a reload.
* **`Parts_proofs`**: `EachPartIsItself` (a behaviour of `Parts` about a part is one
  of the part's specification), hence `PartsKeepPromises`: every property that
  `parts_safety` checks holds of its part for all constants. `PartsTypesCorrect` is
  `PartsTypeOK` itself, from the conjunction of the parts' inductive invariants.

Every safety property of every passing run is stated by a theorem. Only model-checked: the liveness
properties `TakenCareOfFinishes`, `RestartRecovers`, `EveryUseEnds`, `StartIsReported` and
`PollingStops` (TLAPS does not handle `ENABLED` and fairness); the disagreements (they
are counterexamples); that the loop of `_add_new_sidebar_tabs` computes `AddNewTabs`
(induction over the list, which the provers cannot instantiate); and everything the runs
say about the fairness side of the refinement (`JobLifecycle` has no fairness).

`BackendMonitor` does not implement `LatestAnswer`: a silent refresh asks anew and
keeps the former rows on the page, which is why `RowsAreOfActive` is stated of the rows.

## 5. Where code and text disagree

Each is a run TLC refutes with a trace; `PROJECT.json` quotes the lines.

1. `jobs_live_requeued`: "a live job is left alone" (`apps.py:98-99`). The probe and
   the UPDATE are separate, and a second starting process can requeue, claim and
   run the job in between. No double execution follows (the file lock prevents
   it), but the row shows `queued` while it runs and is submitted once more.
2. `jobs_error_lost`: the comment at `maintenance.py:143-148` says a bug always still
   marks the job failed; the read of the row and the write of the outcome are
   outside the `try`.
3. `pool_stale_parameters`: "no new connections with the old password"; a request
   that read the row before the edit makes some.
4. `monitor_starved`: the interval waits for the request under way (`home.js:2069-2073`).
   Its flag is cleared by superseded answers too; two overlapping requests then
   supersede each other for good and the page loads forever.

Read, not run:

* The docstring of `_resubmit_queued_jobs` (`apps.py:84-89`) says that the sweep never
  resets `running`; its body does (`JobQueue!Reset`).
* `PoolError` is answered as "all connections busy"; a pool closed under its users raises
  it too (`ConnectionPool`).
* Saving the sidebar takes all pages of the server as known (`additional.py:171`), also those
  that a tab of the version before does not list (`SidebarSettings!PostSettings`).
* The docstring of `_add_new_sidebar_tabs` (`sidebar.py:36-37`) says that a known page which the user
  hid stays hidden. A page load that read the row before the save and normalises it after shows
  the page again (`sidebar.py:90-95`, `SidebarSettings!StoreNormalized`).
* The pages of locks and idle transactions have the name of the selected connection above them, and
  after a termination answered late the rows of the former one below it
  (`home.js:2445-2464`, `BackendMonitor!ObservedEnds`). No text of the repository promises otherwise.
* `refreshAll` of the browser omits the sessions and the audit.

## 6. Plan

The order is by what can go wrong and by how much the rest of the system leans on it.

*Done*: the jobs, the pools, job polling, the pages of backends, the tables, panels and
favourites of the browser, logins, rate limits, page sizes and the sidebar.

*Left*: a `Registry` of connections with owners and roles, to give the versions that
`ConnectionPool` sees and the list that `ConnectionList` keeps one common origin.

## 7. Not modelled

* The statistics views, their SQL text and the layout of reports keep no state: they
  read one database and format rows.
* Sessions, their expiry and the password check: no state that requests share.
* Roles and owners of connections: one row read or written in one request.
* Password encryption: each value is converted on its own; whether it is encrypted
  already is told from its prefix.
* Schema adoption: run once at deployment before any process serves requests, with
  statements made conditional in the database.
* The order of the sidebar's sections (saved and applied as the order of pages is) and the
  role that lacks the audit page; the admin's form for page sizes, which deletes rows
  without counting them.
* Translations, themes, charts, logging and the admin's configuration are presentation.

PostgreSQL, psycopg2, Django's ORM, gunicorn and the browser's event loop are external and
modelled by what the code relies on. Deployment files (`docker-entrypoint.sh`, compose
files) appear as the order in which the recovery command and the workers start.
