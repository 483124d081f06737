# Lake Task Manager in TLA+

Lake Task Manager is a local web application: a FastAPI process on the user's machine talks to Jira
and Confluence through a browser that Playwright drives in one owner thread, keeps what it reads in a
SQLite cache, and writes to Jira with protection against doing anything twice. A browser front end, a
tray, an MCP server and a language-model agent use that process.

This directory models the parts whose correctness depends on ordering, failure and concurrency, checks
them with TLC on small instances, and proves what matters most with TLAPS for every value of the
constants. Paths below are relative to `src/app` unless they begin with `src/`.

    tlc -workers 2 -config MCSharedCache.cfg MCSharedCache      model-check one instance
    tlapm SsoSessionProofs.tla                                  check the proofs of one component

## 1. Inventory

### The parts that are modelled

| part | state it keeps | operations | module |
|---|---|---|---|
| Mutation receipts, `jira/mutation_recovery.py` | a SQLite row per mutation id; a lock and the handle of a timed-out call in memory | `execute` with its entry decisions, reconciliation, write, cleanup | `MutationReceipt` |
| Shared read cache, `infra/cache.py`, refresher of `jira/jira_client.py` | rows, display copies, the write fence, the flights | `get*`, `refresh`, `set`, `set_if_fence`, `forget`, `invalidate*`, `purge` | `SharedCache` |
| Searches, `jira/jira_client.py`, `jira/cache_policy.py` | leaves with their reverse index, rows, snapshots, the persistent epoch | `_jql_snapshot`, `_cached_jql_leaf`, hydration, mutation events | `JqlCache` |
| SSO provider, `auth/sso_session.py` | a bounded job queue, an owner thread, two events of health | `_submit`, `_loop`, `_mark_broken`, `close` | `SsoSession` |
| Provider of a client, `jira/jira_client.py`, `jira/identity_service.py`, `auth/sso_store.py` | the provider, its generation, the launch under way, the cooldown; the session file and its revision | `provider`, `reset_provider`, `_persist_jira_session_state` | `ProviderStartup` |
| Verdict on the session, `jira/identity_service.py` | the dead mark, the result of the last probe, the gate | `proactive_auth_probe`, `direct_session_state`, `current_user`, `session_recheck_async`, silent renewal | `SessionVerdict` |
| Login requests, `auth/login_requests.py`, `main.py`, `src/run.py` | attempts per service, an event, timers, threads, the window | `request`, `claim`, `complete`, dispatch, fallback, the window's look | `LoginRequests` |
| Expired session in the page, `static/lib/apiAuth.js`, `api.js`, `LoginOverlay.js`, `authActivity.js` | a generation, the last result, the probe and the watch under way, the notice | `recover`, `requireLogin`, `authenticated`, `fetchWithAuth`, `watchAuth`, `login` | `AuthRecovery` |
| Hierarchy reads, `jira/hierarchy_service.py` | the level, what was seen, rows and a ledger of what is missing | `get_descendants` | `HierarchyRead` |
| Confluence page operations, `services/confluence_organization.py`, `services/confluence_commands.py` | a receipt per row and one per verification | `bulk` with `move`, `trash`, `restore`, `update_page` | `ConfluenceBatch` |
| Bulk creation, `static/lib/bulkCreateRun.js`, `BulkCreateDialog.js`, `bulk_create` | the run in the window and in the durable draft, receipts of the rows | `executeBulkRun`, `acceptChunk`, `replayBlock`, a new run for failures | `BulkRun` |
| Display cache of the browser, `static/lib/cacheMemo.js`, `api.js` | rows with revisions, their order, requests | `get`, `fetch`, `configure`, `delete`, `clear`, eviction after writes | `CacheMemo` |
| Workspace files, `services/workspace_config.py`, `infra/settings.py` | two files and their revision, the memory of the people | `read`, the four saves, `load_people`, `module_dir`, `reload_people` | `WorkspaceConfig` |
| Approvals, `agent/approval.py`, `ActionExecutor` | one capability or a pair, bound to a payload | `stage*`, `approve`, `amend_*`, `reject`, `consume`, dispatch | `Approval` |
| Conversation turns, `agent/workflow/session.py`, `question_receipt.py` | the lock of a conversation, checkpoints, challenges with leases | `ask`, `stream`, `request_stop`, claim, commit, release | `AgentTurn` |
| MCP lanes, `local_mcp/capacity.py`, `transport_host.py` | permits of the bridge and of a tool | `wrap`, `ToolLane.run` with cancellation at every point | `ToolLane` |
| Launcher and supervisor, `src/run.py`, `launcher/instance.py`, `launcher/supervisor.py` | processes and the one port; the restarts a supervisor remembers | `main`, `signal_existing_instance`, `wait_port_free`, `run_supervisor`, the tray's update and quit, `request_quit` | `Launcher` |

How they interact. A handler thread that writes runs `MutationReceiptStore.execute` around one or more
provider calls. A call is a job on the SSO provider's queue (`SsoSession`); it ends in an answer,
in `UpstreamBusy` (never sent), `UpstreamUnavailable`, or `PendingUpstreamOperation`, the handle of a
write that is still out in the browser. `execute` keeps that handle and its receipt decides what a
retry may do. `UpstreamCall` is the contract between the two: `MutationReceipt` models the provider by
its actions (`Dispatch`, `BusyBeforeSend`, `LeaveToWorker`, `WorkerReturns`), and `SsoSession` is shown
to keep it. `BulkRun` and `ConfluenceBatch` are users of receipts: the first relies on `CreateOnce` for
each row, the second runs a receipt per row in an order it must keep. The provider object a call uses
comes from `ProviderStartup`, which replaces it when it breaks and when the user logs in;
`SessionVerdict` decides when to ask for a login, `LoginRequests` carries it out, and `AuthRecovery` is how
a page comes to ask and learns that it is done. Reads go through
`SharedCache`, whose producers are provider calls and whose invalidations follow the writes; `JqlCache`
is how searches use it, `CacheMemo` what the browser keeps of its answers.

What is hard in each, and the properties that make it correct:

* **Receipts.** The answer of a write can be lost while Jira still commits it; the process can die at
  any point; two tabs retry at once; the same id comes with another payload; SQLite can refuse a row.
  One id must make at most one object, a recorded result must be true and stay, a definite failure
  must mean that nothing exists, and a mutation that is retried must be settled in the end.
* **Cache.** A slow producer returns after an invalidation; a reader joins the flight of a reader that
  started before a write; a denied resource must vanish from both tiers although others still refresh
  it; a follower waits without a limit for a future. Nothing read before an invalidation may come back,
  nobody who starts after it may be given the older version as current, ages are honest, and every read is answered.
* **Searches.** A search reads fences, leaves, rows and generations one after the other while commands are
  recorded. An answer must show every command that had answered before the search began.
* **SSO provider.** Deadlines race the owner thread; the owner can hang in Chromium for ever and cannot be
  interrupted; a retirement drains the queue while others still add to it; its sentinel competes for the
  same bounded queue. A caller told busy must not have been sent, a write still out must be reported,
  nobody may be stranded, and a retired owner must find its sentinel.
* **Provider.** Launching takes tens of seconds outside the lock while logins, failures and other
  callers go on. No browser may leak, nobody may wait for a dropped attempt, a new login must be used,
  and rolling cookies of the old session must not overwrite it.
* **Verdict and logins.** A network that is down, a login that finishes in between and a stale refusal must
  not be taken for an expired session; a wrong mark must go away. A login has three carriers that do not
  know of each other: one window per service, and every attempt ends.
* **Expired session in the page.** Many requests are refused at once and join one silent probe, while logins
  take place in other windows, polls are lost and answers come late. The page must ask for a login when one
  is needed, not ask for one that has taken place, and take its notice away when the session is back.
* **Hierarchy reads.** Tickets move and reads fail while levels are read. An answer must hold what was below
  the ticket all the time or say where it could not look.
* **Batches of page operations.** The outcome of a row is lost and other people edit the page; later rows
  rely on it; the batch is called again, also at once. A row must run only after what it needs, "failed"
  must mean that nothing was written, and a repetition must not take back a success.
* **Bulk creation.** The window closes between sending and reading, a request without a reader is still
  served, a failure during recovery says nothing of the first attempt, and the server forgets an id after
  eight days. No row may be made twice, and nothing that was sent may be forgotten.
* **Display cache.** Answers come back to rows that were evicted by a write and asked for again: none from
  before the write may be shown as current.
* **Workspace files.** Saves are repeated after lost answers while others save. No save may be overwritten
  by one that had not seen it, and lookups must follow the files.
* **Approvals.** A double click dispatches a card twice, between looks that no lock protects, while the user
  amends it. What is written is what was approved, once, and the loser leaves the winner's comment alone.
* **Turns.** A stream is suspended between events in any thread; it fails, is stopped or abandoned. Turns
  must not overlap, and an answer must be used once and never be lost.
* **Lanes.** A caller is cancelled in the moment its worker starts: a permit must come back exactly once.
* **Launcher and supervisor.** Starts by the user, the restart after an update and a supervisor's new worker look
  for each other over one port while an older application is leaving it. One of them must stay, or say why not.

### The parts that are not modelled

| part | why |
|---|---|
| SSO login window, silent renewal, session store (`auth/sso_navigation.py`, `auth/sso_store.py`, `auth/web_forms.py`) | navigation of login pages in a browser; the outcome of a renewal and the saving of a file are actions of `SessionVerdict` and `ProviderStartup` |
| Ticket commands, changes of the hierarchy (`services/ticket_commands.py`, `ticket_hierarchy.py`) | each is one request, or a few, under a receipt; the wizard's lock is one try-lock |
| Confluence reads, macros | the same cache with one more rule (`min_fetched_at`, removal by prefix); rendering is pure |
| MCP tools, profiles, schemas, runtime | adapters, and a library's protocol |
| Routes, application start | HTTP adapters; their error mapping appears as the answers of `MutationReceipt` |
| Domain rules (`domain/`) | pure arithmetic over ticket records |
| Agent workflow (`agent/workflow`, `tools`, `retrieval`) | forty thousand lines of prompts and evidence around a language model; its effects pass through approvals and commands |
| Front-end views, mock world, mock and basic providers | rendering, fixtures, or one stateless request |

`PROJECT.json` lists every part with its files and every hazard with its line.

## 2. Modules

### `CreateOnce`, `MutationReceipt`, `MutationReceiptProofs`

`CreateOnce` is the promise: a mutation makes at most one object, and nothing about it changes once it
is closed. `MutationReceipt` is `MutationReceiptStore.execute`. A handler takes the lock of its key and
decides at once (`Submit`: refuse a reused id, replay a success, resume a cleanup, wait for, recover or
fail with a timed-out worker, reconcile, write), then goes on through the phases *reconciling*,
*deciding*, *writing*, *cleaning* (`Handle`). The receipt survives `Crash`; locks, handles and handlers
do not. Jira is the environment: a request that was dispatched becomes an object or is dropped at any
later time, whether or not anybody still waits. A `reconcile_*` reader is one action that sees `found`
only if one object of the submitted payload exists, `absent` only if none does at that moment, or nothing
conclusive.

Time is counted only as far as the code compares it: `age` since `attemptedAt` up to the grace period
`ABSENT_RETRY_GRACE_SECONDS`, `quiet` (a history variable) since a request that had been sent lost the last thread that
waited for its answer, `waited` since a read. `MaxAttempt`, `Settle` and `ReadTime` bound what the code cannot
know: how long an attempt, the settling of a lost request and the step from reading to deciding take. Whether an absence is proven is the
code's question; whether what it takes for proven is true is the property `AbsenceIsTrue`: what
the docstring of `execute` asks of its reconcilers, and what the grace period is for. `GraceSuffices` (`MaxAttempt + Settle + ReadTime < Grace`) is
enough for it; the constants of the code do not satisfy it (finding 1), and no assumption of the module
demands it. The two passing runs choose constants that do (`LongGrace` in their modules).

Left out: the expiry of receipts after eight days, receipts of schema v1, writes without a mutation id.

### `SharedCache`, `SharedCacheProofs`

The two tables, the process-wide `_write_fence`, the flights, request threads and the background
thread. A read goes through the steps of `get_or_set` and its variants: fresh row, stale copy with a
background refresh, or a flight that it owns (`Own`, `Produce`, `Store`, `Settle`, `Retire`) or follows
(`Join`, `Resume`). Each action is one section of `Cache._lock`, one return of Jira, or one event of the
world: a write of this program and, separately and later, its invalidation; a deletion and its `forget`;
an edit by somebody else; a denial; a restart, which keeps the tables and drops everything else. List
reads fill rows by `Cache.set` in two steps (`FetchMany`, `SetThrough`) without the fence; `ThroughKeys`
are the keys they fill. `cut`, `floor` and `forgotten` are history variables for the properties.

Left out: the epochs of JQL generations (`JqlCache`), producers that read other keys and hand their age up, the size
budget of Confluence bodies, the tables of snapshots, recent items and read states.

### `UpstreamCall`, `SsoSession`, `SsoSessionProofs`

`UpstreamCall` is what a caller may rely on: its request is sent at most once and never after it was
answered; a refused one was not sent; one answered while its request is still out is told so.
`SsoSession` has the callers with their two time limits (the `clock` of a request is early, late or
overrun, and `RunLate` moves it on), the owner thread from taking a job to delivering its
result, the flags `started`, `cancelled` and `dispatched` of a job under the job's lock, and the retirement
step by step: set the event, drain the queue one job at a time, put the sentinel.

Left out: launching and relaunching the browser beyond "takes time and may fail" (`Recover`), what the
job does with a response, renewal and storage snapshots.

### `ProviderStartup`, `ProviderStartupProofs`

`JiraClient.provider` in its sections: the look without the lock, the section that takes out a broken
provider and starts or joins an attempt, closing the old browser and launching outside the lock, and the
section that publishes the provider or finds the attempt obsolete. `reset_provider` after a login is
`Login` (the window saves its session file), `Reset` (the locked section) and `ResetClose`.
`_persist_jira_session_state` reads its two fences, captures cookies, and saves if both still hold.
Sessions are numbered by the login that wrote them; `fresh`, `floor`, `known` and `lost` are history
variables. A thread asks for a provider once, and the attempt and the browser it may create bear its name.

Left out: silent renewal, which passes the same fences.

### `JqlCache` (proofs in `ReadProofs`)

One leaf of a query and one issue. A search captures the generation and the fence, finds or fetches the
leaf, records its edges, hydrates the row, publishes and answers the snapshot, each a step; a command
writes at Jira, finds the leaves it can change in the reverse index, evicts them, invalidates the row and
ends the generation with a new epoch. A version is the number of writes Jira had taken, so that "older" is
a comparison. Beside the searches, list and batch reads (`ReadPage`, `Prefetch`) fill the row that everybody
shares by `Cache.set`, without a fence (`SetRow`; `jira/jira_client.py:1747` and 1897, and in the same way 1998 and
4968). What they store after a newer version was invalidated is the history `putBack`: `Hydrate` takes such a
row for the one of its generation, and `SearchSeesWrites` excepts exactly these (finding 2).
Left out: the parser, groups of several leaves, cursors, rows with another projection.

### `SessionVerdict` (proofs in `DesktopProofs`)

The mark, the memo of the last probe and its gate, and a probe step by step: the check of `/myself`, the
judgement of its answer against the provider's generation, the silent renewal by its outcome, the second
check, the storing of the result. Ordinary identity reads set and clear the same mark, logins replace the
session between any two steps, and the network and the session change at will.

### `LoginRequests` (proofs in `DesktopProofs`)

Attempts with number and state; a request is dispatched to the window (an event, and `open_window` as the
tray installed it) and to a timer. The window looks at its own pace, may be opened by either, and its user
may close it; the fallback thread claims what is left. `claim` is the only thing that excludes two logins.

### `AuthRecovery` (proofs in `DesktopProofs`)

One page: requests that are repeated after a recovery (`Reads`) and requests that are not (`Writes`), the silent
probe they share, the probe of a returning user, the interval with one poll at a time, and the login button.
`generation` and `_authGeneration` only ever serve to compare, so the module keeps what the comparison says:
which requests (`behind`), whether the probe (`overtaken`), whether the poll (`pollIsOld`) began before the
last change. JavaScript runs one task at a time, and an action is a task with the promises it settles.
The fifteen minutes of a watch pass at any time (`DeadlinePasses`, which the interval notices at its next tick,
`WatchExpires`), whether or not the session is back: `NoticeIsLifted` promises nothing for a session that
returns in the last interval, or while the machine sleeps over the deadline. The notice then stays until a
click, a login or some other `auth-ok`.
The session comes and goes at any time; a server that is down answers as one without a session.
Left out: refusals of Confluence, other windows of the profile (each is such a page), the progress bar.

### `HierarchyRead` (proofs in `ReadProofs`)

`get_descendants` reads a ticket, then its children, level by level. A read answers with a membership the
ticket had at some time since the oldest cached one, fails into the ledger, or refuses the whole call for
want of a session; meanwhile others move tickets. Left out: which parent, depth and epic a row shows, with the
ledger entries that adds, and the paging of rows and ledger.

### `ConfluenceBatch` (proofs in `AgentProofs`)

Calls of `bulk` with one mutation id go through the rows: skipped if what a row needs is not among the
good ones, else through `execute` (lock, receipt, handle, then check, request, cleanup) and, for a move, the
verification under its own receipt. The receipt is taken from `MutationReceipt` as far as Confluence uses
it: its readers never prove absence, so nothing is ever written again. Confluence applies or refuses a request
at any later time; a PUT names the version it makes, a DELETE does not. Other people edit and move pages.
A batch has distinct operations that need only earlier ones (`BatchAssumption`), since `bulk` rejects any other
before it writes (`services/confluence_organization.py:276`).

Left out: the dry run with its projected pages, cycles and positions, the manifest that pins a batch.

### `BulkRun` (proofs in `BrowserProofs`)

The browser with its run, the durable copy of it, and where `executeBulkRun` is between its two saves; the
endpoint, which serves each row of a chunk under a receipt that expires; Jira. The window closes at any point
and is opened on the durable copy. Days pass; `Window` and `Life` are the seven days of the browser and
the eight of the server.

### `CacheMemo` (proofs in `BrowserProofs`)

A row is an object with a revision. A request belongs to the object it was made for and its answer looks at
whether that object is still the row of its path. `DisplayNotOlder` compares what is kept and what
was told to views with the last write of the window.

### `WorkspaceConfig` (proofs in `ReadProofs`)

Screens read both files with their revision, save one of them and repeat what got no answer; the lock, the
revision check and the early return for what is already there are the steps of `_save_locked`. Lookups go
through the memory of `settings.py` without a lock. The files are what they hold, the revision is that state.

### `Approval`, `AgentTurn`, `ToolLane` (proofs in `AgentProofs`)

`Approval` is one card: its capabilities, what the user saw when approving, and executors that look at it,
consume it and write, between steps of each other. `AgentTurn` has the lock with the thread that owns it,
the thread each turn runs in now, the checkpoint as a number, and the book of challenges with their leases; a
stream gives its thread back at every event. A turn that ends reads the checkpoint to see whether it had gone
on; where that fails it uses the answer up to be safe (`session.py:840`), which the history `unread` records and
`AnswersAreKept` allows for. `ToolLane` counts the permits of the bridge and of a lane, and
has a request disconnected and its waiting coroutine cancelled at any point.

### `Launcher` (proofs in `DesktopProofs`)

A process of `run.py` is the supervisor of a start or its worker, which is the same program and goes through
`main` again: look for a running application, compare revisions, have an older one quit, wait for the port, check it,
and supervise or serve. A restart after an update (`LAKE_RESTART`) does not look, and its workers inherit
that. Each look at the port or at the other application is a step. A worker that fails is killed with its job, the
updater it had begun included, and replaced up to the limit; one that ends normally takes its supervisor along.
"Twelve seconds are enough for a process that is leaving" and "a minute is enough to begin" are the assumptions
on time. Left out: windows, installation of packages, the launch under another process name, starts without a
tray, answers lost over the loopback.

### Sums

`MCProtocols`, `MCReads`, `MCReaders`, `MCWrites` and `MCSettling` check several machines in one run. They share no
variable: `focus`, chosen in the initial state, says which one moves, and the others rest in one initial
state in which nothing is owed to anybody. A sum has the behaviours of each machine, not of their product.

## 3. Runs

All runs use two workers. Deadlock is checked except where a bounded number of calls ends and the
system really stops (`settling`, `sso_queue`, `protocols`, `provider_login_lost`).

| run | instance | what it shows |
|---|---|---|
| `receipt_safety` | 1 key, 3 handlers, 2 payloads, 2 request names, refused storage; grace 4, attempt, settling and read 1 each; page: a read and a write | at most one object, and every step is one of `CreateOnce` (results are final); a login is asked for when one is needed, and not by a late probe |
| `settling` | receipts: 1 handler, working storage; logins: 2 services, 3 attempts, a tray; page: without requests | every handler answers, an open mutation that is retried is settled, a definite failure means nothing; one login window per service, every attempt ends; the page's notice goes when the session is back |
| `receipt_late_loss` (violation) | 1 handler, 2 request names, grace 1, attempt 2, settling and read 1 | finding 1 |
| `reads` | cache: 2 keys, one also filled by list reads, a reader and the refresher, generations 0 to 2, one tick; the same with 2 readers of one key, one of them strict, that share flights and stale copies, generations 0 and 1; searches: 2, with list reads, 2 writes and 1 restart; workspace: 2 screens, 1 lookup, 2 plans, 2 rosters, 2 replacements | no resurrection, read your writes, what is forgotten stays so; a search sees the commands before it; no save is lost unseen |
| `readers` | cache: 1 key, 2 readers and the refresher, a denial or a refresh-all, one tick; verdict: a forced probe and the recheck, 1 login | honest dates, every read is answered; no login is asked for without two refusals, a dead mark heals |
| `cache_through` (violation) | 1 key filled by list reads | finding 2 |
| `cache_denied` (violation) | 2 keys, 2 readers | finding 3 |
| `sso_queue` | a write and a read, a queue of one place, a closing thread, fairness of the callers | nobody stranded, the owner is woken, every step is one of `UpstreamCall`, and callers are answered though the browser hangs |
| `provider_login_lost` (violation) | 1 caller, 1 login | finding 4 |
| `protocols` | provider: 2 callers, one of which also persists cookies, 2 logins; bulk: 2 rows in one chunk or two, 2 runs, 3 requests, 3 days with `Window` 1 and `Life` 2; approval: 2 executors, 2 payloads; turns: an ordinary and a streamed one, 2 threads, 2 challenges, 3 checkpoints; lane: 3 requests, bridge of 2, lane of 1; display cache: 2 paths, room for 1, 2 revisions, 1 write; batches: 2 calls, 3 batches of two rows that depend, 2 pages of up to 3 versions; hierarchy: 4 tickets in 4 shapes, one of another project, one an epic, 2 moves; launcher: 3 starts, one of which runs an older revision, 1 restart remembered, 1 fault, 1 update | the properties of each |
| `agent_turn_lock` (violation) | an ordinary and a streamed turn, 2 threads | finding 5 |
| `workspace_people` (violation) | 1 screen that saves twice, 2 lookups | finding 6 |

Why the bounds are enough to see the interesting cases:

* *Receipts.* Keys do not interact (each has its lock, row and handle), so one is enough. Three handlers
  let two retries compete while a third one's worker is still out; two payloads make an id reused; two
  request names are what `AtMostOneObject` needs to fail. Time saturates at the grace period,
  so the state space is finite without a state constraint.
* *Cache.* One generation more than a stale producer needs (0 to 2), two keys because the fence is shared,
  one version per resource beyond the initial one, and two readers for joining. The product of all this is too
  large, and `reads` looks at the cache twice. With two keys and one reader (`TwoKeys`) a stale row is dead at
  once, so that purges remove rows, and everything that can happen to a key happens. With two readers of one
  key (`SharedFlights`) a stale row is still shown (`DisplayTtl` 1 above `Ttl` 0): they join each other's flights and the
  refresher's, or must not, since a command wrote and invalidated between them. In `readers` nothing dies
  either, and denials reach two readers who both show or wait. `PurgeEvery` is 2 and 1, so that a store with
  and without a purge occurs. `MaxFence` stops new reads, not the ones under way.
* *Searches.* Two searches share a leaf and a generation; one command that writes twice or two that write once
  end it between any two of their steps; while the second write goes on one of the searches rests. One of them
  also takes the part of the list reads, during the first write and before a restart: that is enough for a row to
  be put back and taken by the other.
* *Workspace.* Two screens, each with a display of its own; two replacements bring a file back to what
  it was. The run starts without a task, so that creating it is among the saves.
* *SSO.* With one place every second job, and every sentinel, meets a full queue. Two requests cover
  the one that is served and the one behind it, of two priorities.
* *Provider.* Two callers race for a launch, join each other's, or discard one; two logins race each other.
  A third caller changes no state another could not (16 million states and growing without a
  violation). Savers exclude each other, so one is enough. The proofs cover every number of callers,
  savers and logins.
* *Verdict.* Two probes meet at the gate, and the login falls between any two steps of either.
* *Logins.* The third attempt of a service meets the timers of the first two.
* *Bulk.* A first request, its replay and a new run for what failed are three requests; with one day between
  `Window` and `Life` a replay on the last day, and a forgotten receipt, occur.
* *Page.* A read and a write join one probe, or one of them starts it and the other finds its result. Its
  liveness does not depend on requests: they share only the notice, which any refused probe raises.
* *Hierarchy.* The shapes have a ticket reached twice, a cycle, and a ticket of another project below an epic and
  below a task; two moves take a ticket out of a level that was read, or to and fro.
* *Batches.* A call that loses an answer and one that repeats or overtakes it; a third version of a page is
  what other people make after the row landed. The three batches have all four operations and the
  dependencies that matter: a parent emptied and trashed, a page moved and edited, restored and filled.
* *Launcher.* Two more starts race each other for the place of the one that runs; one is the update. With
  a limit of 1 a supervisor both replaces its worker and gives up. Four
  starts (2.0 million states) and two faults show nothing else.
* *Turns, approval, lanes, display cache.* Two of each is what a race needs; three MCP requests let the bridge
  refuse one while the lane refuses another; three checkpoints carry a turn past a question.

Symmetry is used over handlers, request names and readers, never in a run that checks a liveness property.

### Fairness

* `SharedCache!Fairness`: threads run (weak fairness of each thread's steps, of the refresher taking a
  job). A producer returns because every Jira call has a time limit (`SsoSession`, `CallersAreAnswered`).
  The world owes nothing.
* `SsoSession!FairSpec`: callers run and their clocks pass, because both waits have a time-out
  (`done.wait(queue_timeout)`, `done.wait(run_timeout)`). The owner gets **no** fairness: it may hang.
* `MutationReceipt!Fairness`: handlers run (weak). For `OpenIsSettled` the surroundings are trusted too:
  the user retries what is open, Jira's reads are conclusive, requests are decided and storage and cleanup
  succeed infinitely often if they can (strong fairness of those actions), because "settled in the end" is
  promised to nobody who stops retrying. The clock ticks only while a receipt exists.
* `LoginRequests!LoginFairness`: dispatches run, timers fire, and a login that was begun ends (the login
  functions have a time limit). The window owes nothing: it may be closed or never look.
* `AuthRecovery!AuthFairness`: the interval fires, polls are answered, and not every one of them is lost
  (weak fairness of the three together; the server runs on the same machine). The session owes nothing: the
  promise ends when it is lost again, and when the watch has reached its deadline.
* `SessionVerdict!VerdictFairness`: a probe's own steps are strongly fair (the queue of the provider does not
  refuse it for ever), the recheck is started again by its timer, results age.

### Findings

1. `receipt_late_loss`: the grace period counts from the start of the attempt
   (`jira/mutation_recovery.py:250`), while the comment at line 50 speaks of the time since a lost
   response. A write that queued or uploaded longer than thirty seconds loses its response with the grace
   already spent (the queue and the run may take thirty seconds each, an upload fifteen minutes), and an empty
   read at once authorises another write. The trace: an attempt begins, its request is sent, a tick passes, the
   answer is lost, and with no further tick a retry reads an empty page and writes again under a grace of one tick.
   What depends on it is stated, and proved, under `AbsenceIsTrue` (section 4).
2. `cache_through`: list and batch reads store rows with `Cache.set`, which ignores the fence
   (`jira/jira_client.py:1897` and four more places); a row read before a write comes back after its
   invalidation. Keys filled like that are excluded from `NoResurrection`, `ReadYourWrites`,
   `ForgottenStays` and `AgeIsHonest` (`FencedKeys`). Searches are reached too: `_hydrate_jql_leaf_rows` hands such a
   row to a search that begins after the write, and `SearchSeesWrites` does not hold without its exception for it.
3. `cache_denied`: a denied refresh forgets its key only while the one fence has not moved, and forgetting
   moves it: of two keys denied in one generation the second keeps its display copy
   (`infra/cache.py:260` against the docstring at line 600).
4. `provider_login_lost`: cookies whose fences are read between a login's save and its
   `reset_provider` pass both fences and replace the new session (`jira/identity_service.py:289` against the
   docstring of the function). `LoginIsKeptOutsideReset` states what does hold.
5. `agent_turn_lock`: the lock of a conversation is a reentrant lock of a thread, and a streamed turn runs in
   another thread of the pool at each step (`agent/workflow/session.py:1316` against the comment at line
   894): a second turn enters beside it, or the stream cannot release it. `AnswerIsUsedOnce` and
   `AnswersAreKept` hold all the same.
6. `workspace_people`: `load_people` stores what it read after a save has emptied the memory
   (`infra/settings.py:344` against the docstring at line 448), and the people from before are answered
   until the next save.

Met while modelling, and not the subject of a run:

* A probe's verdict "alive" that is stored after another thread marked the session dead hides the mark for up
  to twenty seconds, against the comment at `jira/identity_service.py:75`. `DeadHeals` allows for it.
* `bulk_create` catches every error of a row (`jira/jira_client.py:3439`): a SQLite error after Jira's answer
  becomes a plain failed row. `FailedMeansNothing` is checked with working storage for the same reason, and
  `BulkRun` has no storage errors.
* Issue links and remote links invalidate the cache inside the write callback itself (`jira/jira_client.py:4192-4232`,
  called through `services/ticket_commands.py:266-294`), not in the cleanup: a local error there, after Jira took the
  write, is taken for a definite failure and the receipt is deleted (`jira/mutation_recovery.py:331`).
  `MutationReceipt` models writes whose callback ends with Jira's answer, and `StoreFails` does not cover this.
* A row of a Confluence batch is told "failed" when 401 or 403 comes back while the outcome of an earlier
  update is looked up (`services/confluence_commands.py:234`, `confluence_organization.py:345`), although it
  may have been written; `skills/ltm-confluence-authoring` separates the two. `FailedMeansUnwritten` excepts
  those rows. A request refused by the queue after the write flag was set (`confluence_commands.py:115`) leaves
  a receipt that nothing can settle, since no reader proves absence.
* The revision of the workspace files is a hash of what they hold, so that a file that came back to an
  earlier state accepts a save made from it: a repeated creation makes a task again that another screen had
  deleted. And a save repeated after a crash between its file and the emptying of the memory returns early
  and empties nothing.
* `requireLogin` in `static/lib/apiAuth.js` returns before its watch is started when a login was already
  announced: after the fifteen minutes of a watch, a refusal neither starts another nor brings a notice back
  that the user put away, until some `auth-ok`. `NoticeIsLifted` therefore speaks of pages that watch, up to the
  deadline, which the interval compares before it polls (`static/lib/api.js:244`): a session that came back after
  the last poll is not noticed.
* A turn whose preparation fails gives its answer back without looking at the checkpoint
  (`agent/workflow/question_receipt.py:455`). Nothing of the graph has run by then, and `PreparationFails` does the same.
* A repeated read that is refused raises the notice without asking whether a login took place meanwhile
  (`static/lib/api.js:58`); the watch lifts it again. `NoLateProbeAsks` is about probes alone.
* The login button follows one attempt (`LoginOverlay.js:25`): if another client's attempt takes the place of
  one that failed before the next poll, the button stays disabled until some `auth-ok`.
* `get_descendants` calls an answer complete although a ticket that moved during the traversal may be in none
  of the levels it read; the answer says `live_hierarchy; no frozen snapshot`. `NothingBelowIsLost` claims
  only what was below the ticket all the time. A cycle closed through a ticket seen on another path is not
  named as one in the traversal.
* `clearPendingMutation` (`static/lib/api.js:295`) does not compare the id: of two calls of one scope the late
  definite failure of one removes the id the other still needs.
* A start right after the user quits may find the leaving application, fail to read its revision, take it for
  one that goes on and end (`launcher/instance.py:88`): nothing runs then, and nothing is said. A lost answer to
  `/api/app/quit` has the same effect. `OneApplicationStays` excepts what follows a quit by the user.
* The workers of a start after an update wait for the port instead of looking: if another start took it
  meanwhile they fail until the supervisor reports the recovery limit, where an ordinary start would end quietly.
* The process may end after Jira took a write and before its keys are invalidated
  (`jira/jira_client.py:4529`): the older rows are then served as fresh until their TTL ends. `SharedCache`
  reaches this (`Restart` drops `written`), and no property forbids it, since no invalidation took place.

## 4. Proofs

Every theorem holds for all values of the constants under the named assumptions of its module. Each
component has one inductive invariant; a lemma per action shows that it is preserved, and the
properties follow. The larger invariants were model-checked on small instances before they were proved. The
safety properties of every passing run are proved.

| module | components | safety properties of the runs that it proves |
|---|---|---|
| `MutationReceiptProofs` | mutation receipts | `AtMostOneObject`, `FailedMeansNothing`, `ContractSpec` (`CreateOnce`) |
| `SsoSessionProofs` | SSO provider | `NoneStranded`, `OwnerIsWoken`, `ContractSpec` (`UpstreamCall`) |
| `ProviderStartupProofs` | provider of a client | `NoneAbandoned`, `PendingIsUnderWay`, `SingleLaunch`, `NewLoginIsUsed`, `LoginIsKeptOutsideReset` |
| `SharedCacheProofs` | read cache | `NoResurrection`, `ReadYourWrites`, `ForgottenStays`, `AgeIsHonest` |
| `ReadProofs` | JQL searches, workspace files, hierarchy reads | `SearchSeesWrites`, `NothingUnseenIsLost`, `NothingBelowIsLost` |
| `AgentProofs` | tool lane, approvals, turns, Confluence batches | `CapacityIsKept`, `WrittenAsApproved`, `LoserLeavesComment`, `AnswerIsUsedOnce`, `AnswersAreKept`, `OrderIsKept`, `SuccessIsKept`, `FailedMeansUnwritten` |
| `BrowserProofs` | bulk runs, display cache | `OneTicketPerRow`, `NothingSentIsForgotten`, `DisplayNotOlder` |
| `DesktopProofs` | logins, probe, page, launcher | `OneLoginWindow`, `VerdictIsEarned`, `LoginIsAskedJustly`, `OneApplicationStays` |

* **`MutationReceiptProofs`.** The theorems are of two kinds. *Whatever the time limits are* (`BaseInv`): whoever is
  past its entry checks holds the lock and finds the receipt it left (`LockOK`, `PhaseOK`), what a read found
  is still there when it is acted upon (`FoundOK`), and a handle or a recorded result has its object (`HandleOK`,
  `ResultOK`). From it follow the type, `NoOverlappingWrite`, `ClosedHasObject`, `OkMeansCreated` and
  `ResultIsKept`. *Where a proven absence is true* (`Spec /\ []AbsenceIsTrue`): a waiting handler or a worker owns
  the only request of its key, and there is at most one, of the bound payload (`OneRequest`). From it follow
  `AtMostOneObject`, `NoReceiptNoRequest`, `ClosedIsFinal`, `FailedMeansNothing` (with working storage; without
  it every definite failure but that of the storage itself) and the refinement of `CreateOnce`. The hypothesis is
  what `execute` asks of its reconcilers ("ABSENT only after a complete authoritative read") together with what
  the grace period is for, a request that such a read does not show yet; a false absence is then
  the only way to a second object: lost answers, late
  workers, crashes, failing storage and competing retries are not enough. It is not an assumption on constants
  and the code does not establish it by itself. `GraceCovers` says which grace would
  (`GraceSuffices`, by the arithmetic of `TimeInv`: a request nobody attends is decided within `Settle`); the thirty
  seconds of the code, counted from the start of the attempt, do not (finding 1).
* **`SsoSessionProofs`.** The invariant says where a job can be (`JobOK`), what the owner's place says of
  its job (`OwnerOK`), that the job of an ended caller is cancelled, or sent and reported (`EndedOK`), and
  that the queue of a retired provider has somebody who will still empty it and then wake the owner
  (`RetiredOK`). Finiteness of the queue is part of it, because `TypeOK` counts places. From it follow the
  type with the queue's limit, `BusyIsUnsent`, `RunningWriteIsPending`, `NoneStranded`, `OwnerIsWoken` and
  the refinement of `UpstreamCall`.
* **`ProviderStartupProofs`.** The invariant ties the attempt under way to its owner (`OwnerOK`), the place
  of a caller to its future and browser (`PlaceOK`), and excludes a provider beside an attempt or a cooldown
  (`SharedOK`). From it follow the type, `NoneAbandoned`, `PendingIsUnderWay` and `SingleLaunch`. A second
  invariant (`Fresh`: as long as no login was lost, the store, the provider, the session of the
  attempt under way and what each caller waits for are as new as the last finished login) gives
  `NewLoginIsUsed`.
  What one saver may do to the file gives `LoginIsKeptOutsideReset`: a save goes through only while its saver's
  revision is the current one, so a login can be replaced only by a saver that began after it was saved
  (`NotOlder`), and before its reset moves the revision (`RevisionOK`, `Written`).
* **`SharedCacheProofs`.** `NoResurrection` says nothing of a producer that is still out, and is lost if one that
  began before an invalidation may store. The invariant therefore says what each producer carries
  (`ProducedOK`: if its key was not invalidated since its fence, its version is at least the `floor` of the
  key, and the key is not forgotten), that a follower waits for a producer of its own key and generation which will
  satisfy it (`WaitOK`), that the table of flights is exactly that of the running producers (`FlightsOK`), and
  what rows and display copies may hold (`KeyOK`). Beside the four properties of the runs it gives
  `SingleFlight`, `FollowersHaveOwner` and `OneCopy`, which no run checks. Keys that list reads fill are outside
  `NoResurrection` and `ReadYourWrites`, as they must be (finding 2). `KeysAssumption` and the other assumptions
  only type the constants.
* **`ReadProofs`.** *Searches:* versions of different generations are compared through `floors`, what was
  written for certain when a generation began; the invariant says there is such a function below which nothing
  falls that is kept under a generation (`FloorsKeep`), and that what is kept regardless of generations, the row, is
  stored under a fence that each command moves after its write (`FencesKeep`, `CommandOK`), or by a list read that
  is older and then recorded in `putBack`: rows are bounded by `NotBehind`, leaves without an exception. *Files:* at most one
  screen is inside `_save_locked`, and what it decides on is what the files hold (`SaveOK`). *Hierarchy:* a
  ticket that was met is a row, is named as unread or waits to be read, and the children that a row kept
  throughout have been met (`TreeInv`); at the end the rows and the named tickets are closed under those edges, and
  so hold everything below the root, whatever the shape, with cycles and tickets that move.
* **`AgentProofs`.** *Lane:* the free permits and the holders always add up to the capacity (`Balanced`). *Approval:* once
  a card is half consumed one executor is between its writes and knows what it saw (`CardOK`, `ExecutorOK`,
  `WritesOK`). *Turns:* an answer that led on has left a challenge older than the checkpoint, and a turn
  that still holds a lease is the one that used it (`UsedOK`, `BookOK`, `HolderOK`); `BookOK` allows for an
  answer that was used up because the checkpoint could not be read. *Batches:* a receipt is right about
  Confluence (`RowOK`): without one the row is neither there nor on its way, with a closed one it is there.
  This holds because calls that work on a row exclude each other (`OneHolder`), a receipt is removed only
  while its request was not sent or was refused, and a pending one is closed by an answer or by the
  marker that the row itself left (`MarkersOK`). What was told completed has a closed receipt, and so have
  its needs (`LedgerOK`). `BatchInvariant` states the invariant as a theorem.
* **`BrowserProofs`.** *Bulk runs:* whatever was begun and has no ticket yet belongs to the run in the
  draft (`RunsOK`, `DraftOK`); a row is sent again only while the receipt of its first attempt lives (`ServerOK`, from
  `Window < Life`), and may get a new id only when nothing was begun of it (`AskOK`). *Display cache:* an answer that still
  finds the row that asked for it was asked for after the last write, since a write takes the row away and
  revisions are not used twice (`PathOK`, `RequestOK`).
* **`DesktopProofs`.** *Logins:* each login under way holds its attempt "running" and bears its number
  (`LoginOK`). *Probe:* the prober behind the gate has counted exactly the refusals of its place, of a session that
  no login had replaced when they were judged (`ProberOK`). *Page:* a probe's "needLogin" tells of a dead session, or was
  overtaken and will not be believed (`RecoveryInv`). *Launcher:* every start is in order (`StartOK`: a worker on its
  way has its supervisor, one process has the port); some start serves or will (`Survives`), which alone is not
  inductive, since a start that finds another one answering gives up. `Replaced` closes the gap: while the one
  that has the port is leaving, a process waits for that port, and one of an update waits for its own
  updater, so that the recovery which kills an updater's job frees the port too.

`ClosedHasObject`, `ClosedIsFinal`, `NoReceiptNoRequest`, `NoOverlappingWrite`, `OkMeansCreated`, `ResultIsKept` and
the type of the receipts, `BusyIsUnsent`,
`RunningWriteIsPending`, and the types of the provider and of the queue are proved and no longer part of a
run: the runs check the refinements and the properties behind which they stand.

Not proved, only model-checked: every liveness property (`HandlerAnswers`, `OpenIsSettled`, `LoginEnds`, `NoticeIsLifted`,
`ReadsAreAnswered`, `DeadHeals`, `CallersAreAnswered`), since liveness under fairness is outside what the prover
handles, and the six violations. ENABLED is outside it too: `OneApplicationStays` says "a process can still go on"
by the guards of `LauncherRuns` (`CanRun`), which are those of the actions: the two agree in all 43,000
states of the launcher's instance. No module uses a RECURSIVE operator.

The assumptions on constants only type them, except for `Window < Life` in
`BulkAssumption` (the seven and eight days of `bulkCreateRun.js:26` and of the receipts) and `BatchAssumption`.

## 5. Plan

What is left to prove:

1. What a run shows beside its safety properties and only by example: that the receipts of `ConfluenceBatch` and of
   `BulkRun` are instances of the promise of `CreateOnce` (a refinement of each by row), so that "at most once" is one
   statement for all three.
2. Positive counterparts of the findings: where the people of the last file are kept when no lookup overlaps
   a save, and how old a row of a key filled by list reads can become.

Models that would come next: the pending ids of the browser (`mutationId.js`, `transitionReq`) as the client of
`MutationReceipt`; hierarchy changes with the wizard's lock; the dry run of a Confluence
batch against its execution.
