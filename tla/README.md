# SOTENoffice in TLA+

This directory is the verification development of SOTENoffice: its backend
(`src/backend/app`), its web frontend (`src/frontend`) and its mobile chat app
(`src/h5-app`). It models the parts of the program whose correctness depends on
interleavings, failures or long sequences of calls, checks them with TLC on
small instances, and proves the central ones with TLAPS for every size.

Files: `X.tla` is a model, `MCX.tla` its finite instance for TLC, `<run>.cfg`
one run, `XProofs.tla` the theorems about `X`. `PROJECT.json` maps every
definition to the lines it models, and lists runs, mutants, findings, hazards
and theorems.

## 1. The system

SOTENoffice is an office for AI agents: humans and agents work on *boards* of
tasks; agents live in *gateways* (external processes) that the backend talks to
by RPC and WebSocket; mobile users chat with agents through the backend.

| Component | Source (in `backend/app/` unless named) | State | Operations | Talks to |
|---|---|---|---|---|
| Task board | `api/tasks.py` (agents reach it through `api/agent.py`) | rows `tasks`, `task_dependencies` | create, PATCH by worker / lead / admin, delete, reset of dependents | approvals, board rules, activity log, gateways |
| Dependency validation | `services/task_dependencies.py` | none (reads the graph) | cycle search, replacement of rows | task board |
| Approvals | `api/approvals.py`, `services/approval_task_links.py` | rows `approvals`, `approval_task_links` | create, approve, reject, reopen | task rows (row locks) |
| Board rules | `api/boards.py` | four rule columns of `boards` | PATCH by an admin | read by the gates |
| Board websocket | `api/ws_board.py`, `services/realtime/` | clients, Redis channel per board | snapshot, move, create, forward | task board, Redis |
| Work queue | `services/queue.py`, `queue_worker.py`, `services/webhooks/`, `api/board_webhooks.py` | Redis list and sorted set, stored payloads | ingest, drain, pop, handle, retry | database, gateways |
| Gateway relay | `api/ws_gateway.py`, `services/ws_relay/` | pool of sockets, `gateways.status` | handshake, register, replace, clean up, forward | H5 chat, Redis |
| Gateway registry | `services/gateway_registry.py` | `gateways` rows | register, heartbeat, deregister, stale sweep | relay |
| H5 chat | `api/ws_h5.py`, `services/ws_relay/` | user sockets, `h5_chat_sessions` | connect, send, receive | gateway relay |
| H5 tokens | `services/h5_user_service.py` | refresh tokens | login, rotate, revoke | - |
| Pipelines | `services/pipeline_engine.py` | runs and stage executions | start, advance, cancel | tasks, webhooks |
| Proactivity | `services/proactivity/` | rules, events, suggestions | publish, match, suggest, decide | Redis pub/sub, SSE |
| Agents, provisioning | `services/openclaw/` | `agents` rows, workspaces | provision, wake, delete | gateways |
| Boards, organizations | `services/board_lifecycle.py`, `services/organizations.py` | rows | delete a board, invite, join, leave | gateways |
| Knowledge, teams, calendar, tags, memory, skills, metrics | the rest of `services/`, `api/` | rows | single-transaction CRUD | - |
| Event streams | the `/stream` endpoints of `api/tasks.py`, `approvals.py`, `agents.py`, `board_memory.py`, `board_group_memory.py` | a cursor per open stream | poll every two seconds, send what is new | the database, the pages |
| Chat client | `frontend/src/lib/ws-client.ts`, `hooks/useWebSocket.ts`, `components/h5/`, and their copies in `h5-app/src/` | socket, timers, status, messages | connect, disconnect, send, reconnect | H5 chat |
| Board page | `frontend/src/app/boards/[boardId]/page.tsx` | lists of tasks, approvals, agents, chat; selected task, its comments, dialogs | snapshot, streams, create / move / save / delete / decide / post | event streams, REST, the URL |
| Group and activity pages | `frontend/src/app/board-groups/[groupId]/page.tsx`, `app/activity/page.tsx` | chat and notes; a feed of changes | history query or seeds beside streams | event streams, REST |
| Onboarding dialog | `frontend/src/components/BoardOnboardingChat.tsx`, `api/board_onboarding.py` | sessions of a board; the session shown, what it waits for | start, answer, add context, confirm; poll; posts of the agent | the agent (through its gateway), the board's goal |
| Other pages, generated API client | the rest of `frontend/src/`, `h5-app/src/` | forms, query caches | one request at a time | REST |

What is hard about it:

* **Stale rows.** A PATCH loads the row when the request starts, validates on
  that copy and commits changed columns later. No row has a version, most are
  read without a lock.
* **Rules over several tables.** "Done needs an approved approval", "one pending
  approval per task" and "no status change while one is pending" relate rows
  that different handlers write.
* **Handlers with several transactions.** An update commits the task, then the
  comment, then the activity and the reset of dependents.
* **A queue without acknowledgement**, drained by three Redis commands, with
  retries in a sorted set and workers that block.
* **Lists kept current by three writers.** A page fills a list from a snapshot,
  from a stream and from the answers of its own requests, in any order; the
  stream resumes at the newest stamp of the list, and rows commit in another
  order than their stamps.
* **Answers that come late.** A handler of a page continues after an `await` with
  whatever is selected, mounted or connected by then.
* **One event loop**: coroutines interleave at every `await`, and in-memory
  registries are read before an `await` and written after it.

The hazards are listed, with their lines and the properties that watch them, in
`PROJECT.json` under `hazards`.

## 2. The modules

### TaskBoard, TaskGraph (`MCTaskBoard`, `TaskBoardProofs`)

`TaskGraph` holds what `TaskBoard` and `CycleSearch` share: the tasks of a board
and what it means that their dependencies have no cycle.

State: `tasks`, `row` (status, assignee, in_progress_at set or not), `deps`,
`approval` (with links), `rules`, `agents`, and `req`, the memory of a request
slot. A PATCH is `Load`, then `Validate` if it carries dependencies (they are
checked on the graph committed at that moment), then one of `WorkerUpdate`,
`AdminUpdate`, `LeadUpdate` (gates, first commit) and, for workers and admins,
`Reconcile` (the later transaction that resets dependents) and `Leave`. Other
slots run between these steps; `Abandon`, and `Leave` before `Reconcile`, are
errors and crashes. `Flush` is what the ORM does: it writes only columns whose
value differs from the loaded one, which is why two stale updates merge column
by column. `SetDeps` does the same to dependency rows: those others committed
since `Validate` stay, and the constraints of the table (`EdgesFit`) stop a
commit that repeats one or names a deleted task.
A request keeps the actor it was authenticated as (`callers`): an agent's own
request goes on when the agent has been deleted meanwhile, and all that keeps
its id out of a task then is the foreign key of `assigned_agent_id`
(`ForeignKeys`), which fails the commit that writes it.
`CreateTask`, `DeleteTask`, `DeleteAgent`, `CreateApproval`,
`UpdateApproval`, `SetRules`, `SocketMove`, `SocketCreate` are the other writers.

Abstractions: titles, priorities, tags, custom fields, comments and
notifications are left out, so is the comment that entering review requires
(a 422 that leaves the state alone, i.e. `Abandon`). Timestamps are kept as set
or NULL. An approval's conflict check and its insert are one step here, which
`ApprovalLocks` splits.
A gate's queries and the commit after them are one step: the handlers that
change approvals and rules never read a task's status, so an update that commits
just after a verdict or a rule changed is equivalent to one that came just
before. Where that argument fails, because both sides read what the other writes
(the pending gate), `ApprovalLocks` splits them; where the update decides on the
row it loaded, `req` keeps the stale copy.

### ApprovalLocks, ApprovalPromise (`MCApprovalLocks`, `ApprovalLocksProofs`)

The approval gate statement by statement under PostgreSQL's READ COMMITTED:
transactions read (`Begin...`), lock task rows in order of id (`LockRow`), check
for conflicts (`Check`), commit (`Commit...`) or roll back (`Abort`).
`lock_tasks_for_approval` takes the locks of an approval; a status change takes
its lock by the UPDATE that SQLAlchemy flushes before the gate's first query. An
approval created approved or rejected locks nothing beforehand: each link it
inserts takes the key-share lock of its foreign key, in the order of the payload
(`LinkRow`). It waits for a `SELECT ... FOR UPDATE` of the row, and the other way
round, but not for an UPDATE of columns that are no key.
`ApprovalPromise` is the abstract gate with no transactions: an approval opens
only on tasks without one, and a task moves only without one. `PromiseKept` is
`ApprovalPromise!Spec` under the mapping `pending[t] = PendingOn(t)`.

### CycleSearch (`MCCycleSearch`, `TaskBoardProofs`)

`_has_cycle` call by call: the Python recursion is an explicit stack, the
iteration over a `set` is any order, and the initial states are all graphs. The
reference definition of a cycle is a nonempty set of tasks each of which depends
on a task of the set: `Acyclic` of `TaskGraph`, by which `TaskBoard` validates an
edit. `SearchDecidesEdits` connects the two: on the graph an edit overlays, the
search answers what `ValidDeps` asks.

### WorkQueue (`MCWorkQueue`, `WorkQueueProofs`)

One action per Redis command: `Enqueue` (LPUSH), `ReadReady`, `PushReady`,
`RemoveReady`, `PeekNext` (the drain), `Pop` / `TimeOut` / `StartOver` (BRPOP),
`Handle`, `Reschedule` (ZADD) or `Drop`. `Fault` is a worker that stops, or a Redis
error that escapes `flush_queue`, at any point. The scheduled set is split in
`later` and `ready`; `BecomeDue` is the clock, without durations or an order
among delays. `runs` and `settled` are history variables. Malformed and
legacy envelopes and the non-blocking `flush_webhook_delivery_queue` command are
not modelled. The handler's failure is the database's; errors of the gateway are
swallowed by the dispatch and count as handled.

### GatewayRelay (`MCGatewayRelay`, `GatewayRelayProofs`)

The connections of one gateway. A handler authenticates (committing `online`),
sends auth_ok, registers in the pool (waiting for the old socket to close),
serves, and in its `finally` pops the pool entry, reads the status and writes
`offline` over `online`. A step is what a coroutine does between two awaits.
`ReportOnline` and `Deregister` are the REST calls that write the same column.
A message of an H5 user is looked up (`LookUp`), written to the socket found
(`SendWorks`, `SendFails`) and, failing that, published to Redis (`Publish`).
A socket whose peer has left unnoticed accepts a message too. No action stands for the stale sweep, because nothing calls it.

### ChatClient (`MCChatClient`, `ChatClientProofs`)

One chat user: the hook's effects (`Mount`, `Rekey` for a new or absent token,
`Unmount`), the methods and event handlers of `WSClient` (`Connect`,
`Disconnect`, `OpenSocket`, `Open`, `AuthOk`, `AuthError`, `Closed`,
`Reconnect`, `ReconnectThrows`), the chat window (`Send`, `Heard`), and for each
socket the server's handler (`Refuse`, `Greet`, `CloseOld`, `Register`,
`Leave`) with the registry entry it writes. A socket that was closed stays
"closing" until its close event runs: that is where an old socket's `onclose`
meets the state of a new one. Server steps end at each await, so two handlers
can both wait for the same old socket. `inbox` is what travels to the browser;
what travels to the server is taken to arrive at once, since the server only
reads the token and the messages. Network trouble (`Lose`, a constructor that
throws) and changes of the token are bounded by `MaxFaults` and `MaxRekeys`;
sockets are used again, so reconnecting is not bounded at all. The token may
also be null, from the start or after a change: the hook then disconnects and
opens nothing (`NoneOpenedUnasked` speaks of that as it does of the unmount).
Login, storage of the token, heartbeat payloads and the durations of the backoff
(only whether an attempt has failed shows in the status) are left out. The app in `h5-app`
has a copy of client, hook and window that does the same.

### BoardFeeds (`MCBoardFeeds`, `BoardFeedsProofs`)

How a list of a page stays current. A behaviour follows one list, chosen in
`feed`: tasks, approvals, agents or chat of a board; chat or notes of a group;
one of the four streams of the activity page. The lists share no row, so their
interleaving adds nothing. State: the rows with the stamp of their last change,
transactions that have chosen a stamp and not committed, the log of tasks, the
server's cursor, frames in flight, the list, and the page's requests. `Load` is
the snapshot, `Connect...` / `Disconnect` the stream with its `since`, `Poll...`
one pass of a generator, `Read...` one frame, `Ask...` a request and `Created`,
`MoveDone`, `Saved`, `Decided`, `Posted`, `Deleted`, `MoveFailed`,
`RequestFailed` its answer. A group has a query beside its stream (`OpenGroup`,
`ReadHistory`, `HistoryArrives`), the activity page seeds (`OpenActivity`,
`SeedsKept`, `SeedsShown`, `SeedAgain`, and `SeedsMissing` when the snapshot of
the board is rejected and passed over).

A handler of tasks commits the row (`CommitTask`) and then, in a second
transaction, the event the streams look for (`Log`), unless it stops in between
or the task is gone by then (`LogFails`). The deletion of an agent, the board
websocket and the pipelines change tasks without any event (`CommitSilently`).
The page hears of none of these, unless a later event brings the row as it is
then, so `Told` is a condition of the properties.
Queries stop at `PageSize` rows, which are 200 approvals and 200 messages of a
snapshot, 200 of a group's history and the pages of the activity log (`Newest`);
the feed of the activity page keeps 300 items and forgets the last one, its own
(`FallsOut`) or through an item of another stream (`PushedOut`), while
`seenIdsRef` still knows it. `cut` and `fallen` remember what was left out, and
`LeftOut` is the other condition.

`spoiled` is a history variable: it records that one of the races happened
through which the code may miss a change beyond that, each a named operator
(`Late`, `Ahead`, `Gap`, `CutShort`, `Overtaken`, `Outdated`, the rollback in
`MoveFailed`, `SeedsMissing`, a failed query). `NothingLost` says that these are
all. Lists are stated by what they hold: `Sorted` is a function of positions,
`Merged` a set of rows, and an order is any function onto a set that respects
the stamps, so that the proofs need no induction over sequences. A row is known
by its stamp, contents are left out; so are the live feed beside the lists and
the spacing of connections.

### TaskPanel (`MCTaskPanel`, `TaskPanelProofs`)

The task panel of a board page: `sel`, `detail`, `edit` and the comments on one
side, `url` and a navigation under way (`nav`) on the other, and the requests
that are not answered yet. `FollowUrl` is the effect on `taskId` and the task
list, part of every step that changes either (a save makes a new list, so
`SaveDone` may open the task of the URL instead of the one saved). An answer does to the panel what
the code after the `await` does, whatever is selected by then; `crossed`, `late`
and `raced` record that this mattered. The server's side is `ServeLoad`, which
answers with the oldest `PageSize` comments of the task (200 in the code, and
the panel never asks for a second page; `first` holds those that are among
them), `ServePost` and `CommentOn`. Form contents and the list itself are
left out (the latter is in `BoardFeeds`).

### OnboardingDialog (`MCOnboardingDialog`, `OnboardingDialogProofs`)

The dialog in which a user answers an agent's questions until the board has a
goal. On one side the component: the session it shows (`view`), the message it
waits to see replaced (`waitFor`), polls and one request under way (`Open`,
`Answer`, `ExtraContext`, `Confirm`, `SendPoll`, and what their answers do:
`Shown`, `PollArrives`, `Confirmed`, `Failed`), closing it and losing the focus
(`Close`, `Toggle`). On the other the handlers of `api/board_onboarding.py`, cut
at their awaits: `Load...` reads the session, `Dispatch` hands the message to the
agent, `Commit...` writes. The agent's posts (`AgentPosts`) come at any time after
`Dispatch`, before the commit too; the handler does not ask whether the agent
owes one, so it may also post without having been asked, a repetition or a
correction (`PostsUnasked`, bounded by `MaxUnasked`). Requests outlive the
component that sent them, so a closed dialog's confirmation may commit beside a
new one's start; and when it is answered, the page closes whatever dialog is open
by then (`Confirmed`).
A message is the number of the post it came with. `spoiled` and `lost` are
history variables: what can go wrong in ways nobody is told of sets them, and
the properties say that nothing else does. When something is spoiled, writes are
no longer numbered, which keeps the state space finite and small: the number
decides only whether a reply was overtaken. A poll that fails has no effect, so
it is as if it had not been sent.

## 3. What is checked

Passing runs (`PROJECT.json` names a mutant for each property: a plausible
mistake in the code that makes TLC report it).

| Run | Bounds | Shows |
|---|---|---|
| `board_serial` | 2 tasks, 1 request at a time, no websocket | no task belongs to a deleted agent, whose requests may still be under way; no sequence of edits makes a cycle; a blocked task is at work only when its dependency was reopened or the lead gave it new ones |
| `board_race` | 2 requests | done still needs an approval and a pending approval still freezes the status, although requests decide on rows loaded earlier |
| `board_approvals` | 2 tasks, 2 approvals, 1 request, websocket creation; one task at a time has columns other than a new row's | links stay intact; one pending approval per task |
| `locks_gate` | 2 tasks, 2 transactions | the inductive invariant of the locks, no circular wait of transactions that lock rows in order, the abstract gate implemented |
| `queue_shared` | 2 payloads, 2 workers, 1 retry, drains of one envelope, 1 fault | shared drains lose nothing; a fault costs at most one delivery; the others settle |
| `cycle_search` | every graph over 3 tasks | the search answers rightly, and its inductive invariant |
| `relay_pool` | 3 connections, 2 messages, 1 report, 1 fault | the pool holds no dead entry; a gateway without handlers is offline, unless a report or a fault came between |
| `chat_client` | 3 sockets, 3 tokens (1 expired), 1 message, 1 change of token, 2 faults; messages until the token changes | the status is backed by a socket; one socket until the token changes; no silent drop before trouble; nothing opened after the unmount or without a token; reconnects again and again, and stays connected |
| `board_feeds` | 10 lists, 2 rows, 3 stamps (2 on the activity page), queries of 1 row, 1 request; until a race, the second change without an event or the second item that falls out | a change that is told and within the limits is missed for the named reasons only; no duplicate but of a created task; the chat in order; moves settle; the page catches up |
| `task_panel` | 2 tasks, 2 comments (1 from the start), pages of 1, 2 list requests; until the second kind of late answer | the panel shows the task of the URL and the oldest page of its comments, but for late answers; it opens on request only; the spinner ends |
| `onboarding` | dialog opened twice, agent asked 3 times, 1 poll under way, 1 failure or 1 post unasked, and fewer messages in the second dialog | answers meet the question last asked; goal and lead come from one draft; waiting ends, but for the named incidents |

The runs of the board treat ids of a kind as interchangeable. `board_approvals`
has the constraint `OneTaskMoved`: approvals read which tasks exist and never
their columns, so the columns of two tasks at once would only multiply states. The
constraints of the pages (`SentBeforeRekey`, `UntilRace`, `OneIncident`,
`FewIncidents`) cut behaviours at steps beyond which the properties claim nothing,
or which no fairness demands, so that they do not hide a wait without an end.

Why the bounds are enough to be interesting: two requests are what a stale read
needs, since the one that commits between another's load and commit stands for
any number of them; two transactions and two tasks are the least circular wait;
three nodes have direct, indirect and no cycles besides loops; three connections
are needed for two of them to wait for the same old one; a batch size of one
makes a drain leave due envelopes behind; a third socket is the one that a late
close event opens beside two others, and with ids used again the client
reconnects without end; three stamps let a change of one row come between the
load of a list and a change of the other that commits late, and every longer
history is in the theorem about `NothingLost`; two tasks and two requests let an answer come for
the wrong task, and a failure beside a success; a second dialog meets what the
first left behind, and the third message is the one sent when two replies could
be mixed up (a poll beside the reply of a request suffices for that). A page of one
row leaves one of two out. The theorems of section 4 remove the
bounds for the properties they name.

One run ends in a violation, of a statement the repository makes
(`findings` quotes it): in `chat_cleanup` the token changes, the close event of
the old socket then clears the reference to the new one, and `disconnect()` on
unmount leaves that socket open. Others are listed in section 6.

*Deadlock* is checked in the board runs and in `locks_gate`. The other systems
stop when their bounded work is done (all payloads settled and workers blocked,
a search answered, all connections used up), and so does a page on which
nothing happens any more: their runs switch it off.

*Fairness.* `WorkQueue`: weak fairness of each worker's step, because
`_run_worker_loop` is an endless loop that a supervisor restarts, and of the
clock; none of ingest or of faults. `ChatClient`: weak fairness of the effects of
mounting, of the reconnect timer, and of each socket's event handlers and of its
handler on the server: browser and server are event loops, and a socket that is
asked for is opened or fails, which is part of `Open` and `Lose`. The user, the
token and the network owe nothing. `Reconnects` supposes a mounted component with a token the
server accepts, `StaysConnected` one token. `BoardFeeds`: weak fairness of
polls, frames and snapshots of an open stream, for each row of what the server
does with it (transactions that have begun, events still to be logged), and of
the answers to requests; none of opening a stream, since the window may
stay in the background, so `CatchesUp` supposes a stream that is open.
`OnboardingDialog`: weak fairness of polls while the component's timer runs, of
the handlers, of what happens with their answers, and of the agent's response to
a message it has got, which the prompt of `start_onboarding` asks for; the user
owes nothing, nor does the window its focus, so `WaitEnds` speaks of a dialog
that is open and active. The other modules state safety only.

## 4. What is proved

All proofs are checked by TLAPS with the SMT, Zenon and PTL backends, for
arbitrary constants under the named assumptions (`BoardAssumption`,
`LocksAssumption`, `QueueAssumption`, `RelayAssumption`, `ChatAssumption`,
`PanelAssumption`, `DialogAssumption`, `FeedsAssumption`: sentinels are not
elements of the sets they stand beside, task ids are ordered, the rows of a list
are finitely many, limits are numbers).

* **TaskBoardProofs.** `BoardInv` is `ColumnsOK`, `LinksIntact` and
  `OnePendingPerTask` together, for any overlap of requests: `OnePendingPerTask` needs the links (a task_id
  handed to another task must already have been a link), and links need that
  dependency edits only name rows that exist. One step per action, one substep
  per part. That no task is assigned to a deleted agent (the rest of `TypeOK`)
  is a second invariant on top of it: the foreign key is looked at in the step
  that writes. Corollaries `TypeCorrect`, `LinksStayIntact`, `OnePendingOnBoard`.
  `DepsStayAcyclic` supposes one request slot (`OneSlot`): two edits that are
  validated before either commits do save a cycle. Its invariant `EditInv` says
  that what a slot has validated is still what it saves, because nobody else
  changes the graph in between.
  The statements about status changes are action properties. A change of status
  is a gated update (`PassedGates`), a task sent back to the inbox (`SentBack`) or
  the deletion of the task (`StatusChanges`). The gates look at the approvals in the step that writes,
  so `DoneOnlyApproved` and `PendingKeepsStatus` hold however old the loaded row
  is; `BlockedStaysParked` needs a row that is not: with one request at a time
  what a slot has loaded stays true until it writes, but for a task freed by the
  deletion of its agent (`LoadedStays`). It says which steps can make a blocked task
  that is not done one that is at work: the reopening of a dependency, and a
  lead's PATCH of dependencies alone, which no guard of the lead's handler looks
  at (section 6); every other step leaves such a task as it was or parks it. The
  first two suppose `BoardSocket = FALSE`, the third also that there is one slot
  (`OneAtATime`): the websocket handlers have no gates, and two overlapping requests
  break the third, which is why the run `board_serial` has one slot.
* **ApprovalLocksProofs.** `GateInv` strengthens `OnePendingPerTask` with what
  the locks guarantee: a transaction that passed its check owns its rows and
  would still pass, because every action that could add a pending approval to
  those rows needs the same locks. `PromiseIsKept` maps each commit to `Open`,
  `Resolve`, `Move` or a stutter. `NoCircularWait` adds `LockedInOrder`: a row a
  transaction holds comes before every row it still has to lock. So when one
  transaction waits for a row of another that waits itself, the other waits for a
  higher row, and no circle of any length closes. This is about transactions
  that lock rows; those that link them in the order of a payload do not.
* **TaskBoardProofs, the search.** `SearchInv` says that finished nodes are
  closed under edges and free of cycles and the stack is a path; hence
  `CyclesAreFound`, the search's answer is exactly the existence of a cycle on
  every finite or infinite graph on which it ends, and `SearchDecidesEdits`.
* **WorkQueueProofs.** `QueueInv` says that Redis and the workers hold envelopes of
  queued deliveries only, and that a worker has a job exactly while it runs or
  after it failed; `QueueTypeCorrect` follows. `FaultsCostOneEach` counts the
  deliveries at `Risk`: those without a copy that the removals under way would
  leave. A removal that is under way may meet a retry rescheduled as the very
  envelope it removes, so `Risk` asks for a copy with at least as many attempts.
  Every step keeps `Risk` from growing but a fault, which adds at most the one
  delivery its worker held; the lost deliveries are among those at risk.
* **GatewayRelayProofs.** `PoolHasNoDeadEntry` is inductive as it stands.
  `QuietIsOffline` needs `OnlineIsAttended`: an online gateway has a handler
  that has not yet made its last look at the status, unless a REST report or a
  half-way failure came between (either one alone breaks the property, which is
  why it names them).

* **ChatClientProofs.** `OneSocketPerToken` needs that, before the first change of
  the token, a socket that is not the current one is free and an armed timer
  means there is no current one; `ConnectedIsBacked` that "connected" and the
  heartbeat start in the step that welcomes a socket and end in the close event
  of any; `NoneOpenedUnasked` that a component that is gone, or has no token, no
  longer wants a connection, which no timer or close event changes. `NothingDroppedInCalm` follows from
  `CalmInv`: before anything goes wrong no retry is due, only a socket that was
  refused or left is closed, and the client says "connected" only while its
  current socket is open.
* **TaskPanelProofs.** `AnswersTrue` relates what a request has read to the store:
  an answer holds comments of its task only and, unless something overtook it,
  misses none of the task's oldest page but those still to come by the stream. `UrlInv` relates `url`,
  `nav` and `opened` to the selection. `CommentsAlwaysBelong`,
  `CommentsAlwaysComplete`, `PanelFollowsUrl`, `PanelOpensOnRequest` and
  `LoadingAlwaysEnds` follow.

* **OnboardingDialogProofs.** `TypeInv` has a balance: posts, messages owed and
  messages a handler has still to send are together no more than what the agent
  was asked and what it posted unasked, so the numbers of posts stay in their
  range; and there is a session before anything is shown,
  answered or confirmed, so no handler reads row 0. `DialogKeepsTypes` follows.
  `Steady` holds while nothing is `spoiled`. Only the dialog on the page has a
  request under way (`Alone`). What was read since the last write is what is stored
  (`ViewsSteady`). What is shown, or may be by a poll under way, is fresh or repeats
  the message the dialog waits to see replaced, which keeps the buttons disabled
  (`IdleSteady`), so a button that is enabled sits beside what is stored
  (`ReadyIsFresh`). And the phase of the request fixes what the agent owes and what
  the session holds (`StartSteady`, `AnswerSteady`, `ConfirmSteady`, `ReplySteady`).
  `ConfirmsOneDraft` and `AnswersMeetQuestions` are corollaries. TLC found
  `Steady` invariant on two openings, two polls and three messages before it was
  proved.

* **BoardFeedsProofs.** First, what each operation on a list leaves of the rows it
  tells of: `Upsert`, `Insert`, `PushFeedItem`, `Replace`, `Moved`, `Merged`, the
  removal of a row and the orders a query or a poll may come in. The first place
  of a row and the newest stamp exist because the numbers are well-founded.
  `StepKinds` then reduces `Next` to fewer cases, by what a step does to the lists.
  `InStep` joins what every later argument needs: open transactions have stamps of
  their own, newer than their rows and not yet in the log, and a stamp whose event
  is still to be written is that of a committed change (`StampsInOrder`); a
  request of the page and the transaction serving it agree (`RequestsInStep`);
  whatever holds a version of a row, holds one that was committed
  (`VersionsExist`); no frame is ahead of the cursor (`StreamInStep`); and what the
  generator remembers as sent is in the log (`SeenTold`).
  `ListsInStep` adds the cards of each row, in the list and in the lists that a
  failed move would restore (`CardsUnique`, `RestoredSettled`); `CardsAreUnique`,
  `ChatStaysInOrder` and `MovesAreSettled` are corollaries.
  `NothingLost` is not inductive: that a row is "to be sent" on a closed stream
  depends on the list, and a move hides a status. `Complete`, which holds while
  nothing is `spoiled`, says instead where each last change is, by the stamps
  alone, for rows whose last change is in the log if they have one (`InLog`):
  heard of, in a frame, at or ahead of the cursor and not yet sent, or elsewhere,
  that is in the query or left out by a limit (`NothingMissed`). It needs four
  more parts: an overtaken frame is
  followed by another (`StaleFramesFollowed`), tasks from before the log are in
  the list (`FirstTasksShown`), what a query missed is newer than all it found
  (`QueryComplete`), and a version of an agent that the feed would pass over in
  silence has been told (`KnownIsTold`). Every action that can break one of them is
  one of the races, which it records in `spoiled`. TLC checked these invariants on the instance of
  `board_feeds` before they were proved.

Left to TLC is liveness (`Settles`, `Reconnects`, `StaysConnected`, `CatchesUp`,
`WaitEnds`), because fairness and ENABLED are out of TLAPS's reach here. Every
other property of a run that passes is a theorem; the one of the run that does
not, `chat_cleanup`, is false.

## 5. What is not modelled, and the plan

* **Rendering, forms and filters** of the pages, and the generated API client
  (nearly half of the TypeScript lines): no state of their own beside fields that
  one handler sets.
* **Pages around one request each** (lists, creation and edit forms, settings):
  a query, a mutation and an invalidation of the query's cache.
* **Candidates in the frontend**: the optimistic deletion of list rows
  (`lib/list-delete.ts`), the cache update of the approvals panel, the live feed
  of a board page.
* **`useBoardSync` and `TaskBoardRealtime`**: no page uses them, and with them the
  snapshot and subscription of the board websocket.
* **Candidates in the backend**: chat sessions and their keys, pipelines, token
  rotation, proactivity, the gateway registry, agent provisioning, board
  deletion, the last owner of an organization.
* Read-only queries, CRUD without a protocol, and the external gateway process
  are left out for good.

The order we would take them in: chat sessions composed with `GatewayRelay` and
`ChatClient` (a message reaches the connection registered when it was handed
over, or is reported as failed); the live feed, with
the lists of `BoardFeeds`; pipelines (a run ends once); token rotation;
proactivity; the rest. For the modules there are, what remains to be proved is
liveness.

## 6. Where code and text disagree, or the code surprises

Found while reading the lines the modules model. `chat_cleanup` reports one. Where
an item names a property of a module, TLC reports a violation when it is given
that property (for `AcyclicDeps` and `NoWorkOnBlocked`, under the conditions named).

* Two workers load the same unassigned task and the second takes it away from
  the first (`api/tasks.py:2104`; "Agents can only change status on tasks
  assigned to them", line 2109): `ClaimRespected` of `TaskBoard`.
* Two dependency edits, each acyclic on the graph it read, save a cycle together
  (`services/task_dependencies.py:186`): the graph is read and the rows are
  replaced in one transaction each, without a lock. `AcyclicDeps` of `TaskBoard`,
  with two slots.
* A lead's PATCH of nothing but dependencies is not compared with the task's
  status (`api/tasks.py:2010`): a task in work that gets an unfinished dependency
  this way stays in work (`LeadRelinks`).
* Creating an approved or rejected approval locks its tasks by its links, in the
  order of the payload (`api/approvals.py:422`), while a pending one locks them in
  order of id: the two can wait for each other in a circle, which PostgreSQL ends
  by aborting one of them.
* Two workers read the same due retry before either removes it, and both push it;
  the copies have retries of their own (`services/queue.py:75`; "Requeue a failed
  task with capped retries", line 248): `RetriesCapped` of `WorkQueue`.
* The handler of a replaced connection pops the entry of the one that replaced it
  (`services/ws_relay/gateway_pool.py:51`): `NewestIsPooled` of `GatewayRelay`.
* After a change of token late close events can keep opening a socket while the
  server replaces another: the client is connected again and again
  (`Reconnects`), but need not stay so.
* The websocket handlers of a board (`api/ws_board.py:61`) write any status
  without the gates of the REST handlers. `DoneNeedsApproval`, `PendingFreezes`
  and `NoWorkOnBlocked` are statements about boards nobody moves
  tasks on by websocket (`BoardSocket = FALSE`).
* `_record_task_update_activity`, `create_task` and `delete_task_and_related_records`
  use `task_broadcaster` (`api/tasks.py:2296`, `1344`, `1527`), a name the module
  does not import: they raise after their commits (`Raised` in `TaskBoard`).
* The reset of dependents (`api/tasks.py:445`) changes the status of tasks with a
  pending approval; `PendingFreezes` therefore allows the inbox.
* The review rule looks at the status the request loaded (`api/tasks.py:252`): a
  task that has left review meanwhile is marked done all the same.
* Two concurrent edits of one task's dependencies leave the union of both lists
  (`services/task_dependencies.py:209`).
* `enqueue_webhook_delivery` (`services/webhooks/queue.py:85`) ignores that Redis
  refused the envelope, so the endpoint's synchronous fallback never runs
  (`ReportedQueued` in `WorkQueue`).
* `register_gateway` awaits the close of the old socket between reading and
  writing the entry (`services/ws_relay/gateway_pool.py:39`): two connections that
  wait for the same one both end up serving.
* A message published to Redis counts as forwarded
  (`services/ws_relay/message_router.py:98`), and nothing subscribes.
* `mark_stale_gateways_offline` (`services/gateway_registry.py:189`) has no caller.
* A task's row and its event commit apart (`api/tasks.py:1332` and `1341`, `2430`
  and `2285`): a handler that stops in between leaves a change no page hears of.
  So do the deletion of an agent (`services/openclaw/provisioning_db.py:1819`),
  the board websocket and the pipelines, which write no event.
* The snapshot of a board has its newest 200 approvals and messages
  (`services/board_snapshot.py:143`, `193`): older ones are not on the board page,
  unless an approval changes. The comments of a task are its oldest 200
  (`api/tasks.py:1543`): newer ones are shown only as the stream brings them.
* A deleted task stays on the boards other clients have open: no event tells them
  (`api/tasks.py:1443`), and its log is deleted with it.
* Whether the agents are paused is read off the chat (`page.tsx:1334` of the board
  page), whose stream is open only while chat or live feed are shown.
* A created task is put in the list without asking whether the stream has brought
  it already (`page.tsx:1996`): two cards with one id, hence the exception in
  `UniqueCards`.
* A failed move puts back the whole list as it was (`page.tsx:2763`), over what
  the streams have changed since; a stream that has moved on does not repeat it.
* The streams resume at the newest stamp in the list, not at the newest they have
  read; a created task, or one saved, moves it past changes the stream has not
  sent (`Ahead`).
* An approval that is reopened keeps its old `resolved_at`, by which the stream
  finds changes (`api/approvals.py:281`); no page reopens one, and the module
  leaves it out.
* A stream of a group page that the server ends is not opened again: the code
  after the reader's loop reconnects only in `catch`
  (`board-groups/[groupId]/page.tsx:456`).
* The seeds of the activity page replace what the streams have brought while they
  were read (`activity/page.tsx:748`), and an approval that the stream sends again
  unchanged is told as "updated" (`again` in the items of `BoardFeeds`).
* In the task panel, answers are not compared with what is selected: comments of
  one task can appear under another (`page.tsx:2346`), a late save selects the
  saved task again (2645) and a late deletion closes another task's panel (2689).
* Stream events about the selected task reset the fields of the edit dialog
  (`page.tsx:1618`).
* `answer_onboarding` sends the answer to the agent before it commits the transcript
  it loaded (`api/board_onboarding.py:344`): a reply that comes before the commit
  is overwritten, and the dialog waits for it until it is closed and opened again,
  which sends the agent the same message once more.
* The goal of a confirmed board is the one the dialog showed, its lead agent and
  approval rule are those of the draft the session has by then
  (`api/board_onboarding.py:440`). The agent may post a second draft in between:
  `agent_onboarding_update` takes any number of posts.
* A confirmation that is answered after its dialog was closed closes the one opened
  since (`boards/[boardId]/edit/page.tsx:607`).
* `start_onboarding` looks for a session that is "active" only (line 202): a dialog
  closed after the draft came, and opened again, starts over, while the agent
  still has the old conversation.
* Replies to polls are shown in the order they arrive
  (`BoardOnboardingChat.tsx:240`); an old one after a new one ends the waiting, and
  the question it shows can be answered again.
