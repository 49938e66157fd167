# A formal model of teammate

teammate is a server on which human members and coding agents work on tasks
together. A task is created from a workflow template and carries a sequence of
nodes; agents claim nodes, do the work, review each other, roll work back, and
hand it to a human when they get stuck. The server is a Go program over
PostgreSQL and Redis and may run in several instances.

This directory holds TLA+ modules that model the parts of it where the order of
steps matters, the TLC configurations that check them on small instances, and
proofs, checked by TLAPS, that hold for every instance.
`PROJECT.json` lists the runs, which line of the source each definition models,
and what is proved.

    tlc -workers 2 -config NodeRaces.cfg MCNodeWorkflow
    tlc -workers 2 -config Resources.cfg MCResources
    tlapm Triggers_proofs.tla

Every `.cfg` says in `PROJECT.json` which module it belongs to; every
`*_proofs.tla` is checked by itself.

Paths below are under `src/internal/` unless they start with `src/`.

## 1. The system

| part | state it keeps | operations | talks to |
|---|---|---|---|
| Node workflow engine (`service/node.go`, `store/node.go`, `db/queries/tasks.sql`) | `task_nodes`: status, assignee, reservation and its expiry, reject count, version | claim, complete, approve, reject, manual intervention, interrupt, resolve, skip | task, permissions, events |
| Task lifecycle (`server/handler/task.go`, `store/task.go`) | `tasks.status`; creates the nodes | create, edit, cancel, delete | nodes |
| Scheduler (`scheduler/scheduler.go`, `store/scheduler.go`) | Redis locks | node timeouts, claim timeouts, reservation cleanup, offline fallback, agent recovery, daily jobs | nodes, runtimes, agents |
| Runtimes and agent status (`store/runtime.go`, `service/runtime.go`) | `runtimes.last_heartbeat`, status; `agents.status` | register, heartbeat, busy/idle, offline | scheduler, events |
| Event delivery (`server/ws/hub.go`, `service/service.go`, `server/handler/sse.go`, `server/ws/gateway.go`) | subscriber channels, Redis buffer of events | publish, subscribe, replay after reconnect | every service |
| Workflow triggers (`service/workflow_trigger.go`) | triggers, last run, events | schedule, webhook | task creation |
| Login and tokens (`service/auth.go`, `store/auth.go`, `server/middleware/auth.go`) | accounts, failed logins and lock, tokens | login, refresh, reset, revoke | every handler |
| Agent permissions and their cache (`service/agent_permission.go`, `service/permission_cache.go`) | grants, cached answers | grant, revoke, check | node engine |
| Rate limiting (`server/middleware/ratelimit.go`) | counters in Redis | allow | every handler |
| Invitations, members, projects (`service/invitation.go`, `service/workspace.go`, `service/project.go`) | memberships | invite, accept, remove | permissions |
| Agents, skills, MCP (`service/agent.go`, `store/agent.go`) | agents | create, edit, delete | nodes, runtimes |
| Memories, comments, notifications, logs, token usage, audit, statistics, search, board, reviews, market | rows | create, list, search | - |
| Command line client (`src/cmd/teammate`), web frontend (`src/web`) | none of their own | call the API | API |

What is hard, part by part, and what would make it correct:

* **Nodes.** Nothing is locked between the read that decides and the write that
  acts. A write is protected by the version it read, or by the conditions of
  its statement, or by nothing. Four statements change rows without a new
  version. An approval writes two rows, a rejection two others, possibly far
  apart. Correct means: the work is at one place and moves as a pipeline; a
  decision falls on the work it was taken about; two claims never both win; the
  author does not review; a right to continue is respected and ends; a task is
  complete when, and only when, its nodes are.
* **Task.** Its status is checked before an operation and not at its write.
  Cancellation is two statements.
* **Scheduler.** Jobs work through lists that are stale by the time their turn
  comes; several instances run the same jobs behind a lock that expires.
* **Runtimes.** A heartbeat that comes while its runtime is being declared
  dead; agents that are busy, or never sent a heartbeat.
* **Events and logs.** Two ways of delivery for each message, bounded channels
  that drop, channels that are closed under a sender, a buffer that is replayed
  before the subscription exists, and one that expires.
* **Triggers.** A crash or a failed statement between any two of the four that
  make a task of an occasion; a lock that expires under its job; an edit that
  writes an old time back.
* **Accounts.** A registration that stops halfway; a count of failures that is
  kept for ever; a token whose key was never stored.
* **Permissions.** A cached answer that was read before the grant and is
  written after the invalidation; tokens of an agent that is gone.
* **Rows.** Names without foreign keys, looked up by a handler and written by a
  later statement, while a deletion clears them in several; columns that a dozen hand-written lists must all agree on,
  and edits that write back what they have read.

## 2. Plan

| module | models | stands on | proved |
|---|---|---|---|
| `NodeWorkflow` | nodes, task status, jobs on nodes, deletion of agents, requests in flight | | `NodeWorkflow_proofs` |
| `Pipeline`, `NodeRefinement` | what the nodes of a task promise together, and the mapping to it | `NodeWorkflow` | `NodeWorkflow_proofs` |
| `NodeViews` | board, review check, list of nodes for members | `NodeWorkflow` | `NodeWorkflow_proofs` |
| `RuntimeStatus` | heartbeats, registration, agent status, the jobs that read them | | `RuntimeStatus_proofs` |
| `EventDelivery` | `Hub`, publication, buffer, replay, subscription, `RenotifyPendingNodes` | | `EventDelivery_proofs` |
| `Triggers` | the job lock, schedules, webhooks, run history | | `Triggers_proofs` |
| `Accounts` | registration, login, lockout, tokens, workspaces of a member | | `Accounts_proofs` |
| `AgentAccess` | permissions, their cache, tokens of agents | | `AgentAccess_proofs` |
| `TaskLogs` | log gateway, buffer, history | | `TaskLogs_proofs` |
| `Resources` | which rows there are and what they name | | `Resources_proofs` |
| `Layers`, `AgentLayers`, `TaskLayers`, `WorkspaceLayers` | what each layer of the server does with each field | | `Resources_proofs` |
| `Records` | a record created, edited and shown through those layers | the layers | `Resources_proofs` |

`MCNodeWorkflow`, `MCEventDelivery`, `MCTriggers`, `MCAgentAccess`, `MCTaskLogs`
and `MCResources` give TLC instances and symmetries. `MCResources` checks `Resources` and
`Records` in one run, side by side: they share no state. `Resources_proofs` has
the theorems of both, first those of `Resources`.

Every safety property that a run checks is proved; section 13 says what is left
to TLC and why.

## 3. The node workflow

### 3.1 State and actions

`NodeWorkflow` is one task. `node[k]` is the k-th row of `task_nodes` in
`sort_order`, with the columns that decide: status, assignee type, assignee,
reservation, its expiry, reject count, `completed_by`, version. `template[k]`
is what `CreateTask` copied from the template. `req[p]` is the request that
operator `p` has in flight: what the Go function holds in its local variables.

A request is two or three steps.

| step | code |
|---|---|
| `CheckClaim`, `CheckComplete` | the handler's own read of the row (`server/handler/node.go`) |
| `ReadClaim`, `ReadComplete`, `ReadApprove`, `ReadReject`, `ReadManual`, `ReadInterrupt`, `ReadResolve`, `ReadSkip`, `ReadTimedOut` | the reads and early returns at the head of the service function (`service/node.go`) or of the job |
| `CommitClaim` ... `CommitTimedOut` | the one statement, or the one transaction, that writes (`db/queries/tasks.sql`, `store/node.go`) |
| `Abandon` | an early return, an update that matched no row, a rolled-back transaction, a crash of the server between read and write |

A transition is built from the row that was *read*, not from the row in the
table, as in the code: `UpdateTaskNodeStatus` writes every column from the
caller's copy, where `version` and `status` still match (`Unchanged`). The
claims write only their own columns (`AgentClaimed`, `HumanClaimed`) under
conditions of their own (`ClaimMatches`). The target of a rejection is written
without any check of what was read (`RolledBack`), and so are the statements of
the jobs, of cancellation and of `DeleteAgent`.

The reads of one request are one step, a transaction is one step. Two requests
of the same operator are not in flight at once; two operators are enough for
the races, since an operator only lends its name to a request.

Left out: the permission checks of the requests (any person may start any
request its type allows, which only adds behaviours), node transitions,
comments, summaries, directories and events. `Reclaim` never writes:
`store/converter.go:408-414` drops the agent id, so that the statement compares
`reserved_for_agent_id` with NULL. Whether a timeout is due is left open, so
every timeout may strike at any moment.

### 3.2 The abstract pipeline

`Pipeline` keeps two variables: the front, which is the first node not
completed, and what goes on there. `NodeRefinement` computes both from the
rows, and `ImplementsPipeline` says that every step of the requests and jobs is
a step of the pipeline or changes neither. That one property forbids work at
two places, skipping a node, reopening work other than by a rejection, and
going on after a rollback without redoing what follows. It admits one odd
thing the code does: `Override` may land on a node that was rejected, and stay.

### 3.3 Runs

All runs have two agents `a1`, `a2` (symmetric, except under liveness) and one
member `m1`.

| run | instance | what it shows |
|---|---|---|
| `NodeRaces` | two nodes in three kinds of workflow; two requests in flight; versions to 5 | `TypeOK`, `CompletedTaskIsDone`, `ReviewedByAnother`, `AssigneeStable`, `ReservationHonoured`, `DecisionOnWorkRead` |
| `NodeOrder` | implementation and two reviews, the second depending on the first node; one request in flight; versions to 6 | `FrontOrdered`, `ReopenedByRollback`, `WorkEndsByResolveOnly`, `ImplementsPipeline`, and of `NodeViews` `BoardTellsWork`, `DoneWorkWasReviewed` |
| `NodeHandOver` | two nodes in three kinds of workflow: an implementation with a budget of two rollbacks, or a human's node, and then one for anybody or for a named agent; one request in flight; one agent deleted; versions to 7 | `RollbackBudget`, `HandOverLapses` |

What the code does and its texts do not say, or deny:

* A task may be cancelled or deleted between the read and the write of a claim,
  which then goes through (`service/node.go:97`).
* A node may change hands between the two reads of a completion: the handler
  checks the assignee of the first (`server/handler/node.go:573`), the service
  writes from the second (`service/node.go:249`).
* Two reservations have no end, so that no job ever frees them
  (`db/queries/tasks.sql:310` asks for an expiry): that of a node rolled back to
  its agent (`store/node.go:693`), and that of a named agent's node, which is made
  with the task (`store/task.go:133`). An approval of the node before it sets an
  end; the creation, which completes a human's first node itself, and a resolution
  with complete do not. `HandOverLapses` is about what an approval has left on a node
  (`HandedOver`), and excludes these two.
* The last node resolved as complete leaves the task active with nothing to do
  (`store/node.go:313`, `service/node.go:646`).
* An agent that executed an earlier standard node may review, since only the
  nearest one is compared (`src/README.md:563` speaks of a preceding node).
* A claim in flight while its agent is deleted writes the deleted id back, since
  `DeleteAgent` leaves the version alone; and it clears all three columns of a
  row that names the agent in one of them (`store/agent.go:196`).
* The README says that offline and paused agents cannot claim
  (`src/README.md:127`); `Claim` does not look.

`NodeViews` puts what people are shown beside what the engine does. The board
shows the first node that is not completed, and `BoardTellsWork` says that this
is where the work is. Two views disagree with the engine and are left as
remarks: a task whose nodes were all completed by resolution is in the column
"completed" though it is active, and `CheckSelfReview` compares the reviewer
with the preceding node of any type, `Claim` with the nearest standard one.

Bounds. `MaxVersion`: no write starts once a row has that version (`Room`).
Each operation on a node adds one, a rollback two. Five let a node be claimed,
taken away, given back and claimed by another agent while a request holds the
row it read, which is where a stale request can meet a row that looks like that
one. A first node that is started by its creation has been completed, rolled
back, claimed and completed again at 6, and rolled back a second time at 8,
which is why `NodeHandOver` goes to 7. `MaxInFlight`: 2 for the races; the
other runs take 1, since they are about what sequences of operations do;
`FrontIsOrdered` is proved for any number. `MaxDeletions`: 1. The writes
without a new version (release, expiry, deletion) are not bounded by
`MaxVersion`. A run ends when versions run out, but never in a deadlock: a task
can always be deleted again.

`EditStatuses` are the statuses an edit may carry. A form sends back the status
it showed, so the safety runs take `{"active"}`; the liveness runs take
`{"completed"}` instead, since a stale edit that reopens a cancelled task would
bring back a reservation of before. An edit may declare any task completed:
`CompletedTaskIsDone` holds only without that, and the theorem assumes it.

Fairness, in `FairSpec` only: time passes (`Elapse`), and
`ClearExpiredReservations` runs, which the scheduler does every 30 seconds in a
loop that does not end on errors (`scheduler.go:92-103`). No fairness is
assumed of people or agents: `HandOverLapses` does not need them.

### 3.4 Proofs

`NodeWorkflow_proofs` proves, for every set of agents and members, every
workflow, every length, every bound, and any number of requests in flight:

* `TypeCorrect`: `Spec => []TypeOK`. `TypeOK` is not inductive, since a commit
  writes a row built from the one it read. `Typed` adds `Snapshots`: a request
  that has read holds a row, in progress if it is to complete, approve, reject,
  hand over, interrupt or time out, in manual intervention if it is to resolve,
  and a rejection goes to an earlier node.
* `FrontIsOrdered`: `Spec => []FrontOrdered`. With `Typed` it is inductive. A
  step that moves one live node to another open status keeps it (`FrontKept`).
  An approval completes node k; nothing beyond k was live, so afterwards only
  k + 1 is. A rejection reopens t < k: between them everything stays completed,
  and k is rejected, so nothing beyond t is live. A resolution may make only
  the next node live.
* `CompletionIsFinal`: if no edit may say "completed",
  `Spec => []CompletedTaskIsDone`. Once all nodes are completed no commit can
  find its row unchanged, and no job finds a node in progress.
* `WinnersKeepTheNode` (`AssigneeStable`) and `DecisionsFallOnWorkRead`
  (`DecisionOnWorkRead`, which covers the timeout job as well as people) rest on what the optimistic lock really tells a commit.
  Four statements change a row and leave its version alone, so "same version,
  same row" is false. The invariant `RowsAsRead` is what is left: a row that
  still has the version that was read has the reject count that was read; its
  status is that one or has gone from in progress to pending; and its assignee
  is that one, or is gone, and then the status has moved or an agent was deleted.
  `RowKept` says the same of one step, and the invariant is one of that relation.
* `ReservationsHold` (`ReservationHonoured`): a node is started by a claim's
  commit alone (`StartedByClaim`), whose statement compares the reservation
  itself, so it does not matter what was read.
* `OnlyRollbacksReopen` (`ReopenedByRollback`): no commit that finds its row
  unchanged finds it completed, except as the target or the successor that
  `WhoReopens` names.
* `BudgetHolds` (`RollbackBudget`): with `RowsAsRead`, no write brings an old
  count back, and the count grows only where it is compared with the limit.
* `AuthorsDoNotReview`: `Spec => [](agents = Agents => ReviewedByAnother)`. The
  claim is checked by a read and committed later. `ClaimsChecked` says that a
  claim that can still win would still pass its check: by `FrontOrdered`,
  everything before a live node is completed and stays so until that node is
  left (`BeforeLiveStays`), and the author of a completed node does not change.
  The condition is needed: the deletion of an agent clears the assignee of the
  nearest standard node, and then an earlier one counts, whose author may be the
  one who reviews. The run has the same number of agents from start to end.

Of `NodeRefinement` and `NodeViews` the same module proves:

* `Refinement`: `Spec => ImplementsPipeline`. Besides `FrontOrdered` the mapping
  needs `BeyondIsRejected`: a completed node behind one that is not is followed,
  after completed ones, by a rejected node. It says that what a rollback leaves
  behind the front is done again before it counts. Each commit moves one or two
  rows (`Moves`, and the pair of an approval or a rejection), and each such move
  is a step of `Pipeline`.
* `BoardIsRight`: `Spec => []BoardTellsWork`, from the same invariant. The first
  open node exists by the least element of a set of positions, which is taken
  from the library's well-founded orders; no induction over data is needed.
* `WorkEndsAsStated`: `Spec => WorkEndsByResolveOnly`, with any number of requests
  in flight, though the run has one. A step leaves work to do if some node waits
  or is at work behind completed ones (`LiveAfter`). By `FrontOrdered` all before
  the node that a commit leaves is completed, so the node itself, its successor
  or the target of its rejection is live afterwards; only the completion of a
  node by a resolution leaves it without making its successor wait.
* `DoneWorkIsReviewed`: if no edit says "completed",
  `Spec => [](agents = Agents => DoneWorkWasReviewed)`. The invariant
  `ReviewsDone` covers the way in which the author of the work can become its
  reviewer's name in the table without being one: the work under a finished
  review is rejected, from farther behind, and redone by the reviewer. Then
  something before the review is open, or the task is stuck. `DoneWorkWasReviewed`
  is about agents; members are not compared by `Claim`, and may review what they did.

The assumptions are those of `ConstantsAssumption`: at least one node, agents
and members are different people, and NULL is none of them.

Only model-checked: `HandOverLapses`, since liveness is out of the prover's reach.

## 4. Runtimes and the agent's status

`RuntimeStatus` is one agent, its rows in `runtimes`, and one node it may hold.
`TakeNode` is what `OfflineAgentFallback` and `ReleaseClaimTimeoutNodes` of
`NodeWorkflow` do to a row; there, whether they are due is left open, and here
it is what the module is about.

| action | code |
|---|---|
| `InsertRuntime`, `AnnounceAgent`, `RegistrationCutShort` | the two statements of `Register`, the second of which may fail unnoticed (`service/runtime.go:28-56`) |
| `Heartbeat` | `UpdateRuntimeHeartbeat`, which brings the row back online, not the agent |
| `UpdateAgent` | an edit, which writes any status; `UpdateStatus`, which would check the transition, has no route |
| `MarkStaleRuntimes`, `UpdateOfflineAgents` | the two statements of `CheckHeartbeatTimeout` |
| `AutoRecoverIdleAgents`, `OfflineAgentFallback`, `ReleaseClaimTimeoutNodes` | one statement each |
| `Claim`, `Finish` | the node changes hands; a claim does not look at the agent's status |
| `Tick`, `StartDaemon`, `StopDaemon` | time, and the daemons on the agent's machines, which are not in this repository |

The statements of the jobs are steps of their own and come in any order, which
covers several instances, a lock that expired, and a first statement that
failed (the code goes on to the second).

The run `RuntimeStatus` has two runtimes, limits of 1, 2 and 3 ticks for the
100 seconds, 30 minutes and one hour, which keep their order, both kinds of
node, and one edit at any time (`MaxEdits`). One edit can make an agent busy,
paused or online just before it is declared dead. It shows:

* `OfflineOnlyWhenSilent`: no job calls an agent offline while a runtime of it
  sends heartbeats.
* `DeadAgentIsDropped`: when the daemons have stopped for good, the agent goes
  offline and its node goes to a human. It needs `FairSpec`: time passes and
  each ticker runs its job again and again (`scheduler.go:92-103`). No fairness
  of daemons, agents or members.

It is stated about a `Dead` agent that is not `Stranded`, and the two
premises name what the code does not do: a runtime that never sent a heartbeat
has a NULL `last_heartbeat` and is never stale, so its agent stays online; and a
manual node of a busy or paused agent is taken by no job, since the claim
timeout leaves manual nodes out, the recovery waits for the node, and the
fallback waits for the status "offline", which only an online agent is given.

An agent that is offline when its heartbeats come (again) stays so, and after an
hour its node is taken from it (`scheduler/scheduler.go:259`): no property denies
it, since the code brings only idle agents back.

`RuntimeStatus_proofs` proves, for any number of runtimes and any limits,
`RuntimeTypes` and `OfflineIsSilent`: `Spec => OfflineOnlyWhenSilent`. The
invariant is `RowsSilent`: a row that has had a heartbeat and is not online is
silent. It is needed because the job looks at the status of the rows only; it
holds because a heartbeat writes status and time together, and
`MarkStaleRuntimes` reads both in one statement. The limits are natural
numbers (`LimitsAssumption`). The liveness property is model-checked only.

## 5. Event delivery

`EventDelivery` is how an event reaches the one runtime of an agent: the buffer
in Redis, `Hub.clients` of each instance, the loop of `Start`, the channel and
the handler of each connection, and a client that drops out and comes back with
the ID of the last event it saw.

A publication is a chain of steps (`BufferEvent`, `CopySubscribers`, `Send` to
each channel, `PublishToRedis`, and once more `BufferEvent` for a control
event), since `Publish` copies the list of channels, gives up the lock, and then
sends (`server/ws/hub.go:262`). A channel closed in between makes it panic
(`SendPanics`, `RelayPanics`): a request recovers, but the goroutine of a job or
of `Start` takes the process with it (`Down`). `FirstStep` is the choice that
`service/service.go` makes by who is online. `nextSSEEventID` makes IDs that
cannot be parsed where IDs are compared; all of these are `Dash`.

Buffering is best-effort: Redis may refuse a command (`Refuses`), and an event that
could not be buffered is sent all the same (`server/ws/hub.go:264`); `refused`
remembers which. A refused publication may have reached the other instances or
not, and one for a project then counts as sent to nobody and is buffered for all
(`AfterPublish`). A replay that cannot read the buffer tells the client to sync.

| run | instance | what it shows |
|---|---|---|
| `EventDelivery` | two instances, two connections, one control event and one timeout at once, one orderly restart, one refused command | `TypeOK`, `SubscribersOpen`, `SentIsBuffered` |
| `EventRenotify` | the job that announces waiting nodes, and time; no orderly restart, no refused command | `WaitingNodeHeard` |

Bounds: a channel of one event and one message on the wire, so that both drop
(`Cap`, `MaxWire`); two connections, so that an old one lingers on the server
while the client has a new one; two instances, so that an event comes twice.
`MaxStops` bounds orderly restarts only; panics are as many as there are.
One refused command (`MaxFaults`) may be any of those of the two publications or of a
replay. The instances are alike, which `MCEventDelivery` tells TLC. With no refused
command in `EventRenotify`, its announcements are never buffered a second time after
their publication; and since its clock stops at one, a client that comes back there is
told to sync. In `EventDelivery` it is replayed what it missed, too.

Fairness in `FairSpec`: the job of pending nodes issues again and again on some
instance (a ticker, `scheduler/scheduler.go:92-103`), and each publication,
relay and handler goes on. Nothing is assumed of clients, rows or other
publications, and `WaitingNodeHeard` holds because the announcement is repeated:
with a job that announces once it fails.

Left out: messages that the subscription of Redis loses (each is an event less,
which a full wire stands for), a server without Redis, which buffers nothing, the
order in which a publication goes through the channels, and an event's other
receivers.

`EventDelivery_proofs` proves, for any number of instances and connections and
any capacities, restarts and refused commands:

* `DeliveryTypes`: `Spec => []TypeOK`.
* `ListsMatch`: `Spec => []SubscribersOpen`. A connection is of one instance;
  its list, its phase and its instance change together or not at all.
* `SentFromBuffer`: `Spec => SentIsBuffered`: what enters a channel is in the buffer,
  unless Redis refused it when `Publish` buffered it. The invariant is
  `InFlightBuffered`: what a publication has sent, has on the wire, or relays is
  in the buffer or was refused. It is needed because a relay sends long after the
  publication that buffered the event, and it holds because no event that is in
  the buffer is under way for the hour after which the buffer expires (`Expire`).
  Whether a replay finds what is there is another matter: an event with an ID that
  was drawn before that of the last one seen is passed over.

What the model shows besides, without a property: a control event published
while a client is connected and its row is offline goes to the buffer only
(`service/service.go:216`), and a client that never presents an ID is replayed
nothing (`server/handler/sse.go:156`), so it never hears of it.

## 6. Workflow triggers and the job lock

`Triggers` is the job `workflow_triggers` under `WithLock`
(`scheduler/scheduler.go:130-155`), the webhook of GitHub, and the edits and
deletions that concern a trigger. One occasion is one `external_key` with its
template: a schedule and its due time, or an issue.

| action | code |
|---|---|
| `Acquire`, `Release`, `Expire` | SETNX, DEL and the time to live of the lock, whose DEL does not look whose lock it is |
| `ListDue`, `Check`, `GetProject`, `InsertRun`, `CreateTask`, `MarkFailed`, `MarkCompleted`, `Advance` | what is done for each due template, one statement each (`service/workflow_trigger.go`) |
| `Deliver` | a webhook request, which goes through the templates of the repository |
| `StatementFails`, `Crash` | any of these fails, or its process stops |
| `SetTrigger`, `ReadTrigger`, `WriteTrigger`, `DeleteTemplate`, `DeleteProject` | edits; one that does not change the trigger still writes back the time it read |

A schedule that is disabled, or has no next time, is one whose next time is
None. The lock's time to live is no clock: `Expire` may come under a running job
(an overrun, counted by `MaxOverruns`) or after a crash. Seconds and minutes are
ticks of one clock. `created_at` is the order of the templates' numbers.

| run | instance | what it shows |
|---|---|---|
| `Triggers` | two instances, one delivery, one schedule, one issue template; one fault, one overrun, one edit | `TypeOK`, `OneTaskPerOccasion`, `HistoryTellsTasks`, `OneJobAtATime`, `RunsAreSpaced` |
| `TriggersLive` | two instances, two schedules of which a run of the job lists one; one fault, one edit, no overrun | `DueIsAdvanced` |

The interval is two ticks, so that a run between two due times would be seen;
one fault is enough to stop between any two statements and come back, one
overrun for two jobs at once, one edit for a stale write.

Fairness in `FairSpec`: some instance takes the lock again and again, a job that
runs goes on, and a lock whose job is gone expires. `DueIsAdvanced` is about
schedules that are not behind a broken one, because a template whose run fails
is not advanced: it is met first every time, and with `Batch` of these nothing
else is ever reached (`db/queries/workflow_triggers.sql:26-33` orders by the due
time and then by creation, and limits).
An occasion whose run failed or was cut short is not tried again; the properties
promise at most one task, never at least one.

Left out: the signature of a webhook and what an issue says, the nodes of a
template, and a commit whose answer is lost (the statement counts as failed only
if it changed nothing).

`Triggers_proofs` proves, for any number of instances, deliveries, templates and
projects and any bounds:

* `TriggerTypes`: `Spec => []TypeOK`.
* `OneJob`: `Spec => []OneJobAtATime`, from `LockInv`: without an overrun,
  whoever is at work holds the lock.
* `OneTask` and `HistoryIsTrue`, from `HistoryInv`: a worker past its INSERT is
  alone with its occasion, because the INSERT succeeds only for the one who made
  the row, and the row is never deleted while the template is there. Locks play
  no part in it: it holds with any number of jobs at once.

* `RunsAreApart`: `Spec => []RunsAreSpaced`. The invariant `SpacedInv` looks at
  every time that has a run or may still get one (`Held`): the times of runs,
  `next_run_at`, the time in an edit's hands, and those on the list of a job.
  Only the latest of them may be without a run, and the others are an interval
  apart (`Apart`). A job advances a schedule from its own clock, so the invariant
  also says that this clock is before no run and that nothing held is beyond an
  interval from it (`Timely`); and that an edit's time is not beyond the present
  one (`Steady`), which is why writing it back does no harm: the schedule is
  listed again with a key that has a run. That needs one job at a time
  (`LockInv`) and a list without repetitions (`Once`). Most steps take nothing
  up (`CalmStep`) and keep all of it.

`DueIsAdvanced` is model-checked only.

## 7. Accounts

`Accounts` is registration (five statements without a transaction,
`service/auth.go`), login with its count of failures and its lock in Redis, the
key `jwt:<jti>` that makes a token good, and the creation and deletion of
workspaces by a member (`server/handler/workspace.go`). A handler may stop
between any two statements, and Redis may be away for a while (`RedisGoes`),
which the code meets by letting tokens pass.

The run `Accounts` has one email, two requests at once, two workspaces, one
token, a lock after two failures, two wrong passwords and one fault. Two
workspaces and two requests are what a stale count needs; two failures are the
first number that passes through "counted but not locked". It shows
`StrandedByStaleCountOnly` and `OwnerGetsIn`. The first names the one way in
which a member loses his last workspace: two deletions at once, each of which
counts two.

Fairness in `FairSpec`: requests go on, keys with a time to live and tokens run
out, Redis comes back, and the owner tries his right password again and again
(strong fairness, since a lock comes and goes: an assumption about the person,
not about the code). Wrong passwords are bounded: somebody who goes on guessing
can keep an owner locked out for good.

Left out: the built-in templates that a registration seeds, changing and
resetting passwords, logout, OAuth and token rotation, which no route reaches.

`Accounts_proofs` proves, for any number of emails, requests, workspaces, tokens
and faults:

* `TypeCorrect`: `Spec => []TypeOK`.
* `MembersAreHoused`: `Spec => StrandedByStaleCountOnly`. A registration sets the
  password last, so a member who has one must have his workspace by then, though
  another registration of the same email may have stopped or be under way. The
  invariant `Strong` says that one registration at most is past the row of the
  member, that a workspace has one owner and none before its request comes to
  that row, that a workspace about to go belongs to who asked for it, that the
  owner's row is there when the password is set, and that a deletion counted at
  least two. A step that touches none of this is `Plain`.

`OwnerGetsIn` is liveness and is model-checked only.

## 8. What an agent may do

`AgentAccess` is one agent and one permission: creation (a chain of statements,
`service/agent.go`), deletion, granting and revoking, the check that reads a
cache, asks the database and writes the cache
(`service/permission_cache.go:57-70`), and the exchange of an API token for a
session. A request under `/api` has a deadline (the 60 seconds of chi's `Timeout`,
`server/routes.go:167`), after which it starts no statement. That is what makes the
two properties hold: `CacheNotOld` (an answer is at most as old as its life and
a request's together, though an invalidation may come before the write of the
answer it should have removed) and `DeletedActsNoMore`.

A request of the agent goes one of two ways. On the routes of a workspace the
middleware looks for the agent (`CheckWorkspace`) before the permission is asked
for. The community's workflows (`server/routes_agent.go:24`) are behind the token
alone (`"community"`): whoever has one may create them, and import them into any
workspace. Tokens go with the agent, but an exchange or a creation that overlaps
the deletion inserts one afterwards, which is good for days. So `DeletedActsNoMore`
promises two different things of an agent that has been gone for a request's time:
it acts in no workspace, whatever token and cached answer are left; and it acts in
the community only while such a token is there.

Left out: the stream of events and the log WebSocket (`server/routes_public.go:40,43`).
They are outside the `Timeout`, ask once when they are opened, and then send to
whoever is there as long as the connection lasts; neither property speaks of them.

The run `AgentAccess` has two requests, one session, a life and a deadline of
one tick each, and one failing statement. The clock goes from three, so that
nothing was ever the case a while ago, to six, one tick beyond the life and the
deadline together. Grant and Revoke are
methods of the service without a route; they are modelled because the default
and role grants alone would never invalidate anything.

`AgentAccess_proofs` proves, for any number of requests and sessions, any times
and any failures: `AccessTypes`; `CacheIsRecent` from `CacheInv` (the answer a
request has read from the database was so within what is left of its deadline);
`DeletedIsOut` from `GoneInv` (a request that acts in a workspace for a deleted agent
began before the deletion: a row or token that is left, or that an exchange inserts
afterwards, begins no other; a request of the community began before it, or a token
is there, which no deletion of the agent will take any more, `TokensStay`).

## 9. Task logs

`TaskLogs` is the log lines of one task: `PersistIfPossible`, the channels of
`Gateway.clients`, the sorted set in Redis, publication to the other instances,
and `History`, which answers from the set unless it is empty.

The run `TaskLogs` has two posts through two instances, one watcher that comes
and goes, two nodes, a channel of one line, and one crash. The clock stands in
milliseconds, and two posts may fall into one (`MaxTime` 1). Two posts are
enough to change places; two nodes, for the filter of the history. It shows
`SeenOnceInOrder`, `ShownIsKept` and `HistoryHasAccepted`. The last excludes what
Redis refused or dropped (`lapsed`): an older line, though persisted, is hidden
as long as the set holds another.

`TaskLogs_proofs` proves, for any number of posts, instances, watchers, nodes and
lines and any capacity of a channel:

* `TypeCorrect`: `Spec => []TypeOK`.
* `ShownLinesAreKept`: `Spec => []ShownIsKept`. What is in a channel, on the wire,
  relayed, or in the set was inserted first (`Persisted`).
* `HistoryIsComplete`: `Spec => []HistoryHasAccepted`. The set holds nothing that
  the table has not (`FromTable`), so it does not matter which of them answers.
* `LinesComeOnceAndInOrder`: `Spec => []SeenOnceInOrder`. A line can reach a
  watcher two ways. `Places` says that only watchers of an instance are on its
  lists, so an instance that gets its own line back from Redis and drops it sends
  it no second time; `Wires` that what is on a wire is in the order in which it
  was accepted, and comes after what is being relayed; `Got` that a line that a
  watcher has is neither due to be sent to it nor before anything on the wire of
  its instance. `AfterAccepted` ties that to the time at which a line was posted.

## 10. Rows that name each other

`Resources` is which rows there are in two workspaces and what they name. What
belongs to a row goes with it by foreign key (`Delete`); the columns that name
another row have no foreign key, and hold what handlers have looked up and later
statements write. A template and a task have one node each, since ids only pass
from node to node.

Two deletions are transactions of several statements, at READ COMMITTED.
`DeleteAgent` clears the nodes of templates, then those of tasks (`ClearTaskNodes`),
then deletes the agent and commits (`CommitAgent`); `DeleteProject` clears the
memories of its tasks, then deletes the project (`CommitProject`). `going` counts the
statements that have run, `locked` holds the rows that they have written: until the
commit others find what they found before, and a write of a locked row waits.
`Rollback` is a statement that fails, or a deadlock that PostgreSQL breaks. The other
deletions are one statement each, and so are the inserts of one handler's transaction
(a task with its node, a template with its node), which nobody can look at or name
before they commit. The statement on sessions writes rows that are not modelled.

`NamesHold` says that what was looked at fits for as long as the row is there.
It is `Inside` (same workspace, always) and `GoneIsForgotten` (no deleted agent
stays named, no memory names a deleted task). Two ghosts tell where the code
does not promise it:

* `free`: tasks and memories written with an id that nobody looked at (an assignee
  of a node for any agent, the `source_task_id` of a memory), and memories written
  with a task whose project was being deleted.
* `late`: agents that a request wrote after the statement of their deletion that
  clears such columns (`Missed`), and agents that a request had in hand when the
  deletion committed. The first is a look and a write that both fall within the
  deletion, the second a look before its end and a write after it.

Without the first reason for `late` (`Missed` empty) TLC finds the property violated: the race
with the statements of a deletion is reached.

The run `Resources` has two workspaces, two requests, one row of each kind
(comments, memories, credentials included) and at most four rows created
(`MaxWork`), which reach from an agent to the node of a task that names it.
`MCResources` bounds the requests and deletions under way at once to two
(`MaxUnderWay`): a request within a deletion, two requests with a deletion of one
statement between their steps, and an agent's deletion with a project's all occur;
two requests within one deletion of several statements do not, and are covered by
the proof, which has no such bound. Left out: the deletion of memories with their agent; human assignees
are None. Deadlock is not checked: rows run out.

`Resources_proofs` proves, for any number of workspaces, of rows of each kind and
of requests under way:

* `TypeCorrect` (`TypeOK`). It says more than types: the pairs of agent and skill,
  of project and member, of task and agent are of rows that are there, so an
  insert that comes after a deletion never leaves one behind.
* `NamesAreKept` (`NamesHold`). `NamesHold` is not inductive: it says nothing of
  what a request has looked up and not yet written. The inductive invariant,
  `AllFit`, has four parts. `Tree`: a row belongs to a row of the right kind,
  which is there while it is there. `Reserved`: an id that a request is making a
  row of is nobody else's. `Fit`, of every name and of every request's answer
  alike: the agent is of the workspace of the row that names it or will name it,
  and is there while that row is, unless it was deleted late. And `AllLocked`: once a
  statement of a deletion has run, the rows that name what is being deleted are
  those it has locked, but for those written behind it. A step keeps what fits
  (`FitKept`) if it spares the agent, and a step spares every agent but the one that
  `CommitAgent` takes (`NextSpares`); of that one, the names are cleared by the same
  commit, by `AllLocked`, and the requests that have it in hand make it late
  (`HandsSpared`).

The assumption, `ResourcesAssumption`, is that the ids of rows of different kinds
are different (they are UUIDs) and none is NULL.

## 11. What the layers do with a field

Between a request and the database each field passes the decoding, the defaults
of the handler, a build function, a converter of the store and a generated
statement, and on its way back as many again. Each of them lists the fields by
hand. `AgentLayers`, `TaskLayers` and `WorkspaceLayers` have one function per
layer, from the fields it lists to what it does with the value of each (`Same`,
`NullIfEmpty`, `Seal`, `KeepIfNull`, ...). Two layers one after the other are a
layer (`a ** b`), and so are two side by side (`a ++ b`, where `a` decides what it
lists); a path from the body to the row or back is written with these. `Records`
says for each of 18 kinds of record (`AgentKind`, `TaskKind`, ...) which paths it
takes: `Create`, then edits that read the row (`ReadForUpdate`), merge and write
it back (`WriteBack`), and the views that show it.

A layer looks at one field at a time, so bodies that give all fields alike, or
one alone, take each field every way it can go. `ShownAsAsked` says that each
field a view shows is what the request that last named it said; `SecretsSealed`
that a secret is encrypted exactly once in the database. `Kinds` holds what the
API promises of each kind: which fields an edit clears, replaces or never
empties. Where edits that overlap write back old values, the field is `torn`.

The run `Resources` checks `Records` beside `Resources`, since they share no
state: two overlapping edits, each with texts of its own, on every kind.

`Resources_proofs` proves `RecordsAreKept` (`RecordSpec => []RecordsKept`) for any
number of requests that edit at once and any texts, in three parts.

* Layers. `Takes(L, f, g)` says that the layer `L` hands `f` on and makes of its
  value what `g` makes of it, up to null and empty, which the code does not tell
  apart (`Alike`); `Mild(L, f)`, that it hands it on as it is. A dozen lemmas give
  both for what layers are composed of: `ThenTakes`, `OverTakes`, `TakesAfter`,
  `FilledTwice`.
* Kinds. `Lawful(R)` is what the paths of a kind must do: each field that is
  shown, or is secret, is created (`Created`) and edited (`Edited`) in one of five
  ways (not at all; replaced; filled in by the handler when empty or when null;
  kept by the statement), and each view undoes what the creation did. There is
  one lemma per kind. It is here that a forgotten field of a converter or a
  statement would make a proof fail.
* Steps. What is shown is decided by what is in the row, and that by what the
  requests under way hold. So the inductive invariant, `RecordInv`, says that the
  row has what was said of each field that is not torn, its secrets sealed once
  (`RowFits`), and of each request that its body is one that handlers let pass
  and that the secrets it has read are sealed once (`EditorFits`). A field that an
  edit names becomes what it says (`NamedIsWritten`); another keeps what it had,
  or what the edit had read (`UnnamedIsKept`), which is the same unless it is torn.

The assumptions are `TextsAssumption` and `EditorsAssumption`: null, empty, the
default and what a creation says are texts, and so is what each request writes,
which is neither null nor empty.

Left out: ids, times, authors, explicit JSON nulls, dates that do not parse. A
trigger is one field.

## 12. Remarks on the code

Met while modelling, and denied by no property:

* **Edits.** The edit of an MCP server ignores `status` and sets "active"
  (`store/converter.go:1658`), though its answer shows it (`server/handler/mcp_dto.go:72`),
  so the field is in no view of `Records`; and a form sent back with masked variables stores
  the masks. An agent edited without `extra_args`, a project edited without its
  fields, a template edited without its nodes lose them. A trigger created
  disabled is enabled. An edit of a task that overlaps its cancellation writes
  its old status back (`server/handler/task.go:405`), as do the edits of skills,
  servers and credentials with the fields they merge.
* **Fields that get lost.** `session_expires_at` of a runtime, `is_official` of a
  market workflow, `mentions` of an edited comment, the status filter of
  `ListTasks`. `depends_on` of a template's node never resolves. The nodes of a
  project lack `readonly_dirs` and `full_control_dirs`.
* **Ids nobody looks at.** Members and reviewers of a project may be agents of
  another workspace; a human assignee may be any member.
* **Deletions.** A name that is written behind the statement that clears it outlives
  its agent, as does a memory's task. `DeleteWorkspace` leaves tokens; `DeleteAgent` compares
  `runtime_id` with the id of the agent; `DeleteTask` only cancels.
* **Accounts.** Two deletions at once pass the check of the last workspace
  (`server/handler/workspace.go:262`). A registration that stops halfway leaves a
  workspace without an owner, or a member whose email is taken. A failed EXPIRE
  leaves a count of failures for ever. A token issued while Redis is away is
  refused when it is back.
* **Permissions.** The cache is not invalidated when a role's grant fails
  (`service/agent_permission.go:232`), and failures of the default grants are
  ignored. A crash in the creation leaves an agent without a token. Any token, also
  one of an agent that is gone, creates community workflows and imports them into
  any workspace (`server/handler/community.go:156`).
* **Streams.** A stream of events or log lines goes on after its reader has lost the
  right to it. The log WebSocket lets in an agent that a node names without asking
  whether it is there (`server/handler/ws.go:124-144`).
* **Events.** What Redis refuses to buffer is sent all the same, and cannot be
  replayed (`server/ws/hub.go:264`).
* **Logs.** Lines through two instances may change places, and an identical line
  in the same millisecond is one. A send on a closed channel ends the process, as
  in section 5. Whether the node is in progress is checked before the insert, not
  at it.
* **Views.** `GetReadyNodes` (`service/node.go:930`) announces nodes that `Claim`
  refuses. A rejected node that nobody continues is shown under manual
  intervention, but is not in the list of nodes to resolve.
* **Invitations.** `POST members` reaches `InvitationService.Create`
  (`server/handler/workspace.go:283`), but nothing reaches `Accept`, so every
  membership is an owner's.
* **Rates.** INCR and EXPIRE are two commands (`server/middleware/ratelimit.go:71-86`);
  a key without the second one counts for ever.
* **Jobs.** A runtime without a heartbeat is never stale; the daily job's lock
  lives longer than a day, so a crash skips the next day.

## 13. Proved and only checked

| module | safety that is proved | only model-checked |
|---|---|---|
| `NodeWorkflow` | `TypeOK`, `FrontOrdered`, `CompletedTaskIsDone`, `ReviewedByAnother`, `RollbackBudget`, `AssigneeStable`, `ReservationHonoured`, `ReopenedByRollback`, `DecisionOnWorkRead` | `HandOverLapses` |
| `NodeRefinement`, `NodeViews` | `ImplementsPipeline`, `BoardTellsWork`, `DoneWorkWasReviewed`, `WorkEndsByResolveOnly` | |
| `RuntimeStatus` | `TypeOK`, `OfflineOnlyWhenSilent` | `DeadAgentIsDropped` |
| `EventDelivery` | `TypeOK`, `SubscribersOpen`, `SentIsBuffered` | `WaitingNodeHeard` |
| `Triggers` | `TypeOK`, `OneJobAtATime`, `OneTaskPerOccasion`, `HistoryTellsTasks`, `RunsAreSpaced` | `DueIsAdvanced` |
| `Accounts` | `TypeOK`, `StrandedByStaleCountOnly` | `OwnerGetsIn` |
| `AgentAccess` | `TypeOK`, `CacheNotOld`, `DeletedActsNoMore` | |
| `TaskLogs` | `TypeOK`, `ShownIsKept`, `HistoryHasAccepted`, `SeenOnceInOrder` | |
| `Resources` | `TypeOK`, `NamesHold` | |
| `Records` | `RecordsKept`, which has `RecordTypeOK` in it | |

The assumptions are named in each module and are about constants: sets that are
disjoint or finite, bounds that are natural numbers. Three theorems have a
condition besides: `CompletionIsFinal` and `DoneWorkIsReviewed`, that no edit
says "completed", which any edit may; `AuthorsDoNotReview` and
`DoneWorkIsReviewed`, that no agent has been deleted. The runs that check these
properties have the same conditions, and section 3 says what happens without.

Liveness stays with TLC, being out of the prover's reach.

## 14. Not modelled

* **Rate limiting**: one counter per key; nothing else reads it.
* **Execution sessions**: rows that record an execution; no route creates one.
* **Invitations, roles, removing members**: see the remark above; there is no
  membership that these would act on.
* **Audit, statistics, search, feedback**: rows that are only appended, and
  queries that only read.
* **The encryption of a credential for a runtime's key, masking of log lines**:
  functions of a library or on the text itself; `Seal` and `Lines` stand for them.
* **Open streams**, once their reader has been let in: nothing checks him again, and
  no deadline ends them (section 8).
* **Mentions, notifications of comments**: they publish events, which
  `EventDelivery` treats, whatever they say.
* **OpenAPI, the command line client, the web frontend**: no state of their own.
