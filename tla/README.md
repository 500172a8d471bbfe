# Tinytown, verified: the coordination core in TLA+

Tinytown runs a "town" of coding agents: separate processes that share nothing but a Redis
server. People, scripts, MCP clients, a dispatcher and the agents themselves all read and
write the same records there, mostly without transactions. This directory holds the TLA+
model of that coordination, the TLC runs over it, and theorems that the TLA+ proof system
checks. Paths below are those of the repository (`src/mission/...`, `docs/src/...`).

## 1. Inventory of the system

| component | state it keeps | operations | hard behaviours | what makes it correct |
|---|---|---|---|---|
| Mission scheduler (`mission/scheduler.rs`) | work items, mission tasks | `tick_mission` (reconcile, complete, promote, assign), `record_submission`, `approve_submission`, `request_changes`, `redirect_work_item` | runs from the dispatcher, from every CLI and from the MCP server; item and task are two records that must agree | an item is handed out once, after its dependencies; a gate is not passed without approval; nothing is stranded |
| Watch engine (`mission/watch.rs`) | watch items | `process_watch` with its four checks and three triggers | long GitHub calls between read and write; its fix tasks are not tied to the review | a failing check sends the work back; a watch is closed only when its condition holds |
| Dispatcher (`mission/dispatcher.rs`) | mission record, dispatch lock, control notes | `tick`, `process_control_messages`, help requests | lease with a TTL, notes against commands, back-off | one dispatcher per mission; every note applied once |
| Mission start (`mission/bootstrap.rs`, `compiler.rs`) | work graph | compile issues to items and dependencies | several records written one after the other | the graph is acyclic and keeps every declared dependency |
| Tasks (`task.rs`, `app/services/tasks.rs`) | task records, `current_task` of an agent | assign, start, complete, requeue, cancel | transitions without guards, read-modify-write of whole records | a finished task stays finished; a completion counts once |
| Backlog (`app/services/backlog.rs`) | list of task ids | add, claim, assign-all, remove | pop before save | a task is in the backlog or somebody's, never neither |
| Recovery (`app/services/recovery.rs`) | agents, tasks, inboxes | recover, reclaim, orphan reclaim | acts on snapshots of a live system | no live agent loses its task |
| Agent life cycle (`agent.rs`, `app/services/agents.rs`) | agent records, stop flags | spawn, kill, restart, pause, resume, close, prune | the state is written by the commands and by the agent's own loop | a stopped agent stops; a running one is not forgotten |
| Agent loop (`main.rs`, `AgentLoop`) | inboxes, round counter, processes | receive, run the CLI, requeue, idle, drain, stop | messages in hand during a long round, crash of the loop | no message is lost or done twice |
| Messaging (`channel.rs`, `message.rs`) | inbox and urgent lists, docket stream | send, receive, drain, filter | non-atomic filtering, priority by side of the list | every message is received once, in the order of its priority |
| MCP tools and Townhall (`app/mcp`, `app/server.rs`) | none of their own | call the services above; `GET /api/scaling` | bypass the dispatch lock; the scaling signal reads list after list | same rules as the CLI; a town with work to do is not scaled to zero |
| Migration (`migration.rs`) | the names and the form of all keys | `migrate_to_town_isolation`, `migrate_json_to_hash` | many commands, no transaction, programs of both versions beside it | nothing is lost; it can be repeated |

The rest (Redis process management, configuration, keys, events, presentation) has no
coordination logic; PROJECT.json says so component by component.

How they interact: the scheduler and the watch engine run inside a dispatcher tick; the
scheduler also runs inside `tt mission start`, `tt task complete` and the MCP tools. They reach
agents by writing a task record and sending a message; agents reach them by completing tasks.
All of it is shared state in Redis.

## 2. Modules

| module | models | lines of code it stands for |
|---|---|---|
| `AgentRouting` | the score of an agent for an item and the choice of the best one, as pure operators | `scheduler.rs` 113-160, 650-909 |
| `Mission` | one mission from its start to its completion: scheduler tick, submissions and reviews, watches, control notes, mission commands, agents that come and go, orphaned tasks | `scheduler.rs`, `watch.rs`, `dispatcher.rs`, `types.rs`, parts of `main.rs`, the services and the MCP tools |
| `AgentLoop` | one agent: its loop processes, the life-cycle commands from outside, its messages and its tasks, at the granularity of single reads and writes of the agent's record | `main.rs` 55-73, 278-296, 1776-1895, 2996-3485, 4480-4560, `agents.rs`, `recovery.rs`, `channel.rs`, `app/services/tasks.rs` in part |
| `TaskBoard` | the tasks, the backlog and the inboxes of a town, with `tt assign`, `tt backlog`, `tt reclaim` and what agents do to their tasks, at the granularity of single Redis commands | `backlog.rs` 45-180, `tasks.rs` 151-189, `recovery.rs` 85-323, `task.rs` 58-200, `town.rs` 555-634, `main.rs` 4173-4478 and parts of the loop, `channel.rs` in part |
| `MissionControl` | one mission record and everybody who writes it: dispatcher with its lease, unleased scheduler ticks, the commands of the CLI, of MCP and of the HTTP server, one Redis access at a time | `dispatcher.rs` 110-415, `storage.rs` 98-258, `scheduler.rs` 192-364 and 549-648, `watch.rs` 244-369, `types.rs` 150-184 and 412-491, `main.rs` 2484-2560 and 4773-5066, `tools.rs` 1266-2035, `server.rs` 1139-1335 |
| `WorkGraph` | from the objectives of a mission to its sorted work items | `compiler.rs` 98-432, `bootstrap.rs` 65-191 |
| `TopologicalOrder` | the abstract specification that `WorkGraph` implements | the promise of `topological_sort` |
| `Mailbox` | an agent's inbox and urgent inbox, the supervisor's mailbox and its filtering, one Redis command at a time | `channel.rs` 143-208 and 969-1135, `messages.rs` 60-126, `message.rs` 37-122, `mission/mod.rs` 91-111, `main.rs` 2936-2993 and 3066-3448 in part |
| `Migration` | both migrations, with crashes and other writers | `migration.rs` 64-570, `main.rs` 4608-4760, `channel.rs` 315-406 and 653-711 |
| `Docket` | the stream that takes the place of the lists in a town with `use_streams` | `channel.rs` 1144-1336 |
| `ScalingSignal` | `GET /api/scaling`, composed with `TaskBoard` and `Docket` whose tasks it counts | `server.rs` 439-594, `tasks.rs` 63-182, `town.rs` 617-634, `main.rs` 33-75, 278-296, 3073-3112 and 3360-3448 |
| `MCMission`, `MCAgentLoop`, `MCTaskBoard`, `MCMissionControl`, `MCWorkGraph`, `MCMailbox`, `MCMigration`, `MCScalingSignal` | the instances TLC checks | |
| `MissionProofs`, `AgentLoopProofs`, `TaskBoardProofs`, `MissionControlProofs`, `WorkGraphProofs`, `MailboxProofs`, `MigrationProofs`, `ScalingSignalProofs` | the theorems about the module each is named for | |

`Mission` and `AgentLoop` look at the same town from two sides. `Mission` takes whole handlers
as steps and sees of an agent only whether it can be given work; `AgentLoop` opens up one agent
and takes every read and every write of its record as a step. What `AgentLoop` shows to be
possible (an agent that is Idle although it was closed, an agent pruned while it works) is
what the disturbances `busy`, `death` and `late` of `Mission` admit. `TaskBoard` takes the third
side: many agents, no mission, and every command that moves a task opened up into its Redis
commands; of an agent it keeps the tasks of its round and whether it counts as live.
`MissionControl` opens up the handlers that `Mission` takes as steps, and closes the items in turn:
of an item it only knows whether it is saved, ready, handed out or done. `ScalingSignal` adds a
reader to `TaskBoard`, and implements it: `SignalRunsBoard` (section 4) brings the invariants of the one to
the other.

### How `Mission` corresponds to the code

State: `mission` is the `MissionRun` record with its membership in the active set; `items`,
`watches` and `tasks` are the records of the three Redis collections; `agents` is what the
scheduler asks of an agent's state (can it take work, is it terminal, is it there). `budget`
is not code: it bounds how many disturbances an instance admits.

One action is one whole handler, in the order the code works in: `TickFrom` is `tick_mission`,
whose four phases are `Reconciled`, `WaitIsOver`, `Promotable` and `Hirings`, and every handler
that ends in a tick (`tt task complete` of a finished item, the MCP tools) contains it. The
order in which Redis lists items and agents is nondeterministic, and so is the tie between
tasks that were updated at the same instant. `TickDies` is a process that dies between saving
an item and saving its task.

A *disturbance* is a step outside the plain course of a mission: a rejected review, a CI
failure, a check error, a failed round, an agent that is busy, dies or is pruned, a reclaimed
or cancelled orphan, a late or repeated completion, a stop, pause or redirect, an MCP call, a
crash. `Disturbances` says which an instance admits, `MaxDisturbances` how many happen.
Recoveries (resume, restart, claim from the backlog) cost nothing.

Abstractions: one pull request per item, so at most one watch of each kind; only whether a
watch has reached its failure limit is kept of its counter; texts, artifact lists (but for
being empty), times and wake-up hints are left out; deleting an orphaned task is taken as
cancelling it. Tasks are never removed from the list, so an index is a task's identity.

### How `AgentLoop` corresponds to the code

State: `agent` is the hash `agent:<id>` (its `state` and `current_task`; `Gone` when it does not
exist), `stop` the key of the stop flag, `inbox` the inbox and urgent inbox together, `tasks` the
state of each task record. For each process of `tt agent-loop`, `pc` is where it is in the loop
body, `left` the rounds before `--max-rounds`, `hand` the messages it popped, and `draft` a record
it has read and changed but not yet written; `then` is where it goes on after the write.
`command` is the same for a command: the record it read, to be written in `Finish`. `served` and
`lost` are history, `budget` bounds the disturbances.

| in the loop (`main.rs`) | action |
|---|---|
| round limit and stop flag, 3037-3055 | `Top`, `ClearStop` |
| paused, 3057-3064 | `CheckPaused` |
| nothing received, idle or idle for too long, 3066-3112 | `TakeNothing(p, FALSE)`, `TakeNothing(p, TRUE)` |
| only information received, 3190-3227 | `Dismiss` |
| messages received and classified, current task tracked, 3114-3170 | `Take` |
| state Working, task Running, 3360-3374 | `MarkWorking`, `Start` |
| the CLI runs; its `tt task complete` | `CompleteTask` |
| the CLI ended, well or badly, or could not be started, 3376-3448 | `RoundEnds`, `RoundFails` |
| back to Idle, 3450-3468 | `AfterRound` |
| left the loop, 3473-3485 | `Exit` |
| every `set_agent_state` of the above | `Save` |

`Kill`, `Interrupt`, `Resume`, `Close`, `Restart`, `McpRestart`, `Recover` and `Prune` are the
commands up to their read of the record, with their guards; `Finish` is the rest of them.

Abstractions. A record is written in one step: the code deletes the hash and sets it again in
one pipeline. One command at a time is under way (they race with the loop, not with each other).
The order and priority of messages are left out. Two processes that drain one inbox at the same
time may each get any part of it, which is more than list pops allow. Steps that nobody else
can observe are merged with their neighbour: the stop request of a kill with the read that
follows it, the requeueing of failed messages with the read of the record, the check of
recover with its read. The agent's statistics and time stamps are left out; that an agent has
been idle for long enough is a choice, open only where the stamp the code compares
was not just set. `Recover` may take an agent for dead only if every process of it is waiting
for its CLI, since that is the one place where a loop logs nothing for two minutes.

### How `TaskBoard` corresponds to the code

State: `tasks` is the hash `task:<id>` (its `state` and `assigned_to`), `backlog` how often each task
id is in the backlog list, `inbox` how often each agent has the task's `TaskAssign` message, `hand`
the tasks of an agent's round, `status` what the agent's record says (`missing` once it is deleted).
`job` is what a process is doing: the kind of command, the agent it is for, the dead agents and the
tasks it still has to go through, and, for the task it is at, its next Redis command (`find`,
`get`, `set`, `put`) and the record it has read and changed. A command of an agent (start,
give back) is a job of that agent. A completion is a job of whoever calls it: an agent's CLI, a shell, an MCP client.
It asks nothing of the task. `lost`, `orphaned`, `reopened` and `elsewhere` are history.

| in the code | action |
|---|---|
| `backlog_remove`, `backlog_pop` | `Claim`, `Remove`, `Pop` |
| `Town::agent` after a claim took the task | `Find` |
| `get_task`, `set_task` | `Get`, `Set` |
| `backlog_push`, `send`, `move_message_to_inbox`, `delete_task` | `Put` |
| `Task::new` and what it is stored with | `Add`, `Assign` |
| `list_agents` at the start of a reclaim | `Reclaim` |
| `drain_inbox`, `receive_urgent` of one dead agent | `Drain` |
| `list_tasks` of an orphan reclaim | `Scan` |
| the loops over drained messages and over orphans | `Pick` |
| `tt task complete`, `task.complete` of MCP | `Complete` |
| receive, CLI, requeue and give back of the agent loop | `Receive`, `RoundEnds`, `RoundFails` |

`tt backlog` and `BacklogService` have the same steps, but for a claim whose task has no record (the
service sends its message all the same); `Get` admits both. `tt reclaim` drains only the
regular inbox, the service the urgent one too; task assignments are in the regular one.

Abstractions: an inbox is emptied in one step (two processes that empty it get different messages,
which one message per task tells as well); the order of the backlog is left out, so `Pop` may
take any task; two messages of one task in one round count as one; an agent that dies is marked as
stopped at once, as `tt recover` does later; only an agent whose process has left is pruned (one
that still works is the subject of `AgentLoop`); text tasks, notes and tags are left out.

### How `MissionControl` corresponds to the code

State: `record` is the state in the mission record (`Absent` before a start and after a deletion),
`active` its membership in the active set, `items`, `watch` and `notes` the records of these collections,
`tasks` how often each item was handed out, `lock` the value of the dispatch lock: the token of a
process, `Dead` when that process is no more, or `Free`. `job` says of each process at which Redis
access it is (`at`), for which command (`cmd`), and what it has in memory: the copy of the record to
be written (`draft`), what the record was when that was read (`read`), the notes still to be gone through
(`todo`) or in the copy (`took`), the items to save or hand out (`hand`). `past` is history.

| in the code | action |
|---|---|
| `get_mission` and the checks of a command, up to `save_mission` | `Start`, `Command`, `McpNote`, `DispatchOnce`, `Delete` |
| `save_mission`, whoever calls it | `SaveRecord` |
| `add_active`, `remove_active` | `AddActive`, `RemoveActive` |
| `save_control_message` of a command | `PutNote` |
| the items of a start, one by one | `SaveItem`, `ItemsSaved` |
| `try_acquire_dispatch_lock` in a tick of the loop, of one mission, or in vain | `Poll`, `TickOnce`, `TickElsewhere` |
| one round of `process_control_messages`; one that redirects an item, with the new task and the item it saves | `ApplyNote`; `Redirect` |
| a due watch is read; it is saved after GitHub answered | `ReadWatch`, `SaveWatch` |
| `tick_mission` reads; it saves items and tasks; it saves the record | `ReadMission`, `HandOut`, `SaveRecord` |
| the record is read again at the end of the tick | `ReadRecord` |
| `release_dispatch_lock`; the lock expires | `Release`, `LeaseRunsOut`, `DeadLeaseRunsOut` |
| `tt task complete` up to its tick; a submission, the first or a later one | `FinishItem`; `Submit` |

Abstractions: items depend on nothing and have no gate (that is `Mission`); one watch; a redirect note may
name what does not exist, and then only counts as processed; `HandOut` saves all items of a tick at once (which saves overlap is what
`ReadMission` and `HandOut` tell apart); a submission saves the item and opens its watch in one step; a mission that waits for its items keeps its state.

### How `WorkGraph` corresponds to the code

`parsed` is the list of parsed issues, each with the issues its text names (`text`) and those
the compiler was told of (`depends_on`, nothing if `gh` failed); `manifest` the overrides, though no
caller gives any today; `depends_on`, `in_degree`, `queue` and `sorted` are the variables of the
same names in `compile` and `topological_sort`. `Compile` is one step: it has no effects outside.
The hash maps have no order, so the queue may begin in any order and freed items may join
it in any. An item is the position of its issue, since the code makes an item per parsed
issue, and finds it by its number alone.

`TopologicalOrder` says what is wanted: it lists any item whose needs are listed, may end when all are,
and may refuse a graph only if some items need each other in a circle. `ImplementsOrder` is the refinement,
with the queue and the degrees hidden: a freed item too early, a circle overlooked
or seen where there is none, would be a step that the abstract one cannot take.

### How `Mailbox` corresponds to the code

`inbox`, `urgent` and `supervisor` are the three lists from left to right, of messages that are
numbered as they are sent; `kind` says of each whether it is a task, a note, sent with high
priority or urgently, a help request or a report. `round` is a round of the agent loop with the messages it
popped, `filter` a call of `remove_inbox_messages_matching` between its Redis commands: `LookForHelp`
(LRANGE), `DeleteMailbox` (DEL), `PushKept` (one RPUSH). What it keeps is `Selected`, which is SelectSeq
written with the places of what is kept, so that proofs can speak of them. `ReceiveUrgent` and `DrainInbox` pop one
message a step; `Requeue` sends the messages of a failed round again, with their priority. `handled` and
`past` are history: messages tried in vain (`tried`), moved between a filter's steps (`between`),
deleted (`gone`).

### How `Migration` corresponds to the code

`old` and `new` are what is stored under the name of a key before and after the isolation of
towns: nothing, a list, a JSON string, a string nobody can parse, or a hash; `written` are the writes
a key has taken, `mixed` the keys that were written under both names. `run` is the migration under way
with its scan, its key and its place in the order of kinds. `WriteOld`, `WriteJson` and `WriteHash` are
programs of three versions. A pipeline is not a transaction, so `DeleteJson` and `SetHash` are steps
of their own, between which others may write; but a program that dies has sent its pipeline or has not,
so `Crash` does not fall between them.

### How `ScalingSignal` corresponds to the code

`agent` is the part of an agent's record that the server looks at: its state, its current task
and whether `last_active_at` is longer ago than the time-out. Every step of `TaskBoard` goes on beside
it (`Board`), in the order in which the agent loop writes the record (`InOrder`, `Track`, `Work`, `Rest`).
The lists are used whatever `use_streams` says, which nothing but this request reads (`server.rs` 477). With it, programs
outside this repository also use the docket, as the tests do (`Docket`). `signal` is the request: `BacklogLen`, `ListPending`, `ListTasks`, `CountInFlight`
and `Answer`, or `PendingCount`, `Unread` and `Length`, each one read. `moved` is history: what changed its
place since the request came in. The last answer and `failures` are forgotten as soon as the town moves on. A completion that has been written goes on to the
record of the agent the task names, and clears its current task if it is this one (`Cleared`), in one step. Only the first agent states are told apart (Starting, Working, Idle, and
not active); the inboxes of all agents are read at once. A read that fails is taken for an empty list, and of an
inbox only the first 100 messages are read (`tasks.rs` 69): both are a read that is cut short (`Fails`), which may
leave any part out.

## 3. Runs

Deadlock is not checked: a completed or stopped mission and an agent that left have nothing left to do. Every property of a passing run has a mutant of the code's definition in
PROJECT.json that the same configuration finds to violate it.

| run | instance | shows |
|---|---|---|
| `operators` | design, then a gated implementation; coder and reviewer; one slot; two of 15 kinds of disturbance, every one but failed rounds and backlog reclaim; 5 tasks | `GateHolds`, `HandedOutOnce`, `TypeOK` hold whatever operators, MCP callers, crashes and deaths do |
| `recovery` | three items, one slot; two of: late, fail, error, stop, round, busy, death, reclaim; 4 tasks | `StartedItemMoves` (`InProgressHasTask` and `BlockedWasSubmitted`), `DependenciesFirst`, `HandOutWithinLimit` hold through loss and recovery of agents |
| `progress` | design and gated implementation under `FairSpec`; two of: reject, fail, error, round, busy; 7 tasks | `MissionCompletes`, `ReviewIsRequested`, as long as a reviewer is idle whenever work may be submitted (`ReviewerAtHand`) |
| `completed_early` | one CI failure | violation: an item of a Completed mission is reopened |
| `messages` | two loop processes, two tasks, one round each; three of: kill, interrupt, resume, close, restart, mcp_restart, recover, prune (any agent), failed round, crash, expired stop flag | `TypeOK`, `MessageInOnePlace` |
| `loop_progress` | one process with two rounds, two tasks and a note, under `FairSpec`; two of: kill, interrupt, close, recover, failed round | `StopIsHonoured`, `SentIsTaken`, `IdleAgentStops` |
| `board` | one task, two agents, two processes that run commands; three of: a claim for an unknown agent, remove, reclaim to the backlog or to an agent, orphans requeued, cancelled or deleted, a completion by somebody else, a forgotten one, a failed round, stop, prune, crash of an agent or of a command | `TypeOK`, `HandedOutOnce`, `NothingStranded`, `FinishedStays` |
| `control` | one dispatcher that loops, one operator, one item, one note; a start and two commands of ten kinds; submissions at any time; one crash or expired lease; `FairSpec` | `LeaseIsHeld`, `RunningIsActive`, `HandedOutOnce`, `EndedStaysEnded`, `WatchStaysDone`, `CompletedHasItems`, `NoteTakesEffectOnce` (`NoteReachesRecord` and `NoteAppliedOnce`), `NoteIsProcessed` |
| `compile` | up to three objectives out of four issues, one of another repository with a number used twice, and documents; every text that names at most one issue; three manifests; every failure of `gh` | `ImplementsOrder` (safety, and that every graph gets its verdict), `DeclaredOrderIsKept`, `RefusedForACycle` |
| `delivery` | three messages of six kinds to an agent and to the supervisor; two handlers that filter; one failed round; one crash or reset | `NothingLost`, `WaitsOnce`, `KeepsOrder`, `UrgentFirst`, `IsServed` |
| `repeated` | an agent record, a task record and an inbox, anywhere at first and with any JSON broken; two writes by programs of three versions; one crash | `NothingLost`, `LeavesOnlyReported`, `Converges` |
| `scaling` | one task and one docket entry, one agent, one command, with and without streams; two of: stop, reclaim, failed round, a completion by somebody else, a forgotten one, crash of the agent or of a command; one failed read | `ZeroOnlyWithoutWork`, `CountIsExact`, `DoneIsZero` |

**Bounds and why they are enough.** Two items are the least with a dependency; three add an
item that competes for the slot. Coder and reviewer are the least with a gate; with a third
agent the routing choice is only wider. One watch kind is one pull request that can go red or
green; more kinds are more copies of it. Two disturbances are what all known bad interleavings
need, in any combination, and the task bound is high enough for every mission of the instance to
complete with both: `progress` could not hold otherwise.

For the agent loop, two processes are the least that compete for an inbox and two tasks the least
of which a round can hold a part, or one can be the stale current task of the other. One round
each in `messages` suffices because a process that has ended can be started again with new
rounds; two rounds in `loop_progress` let an agent come back to the top of the loop with and
without rounds left. Three disturbances make kill, restart and a failed round or a crash; no
limit applies to the proof of `MessageInOnePlace`. resume and restart are kept out of
`loop_progress` since they withdraw the very stop it asks about, and so is the expiry of the stop
flag: a round that runs for more than an hour does miss its stop.

For the task board, one task is enough because commands on different tasks share nothing but the
emptiness of a list (two tasks with two disturbances were checked too: 3.4 million states, more than
a run has time for). Two agents are the least between which a task can be moved, two
commands the least that can race. Three disturbances make a stop, a reclaim and a failed round, or
a crash between two steps of any of them. What the properties exempt was found by running them
without the exemption, and is what one should know of this code:

* a claim for an agent that does not exist takes the task out of the backlog and fails (`lost`);
* a CLI that ends well without completing its task leaves the task Running with no message (`lost`);
* a reclaim of orphans goes by the records, so a task that a reclaim of inboxes moved (which
  leaves `assigned_to` at the dead agent) is in two places after both of them (`orphaned`);
* a round that completed its task and then fails puts its message back, from where it may be
  reclaimed, claimed and done again (`reopened`);
* a failed round reads its task's record, a reclaim under way moves the message to another agent that
  completes the task, and the write of the first then takes the task back, Assigned and in no list
  (`reopened`; 25 steps);
* anybody may complete any task (`tasks.rs` 151). One that waits in a list when it is completed is set to Assigned again by
  the next claim or assignment (`backlog.rs` 116, 161), and one whose start has just read its record is overwritten by Running
  (`main.rs` 3367). `elsewhere` are the tasks so completed, at a moment when no agent was at work on them. What somebody
  completes in the middle of a round stays completed, as does what its own agent completes.
  `docs/src/concepts/tasks.md` 96 calls these states terminal.

For the mission record, one operator and one dispatcher are the least that race, and two commands after the
start the least that can undo each other (stop, then resume). The operator's own ticks (`dispatch`,
`mcp_pause`, `mcp_resume`, the start, a completion) are the second dispatcher. What
`past` exempts was found by running the properties without it:

* a stop that overlaps a resume, or a note that is carried out on a stopped mission, leaves the record Running outside the active
  set, and `resume` then says that it is already running (`mislaid`);
* a tick of the scheduler without the lease hands an item out that another tick has read as ready
  too (`raced`). A redirect is a hand-out more by intent, and is counted (`redirects`): beside it too, an item may
  get the task of a tick that had read it as ready;
* a dispatcher whose lease ran out under it carries notes out again and opens watches again that
  were completed (`overrun`, `outlived`); the lease is never refreshed;
* a dispatcher that dies between the marks on its notes and the save of the record loses what they asked for; the
  note is Processed and nothing came of it.

A stop asks for no state (but in MCP): a mission that is Completed or Failed becomes Blocked, and can be
resumed. `docs/src/cli/mission.md` calls `--force` "cannot be resumed"; a plain stop after it makes it so.

A watch that is Done is opened again by a submission (`ensure_pr_watches` sets any watch of the item Active), and only by
it: this is what `WatchStaysDone` says. If the resubmission comes while a dispatcher waits for GitHub, the answer to the
older state closes the watch again; nothing in the code prevents this, and no property says otherwise.

For the compiler, three issues are the least with a chain and a side edge, or a circle that two of three
form; a fourth adds no new way for a number to be shared. One named issue per text suffices because edges of a text are independent, and
the second manifest adds an item with two. What the properties exempt:

* an issue GitHub does not show is compiled without its dependencies, and only a warning says so;
* issues are told apart by number only: of two repositories' issues with one number the later stands for both,
  which loses edges, makes false ones, and may refuse a mission that has no circle.

For the mailboxes, three messages are the least of which one can be overtaken by another while a third is in
hand. Exempt:

* urgent messages and those of high priority are received last in, first out;
* a failed round sends its messages again behind newer ones (`tried`), and an urgent message that comes
  when the round has already looked for it waits for the next (`missed`);
* a message sent to the supervisor between a filter's read and its deletion is lost (`late`), one between deletion and
  push comes first (`between`), and two filters at once keep some twice (`overlap`).

For the migrations, two records and a list are all forms a key takes. Exempt: a key in use under both
names, whose newer value the RENAME overwrites, and one that others write between the read of its JSON and its
hash (`mixed`); a record whose JSON cannot be read is reported, and makes every later run begin again.

For the scaling signal, one task is the least that can be overlooked, and one agent the least that can be idle
or busy; each task is counted by itself. That a round is about two tasks, or that the current task of an agent is not the one in
its hand, takes two: these were checked without streams and with one disturbance (563,000 states; with
streams there are more than a run has time for), and the theorems hold for any number. The properties hold only for what keeps its place during
the request (`moved`) and where no read is cut short (`failures`): a task that is claimed between the read of the backlog and that
of the inboxes is in neither, and a list of agents that cannot be read is taken for an empty one, which says
"scale to zero" while work waits. A round about several tasks counts none of them as in flight. Messages
of finished tasks count as pending for ever, as do docket entries nobody acknowledged. `Astray` exempts from the count
of tasks in flight those that a reclaim of orphans took or that were given back wrongly: with a forgotten completion
and a requeued orphan beside the stop, an agent may idle with such a task as its
current one (found in 27 steps), so that a task in the backlog counts as in flight, too. A task that is completed before its agent
comes to it may be taken for open again, and the record of its agent cleared under the round (`elsewhere`). `DoneIsZero` exempts
none of these completions: once all tasks are over, no record may hold on to one.

In a town with `use_streams` the request reads the docket only, and the town goes on using its lists: `ZeroOnlyWithoutWork`
exempts what waits in them there. Without the exemption it fails in 11 steps: a task is added to the backlog, an agent is idle for
long enough, and the answer is to scale to zero. `docs/src/advanced/townhall-rest.md` 69 says "no queued work", and `config.rs` 69 that
"backlog operations use XADD/XREADGROUP/XACK instead", which they do not. The hypothesis of the theorems about
the counts, no reclaim without a destination, is the one `NothingStranded` needs.

**Found by runs that are no longer kept.** Earlier versions of this project had runs for these; their configurations
are those of `completed_early`, `messages` and `board` with one disturbance, and of `scaling` with streams and none:

* a rejected review hands its fix to the reviewer: while only the Review task is open, the tick's reconciliation
  makes the reviewer the owner of the item (`scheduler.rs` 401; `docs/src/concepts/coordination.md` says "back to the owner");
* a task that is completed while it waits in a list is opened again (`backlog.rs` 116; `docs/src/concepts/tasks.md` says "Terminal states");
* a town with `use_streams` and a task in its backlog is told to scale to zero (`server.rs` 477; `docs/src/advanced/townhall-rest.md`
  says "no queued work");
* a review is asked for only if a reviewer is idle when the work is submitted (`scheduler.rs` 1338);
* a kill and a restart before the loop saw its stop flag leave two processes for one agent (`main.rs` 4514);
* `tt close` marks an agent Draining, and the end of its round makes it Idle again (`main.rs` 3457);
* `tt reclaim` without a destination takes the messages out of the inboxes it is asked to list (`main.rs` 4401).

**Which disturbance breaks what.** The properties of `recovery`, of `completed_early` and of the runs above that are no
longer kept were explored with one kind of disturbance at a time:

| property | broken by |
|---|---|
| `InProgressHasTask` | crash, cancel, mcp_complete |
| `DependenciesFirst` | redirect, mcp_approve, mcp_reject |
| `HandOutWithinLimit` | redirect |
| `HandedOutOnce` | death, then reclaim, then redirect (none of them alone) |
| `FixGoesToAuthor` | reject, fail, redirect, mcp_reject |
| `CompletedMeansDone` | late, fail, mcp_approve, mcp_reject |

That is, operators who redirect or approve items by hand override dependencies and limits, a
crash at the wrong moment strands an item, and `task.complete` over MCP does not tell the
mission; `recovery` shows that nothing else does.

**Fairness** (`FairSpec`): the dispatcher keeps ticking (`MissionDispatcher::run` is a loop);
an agent that is alive finishes the task it holds (that is what the agents are for);
a busy agent is idle again (the end of a round in the loop); GitHub in the end reports a watched
pull request as clear, and then keeps doing so until that is seen. No disturbance is fair, and
they are finite in number.

In `AgentLoop`: a process that lives takes its next step and its CLI comes back (weak
fairness of `LoopStep`; the loop is one thread and waits for nothing but the CLI and its own
sleeps); a command that has read the record writes it (weak fairness of `Finish`). An agent with
nothing to do polls its inbox again and again, each time a little longer idle, so the poll that
finds the idle time-out elapsed comes in the end: strong fairness of `TakeNothing(p, TRUE)`, which
is enabled only now and then, at each of these polls. Nobody has to send, kill or resume.

In `MissionControl`: a process that lives goes on to its next Redis access (weak fairness of its steps), the loop
comes round again, and Redis expires the lease of a dead process; nobody has to give a command, and crashes
are finite in number. In `Mailbox`: the agent's loop goes on with its round and begins another, as the
code's loop does, or is started again after a crash. In `Migration`: a run goes on to its end, and an operator
begins each migration again while `needs_migration` or `needs_hash_migration` asks for it (strong fairness: a
record that others are writing may be in need only now and then); `docs/src/cli/migrate.md` promises that it may be repeated. In `WorkGraph`: one call of one function runs to its end.

## 4. What is proved

TLAPS checks, for every value of the constants that satisfies `MissionConstants` (any finite set
of items, any agents, dependencies, policies, bounds):

* `TypeCorrect` (`MissionProofs`): `Spec => []TypeOK`. One lemma per action; the lemmas about the
  operators (`Planned`, `Hirings`, `AssignedItems`, `WithReviewTask`, ...) are reused below.
* `GateIsKept`: `Spec => []GateHolds`. `GateHolds` is inductive together
  with `TypeOK`: a gated item becomes Done only in `WaitIsOver` and in `Approved`, both of which
  ask for the approval and the watches, and whatever clears an approval or reopens a watch
  (`AssignTo`, `Submitted`, `ChangesRequested`, `Rewatched`) takes the item out of Done in
  the same step.
* `WorkIsHandedOutOnce`: `Spec => []HandedOutOnce`, provided orphans are
  not reclaimed into the backlog. `HandedOutOnce` alone is not inductive; the invariant (`OnceNow`) adds
  that open tasks of an item have an owner, that none is queued, and that an item that can be
  handed out has none. The assumption is there because of the three steps (death, reclaim, redirect) in
  the table above, which do hand an item out twice.
* `StartedItemsMove`: `Spec => []StartedItemMoves`, without the disturbances that the table says break
  `InProgressHasTask`, and without a rejection over MCP of an item nobody submitted. It joins two theorems, so that each
  has only its own hypotheses: `ProgressHasTask`, for which every handler is followed from the tasks it closes to the items it moves
  on, and `BlockedIsSubmitted`, whose invariant (`Shown`) is that an item that is blocked, is watched, or has a review or a
  fix among its tasks has a submission on record.
* `DependenciesComeFirst`: `Spec => DependenciesFirst`, without `redirect`, `mcp_approve` and `mcp_reject`. The invariant
  (`Untouched`) is that a pending item has no task and no watch, so that no handler but the tick, which looks at what it
  depends on, can make it leave.
* `HandOutIsLimited`: `Spec => HandOutWithinLimit`, without `redirect`. Only `Hirings` hands out new work, at most as many
  items as there are slots; `TickDies` hands out a part of that.

For every value that satisfies `AgentLoopConstants` (any number of processes, tasks, notes,
rounds and disturbances):

* `TypeCorrect` (`AgentLoopProofs`): `Spec => []TypeOK`. That the rounds of a process do not go
  below zero is not inductive by itself: `Positions` says where in the loop a process has a
  round left and may hold messages, and counts a process that is about to write the record
  as where it goes after that.
* `NoMessageIsLost`: `Spec => []MessageInOnePlace`. The invariant adds that a
  task somebody has was assigned (so that `Assign` sends it only once) and that a prune is under
  way only where prunes are admitted. Most steps move no message (`StillKeepsMessages`); each
  of the others moves those of one process (`ShiftKeepsMessages`) or brings a new one
  (`NewMessageIsApart`).

For every value that satisfies `MissionControlConstants` (any dispatchers, operators, items, notes,
commands and bounds):

* `TypeCorrect` and `LeaseHeld` (`MissionControlProofs`): `Spec => []TypeOK` and `Spec => []LeaseIsHeld`. A tick of the
  scheduler that a start or a completed task causes runs through the steps of a dispatcher's tick without the lease;
  the invariant (`JobOK`) tells these apart by the command that began them, and keeps the type of every copy of the
  record, which a later step writes. A step that gives a process something else to do is one lemma
  (`Continues`, `MovesOn`, `BeginsOn`, `DraftsOn`); only `Acquire`, `Release`, `Crash` and the end of a lease touch the lock.
* `EndedMissionStays`: `Spec => EndedStaysEnded`. `Faithful` keeps of every copy of the record, from its read to its write,
  that one which says Running was read from a record that was not over, through all the notes
  that are applied in between; `Fresh`, that the start, which reads nothing, comes before all else.
* `RunningMissionIsActive`, `ItemHandedOutOnce`, `DoneWatchStays`, `CompletedMissionHasItems`, `NoteEffectOnce`: the
  properties of the `control` run of these names (`RunningIsActive`, `HandedOutOnce`, `WatchStaysDone`,
  `CompletedHasItems`, `NoteTakesEffectOnce`). They share a second invariant, `MoreInv`: `Courses` says of each command at
  which steps it may be and what it then has in memory; `WatchSeen` and `NotesSeen`, that what a process read of the watch
  and of the notes still holds unless it has outlived its lease; `Unsaved`, that the items a start has yet to save are
  nobody's; `HandOnce`, that an item that is ready or in the hands of a tick has no task and is in one tick's hands;
  `DoneHasTask`, that whoever completes the mission for its items has seen one with a task.

For every value that satisfies `TaskBoardConstants` (any tasks, agents, clients and disturbances):

* `TypeCorrect` (`TaskBoardProofs`): `Spec => []TypeOK`, with `Shapes`, which says what each kind of command has in memory
  at each of its steps.
* `TaskHandedOutOnce`: `Spec => []HandedOutOnce`. That no two places hold a task is proved as `Alone`: of all inboxes, rounds and
  commands one at most has it, which survives a step because every step takes a task from one place and puts
  it in one (the lemmas named `...Moves`), and a new task, which comes from nowhere, is nowhere (`News`). The inbox of a
  pruned agent counts like any other.
* `OpenTaskIsSomewhere`: `Spec => []NothingStranded`, provided nobody reclaims without a destination (`"list"`). That
  command drops the messages it is asked to list, as told above, and the `board` run leaves it out for the same reason.
* `FinishedTaskStays`: `Spec => FinishedStays`. But for the tasks completed while nobody was at work on them (`elsewhere`), a
  finished task is in no list, and no command but its agent's own or another completion has a
  copy of its record to write (`Over`); that an agent's commands are about tasks in its hand is `OwnJobs`, and
  that what a reclaim of orphans goes through is exempt, `Orphans`.

For every value that satisfies `WorkGraphConstants` (any issues, texts, manifests, and every order of the hash maps):

* `DeclaredOrderKept` and `RefusedOnlyForACycle` (`WorkGraphProofs`): `Spec => []DeclaredOrderIsKept` and
  `Spec => []RefusedForACycle`. The invariant `GraphIsSorted` has the reading (`ReadingOK`), the graph that is made of it (`Heard`:
  whoever is taken at its word waits for what it names; `Grounded`: who waits, waits for something that was named) and
  Kahn's algorithm (`Kahn`: an item's counter is the number of its needs not sorted yet, the queue has those that
  need nothing, and what is sorted or queued comes after its needs). A sort that ends with items left over has found a
  circle: each of them needs another of them.
* `SortImplementsOrder`: `Spec => Order!Safety`, the refinement of `TopologicalOrder`: the initial states map to initial
  states (`RefinedInitially`), and each step to a step or a stutter (`RefinedByStep`). That every graph gets its
  verdict (`Decided`) is liveness and stays with TLC, which checks both as `ImplementsOrder`.

For every value that satisfies `MailboxConstants` (any messages of these kinds, filters, failures and accidents):

* `NoMailIsLost`, `MailWaitsOnce`, `MailKeepsOrder`, `UrgentMailIsFirst` (`MailboxProofs`): `NothingLost`, `WaitsOnce`,
  `KeepsOrder` and `UrgentFirst` hold always. They have one inductive invariant, `MailInOrder`: each list and hand has messages
  of its kinds only (`InItsList`); what a filter is about to delete is kept, to be handled, or came late (`Covered`); no message is
  missing (`NoneMissing`) or twice (`AgentOnce`, `SupervisorOnce`); those a failed round sent again are marked (`AgentOrder`);
  what a filter pushes was sent before what is in the mailbox, but for what came between its steps (`SupervisorOrder`); and an
  urgent message that waits while regular ones are run came after the round had looked (`UrgentInTime`). The lemmas are about
  lists under pops, pushes, joins and `Selected`, whose places are counted by a strictly increasing function.

For every value that satisfies `MigrationConstants` (any keys, writes and crashes):

* `MigrationLosesNothing` and `MigrationLeavesOnlyReported` (`MigrationProofs`): `Spec => []NothingLost` and
  `Spec => LeavesOnlyReported`. A key nobody disturbed is under one name or in the hands of its conversion, with its newest
  write (`Unmixed`; writes are numbered in their order, `Numbered`); what a run has not seen and not reported is of a kind, or in a
  list, that it still comes to (`Thorough`).

For every value that satisfies `ScalingConstants` (any finite sets of tasks and agents, any docket entries, commands,
disturbances and failed reads), with the lemmas of `TaskBoardProofs` used as they stand:

* `SignalRunsBoard` (`ScalingSignalProofs`): `SignalSpec => Spec`. Each step is one of `TaskBoard` or leaves its variables
  alone, so what is proved of the board holds beside a request.
* `ZeroMeansNoWork`: `SignalSpec => ZeroOnlyWithoutWork`, without further hypotheses, but with the lists of a town with streams
  exempt by the property itself. The invariant (`NothingOverlooked`) says that what is
  between two places is in `moved` (`MovesAreSeen`), that a task that waits in a list already read, and has not moved, makes
  the number of those queued positive (`TaskCounted`), and that an entry that is pending or unread is counted (`EntriesCounted`).
  Messages are counted as elements of a set, so that a message there makes the count positive, which needs no induction.
* `CountMatches` and `DoneScalesToZero`: `SignalSpec => CountIsExact` and `SignalSpec => DoneIsZero`, provided nobody reclaims without a
  destination. `CountOK` says that what was counted is there as long as nothing moved; that an agent's record names what the
  agent has takes `RecordsMeant`: a Working agent names the task of its round unless it is finished or was completed `elsewhere`
  (`WorkNamed`), and whoever goes on to clear a record has completed the task (`Completions`);
  a named task is in hand, on its way back, just finished, or lost and in no place at all (`NameMeant`). The last rests on what
  the board keeps of a task that is nowhere (`Gone`), and of its finished and its failed rounds (`BoardSettles`).

**Only model-checked:** liveness, for which TLAPS lacks ENABLED: `StopIsHonoured`, `SentIsTaken` and
`IdleAgentStops` of `loop_progress`, `MissionCompletes` and `ReviewIsRequested` of `progress`, `IsServed`, `Converges`,
`NoteIsProcessed` and `Decided`. Every safety property of a passing run is a theorem, under the hypotheses named above; the
runs check them on instances that meet these hypotheses.

## 5. Not modelled, and the plan

Not modelled in the components that have a module. In `Mission`: the interleaving of single
Redis commands inside a handler (actions are whole handlers; `MissionControl` has it, for the record and the hand-out); claims by the supervisor;
agents spawned during a mission; the NotifyReviewer trigger, which no watch of `ensure_pr_watches`
uses; when help is asked for (the back-off is arithmetic on clock times). In `AgentLoop`: the counters
(`tasks_completed` is raised with HINCRBY and then overwritten by whole-record writes), the time stamps (a restart
does not renew `last_active_at`, so a restarted agent with an empty inbox drains at its first poll), signals. In `Mailbox`: the
text of messages; a message that cannot be parsed (an urgent one ends the loop, a regular one is
dropped). In `ScalingSignal`: agents that are paused or draining, and text messages without a task.

Not modelled at all: the start of a Redis server (process and file-system I/O), the event stream (nobody reads it to
decide anything), configuration and key formats (no state changes), authentication and presentation.

Planned, most important first:

1. An abstract specification "an item is Waiting, Held or Done", which `Mission` should implement.
2. The review of one item with `MissionControl`'s steps, so that a submission and a tick overlap.
