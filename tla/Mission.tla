------------------------------- MODULE Mission -------------------------------
(***************************************************************************)
(* Mission mode: one mission of a town, from its bootstrap to its          *)
(* completion. The scheduler (src/mission/scheduler.rs), the watch engine  *)
(* (watch.rs), the dispatcher's control notes (dispatcher.rs), the CLI     *)
(* that completes tasks and stops or resumes the mission (main.rs) and the *)
(* agents that work on its tasks all read and write the same records in    *)
(* Redis: the mission, its work items, its watch items and its tasks.      *)
(*                                                                         *)
(* One action is one whole handler; its writes take effect together.       *)
(* Nothing is assumed about when a handler runs: agents, operators and the *)
(* dispatcher interleave freely. Handlers that die half way are the        *)
(* "crash" disturbance.                                                    *)
(***************************************************************************)
EXTENDS Integers, FiniteSets, Sequences, AgentRouting

CONSTANTS
  Items,             \* the work items of the mission
  Agents,            \* the agents of the town
  NoAgent,           \* stands for an absent Option<AgentId>
  DependsOn,         \* [Items -> SUBSET Items], WorkItem.depends_on
  Kind,              \* [Items -> WorkKind]
  Role,              \* [Items -> OwnerRole], WorkItem.owner_role
  Lane,              \* [Agents -> AgentLane]
  WatchKinds,        \* the kinds of PR watch an instance distinguishes
  MaxParallel,       \* MissionPolicy.max_parallel_items
  ReviewerRequired,  \* MissionPolicy.reviewer_required
  MaxFailures,       \* WatchEngineConfig.max_failures
  FilteredDispatch,  \* does some dispatcher run with --run <this mission>?
  Disturbances,      \* which disturbances an instance admits (see Disturb)
  MaxDisturbances,   \* bound: how many of them happen
  MaxTasks           \* bound: how many tasks are ever created

WatchKind == {"PrChecks", "BugbotComments", "ReviewComments", "Mergeability"}

ASSUME MissionConstants ==
  /\ IsFiniteSet(Items) /\ Items # {}
  /\ NoAgent \notin Agents
  /\ DependsOn \in [Items -> SUBSET Items]
  /\ Kind \in [Items -> WorkKind]
  /\ Role \in [Items -> OwnerRole]
  /\ Lane \in [Agents -> AgentLane]
  /\ WatchKinds \subseteq WatchKind
  /\ MaxParallel \in Nat
  /\ ReviewerRequired \in BOOLEAN
  /\ MaxFailures \in Nat \ {0}
  /\ FilteredDispatch \in BOOLEAN
  /\ MaxDisturbances \in Nat
  /\ MaxTasks \in Nat

VARIABLES
  mission,  \* the MissionRun record and its membership in the active set
  items,    \* the WorkItem records
  watches,  \* the WatchItem records: one PR per item, one watch per kind
  tasks,    \* the Task records bound to the mission, in creation order
  agents,   \* what the scheduler reads of each agent's state
  budget    \* disturbances still to come

vars == <<mission, items, watches, tasks, agents, budget>>

----------------------------------------------------------------------------
(* Records *)

MissionState == {"Planning", "Running", "Blocked", "Completed", "Failed"}

WorkStatus == {"Pending", "Ready", "Assigned", "Running", "Blocked", "Done"}

MissionRun == [state : MissionState, active : BOOLEAN]

\* evidence: artifact_refs is not empty.
WorkItem ==
  [status : WorkStatus, owner : Agents \cup {NoAgent},
   approved : BOOLEAN, evidence : BOOLEAN]

\* "None": no such watch item exists yet. Only whether the failure count has
\* reached MaxFailures is ever asked, so it stops there.
WatchItem ==
  [status : {"None", "Active", "Snoozed", "Done"}, failures : 0 .. MaxFailures]

NonTerminal == {"Pending", "Assigned", "Running"}

\* queued: the task's id is in the town's backlog list.
Task ==
  [kind : {"Work", "Fix", "Review"}, item : Items,
   state : NonTerminal \cup {"Completed", "Failed", "Cancelled"},
   owner : Agents \cup {NoAgent}, queued : BOOLEAN]

\* "idle" can accept work; "busy" is every other live state; "terminal" is
\* Stopped, Error or Cold; the record of an "absent" agent is gone.
AgentClass == {"idle", "busy", "terminal", "absent"}

TypeOK ==
  /\ mission \in MissionRun
  /\ items \in [Items -> WorkItem]
  /\ watches \in [Items -> [WatchKinds -> WatchItem]]
  /\ tasks \in Seq(Task) /\ Len(tasks) <= MaxTasks
  /\ agents \in [Agents -> AgentClass]
  /\ budget \in 0 .. MaxDisturbances

\* A step that is not part of the undisturbed course of a mission.
Disturb(what) ==
  /\ what \in Disturbances
  /\ budget > 0
  /\ budget' = budget - 1

Idle == {a \in Agents : agents[a] = "idle"}

Reviewers == {a \in Agents : Lane[a] = "Reviewer"}

\* The agent has no record, or a terminal one.
Stale(a) == agents[a] \in {"terminal", "absent"}

NewTask(kind, i, a) ==
  [kind |-> kind, item |-> i, state |-> "Assigned", owner |-> a,
   queued |-> FALSE]

OpenTasks(ts, i) ==
  {n \in DOMAIN ts : ts[n].item = i /\ ts[n].state \in NonTerminal}

OpenTasksOfKind(ts, i, kind) == {n \in OpenTasks(ts, i) : ts[n].kind = kind}

\* requires_reviewer_gate
Gated(i) == ReviewerRequired /\ Kind[i] \in {"Implement", "Test"}

WatchesClear(ws, i) == \A k \in WatchKinds : ws[i][k].status \in {"None", "Done"}

AllWatchesDone(ws) == \A i \in Items : WatchesClear(ws, i)

InProgress(its) == {i \in Items : its[i].status \in {"Assigned", "Running"}}

\* WorkItem::assign
AssignTo(item, a) ==
  [item EXCEPT !.owner = a, !.status = "Assigned", !.approved = FALSE]

\* What a handler that leaves the mission record alone persists.
Commit(its, ws, ts) ==
  /\ Len(ts) <= MaxTasks
  /\ items' = its
  /\ watches' = ws
  /\ tasks' = ts
  /\ UNCHANGED mission

----------------------------------------------------------------------------
(* The scheduler tick *)

\* The order of select_authoritative_mission_task: kind first, then state.
Authority(t) ==
  10 * (CASE t.kind = "Work" -> 3 [] t.kind = "Fix" -> 2 [] t.kind = "Review" -> 1)
  + (CASE t.state = "Running" -> 2 [] t.state = "Assigned" -> 1 [] OTHER -> 0)

\* The tasks one of which speaks for item i, 0 when it has no open task. Ties
\* go to the latest updated_at, which is not modelled: any of them may win.
Authoritative(ts, i) ==
  LET open == OpenTasks(ts, i)
  IN  IF open = {} THEN {0}
      ELSE {n \in open : \A m \in open : Authority(ts[m]) <= Authority(ts[n])}

\* A choice of the authoritative task of every item.
Authorities(ts) ==
  {auth \in [Items -> UNION {Authoritative(ts, i) : i \in Items}] :
     \A i \in Items : auth[i] \in Authoritative(ts, i)}

\* The two halves of reconcile_work_item_assignments on an item: it follows the
\* task that speaks for it, or it is taken from an owner that is gone.
FollowTask(item, t) ==
  [item EXCEPT !.owner  = IF t.owner = NoAgent THEN @ ELSE t.owner,
               !.status = IF /\ t.kind \in {"Work", "Fix"}
                             /\ t.state \in {"Assigned", "Running"}
                          THEN t.state ELSE @]

ReleaseStale(item) ==
  IF /\ item.owner # NoAgent /\ Stale(item.owner)
     /\ item.status \in {"Assigned", "Running", "Blocked"}
  THEN [item EXCEPT !.owner  = NoAgent,
                    !.status = IF @ = "Blocked" THEN @ ELSE "Ready"]
  ELSE item

\* Wrong on purpose: releases an item whose task is still open.
ReconciledOwnerFirst(item, ts, n) ==
  IF item.status = "Done" THEN item
  ELSE IF n # 0 /\ (item.owner = NoAgent \/ ~Stale(item.owner)) THEN FollowTask(item, ts[n])
  ELSE ReleaseStale(item)

\* n is the item's authoritative task.
Reconciled(item, ts, n) ==
  IF item.status = "Done" THEN item
  ELSE IF n # 0 THEN FollowTask(item, ts[n]) ELSE ReleaseStale(item)

\* Wrong on purpose: any submission will do.
WaitIsOverUnapproved(item, i, ws) ==
  /\ item.status = "Blocked"
  /\ item.evidence \/ item.approved
  /\ WatchesClear(ws, i)

\* complete_waiting_items: is a blocked item's wait over?
WaitIsOver(item, i, ws) ==
  /\ item.status = "Blocked"
  /\ item.evidence \/ item.approved
  /\ Gated(i) => item.approved
  /\ WatchesClear(ws, i)

\* Wrong on purpose: a submission is enough for the items that wait for it.
PromotableEarly(its, i) ==
  /\ its[i].status = "Pending"
  /\ \A d \in DependsOn[i] : its[d].status \in {"Blocked", "Done"}

\* promote_ready_items
Promotable(its, i) ==
  /\ its[i].status = "Pending"
  /\ \A d \in DependsOn[i] : its[d].status = "Done"

\* The items after reconciliation, completion and promotion, in that order;
\* auth[i] is the task that speaks for item i.
Planned(its, ws, ts, auth) ==
  LET reconciled == [i \in Items |-> Reconciled(its[i], ts, auth[i])]
      completed  == [i \in Items |->
                       IF WaitIsOver(reconciled[i], i, ws)
                       THEN [reconciled[i] EXCEPT !.status = "Done"]
                       ELSE reconciled[i]]
  IN  [i \in Items |-> IF Promotable(completed, i)
                       THEN [completed[i] EXCEPT !.status = "Ready"]
                       ELSE completed[i]]

\* The agents the item may go to once the first x of the hires are made.
Fit(i, hires, x) ==
  BestAgents(Kind[i], Role[i], Idle, Lane,
             [a \in Agents |-> Cardinality({y \in 1 .. x : hires[y].agent = a})])

\* Wrong on purpose: an item that was handed out but not started is not counted.
SlotsOfRunning(its) ==
  LET busy == Cardinality({i \in Items : its[i].status = "Running"})
  IN  IF busy < MaxParallel /\ Idle # {} THEN MaxParallel - busy ELSE 0

\* How many ready items a tick may look at.
Slots(its) ==
  LET busy == Cardinality(InProgress(its))
  IN  IF busy < MaxParallel /\ Idle # {} THEN MaxParallel - busy ELSE 0

\* The assignments, in order, that assign_ready_items may make: as many ready
\* items as there are slots are looked at, in whatever order Redis lists them;
\* an item nobody fits keeps its slot for this tick.
Hirings(its) ==
  LET ready == {i \in Items : its[i].status = "Ready"}
      n     == IF Cardinality(ready) < Slots(its) THEN Cardinality(ready) ELSE Slots(its)
  IN  {hires \in UNION {[1 .. m -> [item : ready, agent : Idle]] : m \in 0 .. n} :
         /\ \A x, y \in DOMAIN hires : hires[x].item = hires[y].item => x = y
         /\ \A x \in DOMAIN hires : hires[x].agent \in Fit(hires[x].item, hires, x - 1)
         /\ \E skipped \in SUBSET (ready \ {hires[x].item : x \in DOMAIN hires}) :
              /\ Cardinality(skipped) + Len(hires) = n
              /\ \A i \in skipped : \E x \in 0 .. Len(hires) : Fit(i, hires, x) = {}}

AssignedItems(its, hires) ==
  [i \in Items |->
     IF \E x \in DOMAIN hires : hires[x].item = i
     THEN AssignTo(its[i], hires[CHOOSE x \in DOMAIN hires : hires[x].item = i].agent)
     ELSE its[i]]

\* Wrong on purpose: the last hire fails before its task is saved.
WorkTasksButLast(hires) ==
  [x \in 1 .. Len(hires) - 1 |-> NewTask("Work", hires[x].item, hires[x].agent)]

WorkTasks(hires) ==
  [x \in 1 .. Len(hires) |-> NewTask("Work", hires[x].item, hires[x].agent)]

\* tick_mission on the records it loads. A completed mission leaves the active
\* set; the wake-up time and the wording of blocked_reason are not modelled.
TickFrom(its, ws, ts) ==
  IF mission.state # "Running" THEN Commit(its, ws, ts)
  ELSE \E auth \in Authorities(ts) :
         /\ LET planned == Planned(its, ws, ts, auth)
            IN  \E hires \in Hirings(planned) :
                  /\ items' = AssignedItems(planned, hires)
                  /\ tasks' = ts \o WorkTasks(hires)
         /\ Len(tasks') <= MaxTasks
         /\ watches' = ws
         /\ mission' =
              IF AllWatchesDone(ws) /\ \A i \in Items : items'[i].status = "Done"
              THEN [state |-> "Completed", active |-> FALSE]
              ELSE mission

\* A dispatcher works on the missions of the active set, or on the one mission
\* it was started for.
Claimed == mission.active \/ FilteredDispatch

DispatcherTick ==
  /\ Claimed
  /\ TickFrom(items, watches, tasks)
  /\ UNCHANGED <<agents, budget>>

\* The tick that the CLI runs when a task completion finished a work item.
CliTick(its, ws, ts) ==
  IF mission.active THEN TickFrom(its, ws, ts) ELSE Commit(its, ws, ts)

\* assign_ready_items saves the item before it creates the task: a process
\* that dies on its x-th hire leaves an assigned item nobody was told about.
TickDies ==
  /\ Claimed /\ mission.state = "Running"
  /\ Disturb("crash")
  /\ \E auth \in Authorities(tasks) :
       LET planned == Planned(items, watches, tasks, auth)
       IN  \E hires \in Hirings(planned) : \E x \in 1 .. Len(hires) :
             /\ items' = AssignedItems(planned, SubSeq(hires, 1, x))
             /\ tasks' = tasks \o WorkTasks(SubSeq(hires, 1, x - 1))
  /\ Len(tasks') <= MaxTasks
  /\ UNCHANGED <<mission, watches, agents>>

----------------------------------------------------------------------------
(* Task completion: `tt task complete` and the mission sync behind it *)

\* TaskService::complete does not ask whether the task is still open, so its
\* last agent may complete it once more, or after it was taken away.
Complete(n) ==
  /\ n \in DOMAIN tasks
  /\ IF tasks[n].state \in {"Assigned", "Running"}
     THEN UNCHANGED budget ELSE Disturb("late")

\* Wrong on purpose: a task is given the state of a work item.
DoneTasks(n) == [tasks EXCEPT ![n].state = "Done"]

CompletedTasks(n) == [tasks EXCEPT ![n].state = "Completed"]

\* Wrong on purpose: a review that is over counts as requested.
WithFirstReviewTask(i, ts) ==
  LET reviewers == Idle \cap Reviewers
  IN  IF (\E n \in DOMAIN ts : ts[n].item = i /\ ts[n].kind = "Review") \/ reviewers = {}
      THEN {ts}
      ELSE {Append(ts, NewTask("Review", i, r)) : r \in reviewers}

\* ensure_review_task: the task lists it may leave.
WithReviewTask(i, ts) ==
  LET reviewers == Idle \cap Reviewers
  IN  IF OpenTasksOfKind(ts, i, "Review") # {} \/ reviewers = {} THEN {ts}
      ELSE {Append(ts, NewTask("Review", i, r)) : r \in reviewers}

\* ensure_fix_task: the task lists it may leave. The item's own agent gets the
\* fix in whatever state it is.
WithFixTask(i, ts) ==
  LET owner  == items[i].owner
      fixers == IF owner # NoAgent THEN {owner} \ {a \in Agents : agents[a] = "absent"}
                ELSE Fit(i, << >>, 0)
  IN  IF OpenTasksOfKind(ts, i, "Fix") # {} \/ fixers = {} THEN {ts}
      ELSE {Append(ts, NewTask("Fix", i, a)) : a \in fixers}

\* ensure_pr_watches
Rewatched(i) ==
  [watches EXCEPT ![i] = [k \in WatchKinds |-> [status |-> "Active", failures |-> 0]]]

\* The items once i waits for its review or its watches.
Submitted(i) ==
  [items EXCEPT ![i].status = "Blocked", ![i].evidence = TRUE, ![i].approved = FALSE]

\* record_submission, for a result that names a PR (pr) or none.
SubmitWork(n, pr) ==
  /\ Complete(n)
  /\ tasks[n].kind \in {"Work", "Fix"}
  /\ LET i    == tasks[n].item
         done == [items EXCEPT ![i].status = "Done", ![i].evidence = TRUE]
     IN  IF pr \/ Gated(i)
         THEN \E ts \in IF Gated(i) THEN WithReviewTask(i, CompletedTasks(n))
                         ELSE {CompletedTasks(n)} :
                Commit(Submitted(i), IF pr THEN Rewatched(i) ELSE watches, ts)
         ELSE CliTick(done, watches, CompletedTasks(n))
  /\ UNCHANGED agents

\* approve_submission and finalize_work_item_if_ready
Approved(i) ==
  [items EXCEPT ![i] = [@ EXCEPT !.evidence = TRUE, !.approved = TRUE,
                          !.status = IF WatchesClear(watches, i) THEN "Done"
                                     ELSE "Blocked"]]

ApproveReview(n) ==
  /\ Complete(n)
  /\ tasks[n].kind = "Review"
  /\ LET i == tasks[n].item
     IN  IF WatchesClear(watches, i)
         THEN CliTick(Approved(i), watches, CompletedTasks(n))
         ELSE Commit(Approved(i), watches, CompletedTasks(n))
  /\ UNCHANGED agents

\* request_changes
ChangesRequested(i) ==
  [items EXCEPT ![i].status = "Blocked", ![i].approved = FALSE]

RejectReview(n) ==
  /\ n \in DOMAIN tasks
  /\ tasks[n].kind = "Review"
  /\ tasks[n].state \in {"Assigned", "Running"} \/ "late" \in Disturbances
  /\ Disturb("reject")
  /\ \E ts \in WithFixTask(tasks[n].item, CompletedTasks(n)) :
       Commit(ChangesRequested(tasks[n].item), watches, ts)
  /\ UNCHANGED agents

----------------------------------------------------------------------------
(* The MCP tools, which go to the services and the scheduler directly *)

\* task.complete completes the task and leaves the mission alone.
McpComplete(n) ==
  /\ n \in DOMAIN tasks
  /\ Disturb("mcp_complete")
  /\ Commit(items, watches, CompletedTasks(n))
  /\ UNCHANGED agents

\* mission.approve and mission.reject on a work item named by the caller, in
\* whatever state it is; both tick the active missions afterwards.
McpApprove(i) ==
  /\ Disturb("mcp_approve")
  /\ CliTick(Approved(i), watches, tasks)
  /\ UNCHANGED agents

McpReject(i) ==
  /\ Disturb("mcp_reject")
  /\ \E ts \in WithFixTask(i, tasks) : CliTick(ChangesRequested(i), watches, ts)
  /\ UNCHANGED agents

----------------------------------------------------------------------------
(* The watch engine: process_watch on one due watch *)

\* Wrong on purpose: a snoozed watch is never looked at again.
DueActive(i, k) == Claimed /\ watches[i][k].status = "Active"

Due(i, k) == Claimed /\ watches[i][k].status \in {"Active", "Snoozed"}

SetWatch(i, k, status, failures) ==
  [watches EXCEPT ![i][k] = [status |-> status, failures |-> failures]]

\* The watched condition is met: CI passed, no comments on a green PR, or the
\* PR can be merged.
PollClear(i, k) ==
  /\ Due(i, k)
  /\ Commit(items, SetWatch(i, k, "Done", watches[i][k].failures), tasks)
  /\ UNCHANGED <<agents, budget>>

\* Nothing to report yet.
PollPending(i, k) ==
  /\ Due(i, k)
  /\ Commit(items, SetWatch(i, k, "Active", 0), tasks)
  /\ UNCHANGED <<agents, budget>>

\* CI failed or there are comments: one more fix task for the item's agent,
\* whatever tasks it already has, and the watch is snoozed.
PollFailing(i, k) ==
  /\ Due(i, k) /\ k # "Mergeability"
  /\ Disturb("fail")
  /\ Commit(items, SetWatch(i, k, "Snoozed", watches[i][k].failures),
            IF items[i].owner = NoAgent THEN tasks
            ELSE Append(tasks, NewTask("Fix", i, items[i].owner)))
  /\ UNCHANGED agents

\* The check itself failed; after MaxFailures in a row the item is blocked.
PollError(i, k) ==
  /\ Due(i, k)
  /\ Disturb("error")
  /\ LET failures == IF watches[i][k].failures < MaxFailures
                     THEN watches[i][k].failures + 1 ELSE MaxFailures
     IN  Commit(IF failures = MaxFailures
                THEN [items EXCEPT ![i].status = "Blocked"] ELSE items,
                SetWatch(i, k, "Active", failures), tasks)
  /\ UNCHANGED agents

----------------------------------------------------------------------------
(* Operators: control notes and the mission commands *)

\* A note that starts with "resume": only a blocked mission resumes, and every
\* watch that still blocks it is closed.
NoteResume ==
  /\ Claimed /\ mission.state = "Blocked"
  /\ mission' = [mission EXCEPT !.state = "Running"]
  /\ watches' = [i \in Items |-> [k \in WatchKinds |->
                   IF watches[i][k].status \in {"Active", "Snoozed"}
                   THEN [watches[i][k] EXCEPT !.status = "Done"]
                   ELSE watches[i][k]]]
  /\ UNCHANGED <<items, tasks, agents, budget>>

\* A note that starts with "pause".
NotePause ==
  /\ Claimed /\ mission.state = "Running"
  /\ Disturb("pause")
  /\ mission' = [mission EXCEPT !.state = "Blocked"]
  /\ UNCHANGED <<items, watches, tasks, agents>>

\* "redirect <item> to <agent>": redirect_work_item, whatever the state of the
\* item and of the mission; a blocked mission resumes.
NoteRedirect(i, a) ==
  /\ Claimed /\ agents[a] # "absent"
  /\ Disturb("redirect")
  /\ LET superseded == {n \in OpenTasks(tasks, i) : tasks[n].owner # a}
         cancelled  == [n \in 1 .. Len(tasks) |->
                          IF n \in superseded
                          THEN [tasks[n] EXCEPT !.state = "Cancelled"] ELSE tasks[n]]
         kind       == IF items[i].evidence THEN "Fix" ELSE "Work"
     IN  tasks' = IF OpenTasks(cancelled, i) # {} THEN cancelled
                  ELSE Append(cancelled, NewTask(kind, i, a))
  /\ Len(tasks') <= MaxTasks
  /\ items' = [items EXCEPT ![i] = AssignTo(@, a)]
  /\ mission' = IF mission.state = "Blocked"
                THEN [mission EXCEPT !.state = "Running"] ELSE mission
  /\ UNCHANGED <<watches, agents>>

\* `tt mission stop [--force]` asks nothing of the mission's state.
StopMission(force) ==
  /\ Disturb("stop")
  /\ mission' = [state |-> IF force THEN "Failed" ELSE "Blocked", active |-> FALSE]
  /\ UNCHANGED <<items, watches, tasks, agents>>

\* `tt mission resume`
ResumeMission ==
  /\ mission.state = "Blocked"
  /\ mission' = [state |-> "Running", active |-> TRUE]
  /\ UNCHANGED <<items, watches, tasks, agents, budget>>

----------------------------------------------------------------------------
(* Agents, and the recovery of tasks whose agent is gone *)

SetTask(n, task) == tasks' = [tasks EXCEPT ![n] = task]

\* The agent loop starts the task it was handed.
StartTask(n) ==
  /\ n \in DOMAIN tasks /\ tasks[n].state = "Assigned"
  /\ tasks[n].owner # NoAgent /\ ~Stale(tasks[n].owner)
  /\ SetTask(n, [tasks[n] EXCEPT !.state = "Running"])
  /\ UNCHANGED <<mission, items, watches, agents, budget>>

\* A round of the agent's CLI fails: the running task goes back to its agent.
FailRound(n) ==
  /\ n \in DOMAIN tasks /\ tasks[n].state = "Running"
  /\ Disturb("round")
  /\ SetTask(n, [tasks[n] EXCEPT !.state = "Assigned"])
  /\ UNCHANGED <<mission, items, watches, agents>>

\* reclaim_orphan_tasks to the backlog, on one of the orphans it lists.
RequeueOrphan(n) ==
  /\ n \in DOMAIN tasks /\ tasks[n].state \in {"Assigned", "Running"}
  /\ tasks[n].owner # NoAgent /\ Stale(tasks[n].owner)
  /\ Disturb("reclaim")
  /\ SetTask(n, [tasks[n] EXCEPT !.state = "Pending", !.owner = NoAgent,
                                 !.queued = TRUE])
  /\ UNCHANGED <<mission, items, watches, agents>>

\* reclaim_orphan_tasks with cancellation.
CancelOrphan(n) ==
  /\ n \in DOMAIN tasks /\ tasks[n].state \in {"Assigned", "Running"}
  /\ tasks[n].owner # NoAgent /\ Stale(tasks[n].owner)
  /\ Disturb("cancel")
  /\ SetTask(n, [tasks[n] EXCEPT !.state = "Cancelled"])
  /\ UNCHANGED <<mission, items, watches, agents>>

\* BacklogService::claim, which asks neither for the state of the task nor for
\* that of the agent.
ClaimTask(n, a) ==
  /\ n \in DOMAIN tasks /\ tasks[n].queued
  /\ agents[a] # "absent"
  /\ SetTask(n, [tasks[n] EXCEPT !.state = "Assigned", !.owner = a,
                                 !.queued = FALSE])
  /\ UNCHANGED <<mission, items, watches, agents, budget>>

AgentChange(a, from, to) ==
  /\ agents[a] \in from
  /\ agents' = [agents EXCEPT ![a] = to]
  /\ UNCHANGED <<mission, items, watches, tasks>>

\* The agent works on something, is paused, or drains.
AgentBusy(a) == Disturb("busy") /\ AgentChange(a, {"idle"}, "busy")

AgentIdle(a) == UNCHANGED budget /\ AgentChange(a, {"busy"}, "idle")

\* kill, close, or recovery of an agent that fell silent.
AgentStops(a) == Disturb("death") /\ AgentChange(a, {"idle", "busy"}, "terminal")

AgentRestarts(a) == UNCHANGED budget /\ AgentChange(a, {"terminal"}, "idle")

\* prune, which with --all takes live agents too.
AgentPruned(a) ==
  Disturb("prune") /\ AgentChange(a, {"idle", "busy", "terminal"}, "absent")

----------------------------------------------------------------------------
(* Specification *)

\* `tt mission start` has saved the running mission and its items.
Init ==
  /\ mission = [state |-> "Running", active |-> TRUE]
  /\ items = [i \in Items |-> [status |-> "Pending", owner |-> NoAgent,
                               approved |-> FALSE, evidence |-> FALSE]]
  /\ watches = [i \in Items |-> [k \in WatchKinds |->
                                   [status |-> "None", failures |-> 0]]]
  /\ tasks = << >>
  /\ agents = [a \in Agents |-> "idle"]
  /\ budget = MaxDisturbances

TaskStep(n) ==
  \/ \E pr \in BOOLEAN : SubmitWork(n, pr)
  \/ ApproveReview(n)
  \/ RejectReview(n)
  \/ McpComplete(n)
  \/ StartTask(n)
  \/ FailRound(n)
  \/ RequeueOrphan(n)
  \/ CancelOrphan(n)
  \/ \E a \in Agents : ClaimTask(n, a)

WatchStep(i, k) ==
  \/ PollClear(i, k)
  \/ PollPending(i, k)
  \/ PollFailing(i, k)
  \/ PollError(i, k)

OperatorStep ==
  \/ \E i \in Items : McpApprove(i) \/ McpReject(i)
  \/ NoteResume
  \/ NotePause
  \/ \E i \in Items, a \in Agents : NoteRedirect(i, a)
  \/ \E force \in BOOLEAN : StopMission(force)
  \/ ResumeMission

AgentStep(a) ==
  \/ AgentBusy(a)
  \/ AgentIdle(a)
  \/ AgentStops(a)
  \/ AgentRestarts(a)
  \/ AgentPruned(a)

Next ==
  \/ DispatcherTick
  \/ TickDies
  \/ \E n \in 1 .. Len(tasks) : TaskStep(n)
  \/ \E i \in Items, k \in WatchKinds : WatchStep(i, k)
  \/ OperatorStep
  \/ \E a \in Agents : AgentStep(a)

Spec == Init /\ [][Next]_vars

----------------------------------------------------------------------------
(* Fairness: the dispatcher keeps ticking, an agent that is alive finishes   *)
(* the tasks it holds, a busy agent is idle again, and GitHub in the end     *)
(* reports every open pull request as clear. Disturbances are never fair.    *)

Finishes(n) ==
  /\ n \in DOMAIN tasks /\ tasks[n].state \in {"Assigned", "Running"}
  /\ tasks[n].owner # NoAgent /\ ~Stale(tasks[n].owner)
  /\ (\E pr \in BOOLEAN : SubmitWork(n, pr)) \/ ApproveReview(n)

Fairness ==
  /\ WF_vars(DispatcherTick)
  /\ \A n \in 1 .. MaxTasks : WF_vars(Finishes(n))
  /\ \A i \in Items, k \in WatchKinds : WF_vars(PollClear(i, k))
  /\ \A a \in Agents : WF_vars(AgentIdle(a))

FairSpec == Spec /\ Fairness

----------------------------------------------------------------------------
(* Properties *)

\* An item behind the reviewer gate is done only with the approval recorded
\* and with every watch on its pull request closed, whichever of the tick, the
\* review completion, the resume note and the MCP tools finished it.
GateHolds ==
  \A i \in Items : Gated(i) /\ items[i].status = "Done" =>
                     items[i].approved /\ WatchesClear(watches, i)

\* An item the scheduler may still hand out is worked on by nobody, and no
\* item is handed out to two agents as work at the same time: reconciliation
\* releases an item only when its last task is gone.
HandedOutOnce ==
  \A i \in Items :
    /\ items[i].status \in {"Pending", "Ready"} => OpenTasks(tasks, i) = {}
    /\ \A m, n \in OpenTasksOfKind(tasks, i, "Work") : m = n

\* Somebody holds a task for every item in progress; otherwise nothing moves
\* the item again, since its owner is alive and reconciliation keeps it.
InProgressHasTask ==
  \A i \in InProgress(items) : OpenTasks(tasks, i) # {}

\* A blocked item has something to wait for: without a submission or an
\* approval complete_waiting_items passes it by forever.
BlockedWasSubmitted ==
  \A i \in Items : items[i].status = "Blocked" => items[i].evidence

\* Every item that was started has something that moves it: an open task, or a
\* submission that waits for its gate.
StartedItemMoves == InProgressHasTask /\ BlockedWasSubmitted

\* An item leaves Pending only in a step after which all it depends on is done.
DependenciesFirst ==
  [][\A i \in Items : items[i].status = "Pending" /\ items'[i].status # "Pending" =>
       \A d \in DependsOn[i] : items'[d].status = "Done"]_vars

\* A step that hands out new work leaves at most MaxParallel items in progress,
\* reconciled items included.
HandOutWithinLimit ==
  [][Len(tasks') > Len(tasks) /\ tasks'[Len(tasks')].kind = "Work" =>
       Cardinality(InProgress(items')) <= MaxParallel]_vars

\* ensure_review_task finds a reviewer when it looks for one: one is idle whenever a
\* task is open whose completion submits work for review.
ReviewerAtHand ==
  \A n \in DOMAIN tasks :
    /\ Gated(tasks[n].item)
    /\ tasks[n].kind \in {"Work", "Fix"} /\ tasks[n].state \in NonTerminal
    => Idle \cap Reviewers # {}

\* A review that was asked for is not lost: an item that waits for approval gets a
\* review task, is approved, or goes back to work. If no reviewer is idle at the
\* moment of the submission, the review is never asked for again.
ReviewIsRequested ==
  []ReviewerAtHand =>
    \A i \in Items :
      (Gated(i) /\ items[i].status = "Blocked" /\ ~items[i].approved) ~>
        (\/ OpenTasksOfKind(tasks, i, "Review") # {}
         \/ items[i].approved
         \/ items[i].status # "Blocked")

\* The mission completes, whatever CI failures, check errors, rejected reviews, failed
\* rounds and busy agents come on the way, as long as a reviewer can be asked.
MissionCompletes == []ReviewerAtHand => <>(mission.state = "Completed")

\* docs/src/concepts/missions.md: Completed, "All objectives done".
CompletedMeansDone ==
  mission.state = "Completed" => \A i \in Items : items[i].status = "Done"
=============================================================================
