------------------------------ MODULE TaskBoard ------------------------------
(***************************************************************************)
(* The tasks of a town, the backlog they may wait in and the agents they   *)
(* are given to: `tt assign`, `tt backlog` (src/app/services/backlog.rs,   *)
(* tasks.rs), `tt reclaim` (src/app/services/recovery.rs) and what the     *)
(* agents do with the tasks they receive.                                  *)
(*                                                                         *)
(* A command is a series of Redis commands that nothing holds together:    *)
(* take a task out of a list, read its record, write the record, put the   *)
(* task into a list. Each is a step here, and any number of commands may   *)
(* be under way, or die, in between.                                       *)
(***************************************************************************)
EXTENDS Integers, FiniteSets

CONSTANTS
  Tasks,
  Agents,
  Clients,         \* processes that run a command from outside
  NoAgent,         \* stands for an absent assigned_to, and for a name nobody has
  NoTask,
  Disturbances,    \* which accidents and clean-ups an instance admits
  MaxDisturbances  \* bound: how many of them happen

ASSUME TaskBoardConstants ==
  /\ Agents \cap Clients = {}
  /\ NoAgent \notin Agents
  /\ NoTask \notin Tasks
  /\ MaxDisturbances \in Nat

VARIABLES
  tasks,     \* the task records
  backlog,   \* how often each task is in the backlog
  inbox,     \* how often each agent has each task in its inboxes
  hand,      \* the tasks an agent's round is about
  status,    \* whether an agent is live, in a terminal state, or pruned
  job,       \* the command each process is in
  lost,      \* tasks whose message went with a process, an agent or a wrong name
  orphaned,  \* tasks that a reclaim of orphans has taken up
  reopened,  \* tasks a failed round gave back wrongly: see RoundFails and Set
  elsewhere, \* tasks that were completed while no agent was at work on them
  budget     \* disturbances still to come

history == <<lost, orphaned, reopened, elsewhere>>
vars == <<tasks, backlog, inbox, hand, status, job, history, budget>>

Procs == Clients \cup Agents

----------------------------------------------------------------------------
(* Records *)

\* TaskState, with New for an id not yet drawn and Deleted for one that was.
TaskState ==
  {"New", "Pending", "Assigned", "Running", "Completed", "Cancelled", "Deleted"}

TaskRecord == [state : TaskState, owner : Agents \cup {NoAgent}]

Open == {"Pending", "Assigned", "Running"}

Finished == {"Completed", "Cancelled"}

Nothing == [state |-> "Deleted", owner |-> NoAgent]

Pending == [state |-> "Pending", owner |-> NoAgent]

AssignedTo(a) == [state |-> "Assigned", owner |-> a]

InState(record, state) == [record EXCEPT !.state = state]

OrphanActions == {"requeue", "cancel", "delete"}

Kinds ==
  {"none", "add", "assign", "claim", "assign_all", "remove", "reclaim", "reclaim_to",
   "list", "start", "complete", "giveback"} \cup OrphanActions

\* A command: for which agent, the dead agents and the tasks it still has to go
\* through, the task it is at, its next step there, and the record it will write.
Job ==
  [kind : Kinds, target : Agents \cup {NoAgent}, dead : SUBSET Agents,
   todo : SUBSET Tasks, task : Tasks \cup {NoTask},
   at : {"next", "find", "get", "set", "put"}, draft : TaskRecord]

NewJob(kind, target, dead, task, at) ==
  [kind |-> kind, target |-> target, dead |-> dead, todo |-> {}, task |-> task,
   at |-> at, draft |-> Nothing]

NoJob == NewJob("none", NoAgent, {}, NoTask, "next")

TypeOK ==
  /\ tasks \in [Tasks -> TaskRecord]
  /\ backlog \in [Tasks -> Nat]
  /\ inbox \in [Agents -> [Tasks -> Nat]]
  /\ hand \in [Agents -> SUBSET Tasks]
  /\ status \in [Agents -> {"live", "terminal", "missing"}]
  /\ job \in [Procs -> Job]
  /\ lost \subseteq Tasks /\ orphaned \subseteq Tasks
  /\ reopened \subseteq Tasks /\ elsewhere \subseteq Tasks
  /\ budget \in 0 .. MaxDisturbances

Disturb(what) ==
  /\ what \in Disturbances
  /\ budget > 0
  /\ budget' = budget - 1

----------------------------------------------------------------------------
(* Steps that commands have in common *)

\* Wrong on purpose: a claim sends its message before it writes the record.
MessageFirst(kind, at) ==
  CASE at = "get" -> IF kind \in {"claim", "assign_all"} THEN "put" ELSE "set"
    [] at = "put" /\ kind \in {"claim", "assign_all"} -> "set"
    [] at = "set" /\ kind \in {"add", "assign", "requeue"} -> "put"
    [] OTHER -> "next"

\* The order of a command's steps on a task: the record comes before the message.
Following(kind, at) ==
  CASE at = "get" -> "set"
    [] at = "set" /\ kind \in {"add", "assign", "claim", "assign_all", "requeue", "complete"} -> "put"
    [] OTHER -> "next"

\* The command goes on with its task, or is done with it.
GoOn(p, next, record) ==
  job' = [job EXCEPT ![p].at = next,
                     ![p].task = IF next = "next" THEN NoTask ELSE @,
                     ![p].draft = IF next = "next" THEN Nothing ELSE record]

\* Whether a command that has read this record goes on to write it.
Applies(kind, record) ==
  /\ record.state \notin {"New", "Deleted"}
  /\ kind = "start" => record.state \in {"Pending", "Assigned"}
  /\ kind = "giveback" => record.state = "Running"

Changed(kind, target, record) ==
  CASE kind \in {"claim", "assign_all", "giveback"} -> AssignedTo(target)
    [] kind = "start" -> InState(record, "Running")
    [] kind = "complete" -> InState(record, "Completed")
    [] kind = "cancel" -> InState(record, "Cancelled")
    [] kind = "requeue" -> Pending

\* get_task; without a record a claim by the service still sends its message, one
\* from the command line does not.
Get(p) ==
  /\ job[p].at = "get"
  /\ LET kind == job[p].kind
         record == tasks[job[p].task]
     IN  \/ /\ Applies(kind, record)
            /\ GoOn(p, Following(kind, "get"), Changed(kind, job[p].target, record))
         \/ ~Applies(kind, record) /\ GoOn(p, "next", Nothing)
         \/ ~Applies(kind, record) /\ kind = "claim" /\ GoOn(p, "put", Nothing)
  /\ UNCHANGED <<tasks, backlog, inbox, hand, status, history, budget>>

\* An agent's round is about the task, and no start of it is about to be written.
AtWork(t) ==
  \E a \in Agents :
    t \in hand[a] /\ ~(job[a].kind = "start" /\ job[a].at = "set" /\ job[a].task = t)

\* set_task, whatever has become of the record since it was read. A failed round
\* may so take back a task that has another agent by now, or is finished.
Set(p) ==
  /\ job[p].at = "set"
  /\ LET t == job[p].task
     IN  /\ tasks' = [tasks EXCEPT ![t] = job[p].draft]
         /\ reopened' = reopened \cup
              (IF job[p].kind = "giveback" /\ tasks[t].state # "Running" THEN {t} ELSE {})
         /\ elsewhere' = elsewhere \cup
              (IF job[p].kind = "complete" /\ tasks[t].state \notin Finished /\ ~AtWork(t)
               THEN {t} ELSE {})
  /\ GoOn(p, Following(job[p].kind, "set"), job[p].draft)
  /\ UNCHANGED <<backlog, inbox, hand, status, lost, orphaned, budget>>

\* backlog_push, send or delete_task; what is sent to an agent that was pruned in
\* the meantime nobody reads. A completion goes on to the record of the task's agent,
\* which is part of ScalingSignal.
Put(p) ==
  /\ job[p].at = "put"
  /\ LET t == job[p].task
         kind == job[p].kind
         target == job[p].target
     IN  \/ /\ kind \in {"add", "requeue", "reclaim"}
            /\ backlog' = [backlog EXCEPT ![t] = @ + 1]
            /\ lost' = lost \ {t}
            /\ UNCHANGED <<tasks, inbox>>
         \/ /\ kind \in {"assign", "claim", "assign_all", "reclaim_to"}
            /\ inbox' = [inbox EXCEPT ![target][t] = @ + 1]
            /\ lost' = IF status[target] = "missing" THEN lost \cup {t} ELSE lost \ {t}
            /\ UNCHANGED <<tasks, backlog>>
         \/ /\ kind \in {"remove", "delete"}
            /\ tasks' = [tasks EXCEPT ![t] = Nothing]
            /\ UNCHANGED <<backlog, inbox, lost>>
         \/ /\ kind = "complete"
            /\ UNCHANGED <<tasks, backlog, inbox, lost>>
  /\ GoOn(p, Following(job[p].kind, "put"), job[p].draft)
  /\ UNCHANGED <<hand, status, orphaned, reopened, elsewhere, budget>>

\* assign-all goes on until the backlog is empty.
End(p) ==
  /\ job[p].kind # "none" /\ job[p].at = "next"
  /\ job[p].todo = {} /\ job[p].dead = {}
  /\ job[p].kind = "assign_all" => \A t \in Tasks : backlog[t] = 0
  /\ job' = [job EXCEPT ![p] = NoJob]
  /\ UNCHANGED <<tasks, backlog, inbox, hand, status, history, budget>>

Begin(p, new) ==
  /\ job[p] = NoJob
  /\ job' = [job EXCEPT ![p] = new]

----------------------------------------------------------------------------
(* Assignment and the backlog *)

\* A task is made with a new id.
Fresh(t) == tasks[t].state = "New" /\ \A p \in Procs : job[p].task # t

Add(c, t) ==
  /\ Fresh(t)
  /\ Begin(c, [NewJob("add", NoAgent, {}, t, "set") EXCEPT !.draft = Pending])
  /\ UNCHANGED <<tasks, backlog, inbox, hand, status, history, budget>>

Assign(c, t, a) ==
  /\ Fresh(t)
  /\ status[a] # "missing"
  /\ Begin(c, [NewJob("assign", a, {}, t, "set") EXCEPT !.draft = AssignedTo(a)])
  /\ UNCHANGED <<tasks, backlog, inbox, hand, status, history, budget>>

\* Wrong on purpose: nobody looks whether the task was removed.
InBacklogUnchecked(t) == tasks[t].state # "New"

\* backlog_remove has found the task.
InBacklog(t) == backlog[t] > 0

Taken(t) == [backlog EXCEPT ![t] = @ - 1]

\* The task leaves the backlog before anybody asks who the agent is.
Claim(c, t, a) ==
  /\ InBacklog(t)
  /\ IF a = NoAgent THEN Disturb("mistype") ELSE UNCHANGED budget
  /\ backlog' = Taken(t)
  /\ Begin(c, NewJob("claim", a, {}, t, "find"))
  /\ UNCHANGED <<tasks, inbox, hand, status, history>>

\* Town::agent; the claim for an agent that is not there ends here.
Find(p) ==
  /\ job[p].at = "find"
  /\ IF job[p].target # NoAgent /\ status[job[p].target] # "missing"
     THEN GoOn(p, "get", Nothing) /\ UNCHANGED lost
     ELSE GoOn(p, "next", Nothing) /\ lost' = lost \cup {job[p].task}
  /\ UNCHANGED <<tasks, backlog, inbox, hand, status, orphaned, reopened, elsewhere,
                 budget>>

AssignAll(c, a) ==
  /\ status[a] # "missing"
  /\ \E t \in Tasks : InBacklog(t)
  /\ Begin(c, NewJob("assign_all", a, {}, NoTask, "next"))
  /\ UNCHANGED <<tasks, backlog, inbox, hand, status, history, budget>>

Pop(p) ==
  /\ job[p].kind = "assign_all" /\ job[p].at = "next"
  /\ \E t \in Tasks : /\ InBacklog(t)
                      /\ backlog' = Taken(t)
                      /\ job' = [job EXCEPT ![p].task = t, ![p].at = "get"]
  /\ UNCHANGED <<tasks, inbox, hand, status, history, budget>>

Remove(c, t) ==
  /\ InBacklog(t)
  /\ Disturb("remove")
  /\ backlog' = Taken(t)
  /\ Begin(c, NewJob("remove", NoAgent, {}, t, "put"))
  /\ UNCHANGED <<tasks, inbox, hand, status, history>>

----------------------------------------------------------------------------
(* Reclaiming *)

\* Either kind of reclaim begins with a list of the agents that are not at work.
\* One of orphans (to the backlog, to be cancelled or deleted) counts those it
\* no longer finds among them, one of inboxes (to the backlog, to an agent, or
\* for a look) has only those in a terminal state.
Reclaim(c, kind, a) ==
  /\ kind = "reclaim_to" <=> a # NoAgent
  /\ a # NoAgent => status[a] # "missing"
  /\ Disturb(kind)
  /\ LET dead == {b \in Agents : \/ status[b] = "terminal"
                                 \/ status[b] = "missing" /\ kind \in OrphanActions}
     IN  dead # {} /\ Begin(c, NewJob(kind, a, dead, NoTask, "next"))
  /\ UNCHANGED <<tasks, backlog, inbox, hand, status, history>>

\* drain_inbox and receive_urgent of one of them, whatever it is by now; without a
\* destination nothing is done with the messages.
Drain(p) ==
  /\ job[p].kind \in {"reclaim", "reclaim_to", "list"}
  /\ job[p].at = "next" /\ job[p].todo = {}
  /\ \E a \in job[p].dead :
       /\ job' = [job EXCEPT
                    ![p].dead = @ \ {a},
                    ![p].todo = IF job[p].kind = "list" THEN {}
                                ELSE {t \in Tasks : inbox[a][t] > 0}]
       /\ inbox' = [inbox EXCEPT ![a] = [t \in Tasks |-> 0]]
  /\ UNCHANGED <<tasks, backlog, hand, status, history, budget>>

\* list_tasks: the open tasks of the agents that were listed.
Scan(p) ==
  /\ job[p].kind \in OrphanActions /\ job[p].dead # {}
  /\ LET orphans == {t \in Tasks : tasks[t].state \in Open /\ tasks[t].owner \in job[p].dead}
     IN  /\ job' = [job EXCEPT ![p].dead = {}, ![p].todo = orphans]
         /\ orphaned' = orphaned \cup orphans
  /\ UNCHANGED <<tasks, backlog, inbox, hand, status, lost, reopened, elsewhere, budget>>

\* The next task of a reclaim.
Pick(p) ==
  /\ job[p].at = "next"
  /\ \E t \in job[p].todo :
       job' = [job EXCEPT
                 ![p].todo = @ \ {t}, ![p].task = t,
                 ![p].at = IF job[p].kind \in {"requeue", "cancel"} THEN "get" ELSE "put"]
  /\ UNCHANGED <<tasks, backlog, inbox, hand, status, history, budget>>

\* `tt task complete` or MCP's task.complete: anybody, an agent's CLI in its round
\* included, completes any task, whatever its state and wherever its message is.
Complete(p, t) ==
  /\ tasks[t].state # "New"
  /\ p \in Agents => hand[p] # {}
  /\ IF p \in Agents /\ t \in hand[p] THEN UNCHANGED budget ELSE Disturb("finish")
  /\ Begin(p, NewJob("complete", NoAgent, {}, t, "get"))
  /\ UNCHANGED <<tasks, backlog, inbox, hand, status, history>>

----------------------------------------------------------------------------
(* Agents; their loop itself is the subject of AgentLoop *)

\* A round begins; its task, if it is a single one, is started.
Receive(a) ==
  /\ status[a] = "live" /\ hand[a] = {} /\ job[a] = NoJob
  /\ LET taken == {t \in Tasks : inbox[a][t] > 0}
     IN  /\ taken # {}
         /\ hand' = [hand EXCEPT ![a] = taken]
         /\ inbox' = [inbox EXCEPT ![a] = [t \in Tasks |-> 0]]
         /\ IF Cardinality(taken) = 1
            THEN \E t \in taken : Begin(a, NewJob("start", a, {}, t, "get"))
            ELSE UNCHANGED job
  /\ UNCHANGED <<tasks, backlog, status, history, budget>>

\* The CLI ends well; it has completed what it was given, or forgot to.
RoundEnds(a) ==
  /\ hand[a] # {} /\ job[a] = NoJob
  /\ hand' = [hand EXCEPT ![a] = {}]
  /\ LET open == {t \in hand[a] : tasks[t].state \in Open}
     IN  /\ IF open = {} THEN UNCHANGED budget ELSE Disturb("forget")
         /\ lost' = lost \cup open
  /\ UNCHANGED <<tasks, backlog, inbox, status, job, orphaned, reopened, elsewhere>>

\* Wrong on purpose: the messages of a failed round are dropped.
Dropped(a) == inbox[a]

\* What a failed round leaves in the inbox.
Requeued(a) == [t \in Tasks |-> IF t \in hand[a] THEN inbox[a][t] + 1 ELSE inbox[a][t]]

\* The CLI ends with an error: its messages go back, of tasks it finished too; then
\* the record of its current task is read and, in Set, given back.
RoundFails(a) ==
  /\ hand[a] # {} /\ job[a] = NoJob
  /\ Disturb("fail")
  /\ inbox' = [inbox EXCEPT ![a] = Requeued(a)]
  /\ hand' = [hand EXCEPT ![a] = {}]
  /\ reopened' = reopened \cup {t \in hand[a] : tasks[t].state \in Finished}
  /\ IF Cardinality(hand[a]) = 1
     THEN \E t \in hand[a] : Begin(a, NewJob("giveback", a, {}, t, "get"))
     ELSE UNCHANGED job
  /\ UNCHANGED <<tasks, backlog, status, lost, orphaned, elsewhere>>

\* An agent stops, or is marked as stopped and goes on with its round.
Stop(a) ==
  /\ status[a] = "live"
  /\ Disturb("stop")
  /\ status' = [status EXCEPT ![a] = "terminal"]
  /\ UNCHANGED <<tasks, backlog, inbox, hand, job, history>>

Restart(a) ==
  /\ status[a] = "terminal" /\ hand[a] = {} /\ job[a] = NoJob
  /\ status' = [status EXCEPT ![a] = "live"]
  /\ UNCHANGED <<tasks, backlog, inbox, hand, job, history, budget>>

\* delete_agent, of an agent whose process has left
Prune(a) ==
  /\ status[a] = "terminal" /\ hand[a] = {} /\ job[a] = NoJob
  /\ Disturb("prune")
  /\ status' = [status EXCEPT ![a] = "missing"]
  /\ lost' = lost \cup {t \in Tasks : inbox[a][t] > 0}
  /\ inbox' = [inbox EXCEPT ![a] = [t \in Tasks |-> 0]]
  /\ UNCHANGED <<tasks, backlog, hand, job, orphaned, reopened, elsewhere>>

\* An agent's process dies with the messages it has in hand, and recover finds out.
AgentCrash(a) ==
  /\ hand[a] # {} \/ job[a] # NoJob
  /\ Disturb("crash")
  /\ status' = [status EXCEPT ![a] = "terminal"]
  /\ lost' = lost \cup hand[a]
  /\ hand' = [hand EXCEPT ![a] = {}]
  /\ job' = [job EXCEPT ![a] = NoJob]
  /\ UNCHANGED <<tasks, backlog, inbox, orphaned, reopened, elsewhere>>

\* The messages a command has in hand, out of every list and not yet in one.
Carried(p) ==
  CASE job[p].kind \in {"reclaim", "reclaim_to"} ->
         (job[p].todo \cup {job[p].task}) \ {NoTask}
    [] job[p].kind \in {"add", "assign", "claim", "assign_all", "remove", "requeue"} ->
         {job[p].task} \ {NoTask}
    [] OTHER -> {}

\* A command dies between two of its steps.
ClientCrash(c) ==
  /\ job[c] # NoJob
  /\ Disturb("client_crash")
  /\ lost' = lost \cup Carried(c)
  /\ job' = [job EXCEPT ![c] = NoJob]
  /\ UNCHANGED <<tasks, backlog, inbox, hand, status, orphaned, reopened, elsewhere>>

----------------------------------------------------------------------------
(* Specification *)

Init ==
  /\ tasks = [t \in Tasks |-> [state |-> "New", owner |-> NoAgent]]
  /\ backlog = [t \in Tasks |-> 0]
  /\ inbox = [a \in Agents |-> [t \in Tasks |-> 0]]
  /\ hand = [a \in Agents |-> {}]
  /\ status = [a \in Agents |-> "live"]
  /\ job = [p \in Procs |-> NoJob]
  /\ lost = {} /\ orphaned = {} /\ reopened = {} /\ elsewhere = {}
  /\ budget = MaxDisturbances

JobStep(p) ==
  \/ Get(p)
  \/ Set(p)
  \/ Put(p)
  \/ Find(p)
  \/ Pop(p)
  \/ Drain(p)
  \/ Scan(p)
  \/ Pick(p)
  \/ End(p)

CommandBegins(c) ==
  \/ \E t \in Tasks : \/ Add(c, t)
                      \/ \E a \in Agents : Assign(c, t, a)
                      \/ \E a \in Agents \cup {NoAgent} : Claim(c, t, a)
                      \/ Remove(c, t)
                      \/ Complete(c, t)
  \/ \E a \in Agents : AssignAll(c, a)
  \/ \E kind \in {"reclaim", "reclaim_to", "list"} \cup OrphanActions,
        a \in Agents \cup {NoAgent} : Reclaim(c, kind, a)

AgentStep(a) ==
  \/ Receive(a)
  \/ \E t \in Tasks : Complete(a, t)
  \/ RoundEnds(a)
  \/ RoundFails(a)
  \/ Stop(a)
  \/ Restart(a)
  \/ Prune(a)
  \/ AgentCrash(a)

Next ==
  \/ \E p \in Procs : JobStep(p)
  \/ \E c \in Clients : CommandBegins(c) \/ ClientCrash(c)
  \/ \E a \in Agents : AgentStep(a)

Spec == Init /\ [][Next]_vars

----------------------------------------------------------------------------
(* Properties *)

\* The places where a task is to be found by somebody who will work on it.
Copies(t) ==
  {<<"backlog", NoAgent, n>> : n \in 1 .. backlog[t]}
    \cup {<<"hand", a, 1>> : a \in {a \in Agents : t \in hand[a]}}
    \cup {<<"command", p, 1>> : p \in {p \in Procs : t \in Carried(p)}}
    \cup UNION {{<<"inbox", a, n>> : n \in 1 .. inbox[a][t]} :
                  a \in {a \in Agents : status[a] # "missing"}}

\* A task is never in two places, so no two agents work on it, however claims,
\* assignments, failed rounds, reclaims of inboxes and crashes interleave. Only a
\* reclaim of orphans, which goes by the record and not the message, may double it.
HandedOutOnce ==
  \A t \in Tasks \ orphaned : \A x, y \in Copies(t) : x = y

\* An open task is always somewhere: in the backlog, in an inbox, in an agent's
\* round or in a command under way. What may go wrong is that its message dies with
\* a process or an agent, is forgotten, or is meant for an agent that is not there,
\* and that a failed round gives back a task that is no longer its own.
NothingStranded ==
  \A t \in Tasks :
    tasks[t].state \in Open => Copies(t) # {} \/ t \in lost \cup reopened

\* A finished task stays finished, although everybody writes whole records that
\* were read earlier and anybody may complete a task its agent is at work on. Only
\* these may be opened again: orphans, tasks given back by a failed round that had
\* finished them, and tasks that somebody completed while they waited for an agent,
\* which a claim or an assignment makes Assigned again, and a start Running, as none
\* of them looks at the state.
FinishedStays ==
  [][\A t \in Tasks \ (orphaned \cup reopened' \cup elsewhere) :
       tasks[t].state \in Finished => tasks'[t].state \in Finished]_vars
=============================================================================
