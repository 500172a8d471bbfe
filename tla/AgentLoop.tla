------------------------------ MODULE AgentLoop ------------------------------
(***************************************************************************)
(* One agent of a town: the `tt agent-loop` processes that run its rounds  *)
(* (src/main.rs), the life-cycle commands that steer it from outside       *)
(* (src/app/services/agents.rs, recovery.rs, `tt restart`), and the        *)
(* messages it is sent.                                                    *)
(*                                                                         *)
(* They meet in Redis: the agent's record, its stop flag and its inbox.    *)
(* Every update of the record reads all of it, changes some fields and     *)
(* writes all of it back, so a step here is a read or a write, and anybody *)
(* else may come in between.                                               *)
(***************************************************************************)
EXTENDS Integers, FiniteSets

CONSTANTS
  Loops,           \* the loop processes there may be
  First,           \* the one `tt spawn` starts
  Tasks,           \* tasks that are assigned to the agent, one message each
  Notes,           \* messages that ask for nothing: information, confirmations
  Prompt,          \* the loop's own question about a task of the backlog
  NoTask,          \* stands for an absent current_task
  MaxRounds,       \* --max-rounds
  Disturbances,    \* which commands and accidents an instance admits
  MaxDisturbances  \* bound: how many of them happen

ASSUME AgentLoopConstants ==
  /\ First \in Loops
  /\ NoTask \notin Tasks
  /\ Tasks \cap Notes = {} /\ Prompt \notin Tasks \cup Notes
  /\ MaxRounds \in Nat
  /\ MaxDisturbances \in Nat

VARIABLES
  agent,   \* the agent's record
  stop,    \* its stop flag
  inbox,   \* the messages in its inbox and its urgent inbox
  tasks,   \* the states of the tasks
  pc,      \* where each loop process is
  then,    \* where it goes once it has written the record
  draft,   \* the record a process has read and changed, and will write
  hand,    \* the messages it has taken out of the inbox
  left,    \* the rounds it may still run
  command, \* the command that has read the record and will write it
  served,  \* messages a round was run for, or that were dismissed
  lost,    \* messages that went with a crashed process or a pruned agent
  budget   \* disturbances still to come

loopVars == <<pc, then, draft, hand, left>>
vars == <<agent, stop, inbox, tasks, loopVars, command, served, lost, budget>>

----------------------------------------------------------------------------
(* Records *)

AgentState ==
  {"Cold", "Starting", "Idle", "Working", "Paused", "Draining", "Stopped", "Error"}

Terminal == {"Stopped", "Error", "Cold"}

AgentRecord ==
  [state : AgentState \cup {"Gone"}, current : Tasks \cup {NoTask}]

\* There is no such record.
Gone == [state |-> "Gone", current |-> NoTask]

Messages == Tasks \cup Notes \cup {Prompt}

\* The places of the loop between two of its steps: the checks at the top of a
\* round, taking messages, marking the agent as working, starting the task,
\* waiting for the CLI, reading the record after the round, and leaving.
Places ==
  {"off", "top", "clear", "check", "take", "work", "start", "run", "end", "exit",
   "save"}

Command ==
  [name : {"none", "kill", "interrupt", "resume", "close", "restart", "mcp_restart",
           "recover", "prune"},
   draft : AgentRecord]

NoCommand == [name |-> "none", draft |-> Gone]

TypeOK ==
  /\ agent \in AgentRecord
  /\ stop \in BOOLEAN
  /\ inbox \subseteq Messages
  /\ tasks \in [Tasks -> {"Unsent", "Assigned", "Running", "Completed"}]
  /\ pc \in [Loops -> Places]
  /\ then \in [Loops -> Places]
  /\ draft \in [Loops -> AgentRecord]
  /\ hand \in [Loops -> SUBSET Messages]
  /\ left \in [Loops -> 0 .. MaxRounds]
  /\ command \in Command
  /\ served \subseteq Messages
  /\ lost \subseteq Messages
  /\ budget \in 0 .. MaxDisturbances

Disturb(what) ==
  /\ what \in Disturbances
  /\ budget > 0
  /\ budget' = budget - 1

Alive == {p \in Loops : pc[p] # "off"}

Open(t) == tasks[t] \in {"Assigned", "Running"}

\* Wrong on purpose: the pointer to a completed task stays.
KeepCurrent(record) == record

\* clear_terminal_current_task
ClearTerminal(record) ==
  IF record.current # NoTask /\ ~Open(record.current)
  THEN [record EXCEPT !.current = NoTask] ELSE record

\* A record that is not Paused becomes Idle.
ToIdle(record) ==
  IF record.state = "Paused" THEN record ELSE [record EXCEPT !.state = "Idle"]

----------------------------------------------------------------------------
(* The loop *)

Goto(p, place) ==
  /\ pc' = [pc EXCEPT ![p] = place]
  /\ UNCHANGED <<then, draft>>

\* get_agent_state: the process now holds a changed copy of the record, which it
\* writes before it goes on; without a record there is nothing to write.
Load(p, record, place) ==
  /\ pc' = [pc EXCEPT ![p] = IF agent = Gone THEN place ELSE "save"]
  /\ then' = [then EXCEPT ![p] = place]
  /\ draft' = [draft EXCEPT ![p] = IF agent = Gone THEN Gone ELSE record]

\* set_agent_state
Save(p) ==
  /\ pc[p] = "save"
  /\ agent' = draft[p]
  /\ pc' = [pc EXCEPT ![p] = then[p]]
  /\ draft' = [draft EXCEPT ![p] = Gone]
  /\ UNCHANGED <<stop, inbox, tasks, then, hand, left, command, served, lost, budget>>

\* Wrong on purpose: a paused agent does not look at its stop flag.
AfterTopUnlessPaused(p) ==
  IF left[p] = 0 THEN "exit"
  ELSE IF stop /\ agent.state # "Paused" THEN "clear" ELSE "check"

\* Wrong on purpose: the number of rounds is not limited.
AfterTopUnlimited(p) == IF stop THEN "clear" ELSE "check"

\* The checks at the top of the loop: are there rounds left, is a stop requested?
AfterTop(p) ==
  IF left[p] = 0 THEN "exit" ELSE IF stop THEN "clear" ELSE "check"

Top(p) ==
  /\ pc[p] = "top"
  /\ Goto(p, AfterTop(p))
  /\ UNCHANGED <<agent, stop, inbox, tasks, hand, left, command, served, lost, budget>>

ClearStop(p) ==
  /\ pc[p] = "clear"
  /\ stop' = FALSE
  /\ Goto(p, "exit")
  /\ UNCHANGED <<agent, inbox, tasks, hand, left, command, served, lost, budget>>

\* Wrong on purpose: a loop also waits while its agent counts as stopped.
HeldWhenStopped == agent.state \in {"Paused", "Stopped"}

Held == agent.state = "Paused"

\* A paused agent looks again after a while.
CheckPaused(p) ==
  /\ pc[p] = "check"
  /\ Goto(p, IF Held THEN "top" ELSE "take")
  /\ UNCHANGED <<agent, stop, inbox, tasks, hand, left, command, served, lost, budget>>

\* The inbox is empty: the agent is idle, for the time being or for so long that
\* it drains. It has been idle that long only if it was idle before.
TakeNothing(p, timeout) ==
  /\ pc[p] = "take" /\ inbox = {}
  /\ LET record == ToIdle(ClearTerminal(agent))
     IN  IF timeout
         THEN /\ agent.state \in {"Idle", "Paused"} /\ record.current = NoTask
              /\ Load(p, [record EXCEPT !.state = "Draining"], "exit")
         ELSE Load(p, record, "top")
  /\ UNCHANGED <<agent, stop, inbox, tasks, hand, left, command, served, lost, budget>>

\* Nothing in the inbox asks for anything, and no task in the backlog fits.
Dismiss(p) ==
  /\ pc[p] = "take" /\ inbox # {} /\ inbox \subseteq Notes
  /\ inbox' = {}
  /\ served' = served \cup inbox
  /\ Load(p, ToIdle(agent), "top")
  /\ UNCHANGED <<agent, stop, tasks, hand, left, command, lost, budget>>

\* The messages a round begins with: all of the inbox, or a part of it when
\* another process empties the inbox too, message by message. With notes alone
\* the round is about a task of the backlog that fits the agent.
Takes(p) ==
  LET parts == IF \E q \in Alive \ {p} : pc[q] = "take" THEN (SUBSET inbox) \ {{}}
               ELSE {inbox}
  IN  {IF part \subseteq Notes THEN part \cup {Prompt} ELSE part : part \in parts}

\* A round begins; a single task becomes the current one.
Take(p) ==
  /\ pc[p] = "take" /\ inbox # {}
  /\ \E taken \in Takes(p) :
       /\ hand' = [hand EXCEPT ![p] = taken]
       /\ inbox' = inbox \ taken
       /\ IF Cardinality(taken \cap Tasks) = 1
          THEN \E t \in taken \cap Tasks : Load(p, [agent EXCEPT !.current = t], "work")
          ELSE Goto(p, "work")
  /\ UNCHANGED <<agent, stop, tasks, left, command, served, lost, budget>>

MarkWorking(p) ==
  /\ pc[p] = "work"
  /\ Load(p, [agent EXCEPT !.state = "Working"], "start")
  /\ UNCHANGED <<agent, stop, inbox, tasks, hand, left, command, served, lost, budget>>

\* current_for_agent: the current task, or the only open one.
CurrentTask ==
  IF agent.current # NoTask THEN {agent.current}
  ELSE {t \in Tasks : Open(t) /\ \A u \in Tasks : Open(u) => u = t}

Start(p) ==
  /\ pc[p] = "start"
  /\ tasks' = [t \in Tasks |-> IF t \in CurrentTask /\ Open(t) THEN "Running" ELSE tasks[t]]
  /\ Goto(p, "run")
  /\ UNCHANGED <<agent, stop, inbox, hand, left, command, served, lost, budget>>

\* `tt task complete`, run by the CLI: the task is completed, then the agent's
\* record is read and, in Save, written without its pointer to the task.
CompleteTask(p, t) ==
  /\ pc[p] = "run" /\ t \in hand[p] \cup {agent.current} /\ Open(t)
  /\ tasks' = [tasks EXCEPT ![t] = "Completed"]
  /\ Load(p, [agent EXCEPT !.current = IF @ = t THEN NoTask ELSE @], "run")
  /\ UNCHANGED <<agent, stop, inbox, hand, left, command, served, lost, budget>>

RoundEnds(p) ==
  /\ pc[p] = "run"
  /\ served' = served \cup hand[p]
  /\ hand' = [hand EXCEPT ![p] = {}]
  /\ left' = [left EXCEPT ![p] = @ - 1]
  /\ Goto(p, "end")
  /\ UNCHANGED <<agent, stop, inbox, tasks, command, lost, budget>>

\* Wrong on purpose: the messages of a failed round are dropped.
NotRequeued(p) == inbox

\* The inbox after a failed round: what asks for something goes back.
Requeued(p) == inbox \cup (hand[p] \ Notes)

\* The CLI ends with an error (started) or cannot be started at all.
RoundFails(p, started) ==
  /\ pc[p] = "run"
  /\ Disturb("round")
  /\ inbox' = Requeued(p)
  /\ served' = served \cup (hand[p] \cap Notes)
  /\ hand' = [hand EXCEPT ![p] = {}]
  /\ tasks' = [t \in Tasks |-> IF t = agent.current /\ tasks[t] = "Running"
                               THEN "Assigned" ELSE tasks[t]]
  /\ left' = [left EXCEPT ![p] = IF started THEN @ - 1 ELSE @]
  /\ Load(p, [agent EXCEPT !.current = NoTask], IF started THEN "end" ELSE "exit")
  /\ UNCHANGED <<agent, stop, command, lost>>

AfterRound(p) ==
  /\ pc[p] = "end"
  /\ Load(p, ToIdle(ClearTerminal(agent)), "top")
  /\ UNCHANGED <<agent, stop, inbox, tasks, hand, left, command, served, lost, budget>>

Exit(p) ==
  /\ pc[p] = "exit"
  /\ Load(p, [agent EXCEPT !.state = "Stopped"], "off")
  /\ UNCHANGED <<agent, stop, inbox, tasks, hand, left, command, served, lost, budget>>

\* The process dies, and what it had taken out of the inbox with it.
Crash(p) ==
  /\ p \in Alive
  /\ Disturb("crash")
  /\ lost' = lost \cup hand[p]
  /\ hand' = [hand EXCEPT ![p] = {}]
  /\ pc' = [pc EXCEPT ![p] = "off"]
  /\ draft' = [draft EXCEPT ![p] = Gone]
  /\ UNCHANGED <<agent, stop, inbox, tasks, then, left, command, served>>

----------------------------------------------------------------------------
(* The commands, each a read of the record and, in Finish, its write *)

\* At most one command is under way at a time.
Begin(name, record) ==
  /\ command = NoCommand /\ agent # Gone
  /\ Disturb(name)
  /\ command' = [name |-> name, draft |-> record]

AsState(state) == [agent EXCEPT !.state = state]

Kill ==
  /\ Begin("kill", AsState("Stopped"))
  /\ stop' = TRUE
  /\ UNCHANGED <<agent, inbox, tasks, loopVars, served, lost>>

Interrupt ==
  /\ agent.state \notin Terminal
  /\ Begin("interrupt", AsState("Paused"))
  /\ UNCHANGED <<agent, stop, inbox, tasks, loopVars, served, lost>>

Resume ==
  /\ agent.state = "Paused"
  /\ Begin("resume", AsState("Idle"))
  /\ UNCHANGED <<agent, stop, inbox, tasks, loopVars, served, lost>>

Close ==
  /\ agent.state \notin Terminal
  /\ Begin("close", AsState("Draining"))
  /\ UNCHANGED <<agent, stop, inbox, tasks, loopVars, served, lost>>

\* `tt restart`, which starts a process; the service behind the MCP tool and the
\* REST route asks nothing of the state and starts none.
Restart ==
  /\ agent.state \in Terminal
  /\ Alive # Loops
  /\ Begin("restart", AsState("Idle"))
  /\ UNCHANGED <<agent, stop, inbox, tasks, loopVars, served, lost>>

McpRestart ==
  /\ Begin("mcp_restart", AsState("Idle"))
  /\ UNCHANGED <<agent, stop, inbox, tasks, loopVars, served, lost>>

\* An agent is taken for dead when its loop has logged nothing for two minutes,
\* which a loop that waits for its CLI does not.
Recover ==
  /\ agent.state \in {"Working", "Starting", "Idle", "Draining"}
  /\ \A p \in Alive : pc[p] = "run"
  /\ Begin("recover", AsState("Stopped"))
  /\ UNCHANGED <<agent, stop, inbox, tasks, loopVars, served, lost>>

\* prune, and prune --all, which takes any agent.
Prune ==
  /\ agent.state \in {"Stopped", "Error"} \/ "prune_all" \in Disturbances
  /\ Begin("prune", Gone)
  /\ UNCHANGED <<agent, stop, inbox, tasks, loopVars, served, lost>>

Finish ==
  /\ command # NoCommand
  /\ command' = NoCommand
  /\ agent' = command.draft
  /\ stop' = CASE command.name \in {"resume", "restart", "mcp_restart", "prune"} -> FALSE
               [] command.name = "close" -> TRUE
               [] OTHER -> stop
  /\ inbox' = IF command.name = "prune" THEN {} ELSE inbox
  /\ lost' = IF command.name = "prune" THEN lost \cup inbox ELSE lost
  /\ UNCHANGED <<tasks, hand, served, budget>>
  /\ IF command.name = "restart"
     THEN \E p \in Loops \ Alive : /\ Goto(p, "top")
                                   /\ left' = [left EXCEPT ![p] = MaxRounds]
     ELSE UNCHANGED <<pc, then, draft, left>>

\* The stop flag lives for an hour.
StopExpires ==
  /\ stop
  /\ Disturb("expiry")
  /\ stop' = FALSE
  /\ UNCHANGED <<agent, inbox, tasks, loopVars, command, served, lost>>

\* `tt assign` and `tt send`, whatever the agent's state.
Assign(t) ==
  /\ agent # Gone /\ tasks[t] = "Unsent"
  /\ tasks' = [tasks EXCEPT ![t] = "Assigned"]
  /\ inbox' = inbox \cup {t}
  /\ UNCHANGED <<agent, stop, loopVars, command, served, lost, budget>>

Sent == inbox \cup served \cup lost \cup UNION {hand[p] : p \in Loops}

SendNote(m) ==
  /\ agent # Gone /\ m \notin Sent
  /\ inbox' = inbox \cup {m}
  /\ UNCHANGED <<agent, stop, tasks, loopVars, command, served, lost, budget>>

----------------------------------------------------------------------------
(* Specification *)

\* `tt spawn` has registered the agent and started its loop.
Init ==
  /\ agent = [state |-> "Starting", current |-> NoTask]
  /\ stop = FALSE
  /\ inbox = {}
  /\ tasks = [t \in Tasks |-> "Unsent"]
  /\ pc = [p \in Loops |-> IF p = First THEN "top" ELSE "off"]
  /\ then = [p \in Loops |-> "off"]
  /\ draft = [p \in Loops |-> Gone]
  /\ hand = [p \in Loops |-> {}]
  /\ left = [p \in Loops |-> IF p = First THEN MaxRounds ELSE 0]
  /\ command = NoCommand
  /\ served = {}
  /\ lost = {}
  /\ budget = MaxDisturbances

\* The steps a process takes as long as it lives.
LoopStep(p) ==
  \/ Save(p)
  \/ Top(p)
  \/ ClearStop(p)
  \/ CheckPaused(p)
  \/ TakeNothing(p, FALSE)
  \/ Dismiss(p)
  \/ Take(p)
  \/ MarkWorking(p)
  \/ Start(p)
  \/ \E t \in Tasks : CompleteTask(p, t)
  \/ RoundEnds(p)
  \/ AfterRound(p)
  \/ Exit(p)

CommandStep ==
  \/ Kill
  \/ Interrupt
  \/ Resume
  \/ Close
  \/ Restart
  \/ McpRestart
  \/ Recover
  \/ Prune
  \/ Finish

Next ==
  \/ \E p \in Loops : \/ LoopStep(p)
                      \/ TakeNothing(p, TRUE)
                      \/ \E started \in BOOLEAN : RoundFails(p, started)
                      \/ Crash(p)
  \/ CommandStep
  \/ StopExpires
  \/ \E t \in Tasks : Assign(t)
  \/ \E m \in Notes : SendNote(m)

Spec == Init /\ [][Next]_vars

\* Processes that live go on and their CLI runs end, commands that began are
\* finished, and an agent that has nothing to do is in the end idle for longer
\* than its time-out.
Fairness ==
  /\ \A p \in Loops : WF_vars(LoopStep(p)) /\ SF_vars(TakeNothing(p, TRUE))
  /\ WF_vars(Finish)

FairSpec == Spec /\ Fairness

----------------------------------------------------------------------------
(* Properties *)

\* Nothing is in both, but for the questions about the backlog, of which each
\* round makes its own.
Apart(S, T) == S \cap T \subseteq {Prompt}

\* No message is lost or handled twice: a task that was sent is in the inbox, in
\* the hands of one living process, or was handled, unless a process died with it
\* or the agent was pruned. This also with two processes on one inbox, and
\* through failed rounds and processes that leave.
MessageInOnePlace ==
  /\ \A t \in Tasks : tasks[t] # "Unsent" => t \in Sent
  /\ \A p \in Loops : hand[p] # {} => p \in Alive
  /\ \A p \in Loops : Apart(hand[p], inbox \cup served \cup lost)
  /\ \A p, q \in Loops : p # q => Apart(hand[p], hand[q])
  /\ Apart(inbox, served) /\ Apart(inbox, lost) /\ Apart(served, lost)
  /\ {"crash", "prune"} \cap Disturbances = {} => lost = {}

\* Once a stop is requested no process of the agent goes on for ever, not even
\* when pauses and other requests come in between.
StopIsHonoured == stop ~> Alive = {}

\* A message in the inbox of an agent with a living process is taken, unless the
\* agent is paused.
SentIsTaken ==
  \A m \in Messages :
    (m \in inbox /\ Alive # {}) ~>
      (m \notin inbox \/ Alive = {} \/ agent.state = "Paused")

\* docs/src/advanced/townhall-rest.md: an idle worker drains and stops, so
\* again and again it is gone, paused, or has an open task.
IdleAgentStops ==
  []<>(Alive = {} \/ agent.state = "Paused" \/ \E t \in Tasks : Open(t))
=============================================================================
