---------------------------- MODULE ScalingSignal ----------------------------
(***************************************************************************)
(* GET /api/scaling of the townhall (src/app/server.rs): how many workers  *)
(* a town needs, put together from one list after the other while tasks    *)
(* move about between these lists.                                         *)
(*                                                                         *)
(* The tasks and their moves are those of TaskBoard. This module adds the  *)
(* part of an agent's record that the server looks at, and the docket,     *)
(* which it reads instead of the lists in a town that uses streams, where  *)
(* the lists are used as everywhere.                                       *)
(***************************************************************************)
EXTENDS TaskBoard, Docket

CONSTANTS
  Streams,     \* the values of use_streams an instance admits
  MaxAgents,   \* max_agents of the configuration
  MaxFailures  \* bound: reads of a request that fail, or end early, and are taken for
               \* all there is

ASSUME ScalingConstants ==
  /\ Streams \subseteq BOOLEAN
  /\ MaxAgents \in Nat /\ MaxFailures \in Nat
  /\ IsFiniteSet(Tasks) /\ IsFiniteSet(Agents)
  /\ Entries \cap Tasks = {}

VARIABLES
  streams,     \* use_streams of the configuration
  idleTimeout, \* whether idle_timeout_secs is set
  agent,       \* of each agent's record the state, the current task and whether it has
               \* been idle for longer than the timeout
  signal,      \* the request under way, and the last answer
  moved,       \* tasks that were on the move while the request was under way
  failures     \* reads of this request that have failed, or ended early

signalVars == <<signal, moved, failures>>
config == <<streams, idleTimeout>>
allVars == <<vars, docketVars, config, agent, signalVars>>

----------------------------------------------------------------------------
(* Agents *)

Starting == [state |-> "Starting", current |-> NoTask, overdue |-> FALSE]

\* set_current_for_agent: a round that is about one task notes it.
Track(a) ==
  /\ agent[a].state # "Working"
  /\ Cardinality(hand[a]) = 1
  /\ agent' = [agent EXCEPT ![a].current = CHOOSE t \in hand[a] : TRUE]
  /\ agent' # agent

\* The state is Working before the task is started and the command line run.
Work(a) ==
  /\ agent[a].state # "Working"
  /\ hand[a] # {}
  /\ Cardinality(hand[a]) = 1 => agent[a].current \in hand[a]
  /\ agent' = [agent EXCEPT ![a].state = "Working", ![a].overdue = FALSE]

\* Wrong on purpose: a finished task remains the current one.
StillSet(t) == t # NoTask

\* clear_terminal_current_task keeps the task that is not finished.
StillCurrent(t) == t # NoTask /\ tasks[t].state \in Open

\* After a round, and whenever it finds no message, the agent is idle.
Rest(a) ==
  /\ status[a] = "live"
  /\ hand[a] = {} /\ job[a] = NoJob
  /\ agent' = [agent EXCEPT ![a] =
       [state |-> "Idle", overdue |-> @.overdue,
        current |-> IF StillCurrent(@.current) THEN @.current ELSE NoTask]]
  /\ agent' # agent

\* The timeout passes.
Overdue(a) ==
  /\ idleTimeout
  /\ agent[a].state = "Idle" /\ ~ agent[a].overdue
  /\ agent' = [agent EXCEPT ![a].overdue = TRUE]

\* A completion, by whomever, has gone on to the agent its record names.
Cleared(a) ==
  \E p \in Procs :
    /\ job[p].kind = "complete" /\ job[p].at = "put"
    /\ job'[p].kind = "complete" /\ job'[p].at = "next"
    /\ job[p].draft.owner = a /\ job[p].task = agent[a].current

\* What a step of the board makes of an agent's record: an agent is started again, or a
\* task that was given back or completed is not its current one any more.
RecordAfter(a) ==
  IF status[a] # "live" /\ status'[a] = "live" THEN Starting
  ELSE IF (job[a].kind = "giveback" /\ job'[a] = NoJob) \/ Cleared(a)
       THEN [agent[a] EXCEPT !.current = NoTask]
       ELSE agent[a]

\* An agent that has taken tasks is Working before it goes on with them, and idle before
\* it takes others. It may die at any time.
InOrder(a) ==
  \/ status'[a] # status[a]
  \/ hand'[a] = hand[a] /\ job'[a] = job[a]
  \/ agent[a].state = "Working" <=> hand[a] # {} \/ job[a] # NoJob

\* Assignments, the backlog and the agents' loop use the lists whatever use_streams says.
Board ==
  /\ Next
  /\ \A a \in Agents : InOrder(a)
  /\ agent' = [a \in Agents |-> RecordAfter(a)]
  /\ UNCHANGED docketVars

Stream ==
  /\ streams
  /\ DocketStep
  /\ UNCHANGED <<vars, agent>>

RecordStep(a) ==
  /\ Track(a) \/ Work(a) \/ Rest(a) \/ Overdue(a)
  /\ UNCHANGED <<vars, docketVars>>

----------------------------------------------------------------------------
(* What is on the move, for the properties *)

Works == Tasks \cup Entries

Active == {a \in Agents : status[a] = "live"}

\* Where a task is to be found and which live agent names it, or how far an entry of the docket has come.
Place(w) ==
  IF w \in Tasks
  THEN <<backlog[w], [a \in Agents |-> inbox[a][w]], {a \in Agents : w \in hand[a]},
         {a \in Active : agent[a].current = w}, tasks[w].state>>
  ELSE <<w \in Pushed, w \in pending>>

\* It is in the hands of a command, or of an agent that is not yet, or no longer, Working.
InTransit(w) ==
  /\ w \in Tasks
  /\ \/ \E p \in Procs : w \in Carried(p)
     \/ \E a \in Agents :
          \/ w \in hand[a] /\ (agent[a].state # "Working" \/ status[a] # "live")
          \/ w = agent[a].current /\ job[a].kind = "giveback"

NoSignal == [at |-> "idle", queued |-> 0, flight |-> {}, answer |-> "none"]

\* The town goes on beside the request, or after it, when its answer is past.
World(Step) ==
  /\ Step
  /\ \/ /\ signal.at # "idle"
        /\ moved' = moved \cup {w \in Works : Place(w)' # Place(w) \/ InTransit(w)'}
        /\ UNCHANGED <<signal, failures>>
     \/ /\ signal.at = "idle"
        /\ signal' = NoSignal /\ moved' = {} /\ failures' = 0
  /\ UNCHANGED config

----------------------------------------------------------------------------
(* A request *)

\* The request goes on with its next read.
Goes(at, queued, flight) ==
  signal' = [signal EXCEPT !.at = at, !.queued = queued, !.flight = flight]

Reads(at) == signal.at = at /\ UNCHANGED <<vars, docketVars, config, agent, moved>>

Ask ==
  /\ signal.at = "idle"
  /\ signal' = [NoSignal EXCEPT !.at = IF streams THEN "pending" ELSE "backlog"]
  /\ moved' = {w \in Works : InTransit(w)}
  /\ failures' = 0
  /\ UNCHANGED <<vars, docketVars, config, agent>>

\* The messages in a list that are about these tasks, one by one.
Messages(list, about) == UNION {{t} \X (1 .. list[t]) : t \in about}

\* backlog_len. A read that fails here is the end of the request.
BacklogLen ==
  /\ Reads("backlog")
  /\ Goes("inboxes", Cardinality(Messages(backlog, Tasks)), {})
  /\ UNCHANGED failures

\* Messages in the inbox of agent a that are about a task there is a record of.
Told(a) == Messages(inbox[a], {t \in Tasks : tasks[t].state \notin {"New", "Deleted"}})

Listed == {a \in Agents : status[a] # "missing"}

Inboxes == UNION {{a} \X Told(a) : a \in Listed}

\* A failure to list the agents, or to read an inbox, is taken for an empty one, and no more
\* than the first 100 messages of an inbox are read: whatever is in them is left out.
Fails ==
  /\ failures < MaxFailures
  /\ failures' = failures + 1

ListPending ==
  /\ Reads("inboxes")
  /\ \/ /\ Goes("tasks", signal.queued + Cardinality(Inboxes), {})
        /\ UNCHANGED failures
     \/ Fails /\ \E told \in 0 .. Cardinality(Inboxes) : Goes("tasks", signal.queued + told, {})

\* Wrong on purpose: tasks that wait for their agent are counted as in flight.
ListOpenTasks ==
  /\ Reads("tasks")
  /\ Goes("agents", signal.queued, {t \in Tasks : tasks[t].state \in {"Assigned", "Running"}})
  /\ UNCHANGED failures

ListTasks ==
  /\ Reads("tasks")
  /\ Goes("agents", signal.queued, {t \in Tasks : tasks[t].state = "Running"})
  /\ UNCHANGED failures

\* The second half of count_in_flight_tasks.
CountInFlight ==
  /\ Reads("agents")
  /\ \/ /\ Goes("decide", signal.queued,
                signal.flight \cup ({agent[a].current : a \in Active} \ {NoTask}))
        /\ UNCHANGED failures
     \/ Fails /\ Goes("decide", signal.queued, signal.flight)

\* XPENDING, nothing without a group.
PendingCount ==
  /\ Reads("pending")
  /\ Goes("lag", 0, pending)
  /\ UNCHANGED failures

\* Wrong on purpose: a lag that is not known is none.
UnreadOrNone ==
  /\ Reads("lag")
  /\ \E lag \in GroupLag : Goes("decide", IF lag = Unknown THEN 0 ELSE lag, signal.flight)
  /\ UNCHANGED failures

\* The lag of the group, or the whole length of the stream where that is not known.
Unread ==
  /\ Reads("lag")
  /\ \E lag \in GroupLag :
       IF lag = Unknown THEN Goes("length", 0, signal.flight)
                          ELSE Goes("decide", lag, signal.flight)
  /\ UNCHANGED failures

Length ==
  /\ Reads("length")
  /\ Goes("decide", DocketLen, signal.flight)
  /\ UNCHANGED failures

Desired ==
  LET wanted == signal.queued + Cardinality(signal.flight)
  IN IF wanted < MaxAgents THEN wanted ELSE MaxAgents

AllIdle(active) ==
  IF idleTimeout THEN \A a \in active : agent[a].state = "Idle" /\ agent[a].overdue
                 ELSE active = {}

\* scaling_recommendation
Recommended(active) ==
  LET nothing == signal.queued = 0 /\ signal.flight = {}
  IN IF Desired = 0 /\ nothing /\ AllIdle(active) THEN "ScaleToZero"
     ELSE IF Desired > Cardinality(active) THEN "ScaleUp"
     ELSE IF Desired < Cardinality(active) /\ signal.queued = 0 THEN "ScaleDown"
     ELSE "Steady"

\* The agents are listed once more.
Answer ==
  /\ Reads("decide")
  /\ \/ signal' = [NoSignal EXCEPT !.answer = Recommended(Active)] /\ UNCHANGED failures
     \/ Fails /\ signal' = [NoSignal EXCEPT !.answer = Recommended({})]

Request ==
  \/ Ask
  \/ BacklogLen
  \/ ListPending
  \/ ListTasks
  \/ CountInFlight
  \/ PendingCount
  \/ Unread
  \/ Length
  \/ Answer

----------------------------------------------------------------------------

SignalInit ==
  /\ Init
  /\ DocketInit
  /\ streams \in Streams /\ idleTimeout \in BOOLEAN
  /\ agent = [a \in Agents |-> Starting]
  /\ signal = NoSignal
  /\ moved = {}
  /\ failures = 0

SignalNext ==
  \/ World(Board)
  \/ World(Stream)
  \/ \E a \in Agents : World(RecordStep(a))
  \/ Request

SignalSpec == SignalInit /\ [][SignalNext]_allVars

----------------------------------------------------------------------------
(* Properties *)

Waiting == Cardinality(Messages(backlog, Tasks)) + Cardinality(Inboxes)

\* A task that waits in a list, one that an agent has, and an entry that was not acknowledged.
Queued(t) == backlog[t] > 0 \/ \E a \in Listed : inbox[a][t] > 0

InHand(t) == \E a \in Agents : t \in hand[a]

Undone(e) == e \in pending \/ (last # NoGroup /\ \E i \in last + 1 .. Len(stream) : stream[i] = e)

\* An open task or an entry of the docket that somebody is to do, or does.
IsWork(w) ==
  IF w \in Tasks THEN tasks[w].state \in Open /\ (Queued(w) \/ InHand(w)) ELSE Undone(w)

Answered == signal.at = "decide" /\ signal'.at = "idle"

\* The signal to scale to zero is not given while there is open work that has kept its
\* place since the request came in. It takes a failed read to overlook it, or a town that
\* uses streams: its lists are in use, too, but the signal does not look at them.
ZeroOnlyWithoutWork ==
  [][Answered /\ signal'.answer = "ScaleToZero" =>
       \/ failures' > 0
       \/ \A w \in Works \ moved :
            IsWork(w) => streams /\ w \in Tasks /\ ~ InHand(w)]_allVars

\* Tasks that may be open and unknown to whom they are with.
Astray == orphaned \cup reopened

\* While nothing moves, the signal counts every message that waits, and as in flight the
\* open tasks of rounds that are about one task, but none besides what somebody has in
\* hand, has just ended with, forgot, or was giving back when it died. Orphans that were
\* reclaimed and tasks that were given back wrongly may be counted or not, and a task
\* that was completed before its agent came to it may be missing.
CountIsExact ==
  [][Answered /\ ~ streams /\ moved = {} /\ failures' = 0 =>
       /\ signal.queued = Waiting
       /\ \A a \in Agents, t \in Tasks \ (Astray \cup elsewhere) :
            hand[a] = {t} /\ tasks[t].state \in Open => t \in signal.flight
       /\ \A t \in signal.flight \ Astray :
            \/ t \in lost \/ InHand(t)
            \/ \E a \in Agents : agent[a].current = t /\ agent[a].state = "Working"
            \/ tasks[t].state = "Running" /\ IsWork(t)]_allVars

AllDone ==
  /\ \A t \in Tasks : ~ IsWork(t) /\ t \notin lost \cup Astray
  /\ \A a \in Active : agent[a].state = "Idle" /\ agent[a].overdue

\* A town that has done all its work, whoever completed it and when, and whose agents have
\* been idle for long enough, is told to scale to zero, unless there are messages left of
\* tasks that are finished.
DoneIsZero ==
  [][Answered /\ ~ streams /\ moved = {} /\ AllDone =>
       \/ signal'.answer = "ScaleToZero" \/ ~ idleTimeout \/ failures' > 0
       \/ Waiting > 0]_allVars
=============================================================================
