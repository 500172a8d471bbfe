------------------------- MODULE ScalingSignalProofs -------------------------
(***************************************************************************)
(* Theorems of ScalingSignal: what the answer of the townhall to a request *)
(* for the size of a town says of the town, for any tasks, agents and      *)
(* docket entries, whatever moves while the lists are read.                *)
(*                                                                         *)
(* The board moves beside a request as TaskBoard says, so the invariants   *)
(* of TaskBoardProofs hold here; three more tie the request to the board:  *)
(*   NothingOverlooked  what has kept its place shows in what was counted, *)
(*   RecordsMeant       what an agent's record names is what it has,       *)
(*   CountOK            what was counted is there, if nothing moved.    *)
(***************************************************************************)
EXTENDS ScalingSignal, TaskBoardProofs, FiniteSetTheorems

----------------------------------------------------------------------------
(* The request and the board *)

\* Everything but the steps of the request.
Moves ==
  \/ World(Board)
  \/ World(Stream)
  \/ \E a \in Agents : World(RecordStep(a))

LEMMA StepIs ==
  ASSUME [SignalNext]_allVars
  PROVE  Moves \/ Request \/ UNCHANGED allVars
BY DEF SignalNext, Moves

LEMMA RequestIs ==
  ASSUME Request
  PROVE  UNCHANGED <<vars, docketVars, config, agent>>
BY DEF Request, Ask, BacklogLen, ListPending, ListTasks, CountInFlight, PendingCount, Unread,
       Length, Answer, Reads

\* The request meanwhile stands still; if there is none, the last answer is forgotten.
Stands ==
  \/ /\ signal.at # "idle" /\ UNCHANGED <<signal, failures>>
     /\ moved' = moved \cup {w \in Works : Place(w)' # Place(w) \/ InTransit(w)'}
  \/ signal.at = "idle" /\ signal' = NoSignal /\ moved' = {} /\ failures' = 0

LEMMA MovesIs ==
  ASSUME Moves
  PROVE  UNCHANGED config /\ [Next]_vars /\ Stands /\ signal'.at = signal.at
<1>1. ASSUME NEW Step, World(Step) PROVE UNCHANGED config /\ Stands /\ signal'.at = signal.at
  BY <1>1 DEF World, Stands, NoSignal
<1>2. CASE World(Board)
  BY <1>1, <1>2 DEF World, Board
<1>3. CASE World(Stream)
  BY <1>1, <1>3 DEF World, Stream
<1>4. ASSUME NEW a \in Agents, World(RecordStep(a))
      PROVE  UNCHANGED config /\ [Next]_vars /\ Stands /\ signal'.at = signal.at
  BY <1>1, <1>4 DEF World, RecordStep
<1> QED
  BY <1>2, <1>3, <1>4 DEF Moves

\* Beside a request the tasks go their way as TaskBoard says.
LEMMA BoardStep ==
  ASSUME [SignalNext]_allVars
  PROVE  [Next]_vars
<1>1. Request => UNCHANGED vars
  BY RequestIs
<1>2. UNCHANGED allVars => UNCHANGED vars
  BY DEF allVars
<1> QED
  BY <1>1, <1>2, StepIs, MovesIs

\* The implementation of TaskBoard by ScalingSignal: whatever a request reads, every step of
\* the town is one that the board may take, or leaves the board alone.
THEOREM SignalRunsBoard == SignalSpec => Spec
<1>1. SignalInit => Init
  BY DEF SignalInit
<1> QED
  BY <1>1, BoardStep, PTL DEF SignalSpec, Spec

\* What a step leaves in its place is where it was, with whom it was.
LEMMA TaskKeepsPlace ==
  ASSUME NEW t \in Tasks, Place(t)' = Place(t)
  PROVE  /\ backlog'[t] = backlog[t] /\ tasks'[t].state = tasks[t].state
         /\ \A a \in Agents : inbox'[a][t] = inbox[a][t] /\ (t \in hand'[a] <=> t \in hand[a])
         /\ \A a \in Agents : a \in Active' /\ agent'[a].current = t
                                <=> a \in Active /\ agent[a].current = t
<1>1. /\ backlog'[t] = backlog[t] /\ tasks'[t].state = tasks[t].state
      /\ [a \in Agents |-> inbox'[a][t]] = [a \in Agents |-> inbox[a][t]]
      /\ {a \in Agents : t \in hand'[a]} = {a \in Agents : t \in hand[a]}
      /\ {a \in Active' : agent'[a].current = t} = {a \in Active : agent[a].current = t}
  BY DEF Place
<1>2. ASSUME NEW a \in Agents
      PROVE  inbox'[a][t] = inbox[a][t] /\ (t \in hand'[a] <=> t \in hand[a])
  <2>1. [b \in Agents |-> inbox'[b][t]][a] = [b \in Agents |-> inbox[b][t]][a]
    BY <1>1
  <2> QED
    BY <1>1, <2>1
<1>3. ASSUME NEW a \in Agents
      PROVE  a \in Active' /\ agent'[a].current = t <=> a \in Active /\ agent[a].current = t
  BY <1>1
<1> QED
  BY <1>1, <1>2, <1>3

LEMMA EntryKeepsPlace ==
  ASSUME NEW e \in Entries, Place(e)' = Place(e)
  PROVE  (e \in Pushed' <=> e \in Pushed) /\ (e \in pending' <=> e \in pending)
BY ScalingConstants DEF Place

\* Everything that moves during a request is noted.
LEMMA KeepPlace ==
  ASSUME Moves, signal.at # "idle", NEW w \in Works, w \notin moved'
  PROVE  w \notin moved /\ Place(w)' = Place(w) /\ ~ InTransit(w)'
BY MovesIs DEF Stands

----------------------------------------------------------------------------
(* Types *)

AgentRecord ==
  [state : {"Starting", "Working", "Idle"}, current : Tasks \cup {NoTask}, overdue : BOOLEAN]

ListReads == {"backlog", "inboxes", "tasks", "agents"}

StreamReads == {"pending", "lag", "length"}

Signals ==
  [at : {"idle", "decide"} \cup ListReads \cup StreamReads, queued : Nat, flight : SUBSET Works,
   answer : {"none", "ScaleToZero", "ScaleUp", "ScaleDown", "Steady"}]

DocketTyped ==
  /\ stream \in Seq(Entries)
  /\ last = NoGroup \/ last \in 0 .. Len(stream)
  /\ pending \subseteq Pushed

\* The request reads the lists or the stream, and there is no stream without use_streams.
SignalTyped ==
  /\ streams \in BOOLEAN /\ idleTimeout \in BOOLEAN
  /\ agent \in [Agents -> AgentRecord]
  /\ signal \in Signals
  /\ moved \subseteq Works
  /\ failures \in Nat
  /\ streams => signal.at \notin ListReads
  /\ ~ streams => signal.at \notin StreamReads /\ pending = {} /\ last = NoGroup

LEMMA RecordTyped ==
  ASSUME TypeOK, NEW a \in Agents, agent \in [Agents -> AgentRecord],
         Track(a) \/ Work(a) \/ Rest(a) \/ Overdue(a)
  PROVE  agent' \in [Agents -> AgentRecord]
<1>1. agent[a] \in AgentRecord
  OBVIOUS
<1>2. CASE Track(a)
  <2>1. PICK t \in hand[a] : agent' = [agent EXCEPT ![a].current = t]
    <3>1. hand[a] # {}
      BY <1>2, FS_EmptySet DEF Track
    <3> QED
      BY <1>2, <3>1 DEF Track
  <2>2. t \in Tasks
    BY DEF TypeOK
  <2> QED
    BY <1>1, <2>1, <2>2 DEF AgentRecord
<1>3. CASE Work(a)
  BY <1>1, <1>3 DEF Work, AgentRecord
<1>4. CASE Rest(a)
  BY <1>1, <1>4 DEF Rest, AgentRecord
<1>5. CASE Overdue(a)
  BY <1>1, <1>5 DEF Overdue, AgentRecord
<1> QED
  BY <1>2, <1>3, <1>4, <1>5

LEMMA StartingIs == Starting \in AgentRecord
BY DEF Starting, AgentRecord

LEMMA RecordAfterIs ==
  ASSUME NEW a \in Agents, agent \in [Agents -> AgentRecord]
  PROVE  /\ RecordAfter(a) \in AgentRecord
         /\ \/ RecordAfter(a) = Starting
            \/ RecordAfter(a).current = NoTask /\ RecordAfter(a).state = agent[a].state
            \/ RecordAfter(a) = agent[a]
<1>1. agent[a] \in AgentRecord
  OBVIOUS
<1>2. /\ [agent[a] EXCEPT !.current = NoTask] \in AgentRecord
      /\ [agent[a] EXCEPT !.current = NoTask].current = NoTask
      /\ [agent[a] EXCEPT !.current = NoTask].state = agent[a].state
  BY <1>1 DEF AgentRecord
<1> QED
  BY <1>1, <1>2, StartingIs DEF RecordAfter

LEMMA PushedIs ==
  ASSUME DocketTyped
  PROVE  Pushed \subseteq Entries /\ Len(stream) \in Nat /\ \A i \in 1 .. Len(stream) : stream[i] \in Pushed
BY DEF DocketTyped, Pushed

LEMMA DocketStays ==
  ASSUME DocketTyped, DocketStep
  PROVE  DocketTyped' /\ Pushed \subseteq Pushed'
<1> USE DEF DocketTyped
<1>1. Len(stream) \in Nat
  OBVIOUS
<1>2. CASE EnsureGroup
  BY <1>1, <1>2 DEF EnsureGroup, Pushed
<1>3. ASSUME NEW e \in Entries, DocketPush(e) PROVE DocketTyped' /\ Pushed \subseteq Pushed'
  <2>1. stream' = Append(stream, e) /\ UNCHANGED <<last, pending>>
    BY <1>3 DEF DocketPush
  <2>2. stream' \in Seq(Entries) /\ Len(stream') = Len(stream) + 1
    BY <2>1
  <2>3. \A i \in DOMAIN stream : i \in DOMAIN stream' /\ stream'[i] = stream[i]
    BY <2>1, <2>2
  <2>4. Pushed \subseteq Pushed'
    BY <2>3 DEF Pushed
  <2> QED
    BY <1>1, <2>1, <2>2, <2>4 DEF NoGroup
<1>4. CASE DocketRead
  <2>1. last \in 0 .. Len(stream) /\ last < Len(stream)
    BY <1>4 DEF DocketRead
  <2>2. last + 1 \in 1 .. Len(stream) /\ last + 1 \in DOMAIN stream
    BY <1>1, <2>1
  <2>3. stream[last + 1] \in Pushed
    BY <2>2 DEF Pushed
  <2> QED
    BY <1>1, <1>4, <2>2, <2>3 DEF DocketRead, Pushed
<1>5. ASSUME NEW e \in Entries, DocketAck(e) PROVE DocketTyped' /\ Pushed \subseteq Pushed'
  BY <1>5 DEF DocketAck, Pushed
<1> QED
  BY <1>2, <1>3, <1>4, <1>5 DEF DocketStep

----------------------------------------------------------------------------
(* Messages are counted *)

\* Finitely many finite sets have finitely many elements.
LEMMA UnionFinite ==
  ASSUME NEW S, IsFiniteSet(S), NEW f, f = [x \in S |-> f[x]], \A x \in S : IsFiniteSet(f[x])
  PROVE  IsFiniteSet(UNION {f[x] : x \in S})
<1> DEFINE T == {f[x] : x \in S}
<1>1. f \in Surjection(S, T)
  BY DEF Surjection
<1>2. IsFiniteSet(T)
  BY <1>1, FS_Surjection
<1>3. \A X \in T : IsFiniteSet(X)
  OBVIOUS
<1> QED
  BY <1>2, <1>3, FS_UNION

\* The messages of a list are as many as they are.
LEMMA MessagesFinite ==
  ASSUME NEW list \in [Tasks -> Nat], NEW S, S \subseteq Tasks
  PROVE  IsFiniteSet(Messages(list, S)) /\ Cardinality(Messages(list, S)) \in Nat
<1> DEFINE f == [t \in S |-> {t} \X (1 .. list[t])]
<1>1. ASSUME NEW t \in S PROVE IsFiniteSet(f[t])
  <2>1. list[t] \in Int /\ 1 \in Int
    OBVIOUS
  <2>2. IsFiniteSet(1 .. list[t])
    BY <2>1, FS_Interval
  <2>3. IsFiniteSet({t})
    BY FS_Singleton
  <2> QED
    BY <2>2, <2>3, FS_Product
<1>2. IsFiniteSet(S)
  BY FS_Subset, ScalingConstants
<1>3. Messages(list, S) = UNION {f[t] : t \in S}
  BY DEF Messages
<1>4. IsFiniteSet(UNION {f[t] : t \in S})
  <2> f = [t \in S |-> f[t]]
    OBVIOUS
  <2> HIDE DEF f
  <2> QED
    BY <1>1, <1>2, UnionFinite
<1> QED
  BY <1>3, <1>4, FS_CardinalityType

LEMMA MessagesSome ==
  ASSUME NEW list \in [Tasks -> Nat], NEW S, S \subseteq Tasks, NEW t \in S, list[t] > 0
  PROVE  Cardinality(Messages(list, S)) > 0
<1>1. <<t, 1>> \in Messages(list, S)
  <2>1. 1 \in 1 .. list[t]
    OBVIOUS
  <2> QED
    BY <2>1 DEF Messages
<1> QED
  BY <1>1, MessagesFinite, FS_EmptySet

LEMMA ToldFinite ==
  ASSUME TypeOK, NEW a \in Agents
  PROVE  /\ IsFiniteSet(Told(a))
         /\ \A t \in Tasks : tasks[t].state \notin {"New", "Deleted"} /\ inbox[a][t] > 0
                             => <<t, 1>> \in Told(a)
<1> DEFINE known == {t \in Tasks : tasks[t].state \notin {"New", "Deleted"}}
<1>1. inbox[a] \in [Tasks -> Nat] /\ known \subseteq Tasks
  BY DEF TypeOK
<1>2. IsFiniteSet(Messages(inbox[a], known))
  <2> HIDE DEF known
  <2> QED
    BY <1>1, MessagesFinite
<1>3. ASSUME NEW t \in known, inbox[a][t] > 0 PROVE <<t, 1>> \in Messages(inbox[a], known)
  <2>1. 1 \in 1 .. inbox[a][t]
    BY <1>1, <1>3
  <2> QED
    BY <2>1 DEF Messages
<1> QED
  BY <1>2, <1>3 DEF Told

LEMMA InboxesFinite ==
  ASSUME TypeOK
  PROVE  Cardinality(Inboxes) \in Nat /\ (Cardinality(Inboxes) = 0 => Inboxes = {})
<1> DEFINE f == [a \in Listed |-> {a} \X Told(a)]
<1>1. ASSUME NEW a \in Listed PROVE IsFiniteSet(f[a])
  BY FS_Singleton, FS_Product, ToldFinite DEF Listed
<1>2. IsFiniteSet(Listed)
  BY FS_Subset, ScalingConstants DEF Listed
<1>3. Inboxes = UNION {f[a] : a \in Listed}
  BY DEF Inboxes
<1>4. IsFiniteSet(UNION {f[a] : a \in Listed})
  <2> f = [a \in Listed |-> f[a]]
    OBVIOUS
  <2> HIDE DEF f
  <2> QED
    BY <1>1, <1>2, UnionFinite
<1> QED
  BY <1>3, <1>4, FS_CardinalityType, FS_EmptySet

LEMMA InboxesSome ==
  ASSUME TypeOK, NEW a \in Listed, NEW t \in Tasks, tasks[t].state \notin {"New", "Deleted"},
         inbox[a][t] > 0
  PROVE  Cardinality(Inboxes) > 0
<1>1. <<t, 1>> \in Told(a)
  BY ToldFinite DEF Listed
<1>2. <<a, <<t, 1>>>> \in Inboxes
  BY <1>1 DEF Inboxes
<1> QED
  BY <1>2, InboxesFinite

LEMMA BacklogFinite ==
  ASSUME TypeOK
  PROVE  /\ Cardinality(Messages(backlog, Tasks)) \in Nat
         /\ \A t \in Tasks : backlog[t] > 0 => Cardinality(Messages(backlog, Tasks)) > 0
BY MessagesFinite, MessagesSome DEF TypeOK

----------------------------------------------------------------------------
(* The request stays well-formed *)

LEMMA NoSignalIs == NoSignal \in Signals /\ NoSignal.at = "idle"
BY DEF NoSignal, Signals

\* What moves beside the request leaves it where it is.
LEMMA MovesTyped ==
  ASSUME TypeOK, DocketTyped, SignalTyped, Moves
  PROVE  DocketTyped' /\ SignalTyped'
<1>1. /\ UNCHANGED config /\ signal' \in Signals /\ signal'.at = signal.at
      /\ moved' \subseteq Works /\ failures' \in Nat
  BY MovesIs, NoSignalIs DEF Stands, SignalTyped
<1>2. CASE World(Board)
  <2>1. agent' = [a \in Agents |-> RecordAfter(a)] /\ UNCHANGED docketVars
    BY <1>2 DEF World, Board
  <2>2. agent' \in [Agents -> AgentRecord]
    BY <2>1, RecordAfterIs DEF SignalTyped
  <2>3. DocketTyped'
    BY <2>1 DEF DocketTyped, docketVars, Pushed
  <2> QED
    BY <1>1, <2>1, <2>2, <2>3 DEF SignalTyped, config, docketVars
<1>3. CASE World(Stream)
  <2>1. streams /\ DocketStep /\ UNCHANGED <<vars, agent>>
    BY <1>3 DEF World, Stream
  <2> QED
    BY <1>1, <2>1, DocketStays DEF SignalTyped, config
<1>4. ASSUME NEW a \in Agents, World(RecordStep(a)) PROVE DocketTyped' /\ SignalTyped'
  <2>1. (Track(a) \/ Work(a) \/ Rest(a) \/ Overdue(a)) /\ UNCHANGED <<vars, docketVars>>
    BY <1>4 DEF World, RecordStep
  <2>2. agent' \in [Agents -> AgentRecord]
    BY <2>1, RecordTyped DEF SignalTyped
  <2>3. DocketTyped'
    BY <2>1 DEF DocketTyped, docketVars, Pushed
  <2> QED
    BY <1>1, <2>1, <2>2, <2>3 DEF SignalTyped, config, docketVars
<1> QED
  BY <1>2, <1>3, <1>4 DEF Moves

LEMMA GoesTo ==
  ASSUME signal \in Signals, NEW at \in {"idle", "decide"} \cup ListReads \cup StreamReads,
         NEW queued \in Nat, NEW flight, flight \subseteq Works, Goes(at, queued, flight)
  PROVE  /\ signal' \in Signals
         /\ signal'.at = at /\ signal'.queued = queued /\ signal'.flight = flight
BY DEF Goes, Signals

\* The lag of the group is not negative, where it is known.
LEMMA LagIs ==
  ASSUME DocketTyped, NEW lag \in GroupLag, lag # Unknown
  PROVE  last \in 0 .. Len(stream) /\ lag = Len(stream) - last /\ lag \in Nat
<1>1. Len(stream) \in Nat
  BY PushedIs
<1>2. last # NoGroup /\ lag = Len(stream) - last
  BY DEF GroupLag
<1> QED
  BY <1>1, <1>2 DEF DocketTyped

Running == {t \in Tasks : tasks[t].state = "Running"}

Currents == {agent[a].current : a \in Active} \ {NoTask}

\* Where the request goes on, and with what it counted.
Heads(from, to, queued, flight) ==
  /\ signal.at = from /\ signal'.at = to /\ signal'.queued = queued /\ signal'.flight = flight
  /\ moved' = moved

\* The steps of a request, and the reads that fail.
RequestGoes ==
  \/ /\ signal.at = "idle" /\ signal'.at = (IF streams THEN "pending" ELSE "backlog")
     /\ moved' = {w \in Works : InTransit(w)}
  \/ Heads("backlog", "inboxes", Cardinality(Messages(backlog, Tasks)), {})
  \/ Heads("inboxes", "tasks", signal.queued + Cardinality(Inboxes), {})
  \/ failures' > 0 /\ \E told \in Nat : Heads("inboxes", "tasks", signal.queued + told, {})
  \/ Heads("tasks", "agents", signal.queued, Running)
  \/ Heads("agents", "decide", signal.queued, signal.flight \cup Currents)
  \/ Heads("agents", "decide", signal.queued, signal.flight) /\ failures' > 0
  \/ Heads("pending", "lag", 0, pending)
  \/ Heads("lag", "length", 0, signal.flight)
  \/ Heads("lag", "decide", Len(stream) - last, signal.flight) /\ last \in 0 .. Len(stream)
  \/ Heads("length", "decide", Len(stream), signal.flight)
  \/ signal.at = "decide" /\ signal'.at = "idle" /\ moved' = moved

\* Reads that failed are forgotten when the next request begins.
FailuresGrow == signal.at # "idle" => failures <= failures'

\* A request goes from one read to the next, with what it read.
LEMMA RequestTyped ==
  ASSUME TypeOK, DocketTyped, SignalTyped, Request
  PROVE  /\ signal' \in Signals /\ failures' \in Nat /\ FailuresGrow
         /\ RequestGoes
<1> USE DEF ListReads, StreamReads, FailuresGrow
<1>1. signal \in Signals /\ failures \in Nat /\ signal.queued \in Nat /\ signal.flight \subseteq Works
  BY DEF SignalTyped, Signals
<1>2. ASSUME NEW from, NEW at \in {"idle", "decide"} \cup ListReads \cup StreamReads,
             NEW queued \in Nat, NEW flight, flight \subseteq Works, Goes(at, queued, flight),
             Reads(from)
      PROVE  signal' \in Signals /\ Heads(from, at, queued, flight)
  BY <1>1, <1>2, GoesTo DEF Reads, Heads
<1>3. Fails => failures' \in Nat /\ failures' > 0 /\ failures <= failures'
  BY <1>1 DEF Fails
<1>4. failures' = failures => failures' \in Nat /\ failures <= failures'
  BY <1>1
<1>5. CASE Ask
  <2>1. signal' \in Signals /\ signal'.at = IF streams THEN "pending" ELSE "backlog"
    <3>1. NoSignal \in Signals /\ NoSignal.at = "idle"
      BY NoSignalIs
    <3> QED
      BY <1>5, <3>1 DEF Ask, Signals
  <2> QED
    BY <1>5, <2>1 DEF Ask, RequestGoes
<1>6. CASE BacklogLen
  <2>1. signal' \in Signals /\ Heads("backlog", "inboxes", Cardinality(Messages(backlog, Tasks)), {})
    BY <1>2, <1>6, BacklogFinite DEF BacklogLen
  <2> QED
    BY <1>4, <1>6, <2>1 DEF BacklogLen, RequestGoes
<1>7. CASE ListPending
  <2>1. signal.queued + Cardinality(Inboxes) \in Nat
    BY <1>1, InboxesFinite
  <2>2. CASE Goes("tasks", signal.queued + Cardinality(Inboxes), {}) /\ UNCHANGED failures
    <3>1. signal' \in Signals /\ Heads("inboxes", "tasks", signal.queued + Cardinality(Inboxes), {})
      BY <1>2, <1>7, <2>1, <2>2 DEF ListPending
    <3> QED
      BY <1>4, <2>2, <3>1 DEF RequestGoes
  <2>3. ASSUME NEW told \in 0 .. Cardinality(Inboxes), Goes("tasks", signal.queued + told, {}), Fails
        PROVE  signal' \in Signals /\ failures' \in Nat /\ FailuresGrow /\ RequestGoes
    <3>1. told \in Nat /\ signal.queued + told \in Nat
      BY <1>1, InboxesFinite
    <3>2. signal' \in Signals /\ Heads("inboxes", "tasks", signal.queued + told, {})
      BY <1>2, <1>7, <2>3, <3>1 DEF ListPending
    <3> QED
      BY <1>3, <2>3, <3>1, <3>2 DEF RequestGoes
  <2> QED
    BY <1>7, <2>2, <2>3 DEF ListPending
<1>8. CASE ListTasks
  <2>1. Running \subseteq Works
    BY DEF Running, Works
  <2>2. signal' \in Signals /\ Heads("tasks", "agents", signal.queued, Running)
    BY <1>1, <1>2, <1>8, <2>1 DEF ListTasks, Running
  <2> QED
    BY <1>4, <1>8, <2>2 DEF ListTasks, RequestGoes
<1>9. CASE CountInFlight
  <2>1. signal.flight \cup Currents \subseteq Works
    BY <1>1 DEF Currents, Active, Works, SignalTyped, AgentRecord
  <2>2. CASE Goes("decide", signal.queued, signal.flight \cup Currents) /\ UNCHANGED failures
    <3>1. signal' \in Signals /\ Heads("agents", "decide", signal.queued, signal.flight \cup Currents)
      BY <1>1, <1>2, <1>9, <2>1, <2>2 DEF CountInFlight
    <3> QED
      BY <1>4, <2>2, <3>1 DEF RequestGoes
  <2>3. CASE Goes("decide", signal.queued, signal.flight) /\ Fails
    <3>1. signal' \in Signals /\ Heads("agents", "decide", signal.queued, signal.flight)
      BY <1>1, <1>2, <1>9, <2>3 DEF CountInFlight
    <3> QED
      BY <1>3, <2>3, <3>1 DEF RequestGoes
  <2> QED
    BY <1>9, <2>2, <2>3 DEF CountInFlight, Currents
<1>10. CASE PendingCount
  <2>1. pending \subseteq Works
    BY PushedIs DEF DocketTyped, Works
  <2>2. signal' \in Signals /\ Heads("pending", "lag", 0, pending)
    BY <1>2, <1>10, <2>1 DEF PendingCount
  <2> QED
    BY <1>4, <1>10, <2>2 DEF PendingCount, RequestGoes
<1>11. CASE Unread
  <2>1. PICK lag \in GroupLag :
          IF lag = Unknown THEN Goes("length", 0, signal.flight)
                           ELSE Goes("decide", lag, signal.flight)
    BY <1>11 DEF Unread
  <2>2. CASE lag = Unknown
    <3>1. signal' \in Signals /\ Heads("lag", "length", 0, signal.flight)
      BY <1>1, <1>2, <1>11, <2>1, <2>2 DEF Unread
    <3> QED
      BY <1>4, <1>11, <3>1 DEF Unread, RequestGoes
  <2>3. CASE lag # Unknown
    <3>1. last \in 0 .. Len(stream) /\ lag = Len(stream) - last /\ lag \in Nat
      BY <2>3, LagIs
    <3>2. signal' \in Signals /\ Heads("lag", "decide", lag, signal.flight)
      BY <1>1, <1>2, <1>11, <2>1, <2>3, <3>1 DEF Unread
    <3> QED
      BY <1>4, <1>11, <3>1, <3>2 DEF Unread, RequestGoes
  <2> QED
    BY <2>2, <2>3
<1>12. CASE Length
  <2>1. Len(stream) \in Nat
    BY PushedIs
  <2>2. signal' \in Signals /\ Heads("length", "decide", Len(stream), signal.flight)
    BY <1>1, <1>2, <1>12, <2>1 DEF Length, DocketLen
  <2> QED
    BY <1>4, <1>12, <2>2 DEF Length, RequestGoes
<1>13. CASE Answer
  <2>1. ASSUME NEW active PROVE Recommended(active) \in {"ScaleToZero", "ScaleUp", "ScaleDown", "Steady"}
    BY DEF Recommended
  <2>2. signal' \in Signals /\ signal'.at = "idle"
    <3>1. ASSUME NEW active, signal' = [NoSignal EXCEPT !.answer = Recommended(active)]
          PROVE  signal' \in Signals /\ signal'.at = "idle"
      BY <2>1, <3>1, NoSignalIs DEF Signals
    <3> QED
      BY <1>13, <3>1 DEF Answer
  <2>3. failures' \in Nat /\ failures <= failures'
    BY <1>3, <1>4, <1>13 DEF Answer
  <2> QED
    BY <1>13, <2>2, <2>3 DEF Answer, Reads, RequestGoes
<1> QED
  BY <1>5, <1>6, <1>7, <1>8, <1>9, <1>10, <1>11, <1>12, <1>13 DEF Request

LEMMA SignalStaysTyped ==
  ASSUME TypeOK, DocketTyped, SignalTyped, [SignalNext]_allVars
  PROVE  DocketTyped' /\ SignalTyped'
<1>1. CASE Moves
  BY <1>1, MovesTyped
<1>2. CASE Request
  <2>1. UNCHANGED <<vars, docketVars, config, agent>>
    BY <1>2, RequestIs
  <2>2. DocketTyped'
    BY <2>1 DEF DocketTyped, docketVars, Pushed
  <2>3. /\ signal' \in Signals /\ failures' \in Nat /\ RequestGoes
    BY <1>2, RequestTyped
  <2>4. moved' \subseteq Works
    BY <2>3 DEF RequestGoes, Heads, SignalTyped
  <2>5. (streams => signal'.at \notin ListReads) /\ (~ streams => signal'.at \notin StreamReads)
    BY <2>3 DEF RequestGoes, Heads, SignalTyped, ListReads, StreamReads
  <2> QED
    BY <2>1, <2>2, <2>3, <2>4, <2>5 DEF SignalTyped, docketVars, vars, config
<1>3. CASE UNCHANGED allVars
  BY <1>3 DEF allVars, vars, docketVars, config, signalVars, DocketTyped, SignalTyped, Pushed
<1> QED
  BY <1>1, <1>2, <1>3, StepIs

\* The type invariant of the request and of what it reads.
LEMMA SignalWellFormed == SignalSpec => [](DocketTyped /\ SignalTyped)
<1>1. SignalInit => DocketTyped /\ SignalTyped
  <2> SUFFICES ASSUME SignalInit PROVE DocketTyped /\ SignalTyped
    OBVIOUS
  <2>1. DocketTyped
    BY DEF SignalInit, DocketInit, DocketTyped, Pushed
  <2>2. agent \in [Agents -> AgentRecord]
    BY StartingIs DEF SignalInit
  <2>3. signal \in Signals /\ signal.at = "idle"
    BY NoSignalIs DEF SignalInit
  <2> QED
    BY <2>1, <2>2, <2>3, ScalingConstants DEF SignalTyped, SignalInit, DocketInit, ListReads, StreamReads
<1>2. (TypeOK /\ Shapes) /\ (DocketTyped /\ SignalTyped) /\ [SignalNext]_allVars
        => (DocketTyped /\ SignalTyped)'
  BY SignalStaysTyped
<1> QED
  BY <1>1, <1>2, SignalRunsBoard, WellFormed, PTL DEF SignalSpec

----------------------------------------------------------------------------
(* What keeps its place is not overlooked *)

\* Where a request stands once it has read the backlog, and the inboxes.
AfterBacklog == {"inboxes", "tasks", "agents", "decide"}

AfterInboxes == {"tasks", "agents", "decide"}

\* What is in no list and with no agent at work, was on the move during the request.
MovesAreSeen == signal.at # "idle" => \A t \in Tasks : InTransit(t) => t \in moved

\* A task that waits in a list that was read shows in the number of those queued.
TaskCounted(t) ==
  /\ signal.at \in AfterBacklog /\ backlog[t] > 0 => signal.queued > 0
  /\ signal.at \in AfterInboxes /\ failures = 0 /\ tasks[t].state \notin {"New", "Deleted"}
     => \A a \in Listed : inbox[a][t] > 0 => signal.queued > 0

\* An entry that is pending or unread shows in the numbers that were read.
EntriesCounted ==
  /\ signal.at \in {"lag", "length", "decide"} => pending \subseteq signal.flight \cup moved
  /\ signal.at = "decide" /\ signal.queued = 0 /\ last # NoGroup
     => \A i \in last + 1 .. Len(stream) : stream[i] \in moved

\* The inductive invariant behind ZeroMeansNoWork.
NothingOverlooked ==
  /\ MovesAreSeen
  /\ ~ streams => \A t \in Tasks \ moved : TaskCounted(t)
  /\ streams => EntriesCounted

\* A command without a kind is no command.
NoneIsNoJob == \A a \in Agents : job[a].kind = "none" => job[a] = NoJob

\* Nobody who was pruned comes back.
LEMMA ListedIs ==
  ASSUME TypeOK, OwnJobs, NoneIsNoJob, [Next]_vars
  PROVE  Listed' \subseteq Listed
<1> SUFFICES ASSUME NEW a \in Agents, status[a] = "missing" PROVE status'[a] = "missing"
  BY DEF Listed
<1>1. hand[a] = {} /\ job[a] = NoJob
  BY DEF OwnJobs, OwnOK, NoneIsNoJob
<1>2. ASSUME NEW p \in Procs, JobStep(p) PROVE status' = status
  BY <1>2 DEF JobStep, Get, Set, Put, Find, Pop, Drain, Scan, Pick, End
<1>3. ASSUME NEW c \in Clients, CommandBegins(c) \/ ClientCrash(c) PROVE status' = status
  BY <1>3, CommandIs
<1>4. ASSUME NEW b \in Agents, b # a, AgentStep(b) PROVE status'[a] = status[a]
  BY <1>4, AgentIs
<1>5. ASSUME AgentStep(a) PROVE status'[a] = "missing"
  BY <1>1, <1>5 DEF AgentStep, Receive, Complete, RoundEnds, RoundFails, Stop, Restart, Prune,
                    AgentCrash, TypeOK
<1>6. UNCHANGED vars => status' = status
  BY DEF vars
<1> QED
  BY <1>2, <1>3, <1>4, <1>5, <1>6 DEF Next

LEMMA NoneIs ==
  ASSUME TypeOK, Shapes, OwnJobs, NoneIsNoJob, [Next]_vars
  PROVE  NoneIsNoJob'
<1> SUFFICES ASSUME NEW a \in Agents, job'[a].kind = "none" PROVE job'[a] = NoJob
  BY DEF NoneIsNoJob
<1>1. job[a].kind = "none" => job[a] = NoJob
  BY DEF NoneIsNoJob
<1>2. a \in Procs /\ \A c \in Clients : c # a
  BY TaskBoardConstants DEF Procs
<1>3. job'[a] = job[a] => job'[a] = NoJob
  BY <1>1
<1>4. ASSUME NEW p \in Procs, JobStep(p) PROVE job'[a] = NoJob
  BY <1>2, <1>3, <1>4, JobStepIs DEF OthersStay
<1>5. ASSUME NEW c \in Clients, CommandBegins(c) \/ ClientCrash(c) PROVE job'[a] = NoJob
  BY <1>2, <1>3, <1>5, CommandIs DEF OthersStay
<1>6. ASSUME NEW b \in Agents, b # a, AgentStep(b) PROVE job'[a] = NoJob
  BY <1>2, <1>3, <1>6, AgentIs DEF OthersStay
<1>7. ASSUME AgentStep(a) PROVE job'[a] = NoJob
  <2>1. CASE Receive(a)
    BY <1>3, <2>1, ReceiveAt
  <2>2. ASSUME NEW t \in Tasks, Complete(a, t) PROVE FALSE
    BY <1>2, <2>2, CompleteAt
  <2>3. CASE RoundFails(a)
    BY <1>3, <2>3, RoundFailsAt
  <2>4. CASE AgentCrash(a)
    BY <1>2, <2>4, NoJobIs, OneJob DEF AgentCrash
  <2> QED
    BY <1>3, <1>7, <2>1, <2>2, <2>3, <2>4 DEF AgentStep, RoundEnds, Stop, Restart, Prune, history
<1>8. UNCHANGED vars => job' = job
  BY DEF vars
<1> QED
  BY <1>3, <1>4, <1>5, <1>6, <1>7, <1>8 DEF Next

LEMMA MovesStaySeen ==
  ASSUME TypeOK, DocketTyped, SignalTyped, MovesAreSeen, [SignalNext]_allVars
  PROVE  MovesAreSeen'
<1> SUFFICES ASSUME signal'.at # "idle", NEW t \in Tasks, InTransit(t)' PROVE t \in moved'
  BY DEF MovesAreSeen
<1>1. t \in Works
  BY DEF Works
<1>2. CASE Moves
  BY <1>1, <1>2, MovesIs DEF Stands
<1>3. ASSUME UNCHANGED <<vars, docketVars, config, agent>> PROVE InTransit(t)
  <2>1. UNCHANGED <<hand, status, job, agent>>
    BY <1>3 DEF vars
  <2>2. \A p \in Procs : Carried(p)' = Carried(p)
    BY <2>1, CarriedIs
  <2> QED
    BY <2>1, <2>2 DEF InTransit
<1>4. CASE Request
  <2>1. InTransit(t) /\ RequestGoes
    BY <1>3, <1>4, RequestIs, RequestTyped
  <2> QED
    BY <1>1, <2>1 DEF RequestGoes, Heads, MovesAreSeen
<1>5. CASE UNCHANGED allVars
  BY <1>3, <1>5 DEF allVars, signalVars, MovesAreSeen
<1> QED
  BY <1>2, <1>4, <1>5, StepIs

\* What was counted and keeps its place remains counted.
LEMMA TaskStaysCounted ==
  ASSUME TypeOK, OwnJobs, NoneIsNoJob, DocketTyped, SignalTyped, ~ streams, [SignalNext]_allVars,
         \A t \in Tasks \ moved : TaskCounted(t),
         NEW t \in Tasks \ moved'
  PROVE  TaskCounted(t)'
<1> USE DEF AfterBacklog, AfterInboxes
<1>1. signal \in Signals /\ signal.queued \in Nat /\ failures \in Nat
  BY DEF SignalTyped, Signals
<1>2. CASE Moves
  <2>1. CASE signal.at = "idle"
    BY <1>2, <2>1, MovesIs DEF TaskCounted
  <2>2. CASE signal.at # "idle"
    <3>1. t \in Works
      BY DEF Works
    <3>2. t \notin moved /\ Place(t)' = Place(t)
      BY <1>2, <2>2, <3>1, KeepPlace
    <3>3. /\ backlog'[t] = backlog[t] /\ tasks'[t].state = tasks[t].state
          /\ \A a \in Agents : inbox'[a][t] = inbox[a][t]
      BY <3>2, TaskKeepsPlace
    <3>4. Listed' \subseteq Listed /\ Listed \subseteq Agents
      BY <1>2, MovesIs, ListedIs DEF Listed
    <3>5. signal' = signal /\ failures' = failures
      BY <1>2, <2>2, MovesIs DEF Stands
    <3> QED
      BY <3>2, <3>3, <3>4, <3>5 DEF TaskCounted
  <2> QED
    BY <2>1, <2>2
<1>3. CASE Request
  <2>1. UNCHANGED <<tasks, backlog, inbox, status>>
    BY <1>3, RequestIs DEF vars
  <2>2. Listed' = Listed /\ Listed \subseteq Agents
    BY <2>1 DEF Listed
  <2>3. RequestGoes /\ failures' \in Nat /\ FailuresGrow
    BY <1>3, RequestTyped
  <2>4. signal'.at \in AfterBacklog => moved' = moved
    BY <2>3 DEF RequestGoes, Heads
  <2>5. backlog[t] > 0 => Cardinality(Messages(backlog, Tasks)) > 0
    BY BacklogFinite
  <2>6. tasks[t].state \notin {"New", "Deleted"}
        => \A a \in Listed : inbox[a][t] > 0 => Cardinality(Inboxes) > 0
    BY InboxesSome
  <2>7. Cardinality(Inboxes) \in Nat
    BY InboxesFinite
  <2>8. signal'.at \in AfterBacklog /\ backlog[t] > 0 => signal'.queued > 0
    <3>1. signal.at \in AfterBacklog /\ backlog[t] > 0 /\ signal'.at \in AfterBacklog => signal.queued > 0
      BY <2>4 DEF TaskCounted
    <3> QED
      BY <1>1, <2>3, <2>5, <2>7, <3>1 DEF RequestGoes, Heads, SignalTyped, StreamReads
  <2>9. ASSUME signal'.at \in AfterInboxes, failures' = 0, tasks[t].state \notin {"New", "Deleted"},
               NEW a \in Listed, inbox[a][t] > 0
        PROVE  signal'.queued > 0
    <3>1. signal.at # "idle" => failures = 0
      BY <1>1, <2>3, <2>9 DEF FailuresGrow
    <3>2. signal.at \in AfterInboxes => signal.queued > 0
      BY <2>4, <2>9, <3>1 DEF TaskCounted
    <3>3. Cardinality(Inboxes) > 0
      BY <2>6, <2>9
    <3> QED
      BY <1>1, <2>3, <2>7, <2>9, <3>2, <3>3 DEF RequestGoes, Heads, SignalTyped, StreamReads
  <2> QED
    BY <2>1, <2>2, <2>8, <2>9 DEF TaskCounted
<1>4. CASE UNCHANGED allVars
  BY <1>4 DEF allVars, vars, signalVars, TaskCounted, Listed
<1> QED
  BY <1>2, <1>3, <1>4, StepIs

LEMMA EntriesStayCounted ==
  ASSUME DocketTyped, SignalTyped, streams, [SignalNext]_allVars, TypeOK, EntriesCounted
  PROVE  EntriesCounted'
<1> USE DEF StreamReads, ListReads
<1>1. /\ signal \in Signals /\ signal.queued \in Nat /\ signal.at \notin ListReads
      /\ Len(stream) \in Nat /\ \A i \in 1 .. Len(stream) : stream[i] \in Pushed
      /\ Pushed \subseteq Entries /\ pending \subseteq Pushed
      /\ last = NoGroup \/ last \in 0 .. Len(stream)
  BY PushedIs DEF SignalTyped, Signals, DocketTyped
<1>2. CASE Moves
  <2>2. CASE signal.at = "idle"
    BY <1>2, <2>2, MovesIs DEF EntriesCounted
  <2>3. CASE signal.at # "idle"
    <3>0. signal' = signal
      BY <1>2, <2>3, MovesIs DEF Stands
    <3>1. ASSUME NEW e \in Entries, e \notin moved'
          PROVE  e \notin moved /\ (e \in Pushed' <=> e \in Pushed) /\ (e \in pending' <=> e \in pending)
      BY <1>2, <2>3, <3>1, KeepPlace, EntryKeepsPlace DEF Works
    <3>2. DocketStep \/ UNCHANGED docketVars
      BY <1>2, MovesTyped DEF Moves, World, Board, Stream, RecordStep
    <3>3. DocketTyped'
      BY <1>2, MovesTyped
    <3>4. /\ Len(stream') \in Nat /\ \A i \in 1 .. Len(stream') : stream'[i] \in Pushed'
          /\ Pushed' \subseteq Entries /\ pending' \subseteq Pushed'
          /\ last' = NoGroup \/ last' \in 0 .. Len(stream')
      BY <3>3, PushedIs DEF DocketTyped, Pushed
    <3>5. signal.at \in {"lag", "length", "decide"} => pending' \subseteq signal.flight \cup moved'
      <4> SUFFICES ASSUME signal.at \in {"lag", "length", "decide"}, NEW e \in pending', e \notin moved'
                   PROVE  e \in signal.flight
        OBVIOUS
      <4>1. e \in pending /\ e \notin moved
        BY <3>1, <3>4
      <4> QED
        BY <4>1 DEF EntriesCounted
    <3>6. ASSUME signal.at = "decide", signal.queued = 0, last' # NoGroup,
                 NEW i \in last' + 1 .. Len(stream'), stream'[i] \notin moved'
          PROVE  FALSE
      <4>1. i \in 1 .. Len(stream')
        BY <3>4, <3>6
      <4>2. stream'[i] \in Entries
        BY <3>4, <4>1
      <4>3. stream'[i] \in Pushed /\ stream'[i] \notin moved
        BY <3>1, <3>4, <3>6, <4>1, <4>2
      <4>4. last # NoGroup => \A j \in last + 1 .. Len(stream) : stream[j] \in moved
        BY <3>6 DEF EntriesCounted
      <4>5. CASE UNCHANGED docketVars
        BY <3>6, <4>3, <4>4, <4>5 DEF docketVars
      <4>6. CASE EnsureGroup
        BY <1>1, <3>6, <4>6 DEF EnsureGroup
      <4>7. ASSUME NEW e \in Entries, DocketPush(e) PROVE FALSE
        <5>1. stream' = Append(stream, e) /\ last' = last /\ e \notin Pushed
          BY <4>7 DEF DocketPush
        <5>2. /\ stream \in Seq(Entries) /\ Len(stream') = Len(stream) + 1
              /\ stream'[Len(stream) + 1] = e /\ \A j \in 1 .. Len(stream) : stream'[j] = stream[j]
          BY <5>1 DEF DocketTyped
        <5>3. i # Len(stream) + 1
          BY <4>3, <5>1, <5>2
        <5>4. i \in last + 1 .. Len(stream)
          BY <1>1, <3>6, <5>1, <5>2, <5>3
        <5>5. i \in 1 .. Len(stream)
          BY <1>1, <3>6, <5>1, <5>4
        <5> QED
          BY <3>6, <4>3, <4>4, <5>1, <5>2, <5>4, <5>5
      <4>8. CASE DocketRead
        <5>1. last # NoGroup /\ last' = last + 1 /\ stream' = stream
          BY <4>8 DEF DocketRead
        <5>2. i \in last + 1 .. Len(stream)
          BY <1>1, <3>6, <5>1
        <5> QED
          BY <4>3, <4>4, <5>1, <5>2
      <4>9. ASSUME NEW e \in Entries, DocketAck(e) PROVE FALSE
        BY <3>6, <4>3, <4>4, <4>9 DEF DocketAck
      <4> QED
        BY <3>2, <4>5, <4>6, <4>7, <4>8, <4>9 DEF DocketStep
    <3> QED
      BY <3>0, <3>5, <3>6 DEF EntriesCounted
  <2> QED
    BY <2>2, <2>3
<1>3. CASE Request
  <2>1. RequestGoes /\ UNCHANGED <<docketVars, config>>
    BY <1>3, RequestIs, RequestTyped
  <2>2. CASE signal.at = "idle"
    BY <2>1, <2>2 DEF RequestGoes, Heads, EntriesCounted
  <2>3. CASE Heads("pending", "lag", 0, pending)
    BY <2>1, <2>3 DEF Heads, EntriesCounted, docketVars
  <2>4. CASE Heads("lag", "length", 0, signal.flight)
    BY <2>1, <2>4 DEF Heads, EntriesCounted, docketVars
  <2>5. CASE Heads("lag", "decide", Len(stream) - last, signal.flight) /\ last \in 0 .. Len(stream)
    BY <1>1, <2>1, <2>5 DEF Heads, EntriesCounted, docketVars
  <2>6. CASE Heads("length", "decide", Len(stream), signal.flight)
    <3>1. signal'.queued = 0 /\ last # NoGroup => last + 1 > Len(stream)
      BY <1>1, <2>6 DEF Heads
    <3> QED
      BY <1>1, <2>1, <2>6, <3>1 DEF Heads, EntriesCounted, docketVars
  <2>7. CASE signal'.at = "idle"
    BY <2>7 DEF EntriesCounted
  <2> QED
    BY <1>1, <2>1, <2>2, <2>3, <2>4, <2>5, <2>6, <2>7 DEF RequestGoes, Heads
<1>4. CASE UNCHANGED allVars
  BY <1>4 DEF allVars, signalVars, docketVars, EntriesCounted
<1> QED
  BY <1>2, <1>3, <1>4, StepIs

\* Nothing that keeps its place is overlooked.
LEMMA Overlooks == SignalSpec => [](NoneIsNoJob /\ NothingOverlooked)
<1>1. SignalInit => NoneIsNoJob /\ NothingOverlooked
  <2> SUFFICES ASSUME SignalInit PROVE NoneIsNoJob /\ NothingOverlooked
    OBVIOUS
  <2>1. NoneIsNoJob
    BY DEF SignalInit, Init, NoneIsNoJob, Procs
  <2>2. signal.at = "idle"
    BY NoSignalIs DEF SignalInit
  <2> QED
    BY <2>1, <2>2 DEF NothingOverlooked, MovesAreSeen, TaskCounted, EntriesCounted, AfterBacklog,
                      AfterInboxes
<1>2. (TypeOK /\ Shapes) /\ (OwnJobs /\ Orphans) /\ (DocketTyped /\ SignalTyped)
        /\ (NoneIsNoJob /\ NothingOverlooked) /\ [SignalNext]_allVars
      => (NoneIsNoJob /\ NothingOverlooked)'
  <2> SUFFICES ASSUME TypeOK, Shapes, OwnJobs, Orphans, DocketTyped, SignalTyped, NoneIsNoJob,
                      NothingOverlooked, [SignalNext]_allVars
               PROVE  NoneIsNoJob' /\ NothingOverlooked'
    OBVIOUS
  <2>1. NoneIsNoJob'
    BY NoneIs, BoardStep
  <2>2. MovesAreSeen'
    BY MovesStaySeen DEF NothingOverlooked
  <2>3. streams' = streams
    BY StepIs, MovesIs, RequestIs DEF config, allVars
  <2>4. ~ streams => \A t \in Tasks \ moved' : TaskCounted(t)'
    BY TaskStaysCounted DEF NothingOverlooked
  <2>5. streams => EntriesCounted'
    BY EntriesStayCounted DEF NothingOverlooked
  <2> QED
    BY <2>1, <2>2, <2>3, <2>4, <2>5 DEF NothingOverlooked
<1> QED
  BY <1>1, <1>2, SignalRunsBoard, WellFormed, Commands, SignalWellFormed, PTL DEF SignalSpec

\* An answer that comes of reads that did not fail.
LEMMA AnswerIs ==
  ASSUME SignalTyped, [SignalNext]_allVars, Answered
  PROVE  /\ failures' > 0 \/ (failures' = failures /\ signal'.answer = Recommended(Active))
         /\ failures' \in Nat /\ failures <= failures'
<1>1. Answer
  BY StepIs, MovesIs DEF Answered, allVars, signalVars, Request, Ask, BacklogLen, ListPending, ListTasks,
     CountInFlight, PendingCount, Unread, Length, Reads
<1>2. failures \in Nat
  BY DEF SignalTyped
<1>3. CASE Fails
  BY <1>2, <1>3 DEF Fails
<1>4. CASE signal' = [NoSignal EXCEPT !.answer = Recommended(Active)] /\ UNCHANGED failures
  BY <1>2, <1>4 DEF NoSignal
<1> QED
  BY <1>1, <1>3, <1>4 DEF Answer

\* The answer to scale to zero, where no read has failed.
LEMMA ZeroIs ==
  ASSUME TypeOK, DocketTyped, SignalTyped, NothingOverlooked, [SignalNext]_allVars,
         Answered, signal'.answer = "ScaleToZero", failures' = 0, NEW w \in Works \ moved, IsWork(w)
  PROVE  streams /\ w \in Tasks /\ ~ InHand(w)
<1>1. signal.at = "decide" /\ failures = 0 /\ signal'.answer = Recommended(Active)
  BY AnswerIs DEF Answered, SignalTyped
<1>2. signal.queued = 0 /\ signal.flight = {} /\ AllIdle(Active)
  BY <1>1 DEF Recommended
<1>3. \A a \in Agents : agent[a].state = "Working" => a \notin Active
  BY <1>2 DEF AllIdle
<1>4. CASE w \in Tasks
  <2>1. tasks[w].state \notin {"New", "Deleted"} /\ (Queued(w) \/ InHand(w))
    BY <1>4 DEF IsWork, Open
  <2>2. ~ InHand(w)
    BY <1>1, <1>3, <1>4 DEF NothingOverlooked, MovesAreSeen, InTransit, InHand, Active
  <2>3. ASSUME ~ streams PROVE FALSE
    <3>1. TaskCounted(w)
      BY <1>4, <2>3 DEF NothingOverlooked
    <3> QED
      BY <1>1, <1>2, <2>1, <2>2, <3>1 DEF TaskCounted, AfterBacklog, AfterInboxes, Queued
  <2> QED
    BY <1>4, <2>2, <2>3 DEF SignalTyped
<1>5. CASE w \notin Tasks
  <2>1. Undone(w)
    BY <1>5 DEF IsWork
  <2>2. streams
    BY <2>1 DEF SignalTyped, Undone
  <2> QED
    BY <1>1, <1>2, <2>1, <2>2 DEF NothingOverlooked, EntriesCounted, Undone
<1> QED
  BY <1>4, <1>5

\* Wherever tasks and entries are and go: a town is told to scale to zero only if no open
\* work has kept its place since the request came in, or a read has failed. In a town that
\* uses streams this holds of the docket and of what agents have in hand.
THEOREM ZeroMeansNoWork == SignalSpec => ZeroOnlyWithoutWork
<1>1. (TypeOK /\ Shapes) /\ (DocketTyped /\ SignalTyped) /\ (NoneIsNoJob /\ NothingOverlooked)
        /\ [SignalNext]_allVars
      => [Answered /\ signal'.answer = "ScaleToZero" =>
            \/ failures' > 0
            \/ \A w \in Works \ moved :
                 IsWork(w) => streams /\ w \in Tasks /\ ~ InHand(w)]_allVars
  <2> SUFFICES ASSUME TypeOK, DocketTyped, SignalTyped, NothingOverlooked, [SignalNext]_allVars,
                      Answered, signal'.answer = "ScaleToZero", ~ (failures' > 0),
                      NEW w \in Works \ moved, IsWork(w)
               PROVE  streams /\ w \in Tasks /\ ~ InHand(w)
    OBVIOUS
  <2>1. failures' = 0
    BY AnswerIs
  <2> QED
    BY <2>1, ZeroIs
<1> QED
  BY <1>1, SignalRunsBoard, WellFormed, SignalWellFormed, Overlooks, PTL
     DEF SignalSpec, ZeroOnlyWithoutWork

----------------------------------------------------------------------------
(* What the board says of tasks that are gone, and of rounds that fail *)

\* It is in no list, not even of an agent that was pruned, and with nobody.
Gone(t) == \A k \in PlaceKinds, w \in Holders : ~ Holds(t, k, w)

LEMMA GoneIs ==
  ASSUME TypeOK, NEW t \in Tasks
  PROVE  Gone(t) <=> /\ backlog[t] = 0
                     /\ \A a \in Agents : inbox[a][t] = 0 /\ t \notin hand[a]
                     /\ \A p \in Procs : t \notin Carried(p)
<1>1. backlog[t] \in Nat /\ \A a \in Agents : inbox[a][t] \in Nat
  BY DEF TypeOK
<1>2. NoAgent \in Holders /\ Agents \subseteq Holders /\ Procs \subseteq Holders
  BY DEF Holders, Procs
<1> QED
  BY <1>1, <1>2 DEF Gone, Holds, PlaceKinds

\* Where somebody else takes it, it was somewhere; so who is gone stays away.
LEMMA GoneStays ==
  ASSUME TypeOK, TypeOK', Shapes, OwnJobs, Orphans, [Next]_vars,
         NEW t \in Tasks \ orphaned, Gone(t), tasks[t].state # "New"
  PROVE  Gone(t)'
<1>1. \A k \in PlaceKinds : ~ Travels(t, k)
  BY DEF Travels, Gone
<1>2. \A c \in Clients : ~ Born(t, c)
  BY DEF Born, Fresh
<1>3. Fewer(t)
  BY <1>1, <1>2, JobStepMoves, CommandMoves, AgentMoves, Alike DEF Next, PlaceKinds
<1>4. backlog'[t] \in Nat /\ \A a \in Agents : inbox'[a][t] \in Nat
  BY DEF TypeOK
<1>5. /\ backlog[t] = 0
      /\ \A a \in Agents : inbox[a][t] = 0 /\ t \notin hand[a]
      /\ \A p \in Procs : t \notin Carried(p)
  BY GoneIs
<1>6. /\ backlog'[t] = 0
      /\ \A a \in Agents : inbox'[a][t] = 0 /\ t \notin hand'[a]
      /\ \A p \in Procs : t \notin Carried(p)'
  BY <1>3, <1>4, <1>5 DEF Fewer
<1> QED
  BY <1>6 DEF Gone, Holds

\* A task that is where only one can have it, is gone when that one gives it up.
LEMMA GivenUp ==
  ASSUME TypeOK, TypeOK', Alone, NEW t \in Tasks \ orphaned,
         NEW k \in PlaceKinds, NEW w, Holds(t, k, w), Fewer(t), ~ Holds(t, k, w)'
  PROVE  Gone(t)'
<1>1. PICK k1 \in PlaceKinds, w1 \in Holders : OnlyAt(t, k1, w1)
  BY DEF Alone, AloneOK
<1>2. k1 = k /\ w1 = w
  BY <1>1 DEF OnlyAt, Holds
<1>3. OnlyAt(t, k, w)'
  BY <1>1, <1>2, FewerStays
<1>4. backlog'[t] \in Nat /\ \A a \in Agents : inbox'[a][t] \in Nat
  BY DEF TypeOK
<1> QED
  BY <1>3, <1>4 DEF Gone, Holds, OnlyAt

\* A deleted task is not worked on, but for orphans that were deleted.
RemovedOK(t) == t \notin orphaned /\ tasks[t].state = "Deleted" => Gone(t)

Removed == \A t \in Tasks : RemovedOK(t)

LEMMA RemovedStays ==
  ASSUME TypeOK, TypeOK', Shapes, OwnJobs, Orphans, Alone, Removed, [Next]_vars
  PROVE  Removed'
<1> SUFFICES ASSUME NEW t \in Tasks, t \notin orphaned', tasks'[t].state = "Deleted"
             PROVE  Gone(t)'
  BY DEF Removed, RemovedOK
<1>1. t \notin orphaned
  BY RecordsKept
<1>2. CASE tasks'[t] = tasks[t]
  BY <1>1, <1>2, GoneStays DEF Removed, RemovedOK
<1>3. ASSUME NEW p \in Procs, job[p].task = t, Set(p), tasks'[t] = job[p].draft PROVE FALSE
  BY <1>3 DEF Set, Shapes, ShapeOK, DraftOK, Open
<1>4. ASSUME NEW p \in Procs, job[p].task = t, Put(p), job[p].kind \in {"remove", "delete"}
      PROVE  Gone(t)'
  <2>1. job[p].kind = "remove"
    BY <1>1, <1>4 DEF Put, Orphans, OrphanOK, OrphanActions
  <2>2. /\ OthersCarry(p) /\ Carried(p)' = Carried(p) \ {t} /\ t \in Carried(p)
        /\ UNCHANGED <<backlog, inbox, hand>>
    BY <1>4, <2>1, PutCarries DEF Put
  <2>3. Holds(t, "command", p) /\ ~ Holds(t, "command", p)'
    BY <2>2 DEF Holds
  <2>4. Fewer(t)
    BY <2>2 DEF Fewer, OthersCarry, TypeOK
  <2> QED
    BY <1>1, <2>3, <2>4, GivenUp DEF PlaceKinds
<1> QED
  BY <1>2, <1>3, <1>4, RecordsKept

LEMMA HandTask ==
  ASSUME TypeOK, News, Removed, NEW t \in Tasks \ orphaned, NEW a \in Agents, t \in hand[a],
         tasks[t].state \notin Open
  PROVE  tasks[t].state \in Finished
<1>1. tasks[t].state \in TaskState
  BY DEF TypeOK, TaskRecord
<1>2. tasks[t].state # "New"
  BY DEF News, NewOK
<1>3. tasks[t].state # "Deleted"
  BY GoneIs DEF Removed, RemovedOK
<1> QED
  BY <1>1, <1>2, <1>3 DEF TaskState, Open, Finished

\* Who changes what an agent has in hand.
LEMMA HandChanges ==
  ASSUME TypeOK, Shapes, OwnJobs, [Next]_vars, NEW a \in Agents, hand'[a] # hand[a]
  PROVE  Receive(a) \/ RoundEnds(a) \/ RoundFails(a) \/ AgentCrash(a)
<1>1. ASSUME NEW p \in Procs, JobStep(p) PROVE FALSE
  BY <1>1, JobStepIs
<1>2. ASSUME NEW c \in Clients, CommandBegins(c) \/ ClientCrash(c) PROVE FALSE
  BY <1>2, CommandIs
<1>3. ASSUME NEW b \in Agents, AgentStep(b) PROVE b = a
  BY <1>3, AgentIs
<1>4. ASSUME AgentStep(a) PROVE Receive(a) \/ RoundEnds(a) \/ RoundFails(a) \/ AgentCrash(a)
  BY <1>4 DEF AgentStep, Complete, Stop, Restart, Prune
<1>5. ~ UNCHANGED vars
  BY DEF vars
<1> QED
  BY <1>1, <1>2, <1>3, <1>4, <1>5 DEF Next

\* An agent that gives a task back has nothing in hand meanwhile.
GivesBack == \A a \in Agents : job[a].kind = "giveback" => hand[a] = {}

LEMMA GivesBackStays ==
  ASSUME TypeOK, Shapes, OwnJobs, GivesBack, [Next]_vars
  PROVE  GivesBack'
<1> SUFFICES ASSUME NEW a \in Agents, job'[a].kind = "giveback" PROVE hand'[a] = {}
  BY DEF GivesBack
<1>1. a \in Procs /\ a \notin Clients
  BY TaskBoardConstants DEF Procs
<1>2. job[a].kind = "giveback" \/ RoundFails(a)
  <2>1. job'[a] = job[a] => job[a].kind = "giveback"
    OBVIOUS
  <2>2. ASSUME NEW p \in Procs, JobStep(p) PROVE job[a].kind = "giveback"
    BY <1>1, <2>1, <2>2, JobStepIs, NoJobIs DEF OthersStay
  <2>3. ASSUME NEW c \in Clients, CommandBegins(c) \/ ClientCrash(c) PROVE job[a].kind = "giveback"
    BY <1>1, <2>1, <2>3, CommandIs DEF OthersStay
  <2>4. ASSUME NEW b \in Agents, b # a, AgentStep(b) PROVE job[a].kind = "giveback"
    BY <1>1, <2>1, <2>4, AgentIs DEF OthersStay
  <2>5. ASSUME AgentStep(a) PROVE job[a].kind = "giveback" \/ RoundFails(a)
    <3>1. CASE Receive(a)
      BY <2>1, <3>1, ReceiveAt
    <3>2. ASSUME NEW t \in Tasks, Complete(a, t) PROVE FALSE
      BY <1>1, <3>2, CompleteAt
    <3>3. CASE AgentCrash(a)
      BY <1>1, <3>3, NoJobIs, OneJob DEF AgentCrash
    <3> QED
      BY <2>1, <2>5, <3>1, <3>2, <3>3 DEF AgentStep, RoundEnds, Stop, Restart, Prune, history
  <2>6. UNCHANGED vars => job[a].kind = "giveback"
    BY DEF vars
  <2> QED
    BY <2>2, <2>3, <2>4, <2>5, <2>6 DEF Next
<1>3. RoundFails(a) => hand'[a] = {}
  BY DEF RoundFails, TypeOK
<1>4. ASSUME job[a].kind = "giveback", hand'[a] # hand[a] PROVE hand'[a] = {}
  <2>1. job[a] # NoJob
    BY <1>4, NoJobIs
  <2> QED
    BY <1>4, <2>1, HandChanges DEF Receive, RoundEnds, RoundFails, AgentCrash, TypeOK
<1> QED
  BY <1>2, <1>3, <1>4 DEF GivesBack

\* As long as it lives, it goes on to give the task back.
LEMMA GivingBack ==
  ASSUME TypeOK, Shapes, OwnJobs, [Next]_vars, NEW a \in Agents, job[a].kind = "giveback",
         status[a] = "live", status'[a] = "live"
  PROVE  job'[a].kind = "giveback" \/ job'[a] = NoJob
<1>1. a \in Procs /\ a \notin Clients /\ job[a] # NoJob
  BY TaskBoardConstants, NoJobIs DEF Procs
<1>2. ASSUME NEW p \in Procs, JobStep(p) PROVE job'[a].kind = "giveback" \/ job'[a] = NoJob
  BY <1>1, <1>2, JobStepIs DEF OthersStay
<1>3. ASSUME NEW c \in Clients, CommandBegins(c) \/ ClientCrash(c) PROVE job'[a] = job[a]
  BY <1>1, <1>3, CommandIs DEF OthersStay
<1>4. ASSUME NEW b \in Agents, b # a, AgentStep(b) PROVE job'[a] = job[a]
  BY <1>1, <1>4, AgentIs DEF OthersStay
<1>5. ASSUME AgentStep(a) PROVE job'[a] = NoJob
  BY <1>1, <1>5 DEF AgentStep, Receive, Complete, RoundEnds, RoundFails, Stop, Restart, Prune,
                    AgentCrash, Begin, TypeOK
<1>6. UNCHANGED vars => job'[a] = job[a]
  BY DEF vars
<1> QED
  BY <1>2, <1>3, <1>4, <1>5, <1>6 DEF Next

\* What was lost and is gone, nobody finds.
LEMMA LostStays ==
  ASSUME TypeOK, Shapes, OwnJobs, Orphans, [Next]_vars, NEW t \in Tasks \ orphaned, t \in lost, Gone(t)
  PROVE  t \in lost'
<1>1. \A p \in Procs : t \notin Carried(p)
  BY GoneIs
<1>2. ASSUME NEW p \in Procs, Put(p) PROVE t \in lost'
  <2>1. job[p].kind \notin {"delete", "complete"} => job[p].task # t
    BY <1>1, <1>2, PutCarries
  <2>2. job[p].kind \in {"delete", "complete"} => lost' = lost
    BY <1>2 DEF Put
  <2> QED
    BY <1>2, <2>1, <2>2 DEF Put
<1>3. ASSUME NEW p \in Procs, JobStep(p), ~ Put(p) PROVE t \in lost'
  BY <1>3 DEF JobStep, Get, Set, Find, Pop, Drain, Scan, Pick, End, history
<1>4. ASSUME NEW c \in Clients, CommandBegins(c) \/ ClientCrash(c) PROVE t \in lost'
  BY <1>4 DEF CommandBegins, ClientCrash, Add, Assign, Claim, Remove, Complete, AssignAll, Reclaim,
              history
<1>5. ASSUME NEW a \in Agents, AgentStep(a) PROVE t \in lost'
  BY <1>5 DEF AgentStep, Receive, Complete, RoundEnds, RoundFails, Stop, Restart, Prune,
              AgentCrash, history
<1>6. UNCHANGED vars => lost' = lost
  BY DEF vars, history
<1> QED
  BY <1>2, <1>3, <1>4, <1>5, <1>6 DEF Next

LEMMA BoardSettles == Spec => [](Removed /\ GivesBack)
<1>1. Init => Removed /\ GivesBack
  BY NoJobIs DEF Init, Removed, RemovedOK, GivesBack, Procs
<1>2. (TypeOK /\ Shapes) /\ (TypeOK /\ Shapes)' /\ (OwnJobs /\ Orphans) /\ (News /\ Alone)
        /\ (Removed /\ GivesBack) /\ [Next]_vars
      => (Removed /\ GivesBack)'
  BY RemovedStays, GivesBackStays
<1> QED
  BY <1>1, <1>2, WellFormed, Commands, OnePlace, PTL DEF Spec

----------------------------------------------------------------------------
(* What an agent's record says of its task *)

\* An agent at work on one task names it, unless it has finished it.
WorkNamed(a, t) ==
  status[a] = "live" /\ agent[a].state = "Working" /\ hand[a] = {t}
    => agent[a].current = t \/ tasks[t].state \in Finished

\* A task that an agent names is in its hand, on its way back, lost, or just finished.
NameMeant(a, t) ==
  status[a] = "live" /\ agent[a].current = t =>
    \/ hand[a] = {t}
    \/ job[a].kind = "giveback"
    \/ t \in lost /\ Gone(t) /\ tasks[t].state # "New"
    \/ tasks[t].state \in Finished /\ agent[a].state = "Working" /\ Gone(t)

\* Where a task was completed before its agent came to it, the agent may do without its name.
RecordOK(a, t) ==
  t \notin Astray => NameMeant(a, t) /\ (t \notin elsewhere => WorkNamed(a, t))

RecordsMeant == \A a \in Agents, t \in Tasks : RecordOK(a, t)

\* Who goes on to clear an agent's record, has completed the task it names.
Completing(p, t) == job[p].kind = "complete" /\ job[p].at = "put" /\ job[p].task = t

Completions ==
  \A p \in Procs, t \in Tasks \ (Astray \cup elsewhere) :
    Completing(p, t) => tasks[t].state \in Finished

LEMMA AstrayGrows ==
  ASSUME TypeOK, Shapes, OwnJobs, [Next]_vars, NEW t \in Tasks
  PROVE  Astray \subseteq Astray' /\ elsewhere \subseteq elsewhere'
BY RecordsKept DEF Astray

\* A completion comes to its last step by the one that writes the record.
LEMMA CompletionIs ==
  ASSUME TypeOK, Shapes, OwnJobs, [Next]_vars, NEW p \in Procs, NEW t \in Tasks, Completing(p, t)'
  PROVE  Completing(p, t) \/ (Set(p) /\ job[p].kind = "complete" /\ job[p].task = t)
<1> USE DEF Completing
<1>1. CASE job'[p] = job[p]
  BY <1>1
<1>2. ASSUME NEW q \in Procs, q # p, JobStep(q) PROVE job'[p] = job[p]
  BY <1>2, JobStepIs DEF OthersStay
<1>3. ASSUME JobStep(p)
      PROVE  Completing(p, t) \/ (Set(p) /\ job[p].kind = "complete" /\ job[p].task = t)
  <2>1. job[p].kind = "complete" /\ job[p].at # "next" /\ job[p].task = t
    BY <1>3, JobStepIs, NoJobIs DEF Reclaims, OrphanActions
  <2>2. ~ Get(p) /\ ~ Put(p) /\ ~ Find(p)
    BY <2>1, GetAt, PutAt, FindAt
  <2> QED
    BY <1>3, <2>1, <2>2 DEF JobStep, Pop, Drain, Scan, Pick, End, OrphanActions
<1>4. ASSUME NEW c \in Clients, CommandBegins(c) \/ ClientCrash(c) PROVE job'[p] = job[p]
  BY <1>4, CommandIs DEF OthersStay
<1>5. ASSUME NEW a \in Agents, a # p, AgentStep(a) PROVE job'[p] = job[p]
  BY <1>5, AgentIs DEF OthersStay
<1>6. ASSUME p \in Agents, AgentStep(p) PROVE job'[p] = job[p]
  <2>1. CASE Receive(p)
    BY <1>6, <2>1, ReceiveAt
  <2>2. ASSUME NEW u \in Tasks, Complete(p, u) PROVE FALSE
    BY <2>2, CompleteAt
  <2>3. CASE RoundFails(p)
    BY <1>6, <2>3, RoundFailsAt
  <2>4. CASE AgentCrash(p)
    <3>1. job' = [job EXCEPT ![p] = NoJob]
      BY <2>4 DEF AgentCrash
    <3>2. job'[p] = NoJob
      BY <3>1 DEF TypeOK
    <3> QED
      BY <3>2, NoJobIs
  <2> QED
    BY <1>6, <2>1, <2>2, <2>3, <2>4 DEF AgentStep, RoundEnds, Stop, Restart, Prune
<1>7. UNCHANGED vars => job' = job
  BY DEF vars
<1> QED
  BY <1>1, <1>2, <1>3, <1>4, <1>5, <1>6, <1>7 DEF Next

LEMMA CompletionsStay ==
  ASSUME TypeOK, Shapes, OwnJobs, Orphans, Over, Completions, [Next]_vars
  PROVE  Completions'
<1> SUFFICES ASSUME NEW p \in Procs, NEW t \in Tasks, t \notin Astray', t \notin elsewhere',
                    Completing(p, t)'
             PROVE  tasks'[t].state \in Finished
  BY DEF Completions
<1>1. t \notin Astray /\ t \notin elsewhere
  BY AstrayGrows
<1>2. CASE Completing(p, t)
  BY <1>1, <1>2, WritesOver DEF Completions, Astray
<1>3. CASE Set(p) /\ job[p].kind = "complete" /\ job[p].task = t
  BY <1>3 DEF Set, Shapes, ShapeOK, DraftOK, Finished, TypeOK
<1> QED
  BY <1>2, <1>3, CompletionIs

LEMMA CompletionsKept == Spec => []Completions
<1>1. Init => Completions
  BY NoJobIs DEF Init, Completions, Completing, Procs
<1>2. (TypeOK /\ Shapes) /\ (OwnJobs /\ Orphans) /\ Over /\ Completions /\ [Next]_vars => Completions'
  BY CompletionsStay
<1> QED
  BY <1>1, <1>2, WellFormed, Commands, FinishedIsOver, PTL DEF Spec

\* What is finished and gone, nobody opens again.
LEMMA GoneIsOver ==
  ASSUME TypeOK, Shapes, OwnJobs, Orphans, [Next]_vars, NEW t \in Tasks \ Astray', Gone(t),
         tasks[t].state \in Finished
  PROVE  tasks'[t].state \in Finished
<1>1. t \notin orphaned /\ t \notin reopened' /\ \A p \in Procs : t \notin Carried(p)
  BY RecordsKept, GoneIs DEF Astray
<1>2. CASE tasks'[t] = tasks[t]
  BY <1>2
<1>3. ASSUME NEW p \in Procs, job[p].task = t, Set(p), tasks'[t] = job[p].draft
      PROVE  tasks'[t].state \in Finished
  <2>1. ShapeOK(job[p]) /\ job[p].at = "set" /\ t # NoTask
    BY <1>3, TaskBoardConstants DEF Set, Shapes
  <2>2. job[p].kind \notin TaskKinds
    BY <1>1, <1>3, <2>1, CarriedIs DEF CarriedBy, TaskKinds, Reclaims
  <2>3. job[p].kind # "start"
    BY <1>3, <2>1, GoneIs DEF OwnJobs, OwnOK, Procs
  <2>4. job[p].kind # "giveback"
    BY <1>1, <1>3 DEF Set, Finished
  <2>5. job[p].kind \in {"complete", "cancel"}
    BY <2>1, <2>2, <2>3, <2>4 DEF ShapeOK, StepOK, Own
  <2> QED
    BY <1>3, <2>1, <2>5 DEF ShapeOK, DraftOK, Finished
<1>4. ASSUME NEW p \in Procs, job[p].task = t, Put(p), job[p].kind \in {"remove", "delete"}
      PROVE  FALSE
  <2>1. job[p].kind = "remove"
    BY <1>1, <1>4 DEF Put, Orphans, OrphanOK, OrphanActions
  <2> QED
    BY <1>1, <1>4, <2>1, PutCarries
<1> QED
  BY <1>2, <1>3, <1>4, RecordsKept

\* An agent that comes back has nothing to go on with.
LEMMA ComesBack ==
  ASSUME TypeOK, Shapes, OwnJobs, [Next]_vars, NEW a \in Agents, status[a] # "live", status'[a] = "live"
  PROVE  job[a] = NoJob
<1>1. ASSUME NEW p \in Procs, JobStep(p) PROVE FALSE
  BY <1>1, JobStepIs
<1>2. ASSUME NEW c \in Clients, CommandBegins(c) \/ ClientCrash(c) PROVE FALSE
  BY <1>2, CommandIs
<1>3. ASSUME NEW b \in Agents, AgentStep(b) PROVE b = a
  BY <1>3, AgentIs
<1>4. ASSUME AgentStep(a) PROVE job[a] = NoJob
  BY <1>4 DEF AgentStep, Receive, Complete, RoundEnds, RoundFails, Stop, Restart, Prune, AgentCrash,
              TypeOK
<1>5. ~ UNCHANGED vars
  BY DEF vars
<1> QED
  BY <1>1, <1>2, <1>3, <1>4, <1>5 DEF Next

\* The record of an agent at the end of a step of the board.
LEMMA AfterBoard ==
  ASSUME TypeOK, Shapes, OwnJobs, SignalTyped, Board, NEW a \in Agents, NEW t \in Tasks, status'[a] = "live",
         agent'[a].current = t \/ agent'[a].state = "Working"
  PROVE  /\ status[a] = "live" /\ agent'[a].state = agent[a].state
         /\ \/ agent'[a] = agent[a]
            \/ /\ agent'[a].current = NoTask
               /\ job[a].kind = "giveback" \/ \E p \in Procs : Completing(p, agent[a].current)
         /\ job[a].kind = "giveback" /\ job'[a] = NoJob => agent'[a].current = NoTask
<1>1. agent'[a] = RecordAfter(a)
  BY DEF Board
<1>2. t # NoTask /\ agent[a] \in AgentRecord
  BY TaskBoardConstants DEF SignalTyped
<1>3. status[a] = "live"
  <2> SUFFICES ASSUME status[a] # "live" PROVE FALSE
    OBVIOUS
  <2>1. RecordAfter(a) = Starting
    BY DEF RecordAfter
  <2> QED
    BY <1>1, <1>2, <2>1 DEF Starting
<1>4. [agent[a] EXCEPT !.current = NoTask].current = NoTask
      /\ [agent[a] EXCEPT !.current = NoTask].state = agent[a].state
  BY <1>2 DEF AgentRecord
<1>5. Cleared(a) => \E p \in Procs : Completing(p, agent[a].current)
  BY DEF Cleared, Completing
<1> QED
  BY <1>1, <1>3, <1>4, <1>5 DEF RecordAfter

LEMMA BoardNames ==
  ASSUME TypeOK, TypeOK', Shapes, OwnJobs, Orphans, News, Alone, Over, Removed, GivesBack,
         Completions, SignalTyped, Board, NEW a \in Agents,
         NEW t \in Tasks, t \notin Astray', t \notin elsewhere', RecordOK(a, t)
  PROVE  WorkNamed(a, t)'
<1> SUFFICES ASSUME status'[a] = "live", agent'[a].state = "Working", hand'[a] = {t}
             PROVE  agent'[a].current = t \/ tasks'[t].state \in Finished
  BY DEF WorkNamed
<1>1. Next /\ InOrder(a) /\ t \notin Astray /\ t \notin elsewhere
  BY AstrayGrows DEF Board
<1>2. /\ status[a] = "live" /\ agent[a].state = "Working"
      /\ \/ agent'[a] = agent[a]
         \/ job[a].kind = "giveback" \/ \E p \in Procs : Completing(p, agent[a].current)
  BY AfterBoard
<1>3. hand[a] = {t}
  <2> SUFFICES ASSUME hand'[a] # hand[a] PROVE FALSE
    OBVIOUS
  <2>1. hand[a] # {} \/ job[a] # NoJob
    <3>1. status'[a] = status[a]
      BY <1>2
    <3> QED
      BY <1>1, <1>2, <3>1 DEF InOrder
  <2> QED
    BY <1>1, <2>1, HandChanges DEF Receive, RoundEnds, RoundFails, AgentCrash, TypeOK
<1>4. agent[a].current = t \/ tasks[t].state \in Finished
  BY <1>1, <1>2, <1>3 DEF RecordOK, WorkNamed
<1>5. tasks[t].state \in Finished => tasks'[t].state \in Finished
  BY <1>1, WritesOver DEF Astray
<1>6. ASSUME agent[a].current = t, NEW p \in Procs, Completing(p, t) PROVE tasks[t].state \in Finished
  BY <1>1, <1>6 DEF Completions
<1>7. job[a].kind # "giveback"
  BY <1>3 DEF GivesBack
<1> QED
  BY <1>2, <1>4, <1>5, <1>6, <1>7

LEMMA BoardMeans ==
  ASSUME TypeOK, TypeOK', Shapes, OwnJobs, Orphans, News, Alone, Over, Removed, GivesBack,
         SignalTyped, Board, NEW a \in Agents, NEW t \in Tasks \ Astray', RecordOK(a, t)
  PROVE  NameMeant(a, t)'
<1> SUFFICES ASSUME status'[a] = "live", agent'[a].current = t
             PROVE  \/ hand'[a] = {t}
                    \/ job'[a].kind = "giveback"
                    \/ t \in lost' /\ Gone(t)' /\ tasks'[t].state # "New"
                    \/ tasks'[t].state \in Finished /\ agent'[a].state = "Working" /\ Gone(t)'
  BY DEF NameMeant
<1>1. Next /\ InOrder(a) /\ t \notin Astray /\ t # NoTask
  BY AstrayGrows, TaskBoardConstants DEF Board
<1>2. /\ status[a] = "live" /\ agent'[a] = agent[a]
      /\ job[a].kind = "giveback" /\ job'[a] = NoJob => agent'[a].current = NoTask
  BY <1>1, AfterBoard
<1>4. CASE hand[a] = {t}
  <2> SUFFICES ASSUME hand'[a] # hand[a]
               PROVE  \/ job'[a].kind = "giveback"
                      \/ t \in lost' /\ Gone(t)' /\ tasks'[t].state # "New"
                      \/ tasks'[t].state \in Finished /\ agent'[a].state = "Working" /\ Gone(t)'
    BY <1>4
  <2>1. RoundEnds(a) \/ RoundFails(a)
    BY <1>1, <1>4, HandChanges DEF Receive, AgentCrash, TypeOK
  <2>2. status'[a] = status[a]
    BY <2>1 DEF RoundEnds, RoundFails
  <2>3. agent[a].state = "Working"
    BY <1>1, <1>4, <2>2 DEF InOrder
  <2>4. CASE RoundEnds(a)
    <3>1. hand'[a] = {} /\ UNCHANGED <<tasks, backlog, inbox, job>>
          /\ \A b \in Agents \ {a} : hand'[b] = hand[b]
      BY <2>4 DEF RoundEnds, TypeOK
    <3>2. Gone(t)'
      <4>1. \A p \in Procs : Carried(p)' = Carried(p)
        BY <3>1, CarriedIs
      <4>2. Fewer(t)
        BY <3>1, <4>1 DEF Fewer, TypeOK
      <4>3. Holds(t, "hand", a) /\ ~ Holds(t, "hand", a)'
        BY <1>4, <3>1 DEF Holds
      <4> QED
        BY <1>1, <4>2, <4>3, GivenUp DEF PlaceKinds, Astray
    <3>3. CASE tasks[t].state \in Open
      <4>1. t \in lost'
        BY <1>4, <2>4, <3>3 DEF RoundEnds
      <4> QED
        BY <3>1, <3>2, <3>3, <4>1 DEF Open
    <3>4. CASE tasks[t].state \notin Open
      BY <1>1, <1>2, <1>4, <2>3, <3>1, <3>2, <3>4, HandTask DEF Astray
    <3> QED
      BY <3>3, <3>4
  <2>5. CASE RoundFails(a)
    <3>1. Cardinality(hand[a]) = 1
      BY <1>4, FS_Singleton
    <3>2. PICK u \in hand[a] : Begin(a, NewJob("giveback", a, {}, u, "get"))
      BY <2>5, <3>1 DEF RoundFails
    <3>3. "giveback" \in Kinds /\ a \in Procs /\ u \in Tasks
      BY DEF Kinds, Procs, TypeOK
    <3> QED
      BY <3>2, <3>3, BeginsNew
  <2> QED
    BY <2>1, <2>4, <2>5
<1>5. CASE job[a].kind = "giveback"
  BY <1>1, <1>2, <1>5, GivingBack, NoJobIs
<1>6. CASE t \in lost /\ Gone(t) /\ tasks[t].state # "New"
  <2>1. t \notin orphaned
    BY <1>1 DEF Astray
  <2>2. tasks'[t].state # "New"
    BY <1>1, <1>6, StaysNew
  <2> QED
    BY <1>1, <1>6, <2>1, <2>2, GoneStays, LostStays
<1>7. CASE tasks[t].state \in Finished /\ agent[a].state = "Working" /\ Gone(t)
  <2>1. t \notin orphaned /\ tasks[t].state # "New"
    BY <1>1, <1>7 DEF Astray, Finished
  <2> QED
    BY <1>1, <1>2, <1>7, <2>1, GoneIsOver, GoneStays
<1> QED
  BY <1>1, <1>2, <1>4, <1>5, <1>6, <1>7 DEF RecordOK, NameMeant

LEMMA SameGone ==
  ASSUME UNCHANGED vars, NEW t
  PROVE  Gone(t)' = Gone(t) /\ Astray' = Astray /\ elsewhere' = elsewhere
<1>1. \A p \in Procs : Carried(p)' = Carried(p)
  BY CarriedIs DEF vars
<1> QED
  BY <1>1 DEF vars, history, Gone, Holds, Astray

LEMMA RecordNames ==
  ASSUME TypeOK, SignalTyped, NEW b \in Agents, RecordStep(b), NEW a \in Agents,
         NEW t \in Tasks, RecordOK(a, t)
  PROVE  RecordOK(a, t)'
<1>1. /\ UNCHANGED <<tasks, hand, status, job, lost>>
      /\ Gone(t)' = Gone(t) /\ Astray' = Astray /\ elsewhere' = elsewhere
  BY SameGone DEF RecordStep, vars, history
<1>2. CASE agent'[a] = agent[a]
  BY <1>1, <1>2 DEF RecordOK, WorkNamed, NameMeant
<1>3. agent \in [Agents -> AgentRecord] /\ agent[a] \in AgentRecord
  BY DEF SignalTyped
<1>4. a # b => agent'[a] = agent[a]
  BY <1>3 DEF RecordStep, Track, Work, Rest, Overdue
<1>5. CASE a = b /\ t \notin Astray
  <2> IsFiniteSet(hand[a])
    BY FS_Subset, ScalingConstants DEF TypeOK
  <2>1. CASE Track(a)
    <3>1. PICK u : hand[a] = {u}
      BY <2>1, FS_Singleton DEF Track
    <3>2. agent' = [agent EXCEPT ![a].current = u]
      BY <2>1, <3>1 DEF Track
    <3>3. agent'[a].current = u /\ agent'[a].state = agent[a].state /\ agent[a].state # "Working"
      BY <1>3, <2>1, <3>2 DEF AgentRecord, Track
    <3> QED
      BY <1>1, <3>1, <3>3 DEF RecordOK, WorkNamed, NameMeant
  <2>2. CASE Work(a)
    <3>1. agent'[a].current = agent[a].current /\ agent'[a].state = "Working"
      BY <1>3, <2>2 DEF AgentRecord, Work
    <3>2. hand[a] = {t} => agent[a].current = t
      BY <2>2, FS_Singleton DEF Work
    <3> QED
      BY <1>1, <1>5, <3>1, <3>2 DEF RecordOK, WorkNamed, NameMeant
  <2>3. CASE Rest(a)
    <3>1. /\ agent'[a].state = "Idle" /\ hand[a] = {} /\ job[a] = NoJob
          /\ agent'[a].current = IF StillCurrent(agent[a].current) THEN agent[a].current ELSE NoTask
      BY <1>3, <2>3 DEF Rest
    <3>2. agent'[a].current = t => agent[a].current = t /\ tasks[t].state \notin Finished
      BY <3>1, TaskBoardConstants DEF StillCurrent, Open, Finished
    <3> QED
      BY <1>1, <1>5, <3>1, <3>2, NoJobIs DEF RecordOK, WorkNamed, NameMeant
  <2>4. CASE Overdue(a)
    <3>1. agent'[a].current = agent[a].current /\ agent'[a].state = "Idle" /\ agent[a].state = "Idle"
      BY <1>3, <2>4 DEF AgentRecord, Overdue
    <3> QED
      BY <1>1, <1>5, <3>1 DEF RecordOK, WorkNamed, NameMeant
  <2> QED
    BY <1>5, <2>1, <2>2, <2>3, <2>4 DEF RecordStep
<1> QED
  BY <1>1, <1>2, <1>4, <1>5 DEF RecordOK

LEMMA RecordsStayMeant ==
  ASSUME TypeOK, TypeOK', Shapes, OwnJobs, Orphans, News, Alone, Over, Removed, GivesBack,
         Completions, SignalTyped, RecordsMeant, [SignalNext]_allVars
  PROVE  RecordsMeant'
<1> SUFFICES ASSUME NEW a \in Agents, NEW t \in Tasks PROVE RecordOK(a, t)'
  BY DEF RecordsMeant
<1>1. RecordOK(a, t)
  BY DEF RecordsMeant
<1>2. CASE World(Board)
  BY <1>1, <1>2, BoardNames, BoardMeans DEF World, RecordOK
<1>3. ASSUME UNCHANGED vars, UNCHANGED agent PROVE RecordOK(a, t)'
  BY <1>1, <1>3, SameGone DEF vars, history, RecordOK, WorkNamed, NameMeant
<1>4. CASE World(Stream)
  BY <1>3, <1>4 DEF World, Stream
<1>5. ASSUME NEW b \in Agents, World(RecordStep(b)) PROVE RecordOK(a, t)'
  BY <1>1, <1>5, RecordNames DEF World
<1>6. CASE Request
  BY <1>3, <1>6, RequestIs
<1>7. CASE UNCHANGED allVars
  BY <1>3, <1>7 DEF allVars
<1> QED
  BY <1>2, <1>4, <1>5, <1>6, <1>7, StepIs DEF Moves

LEMMA RecordsAreMeant == SignalSpec => []RecordsMeant
<1>1. SignalInit => RecordsMeant
  <2> SUFFICES ASSUME SignalInit, NEW a \in Agents, NEW t \in Tasks PROVE RecordOK(a, t)
    BY DEF RecordsMeant
  <2> QED
    BY TaskBoardConstants DEF SignalInit, Starting, RecordOK, WorkNamed, NameMeant
<1>2. (TypeOK /\ Shapes) /\ (TypeOK /\ Shapes)' /\ (OwnJobs /\ Orphans) /\ (News /\ Alone) /\ Over
        /\ (Removed /\ GivesBack) /\ Completions /\ (DocketTyped /\ SignalTyped) /\ RecordsMeant /\ [SignalNext]_allVars
      => RecordsMeant'
  BY RecordsStayMeant
<1> QED
  BY <1>1, <1>2, SignalRunsBoard, WellFormed, Commands, OnePlace, FinishedIsOver, BoardSettles,
     CompletionsKept, SignalWellFormed, PTL DEF SignalSpec

----------------------------------------------------------------------------
(* While nothing moves, the count is exact *)

\* What was counted when a list was read, is still there if nothing has moved since.
ListsCounted ==
  moved = {} =>
    /\ signal.at = "inboxes" => signal.queued = Cardinality(Messages(backlog, Tasks))
    /\ signal.at \in AfterInboxes /\ failures = 0 => signal.queued = Waiting
    /\ signal.at = "agents" => signal.flight = Running
    /\ signal.at = "decide" /\ failures = 0 => signal.flight = Running \cup Currents

CountOK == ~ streams => ListsCounted

\* Whoever is pruned leaves an empty inbox.
LEMMA ListedLeave ==
  ASSUME TypeOK, Shapes, OwnJobs, [Next]_vars, NEW a \in Agents, status[a] # "missing",
         status'[a] = "missing", NEW t \in Tasks
  PROVE  inbox'[a][t] = 0
<1>1. ASSUME NEW p \in Procs, JobStep(p) PROVE FALSE
  BY <1>1, JobStepIs
<1>2. ASSUME NEW c \in Clients, CommandBegins(c) \/ ClientCrash(c) PROVE FALSE
  BY <1>2, CommandIs
<1>3. ASSUME NEW b \in Agents, AgentStep(b) PROVE b = a
  BY <1>3, AgentIs
<1>4. ASSUME AgentStep(a) PROVE inbox'[a][t] = 0
  BY <1>4 DEF AgentStep, Receive, Complete, RoundEnds, RoundFails, Stop, Restart, Prune, AgentCrash,
              TypeOK
<1>5. ~ UNCHANGED vars
  BY DEF vars
<1> QED
  BY <1>1, <1>2, <1>3, <1>4, <1>5 DEF Next

LEMMA NothingMoves ==
  ASSUME TypeOK, TypeOK', Shapes, OwnJobs, NoneIsNoJob, SignalTyped, SignalTyped', Moves,
         signal.at # "idle", moved' = {}
  PROVE  UNCHANGED <<Messages(backlog, Tasks), Inboxes, Running, Currents>>
<1>1. ASSUME NEW t \in Tasks PROVE Place(t)' = Place(t)
  BY KeepPlace DEF Works
<1>2. \A t \in Tasks : /\ backlog'[t] = backlog[t] /\ tasks'[t].state = tasks[t].state
                       /\ \A a \in Agents : inbox'[a][t] = inbox[a][t]
                       /\ \A a \in Agents : a \in Active' /\ agent'[a].current = t
                                              <=> a \in Active /\ agent[a].current = t
  BY <1>1, TaskKeepsPlace
<1>3. backlog' = backlog
  BY <1>2 DEF TypeOK
<1>4. \A a \in Agents : inbox'[a] = inbox[a]
  BY <1>2 DEF TypeOK
<1>5. {t \in Tasks : tasks'[t].state \notin {"New", "Deleted"}}
        = {t \in Tasks : tasks[t].state \notin {"New", "Deleted"}}
  BY <1>2
<1>6. \A a \in Agents : Told(a)' = Told(a)
  BY <1>4, <1>5 DEF Told, Messages
<1>7. ASSUME NEW a \in Agents, NEW m \in Told(a) PROVE a \in Listed <=> a \in Listed'
  <2>1. Listed' \subseteq Listed
    BY MovesIs, ListedIs
  <2>2. PICK t \in Tasks : m \in {t} \X (1 .. inbox[a][t])
    BY <1>7 DEF Told, Messages
  <2>3. inbox[a][t] # 0 /\ inbox'[a][t] # 0
    BY <1>2, <2>2 DEF TypeOK
  <2>4. a \in Listed => a \in Listed'
    BY <2>3, MovesIs, ListedLeave DEF Listed
  <2> QED
    BY <2>1, <2>4
<1>8. Inboxes' = Inboxes
  BY <1>6, <1>7 DEF Inboxes, Listed
<1>9. Running' = Running
  BY <1>2 DEF Running
<1>10. Currents' = Currents
  <2>1. \A a \in Agents : agent[a].current \in Tasks \cup {NoTask} /\ agent'[a].current \in Tasks \cup {NoTask}
    BY DEF SignalTyped, AgentRecord
  <2>2. Active \subseteq Agents /\ Active' \subseteq Agents
    BY DEF Active
  <2>3. ASSUME NEW t \in Tasks PROVE t \in Currents' <=> t \in Currents
    BY <1>2, <2>2, TaskBoardConstants DEF Currents
  <2> QED
    BY <2>1, <2>2, <2>3 DEF Currents
<1> QED
  BY <1>3, <1>8, <1>9, <1>10 DEF Messages

LEMMA MovesStayCounted ==
  ASSUME TypeOK, TypeOK', Shapes, OwnJobs, NoneIsNoJob, DocketTyped, SignalTyped, SignalTyped',
         CountOK, Moves
  PROVE  CountOK'
<1>1. streams' = streams /\ signal'.at = signal.at
  BY MovesIs DEF config
<1>2. CASE signal.at = "idle"
  BY <1>1, <1>2 DEF CountOK, ListsCounted, AfterInboxes
<1>3. CASE signal.at # "idle"
  <2>1. moved \subseteq moved' /\ UNCHANGED <<signal, failures>>
    BY <1>3, MovesIs DEF Stands
  <2> SUFFICES ASSUME ~ streams, moved' = {} PROVE ListsCounted'
    BY <1>1 DEF CountOK, ListsCounted
  <2>2. UNCHANGED <<Messages(backlog, Tasks), Inboxes, Running, Currents>>
    BY <1>3, NothingMoves
  <2>3. moved = {}
    BY <2>1
  <2> QED
    BY <2>1, <2>2, <2>3 DEF CountOK, ListsCounted, Waiting
<1> QED
  BY <1>2, <1>3

LEMMA CountStays ==
  ASSUME TypeOK, TypeOK', Shapes, OwnJobs, NoneIsNoJob, DocketTyped, SignalTyped, SignalTyped',
         CountOK, [SignalNext]_allVars
  PROVE  CountOK'
<1>1. CASE Moves
  BY <1>1, MovesStayCounted
<1>2. CASE Request
  <2>1. /\ UNCHANGED <<vars, docketVars, config, agent>>
        /\ failures \in Nat /\ failures' \in Nat /\ FailuresGrow /\ RequestGoes
    BY <1>2, RequestIs, RequestTyped DEF SignalTyped
  <2>2. UNCHANGED <<Messages(backlog, Tasks), Inboxes, Running, Currents, Waiting, streams, stream>>
    BY <2>1 DEF vars, docketVars, config, Messages, Inboxes, Listed, Told, Running, Currents, Active,
                Waiting
  <2>3. signal.at # "idle" /\ failures' = 0 => failures = 0 /\ ~ (failures' > 0)
    BY <2>1 DEF FailuresGrow
  <2> SUFFICES ASSUME ~ streams, ListsCounted, signal.at \notin StreamReads PROVE ListsCounted'
    BY <2>2 DEF CountOK, SignalTyped
  <2> QED
    BY <2>1, <2>2, <2>3 DEF RequestGoes, Heads, ListsCounted, AfterInboxes, Waiting, StreamReads
<1>3. CASE UNCHANGED allVars
  BY <1>3 DEF allVars, vars, docketVars, config, signalVars, CountOK, ListsCounted, Waiting,
              Messages, Inboxes, Listed, Told, Running, Currents, Active
<1> QED
  BY <1>1, <1>2, <1>3, StepIs

LEMMA Counts == SignalSpec => []CountOK
<1>1. SignalInit => CountOK
  BY NoSignalIs DEF SignalInit, CountOK, ListsCounted, AfterInboxes
<1>2. (TypeOK /\ Shapes) /\ (TypeOK /\ Shapes)' /\ (OwnJobs /\ Orphans)
        /\ (DocketTyped /\ SignalTyped) /\ (DocketTyped /\ SignalTyped)'
        /\ (NoneIsNoJob /\ NothingOverlooked) /\ CountOK /\ [SignalNext]_allVars
      => CountOK'
  BY CountStays
<1> QED
  BY <1>1, <1>2, SignalRunsBoard, WellFormed, Commands, SignalWellFormed, Overlooks, PTL
     DEF SignalSpec

\* What is counted as in flight, is somewhere, if nothing moves.
LEMMA FlightIs ==
  ASSUME TypeOK, SignalTyped, MovesAreSeen, RecordsMeant, AllSafe, signal.at # "idle", moved = {},
         NEW t \in (Running \cup Currents) \ Astray
  PROVE  \/ t \in lost \/ InHand(t)
         \/ \E a \in Active : agent[a].current = t /\ agent[a].state = "Working"
         \/ tasks[t].state = "Running" /\ IsWork(t)
<1>1. t \in Tasks
  BY DEF Running, Currents, Active, SignalTyped, AgentRecord
<1>2. ~ InTransit(t) /\ \A p \in Procs : t \notin Carried(p)
  BY <1>1 DEF MovesAreSeen, InTransit
<1>3. CASE t \in Running
  <2>1. tasks[t].state = "Running" /\ tasks[t].state \in Open
    BY <1>3 DEF Running, Open
  <2>2. Found(t) \/ t \in lost
    BY <1>1, <2>1 DEF AllSafe, Safe, Astray
  <2> QED
    BY <1>1, <1>2, <2>1, <2>2 DEF Found, IsWork, Queued, InHand, Listed
<1>4. CASE t \in Currents
  <2>1. PICK a \in Active : agent[a].current = t
    BY <1>4 DEF Currents
  <2>2. a \in Agents /\ status[a] = "live" /\ NameMeant(a, t)
    BY <1>1, <2>1 DEF Active, RecordsMeant, RecordOK
  <2>3. job[a].kind # "giveback"
    BY <1>1, <1>2, <2>1, <2>2 DEF InTransit
  <2> QED
    BY <2>1, <2>2, <2>3 DEF NameMeant, InHand
<1> QED
  BY <1>3, <1>4

\* While nothing moves and no read fails, the number of those queued is that of the messages
\* that wait, and the tasks in flight are those that agents have in hand: none is forgotten,
\* and none is counted that nobody has or has just had. Whoever lists the backlog may lose
\* what is in it, so it is left out here.
THEOREM CountMatches ==
  ASSUME "list" \notin Disturbances
  PROVE  SignalSpec => CountIsExact
<1>1. (TypeOK /\ Shapes) /\ (DocketTyped /\ SignalTyped) /\ (NoneIsNoJob /\ NothingOverlooked)
        /\ RecordsMeant /\ AllSafe /\ CountOK /\ [SignalNext]_allVars
      => [Answered /\ ~ streams /\ moved = {} /\ failures' = 0 =>
           /\ signal.queued = Waiting
           /\ \A a \in Agents, t \in Tasks \ (Astray \cup elsewhere) :
                hand[a] = {t} /\ tasks[t].state \in Open => t \in signal.flight
           /\ \A t \in signal.flight \ Astray :
                \/ t \in lost \/ InHand(t)
                \/ \E a \in Agents : agent[a].current = t /\ agent[a].state = "Working"
                \/ tasks[t].state = "Running" /\ IsWork(t)]_allVars
  <2> SUFFICES ASSUME TypeOK, DocketTyped, SignalTyped, NothingOverlooked, RecordsMeant, AllSafe,
                      CountOK, [SignalNext]_allVars, Answered, ~ streams, moved = {}, failures' = 0
               PROVE
           /\ signal.queued = Waiting
           /\ \A a \in Agents, t \in Tasks \ (Astray \cup elsewhere) :
                hand[a] = {t} /\ tasks[t].state \in Open => t \in signal.flight
           /\ \A t \in signal.flight \ Astray :
                \/ t \in lost \/ InHand(t)
                \/ \E a \in Agents : agent[a].current = t /\ agent[a].state = "Working"
                \/ tasks[t].state = "Running" /\ IsWork(t)
    OBVIOUS
  <2>1. signal.at = "decide" /\ failures = 0
    BY AnswerIs DEF Answered, SignalTyped
  <2>2. signal.queued = Waiting /\ signal.flight = Running \cup Currents
    BY <2>1 DEF CountOK, ListsCounted, AfterInboxes
  <2>3. ASSUME NEW a \in Agents, NEW t \in Tasks \ (Astray \cup elsewhere),
               hand[a] = {t}, tasks[t].state \in Open
        PROVE  t \in signal.flight
    <3>1. ~ InTransit(t)
      BY <2>1 DEF NothingOverlooked, MovesAreSeen
    <3>2. agent[a].state = "Working" /\ status[a] = "live"
      BY <2>3, <3>1 DEF InTransit
    <3>3. agent[a].current = t
      BY <2>3, <3>2 DEF RecordsMeant, RecordOK, WorkNamed, Open, Finished
    <3> QED
      BY <2>2, <3>2, <3>3, TaskBoardConstants DEF Currents, Active
  <2>4. \A t \in signal.flight \ Astray :
          \/ t \in lost \/ InHand(t)
          \/ \E a \in Agents : agent[a].current = t /\ agent[a].state = "Working"
          \/ tasks[t].state = "Running" /\ IsWork(t)
    BY <2>1, <2>2, FlightIs DEF NothingOverlooked, Active
  <2> QED
    BY <2>2, <2>3, <2>4
<1> QED
  BY <1>1, SignalRunsBoard, WellFormed, OpenIsFound, SignalWellFormed, Overlooks, RecordsAreMeant,
     Counts, PTL DEF SignalSpec, CountIsExact

\* A town that is done counts nothing.
LEMMA DoneIs ==
  ASSUME TypeOK, SignalTyped, NothingOverlooked, RecordsMeant, AllSafe, CountOK, ~ streams,
         signal.at = "decide", failures = 0, moved = {}, AllDone, ~ (Waiting > 0)
  PROVE  signal.queued = 0 /\ signal.flight = {}
<1>1. signal.queued = Waiting /\ signal.flight = Running \cup Currents
  BY DEF CountOK, ListsCounted, AfterInboxes
<1>2. Waiting \in Nat
  BY InboxesFinite, BacklogFinite DEF Waiting
<1>3. ASSUME NEW t \in Running \cup Currents PROVE FALSE
  <2>1. t \in Tasks
    BY DEF Running, Currents, Active, SignalTyped, AgentRecord
  <2>2. ~ IsWork(t) /\ t \notin lost \cup Astray /\ ~ InTransit(t)
    BY <2>1 DEF AllDone, NothingOverlooked, MovesAreSeen
  <2>3. ~ InHand(t)
    BY <2>1, <2>2 DEF InHand, InTransit, AllDone, Active
  <2> QED
    BY <2>2, <2>3, FlightIs DEF NothingOverlooked, AllDone
<1> QED
  BY <1>1, <1>2, <1>3

\* A town whose tasks are all over, whoever completed them, and whose agents have been idle
\* for long enough, is told to scale to zero, unless messages of such tasks are left.
THEOREM DoneScalesToZero ==
  ASSUME "list" \notin Disturbances
  PROVE  SignalSpec => DoneIsZero
<1>1. (TypeOK /\ Shapes) /\ (DocketTyped /\ SignalTyped) /\ (NoneIsNoJob /\ NothingOverlooked)
        /\ RecordsMeant /\ AllSafe /\ CountOK /\ [SignalNext]_allVars
      => [Answered /\ ~ streams /\ moved = {} /\ AllDone =>
            \/ signal'.answer = "ScaleToZero" \/ ~ idleTimeout \/ failures' > 0
            \/ Waiting > 0]_allVars
  <2> SUFFICES ASSUME TypeOK, SignalTyped, NothingOverlooked, RecordsMeant, AllSafe, CountOK,
                      [SignalNext]_allVars, Answered, ~ streams, moved = {}, AllDone, idleTimeout,
                      ~ (failures' > 0), ~ (Waiting > 0)
               PROVE  signal'.answer = "ScaleToZero"
    OBVIOUS
  <2>1. signal.at = "decide" /\ failures = 0 /\ signal'.answer = Recommended(Active)
    BY AnswerIs DEF Answered, SignalTyped
  <2>2. signal.queued = 0 /\ signal.flight = {}
    BY <2>1, DoneIs
  <2>3. Desired = 0
    <3>1. Cardinality(signal.flight) = 0
      BY <2>2, FS_EmptySet
    <3> QED
      BY <2>2, <3>1, ScalingConstants DEF Desired
  <2>4. AllIdle(Active)
    BY DEF AllIdle, AllDone
  <2> QED
    BY <2>1, <2>2, <2>3, <2>4 DEF Recommended
<1> QED
  BY <1>1, SignalRunsBoard, WellFormed, OpenIsFound, SignalWellFormed, Overlooks, RecordsAreMeant,
     Counts, PTL DEF SignalSpec, DoneIsZero

==============================================================================
