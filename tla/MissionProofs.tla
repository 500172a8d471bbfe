---------------------------- MODULE MissionProofs ----------------------------
(***************************************************************************)
(* Theorems about Mission, for every mission, town and bound: type         *)
(* correctness, the review gate, that no work item is handed out twice,    *)
(* the limit on items in progress, the order of dependencies, and that     *)
(* every item that was started has something that moves it.                *)
(***************************************************************************)
EXTENDS Mission, SequenceTheorems, FiniteSetTheorems, TLAPS

ItemMap == [Items -> WorkItem]

WatchMap == [Items -> [WatchKinds -> WatchItem]]

----------------------------------------------------------------------------
(* Types of the helpers *)

LEMMA NewTaskType ==
  ASSUME NEW kind \in {"Work", "Fix", "Review"}, NEW i \in Items, NEW a \in Agents
  PROVE  NewTask(kind, i, a) \in Task
BY DEF NewTask, Task, NonTerminal

LEMMA AssignToType ==
  ASSUME NEW item \in WorkItem, NEW a \in Agents
  PROVE  /\ AssignTo(item, a) \in WorkItem
         /\ AssignTo(item, a).status = "Assigned"
BY DEF AssignTo, WorkItem, WorkStatus

\* Whoever speaks for an item is one of its open tasks, or nobody.
LEMMA AuthorityIsOpen ==
  ASSUME NEW ts \in Seq(Task), NEW auth \in Authorities(ts), NEW i \in Items
  PROVE  /\ auth[i] \in 0 .. Len(ts)
         /\ auth[i] # 0 => auth[i] \in OpenTasks(ts, i)
         /\ auth[i] = 0 => OpenTasks(ts, i) = {}
<1>1. auth[i] \in Authoritative(ts, i)
  BY DEF Authorities
<1>2. OpenTasks(ts, i) \subseteq 1 .. Len(ts)
  BY LenProperties DEF OpenTasks
<1>3. CASE OpenTasks(ts, i) = {}
  BY <1>1, <1>3, LenProperties DEF Authoritative
<1>4. CASE OpenTasks(ts, i) # {}
  BY <1>1, <1>2, <1>4, LenProperties DEF Authoritative
<1> QED
  BY <1>3, <1>4

LEMMA ReconciledType ==
  ASSUME NEW item \in WorkItem, NEW ts \in Seq(Task), NEW n \in 0 .. Len(ts)
  PROVE  /\ Reconciled(item, ts, n) \in WorkItem
         /\ Reconciled(item, ts, n).approved = item.approved
         /\ Reconciled(item, ts, n).status = "Done" <=> item.status = "Done"
<1>1. CASE item.status = "Done"
  BY <1>1 DEF Reconciled
<1>2. CASE item.status # "Done" /\ n # 0
  <2>1. ts[n] \in Task
    BY <1>2, ElementOfSeq, LenProperties
  <2> QED
    BY <1>2, <2>1 DEF Reconciled, FollowTask, WorkItem, WorkStatus, Task, NonTerminal
<1>3. CASE item.status # "Done" /\ n = 0
  BY <1>3 DEF Reconciled, ReleaseStale, WorkItem, WorkStatus
<1> QED
  BY <1>1, <1>2, <1>3

\* What the first half of a tick makes of an item.
LEMMA PlannedItem ==
  ASSUME NEW its \in ItemMap, NEW ws, NEW ts \in Seq(Task),
         NEW auth \in Authorities(ts), NEW i \in Items
  PROVE  LET r == Reconciled(its[i], ts, auth[i])
             p == Planned(its, ws, ts, auth)[i]
         IN  /\ p \in WorkItem
             /\ p.approved = its[i].approved
             /\ p.owner = r.owner
             /\ p.status = "Done" => r.status = "Done" \/ WaitIsOver(r, i, ws)
             /\ p.status = "Pending" => r.status = "Pending"
             /\ p.status = "Ready" => r.status \in {"Pending", "Ready"}
<1> DEFINE r(j) == Reconciled(its[j], ts, auth[j])
           c(j) == IF WaitIsOver(r(j), j, ws)
                   THEN [r(j) EXCEPT !.status = "Done"] ELSE r(j)
           completed == [j \in Items |-> c(j)]
           promoted == Promotable(completed, i)
           p == IF promoted THEN [c(i) EXCEPT !.status = "Ready"] ELSE c(i)
<1>1. r(i) \in WorkItem /\ r(i).approved = its[i].approved
  BY AuthorityIsOpen, ReconciledType DEF ItemMap
<1>2. Planned(its, ws, ts, auth)[i] = p
  <2>1. Planned(its, ws, ts, auth)[i] =
          IF promoted THEN [completed[i] EXCEPT !.status = "Ready"] ELSE completed[i]
    BY Zenon DEF Planned
  <2>2. completed[i] = c(i)
    OBVIOUS
  <2> QED
    BY <2>1, <2>2, Zenon
<1>3. /\ c(i) \in WorkItem
      /\ c(i).approved = r(i).approved
      /\ c(i).owner = r(i).owner
      /\ IF WaitIsOver(r(i), i, ws) THEN c(i).status = "Done"
                                    ELSE c(i).status = r(i).status
  <2> HIDE DEF r
  <2> QED
    BY <1>1 DEF WorkItem, WorkStatus
<1>4. /\ p \in WorkItem
      /\ p.approved = c(i).approved
      /\ p.owner = c(i).owner
      /\ p.status = IF promoted THEN "Ready" ELSE c(i).status
      /\ promoted => c(i).status = "Pending"
  <2>1. promoted => c(i).status = "Pending"
    BY Zenon DEF Promotable
  <2> HIDE DEF c, promoted
  <2> QED
    BY <1>3, <2>1 DEF WorkItem, WorkStatus
<1> HIDE DEF r, c, completed, promoted, p
<1> QED
  BY <1>1, <1>2, <1>3, <1>4 DEF r

LEMMA PlannedType ==
  ASSUME NEW its \in ItemMap, NEW ws, NEW ts \in Seq(Task),
         NEW auth \in Authorities(ts)
  PROVE  Planned(its, ws, ts, auth) \in ItemMap
<1>1. \A i \in Items : Planned(its, ws, ts, auth)[i] \in WorkItem
  BY PlannedItem
<1>2. Planned(its, ws, ts, auth) = [i \in Items |-> Planned(its, ws, ts, auth)[i]]
  BY Zenon DEF Planned
<1> QED
  BY <1>1, <1>2 DEF ItemMap

Hire == [item : Items, agent : Agents]

\* Distinct ready items, each given to an agent of the town.
Hires(its) ==
  {hires \in Seq(Hire) :
     /\ \A x \in 1 .. Len(hires) : its[hires[x].item].status = "Ready"
     /\ \A x, y \in 1 .. Len(hires) : hires[x].item = hires[y].item => x = y}

LEMMA HiringsType ==
  ASSUME NEW its \in ItemMap, NEW hires \in Hirings(its)
  PROVE  hires \in Hires(its)
<1> DEFINE ready == {i \in Items : its[i].status = "Ready"}
           n == IF Cardinality(ready) < Slots(its) THEN Cardinality(ready) ELSE Slots(its)
<1>1. /\ hires \in UNION {[1 .. m -> [item : ready, agent : Idle]] : m \in 0 .. n}
      /\ \A x, y \in DOMAIN hires : hires[x].item = hires[y].item => x = y
  BY Zenon DEF Hirings
<1> HIDE DEF n
<1>2. PICK m \in 0 .. n : hires \in [1 .. m -> [item : ready, agent : Idle]]
  BY <1>1
<1>3. m \in Nat
  BY <1>2
<1>4. hires \in [1 .. m -> Hire]
  BY <1>2 DEF Hire, Idle
<1>5. hires \in Seq(Hire)
  BY <1>3, <1>4, SeqDef
<1>6. DOMAIN hires = 1 .. Len(hires) /\ Len(hires) \in Nat
  BY <1>5, LenProperties
<1>7. DOMAIN hires = 1 .. m
  BY <1>2
<1>8. ASSUME NEW x \in 1 .. Len(hires)
      PROVE  /\ hires[x].item \in Items /\ hires[x].agent \in Agents
             /\ its[hires[x].item].status = "Ready"
  BY <1>2, <1>6, <1>7, <1>8 DEF Idle
<1> QED
  BY <1>1, <1>5, <1>6, <1>8 DEF Hires

LEMMA HiresType ==
  ASSUME NEW its, NEW hires \in Hires(its)
  PROVE  /\ DOMAIN hires = 1 .. Len(hires) /\ Len(hires) \in Nat
         /\ \A x \in 1 .. Len(hires) :
              hires[x].item \in Items /\ hires[x].agent \in Agents
<1>1. DOMAIN hires = 1 .. Len(hires) /\ Len(hires) \in Nat
  BY LenProperties DEF Hires
<1>2. \A x \in 1 .. Len(hires) : hires[x] \in Hire
  BY ElementOfSeq DEF Hires
<1> QED
  BY <1>1, <1>2 DEF Hire

\* A tick that dies has made the first of its hirings.
LEMMA FirstHires ==
  ASSUME NEW its, NEW hires \in Hires(its), NEW x \in 0 .. Len(hires)
  PROVE  /\ SubSeq(hires, 1, x) \in Hires(its)
         /\ Len(SubSeq(hires, 1, x)) = x
         /\ \A y \in 1 .. x : SubSeq(hires, 1, x)[y] = hires[y]
<1>1. hires \in Seq(Hire) /\ Len(hires) \in Nat
  BY LenProperties DEF Hires
<1>2. /\ SubSeq(hires, 1, x) \in Seq(Hire)
      /\ Len(SubSeq(hires, 1, x)) = x
      /\ \A y \in 1 .. x : SubSeq(hires, 1, x)[y] = hires[y]
  BY <1>1, ElementOfSeq, SubSeqProperties
<1> DEFINE made == SubSeq(hires, 1, x)
<1> HIDE DEF made
<1>3. /\ \A y \in 1 .. x : its[made[y].item].status = "Ready"
      /\ \A y, z \in 1 .. x : made[y].item = made[z].item => y = z
  BY <1>1, <1>2 DEF Hires, made
<1> QED
  BY <1>2, <1>3 DEF Hires, made

LEMMA AssignedItem ==
  ASSUME NEW its \in ItemMap, NEW hires \in Hires(its), NEW i \in Items
  PROVE  LET a == AssignedItems(its, hires)[i]
         IN  IF \E x \in 1 .. Len(hires) : hires[x].item = i
             THEN a \in WorkItem /\ a.status = "Assigned"
             ELSE a = its[i]
<1>1. /\ DOMAIN hires = 1 .. Len(hires)
      /\ \A x \in 1 .. Len(hires) : hires[x].agent \in Agents
  BY HiresType
<1>2. CASE \E x \in 1 .. Len(hires) : hires[x].item = i
  <2> DEFINE y == CHOOSE x \in DOMAIN hires : hires[x].item = i
  <2>1. y \in 1 .. Len(hires)
    BY <1>1, <1>2
  <2>2. hires[y].agent \in Agents
    BY <1>1, <2>1
  <2>3. AssignedItems(its, hires)[i] = AssignTo(its[i], hires[y].agent)
    BY <1>1, <1>2 DEF AssignedItems
  <2> HIDE DEF y
  <2> QED
    BY <1>2, <2>2, <2>3, AssignToType DEF ItemMap
<1>3. CASE ~\E x \in 1 .. Len(hires) : hires[x].item = i
  BY <1>1, <1>3 DEF AssignedItems
<1> QED
  BY <1>2, <1>3

LEMMA AssignedItemsType ==
  ASSUME NEW its \in ItemMap, NEW hires \in Hires(its)
  PROVE  AssignedItems(its, hires) \in ItemMap
<1>1. \A i \in Items : AssignedItems(its, hires)[i] \in WorkItem
  BY AssignedItem DEF ItemMap
<1>2. AssignedItems(its, hires) =
        [i \in Items |-> AssignedItems(its, hires)[i]]
  BY Zenon DEF AssignedItems
<1> QED
  BY <1>1, <1>2 DEF ItemMap

LEMMA WorkTasksType ==
  ASSUME NEW its \in ItemMap, NEW hires \in Hires(its)
  PROVE  /\ WorkTasks(hires) \in Seq(Task)
         /\ Len(WorkTasks(hires)) = Len(hires)
         /\ \A x \in 1 .. Len(hires) :
              WorkTasks(hires)[x] = NewTask("Work", hires[x].item, hires[x].agent)
<1>1. Len(hires) \in Nat
  BY HiresType
<1>2. \A x \in 1 .. Len(hires) :
        NewTask("Work", hires[x].item, hires[x].agent) \in Task
  BY HiresType, NewTaskType
<1>3. WorkTasks(hires) \in [1 .. Len(hires) -> Task]
  BY <1>2 DEF WorkTasks
<1>4. WorkTasks(hires) \in Seq(Task)
  BY <1>1, <1>3, SeqDef
<1>5. DOMAIN WorkTasks(hires) = 1 .. Len(WorkTasks(hires))
  BY <1>4, LenProperties
<1>6. 1 .. Len(WorkTasks(hires)) = 1 .. Len(hires)
  BY <1>3, <1>5
<1>7. Len(WorkTasks(hires)) = Len(hires)
  BY <1>1, <1>4, <1>6, LenProperties
<1> QED
  BY <1>4, <1>7 DEF WorkTasks

----------------------------------------------------------------------------
(* Types of what the handlers leave behind *)

LEMMA CompletedTasksType ==
  ASSUME TypeOK, NEW n \in DOMAIN tasks
  PROVE  /\ tasks[n] \in Task
         /\ CompletedTasks(n) \in Seq(Task)
         /\ Len(CompletedTasks(n)) = Len(tasks)
<1>1. n \in 1 .. Len(tasks) /\ tasks \in Seq(Task)
  BY LenProperties DEF TypeOK
<1>2. tasks[n] \in Task
  BY <1>1, ElementOfSeq
<1>3. [tasks[n] EXCEPT !.state = "Completed"] \in Task
  BY <1>2 DEF Task, NonTerminal
<1>4. CompletedTasks(n) = [tasks EXCEPT ![n] = [tasks[n] EXCEPT !.state = "Completed"]]
  BY Zenon DEF CompletedTasks
<1> HIDE DEF CompletedTasks
<1> QED
  BY <1>1, <1>2, <1>3, <1>4, ExceptSeq

LEMMA AppendTaskType ==
  ASSUME NEW ts \in Seq(Task), NEW kind \in {"Work", "Fix", "Review"},
         NEW i \in Items, NEW a \in Agents
  PROVE  Append(ts, NewTask(kind, i, a)) \in Seq(Task)
BY NewTaskType, AppendProperties

LEMMA ReviewTaskType ==
  ASSUME NEW i \in Items, NEW list \in Seq(Task), NEW ts \in WithReviewTask(i, list)
  PROVE  /\ \/ ts = list
            \/ \E r \in Agents : ts = Append(list, NewTask("Review", i, r))
         /\ ts \in Seq(Task)
<1>1. \/ ts = list
      \/ \E r \in Agents : ts = Append(list, NewTask("Review", i, r))
  BY DEF WithReviewTask, Idle
<1>2. \A r \in Agents : Append(list, NewTask("Review", i, r)) \in Seq(Task)
  BY AppendTaskType
<1> QED
  BY <1>1, <1>2

LEMMA FixTaskType ==
  ASSUME TypeOK, NEW i \in Items, NEW list \in Seq(Task), NEW ts \in WithFixTask(i, list)
  PROVE  /\ \/ ts = list
            \/ \E a \in Agents : ts = Append(list, NewTask("Fix", i, a))
         /\ ts \in Seq(Task)
<1>1. items[i].owner \in Agents \cup {NoAgent}
  BY DEF TypeOK, WorkItem
<1>2. Fit(i, << >>, 0) \subseteq Agents
  BY DEF Fit, BestAgents, Idle
<1>3. \/ ts = list
      \/ \E a \in Agents : ts = Append(list, NewTask("Fix", i, a))
  BY <1>1, <1>2 DEF WithFixTask
<1>4. \A a \in Agents : Append(list, NewTask("Fix", i, a)) \in Seq(Task)
  BY AppendTaskType
<1> QED
  BY <1>3, <1>4

\* What a tick may do with the records it is given.
LEMMA TickCases ==
  ASSUME NEW its \in ItemMap, NEW ws \in WatchMap, NEW ts \in Seq(Task),
         TickFrom(its, ws, ts)
  PROVE  \/ Commit(its, ws, ts)
         \/ /\ watches' = ws
            /\ Len(tasks') <= MaxTasks
            /\ mission' \in {mission, [state |-> "Completed", active |-> FALSE]}
            /\ \E auth \in Authorities(ts) :
                 \E hires \in Hirings(Planned(its, ws, ts, auth)) :
                   /\ items' = AssignedItems(Planned(its, ws, ts, auth), hires)
                   /\ tasks' = ts \o WorkTasks(hires)
BY Zenon DEF TickFrom

LEMMA TickType ==
  ASSUME TypeOK, NEW its \in ItemMap, NEW ws \in WatchMap, NEW ts \in Seq(Task),
         TickFrom(its, ws, ts)
  PROVE  /\ mission' \in MissionRun
         /\ items' \in ItemMap
         /\ watches' = ws
         /\ tasks' \in Seq(Task) /\ Len(tasks') <= MaxTasks
<1>1. CASE Commit(its, ws, ts)
  BY <1>1 DEF Commit, TypeOK
<1>2. ASSUME NEW auth \in Authorities(ts),
             NEW hires \in Hirings(Planned(its, ws, ts, auth)),
             items' = AssignedItems(Planned(its, ws, ts, auth), hires),
             tasks' = ts \o WorkTasks(hires)
      PROVE  items' \in ItemMap /\ tasks' \in Seq(Task)
  <2>1. Planned(its, ws, ts, auth) \in ItemMap
    BY PlannedType
  <2>2. hires \in Hires(Planned(its, ws, ts, auth))
    BY <2>1, HiringsType
  <2>3. WorkTasks(hires) \in Seq(Task)
    BY <2>1, <2>2, WorkTasksType
  <2> QED
    BY <1>2, <2>1, <2>2, <2>3, AssignedItemsType, ConcatProperties
<1>3. [state |-> "Completed", active |-> FALSE] \in MissionRun
  BY DEF MissionRun, MissionState
<1> QED
  BY <1>1, <1>2, <1>3, TickCases DEF TypeOK

LEMMA CliTickType ==
  ASSUME TypeOK, NEW its \in ItemMap, NEW ws \in WatchMap, NEW ts \in Seq(Task),
         CliTick(its, ws, ts)
  PROVE  /\ mission' \in MissionRun
         /\ items' \in ItemMap
         /\ watches' = ws
         /\ tasks' \in Seq(Task) /\ Len(tasks') <= MaxTasks
BY TickType DEF CliTick, Commit, TypeOK

----------------------------------------------------------------------------
(* Every record the handlers write has its type *)

LEMMA ItemUpdateType ==
  ASSUME TypeOK, NEW i \in Items, NEW item \in WorkItem
  PROVE  [items EXCEPT ![i] = item] \in ItemMap
BY DEF TypeOK, ItemMap

LEMMA CommitType ==
  ASSUME TypeOK, NEW its \in ItemMap, NEW ws \in WatchMap, NEW ts \in Seq(Task),
         Commit(its, ws, ts), UNCHANGED agents, budget' \in 0 .. MaxDisturbances
  PROVE  TypeOK'
BY DEF Commit, TypeOK, ItemMap, WatchMap

LEMMA DisturbType ==
  ASSUME TypeOK, NEW what, Disturb(what)
  PROVE  budget' \in 0 .. MaxDisturbances
BY MissionConstants DEF Disturb, TypeOK

LEMMA CompleteType ==
  ASSUME TypeOK, NEW n, Complete(n)
  PROVE  /\ n \in DOMAIN tasks
         /\ tasks[n].item \in Items
         /\ CompletedTasks(n) \in Seq(Task)
         /\ budget' \in 0 .. MaxDisturbances
<1>1. n \in DOMAIN tasks /\ budget' \in 0 .. MaxDisturbances
  BY DisturbType DEF Complete, TypeOK
<1> QED
  BY <1>1, CompletedTasksType DEF Task

LEMMA TickStepType ==
  ASSUME TypeOK, NEW its \in ItemMap, NEW ws \in WatchMap, NEW ts \in Seq(Task),
         TickFrom(its, ws, ts) \/ CliTick(its, ws, ts),
         UNCHANGED agents, budget' \in 0 .. MaxDisturbances
  PROVE  TypeOK'
BY TickType, CliTickType DEF TypeOK, ItemMap, WatchMap

LEMMA SubmitWorkType ==
  ASSUME TypeOK, NEW n, NEW pr \in BOOLEAN, SubmitWork(n, pr)
  PROVE  TypeOK'
<1> DEFINE i       == tasks[n].item
           waiting == Submitted(i)
           done    == [items EXCEPT ![i].status = "Done", ![i].evidence = TRUE]
<1>1. /\ i \in Items /\ CompletedTasks(n) \in Seq(Task)
      /\ budget' \in 0 .. MaxDisturbances /\ UNCHANGED agents
  BY CompleteType DEF SubmitWork
<1>2. waiting \in ItemMap /\ done \in ItemMap
  <2>1. items \in ItemMap /\ items[i] \in WorkItem
    BY <1>1 DEF TypeOK, ItemMap
  <2>2. /\ [[[items[i] EXCEPT !.status = "Blocked"] EXCEPT !.evidence = TRUE]
              EXCEPT !.approved = FALSE] \in WorkItem
        /\ [[items[i] EXCEPT !.status = "Done"] EXCEPT !.evidence = TRUE] \in WorkItem
    BY <2>1 DEF WorkItem, WorkStatus
  <2> QED
    BY <1>1, <2>1, <2>2 DEF ItemMap, Submitted
<1>3. watches \in WatchMap /\ Rewatched(i) \in WatchMap
  BY <1>1, MissionConstants DEF TypeOK, WatchMap, Rewatched, WatchItem
<1>4. CASE pr \/ Gated(i)
  <2>1. PICK ts \in IF Gated(i) THEN WithReviewTask(i, CompletedTasks(n))
                     ELSE {CompletedTasks(n)} :
          Commit(waiting, IF pr THEN Rewatched(i) ELSE watches, ts)
    BY <1>4, Zenon DEF SubmitWork
  <2>2. ts \in Seq(Task)
    <3> HIDE DEF i
    <3> QED
      BY <1>1, <2>1, ReviewTaskType
  <2> HIDE DEF waiting
  <2> QED
    BY <1>1, <1>2, <1>3, <2>1, <2>2, CommitType
<1>5. CASE ~(pr \/ Gated(i))
  <2>1. CliTick(done, watches, CompletedTasks(n))
    BY <1>5, Zenon DEF SubmitWork
  <2> HIDE DEF done
  <2> QED
    BY <1>1, <1>2, <1>3, <2>1, TickStepType
<1> QED
  BY <1>4, <1>5

LEMMA ApprovedType ==
  ASSUME TypeOK, NEW i \in Items
  PROVE  Approved(i) \in ItemMap
<1>1. items[i] \in WorkItem
  BY DEF TypeOK
<1>2. [items[i] EXCEPT !.evidence = TRUE, !.approved = TRUE,
         !.status = IF WatchesClear(watches, i) THEN "Done" ELSE "Blocked"] \in WorkItem
  BY <1>1 DEF WorkItem, WorkStatus
<1> QED
  BY <1>2, ItemUpdateType DEF Approved

LEMMA ChangesRequestedType ==
  ASSUME TypeOK, NEW i \in Items
  PROVE  ChangesRequested(i) \in ItemMap
<1>1. items \in ItemMap /\ items[i] \in WorkItem
  BY DEF TypeOK, ItemMap
<1>2. [[items[i] EXCEPT !.status = "Blocked"] EXCEPT !.approved = FALSE] \in WorkItem
  BY <1>1 DEF WorkItem, WorkStatus
<1> QED
  BY <1>1, <1>2 DEF ChangesRequested, ItemMap

LEMMA SetTaskType ==
  ASSUME TypeOK, NEW n \in DOMAIN tasks, NEW task \in Task, SetTask(n, task),
         UNCHANGED <<mission, items, watches, agents>>, budget' \in 0 .. MaxDisturbances
  PROVE  TypeOK'
<1>1. n \in 1 .. Len(tasks) /\ tasks \in Seq(Task)
  BY LenProperties DEF TypeOK
<1>2. [tasks EXCEPT ![n] = task] \in Seq(Task)
      /\ Len([tasks EXCEPT ![n] = task]) = Len(tasks)
  BY <1>1, ExceptSeq
<1> QED
  BY <1>2 DEF SetTask, TypeOK

LEMMA RedirectType ==
  ASSUME TypeOK, NEW i \in Items, NEW a \in Agents, NoteRedirect(i, a)
  PROVE  TypeOK'
<1> DEFINE superseded == {n \in OpenTasks(tasks, i) : tasks[n].owner # a}
           cancelled  == [n \in 1 .. Len(tasks) |->
                            IF n \in superseded
                            THEN [tasks[n] EXCEPT !.state = "Cancelled"] ELSE tasks[n]]
           kind       == IF items[i].evidence THEN "Fix" ELSE "Work"
<1>1. tasks' = IF OpenTasks(cancelled, i) # {} THEN cancelled
               ELSE Append(cancelled, NewTask(kind, i, a))
  BY Zenon DEF NoteRedirect
<1>2. tasks \in Seq(Task) /\ Len(tasks) \in Nat
  BY LenProperties DEF TypeOK
<1>3. \A n \in 1 .. Len(tasks) : tasks[n] \in Task
  BY <1>2, ElementOfSeq
<1>4. \A n \in 1 .. Len(tasks) : [tasks[n] EXCEPT !.state = "Cancelled"] \in Task
  BY <1>3 DEF Task, NonTerminal
<1>5. cancelled \in [1 .. Len(tasks) -> Task]
  BY <1>3, <1>4
<1>6. cancelled \in Seq(Task)
  BY <1>2, <1>5, SeqDef
<1>7. tasks' \in Seq(Task)
  <2> HIDE DEF cancelled
  <2>1. Append(cancelled, NewTask(kind, i, a)) \in Seq(Task)
    BY <1>6, AppendTaskType
  <2> QED
    BY <1>1, <1>6, <2>1
<1>8. items' \in ItemMap
  BY AssignToType, ItemUpdateType DEF NoteRedirect, TypeOK
<1>9. mission' \in MissionRun
  BY DEF NoteRedirect, TypeOK, MissionRun, MissionState
<1>10. /\ budget' \in 0 .. MaxDisturbances /\ Len(tasks') <= MaxTasks
       /\ UNCHANGED <<watches, agents>>
  BY DisturbType DEF NoteRedirect
<1> QED
  BY <1>7, <1>8, <1>9, <1>10 DEF TypeOK, ItemMap

LEMMA InitType == Init => TypeOK
<1> SUFFICES ASSUME Init PROVE TypeOK
  OBVIOUS
<1>1. << >> \in Seq(Task) /\ Len(<< >>) = 0
  BY EmptySeq
<1>2. mission \in MissionRun /\ items \in ItemMap /\ watches \in WatchMap
  BY MissionConstants DEF Init, MissionRun, MissionState, ItemMap, WorkItem,
     WorkStatus, WatchMap, WatchItem
<1>3. agents \in [Agents -> AgentClass] /\ budget \in 0 .. MaxDisturbances
  BY MissionConstants DEF Init, AgentClass
<1>4. tasks \in Seq(Task) /\ Len(tasks) <= MaxTasks
  BY <1>1, MissionConstants DEF Init
<1> QED
  BY <1>2, <1>3, <1>4 DEF TypeOK, ItemMap, WatchMap

LEMMA TaskStepType ==
  ASSUME TypeOK, NEW n \in 1 .. Len(tasks), TaskStep(n)
  PROVE  TypeOK'
<1>1. tasks[n] \in Task /\ n \in DOMAIN tasks
  BY ElementOfSeq, LenProperties DEF TypeOK
<1>2. tasks[n].item \in Items
  BY <1>1 DEF Task
<1>3. items \in ItemMap /\ watches \in WatchMap
  BY DEF TypeOK, ItemMap, WatchMap
<1>4. ASSUME NEW pr \in BOOLEAN, SubmitWork(n, pr) PROVE TypeOK'
  BY <1>4, SubmitWorkType
<1>5. CASE ApproveReview(n)
  <2>1. /\ CompletedTasks(n) \in Seq(Task)
        /\ budget' \in 0 .. MaxDisturbances /\ UNCHANGED agents
    BY <1>5, CompleteType DEF ApproveReview
  <2>2. \/ CliTick(Approved(tasks[n].item), watches, CompletedTasks(n))
        \/ Commit(Approved(tasks[n].item), watches, CompletedTasks(n))
    BY <1>5 DEF ApproveReview
  <2> QED
    BY <1>2, <1>3, <2>1, <2>2, ApprovedType, TickStepType, CommitType
<1>6. CASE RejectReview(n)
  <2>1. CompletedTasks(n) \in Seq(Task)
    BY <1>1, CompletedTasksType
  <2>2. PICK ts \in WithFixTask(tasks[n].item, CompletedTasks(n)) :
          Commit(ChangesRequested(tasks[n].item), watches, ts)
    BY <1>6 DEF RejectReview
  <2>3. ts \in Seq(Task)
    BY <1>2, <2>1, <2>2, FixTaskType
  <2>4. budget' \in 0 .. MaxDisturbances /\ UNCHANGED agents
    BY <1>6, DisturbType DEF RejectReview
  <2> QED
    BY <1>2, <1>3, <2>2, <2>3, <2>4, ChangesRequestedType, CommitType
<1>7. CASE McpComplete(n)
  <2>1. CompletedTasks(n) \in Seq(Task)
    BY <1>1, CompletedTasksType
  <2>2. budget' \in 0 .. MaxDisturbances
    BY <1>7, DisturbType DEF McpComplete
  <2> QED
    BY <1>3, <1>7, <2>1, <2>2, CommitType DEF McpComplete
<1>8. CASE StartTask(n)
  <2>1. [tasks[n] EXCEPT !.state = "Running"] \in Task
    BY <1>1 DEF Task, NonTerminal
  <2> QED
    BY <1>1, <1>8, <2>1, SetTaskType DEF StartTask, TypeOK
<1>9. CASE FailRound(n)
  <2>1. [tasks[n] EXCEPT !.state = "Assigned"] \in Task
    BY <1>1 DEF Task, NonTerminal
  <2> QED
    BY <1>1, <1>9, <2>1, SetTaskType, DisturbType DEF FailRound
<1>10. CASE RequeueOrphan(n)
  <2>1. [tasks[n] EXCEPT !.state = "Pending", !.owner = NoAgent, !.queued = TRUE] \in Task
    BY <1>1 DEF Task, NonTerminal
  <2> QED
    BY <1>1, <1>10, <2>1, SetTaskType, DisturbType DEF RequeueOrphan
<1>11. CASE CancelOrphan(n)
  <2>1. [tasks[n] EXCEPT !.state = "Cancelled"] \in Task
    BY <1>1 DEF Task, NonTerminal
  <2> QED
    BY <1>1, <1>11, <2>1, SetTaskType, DisturbType DEF CancelOrphan
<1>12. ASSUME NEW a \in Agents, ClaimTask(n, a) PROVE TypeOK'
  <2>1. [tasks[n] EXCEPT !.state = "Assigned", !.owner = a, !.queued = FALSE] \in Task
    BY <1>1 DEF Task, NonTerminal
  <2> QED
    BY <1>1, <1>12, <2>1, SetTaskType DEF ClaimTask, TypeOK
<1> QED
  BY <1>4, <1>5, <1>6, <1>7, <1>8, <1>9, <1>10, <1>11, <1>12 DEF TaskStep

LEMMA WatchStepType ==
  ASSUME TypeOK, NEW i \in Items, NEW k \in WatchKinds, WatchStep(i, k)
  PROVE  TypeOK'
<1>1. items \in ItemMap /\ watches \in WatchMap /\ tasks \in Seq(Task)
      /\ budget \in 0 .. MaxDisturbances
  BY DEF TypeOK, ItemMap, WatchMap
<1>2. watches[i][k].failures \in 0 .. MaxFailures
  BY <1>1 DEF WatchMap, WatchItem
<1>3. ASSUME NEW status \in {"Active", "Snoozed", "Done"},
             NEW failures \in 0 .. MaxFailures
      PROVE  SetWatch(i, k, status, failures) \in WatchMap
  BY <1>1 DEF SetWatch, WatchMap, WatchItem
<1>4. 0 \in 0 .. MaxFailures
  BY MissionConstants
<1>5. CASE PollClear(i, k)
  BY <1>1, <1>2, <1>3, <1>5, CommitType DEF PollClear
<1>6. CASE PollPending(i, k)
  BY <1>1, <1>3, <1>4, <1>6, CommitType DEF PollPending
<1>7. CASE PollFailing(i, k)
  <2> DEFINE ts == IF items[i].owner = NoAgent THEN tasks
                   ELSE Append(tasks, NewTask("Fix", i, items[i].owner))
  <2>1. items[i].owner \in Agents \cup {NoAgent}
    BY <1>1 DEF ItemMap, WorkItem
  <2>2. ts \in Seq(Task)
    BY <1>1, <2>1, AppendTaskType
  <2>3. Commit(items, SetWatch(i, k, "Snoozed", watches[i][k].failures), ts)
        /\ UNCHANGED agents /\ budget' \in 0 .. MaxDisturbances
    BY <1>7, DisturbType DEF PollFailing
  <2> HIDE DEF ts
  <2> QED
    BY <1>1, <1>2, <1>3, <2>2, <2>3, CommitType
<1>8. CASE PollError(i, k)
  <2> DEFINE failures == IF watches[i][k].failures < MaxFailures
                         THEN watches[i][k].failures + 1 ELSE MaxFailures
             its == IF failures = MaxFailures
                    THEN [items EXCEPT ![i].status = "Blocked"] ELSE items
  <2>1. failures \in 0 .. MaxFailures
    BY <1>2, MissionConstants
  <2>2. its \in ItemMap
    BY <1>1 DEF ItemMap, WorkItem, WorkStatus
  <2>3. Commit(its, SetWatch(i, k, "Active", failures), tasks)
        /\ UNCHANGED agents /\ budget' \in 0 .. MaxDisturbances
    BY <1>8, DisturbType DEF PollError
  <2> HIDE DEF failures, its
  <2> QED
    BY <1>1, <1>3, <2>1, <2>2, <2>3, CommitType
<1> QED
  BY <1>5, <1>6, <1>7, <1>8 DEF WatchStep

LEMMA OperatorStepType ==
  ASSUME TypeOK, OperatorStep
  PROVE  TypeOK'
<1>1. items \in ItemMap /\ watches \in WatchMap /\ tasks \in Seq(Task)
  BY DEF TypeOK, ItemMap, WatchMap
<1>2. ASSUME NEW i \in Items, McpApprove(i) PROVE TypeOK'
  BY <1>1, <1>2, ApprovedType, DisturbType, TickStepType DEF McpApprove
<1>3. ASSUME NEW i \in Items, McpReject(i) PROVE TypeOK'
  <2>1. PICK ts \in WithFixTask(i, tasks) : CliTick(ChangesRequested(i), watches, ts)
    BY <1>3 DEF McpReject
  <2>2. ts \in Seq(Task)
    BY <1>1, <2>1, FixTaskType
  <2> QED
    BY <1>1, <1>3, <2>1, <2>2, ChangesRequestedType, DisturbType, TickStepType
    DEF McpReject
<1>4. CASE NoteResume
  <2>1. watches' \in WatchMap
    <3>1. /\ \A i \in Items, k \in WatchKinds : watches[i][k] \in WatchItem
          /\ \A v \in WatchItem : [v EXCEPT !.status = "Done"] \in WatchItem
      <4>1. \A i \in Items, k \in WatchKinds : watches[i][k] \in WatchItem
        BY <1>1 DEF WatchMap
      <4>2. \A v \in WatchItem : [v EXCEPT !.status = "Done"] \in WatchItem
        BY DEF WatchItem
      <4> QED
        BY <4>1, <4>2
    <3> DEFINE w(i, k) == IF watches[i][k].status \in {"Active", "Snoozed"}
                          THEN [watches[i][k] EXCEPT !.status = "Done"]
                          ELSE watches[i][k]
    <3>2. \A i \in Items, k \in WatchKinds : w(i, k) \in WatchItem
      BY <3>1
    <3>3. watches' = [i \in Items |-> [k \in WatchKinds |-> w(i, k)]]
      BY <1>4, Zenon DEF NoteResume
    <3> HIDE DEF w
    <3> QED
      BY <3>2, <3>3 DEF WatchMap
  <2>2. mission' \in MissionRun
    BY <1>4 DEF NoteResume, TypeOK, MissionRun, MissionState
  <2> QED
    BY <1>4, <2>1, <2>2 DEF NoteResume, TypeOK, WatchMap
<1>5. CASE NotePause
  BY <1>5, DisturbType DEF NotePause, TypeOK, MissionRun, MissionState
<1>6. ASSUME NEW i \in Items, NEW a \in Agents, NoteRedirect(i, a) PROVE TypeOK'
  BY <1>6, RedirectType
<1>7. ASSUME NEW force \in BOOLEAN, StopMission(force) PROVE TypeOK'
  BY <1>7, DisturbType DEF StopMission, TypeOK, MissionRun, MissionState
<1>8. CASE ResumeMission
  BY <1>8 DEF ResumeMission, TypeOK, MissionRun, MissionState
<1> QED
  BY <1>2, <1>3, <1>4, <1>5, <1>6, <1>7, <1>8 DEF OperatorStep

LEMMA AgentStepType ==
  ASSUME TypeOK, NEW a \in Agents, AgentStep(a)
  PROVE  TypeOK'
<1>1. ASSUME NEW from, NEW to \in AgentClass, AgentChange(a, from, to),
             budget' \in 0 .. MaxDisturbances
      PROVE  TypeOK'
  BY <1>1 DEF AgentChange, TypeOK
<1>2. budget' \in 0 .. MaxDisturbances
  BY DisturbType DEF AgentStep, AgentBusy, AgentIdle, AgentStops, AgentRestarts,
     AgentPruned, TypeOK
<1> QED
  BY <1>1, <1>2 DEF AgentStep, AgentBusy, AgentIdle, AgentStops, AgentRestarts,
     AgentPruned, AgentClass

\* What a tick that dies leaves behind.
LEMMA TickDiesCases ==
  ASSUME TypeOK, TickDies
  PROVE  \E auth \in Authorities(tasks) :
           LET planned == Planned(items, watches, tasks, auth)
           IN  \E hires \in Hires(planned), done \in Hires(planned) :
                 /\ planned \in ItemMap
                 /\ Len(hires) = Len(done) + 1
                 /\ \A y \in 1 .. Len(done) : hires[y] = done[y]
                 /\ items' = AssignedItems(planned, hires)
                 /\ tasks' = tasks \o WorkTasks(done)
<1>1. PICK auth \in Authorities(tasks) :
        \E hires \in Hirings(Planned(items, watches, tasks, auth)) :
          \E x \in 1 .. Len(hires) :
            /\ items' = AssignedItems(Planned(items, watches, tasks, auth),
                                      SubSeq(hires, 1, x))
            /\ tasks' = tasks \o WorkTasks(SubSeq(hires, 1, x - 1))
  BY Zenon DEF TickDies
<1> DEFINE planned == Planned(items, watches, tasks, auth)
<1>2. planned \in ItemMap
  BY PlannedType DEF TypeOK, ItemMap
<1> HIDE DEF planned
<1>3. PICK all \in Hires(planned) : \E x \in 1 .. Len(all) :
        /\ items' = AssignedItems(planned, SubSeq(all, 1, x))
        /\ tasks' = tasks \o WorkTasks(SubSeq(all, 1, x - 1))
  BY <1>1, <1>2, HiringsType DEF planned
<1>4. PICK x \in 1 .. Len(all) :
        /\ items' = AssignedItems(planned, SubSeq(all, 1, x))
        /\ tasks' = tasks \o WorkTasks(SubSeq(all, 1, x - 1))
  BY <1>3
<1>5. Len(all) \in Nat
  BY HiresType
<1>6. x \in 0 .. Len(all) /\ x - 1 \in 0 .. Len(all)
  BY <1>4, <1>5
<1> DEFINE hires == SubSeq(all, 1, x)
           done  == SubSeq(all, 1, x - 1)
<1>7. /\ hires \in Hires(planned) /\ Len(hires) = x
      /\ done \in Hires(planned) /\ Len(done) = x - 1
      /\ \A y \in 1 .. x : hires[y] = all[y]
      /\ \A y \in 1 .. x - 1 : done[y] = all[y]
  BY <1>6, FirstHires
<1> HIDE DEF hires, done
<1>8. \A y \in 1 .. Len(done) : hires[y] = done[y]
  BY <1>5, <1>7
<1>9. Len(hires) = Len(done) + 1
  BY <1>5, <1>7
<1> QED
  BY <1>2, <1>4, <1>7, <1>8, <1>9 DEF planned, hires, done

LEMMA TickDiesType ==
  ASSUME TypeOK, TickDies
  PROVE  TypeOK'
<1>1. PICK planned \in ItemMap : \E hires \in Hires(planned), done \in Hires(planned) :
        /\ items' = AssignedItems(planned, hires)
        /\ tasks' = tasks \o WorkTasks(done)
  BY TickDiesCases
<1>2. items' \in ItemMap
  BY <1>1, AssignedItemsType
<1>3. tasks' \in Seq(Task)
  BY <1>1, WorkTasksType, ConcatProperties DEF TypeOK
<1> QED
  BY <1>2, <1>3, DisturbType DEF TickDies, TypeOK, ItemMap

LEMMA NextType == TypeOK /\ [Next]_vars => TypeOK'
<1> SUFFICES ASSUME TypeOK, [Next]_vars PROVE TypeOK'
  OBVIOUS
<1>1. CASE DispatcherTick
  BY <1>1, TickStepType DEF DispatcherTick, TypeOK, ItemMap, WatchMap
<1>2. CASE TickDies
  BY <1>2, TickDiesType
<1>3. CASE \E n \in 1 .. Len(tasks) : TaskStep(n)
  BY <1>3, TaskStepType
<1>4. CASE \E i \in Items, k \in WatchKinds : WatchStep(i, k)
  BY <1>4, WatchStepType
<1>5. CASE OperatorStep
  BY <1>5, OperatorStepType
<1>6. CASE \E a \in Agents : AgentStep(a)
  BY <1>6, AgentStepType
<1>7. CASE UNCHANGED vars
  BY <1>7 DEF vars, TypeOK
<1> QED
  BY <1>1, <1>2, <1>3, <1>4, <1>5, <1>6, <1>7 DEF Next

\* The records every handler reads and writes keep their types, and the task
\* list its bound, in every reachable state of every mission.
THEOREM TypeCorrect == Spec => []TypeOK
BY InitType, NextType, PTL DEF Spec

----------------------------------------------------------------------------
(***************************************************************************)
(* The review gate. GateHolds is inductive once the types are known: the   *)
(* steps that finish an item establish it, and no step takes an approval   *)
(* from an item that stays done or reopens a watch of one.                 *)
(***************************************************************************)

\* GateHolds of a given set of records.
GateOn(its, ws) ==
  \A i \in Items : Gated(i) /\ its[i].status = "Done" =>
                     its[i].approved /\ WatchesClear(ws, i)

----------------------------------------------------------------------------
(* What handlers do to items and watches *)

\* A tick finishes a gated item only when its approval is in and its watches
\* are closed.
LEMMA PlannedGate ==
  ASSUME NEW its \in ItemMap, NEW ws \in WatchMap, NEW ts \in Seq(Task),
         NEW auth \in Authorities(ts), GateOn(its, ws)
  PROVE  GateOn(Planned(its, ws, ts, auth), ws)
<1> DEFINE planned == Planned(its, ws, ts, auth)
<1> SUFFICES ASSUME NEW i \in Items, Gated(i), planned[i].status = "Done"
             PROVE  planned[i].approved /\ WatchesClear(ws, i)
  BY DEF GateOn
<1> DEFINE r == Reconciled(its[i], ts, auth[i])
<1>1. /\ planned[i].approved = its[i].approved
      /\ r.status = "Done" \/ WaitIsOver(r, i, ws)
  BY PlannedItem
<1>2. /\ r.approved = its[i].approved
      /\ r.status = "Done" <=> its[i].status = "Done"
  BY AuthorityIsOpen, ReconciledType DEF ItemMap
<1> HIDE DEF planned, r
<1>3. CASE r.status = "Done"
  BY <1>1, <1>2, <1>3 DEF GateOn
<1>4. CASE WaitIsOver(r, i, ws)
  BY <1>1, <1>2, <1>4 DEF WaitIsOver
<1> QED
  BY <1>1, <1>3, <1>4

LEMMA AssignedGate ==
  ASSUME NEW its \in ItemMap, NEW ws \in WatchMap, NEW hires \in Hires(its),
         GateOn(its, ws)
  PROVE  GateOn(AssignedItems(its, hires), ws)
BY AssignedItem DEF GateOn

LEMMA TickGate ==
  ASSUME NEW its \in ItemMap, NEW ws \in WatchMap, NEW ts \in Seq(Task),
         GateOn(its, ws), TickFrom(its, ws, ts) \/ CliTick(its, ws, ts)
  PROVE  GateOn(items', watches')
<1>1. CASE Commit(its, ws, ts)
  BY <1>1 DEF Commit
<1>2. ASSUME watches' = ws, NEW auth \in Authorities(ts),
             NEW hires \in Hirings(Planned(its, ws, ts, auth)),
             items' = AssignedItems(Planned(its, ws, ts, auth), hires)
      PROVE  GateOn(items', watches')
  <2>1. Planned(its, ws, ts, auth) \in ItemMap
    BY PlannedType
  <2> QED
    BY <1>2, <2>1, HiringsType, PlannedGate, AssignedGate
<1> QED
  BY <1>1, <1>2, TickCases DEF CliTick

\* One item leaves Done, and the others and the watches of the others stay.
LEMMA BlockedGate ==
  ASSUME NEW its \in ItemMap, NEW ws \in WatchMap, GateOn(its, ws),
         NEW its2 \in ItemMap, NEW ws2 \in WatchMap, NEW i \in Items,
         its2[i].status # "Done",
         \A j \in Items \ {i} : its2[j] = its[j] /\ ws2[j] = ws[j]
  PROVE  GateOn(its2, ws2)
BY DEF GateOn, WatchesClear

\* approve_submission finishes an item only when its watches are closed.
LEMMA ApprovedGate ==
  ASSUME TypeOK, GateHolds, NEW i \in Items
  PROVE  GateOn(Approved(i), watches)
<1>1. items \in ItemMap /\ items[i] \in WorkItem
  BY DEF TypeOK, ItemMap
<1>2. /\ Approved(i)[i].approved
      /\ Approved(i)[i].status = "Done" => WatchesClear(watches, i)
      /\ \A j \in Items \ {i} : Approved(i)[j] = items[j]
  BY <1>1 DEF Approved, ItemMap, WorkItem
<1> QED
  BY <1>2 DEF GateOn, GateHolds

LEMMA ChangesRequestedGate ==
  ASSUME TypeOK, GateHolds, NEW i \in Items
  PROVE  GateOn(ChangesRequested(i), watches)
<1>1. items \in ItemMap /\ items[i] \in WorkItem
  BY DEF TypeOK, ItemMap
<1>2. /\ ChangesRequested(i)[i].status # "Done"
      /\ \A j \in Items \ {i} : ChangesRequested(i)[j] = items[j]
  BY <1>1 DEF ChangesRequested, ItemMap, WorkItem
<1> QED
  BY <1>2 DEF GateOn, GateHolds

----------------------------------------------------------------------------
(* Every step keeps the gate *)

LEMMA SubmitWorkGate ==
  ASSUME TypeOK, GateHolds, NEW n, NEW pr \in BOOLEAN, SubmitWork(n, pr)
  PROVE  GateHolds'
<1> DEFINE i       == tasks[n].item
           waiting == Submitted(i)
           done    == [items EXCEPT ![i].status = "Done", ![i].evidence = TRUE]
<1>1. /\ i \in Items /\ CompletedTasks(n) \in Seq(Task)
  BY CompleteType DEF SubmitWork
<1>2. items \in ItemMap /\ items[i] \in WorkItem /\ watches \in WatchMap
  BY <1>1 DEF TypeOK, ItemMap, WatchMap
<1>3. CASE pr \/ Gated(i)
  <2>1. items' = waiting /\ watches' = IF pr THEN Rewatched(i) ELSE watches
    BY <1>3, Zenon DEF SubmitWork, Commit
  <2>2. items'[i].status # "Done"
    BY <1>1, <1>2, <2>1 DEF ItemMap, WorkItem, Submitted
  <2>3. \A j \in Items \ {i} : items'[j] = items[j]
    BY <1>1, <1>2, <2>1 DEF ItemMap, Submitted
  <2>4. \A j \in Items \ {i} : watches'[j] = watches[j]
    BY <1>1, <1>2, <2>1 DEF WatchMap, Rewatched
  <2> HIDE DEF i
  <2> QED
    BY <1>1, <2>2, <2>3, <2>4 DEF GateHolds, WatchesClear
<1>4. CASE ~(pr \/ Gated(i))
  <2>1. CliTick(done, watches, CompletedTasks(n))
    BY <1>4, Zenon DEF SubmitWork
  <2>2. [[items[i] EXCEPT !.status = "Done"] EXCEPT !.evidence = TRUE] \in WorkItem
    BY <1>2 DEF WorkItem, WorkStatus
  <2>3. done \in ItemMap /\ \A j \in Items \ {i} : done[j] = items[j]
    BY <1>1, <1>2, <2>2 DEF ItemMap
  <2> HIDE DEF done
  <2>4. GateOn(done, watches)
    BY <1>4, <2>3 DEF GateOn, GateHolds
  <2>5. GateOn(items', watches')
    BY <1>1, <1>2, <2>1, <2>3, <2>4, TickGate
  <2> QED
    BY <2>5 DEF GateOn, GateHolds, WatchesClear
<1> QED
  BY <1>3, <1>4

LEMMA TaskStepGate ==
  ASSUME TypeOK, GateHolds, NEW n \in 1 .. Len(tasks), TaskStep(n)
  PROVE  GateHolds'
<1>1. n \in DOMAIN tasks /\ watches \in WatchMap
  BY LenProperties DEF TypeOK, WatchMap
<1>2. tasks[n].item \in Items /\ CompletedTasks(n) \in Seq(Task)
  BY <1>1, CompletedTasksType DEF Task
<1>3. ASSUME NEW pr \in BOOLEAN, SubmitWork(n, pr) PROVE GateHolds'
  BY <1>3, SubmitWorkGate
<1>4. CASE ApproveReview(n)
  <2>1. \/ CliTick(Approved(tasks[n].item), watches, CompletedTasks(n))
        \/ Commit(Approved(tasks[n].item), watches, CompletedTasks(n))
    BY <1>4 DEF ApproveReview
  <2>2. GateOn(items', watches')
    BY <1>1, <1>2, <2>1, ApprovedType, ApprovedGate, TickGate DEF Commit
  <2> QED
    BY <2>2 DEF GateOn, GateHolds, WatchesClear
<1>5. CASE RejectReview(n)
  <2>1. items' = ChangesRequested(tasks[n].item) /\ watches' = watches
    BY <1>5 DEF RejectReview, Commit
  <2> QED
    BY <1>2, <2>1, ChangesRequestedGate DEF GateOn, GateHolds, WatchesClear
<1>6. CASE UNCHANGED <<items, watches>>
  BY <1>6 DEF GateHolds, WatchesClear
<1> QED
  BY <1>3, <1>4, <1>5, <1>6 DEF TaskStep, McpComplete, Commit, StartTask, FailRound,
     RequeueOrphan, CancelOrphan, ClaimTask

\* The engine polls a watch that is open, so the item is not done; only
\* closing the watch can make the item's watches clear.
LEMMA WatchStepGate ==
  ASSUME TypeOK, GateHolds, NEW i \in Items, NEW k \in WatchKinds, WatchStep(i, k)
  PROVE  GateHolds'
<1>1. items \in ItemMap /\ watches \in WatchMap
  BY DEF TypeOK, ItemMap, WatchMap
<1>2. Due(i, k)
  BY DEF WatchStep, PollClear, PollPending, PollFailing, PollError
<1>3. ~WatchesClear(watches, i)
  BY <1>2 DEF Due, WatchesClear
<1>4. items[i].status = "Done" => ~Gated(i)
  BY <1>3 DEF GateHolds
<1>5. \A j \in Items \ {i} : watches'[j] = watches[j]
  BY <1>1 DEF WatchStep, PollClear, PollPending, PollFailing, PollError, Commit,
     SetWatch, WatchMap
<1>6. \/ items' = items
      \/ items' = [items EXCEPT ![i].status = "Blocked"]
  BY DEF WatchStep, PollClear, PollPending, PollFailing, PollError, Commit
<1>7. items'[i].status = "Done" => ~Gated(i)
  BY <1>1, <1>4, <1>6 DEF ItemMap, WorkItem
<1>8. \A j \in Items \ {i} : items'[j] = items[j]
  BY <1>1, <1>6 DEF ItemMap
<1> QED
  BY <1>5, <1>7, <1>8 DEF GateHolds, WatchesClear

LEMMA OperatorStepGate ==
  ASSUME TypeOK, GateHolds, OperatorStep
  PROVE  GateHolds'
<1>1. items \in ItemMap /\ watches \in WatchMap /\ tasks \in Seq(Task)
  BY DEF TypeOK, ItemMap, WatchMap
<1>2. ASSUME NEW i \in Items, McpApprove(i) PROVE GateHolds'
  <2>1. GateOn(items', watches')
    BY <1>1, <1>2, ApprovedType, ApprovedGate, TickGate DEF McpApprove
  <2> QED
    BY <2>1 DEF GateOn, GateHolds, WatchesClear
<1>3. ASSUME NEW i \in Items, McpReject(i) PROVE GateHolds'
  <2>1. PICK ts \in WithFixTask(i, tasks) : CliTick(ChangesRequested(i), watches, ts)
    BY <1>3 DEF McpReject
  <2>2. ts \in Seq(Task)
    BY <1>1, <2>1, FixTaskType
  <2>3. GateOn(items', watches')
    BY <1>1, <2>1, <2>2, ChangesRequestedType, ChangesRequestedGate, TickGate
  <2> QED
    BY <2>3 DEF GateOn, GateHolds, WatchesClear
<1>4. CASE NoteResume
  <2>1. items' = items
    BY <1>4 DEF NoteResume
  <2>2. \A i \in Items : WatchesClear(watches, i) => WatchesClear(watches', i)
    <3>1. \A i \in Items, k \in WatchKinds :
            watches[i][k].status \in {"None", "Done"} => watches'[i][k] = watches[i][k]
      BY <1>4 DEF NoteResume
    <3> QED
      BY <3>1 DEF WatchesClear
  <2> QED
    BY <2>1, <2>2 DEF GateHolds, WatchesClear
<1>5. ASSUME NEW i \in Items, NEW a \in Agents, NoteRedirect(i, a) PROVE GateHolds'
  <2>1. items' = [items EXCEPT ![i] = AssignTo(items[i], a)] /\ watches' = watches
    BY <1>5 DEF NoteRedirect
  <2>2. AssignTo(items[i], a).status = "Assigned"
    BY <1>1, AssignToType DEF ItemMap
  <2> QED
    BY <1>1, <2>1, <2>2 DEF ItemMap, GateHolds, WatchesClear
<1>6. CASE UNCHANGED <<items, watches>>
  BY <1>6 DEF GateHolds, WatchesClear
<1> QED
  BY <1>2, <1>3, <1>4, <1>5, <1>6
  DEF OperatorStep, NotePause, StopMission, ResumeMission

LEMMA TickDiesGate ==
  ASSUME TypeOK, GateHolds, TickDies
  PROVE  GateHolds'
<1>1. /\ items \in ItemMap /\ watches \in WatchMap /\ tasks \in Seq(Task)
      /\ GateOn(items, watches)
  BY DEF TypeOK, ItemMap, WatchMap, GateOn, GateHolds
<1>2. PICK auth \in Authorities(tasks) :
        LET planned == Planned(items, watches, tasks, auth)
        IN  /\ planned \in ItemMap
            /\ \E hires \in Hires(planned) : items' = AssignedItems(planned, hires)
  BY TickDiesCases
<1>3. GateOn(items', watches)
  BY <1>1, <1>2, PlannedGate, AssignedGate
<1>4. watches' = watches
  BY DEF TickDies
<1> QED
  BY <1>3, <1>4 DEF GateOn, GateHolds, WatchesClear

LEMMA NextGate == TypeOK /\ GateHolds /\ [Next]_vars => GateHolds'
<1> SUFFICES ASSUME TypeOK, GateHolds, [Next]_vars PROVE GateHolds'
  OBVIOUS
<1>1. CASE DispatcherTick
  <2>1. GateOn(items', watches')
    BY <1>1, TickGate DEF DispatcherTick, TypeOK, ItemMap, WatchMap, GateOn, GateHolds
  <2> QED
    BY <2>1 DEF GateOn, GateHolds, WatchesClear
<1>2. CASE TickDies
  BY <1>2, TickDiesGate
<1>3. CASE \E n \in 1 .. Len(tasks) : TaskStep(n)
  BY <1>3, TaskStepGate
<1>4. CASE \E i \in Items, k \in WatchKinds : WatchStep(i, k)
  BY <1>4, WatchStepGate
<1>5. CASE OperatorStep
  BY <1>5, OperatorStepGate
<1>6. CASE UNCHANGED <<items, watches>>
  BY <1>6 DEF GateHolds, WatchesClear
<1> QED
  BY <1>1, <1>2, <1>3, <1>4, <1>5, <1>6 DEF Next, AgentStep, AgentBusy, AgentIdle,
     AgentStops, AgentRestarts, AgentPruned, AgentChange, vars

\* In no reachable state of any mission is an item behind the reviewer gate
\* done without a recorded approval or with an open watch on its pull request.
THEOREM GateIsKept == Spec => []GateHolds
<1>1. Init => GateHolds
  BY DEF Init, GateHolds
<1> QED
  BY <1>1, NextGate, TypeCorrect, PTL DEF Spec

----------------------------------------------------------------------------
(***************************************************************************)
(* No work item is handed out twice, in missions in which orphaned tasks   *)
(* are not put back on the backlog: a claim from the backlog does not look *)
(* at the task's state and would bring a task back that a redirect has     *)
(* already replaced.                                                       *)
(*                                                                         *)
(* HandedOutOnce is not inductive: the watch engine makes fix tasks for    *)
(* the owner of an item in any state, so an item that may be handed out    *)
(* must have no owner, and a claim reopens tasks, so none may be queued.   *)
(***************************************************************************)

MayBeHandedOut(item) == item.status \in {"Pending", "Ready"}

\* What the proof knows of an item, given the task list.
ItemOnce(item, ts, i) ==
  /\ MayBeHandedOut(item) => item.owner = NoAgent /\ OpenTasks(ts, i) = {}
  /\ \A m, n \in OpenTasksOfKind(ts, i, "Work") : m = n

Once(its, ts) ==
  /\ \A i \in Items : ItemOnce(its[i], ts, i)
  /\ \A n \in 1 .. Len(ts) : ~ts[n].queued

\* The tasks of to are those of from; none is opened and none is queued.
Closes(from, to) ==
  /\ to \in Seq(Task) /\ Len(to) = Len(from)
  /\ \A n \in 1 .. Len(from) :
       /\ to[n].item = from[n].item /\ to[n].kind = from[n].kind
       /\ to[n].state \in NonTerminal => from[n].state \in NonTerminal
       /\ to[n].queued => from[n].queued

----------------------------------------------------------------------------
(* The ways a handler may change the task list *)

LEMMA OpenTasksAre ==
  ASSUME NEW ts \in Seq(Task), NEW i \in Items
  PROVE  /\ \A n : n \in OpenTasks(ts, i) <=>
                     /\ n \in 1 .. Len(ts)
                     /\ ts[n].item = i /\ ts[n].state \in NonTerminal
         /\ \A n : n \in OpenTasksOfKind(ts, i, "Work") <=>
                     n \in OpenTasks(ts, i) /\ ts[n].kind = "Work"
BY LenProperties DEF OpenTasks, OpenTasksOfKind

LEMMA ClosesOnce ==
  ASSUME NEW its \in ItemMap, NEW ts \in Seq(Task), Once(its, ts),
         NEW its2 \in ItemMap, NEW ts2 \in Seq(Task), Closes(ts, ts2),
         \A i \in Items : its2[i] = its[i] \/ ~MayBeHandedOut(its2[i])
  PROVE  Once(its2, ts2)
<1>1. \A i \in Items :
        /\ OpenTasks(ts2, i) \subseteq OpenTasks(ts, i)
        /\ OpenTasksOfKind(ts2, i, "Work") \subseteq OpenTasksOfKind(ts, i, "Work")
  BY OpenTasksAre DEF Closes
<1>2. \A n \in 1 .. Len(ts2) : ~ts2[n].queued
  BY DEF Once, Closes
<1>3. ASSUME NEW i \in Items PROVE ItemOnce(its2[i], ts2, i)
  BY <1>1 DEF Once, ItemOnce
<1> QED
  BY <1>2, <1>3 DEF Once

\* One more task, for an item that is not to be handed out: as work only if
\* the item has no open task.
LEMMA AppendOnce ==
  ASSUME NEW its \in ItemMap, NEW ts \in Seq(Task), Once(its, ts),
         NEW kind \in {"Work", "Fix", "Review"}, NEW i \in Items, NEW a \in Agents,
         ~MayBeHandedOut(its[i]), kind = "Work" => OpenTasks(ts, i) = {}
  PROVE  Once(its, Append(ts, NewTask(kind, i, a)))
<1> DEFINE new == NewTask(kind, i, a)
           ts2 == Append(ts, new)
<1>1. /\ new \in Task /\ new.item = i /\ new.kind = kind /\ ~new.queued
      /\ new.state = "Assigned"
  BY NewTaskType DEF NewTask
<1>2. /\ ts2 \in Seq(Task)
      /\ Len(ts2) = Len(ts) + 1 /\ Len(ts) \in Nat
      /\ \A n \in 1 .. Len(ts) : ts2[n] = ts[n]
      /\ ts2[Len(ts) + 1] = new
  BY <1>1, AppendProperties, LenProperties
<1> HIDE DEF new, ts2
<1>3. ASSUME NEW j \in Items, NEW n, n \in OpenTasks(ts2, j)
      PROVE  \/ n \in OpenTasks(ts, j) /\ ts2[n] = ts[n]
             \/ j = i /\ n = Len(ts) + 1
  <2>1. n \in 1 .. Len(ts2) /\ ts2[n].item = j /\ ts2[n].state \in NonTerminal
    BY <1>2, <1>3, OpenTasksAre
  <2>2. CASE n \in 1 .. Len(ts)
    BY <1>2, <2>1, <2>2, OpenTasksAre
  <2>3. CASE n \notin 1 .. Len(ts)
    <3>1. n = Len(ts) + 1
      BY <1>2, <2>1, <2>3
    <3> QED
      BY <1>1, <1>2, <2>1, <3>1
  <2> QED
    BY <2>2, <2>3
<1>4. ASSUME NEW j \in Items, NEW n, n \in OpenTasksOfKind(ts2, j, "Work")
      PROVE  \/ n \in OpenTasksOfKind(ts, j, "Work")
             \/ j = i /\ n = Len(ts) + 1 /\ kind = "Work"
  <2>1. n \in OpenTasks(ts2, j) /\ ts2[n].kind = "Work"
    BY <1>4 DEF OpenTasksOfKind
  <2> QED
    BY <1>1, <1>2, <1>3, <2>1 DEF OpenTasksOfKind
<1>5. \A n \in 1 .. Len(ts2) : ~ts2[n].queued
  BY <1>1, <1>2 DEF Once
<1>6. ASSUME NEW j \in Items PROVE ItemOnce(its[j], ts2, j)
  <2>1. ItemOnce(its[j], ts, j)
    BY DEF Once
  <2>2. MayBeHandedOut(its[j]) => OpenTasks(ts2, j) = {}
    BY <1>3, <2>1 DEF ItemOnce
  <2>3. \A m, n \in OpenTasksOfKind(ts2, j, "Work") : m = n
    <3>1. OpenTasksOfKind(ts, i, "Work") \subseteq OpenTasks(ts, i)
      BY DEF OpenTasksOfKind
    <3> QED
      BY <1>4, <2>1, <3>1 DEF ItemOnce
  <2> QED
    BY <2>1, <2>2, <2>3 DEF ItemOnce
<1> QED
  BY <1>5, <1>6 DEF Once, ts2, new

----------------------------------------------------------------------------
(* The tick *)

\* Before it hands anything out, a tick frees only items without open tasks.
LEMMA PlannedOnce ==
  ASSUME NEW its \in ItemMap, NEW ws \in WatchMap, NEW ts \in Seq(Task),
         NEW auth \in Authorities(ts), Once(its, ts)
  PROVE  Once(Planned(its, ws, ts, auth), ts)
<1> DEFINE planned == Planned(its, ws, ts, auth)
<1>1. ASSUME NEW i \in Items PROVE ItemOnce(planned[i], ts, i)
  <2> DEFINE r == Reconciled(its[i], ts, auth[i])
  <2>1. /\ planned[i].owner = r.owner
        /\ MayBeHandedOut(planned[i]) => MayBeHandedOut(r)
    BY PlannedItem DEF MayBeHandedOut
  <2>2. ItemOnce(its[i], ts, i) /\ its[i] \in WorkItem
    BY DEF Once, ItemMap
  <2>3. ASSUME MayBeHandedOut(r)
        PROVE  r.owner = NoAgent /\ OpenTasks(ts, i) = {}
    <3>1. CASE auth[i] # 0
      <4>1. auth[i] \in OpenTasks(ts, i)
        BY <3>1, AuthorityIsOpen
      <4>2. its[i].status = "Done" \/ r = FollowTask(its[i], ts[auth[i]])
        BY <3>1 DEF Reconciled
      <4>3. MayBeHandedOut(its[i])
        BY <2>2, <2>3, <4>2 DEF Reconciled, FollowTask, MayBeHandedOut, WorkItem
      <4> QED
        BY <2>2, <4>1, <4>3 DEF ItemOnce
    <3>2. CASE auth[i] = 0
      <4>1. OpenTasks(ts, i) = {}
        BY <3>2, AuthorityIsOpen
      <4>2. its[i].status = "Done" \/ r = ReleaseStale(its[i])
        BY <3>2 DEF Reconciled
      <4>3. r.owner = NoAgent
        BY <2>2, <2>3, <4>2 DEF Reconciled, ReleaseStale, MayBeHandedOut, ItemOnce,
           WorkItem
      <4> QED
        BY <4>1, <4>3
    <3> QED
      BY <3>1, <3>2
  <2> HIDE DEF planned, r
  <2> QED
    BY <2>1, <2>2, <2>3 DEF ItemOnce
<1> QED
  BY <1>1 DEF Once

\* Every item of hires gets an owner, and every item of done a task: all of
\* them when the tick ends, one less when it dies.
LEMMA HiredOnce ==
  ASSUME NEW its \in ItemMap, NEW ts \in Seq(Task), Once(its, ts),
         NEW hires \in Hires(its), NEW done \in Hires(its),
         Len(done) <= Len(hires), \A y \in 1 .. Len(done) : hires[y] = done[y]
  PROVE  Once(AssignedItems(its, hires), ts \o WorkTasks(done))
<1> DEFINE new  == WorkTasks(done)
           ts2  == ts \o new
           its2 == AssignedItems(its, hires)
<1>1. /\ new \in Seq(Task) /\ Len(new) = Len(done) /\ Len(done) \in Nat
      /\ \A y \in 1 .. Len(done) : new[y].item = done[y].item /\ ~new[y].queued
  <2>1. /\ new \in Seq(Task) /\ Len(new) = Len(done)
        /\ \A y \in 1 .. Len(done) :
             new[y] = NewTask("Work", done[y].item, done[y].agent)
    BY WorkTasksType
  <2>2. Len(done) \in Nat
    BY HiresType
  <2>3. \A i, a : NewTask("Work", i, a).item = i /\ ~NewTask("Work", i, a).queued
    BY DEF NewTask
  <2> HIDE DEF new
  <2> QED
    BY <2>1, <2>2, <2>3
<1> HIDE DEF new
<1>2. /\ ts2 \in Seq(Task) /\ Len(ts2) = Len(ts) + Len(done) /\ Len(ts) \in Nat
      /\ \A n \in 1 .. Len(ts2) :
           \/ n \in 1 .. Len(ts) /\ ts2[n] = ts[n]
           \/ n - Len(ts) \in 1 .. Len(done) /\ ts2[n] = new[n - Len(ts)]
  <2>1. /\ ts2 \in Seq(Task) /\ Len(ts2) = Len(ts) + Len(new)
        /\ \A n \in 1 .. Len(ts) + Len(new) :
             ts2[n] = IF n <= Len(ts) THEN ts[n] ELSE new[n - Len(ts)]
    <3>1. new \in Seq(Task)
      BY <1>1
    <3> QED
      BY <3>1, ConcatProperties
  <2>2. Len(ts) \in Nat
    BY LenProperties
  <2> HIDE DEF ts2
  <2> QED
    BY <1>1, <2>1, <2>2
<1> HIDE DEF ts2
<1>3. \A n \in 1 .. Len(ts2) : ~ts2[n].queued
  BY <1>1, <1>2 DEF Once
<1>4. ASSUME NEW i \in Items PROVE ItemOnce(its2[i], ts2, i)
  <2>1. ItemOnce(its[i], ts, i)
    BY DEF Once
  <2>2. CASE \E y \in 1 .. Len(done) : done[y].item = i
    <3>1. PICK x \in 1 .. Len(done) : done[x].item = i
      BY <2>2
    <3>2. /\ \A y \in 1 .. Len(done) : done[y].item = i => y = x
          /\ its[i].status = "Ready"
      BY <3>1 DEF Hires
    <3>3. OpenTasks(ts, i) = {}
      BY <2>1, <3>2 DEF ItemOnce, MayBeHandedOut
    <3>4. \A n \in OpenTasks(ts2, i) : n = Len(ts) + x
      <4> TAKE n \in OpenTasks(ts2, i)
      <4>1. n \in 1 .. Len(ts2) /\ ts2[n].item = i /\ ts2[n].state \in NonTerminal
        BY <1>2, OpenTasksAre
      <4>2. ~(n \in 1 .. Len(ts) /\ ts2[n] = ts[n])
        BY <3>3, <4>1, OpenTasksAre
      <4>3. n - Len(ts) \in 1 .. Len(done) /\ done[n - Len(ts)].item = i
        BY <1>1, <1>2, <4>1, <4>2
      <4>4. n - Len(ts) = x /\ n \in Int /\ Len(ts) \in Int
        BY <1>2, <3>2, <4>1, <4>3
      <4> QED
        BY <4>4
    <3>5. its2[i].status = "Assigned"
      <4>1. x \in 1 .. Len(hires) /\ hires[x].item = i
        BY <3>1, HiresType
      <4> QED
        BY <4>1, AssignedItem
    <3> QED
      BY <3>4, <3>5 DEF ItemOnce, MayBeHandedOut, OpenTasksOfKind
  <2>3. CASE ~\E y \in 1 .. Len(done) : done[y].item = i
    <3>1. ASSUME NEW n, n \in OpenTasks(ts2, i)
          PROVE  n \in OpenTasks(ts, i) /\ ts2[n] = ts[n]
      <4>1. n \in 1 .. Len(ts2) /\ ts2[n].item = i /\ ts2[n].state \in NonTerminal
        BY <1>2, <3>1, OpenTasksAre
      <4>2. n \in 1 .. Len(ts) /\ ts2[n] = ts[n]
        BY <1>1, <1>2, <2>3, <4>1
      <4> QED
        BY <4>1, <4>2, OpenTasksAre
    <3>2. its2[i] = its[i] \/ its2[i].status = "Assigned"
      BY AssignedItem
    <3> QED
      BY <2>1, <3>1, <3>2 DEF ItemOnce, MayBeHandedOut, OpenTasksOfKind
  <2> QED
    BY <2>2, <2>3
<1> QED
  BY <1>3, <1>4 DEF Once, ts2, new

LEMMA TickOnce ==
  ASSUME NEW its \in ItemMap, NEW ws \in WatchMap, NEW ts \in Seq(Task),
         Once(its, ts), TickFrom(its, ws, ts) \/ CliTick(its, ws, ts)
  PROVE  Once(items', tasks')
<1>1. CASE Commit(its, ws, ts)
  BY <1>1 DEF Commit
<1>2. ASSUME NEW auth \in Authorities(ts),
             NEW hires \in Hirings(Planned(its, ws, ts, auth)),
             items' = AssignedItems(Planned(its, ws, ts, auth), hires),
             tasks' = ts \o WorkTasks(hires)
      PROVE  Once(items', tasks')
  <2>1. Planned(its, ws, ts, auth) \in ItemMap
    BY PlannedType
  <2>2. hires \in Hires(Planned(its, ws, ts, auth)) /\ Len(hires) \in Nat
    BY <2>1, HiringsType, HiresType
  <2> QED
    BY <1>2, <2>1, <2>2, PlannedOnce, HiredOnce
<1> QED
  BY <1>1, <1>2, TickCases DEF CliTick

----------------------------------------------------------------------------
(* The other steps *)

OnceNow == Once(items, tasks)

LEMMA CompletedCloses ==
  ASSUME TypeOK, NEW n \in DOMAIN tasks
  PROVE  Closes(tasks, CompletedTasks(n))
<1>1. /\ tasks[n] \in Task /\ CompletedTasks(n) \in Seq(Task)
      /\ Len(CompletedTasks(n)) = Len(tasks)
  BY CompletedTasksType
<1>2. CompletedTasks(n) = [tasks EXCEPT ![n] = [tasks[n] EXCEPT !.state = "Completed"]]
  BY Zenon DEF CompletedTasks
<1>3. LET t == [tasks[n] EXCEPT !.state = "Completed"]
      IN  /\ t.item = tasks[n].item /\ t.kind = tasks[n].kind
          /\ t.queued = tasks[n].queued /\ t.state \notin NonTerminal
  BY <1>1 DEF Task, NonTerminal
<1>4. DOMAIN tasks = 1 .. Len(tasks)
  BY LenProperties DEF TypeOK
<1> QED
  BY <1>1, <1>2, <1>3, <1>4 DEF Closes

LEMMA ReviewOnce ==
  ASSUME NEW its \in ItemMap, NEW list \in Seq(Task), Once(its, list), NEW i \in Items,
         ~MayBeHandedOut(its[i]), NEW ts \in WithReviewTask(i, list)
  PROVE  Once(its, ts)
<1>1. ASSUME NEW a \in Agents PROVE Once(its, Append(list, NewTask("Review", i, a)))
  BY AppendOnce
<1>2. \/ ts = list
      \/ \E a \in Agents : ts = Append(list, NewTask("Review", i, a))
  BY ReviewTaskType
<1> QED
  BY <1>1, <1>2

LEMMA FixOnce ==
  ASSUME TypeOK, NEW its \in ItemMap, NEW list \in Seq(Task), Once(its, list),
         NEW i \in Items, ~MayBeHandedOut(its[i]), NEW ts \in WithFixTask(i, list)
  PROVE  Once(its, ts)
<1>1. ASSUME NEW a \in Agents PROVE Once(its, Append(list, NewTask("Fix", i, a)))
  BY AppendOnce
<1>2. \/ ts = list
      \/ \E a \in Agents : ts = Append(list, NewTask("Fix", i, a))
  BY FixTaskType
<1> QED
  BY <1>1, <1>2

\* An agent or a recovery changes one task: it neither opens nor queues it.
LEMMA SetTaskOnce ==
  ASSUME TypeOK, OnceNow, NEW n \in DOMAIN tasks, NEW task \in Task,
         task.item = tasks[n].item, task.kind = tasks[n].kind,
         task.state \in NonTerminal => tasks[n].state \in NonTerminal,
         task.queued => tasks[n].queued, SetTask(n, task), UNCHANGED items
  PROVE  OnceNow'
<1>1. tasks \in Seq(Task) /\ n \in 1 .. Len(tasks) /\ items \in ItemMap
  BY LenProperties DEF TypeOK, ItemMap
<1>2. [tasks EXCEPT ![n] = task] \in Seq(Task)
      /\ Len([tasks EXCEPT ![n] = task]) = Len(tasks)
  BY <1>1, ExceptSeq
<1>3. Closes(tasks, [tasks EXCEPT ![n] = task])
  <2>1. DOMAIN tasks = 1 .. Len(tasks)
    BY <1>1, LenProperties
  <2> QED
    BY <1>1, <1>2, <2>1 DEF Closes
<1> QED
  BY <1>1, <1>2, <1>3, ClosesOnce DEF SetTask, OnceNow

LEMMA ApprovedOnce ==
  ASSUME TypeOK, NEW i \in Items
  PROVE  \A j \in Items : Approved(i)[j] = items[j] \/ ~MayBeHandedOut(Approved(i)[j])
<1>1. items \in ItemMap /\ items[i] \in WorkItem
  BY DEF TypeOK, ItemMap
<1> QED
  BY <1>1 DEF Approved, ItemMap, WorkItem, MayBeHandedOut

LEMMA ChangesRequestedOnce ==
  ASSUME TypeOK, NEW i \in Items
  PROVE  /\ ~MayBeHandedOut(ChangesRequested(i)[i])
         /\ \A j \in Items \ {i} : ChangesRequested(i)[j] = items[j]
<1>1. items \in ItemMap /\ items[i] \in WorkItem
  BY DEF TypeOK, ItemMap
<1> QED
  BY <1>1 DEF ChangesRequested, ItemMap, WorkItem, MayBeHandedOut

LEMMA SubmitWorkOnce ==
  ASSUME TypeOK, OnceNow, NEW n, NEW pr \in BOOLEAN, SubmitWork(n, pr)
  PROVE  OnceNow'
<1> DEFINE i       == tasks[n].item
           list    == CompletedTasks(n)
           waiting == Submitted(i)
           done    == [items EXCEPT ![i].status = "Done", ![i].evidence = TRUE]
<1>1. i \in Items /\ list \in Seq(Task) /\ n \in DOMAIN tasks
  BY CompleteType DEF SubmitWork
<1>2. /\ items \in ItemMap /\ items[i] \in WorkItem
      /\ watches \in WatchMap /\ tasks \in Seq(Task)
  BY <1>1 DEF TypeOK, ItemMap, WatchMap
<1>3. /\ [[[items[i] EXCEPT !.status = "Blocked"] EXCEPT !.evidence = TRUE]
             EXCEPT !.approved = FALSE] \in WorkItem
      /\ [[items[i] EXCEPT !.status = "Done"] EXCEPT !.evidence = TRUE] \in WorkItem
  BY <1>2 DEF WorkItem, WorkStatus
<1>4. /\ waiting \in ItemMap /\ done \in ItemMap
      /\ waiting[i].status = "Blocked" /\ done[i].status = "Done"
      /\ \A j \in Items \ {i} : waiting[j] = items[j] /\ done[j] = items[j]
  BY <1>1, <1>2, <1>3 DEF ItemMap, WorkItem, Submitted
<1> HIDE DEF waiting, done
<1>5. Closes(tasks, list)
  BY <1>1, CompletedCloses
<1>6. Once(waiting, list) /\ Once(done, list) /\ ~MayBeHandedOut(waiting[i])
  <2>1. \A j \in Items : /\ waiting[j] = items[j] \/ ~MayBeHandedOut(waiting[j])
                         /\ done[j] = items[j] \/ ~MayBeHandedOut(done[j])
    BY <1>4 DEF MayBeHandedOut
  <2> HIDE DEF list
  <2>2. Once(items, tasks) /\ items \in ItemMap /\ tasks \in Seq(Task) /\ list \in Seq(Task)
    BY <1>1, <1>2 DEF OnceNow
  <2>3. Once(waiting, list)
    BY <1>4, <1>5, <2>1, <2>2, ClosesOnce
  <2>4. Once(done, list)
    BY <1>4, <1>5, <2>1, <2>2, ClosesOnce
  <2> QED
    BY <1>4, <2>3, <2>4 DEF MayBeHandedOut
<1>7. CASE pr \/ Gated(i)
  <2>1. PICK ts \in IF Gated(i) THEN WithReviewTask(i, list) ELSE {list} :
          items' = waiting /\ tasks' = ts
    BY <1>7, Zenon DEF SubmitWork, Commit, waiting
  <2> HIDE DEF i, list
  <2>2. Once(waiting, ts)
    BY <1>1, <1>4, <1>6, <2>1, ReviewOnce
  <2> QED
    BY <2>1, <2>2 DEF OnceNow
<1>8. CASE ~(pr \/ Gated(i))
  <2>1. CliTick(done, watches, list)
    BY <1>8, Zenon DEF SubmitWork, done
  <2> HIDE DEF i, list
  <2> QED
    BY <1>1, <1>2, <1>4, <1>6, <2>1, TickOnce DEF OnceNow
<1> QED
  BY <1>7, <1>8

LEMMA TaskStepOnce ==
  ASSUME TypeOK, OnceNow, "reclaim" \notin Disturbances,
         NEW n \in 1 .. Len(tasks), TaskStep(n)
  PROVE  OnceNow'
<1>1. /\ tasks[n] \in Task /\ n \in DOMAIN tasks /\ tasks \in Seq(Task)
      /\ items \in ItemMap /\ watches \in WatchMap
  BY ElementOfSeq, LenProperties DEF TypeOK, ItemMap, WatchMap
<1>2. tasks[n].item \in Items /\ CompletedTasks(n) \in Seq(Task)
  BY <1>1, CompletedTasksType DEF Task
<1>3. Closes(tasks, CompletedTasks(n))
  BY <1>1, CompletedCloses
<1>4. ~tasks[n].queued
  BY DEF OnceNow, Once
<1>5. ASSUME NEW pr \in BOOLEAN, SubmitWork(n, pr) PROVE OnceNow'
  BY <1>5, SubmitWorkOnce
<1>6. CASE ApproveReview(n)
  <2> DEFINE its == Approved(tasks[n].item)
  <2>1. its \in ItemMap
    BY <1>2, ApprovedType
  <2>2. \A j \in Items : its[j] = items[j] \/ ~MayBeHandedOut(its[j])
    BY <1>2, ApprovedOnce
  <2>3. \/ CliTick(its, watches, CompletedTasks(n))
        \/ Commit(its, watches, CompletedTasks(n))
    BY <1>6 DEF ApproveReview
  <2> HIDE DEF its
  <2>4. Once(its, CompletedTasks(n))
    BY <1>1, <1>2, <1>3, <2>1, <2>2, ClosesOnce DEF OnceNow
  <2> QED
    BY <1>1, <1>2, <2>1, <2>3, <2>4, TickOnce DEF OnceNow, Commit
<1>7. CASE RejectReview(n)
  <2> DEFINE i == tasks[n].item
             its == ChangesRequested(i)
  <2>1. PICK ts \in WithFixTask(i, CompletedTasks(n)) : items' = its /\ tasks' = ts
    BY <1>7 DEF RejectReview, Commit
  <2>2. /\ its \in ItemMap /\ ~MayBeHandedOut(its[i])
        /\ \A j \in Items \ {i} : its[j] = items[j]
    BY <1>2, ChangesRequestedType, ChangesRequestedOnce
  <2> HIDE DEF its
  <2>3. Once(its, CompletedTasks(n))
    BY <1>1, <1>2, <1>3, <2>2, ClosesOnce DEF OnceNow
  <2> HIDE DEF i
  <2>4. Once(its, ts)
    BY <1>2, <2>1, <2>2, <2>3, FixOnce DEF i
  <2> QED
    BY <2>1, <2>4 DEF OnceNow
<1>8. CASE McpComplete(n)
  BY <1>1, <1>2, <1>3, <1>8, ClosesOnce DEF McpComplete, Commit, OnceNow
<1>9. CASE StartTask(n)
  <2>1. LET t == [tasks[n] EXCEPT !.state = "Running"]
        IN  /\ t \in Task /\ t.item = tasks[n].item /\ t.kind = tasks[n].kind
            /\ t.queued = tasks[n].queued
    BY <1>1 DEF Task, NonTerminal
  <2> QED
    BY <1>1, <1>9, <2>1, SetTaskOnce DEF StartTask, NonTerminal
<1>10. CASE FailRound(n)
  <2>1. LET t == [tasks[n] EXCEPT !.state = "Assigned"]
        IN  /\ t \in Task /\ t.item = tasks[n].item /\ t.kind = tasks[n].kind
            /\ t.queued = tasks[n].queued
    BY <1>1 DEF Task, NonTerminal
  <2> QED
    BY <1>1, <1>10, <2>1, SetTaskOnce DEF FailRound, NonTerminal
<1>11. CASE CancelOrphan(n)
  <2>1. LET t == [tasks[n] EXCEPT !.state = "Cancelled"]
        IN  /\ t \in Task /\ t.item = tasks[n].item /\ t.kind = tasks[n].kind
            /\ t.queued = tasks[n].queued
    BY <1>1 DEF Task, NonTerminal
  <2> QED
    BY <1>1, <1>11, <2>1, SetTaskOnce DEF CancelOrphan, NonTerminal
<1>12. ~RequeueOrphan(n) /\ \A a \in Agents : ~ClaimTask(n, a)
  BY <1>4 DEF RequeueOrphan, Disturb, ClaimTask
<1> QED
  BY <1>5, <1>6, <1>7, <1>8, <1>9, <1>10, <1>11, <1>12 DEF TaskStep

\* The watch engine makes a fix task only for an item that has an owner.
LEMMA WatchStepOnce ==
  ASSUME TypeOK, OnceNow, NEW i \in Items, NEW k \in WatchKinds, WatchStep(i, k)
  PROVE  OnceNow'
<1>1. items \in ItemMap /\ tasks \in Seq(Task) /\ items[i] \in WorkItem
  BY DEF TypeOK, ItemMap
<1>2. CASE PollFailing(i, k)
  <2>1. items' = items
        /\ tasks' = IF items[i].owner = NoAgent THEN tasks
                    ELSE Append(tasks, NewTask("Fix", i, items[i].owner))
    BY <1>2 DEF PollFailing, Commit
  <2>2. ~MayBeHandedOut(items[i]) \/ items[i].owner = NoAgent
    BY DEF OnceNow, Once, ItemOnce
  <2>3. items[i].owner \in Agents \cup {NoAgent}
    BY <1>1 DEF WorkItem
  <2> QED
    BY <1>1, <2>1, <2>2, <2>3, AppendOnce DEF OnceNow
<1>3. CASE PollClear(i, k) \/ PollPending(i, k) \/ PollError(i, k)
  <2>1. tasks' = tasks /\ items' \in {items, [items EXCEPT ![i].status = "Blocked"]}
    BY <1>3 DEF PollClear, PollPending, PollError, Commit
  <2>2. /\ items' \in ItemMap
        /\ \A j \in Items : items'[j] = items[j] \/ ~MayBeHandedOut(items'[j])
    BY <1>1, <2>1 DEF ItemMap, WorkItem, WorkStatus, MayBeHandedOut
  <2>3. Closes(tasks, tasks)
    BY <1>1 DEF Closes
  <2> QED
    BY <1>1, <2>1, <2>2, <2>3, ClosesOnce DEF OnceNow
<1> QED
  BY <1>2, <1>3 DEF WatchStep

LEMMA RedirectOnce ==
  ASSUME TypeOK, OnceNow, NEW i \in Items, NEW a \in Agents, NoteRedirect(i, a)
  PROVE  OnceNow'
<1> DEFINE superseded == {n \in OpenTasks(tasks, i) : tasks[n].owner # a}
           cancelled  == [n \in 1 .. Len(tasks) |->
                            IF n \in superseded
                            THEN [tasks[n] EXCEPT !.state = "Cancelled"] ELSE tasks[n]]
           kind       == IF items[i].evidence THEN "Fix" ELSE "Work"
<1>1. tasks' = IF OpenTasks(cancelled, i) # {} THEN cancelled
               ELSE Append(cancelled, NewTask(kind, i, a))
  BY Zenon DEF NoteRedirect
<1>2. tasks \in Seq(Task) /\ Len(tasks) \in Nat /\ items \in ItemMap
  BY LenProperties DEF TypeOK, ItemMap
<1>3. \A n \in 1 .. Len(tasks) : tasks[n] \in Task
  BY <1>2, ElementOfSeq
<1>4. \A n \in 1 .. Len(tasks) :
        LET t == [tasks[n] EXCEPT !.state = "Cancelled"]
        IN  /\ t \in Task /\ t.item = tasks[n].item /\ t.kind = tasks[n].kind
            /\ t.queued = tasks[n].queued /\ t.state \notin NonTerminal
  BY <1>3 DEF Task, NonTerminal
<1>5. cancelled \in [1 .. Len(tasks) -> Task]
  BY <1>3, <1>4
<1>6. cancelled \in Seq(Task)
  BY <1>2, <1>5, SeqDef
<1>7. Len(cancelled) = Len(tasks)
  <2>1. DOMAIN cancelled = 1 .. Len(tasks)
    OBVIOUS
  <2> HIDE DEF cancelled
  <2> QED
    BY <1>2, <1>6, <2>1, LenProperties
<1>8. Closes(tasks, cancelled)
  BY <1>4, <1>6, <1>7 DEF Closes
<1>9. items' = [items EXCEPT ![i] = AssignTo(items[i], a)]
  BY DEF NoteRedirect
<1>10. /\ items' \in ItemMap /\ items'[i].status = "Assigned"
       /\ \A j \in Items \ {i} : items'[j] = items[j]
  BY <1>2, <1>9, AssignToType DEF ItemMap
<1> HIDE DEF cancelled
<1>11. Once(items', cancelled)
  BY <1>2, <1>6, <1>8, <1>10, ClosesOnce DEF OnceNow, MayBeHandedOut
<1>12. kind \in {"Work", "Fix", "Review"}
  OBVIOUS
<1> HIDE DEF kind
<1> QED
  BY <1>1, <1>6, <1>10, <1>11, <1>12, AppendOnce DEF OnceNow, MayBeHandedOut

LEMMA OperatorStepOnce ==
  ASSUME TypeOK, OnceNow, OperatorStep
  PROVE  OnceNow'
<1>1. items \in ItemMap /\ watches \in WatchMap /\ tasks \in Seq(Task)
  BY DEF TypeOK, ItemMap, WatchMap
<1>2. Closes(tasks, tasks)
  BY <1>1 DEF Closes
<1>3. ASSUME NEW i \in Items, McpApprove(i) PROVE OnceNow'
  <2>1. Approved(i) \in ItemMap
    BY ApprovedType
  <2>2. Once(Approved(i), tasks)
    BY <1>1, <1>2, <2>1, ApprovedOnce, ClosesOnce DEF OnceNow
  <2> QED
    BY <1>1, <1>3, <2>1, <2>2, TickOnce DEF McpApprove, OnceNow
<1>4. ASSUME NEW i \in Items, McpReject(i) PROVE OnceNow'
  <2>1. PICK ts \in WithFixTask(i, tasks) : CliTick(ChangesRequested(i), watches, ts)
    BY <1>4 DEF McpReject
  <2>2. ChangesRequested(i) \in ItemMap
    BY ChangesRequestedType
  <2>3. Once(ChangesRequested(i), tasks)
    BY <1>1, <1>2, <2>2, ChangesRequestedOnce, ClosesOnce DEF OnceNow
  <2>4. Once(ChangesRequested(i), ts)
    BY <1>1, <2>1, <2>2, <2>3, ChangesRequestedOnce, FixOnce
  <2>5. ts \in Seq(Task)
    BY <1>1, <2>1, FixTaskType
  <2> QED
    BY <1>1, <2>1, <2>2, <2>4, <2>5, TickOnce DEF OnceNow
<1>5. ASSUME NEW i \in Items, NEW a \in Agents, NoteRedirect(i, a) PROVE OnceNow'
  BY <1>5, RedirectOnce
<1>6. CASE UNCHANGED <<items, tasks>>
  BY <1>6 DEF OnceNow
<1> QED
  BY <1>3, <1>4, <1>5, <1>6
  DEF OperatorStep, NoteResume, NotePause, StopMission, ResumeMission

LEMMA TickDiesOnce ==
  ASSUME TypeOK, OnceNow, TickDies
  PROVE  OnceNow'
<1>1. /\ items \in ItemMap /\ watches \in WatchMap /\ tasks \in Seq(Task)
  BY DEF TypeOK, ItemMap, WatchMap
<1>2. PICK auth \in Authorities(tasks) :
        LET planned == Planned(items, watches, tasks, auth)
        IN  \E hires \in Hires(planned), done \in Hires(planned) :
              /\ planned \in ItemMap
              /\ Len(hires) = Len(done) + 1
              /\ \A y \in 1 .. Len(done) : hires[y] = done[y]
              /\ items' = AssignedItems(planned, hires)
              /\ tasks' = tasks \o WorkTasks(done)
  BY TickDiesCases
<1> DEFINE planned == Planned(items, watches, tasks, auth)
<1>3. Once(planned, tasks)
  BY <1>1, PlannedOnce DEF OnceNow
<1> HIDE DEF planned
<1>4. PICK hires \in Hires(planned), done \in Hires(planned) :
        /\ planned \in ItemMap
        /\ Len(hires) = Len(done) + 1
        /\ \A y \in 1 .. Len(done) : hires[y] = done[y]
        /\ items' = AssignedItems(planned, hires)
        /\ tasks' = tasks \o WorkTasks(done)
  BY <1>2 DEF planned
<1>5. Len(done) <= Len(hires)
  BY <1>4, HiresType
<1> QED
  BY <1>1, <1>3, <1>4, <1>5, HiredOnce DEF OnceNow

LEMMA NextOnce ==
  ASSUME "reclaim" \notin Disturbances
  PROVE  TypeOK /\ OnceNow /\ [Next]_vars => OnceNow'
<1> SUFFICES ASSUME TypeOK, OnceNow, [Next]_vars PROVE OnceNow'
  OBVIOUS
<1>1. CASE DispatcherTick
  BY <1>1, TickOnce DEF DispatcherTick, TypeOK, ItemMap, WatchMap, OnceNow
<1>2. CASE TickDies
  BY <1>2, TickDiesOnce
<1>3. CASE \E n \in 1 .. Len(tasks) : TaskStep(n)
  BY <1>3, TaskStepOnce
<1>4. CASE \E i \in Items, k \in WatchKinds : WatchStep(i, k)
  BY <1>4, WatchStepOnce
<1>5. CASE OperatorStep
  BY <1>5, OperatorStepOnce
<1>6. CASE UNCHANGED <<items, tasks>>
  BY <1>6 DEF OnceNow
<1> QED
  BY <1>1, <1>2, <1>3, <1>4, <1>5, <1>6 DEF Next, AgentStep, AgentBusy, AgentIdle,
     AgentStops, AgentRestarts, AgentPruned, AgentChange, vars

LEMMA OnceIsHandedOutOnce == TypeOK /\ OnceNow => HandedOutOnce
BY DEF OnceNow, Once, ItemOnce, MayBeHandedOut, HandedOutOnce

LEMMA InitOnce == Init => OnceNow
<1> SUFFICES ASSUME Init PROVE OnceNow
  OBVIOUS
<1>1. tasks = << >> /\ Len(tasks) = 0 /\ tasks \in Seq(Task)
  BY EmptySeq DEF Init
<1>2. \A i \in Items : OpenTasks(tasks, i) = {}
  BY <1>1 DEF OpenTasks
<1> QED
  BY <1>1, <1>2 DEF Init, OnceNow, Once, ItemOnce, MayBeHandedOut, OpenTasksOfKind

\* Where no orphaned task is put back on the backlog, an item the scheduler may
\* hand out has no open task, and no item ever has two open work tasks.
THEOREM WorkIsHandedOutOnce ==
  ASSUME "reclaim" \notin Disturbances
  PROVE  Spec => []HandedOutOnce
<1>1. TypeOK /\ OnceNow /\ [Next]_vars => OnceNow'
  BY NextOnce
<1> QED
  BY <1>1, InitOnce, OnceIsHandedOutOnce, TypeCorrect, PTL DEF Spec

----------------------------------------------------------------------------
(***************************************************************************)
(* The limit on items in progress. HandOutWithinLimit is about single      *)
(* steps and needs no invariant but the types: a tick makes no more hires  *)
(* than it has slots, and no other handler hands out new work but a        *)
(* redirect, which asks for no slot.                                       *)
(***************************************************************************)

InProgressBound(its) == Cardinality(InProgress(its)) <= MaxParallel

LEMMA SameUpperBound ==
  ASSUME NEW m \in Nat, NEW n \in Nat, 1 .. m = 1 .. n
  PROVE  m = n
<1>1. m < n => n \in 1 .. n /\ n \notin 1 .. m
  OBVIOUS
<1>2. n < m => m \in 1 .. m /\ m \notin 1 .. n
  OBVIOUS
<1> QED
  BY <1>1, <1>2

LEMMA InProgressFinite ==
  ASSUME NEW its
  PROVE  /\ IsFiniteSet(InProgress(its))
         /\ Cardinality(InProgress(its)) \in Nat
<1>1. InProgress(its) \in SUBSET Items
  BY DEF InProgress
<1> QED
  BY <1>1, FS_Subset, FS_CardinalityType, MissionConstants

\* A tick that hands anything out has a slot for every hire.
LEMMA HiringsBound ==
  ASSUME NEW its \in ItemMap, NEW hires \in Hirings(its)
  PROVE  \/ Len(hires) = 0
         \/ Cardinality(InProgress(its)) + Len(hires) <= MaxParallel
<1> DEFINE ready == {i \in Items : its[i].status = "Ready"}
           n == IF Cardinality(ready) < Slots(its) THEN Cardinality(ready) ELSE Slots(its)
<1>1. hires \in UNION {[1 .. m -> [item : ready, agent : Idle]] : m \in 0 .. n}
  BY Zenon DEF Hirings
<1>2. ready \in SUBSET Items
  OBVIOUS
<1> HIDE DEF ready
<1>3. Cardinality(ready) \in Nat
  BY <1>2, FS_Subset, FS_CardinalityType, MissionConstants
<1>4. Cardinality(InProgress(its)) \in Nat /\ MaxParallel \in Nat
  BY InProgressFinite, MissionConstants
<1>5. /\ Slots(its) \in Nat
      /\ \/ Slots(its) = 0
         \/ Slots(its) = MaxParallel - Cardinality(InProgress(its))
  BY <1>4 DEF Slots
<1>6. n <= Slots(its)
  BY <1>3, <1>5
<1>7. n \in Nat
  BY <1>3, <1>5
<1> HIDE DEF n
<1>8. PICK m \in 0 .. n : hires \in [1 .. m -> [item : ready, agent : Idle]]
  BY <1>1
<1>9. Len(hires) = m
  <2>1. hires \in Hires(its)
    BY HiringsType
  <2>2. DOMAIN hires = 1 .. Len(hires) /\ Len(hires) \in Nat
    BY <2>1, HiresType
  <2>3. 1 .. Len(hires) = 1 .. m /\ m \in Nat
    BY <1>7, <1>8, <2>2
  <2> QED
    BY <2>2, <2>3, SameUpperBound
<1> QED
  BY <1>4, <1>5, <1>6, <1>7, <1>9

\* Each hire adds at most one item to those in progress.
LEMMA HiredBound ==
  ASSUME NEW its \in ItemMap, NEW hires \in Hires(its)
  PROVE  Cardinality(InProgress(AssignedItems(its, hires)))
           <= Cardinality(InProgress(its)) + Len(hires)
<1> DEFINE S == 1 .. Len(hires)
           f == [x \in S |-> hires[x].item]
           T == {i \in Items : \E x \in S : hires[x].item = i}
           after == InProgress(AssignedItems(its, hires))
<1>1. Len(hires) \in Nat /\ \A x \in S : hires[x].item \in Items
  BY HiresType
<1>2. IsFiniteSet(S) /\ Cardinality(S) = Len(hires)
  BY <1>1, FS_Interval
<1>3. f \in Surjection(S, T)
  <2>1. f \in [S -> T]
    BY <1>1
  <2>2. \A t \in T : \E x \in S : f[x] = t
    OBVIOUS
  <2> QED
    BY <2>1, <2>2 DEF Surjection
<1> HIDE DEF f
<1>4. IsFiniteSet(T) /\ Cardinality(T) <= Len(hires)
  BY <1>2, <1>3, FS_Surjection
<1>5. after \in SUBSET (InProgress(its) \cup T)
  BY AssignedItem DEF InProgress
<1> HIDE DEF T, after
<1>6. IsFiniteSet(InProgress(its)) /\ Cardinality(InProgress(its)) \in Nat
  BY InProgressFinite
<1> DEFINE U == InProgress(its) \cup T
           V == InProgress(its) \cap T
<1>7. IsFiniteSet(U) /\ Cardinality(U) = Cardinality(InProgress(its)) + Cardinality(T)
                                           - Cardinality(V)
  BY <1>4, <1>6, FS_Union
<1>8. Cardinality(V) \in Nat /\ Cardinality(T) \in Nat
  BY <1>4, <1>6, FS_Intersection, FS_CardinalityType
<1>9. Cardinality(after) <= Cardinality(U)
  BY <1>5, <1>7, FS_Subset
<1>10. Cardinality(after) \in Nat /\ Cardinality(U) \in Nat
  BY <1>5, <1>7, FS_Subset, FS_CardinalityType
<1> HIDE DEF U, V
<1> QED
  BY <1>1, <1>4, <1>6, <1>7, <1>8, <1>9, <1>10 DEF after

\* The new tasks of a tick are its hires'; if there are any, the limit holds.
LEMMA TickWithinLimit ==
  ASSUME NEW its \in ItemMap, NEW ws \in WatchMap, NEW ts \in Seq(Task),
         TickFrom(its, ws, ts) \/ CliTick(its, ws, ts)
  PROVE  tasks' = ts \/ InProgressBound(items')
<1>1. CASE Commit(its, ws, ts)
  BY <1>1 DEF Commit
<1>2. ASSUME NEW auth \in Authorities(ts),
             NEW hires \in Hirings(Planned(its, ws, ts, auth)),
             items' = AssignedItems(Planned(its, ws, ts, auth), hires),
             tasks' = ts \o WorkTasks(hires)
      PROVE  tasks' = ts \/ InProgressBound(items')
  <2> DEFINE planned == Planned(its, ws, ts, auth)
  <2>1. planned \in ItemMap
    BY PlannedType
  <2> HIDE DEF planned
  <2>2. hires \in Hires(planned) /\ Len(hires) \in Nat
    BY <1>2, <2>1, HiringsType, HiresType DEF planned
  <2>3. CASE Len(hires) = 0
    <3>1. WorkTasks(hires) \in Seq(Task) /\ Len(WorkTasks(hires)) = 0
      BY <2>1, <2>2, <2>3, WorkTasksType
    <3>2. WorkTasks(hires) = << >>
      BY <3>1, EmptySeq
    <3> QED
      BY <1>2, <3>2, ConcatEmptySeq
  <2>4. CASE Len(hires) # 0
    <3>1. Cardinality(InProgress(planned)) + Len(hires) <= MaxParallel
      BY <1>2, <2>1, <2>4, HiringsBound DEF planned
    <3>2. Cardinality(InProgress(items')) <= Cardinality(InProgress(planned)) + Len(hires)
      BY <1>2, <2>1, <2>2, HiredBound DEF planned
    <3>3. /\ Cardinality(InProgress(items')) \in Nat
          /\ Cardinality(InProgress(planned)) \in Nat
      BY InProgressFinite
    <3> QED
      BY <2>2, <3>1, <3>2, <3>3, MissionConstants DEF InProgressBound
  <2> QED
    BY <2>3, <2>4
<1> QED
  BY <1>1, <1>2, TickCases DEF CliTick

\* A tick that dies on its x-th hire has made no more hires than it had slots.
LEMMA TickDiesWithinLimit ==
  ASSUME TypeOK, TickDies
  PROVE  InProgressBound(items')
<1>1. PICK auth \in Authorities(tasks) :
        \E hires \in Hirings(Planned(items, watches, tasks, auth)) :
          \E x \in 1 .. Len(hires) :
            items' = AssignedItems(Planned(items, watches, tasks, auth),
                                   SubSeq(hires, 1, x))
  BY Zenon DEF TickDies
<1> DEFINE planned == Planned(items, watches, tasks, auth)
<1>2. planned \in ItemMap
  BY PlannedType DEF TypeOK, ItemMap
<1> HIDE DEF planned
<1>3. PICK all \in Hirings(planned) : \E x \in 1 .. Len(all) :
        items' = AssignedItems(planned, SubSeq(all, 1, x))
  BY <1>1 DEF planned
<1>4. PICK x \in 1 .. Len(all) : items' = AssignedItems(planned, SubSeq(all, 1, x))
  BY <1>3
<1>5. all \in Hires(planned) /\ Len(all) \in Nat
  BY <1>2, HiringsType, HiresType
<1>6. SubSeq(all, 1, x) \in Hires(planned) /\ Len(SubSeq(all, 1, x)) = x
  <2>1. x \in 0 .. Len(all)
    BY <1>4, <1>5
  <2> QED
    BY <1>5, <2>1, FirstHires
<1>7. Cardinality(InProgress(planned)) + Len(all) <= MaxParallel
  BY <1>2, <1>4, <1>5, HiringsBound
<1>8. Cardinality(InProgress(items')) <= Cardinality(InProgress(planned)) + x
  BY <1>2, <1>4, <1>6, HiredBound
<1>9. /\ Cardinality(InProgress(items')) \in Nat
      /\ Cardinality(InProgress(planned)) \in Nat
  BY InProgressFinite
<1> QED
  BY <1>4, <1>5, <1>7, <1>8, <1>9, MissionConstants DEF InProgressBound

\* What HandOutWithinLimit says of a step.
HandsOutWithinLimit ==
  Len(tasks') > Len(tasks) /\ tasks'[Len(tasks')].kind = "Work" => InProgressBound(items')

\* A list that is no longer, or that ends in a fix or a review.
LEMMA NoWorkIsAdded ==
  ASSUME NEW list \in Seq(Task), Len(list) = Len(tasks),
         \/ tasks' = list
         \/ \E kind \in {"Fix", "Review"}, i \in Items, a \in Agents :
              tasks' = Append(list, NewTask(kind, i, a))
  PROVE  HandsOutWithinLimit
<1>1. CASE tasks' = list
  BY <1>1, LenProperties DEF HandsOutWithinLimit
<1>2. ASSUME NEW kind \in {"Fix", "Review"}, NEW i \in Items, NEW a \in Agents,
             tasks' = Append(list, NewTask(kind, i, a))
      PROVE  HandsOutWithinLimit
  <2> DEFINE new == NewTask(kind, i, a)
  <2>1. new \in Task /\ new.kind # "Work"
    BY NewTaskType DEF NewTask
  <2> HIDE DEF new
  <2>2. tasks' = Append(list, new)
    BY <1>2 DEF new
  <2>3. tasks'[Len(tasks')] = new
    BY <2>1, <2>2, AppendProperties
  <2> QED
    BY <2>1, <2>3 DEF HandsOutWithinLimit
<1> QED
  BY <1>1, <1>2

\* A tick, on a list that a handler has left behind.
LEMMA TickHandsOut ==
  ASSUME NEW its \in ItemMap, NEW ws \in WatchMap, NEW list \in Seq(Task),
         Len(list) = Len(tasks), NEW ts \in Seq(Task),
         \/ ts = list
         \/ \E kind \in {"Fix", "Review"}, i \in Items, a \in Agents :
              ts = Append(list, NewTask(kind, i, a)),
         TickFrom(its, ws, ts) \/ CliTick(its, ws, ts)
  PROVE  HandsOutWithinLimit
<1>1. CASE tasks' = ts
  BY <1>1, NoWorkIsAdded
<1>2. CASE InProgressBound(items')
  BY <1>2 DEF HandsOutWithinLimit
<1> QED
  BY <1>1, <1>2, TickWithinLimit

LEMMA SetTaskHandsOut ==
  ASSUME TypeOK, NEW n \in DOMAIN tasks, NEW task, SetTask(n, task)
  PROVE  HandsOutWithinLimit
<1>1. tasks \in Seq(Task) /\ DOMAIN tasks = 1 .. Len(tasks) /\ Len(tasks) \in Nat
  BY LenProperties DEF TypeOK
<1>2. tasks' \in [1 .. Len(tasks) -> Task \cup {task}]
  BY <1>1, ElementOfSeq DEF SetTask
<1>3. tasks' \in Seq(Task \cup {task})
  BY <1>1, <1>2, SeqDef
<1>4. Len(tasks') = Len(tasks)
  <2>1. DOMAIN tasks' = 1 .. Len(tasks') /\ Len(tasks') \in Nat
    BY <1>3, LenProperties
  <2>2. 1 .. Len(tasks') = 1 .. Len(tasks)
    BY <1>2, <2>1
  <2> QED
    BY <1>1, <2>1, <2>2, SameUpperBound
<1> QED
  BY <1>1, <1>4 DEF HandsOutWithinLimit

LEMMA TaskStepHandsOut ==
  ASSUME TypeOK, NEW n \in 1 .. Len(tasks), TaskStep(n)
  PROVE  HandsOutWithinLimit
<1> DEFINE i    == tasks[n].item
           list == CompletedTasks(n)
<1>1. /\ n \in DOMAIN tasks /\ tasks \in Seq(Task) /\ tasks[n] \in Task
      /\ items \in ItemMap /\ watches \in WatchMap
  BY ElementOfSeq, LenProperties DEF TypeOK, ItemMap, WatchMap
<1>2. i \in Items /\ list \in Seq(Task) /\ Len(list) = Len(tasks)
  BY <1>1, CompletedTasksType DEF Task
<1>3. ASSUME NEW pr \in BOOLEAN, SubmitWork(n, pr) PROVE HandsOutWithinLimit
  <2> DEFINE done == [items EXCEPT ![i].status = "Done", ![i].evidence = TRUE]
  <2>1. CASE pr \/ Gated(i)
    <3>1. PICK ts \in IF Gated(i) THEN WithReviewTask(i, list) ELSE {list} : tasks' = ts
      BY <1>3, <2>1, Zenon DEF SubmitWork, Commit
    <3> HIDE DEF i, list
    <3>2. \/ ts = list
          \/ \E a \in Agents : ts = Append(list, NewTask("Review", i, a))
      BY <1>2, <3>1, ReviewTaskType
    <3> QED
      BY <1>2, <3>1, <3>2, NoWorkIsAdded
  <2>2. CASE ~(pr \/ Gated(i))
    <3>1. CliTick(done, watches, list)
      BY <1>3, <2>2, Zenon DEF SubmitWork
    <3>2. [[items[i] EXCEPT !.status = "Done"] EXCEPT !.evidence = TRUE] \in WorkItem
      BY <1>1, <1>2 DEF ItemMap, WorkItem, WorkStatus
    <3>3. done \in ItemMap
      BY <1>1, <1>2, <3>2 DEF ItemMap
    <3> HIDE DEF i, list, done
    <3> QED
      BY <1>1, <1>2, <3>1, <3>3, TickHandsOut
  <2> QED
    BY <2>1, <2>2
<1> HIDE DEF i, list
<1>4. CASE ApproveReview(n)
  <2>1. CliTick(Approved(i), watches, list) \/ Commit(Approved(i), watches, list)
    BY <1>4 DEF ApproveReview, i, list
  <2>2. Approved(i) \in ItemMap
    BY <1>2, ApprovedType
  <2> QED
    BY <1>1, <1>2, <2>1, <2>2, TickHandsOut, NoWorkIsAdded DEF Commit
<1>5. CASE RejectReview(n)
  <2>1. PICK ts \in WithFixTask(i, list) : tasks' = ts
    BY <1>5 DEF RejectReview, Commit, i, list
  <2>2. \/ ts = list
        \/ \E a \in Agents : ts = Append(list, NewTask("Fix", i, a))
    BY <1>2, <2>1, FixTaskType
  <2> QED
    BY <1>2, <2>1, <2>2, NoWorkIsAdded
<1>6. CASE McpComplete(n)
  <2>1. tasks' = list
    BY <1>6 DEF McpComplete, Commit, list
  <2> QED
    BY <1>2, <2>1, NoWorkIsAdded
<1>7. CASE \E task : SetTask(n, task)
  BY <1>1, <1>7, SetTaskHandsOut
<1> QED
  BY <1>3, <1>4, <1>5, <1>6, <1>7
  DEF TaskStep, StartTask, FailRound, RequeueOrphan, CancelOrphan, ClaimTask

LEMMA OtherStepHandsOut ==
  ASSUME TypeOK, "redirect" \notin Disturbances,
         \/ \E i \in Items, k \in WatchKinds : WatchStep(i, k)
         \/ OperatorStep
  PROVE  HandsOutWithinLimit
<1>1. /\ tasks \in Seq(Task) /\ items \in ItemMap /\ watches \in WatchMap
  BY DEF TypeOK, ItemMap, WatchMap
<1>2. CASE tasks' = tasks
  BY <1>1, <1>2, NoWorkIsAdded
<1>3. ASSUME NEW i \in Items, NEW k \in WatchKinds, PollFailing(i, k)
      PROVE  HandsOutWithinLimit
  <2>1. \/ tasks' = tasks
        \/ /\ items[i].owner # NoAgent
           /\ tasks' = Append(tasks, NewTask("Fix", i, items[i].owner))
    <3>1. tasks' = IF items[i].owner = NoAgent THEN tasks
                   ELSE Append(tasks, NewTask("Fix", i, items[i].owner))
      BY <1>3, Zenon DEF PollFailing, Commit
    <3> QED
      BY <3>1
  <2>2. items[i].owner \in Agents \cup {NoAgent}
    BY <1>1 DEF ItemMap, WorkItem
  <2> QED
    BY <1>1, <2>1, <2>2, NoWorkIsAdded
<1>4. ASSUME NEW i \in Items, McpApprove(i) PROVE HandsOutWithinLimit
  BY <1>1, <1>4, ApprovedType, TickHandsOut DEF McpApprove
<1>5. ASSUME NEW i \in Items, McpReject(i) PROVE HandsOutWithinLimit
  <2>1. PICK ts \in WithFixTask(i, tasks) : CliTick(ChangesRequested(i), watches, ts)
    BY <1>5 DEF McpReject
  <2>2. /\ ts \in Seq(Task)
        /\ \/ ts = tasks
           \/ \E a \in Agents : ts = Append(tasks, NewTask("Fix", i, a))
    BY <1>1, <2>1, FixTaskType
  <2> QED
    BY <1>1, <2>1, <2>2, ChangesRequestedType, TickHandsOut
<1>6. \A i \in Items, a \in Agents : ~NoteRedirect(i, a)
  BY DEF NoteRedirect, Disturb
<1> QED
  BY <1>2, <1>3, <1>4, <1>5, <1>6 DEF WatchStep, PollClear, PollPending, PollError,
     Commit, OperatorStep, NoteResume, NotePause, StopMission, ResumeMission

LEMMA NextHandsOut ==
  ASSUME "redirect" \notin Disturbances, TypeOK, [Next]_vars
  PROVE  HandsOutWithinLimit
<1>1. /\ tasks \in Seq(Task) /\ items \in ItemMap /\ watches \in WatchMap
  BY DEF TypeOK, ItemMap, WatchMap
<1>2. CASE DispatcherTick
  BY <1>1, <1>2, TickHandsOut DEF DispatcherTick
<1>3. CASE TickDies
  BY <1>3, TickDiesWithinLimit DEF HandsOutWithinLimit
<1>4. CASE \E n \in 1 .. Len(tasks) : TaskStep(n)
  BY <1>4, TaskStepHandsOut
<1>5. CASE (\E i \in Items, k \in WatchKinds : WatchStep(i, k)) \/ OperatorStep
  BY <1>5, OtherStepHandsOut
<1>6. CASE tasks' = tasks
  BY <1>1, <1>6, NoWorkIsAdded
<1> QED
  BY <1>2, <1>3, <1>4, <1>5, <1>6 DEF Next, AgentStep, AgentBusy, AgentIdle,
     AgentStops, AgentRestarts, AgentPruned, AgentChange, vars

\* Where no operator redirects a work item, a step that hands out new work
\* leaves at most max_parallel_items in progress, also when the process dies
\* between saving an item and creating its task.
THEOREM HandOutIsLimited ==
  ASSUME "redirect" \notin Disturbances
  PROVE  Spec => HandOutWithinLimit
<1>1. TypeOK /\ [Next]_vars =>
        (Len(tasks') > Len(tasks) /\ tasks'[Len(tasks')].kind = "Work" =>
           Cardinality(InProgress(items')) <= MaxParallel)
  BY NextHandsOut DEF HandsOutWithinLimit, InProgressBound
<1> QED
  BY <1>1, TypeCorrect, PTL DEF Spec, HandOutWithinLimit

----------------------------------------------------------------------------
(***************************************************************************)
(* Dependencies. An item that is still pending has no task and no watch,   *)
(* so no handler but the tick can reach it, unless an operator names it in *)
(* a redirect, an approval or a rejection.                                 *)
(***************************************************************************)

\* A pending item has no task and no watch yet.
Untouched(its, ws, ts) ==
  \A i \in Items : its[i].status = "Pending" =>
    /\ \A n \in 1 .. Len(ts) : ts[n].item # i
    /\ \A k \in WatchKinds : ws[i][k].status = "None"

\* A handler's items, before the tick that may follow it.
KeepsPending(its) ==
  \A i \in Items : items[i].status = "Pending" => its[i].status = "Pending"

\* What DependenciesFirst says of a step.
DependenciesDone ==
  \A i \in Items : items[i].status = "Pending" /\ items'[i].status # "Pending" =>
    \A d \in DependsOn[i] : items'[d].status = "Done"

LEMMA ReconciledPending ==
  ASSUME NEW item \in WorkItem, NEW ts \in Seq(Task), NEW n \in 0 .. Len(ts)
  PROVE  /\ Reconciled(item, ts, n).status = "Pending" => item.status = "Pending"
         /\ n = 0 /\ item.status = "Pending" => Reconciled(item, ts, n).status = "Pending"
<1>1. CASE item.status = "Done"
  BY <1>1 DEF Reconciled
<1>2. CASE item.status # "Done" /\ n # 0
  BY <1>2 DEF Reconciled, FollowTask, WorkItem
<1>3. CASE item.status # "Done" /\ n = 0
  BY <1>3 DEF Reconciled, ReleaseStale, WorkItem
<1> QED
  BY <1>1, <1>2, <1>3

\* An item the tick finished is not promoted again.
LEMMA PlannedAfterDependencies ==
  ASSUME NEW its \in ItemMap, NEW ws, NEW ts \in Seq(Task),
         NEW auth \in Authorities(ts), NEW i \in Items
  PROVE  LET r == Reconciled(its[i], ts, auth[i])
             p == Planned(its, ws, ts, auth)
         IN  \/ r.status = "Pending" => p[i].status = "Pending"
             \/ /\ p[i].status = "Ready"
                /\ \A d \in DependsOn[i] : p[d].status = "Done"
<1> DEFINE r(j) == Reconciled(its[j], ts, auth[j])
           c(j) == IF WaitIsOver(r(j), j, ws)
                   THEN [r(j) EXCEPT !.status = "Done"] ELSE r(j)
           completed == [j \in Items |-> c(j)]
           p(j) == IF Promotable(completed, j)
                   THEN [c(j) EXCEPT !.status = "Ready"] ELSE c(j)
<1>1. ASSUME NEW j \in Items PROVE Planned(its, ws, ts, auth)[j] = p(j)
  <2>1. Planned(its, ws, ts, auth)[j] =
          IF Promotable(completed, j)
          THEN [completed[j] EXCEPT !.status = "Ready"] ELSE completed[j]
    BY Zenon DEF Planned
  <2>2. completed[j] = c(j)
    OBVIOUS
  <2> QED
    BY <2>1, <2>2, Zenon
<1>2. \A j \in Items : r(j) \in WorkItem
  BY AuthorityIsOpen, ReconciledType DEF ItemMap
<1> HIDE DEF r
<1>3. \A j \in Items : c(j) \in WorkItem
  BY <1>2 DEF WorkItem, WorkStatus
<1>4. r(i).status = "Pending" => c(i).status = "Pending"
  BY DEF WaitIsOver
<1>5. \A j \in Items : completed[j] = c(j)
  OBVIOUS
<1> HIDE DEF c, completed
<1>6. CASE Promotable(completed, i)
  <2>1. p(i).status = "Ready"
    BY <1>3, <1>6 DEF WorkItem
  <2>2. ASSUME NEW d \in DependsOn[i] PROVE p(d).status = "Done"
    <3>1. d \in Items
      BY MissionConstants
    <3>2. c(d).status = "Done" /\ ~Promotable(completed, d)
      BY <1>5, <1>6, <3>1 DEF Promotable
    <3> QED
      BY <3>2
  <2>3. \A d \in DependsOn[i] : d \in Items
    BY MissionConstants
  <2> HIDE DEF p
  <2> QED
    BY <1>1, <2>1, <2>2, <2>3 DEF r
<1>7. CASE ~Promotable(completed, i)
  BY <1>1, <1>4, <1>7 DEF r
<1> QED
  BY <1>6, <1>7

LEMMA PlannedUntouched ==
  ASSUME NEW its \in ItemMap, NEW ws, NEW ts \in Seq(Task),
         NEW auth \in Authorities(ts), Untouched(its, ws, ts)
  PROVE  LET p == Planned(its, ws, ts, auth)
         IN  /\ Untouched(p, ws, ts)
             /\ \A i \in Items : its[i].status = "Pending" /\ p[i].status # "Pending" =>
                  \A d \in DependsOn[i] : p[d].status = "Done"
<1> DEFINE p == Planned(its, ws, ts, auth)
<1>1. ASSUME NEW i \in Items, p[i].status = "Pending" PROVE its[i].status = "Pending"
  <2>1. Reconciled(its[i], ts, auth[i]).status = "Pending"
    BY <1>1, PlannedItem
  <2> QED
    BY <2>1, AuthorityIsOpen, ReconciledPending DEF ItemMap
<1>2. ASSUME NEW i \in Items, its[i].status = "Pending", p[i].status # "Pending"
      PROVE  \A d \in DependsOn[i] : p[d].status = "Done"
  <2>1. OpenTasks(ts, i) = {}
    BY <1>2, OpenTasksAre DEF Untouched
  <2>2. auth[i] = 0
    BY <2>1, AuthorityIsOpen
  <2>3. Reconciled(its[i], ts, auth[i]).status = "Pending"
    BY <1>2, <2>2, AuthorityIsOpen, ReconciledPending DEF ItemMap
  <2> QED
    BY <1>2, <2>3, PlannedAfterDependencies
<1> HIDE DEF p
<1>3. Untouched(p, ws, ts)
  BY <1>1 DEF Untouched
<1> QED
  BY <1>2, <1>3 DEF p

\* The list a tick leaves: the tasks there were, and work for the hires.
LEMMA WorkAppended ==
  ASSUME NEW its \in ItemMap, NEW ts \in Seq(Task), NEW done \in Hires(its)
  PROVE  LET ts2 == ts \o WorkTasks(done)
         IN  /\ ts2 \in Seq(Task) /\ Len(ts2) = Len(ts) + Len(done)
             /\ \A n \in 1 .. Len(ts) : ts2[n] = ts[n]
             /\ \A x \in 1 .. Len(done) :
                  ts2[Len(ts) + x] = NewTask("Work", done[x].item, done[x].agent)
             /\ \A n \in 1 .. Len(ts2) :
                  n \in 1 .. Len(ts) \/ \E x \in 1 .. Len(done) : n = Len(ts) + x
<1> DEFINE new == WorkTasks(done)
           ts2 == ts \o new
<1>1. /\ new \in Seq(Task) /\ Len(new) = Len(done)
      /\ \A x \in 1 .. Len(done) :
           new[x] = NewTask("Work", done[x].item, done[x].agent)
  BY WorkTasksType
<1>2. Len(done) \in Nat /\ Len(ts) \in Nat
  BY HiresType, LenProperties
<1> HIDE DEF new
<1>3. /\ ts2 \in Seq(Task) /\ Len(ts2) = Len(ts) + Len(new)
      /\ \A n \in 1 .. Len(ts) + Len(new) :
           ts2[n] = IF n <= Len(ts) THEN ts[n] ELSE new[n - Len(ts)]
  BY <1>1, ConcatProperties
<1> HIDE DEF ts2
<1>4. \A n \in 1 .. Len(ts) : ts2[n] = ts[n]
  BY <1>1, <1>2, <1>3
<1>5. ASSUME NEW x \in 1 .. Len(done)
      PROVE  ts2[Len(ts) + x] = NewTask("Work", done[x].item, done[x].agent)
  <2>1. /\ Len(ts) + x \in 1 .. Len(ts) + Len(new)
        /\ ~(Len(ts) + x <= Len(ts)) /\ (Len(ts) + x) - Len(ts) = x
    BY <1>1, <1>2
  <2>2. ts2[Len(ts) + x] = new[x]
    BY <1>3, <2>1
  <2> QED
    BY <1>1, <2>2
<1>6. ASSUME NEW n \in 1 .. Len(ts2)
      PROVE  n \in 1 .. Len(ts) \/ \E x \in 1 .. Len(done) : n = Len(ts) + x
  <2>1. n \notin 1 .. Len(ts) =>
          n - Len(ts) \in 1 .. Len(done) /\ n = Len(ts) + (n - Len(ts))
    BY <1>1, <1>2, <1>3
  <2> QED
    BY <2>1
<1> QED
  BY <1>1, <1>3, <1>4, <1>5, <1>6 DEF ts2, new

LEMMA HiredUntouched ==
  ASSUME NEW its \in ItemMap, NEW ws, NEW ts \in Seq(Task), Untouched(its, ws, ts),
         NEW hires \in Hires(its), NEW done \in Hires(its),
         Len(done) <= Len(hires), \A y \in 1 .. Len(done) : hires[y] = done[y]
  PROVE  Untouched(AssignedItems(its, hires), ws, ts \o WorkTasks(done))
<1> DEFINE its2 == AssignedItems(its, hires)
           ts2  == ts \o WorkTasks(done)
<1> SUFFICES ASSUME NEW i \in Items, its2[i].status = "Pending"
             PROVE  /\ \A n \in 1 .. Len(ts2) : ts2[n].item # i
                    /\ \A k \in WatchKinds : ws[i][k].status = "None"
  BY DEF Untouched
<1>1. its2[i] = its[i] /\ ~\E x \in 1 .. Len(hires) : hires[x].item = i
  BY AssignedItem
<1> HIDE DEF its2
<1>2. \A x \in 1 .. Len(done) : done[x].item # i
  BY <1>1, HiresType
<1>3. ASSUME NEW n \in 1 .. Len(ts2) PROVE ts2[n].item # i
  <2>1. CASE n \in 1 .. Len(ts)
    <3>1. ts2[n] = ts[n]
      BY <2>1, WorkAppended
    <3> QED
      BY <1>1, <2>1, <3>1 DEF Untouched
  <2>2. ASSUME NEW x \in 1 .. Len(done), n = Len(ts) + x PROVE ts2[n].item # i
    <3>1. ts2[n] = NewTask("Work", done[x].item, done[x].agent)
      BY <2>2, WorkAppended
    <3> QED
      BY <1>2, <3>1 DEF NewTask
  <2> QED
    BY <2>1, <2>2, WorkAppended
<1> QED
  BY <1>1, <1>3 DEF Untouched

\* A step that hands out work on planned items.
LEMMA HiredDependencies ==
  ASSUME NEW its \in ItemMap, KeepsPending(its), NEW p \in ItemMap,
         \A i \in Items : its[i].status = "Pending" /\ p[i].status # "Pending" =>
           \A d \in DependsOn[i] : p[d].status = "Done",
         NEW hires \in Hires(p), items' = AssignedItems(p, hires)
  PROVE  DependenciesDone
<1> SUFFICES ASSUME NEW i \in Items, items[i].status = "Pending",
                    items'[i].status # "Pending", NEW d \in DependsOn[i]
             PROVE  items'[d].status = "Done"
  BY DEF DependenciesDone
<1>1. d \in Items
  BY MissionConstants
<1>2. its[i].status = "Pending"
  BY DEF KeepsPending
<1>3. p[i].status # "Pending"
  <2>1. CASE \E x \in 1 .. Len(hires) : hires[x].item = i
    BY <2>1 DEF Hires
  <2>2. CASE ~\E x \in 1 .. Len(hires) : hires[x].item = i
    BY <2>2, AssignedItem
  <2> QED
    BY <2>1, <2>2
<1>4. p[d].status = "Done"
  BY <1>2, <1>3
<1>5. ~\E x \in 1 .. Len(hires) : hires[x].item = d
  BY <1>4 DEF Hires
<1> QED
  BY <1>1, <1>4, <1>5, AssignedItem

\* A handler leaves pending items alone, and so does the tick that follows it.
LEMMA TickUntouched ==
  ASSUME NEW its \in ItemMap, NEW ws \in WatchMap, NEW ts \in Seq(Task),
         Untouched(its, ws, ts), KeepsPending(its),
         \/ TickFrom(its, ws, ts)
         \/ CliTick(its, ws, ts)
         \/ Commit(its, ws, ts)
  PROVE  Untouched(items', watches', tasks') /\ DependenciesDone
<1>1. CASE Commit(its, ws, ts)
  BY <1>1 DEF Commit, KeepsPending, DependenciesDone
<1>2. ASSUME watches' = ws, NEW auth \in Authorities(ts),
             NEW hires \in Hirings(Planned(its, ws, ts, auth)),
             items' = AssignedItems(Planned(its, ws, ts, auth), hires),
             tasks' = ts \o WorkTasks(hires)
      PROVE  Untouched(items', watches', tasks') /\ DependenciesDone
  <2> DEFINE p == Planned(its, ws, ts, auth)
  <2>1. p \in ItemMap
    BY PlannedType
  <2>2. /\ Untouched(p, ws, ts)
        /\ \A i \in Items : its[i].status = "Pending" /\ p[i].status # "Pending" =>
             \A d \in DependsOn[i] : p[d].status = "Done"
    BY PlannedUntouched
  <2> HIDE DEF p
  <2>3. hires \in Hires(p) /\ Len(hires) \in Nat
    BY <1>2, <2>1, HiringsType, HiresType DEF p
  <2>4. Untouched(items', watches', tasks')
    BY <1>2, <2>1, <2>2, <2>3, HiredUntouched DEF p
  <2>5. DependenciesDone
    BY <1>2, <2>1, <2>2, <2>3, HiredDependencies DEF p
  <2> QED
    BY <2>4, <2>5
<1> QED
  BY <1>1, <1>2, TickCases DEF CliTick

LEMMA SameItemsUntouched ==
  ASSUME NEW its, NEW ws, NEW ts, Untouched(its, ws, ts), NEW its2, NEW ws2, NEW ts2,
         \A i \in Items : its2[i].status = "Pending" =>
                            its[i].status = "Pending" /\ ws2[i] = ws[i],
         Len(ts2) = Len(ts), \A n \in 1 .. Len(ts) : ts2[n].item = ts[n].item
  PROVE  Untouched(its2, ws2, ts2)
BY DEF Untouched

LEMMA AppendUntouched ==
  ASSUME NEW its, NEW ws, NEW ts \in Seq(Task), Untouched(its, ws, ts),
         NEW kind \in {"Fix", "Review"}, NEW i \in Items, NEW a \in Agents,
         its[i].status # "Pending"
  PROVE  Untouched(its, ws, Append(ts, NewTask(kind, i, a)))
<1> DEFINE new == NewTask(kind, i, a)
           ts2 == Append(ts, new)
<1>1. new \in Task /\ new.item = i
  BY NewTaskType DEF NewTask
<1> HIDE DEF new
<1>2. \A n \in 1 .. Len(ts2) : ts2[n] = new \/ (n \in 1 .. Len(ts) /\ ts2[n] = ts[n])
  BY <1>1, AppendProperties, LenProperties
<1> HIDE DEF ts2
<1>3. Untouched(its, ws, ts2)
  BY <1>1, <1>2 DEF Untouched
<1> QED
  BY <1>3 DEF ts2, new

UntouchedNow == Untouched(items, watches, tasks)

UntouchedStep == Untouched(items', watches', tasks') /\ DependenciesDone

\* A handler on an item that is not pending: its other items stay, and so do
\* their watches; the task list gets at most a fix or a review of the item.
LEMMA HandlerUntouched ==
  ASSUME TypeOK, UntouchedNow, NEW i \in Items, items[i].status # "Pending",
         NEW its \in ItemMap, its[i].status # "Pending",
         \A j \in Items \ {i} : its[j] = items[j],
         NEW ws \in WatchMap, \A j \in Items \ {i} : ws[j] = watches[j],
         NEW list \in Seq(Task), Len(list) = Len(tasks),
         \A n \in 1 .. Len(tasks) : list[n].item = tasks[n].item,
         NEW ts,
         \/ ts = list
         \/ \E kind \in {"Fix", "Review"}, a \in Agents :
              ts = Append(list, NewTask(kind, i, a))
  PROVE  Untouched(its, ws, ts) /\ KeepsPending(its) /\ ts \in Seq(Task)
<1>1. \A j \in Items : its[j].status = "Pending" =>
                         items[j].status = "Pending" /\ ws[j] = watches[j]
  OBVIOUS
<1>2. Untouched(its, ws, list)
  BY <1>1, SameItemsUntouched DEF UntouchedNow
<1>3. ASSUME NEW kind \in {"Fix", "Review"}, NEW a \in Agents,
             ts = Append(list, NewTask(kind, i, a))
      PROVE  Untouched(its, ws, ts) /\ ts \in Seq(Task)
  BY <1>2, <1>3, AppendUntouched, AppendTaskType
<1>4. KeepsPending(its)
  BY DEF KeepsPending
<1> QED
  BY <1>2, <1>3, <1>4

\* What a task step makes of the item and the watches of its task.
LEMMA SubmittedItem ==
  ASSUME TypeOK, NEW i \in Items
  PROVE  LET done == [items EXCEPT ![i].status = "Done", ![i].evidence = TRUE]
         IN  /\ Submitted(i) \in ItemMap /\ done \in ItemMap
             /\ Submitted(i)[i].status = "Blocked" /\ Submitted(i)[i].evidence
             /\ done[i].status = "Done" /\ done[i].evidence
             /\ \A j \in Items \ {i} : Submitted(i)[j] = items[j] /\ done[j] = items[j]
             /\ Rewatched(i) \in WatchMap
             /\ \A j \in Items \ {i} : Rewatched(i)[j] = watches[j]
<1>1. items \in ItemMap /\ items[i] \in WorkItem /\ watches \in WatchMap
  BY DEF TypeOK, ItemMap, WatchMap
<1> DEFINE sub  == [[[items[i] EXCEPT !.status = "Blocked"] EXCEPT !.evidence = TRUE]
                      EXCEPT !.approved = FALSE]
           fin  == [[items[i] EXCEPT !.status = "Done"] EXCEPT !.evidence = TRUE]
           done == [items EXCEPT ![i].status = "Done", ![i].evidence = TRUE]
<1>2. /\ sub \in WorkItem /\ sub.status = "Blocked" /\ sub.evidence
      /\ fin \in WorkItem /\ fin.status = "Done" /\ fin.evidence
  BY <1>1 DEF WorkItem, WorkStatus
<1>3. Submitted(i) = [items EXCEPT ![i] = sub] /\ done = [items EXCEPT ![i] = fin]
  BY <1>1 DEF Submitted, ItemMap
<1>4. /\ Rewatched(i) \in WatchMap
      /\ \A j \in Items \ {i} : Rewatched(i)[j] = watches[j]
  BY <1>1, MissionConstants DEF WatchMap, Rewatched, WatchItem
<1> HIDE DEF sub, fin, done
<1>5. /\ Submitted(i) \in ItemMap /\ Submitted(i)[i] = sub
      /\ \A j \in Items \ {i} : Submitted(i)[j] = items[j]
  BY <1>1, <1>2, <1>3 DEF ItemMap
<1>6. /\ done \in ItemMap /\ done[i] = fin
      /\ \A j \in Items \ {i} : done[j] = items[j]
  BY <1>1, <1>2, <1>3 DEF ItemMap
<1> QED
  BY <1>2, <1>4, <1>5, <1>6 DEF done

LEMMA ApprovedItem ==
  ASSUME TypeOK, NEW i \in Items
  PROVE  /\ Approved(i)[i].status \in {"Done", "Blocked"} /\ Approved(i)[i].evidence
         /\ \A j \in Items \ {i} : Approved(i)[j] = items[j]
<1>1. items \in ItemMap /\ items[i] \in WorkItem
  BY DEF TypeOK, ItemMap
<1> QED
  BY <1>1 DEF Approved, ItemMap, WorkItem

LEMMA ChangesRequestedItem ==
  ASSUME TypeOK, NEW i \in Items
  PROVE  /\ ChangesRequested(i)[i].status = "Blocked"
         /\ ChangesRequested(i)[i].evidence = items[i].evidence
         /\ \A j \in Items \ {i} : ChangesRequested(i)[j] = items[j]
<1>1. items \in ItemMap /\ items[i] \in WorkItem
  BY DEF TypeOK, ItemMap
<1> QED
  BY <1>1 DEF ChangesRequested, ItemMap, WorkItem

\* Completing a task leaves the others, and its item and kind.
LEMMA CompletedTasksAre ==
  ASSUME TypeOK, NEW n \in DOMAIN tasks
  PROVE  /\ CompletedTasks(n) \in Seq(Task) /\ Len(CompletedTasks(n)) = Len(tasks)
         /\ \A m \in 1 .. Len(tasks) :
              /\ CompletedTasks(n)[m].item = tasks[m].item
              /\ CompletedTasks(n)[m].kind = tasks[m].kind
              /\ m # n => CompletedTasks(n)[m] = tasks[m]
<1>1. DOMAIN tasks = 1 .. Len(tasks)
  BY LenProperties DEF TypeOK
<1>2. \A m \in 1 .. Len(tasks) : m # n => CompletedTasks(n)[m] = tasks[m]
  BY <1>1 DEF CompletedTasks
<1> QED
  BY <1>2, CompletedTasksType, CompletedCloses DEF Closes

LEMMA SubmitWorkUntouched ==
  ASSUME TypeOK, UntouchedNow, NEW n, NEW pr \in BOOLEAN, SubmitWork(n, pr)
  PROVE  UntouchedStep
<1> DEFINE i    == tasks[n].item
           list == CompletedTasks(n)
           done == [items EXCEPT ![i].status = "Done", ![i].evidence = TRUE]
<1>1. n \in DOMAIN tasks /\ i \in Items
  BY CompleteType DEF SubmitWork
<1>2. items[i].status # "Pending"
  <2>1. n \in 1 .. Len(tasks)
    BY <1>1, LenProperties DEF TypeOK
  <2> QED
    BY <1>1, <2>1 DEF UntouchedNow, Untouched
<1>3. /\ list \in Seq(Task) /\ Len(list) = Len(tasks)
      /\ \A m \in 1 .. Len(tasks) : list[m].item = tasks[m].item
  BY <1>1, CompletedTasksAre
<1>4. watches \in WatchMap
  BY DEF TypeOK, WatchMap
<1>5. CASE pr \/ Gated(i)
  <2>1. PICK ts \in IF Gated(i) THEN WithReviewTask(i, list) ELSE {list} :
          Commit(Submitted(i), IF pr THEN Rewatched(i) ELSE watches, ts)
    BY <1>5, Zenon DEF SubmitWork
  <2> HIDE DEF i, list
  <2>2. \/ ts = list
        \/ \E a \in Agents : ts = Append(list, NewTask("Review", i, a))
    BY <1>1, <1>3, <2>1, ReviewTaskType
  <2> DEFINE ws == IF pr THEN Rewatched(i) ELSE watches
  <2>3. ws \in WatchMap /\ \A j \in Items \ {i} : ws[j] = watches[j]
    BY <1>1, <1>4, SubmittedItem
  <2>4. Commit(Submitted(i), ws, ts)
    BY <2>1
  <2>5. /\ Submitted(i) \in ItemMap /\ Submitted(i)[i].status # "Pending"
        /\ \A j \in Items \ {i} : Submitted(i)[j] = items[j]
    BY <1>1, SubmittedItem
  <2> HIDE DEF ws
  <2>6. Untouched(Submitted(i), ws, ts) /\ KeepsPending(Submitted(i)) /\ ts \in Seq(Task)
    BY <1>1, <1>2, <1>3, <2>2, <2>3, <2>5, HandlerUntouched
  <2> QED
    BY <2>3, <2>4, <2>5, <2>6, TickUntouched DEF UntouchedStep
<1>6. CASE ~(pr \/ Gated(i))
  <2>1. CliTick(done, watches, list)
    BY <1>6, Zenon DEF SubmitWork
  <2>2. /\ done \in ItemMap /\ done[i].status # "Pending"
        /\ \A j \in Items \ {i} : done[j] = items[j]
    BY <1>1, SubmittedItem
  <2> HIDE DEF i, list, done
  <2>3. Untouched(done, watches, list) /\ KeepsPending(done)
    BY <1>1, <1>2, <1>3, <1>4, <2>2, HandlerUntouched
  <2> QED
    BY <1>3, <1>4, <2>1, <2>2, <2>3, TickUntouched DEF UntouchedStep
<1> QED
  BY <1>5, <1>6

LEMMA SetTaskUntouched ==
  ASSUME TypeOK, UntouchedNow, NEW n \in DOMAIN tasks, NEW task \in Task,
         task.item = tasks[n].item, SetTask(n, task), UNCHANGED <<items, watches>>
  PROVE  UntouchedStep
<1>1. tasks \in Seq(Task) /\ n \in 1 .. Len(tasks) /\ DOMAIN tasks = 1 .. Len(tasks)
  BY LenProperties DEF TypeOK
<1>2. Len(tasks') = Len(tasks)
  BY <1>1, ExceptSeq DEF SetTask
<1>3. \A m \in 1 .. Len(tasks) : tasks'[m].item = tasks[m].item
  BY <1>1 DEF SetTask
<1> QED
  BY <1>2, <1>3 DEF UntouchedStep, UntouchedNow, Untouched, DependenciesDone

LEMMA TaskStepUntouched ==
  ASSUME TypeOK, UntouchedNow, NEW n \in 1 .. Len(tasks), TaskStep(n)
  PROVE  UntouchedStep
<1> DEFINE i    == tasks[n].item
           list == CompletedTasks(n)
<1>1. /\ n \in DOMAIN tasks /\ tasks \in Seq(Task) /\ tasks[n] \in Task
      /\ items \in ItemMap /\ watches \in WatchMap
  BY ElementOfSeq, LenProperties DEF TypeOK, ItemMap, WatchMap
<1>2. i \in Items /\ items[i].status # "Pending"
  BY <1>1 DEF Task, UntouchedNow, Untouched
<1>3. /\ list \in Seq(Task) /\ Len(list) = Len(tasks)
      /\ \A m \in 1 .. Len(tasks) : list[m].item = tasks[m].item
  BY <1>1, CompletedTasksAre
<1>4. ASSUME NEW pr \in BOOLEAN, SubmitWork(n, pr) PROVE UntouchedStep
  BY <1>4, SubmitWorkUntouched
<1> HIDE DEF i, list
<1>5. CASE ApproveReview(n)
  <2>1. CliTick(Approved(i), watches, list) \/ Commit(Approved(i), watches, list)
    BY <1>5 DEF ApproveReview, i, list
  <2>2. /\ Approved(i) \in ItemMap /\ Approved(i)[i].status # "Pending"
        /\ \A j \in Items \ {i} : Approved(i)[j] = items[j]
    BY <1>2, ApprovedType, ApprovedItem
  <2>3. Untouched(Approved(i), watches, list) /\ KeepsPending(Approved(i))
    BY <1>1, <1>2, <1>3, <2>2, HandlerUntouched
  <2> QED
    BY <1>1, <1>3, <2>1, <2>2, <2>3, TickUntouched DEF UntouchedStep
<1>6. CASE RejectReview(n)
  <2>1. PICK ts \in WithFixTask(i, list) : Commit(ChangesRequested(i), watches, ts)
    BY <1>6 DEF RejectReview, i, list
  <2>2. \/ ts = list
        \/ \E a \in Agents : ts = Append(list, NewTask("Fix", i, a))
    BY <1>2, <1>3, <2>1, FixTaskType
  <2>3. /\ ChangesRequested(i) \in ItemMap
        /\ ChangesRequested(i)[i].status # "Pending"
        /\ \A j \in Items \ {i} : ChangesRequested(i)[j] = items[j]
    BY <1>2, ChangesRequestedType, ChangesRequestedItem
  <2>4. /\ Untouched(ChangesRequested(i), watches, ts) /\ ts \in Seq(Task)
        /\ KeepsPending(ChangesRequested(i))
    BY <1>1, <1>2, <1>3, <2>2, <2>3, HandlerUntouched
  <2> QED
    BY <1>1, <2>1, <2>3, <2>4, TickUntouched DEF UntouchedStep
<1>7. CASE McpComplete(n)
  <2>1. Commit(items, watches, list)
    BY <1>7 DEF McpComplete, list
  <2>2. Untouched(items, watches, list) /\ KeepsPending(items)
    BY <1>1, <1>2, <1>3, HandlerUntouched
  <2> QED
    BY <1>1, <1>3, <2>1, <2>2, TickUntouched DEF UntouchedStep
<1>8. CASE StartTask(n) \/ FailRound(n) \/ RequeueOrphan(n) \/ CancelOrphan(n)
           \/ \E a \in Agents : ClaimTask(n, a)
  <2>1. PICK task : /\ SetTask(n, task) /\ UNCHANGED <<items, watches>>
                    /\ \/ \E s \in {"Running", "Assigned", "Cancelled"} :
                            task = [tasks[n] EXCEPT !.state = s]
                       \/ task = [tasks[n] EXCEPT !.state = "Pending",
                                    !.owner = NoAgent, !.queued = TRUE]
                       \/ \E a \in Agents :
                            task = [tasks[n] EXCEPT !.state = "Assigned",
                                      !.owner = a, !.queued = FALSE]
    BY <1>8 DEF StartTask, FailRound, RequeueOrphan, CancelOrphan, ClaimTask
  <2>2. task \in Task /\ task.item = tasks[n].item
    BY <1>1, <2>1 DEF Task, NonTerminal
  <2> QED
    BY <1>1, <2>1, <2>2, SetTaskUntouched
<1> QED
  BY <1>4, <1>5, <1>6, <1>7, <1>8 DEF TaskStep

\* The watch engine polls a watch that exists, of an item that is not pending.
LEMMA WatchStepUntouched ==
  ASSUME TypeOK, UntouchedNow, NEW i \in Items, NEW k \in WatchKinds, WatchStep(i, k)
  PROVE  UntouchedStep
<1>1. /\ tasks \in Seq(Task) /\ items \in ItemMap /\ watches \in WatchMap
      /\ items[i] \in WorkItem
  BY DEF TypeOK, ItemMap, WatchMap
<1>2. items[i].status # "Pending"
  BY DEF WatchStep, PollClear, PollPending, PollFailing, PollError, Due, UntouchedNow,
     Untouched
<1>3. PICK status, failures, its, ts :
        /\ its \in {items, [items EXCEPT ![i].status = "Blocked"]}
        /\ \/ ts = tasks
           \/ /\ items[i].owner # NoAgent
              /\ ts = Append(tasks, NewTask("Fix", i, items[i].owner))
        /\ items' = its /\ watches' = SetWatch(i, k, status, failures) /\ tasks' = ts
  BY DEF WatchStep, PollClear, PollPending, PollFailing, PollError, Commit
<1>4. /\ its \in ItemMap /\ its[i].status # "Pending"
      /\ \A j \in Items \ {i} : its[j] = items[j]
  BY <1>1, <1>2, <1>3 DEF ItemMap, WorkItem, WorkStatus
<1>5. \A j \in Items \ {i} : watches'[j] = watches[j]
  BY <1>1, <1>3 DEF SetWatch, WatchMap
<1>6. watches' \in WatchMap
  BY WatchStepType DEF TypeOK, WatchMap
<1>7. ts = tasks \/ \E a \in Agents : ts = Append(tasks, NewTask("Fix", i, a))
  BY <1>1, <1>3 DEF WorkItem
<1>8. Untouched(its, watches', ts) /\ KeepsPending(its)
  BY <1>1, <1>2, <1>4, <1>5, <1>6, <1>7, HandlerUntouched
<1> QED
  BY <1>3, <1>8 DEF UntouchedStep, KeepsPending, DependenciesDone

\* The operators that name an item in any state are left out.
LEMMA OperatorStepUntouched ==
  ASSUME TypeOK, UntouchedNow, OperatorStep,
         {"redirect", "mcp_approve", "mcp_reject"} \cap Disturbances = {}
  PROVE  UntouchedStep
<1>1. UNCHANGED <<items, tasks>>
  BY DEF OperatorStep, McpApprove, McpReject, NoteRedirect, Disturb, NoteResume,
     NotePause, StopMission, ResumeMission
<1>2. \A i \in Items, k \in WatchKinds :
        watches[i][k].status = "None" => watches'[i][k].status = "None"
  BY DEF OperatorStep, McpApprove, McpReject, NoteRedirect, Disturb, NoteResume,
     NotePause, StopMission, ResumeMission
<1> QED
  BY <1>1, <1>2 DEF UntouchedStep, UntouchedNow, Untouched, DependenciesDone

LEMMA TickDiesUntouched ==
  ASSUME TypeOK, UntouchedNow, TickDies
  PROVE  UntouchedStep
<1>1. items \in ItemMap /\ watches \in WatchMap /\ tasks \in Seq(Task)
  BY DEF TypeOK, ItemMap, WatchMap
<1>2. PICK auth \in Authorities(tasks) :
        LET planned == Planned(items, watches, tasks, auth)
        IN  \E hires \in Hires(planned), done \in Hires(planned) :
              /\ planned \in ItemMap
              /\ Len(hires) = Len(done) + 1
              /\ \A y \in 1 .. Len(done) : hires[y] = done[y]
              /\ items' = AssignedItems(planned, hires)
              /\ tasks' = tasks \o WorkTasks(done)
  BY TickDiesCases
<1> DEFINE p == Planned(items, watches, tasks, auth)
<1>3. /\ Untouched(p, watches, tasks)
      /\ \A i \in Items : items[i].status = "Pending" /\ p[i].status # "Pending" =>
           \A d \in DependsOn[i] : p[d].status = "Done"
  BY <1>1, PlannedUntouched DEF UntouchedNow
<1> HIDE DEF p
<1>4. PICK hires \in Hires(p), done \in Hires(p) :
        /\ p \in ItemMap
        /\ Len(hires) = Len(done) + 1
        /\ \A y \in 1 .. Len(done) : hires[y] = done[y]
        /\ items' = AssignedItems(p, hires)
        /\ tasks' = tasks \o WorkTasks(done)
  BY <1>2 DEF p
<1>5. Len(done) <= Len(hires)
  BY <1>4, HiresType
<1>6. watches' = watches
  BY DEF TickDies
<1>7. Untouched(items', watches', tasks')
  BY <1>1, <1>3, <1>4, <1>5, <1>6, HiredUntouched
<1>8. DependenciesDone
  <2>1. KeepsPending(items)
    BY DEF KeepsPending
  <2> QED
    BY <1>1, <1>3, <1>4, <2>1, HiredDependencies
<1> QED
  BY <1>7, <1>8 DEF UntouchedStep

LEMMA NextUntouched ==
  ASSUME {"redirect", "mcp_approve", "mcp_reject"} \cap Disturbances = {},
         TypeOK, UntouchedNow, [Next]_vars
  PROVE  UntouchedStep
<1>1. /\ tasks \in Seq(Task) /\ items \in ItemMap /\ watches \in WatchMap
      /\ KeepsPending(items)
  BY DEF TypeOK, ItemMap, WatchMap, KeepsPending
<1>2. CASE DispatcherTick
  BY <1>1, <1>2, TickUntouched DEF DispatcherTick, UntouchedNow, UntouchedStep
<1>3. CASE TickDies
  BY <1>3, TickDiesUntouched
<1>4. CASE \E n \in 1 .. Len(tasks) : TaskStep(n)
  BY <1>4, TaskStepUntouched
<1>5. CASE \E i \in Items, k \in WatchKinds : WatchStep(i, k)
  BY <1>5, WatchStepUntouched
<1>6. CASE OperatorStep
  BY <1>6, OperatorStepUntouched
<1>7. CASE UNCHANGED <<items, watches, tasks>>
  BY <1>7 DEF UntouchedNow, UntouchedStep, Untouched, DependenciesDone
<1> QED
  BY <1>2, <1>3, <1>4, <1>5, <1>6, <1>7 DEF Next, AgentStep, AgentBusy, AgentIdle,
     AgentStops, AgentRestarts, AgentPruned, AgentChange, vars

LEMMA InitUntouched == Init => UntouchedNow
<1> SUFFICES ASSUME Init PROVE UntouchedNow
  OBVIOUS
<1>1. tasks = << >> /\ Len(tasks) = 0
  BY EmptySeq DEF Init
<1> QED
  BY <1>1 DEF Init, UntouchedNow, Untouched

\* Where nobody redirects, approves or rejects a work item by name, an item
\* leaves Pending only when all it depends on is done, and they are still done
\* after that step, whichever handler took it.
THEOREM DependenciesComeFirst ==
  ASSUME {"redirect", "mcp_approve", "mcp_reject"} \cap Disturbances = {}
  PROVE  Spec => DependenciesFirst
<1>1. TypeOK /\ UntouchedNow /\ [Next]_vars => UntouchedNow'
  BY NextUntouched DEF UntouchedStep, UntouchedNow
<1>2. TypeOK /\ UntouchedNow /\ [Next]_vars =>
        \A i \in Items : items[i].status = "Pending" /\ items'[i].status # "Pending" =>
          \A d \in DependsOn[i] : items'[d].status = "Done"
  BY NextUntouched DEF UntouchedStep, DependenciesDone
<1> QED
  BY <1>1, <1>2, InitUntouched, TypeCorrect, PTL DEF Spec, DependenciesFirst

----------------------------------------------------------------------------
(***************************************************************************)
(* Items that were started have something that moves them. There are two   *)
(* invariants, each disturbed by different handlers: HasTask, for the items *)
(* in progress, and Shown, for those that wait.                            *)
(***************************************************************************)

LEMMA ReconciledRest ==
  ASSUME NEW item \in WorkItem, NEW ts \in Seq(Task), NEW n \in 0 .. Len(ts)
  PROVE  LET r == Reconciled(item, ts, n)
         IN  /\ r.evidence = item.evidence
             /\ r.status = "Blocked" => item.status = "Blocked"
             /\ n = 0 /\ r.status \in {"Assigned", "Running"} => r.status = item.status
<1>1. CASE item.status = "Done"
  BY <1>1 DEF Reconciled
<1>2. CASE item.status # "Done" /\ n # 0
  BY <1>2 DEF Reconciled, FollowTask, WorkItem
<1>3. CASE item.status # "Done" /\ n = 0
  BY <1>3 DEF Reconciled, ReleaseStale, WorkItem
<1> QED
  BY <1>1, <1>2, <1>3

\* After reconciliation, the first half of a tick only finishes and promotes.
LEMMA PlannedRest ==
  ASSUME NEW its \in ItemMap, NEW ws, NEW ts \in Seq(Task),
         NEW auth \in Authorities(ts), NEW i \in Items
  PROVE  LET r == Reconciled(its[i], ts, auth[i])
             p == Planned(its, ws, ts, auth)[i]
         IN  /\ p.status \in {r.status, "Done", "Ready"}
             /\ p.evidence = its[i].evidence
<1> DEFINE r(j) == Reconciled(its[j], ts, auth[j])
           c(j) == IF WaitIsOver(r(j), j, ws)
                   THEN [r(j) EXCEPT !.status = "Done"] ELSE r(j)
           completed == [j \in Items |-> c(j)]
           promoted == Promotable(completed, i)
           p == IF promoted THEN [c(i) EXCEPT !.status = "Ready"] ELSE c(i)
<1>1. r(i) \in WorkItem /\ r(i).evidence = its[i].evidence
  BY AuthorityIsOpen, ReconciledType, ReconciledRest DEF ItemMap
<1>2. Planned(its, ws, ts, auth)[i] = p
  <2>1. Planned(its, ws, ts, auth)[i] =
          IF promoted THEN [completed[i] EXCEPT !.status = "Ready"] ELSE completed[i]
    BY Zenon DEF Planned
  <2>2. completed[i] = c(i)
    OBVIOUS
  <2> QED
    BY <2>1, <2>2, Zenon
<1> HIDE DEF r, promoted
<1>3. p.status \in {r(i).status, "Done", "Ready"} /\ p.evidence = r(i).evidence
  BY <1>1 DEF WorkItem
<1> HIDE DEF p
<1> QED
  BY <1>1, <1>2, <1>3 DEF r

LEMMA AssignedEvidence ==
  ASSUME NEW its \in ItemMap, NEW hires \in Hires(its), NEW i \in Items
  PROVE  AssignedItems(its, hires)[i].evidence = its[i].evidence
BY DEF AssignedItems, AssignTo, ItemMap, WorkItem

----------------------------------------------------------------------------
(* Items in progress have an open task *)

HasTask(its, ts) ==
  \A i \in Items : its[i].status \in {"Assigned", "Running"} => OpenTasks(ts, i) # {}

LEMMA PlannedHasTask ==
  ASSUME NEW its \in ItemMap, NEW ws, NEW ts \in Seq(Task),
         NEW auth \in Authorities(ts), HasTask(its, ts)
  PROVE  HasTask(Planned(its, ws, ts, auth), ts)
<1> DEFINE p == Planned(its, ws, ts, auth)
<1> SUFFICES ASSUME NEW i \in Items, p[i].status \in {"Assigned", "Running"},
                    OpenTasks(ts, i) = {}
             PROVE  FALSE
  BY DEF HasTask
<1>1. Reconciled(its[i], ts, auth[i]).status = p[i].status
  BY PlannedRest
<1> HIDE DEF p
<1>2. auth[i] = 0
  BY AuthorityIsOpen
<1>3. its[i].status \in {"Assigned", "Running"}
  BY <1>1, <1>2, AuthorityIsOpen, ReconciledRest DEF ItemMap
<1> QED
  BY <1>3 DEF HasTask

LEMMA HiredHasTask ==
  ASSUME NEW its \in ItemMap, NEW ts \in Seq(Task), HasTask(its, ts),
         NEW hires \in Hires(its)
  PROVE  HasTask(AssignedItems(its, hires), ts \o WorkTasks(hires))
<1> DEFINE its2 == AssignedItems(its, hires)
           ts2  == ts \o WorkTasks(hires)
<1>1. /\ ts2 \in Seq(Task) /\ Len(ts2) = Len(ts) + Len(hires)
      /\ \A n \in 1 .. Len(ts) : ts2[n] = ts[n]
      /\ \A x \in 1 .. Len(hires) :
           ts2[Len(ts) + x] = NewTask("Work", hires[x].item, hires[x].agent)
  BY WorkAppended
<1>2. Len(ts) \in Nat /\ Len(hires) \in Nat
  BY HiresType, LenProperties
<1> HIDE DEF ts2
<1> SUFFICES ASSUME NEW i \in Items, its2[i].status \in {"Assigned", "Running"}
             PROVE  OpenTasks(ts2, i) # {}
  BY DEF HasTask, ts2
<1>3. CASE \E x \in 1 .. Len(hires) : hires[x].item = i
  <2>1. PICK x \in 1 .. Len(hires) : hires[x].item = i
    BY <1>3
  <2>2. ts2[Len(ts) + x].item = i /\ ts2[Len(ts) + x].state = "Assigned"
    <3>1. ts2[Len(ts) + x] = NewTask("Work", i, hires[x].agent)
      BY <1>1, <2>1
    <3>2. \A a : LET t == NewTask("Work", i, a)
                IN  t.item = i /\ t.state = "Assigned"
      BY DEF NewTask
    <3> QED
      BY <3>1, <3>2
  <2>3. Len(ts) + x \in 1 .. Len(ts2)
    BY <1>1, <1>2
  <2> QED
    BY <1>1, <2>2, <2>3, OpenTasksAre DEF NonTerminal
<1>4. CASE ~\E x \in 1 .. Len(hires) : hires[x].item = i
  <2>1. its2[i] = its[i]
    BY <1>4, AssignedItem
  <2>2. PICK n : n \in OpenTasks(ts, i)
    BY <2>1 DEF HasTask
  <2>3. n \in 1 .. Len(ts) /\ ts[n].item = i /\ ts[n].state \in NonTerminal
    BY <2>2, OpenTasksAre
  <2>4. n \in 1 .. Len(ts2) /\ ts2[n] = ts[n]
    BY <1>1, <1>2, <2>3
  <2> QED
    BY <1>1, <2>3, <2>4, OpenTasksAre
<1> QED
  BY <1>3, <1>4

LEMMA TickHasTask ==
  ASSUME NEW its \in ItemMap, NEW ws \in WatchMap, NEW ts \in Seq(Task),
         HasTask(its, ts),
         \/ TickFrom(its, ws, ts)
         \/ CliTick(its, ws, ts)
         \/ Commit(its, ws, ts)
  PROVE  HasTask(items', tasks')
<1>1. CASE Commit(its, ws, ts)
  BY <1>1 DEF Commit
<1>2. ASSUME NEW auth \in Authorities(ts),
             NEW hires \in Hirings(Planned(its, ws, ts, auth)),
             items' = AssignedItems(Planned(its, ws, ts, auth), hires),
             tasks' = ts \o WorkTasks(hires)
      PROVE  HasTask(items', tasks')
  <2>1. Planned(its, ws, ts, auth) \in ItemMap
    BY PlannedType
  <2>2. hires \in Hires(Planned(its, ws, ts, auth))
    BY <2>1, HiringsType
  <2> QED
    BY <1>2, <2>1, <2>2, PlannedHasTask, HiredHasTask
<1> QED
  BY <1>1, <1>2, TickCases DEF CliTick

\* A handler that takes the items whose tasks it touches out of progress, and
\* appends at most one task.
LEMMA HandlerHasTask ==
  ASSUME NEW its0, NEW ts0 \in Seq(Task), HasTask(its0, ts0), NEW its,
         NEW list \in Seq(Task), Len(list) = Len(ts0),
         \A j \in Items : its[j].status \in {"Assigned", "Running"} =>
           /\ its[j] = its0[j]
           /\ \A m \in 1 .. Len(ts0) : ts0[m].item = j => list[m] = ts0[m],
         NEW ts,
         ts = list \/ \E kind \in {"Work", "Fix", "Review"}, i \in Items, a \in Agents :
                        ts = Append(list, NewTask(kind, i, a))
  PROVE  HasTask(its, ts)
<1> SUFFICES ASSUME NEW j \in Items, its[j].status \in {"Assigned", "Running"}
             PROVE  OpenTasks(ts, j) # {}
  BY DEF HasTask
<1>1. PICK n : n \in OpenTasks(ts0, j)
  BY DEF HasTask
<1>2. n \in 1 .. Len(ts0) /\ ts0[n].item = j /\ ts0[n].state \in NonTerminal
  BY <1>1, OpenTasksAre
<1>3. n \in 1 .. Len(list) /\ list[n] = ts0[n]
  BY <1>2
<1>4. CASE ts = list
  BY <1>2, <1>3, <1>4, OpenTasksAre
<1>5. ASSUME NEW kind \in {"Work", "Fix", "Review"}, NEW i \in Items, NEW a \in Agents,
             ts = Append(list, NewTask(kind, i, a))
      PROVE  OpenTasks(ts, j) # {}
  <2>1. NewTask(kind, i, a) \in Task
    BY NewTaskType
  <2>2. ts \in Seq(Task) /\ n \in 1 .. Len(ts) /\ ts[n] = list[n]
    BY <1>3, <1>5, <2>1, AppendProperties, LenProperties
  <2> QED
    BY <1>2, <1>3, <2>2, OpenTasksAre
<1> QED
  BY <1>4, <1>5

HasTaskNow == HasTask(items, tasks)

LEMMA SubmitWorkHasTask ==
  ASSUME TypeOK, HasTaskNow, NEW n, NEW pr \in BOOLEAN, SubmitWork(n, pr)
  PROVE  HasTaskNow'
<1> DEFINE i    == tasks[n].item
           list == CompletedTasks(n)
           done == [items EXCEPT ![i].status = "Done", ![i].evidence = TRUE]
<1>1. n \in DOMAIN tasks /\ i \in Items /\ tasks \in Seq(Task) /\ watches \in WatchMap
  BY CompleteType DEF SubmitWork, TypeOK, WatchMap
<1>2. /\ list \in Seq(Task) /\ Len(list) = Len(tasks)
      /\ \A m \in 1 .. Len(tasks) : tasks[m].item # i => list[m] = tasks[m]
  BY <1>1, CompletedTasksAre
<1>3. CASE pr \/ Gated(i)
  <2>1. PICK ts \in IF Gated(i) THEN WithReviewTask(i, list) ELSE {list} :
          items' = Submitted(i) /\ tasks' = ts
    BY <1>3, Zenon DEF SubmitWork, Commit
  <2> HIDE DEF i, list
  <2>2. ts = list \/ \E a \in Agents : ts = Append(list, NewTask("Review", i, a))
    BY <1>1, <1>2, <2>1, ReviewTaskType
  <2>3. \A j \in Items : Submitted(i)[j].status \in {"Assigned", "Running"} =>
          j # i /\ Submitted(i)[j] = items[j]
    BY <1>1, SubmittedItem
  <2>4. HasTask(Submitted(i), ts)
    BY <1>1, <1>2, <2>2, <2>3, HandlerHasTask DEF HasTaskNow
  <2> QED
    BY <2>1, <2>4 DEF HasTaskNow
<1>4. CASE ~(pr \/ Gated(i))
  <2>1. CliTick(done, watches, list)
    BY <1>4, Zenon DEF SubmitWork
  <2>2. /\ done \in ItemMap
        /\ \A j \in Items : done[j].status \in {"Assigned", "Running"} =>
             j # i /\ done[j] = items[j]
    BY <1>1, SubmittedItem
  <2> HIDE DEF i, list, done
  <2>3. HasTask(done, list)
    BY <1>1, <1>2, <2>2, HandlerHasTask DEF HasTaskNow
  <2> QED
    BY <1>1, <1>2, <2>1, <2>2, <2>3, TickHasTask DEF HasTaskNow
<1> QED
  BY <1>3, <1>4

LEMMA TaskStepHasTask ==
  ASSUME TypeOK, HasTaskNow, {"crash", "cancel", "mcp_complete"} \cap Disturbances = {},
         NEW n \in 1 .. Len(tasks), TaskStep(n)
  PROVE  HasTaskNow'
<1> DEFINE i    == tasks[n].item
           list == CompletedTasks(n)
<1>1. /\ n \in DOMAIN tasks /\ tasks \in Seq(Task) /\ tasks[n] \in Task
      /\ watches \in WatchMap /\ DOMAIN tasks = 1 .. Len(tasks)
  BY ElementOfSeq, LenProperties DEF TypeOK, WatchMap
<1>2. /\ i \in Items /\ list \in Seq(Task) /\ Len(list) = Len(tasks)
      /\ \A m \in 1 .. Len(tasks) : tasks[m].item # i => list[m] = tasks[m]
  BY <1>1, CompletedTasksAre DEF Task
<1>3. ASSUME NEW pr \in BOOLEAN, SubmitWork(n, pr) PROVE HasTaskNow'
  BY <1>3, SubmitWorkHasTask
<1> HIDE DEF i, list
<1>4. CASE ApproveReview(n)
  <2>1. CliTick(Approved(i), watches, list) \/ Commit(Approved(i), watches, list)
    BY <1>4 DEF ApproveReview, i, list
  <2>2. /\ Approved(i) \in ItemMap
        /\ \A j \in Items : Approved(i)[j].status \in {"Assigned", "Running"} =>
             j # i /\ Approved(i)[j] = items[j]
    BY <1>2, ApprovedType, ApprovedItem
  <2>3. HasTask(Approved(i), list)
    BY <1>1, <1>2, <2>2, HandlerHasTask DEF HasTaskNow
  <2> QED
    BY <1>1, <1>2, <2>1, <2>2, <2>3, TickHasTask DEF HasTaskNow
<1>5. CASE RejectReview(n)
  <2>1. PICK ts \in WithFixTask(i, list) : items' = ChangesRequested(i) /\ tasks' = ts
    BY <1>5 DEF RejectReview, Commit, i, list
  <2>2. ts = list \/ \E a \in Agents : ts = Append(list, NewTask("Fix", i, a))
    BY <1>2, <2>1, FixTaskType
  <2>3. \A j \in Items : ChangesRequested(i)[j].status \in {"Assigned", "Running"} =>
          j # i /\ ChangesRequested(i)[j] = items[j]
    BY <1>2, ChangesRequestedItem
  <2>4. HasTask(ChangesRequested(i), ts)
    BY <1>1, <1>2, <2>2, <2>3, HandlerHasTask DEF HasTaskNow
  <2> QED
    BY <2>1, <2>4 DEF HasTaskNow
<1>6. CASE StartTask(n) \/ FailRound(n) \/ RequeueOrphan(n)
           \/ \E a \in Agents : ClaimTask(n, a)
  <2>1. PICK task : /\ SetTask(n, task) /\ UNCHANGED items
                    /\ \/ \E s \in {"Running", "Assigned"} :
                            task = [tasks[n] EXCEPT !.state = s]
                       \/ task = [tasks[n] EXCEPT !.state = "Pending",
                                    !.owner = NoAgent, !.queued = TRUE]
                       \/ \E a \in Agents :
                            task = [tasks[n] EXCEPT !.state = "Assigned",
                                      !.owner = a, !.queued = FALSE]
    BY <1>6 DEF StartTask, FailRound, RequeueOrphan, ClaimTask
  <2>2. task \in Task /\ task.item = tasks[n].item /\ task.state \in NonTerminal
    BY <1>1, <2>1 DEF Task, NonTerminal
  <2>3. tasks' \in Seq(Task) /\ Len(tasks') = Len(tasks)
    BY <1>1, <2>1, <2>2, ExceptSeq DEF SetTask
  <2>4. \A m \in 1 .. Len(tasks) : tasks'[m] = IF m = n THEN task ELSE tasks[m]
    BY <1>1, <2>1 DEF SetTask
  <2>5. \A j \in Items : OpenTasks(tasks, j) \subseteq OpenTasks(tasks', j)
    BY <1>1, <2>2, <2>3, <2>4, OpenTasksAre
  <2> QED
    BY <2>1, <2>5 DEF HasTaskNow, HasTask
<1>7. ~McpComplete(n) /\ ~CancelOrphan(n)
  BY DEF McpComplete, CancelOrphan, Disturb
<1> QED
  BY <1>3, <1>4, <1>5, <1>6, <1>7 DEF TaskStep

LEMMA WatchStepHasTask ==
  ASSUME TypeOK, HasTaskNow, NEW i \in Items, NEW k \in WatchKinds, WatchStep(i, k)
  PROVE  HasTaskNow'
<1>1. tasks \in Seq(Task) /\ items \in ItemMap /\ items[i] \in WorkItem
  BY DEF TypeOK, ItemMap
<1>2. PICK its, ts :
        /\ its \in {items, [items EXCEPT ![i].status = "Blocked"]}
        /\ \/ ts = tasks
           \/ /\ items[i].owner # NoAgent
              /\ ts = Append(tasks, NewTask("Fix", i, items[i].owner))
        /\ items' = its /\ tasks' = ts
  BY DEF WatchStep, PollClear, PollPending, PollFailing, PollError, Commit
<1>3. \A j \in Items : its[j].status \in {"Assigned", "Running"} => its[j] = items[j]
  BY <1>1, <1>2 DEF ItemMap, WorkItem
<1>4. ts = tasks \/ \E a \in Agents : ts = Append(tasks, NewTask("Fix", i, a))
  BY <1>1, <1>2 DEF WorkItem
<1>5. HasTask(its, ts)
  BY <1>1, <1>3, <1>4, HandlerHasTask DEF HasTaskNow
<1> QED
  BY <1>2, <1>5 DEF HasTaskNow

\* A redirect cancels tasks of its item only, and leaves it an open one.
LEMMA RedirectedTasks ==
  ASSUME TypeOK, NEW i \in Items, NEW a \in Agents, NoteRedirect(i, a)
  PROVE  /\ OpenTasks(tasks', i) # {}
         /\ \E list \in Seq(Task) :
              /\ Len(list) = Len(tasks)
              /\ \A m \in 1 .. Len(tasks) :
                   /\ tasks[m].item # i => list[m] = tasks[m]
                   /\ list[m].item = tasks[m].item /\ list[m].kind = tasks[m].kind
              /\ \/ tasks' = list
                 \/ tasks' = Append(list, NewTask("Fix", i, a)) /\ items[i].evidence
                 \/ tasks' = Append(list, NewTask("Work", i, a))
<1> DEFINE superseded == {n \in OpenTasks(tasks, i) : tasks[n].owner # a}
           cancelled  == [n \in 1 .. Len(tasks) |->
                            IF n \in superseded
                            THEN [tasks[n] EXCEPT !.state = "Cancelled"] ELSE tasks[n]]
           kind       == IF items[i].evidence THEN "Fix" ELSE "Work"
<1>1. tasks' = IF OpenTasks(cancelled, i) # {} THEN cancelled
               ELSE Append(cancelled, NewTask(kind, i, a))
  BY Zenon DEF NoteRedirect
<1>2. tasks \in Seq(Task) /\ Len(tasks) \in Nat
  BY LenProperties DEF TypeOK
<1>3. \A n \in 1 .. Len(tasks) : tasks[n] \in Task
  BY <1>2, ElementOfSeq
<1>4. \A n \in 1 .. Len(tasks) :
        LET t == [tasks[n] EXCEPT !.state = "Cancelled"]
        IN  t \in Task /\ t.item = tasks[n].item /\ t.kind = tasks[n].kind
  BY <1>3 DEF Task, NonTerminal
<1>5. \A n \in superseded : tasks[n].item = i
  BY <1>2, OpenTasksAre
<1> HIDE DEF superseded
<1>6. cancelled \in [1 .. Len(tasks) -> Task]
  BY <1>3, <1>4
<1>7. cancelled \in Seq(Task)
  BY <1>2, <1>6, SeqDef
<1>8. Len(cancelled) = Len(tasks)
  <2>1. DOMAIN cancelled = 1 .. Len(tasks)
    OBVIOUS
  <2> HIDE DEF cancelled
  <2> QED
    BY <1>2, <1>7, <2>1, LenProperties
<1>9. \A m \in 1 .. Len(tasks) :
        /\ tasks[m].item # i => cancelled[m] = tasks[m]
        /\ cancelled[m].item = tasks[m].item /\ cancelled[m].kind = tasks[m].kind
  BY <1>4, <1>5
<1> HIDE DEF cancelled
<1>10. OpenTasks(tasks', i) # {}
  <2>1. CASE OpenTasks(cancelled, i) # {}
    BY <1>1, <2>1
  <2>2. CASE OpenTasks(cancelled, i) = {}
    <3> DEFINE new == NewTask(kind, i, a)
    <3>1. new \in Task /\ new.item = i /\ new.state \in NonTerminal
      BY NewTaskType DEF NewTask, NonTerminal
    <3>2. tasks' = Append(cancelled, new)
      BY <1>1, <2>2
    <3> HIDE DEF new
    <3>3. /\ tasks' \in Seq(Task) /\ Len(tasks) + 1 \in 1 .. Len(tasks')
          /\ tasks'[Len(tasks) + 1] = new
      BY <1>2, <1>7, <1>8, <3>1, <3>2, AppendProperties
    <3> QED
      BY <3>1, <3>3, OpenTasksAre
  <2> QED
    BY <2>1, <2>2
<1>11. \/ tasks' = cancelled
       \/ tasks' = Append(cancelled, NewTask("Fix", i, a)) /\ items[i].evidence
       \/ tasks' = Append(cancelled, NewTask("Work", i, a))
  BY <1>1
<1> QED
  BY <1>7, <1>8, <1>9, <1>10, <1>11

LEMMA OperatorStepHasTask ==
  ASSUME TypeOK, HasTaskNow, OperatorStep
  PROVE  HasTaskNow'
<1>1. items \in ItemMap /\ watches \in WatchMap /\ tasks \in Seq(Task)
  BY DEF TypeOK, ItemMap, WatchMap
<1>2. ASSUME NEW i \in Items, McpApprove(i) PROVE HasTaskNow'
  <2>1. /\ Approved(i) \in ItemMap
        /\ \A j \in Items : Approved(i)[j].status \in {"Assigned", "Running"} =>
             Approved(i)[j] = items[j]
    BY ApprovedType, ApprovedItem
  <2>2. HasTask(Approved(i), tasks)
    BY <1>1, <2>1, HandlerHasTask DEF HasTaskNow
  <2> QED
    BY <1>1, <1>2, <2>1, <2>2, TickHasTask DEF McpApprove, HasTaskNow
<1>3. ASSUME NEW i \in Items, McpReject(i) PROVE HasTaskNow'
  <2>1. PICK ts \in WithFixTask(i, tasks) : CliTick(ChangesRequested(i), watches, ts)
    BY <1>3 DEF McpReject
  <2>2. /\ ts \in Seq(Task)
        /\ ts = tasks \/ \E a \in Agents : ts = Append(tasks, NewTask("Fix", i, a))
    BY <1>1, <2>1, FixTaskType
  <2>3. /\ ChangesRequested(i) \in ItemMap
        /\ \A j \in Items : ChangesRequested(i)[j].status \in {"Assigned", "Running"} =>
             ChangesRequested(i)[j] = items[j]
    BY ChangesRequestedType, ChangesRequestedItem
  <2>4. HasTask(ChangesRequested(i), ts)
    BY <1>1, <2>2, <2>3, HandlerHasTask DEF HasTaskNow
  <2> QED
    BY <1>1, <2>1, <2>2, <2>3, <2>4, TickHasTask DEF HasTaskNow
<1>4. ASSUME NEW i \in Items, NEW a \in Agents, NoteRedirect(i, a) PROVE HasTaskNow'
  <2>1. PICK list \in Seq(Task) :
          /\ Len(list) = Len(tasks)
          /\ \A m \in 1 .. Len(tasks) : tasks[m].item # i => list[m] = tasks[m]
          /\ \/ tasks' = list
             \/ \E kind \in {"Work", "Fix", "Review"} :
                  tasks' = Append(list, NewTask(kind, i, a))
    BY <1>4, RedirectedTasks
  <2> DEFINE rest == [items EXCEPT ![i] = [items[i] EXCEPT !.status = "Ready"]]
  <2>2. \A j \in Items : rest[j].status \in {"Assigned", "Running"} =>
          j # i /\ rest[j] = items[j]
    BY <1>1 DEF ItemMap, WorkItem
  <2>3. \A j \in Items \ {i} : rest[j] = items[j] /\ items'[j] = items[j]
    BY <1>1, <1>4 DEF ItemMap, NoteRedirect
  <2> HIDE DEF rest
  <2>4. HasTask(rest, tasks')
    BY <1>1, <2>1, <2>2, HandlerHasTask DEF HasTaskNow
  <2>5. OpenTasks(tasks', i) # {}
    BY <1>4, RedirectedTasks
  <2> QED
    BY <2>3, <2>4, <2>5 DEF HasTaskNow, HasTask
<1>5. CASE UNCHANGED <<items, tasks>>
  BY <1>5 DEF HasTaskNow
<1> QED
  BY <1>2, <1>3, <1>4, <1>5
  DEF OperatorStep, NoteResume, NotePause, StopMission, ResumeMission

LEMMA NextHasTask ==
  ASSUME {"crash", "cancel", "mcp_complete"} \cap Disturbances = {},
         TypeOK, HasTaskNow, [Next]_vars
  PROVE  HasTaskNow'
<1>1. CASE DispatcherTick
  BY <1>1, TickHasTask DEF DispatcherTick, TypeOK, ItemMap, WatchMap, HasTaskNow
<1>2. ~TickDies
  BY DEF TickDies, Disturb
<1>3. CASE \E n \in 1 .. Len(tasks) : TaskStep(n)
  BY <1>3, TaskStepHasTask
<1>4. CASE \E i \in Items, k \in WatchKinds : WatchStep(i, k)
  BY <1>4, WatchStepHasTask
<1>5. CASE OperatorStep
  BY <1>5, OperatorStepHasTask
<1>6. CASE UNCHANGED <<items, tasks>>
  BY <1>6 DEF HasTaskNow
<1> QED
  BY <1>1, <1>2, <1>3, <1>4, <1>5, <1>6 DEF Next, AgentStep, AgentBusy, AgentIdle,
     AgentStops, AgentRestarts, AgentPruned, AgentChange, vars

\* Where no tick dies half way, no orphan is cancelled and no task is completed
\* behind the mission's back, every item in progress has an open task: there is
\* somebody whose completion moves it on.
THEOREM ProgressHasTask ==
  ASSUME {"crash", "cancel", "mcp_complete"} \cap Disturbances = {}
  PROVE  Spec => []InProgressHasTask
<1>1. Init => HasTaskNow
  BY DEF Init, HasTaskNow, HasTask
<1>2. TypeOK /\ HasTaskNow /\ [Next]_vars => HasTaskNow'
  BY NextHasTask
<1>3. HasTaskNow => InProgressHasTask
  BY DEF HasTaskNow, HasTask, InProgressHasTask, InProgress
<1> QED
  BY <1>1, <1>2, <1>3, TypeCorrect, PTL DEF Spec

----------------------------------------------------------------------------
(* Blocked items have a submission on record *)

\* An item that anything but work has been done on has a submission on record.
Shown(its, ws, ts) ==
  \A i \in Items :
    \/ its[i].status = "Blocked"
    \/ \E k \in WatchKinds : ws[i][k].status # "None"
    \/ \E n \in 1 .. Len(ts) : ts[n].item = i /\ ts[n].kind # "Work"
    => its[i].evidence

\* No item loses its evidence, is blocked, is watched for the first time or
\* gets a task.
LEMMA SameShown ==
  ASSUME NEW its0, NEW ws0, NEW ts0, Shown(its0, ws0, ts0), NEW its, NEW ws, NEW ts,
         \A i \in Items :
           /\ its[i].evidence = its0[i].evidence
           /\ its[i].status = "Blocked" => its0[i].status = "Blocked"
           /\ \A k \in WatchKinds : ws0[i][k].status = "None" => ws[i][k].status = "None",
         Len(ts) = Len(ts0),
         \A n \in 1 .. Len(ts) : ts[n].item = ts0[n].item /\ ts[n].kind = ts0[n].kind
  PROVE  Shown(its, ws, ts)
BY DEF Shown

ShownNow == Shown(items, watches, tasks)

\* The same tasks, in whatever state and with whatever owner.
SameTasks(from, to) ==
  /\ Len(to) = Len(from)
  /\ \A n \in 1 .. Len(from) : to[n].item = from[n].item /\ to[n].kind = from[n].kind

\* Only the records of item i change.
OnlyItem(i, its, ws) ==
  \A j \in Items \ {i} : its[j] = items[j] /\ ws[j] = watches[j]

\* A handler on an item that has a submission on record when it is over.
LEMMA HandlerShown ==
  ASSUME ShownNow, NEW i \in Items, NEW its, NEW ws, its[i].evidence,
         OnlyItem(i, its, ws), NEW list, SameTasks(tasks, list)
  PROVE  Shown(its, ws, list)
BY DEF ShownNow, Shown, OnlyItem, SameTasks

LEMMA AddedShown ==
  ASSUME NEW its, NEW ws, NEW list \in Seq(Task), Shown(its, ws, list),
         NEW i \in Items, its[i].evidence,
         NEW kind \in {"Work", "Fix", "Review"}, NEW a \in Agents
  PROVE  Shown(its, ws, Append(list, NewTask(kind, i, a)))
<1> DEFINE new == NewTask(kind, i, a)
           ts  == Append(list, new)
<1>1. new \in Task /\ new.item = i
  BY NewTaskType DEF NewTask
<1> HIDE DEF new
<1>2. \A n \in 1 .. Len(ts) : ts[n] = new \/ (n \in 1 .. Len(list) /\ ts[n] = list[n])
  BY <1>1, AppendProperties, LenProperties
<1> HIDE DEF ts
<1>3. Shown(its, ws, ts)
  BY <1>1, <1>2 DEF Shown
<1> QED
  BY <1>3 DEF ts, new

LEMMA HiredShown ==
  ASSUME NEW its \in ItemMap, NEW ws, NEW ts \in Seq(Task), Shown(its, ws, ts),
         NEW hires \in Hires(its), NEW done \in Hires(its)
  PROVE  Shown(AssignedItems(its, hires), ws, ts \o WorkTasks(done))
<1> DEFINE its2 == AssignedItems(its, hires)
           ts2  == ts \o WorkTasks(done)
<1>1. \A i \in Items : /\ its2[i].evidence = its[i].evidence
                       /\ its2[i].status = "Blocked" => its[i].status = "Blocked"
  BY AssignedEvidence, AssignedItem
<1>2. \A n \in 1 .. Len(ts2) :
        ts2[n].kind = "Work" \/ (n \in 1 .. Len(ts) /\ ts2[n] = ts[n])
  <2>1. ASSUME NEW x \in 1 .. Len(done) PROVE ts2[Len(ts) + x].kind = "Work"
    <3>1. ts2[Len(ts) + x] = NewTask("Work", done[x].item, done[x].agent)
      BY WorkAppended
    <3>2. \A i, a : NewTask("Work", i, a).kind = "Work"
      BY DEF NewTask
    <3> QED
      BY <3>1, <3>2
  <2>2. /\ \A n \in 1 .. Len(ts) : ts2[n] = ts[n]
        /\ \A n \in 1 .. Len(ts2) :
             n \in 1 .. Len(ts) \/ \E x \in 1 .. Len(done) : n = Len(ts) + x
    BY WorkAppended
  <2> HIDE DEF ts2
  <2> QED
    BY <2>1, <2>2
<1> HIDE DEF its2, ts2
<1>3. Shown(its2, ws, ts2)
  BY <1>1, <1>2 DEF Shown
<1> QED
  BY <1>3 DEF its2, ts2

LEMMA PlannedShown ==
  ASSUME NEW its \in ItemMap, NEW ws, NEW ts \in Seq(Task),
         NEW auth \in Authorities(ts), Shown(its, ws, ts)
  PROVE  Shown(Planned(its, ws, ts, auth), ws, ts)
<1> DEFINE p == Planned(its, ws, ts, auth)
<1>1. ASSUME NEW i \in Items
      PROVE  /\ p[i].evidence = its[i].evidence
             /\ p[i].status = "Blocked" => its[i].status = "Blocked"
  <2> DEFINE r == Reconciled(its[i], ts, auth[i])
  <2>1. p[i].status \in {r.status, "Done", "Ready"} /\ p[i].evidence = its[i].evidence
    BY PlannedRest
  <2>2. r.status = "Blocked" => its[i].status = "Blocked"
    BY AuthorityIsOpen, ReconciledRest DEF ItemMap
  <2> HIDE DEF p, r
  <2> QED
    BY <2>1, <2>2
<1> HIDE DEF p
<1>2. Shown(p, ws, ts)
  BY <1>1, SameShown
<1> QED
  BY <1>2 DEF p

LEMMA TickShown ==
  ASSUME NEW its \in ItemMap, NEW ws \in WatchMap, NEW ts \in Seq(Task),
         Shown(its, ws, ts),
         \/ TickFrom(its, ws, ts)
         \/ CliTick(its, ws, ts)
         \/ Commit(its, ws, ts)
  PROVE  Shown(items', watches', tasks')
<1>1. CASE Commit(its, ws, ts)
  BY <1>1 DEF Commit
<1>2. ASSUME watches' = ws, NEW auth \in Authorities(ts),
             NEW hires \in Hirings(Planned(its, ws, ts, auth)),
             items' = AssignedItems(Planned(its, ws, ts, auth), hires),
             tasks' = ts \o WorkTasks(hires)
      PROVE  Shown(items', watches', tasks')
  <2>1. Planned(its, ws, ts, auth) \in ItemMap
    BY PlannedType
  <2>2. hires \in Hires(Planned(its, ws, ts, auth))
    BY <2>1, HiringsType
  <2> QED
    BY <1>2, <2>1, <2>2, PlannedShown, HiredShown
<1> QED
  BY <1>1, <1>2, TickCases DEF CliTick

LEMMA SubmitWorkShown ==
  ASSUME TypeOK, ShownNow, NEW n, NEW pr \in BOOLEAN, SubmitWork(n, pr)
  PROVE  ShownNow'
<1> DEFINE i    == tasks[n].item
           list == CompletedTasks(n)
           done == [items EXCEPT ![i].status = "Done", ![i].evidence = TRUE]
<1>1. n \in DOMAIN tasks /\ i \in Items /\ watches \in WatchMap
  BY CompleteType DEF SubmitWork, TypeOK, WatchMap
<1>2. list \in Seq(Task) /\ SameTasks(tasks, list)
  BY <1>1, CompletedTasksAre DEF SameTasks
<1>3. CASE pr \/ Gated(i)
  <2> DEFINE ws  == IF pr THEN Rewatched(i) ELSE watches
             its == Submitted(i)
  <2>1. PICK ts \in IF Gated(i) THEN WithReviewTask(i, list) ELSE {list} :
          items' = its /\ watches' = ws /\ tasks' = ts
    BY <1>3, Zenon DEF SubmitWork, Commit
  <2>2. its[i].evidence /\ OnlyItem(i, its, ws)
    BY <1>1, SubmittedItem DEF OnlyItem
  <2> HIDE DEF i, list, its, ws
  <2>3. ts = list \/ \E a \in Agents : ts = Append(list, NewTask("Review", i, a))
    BY <1>1, <1>2, <2>1, ReviewTaskType
  <2>4. Shown(its, ws, list)
    BY <1>1, <1>2, <2>2, HandlerShown
  <2>5. Shown(its, ws, ts)
    BY <1>1, <1>2, <2>2, <2>3, <2>4, AddedShown
  <2> QED
    BY <2>1, <2>5 DEF ShownNow
<1>4. CASE ~(pr \/ Gated(i))
  <2>1. CliTick(done, watches, list)
    BY <1>4, Zenon DEF SubmitWork
  <2>2. done \in ItemMap /\ done[i].evidence /\ OnlyItem(i, done, watches)
    BY <1>1, SubmittedItem DEF OnlyItem
  <2> HIDE DEF i, list, done
  <2>3. Shown(done, watches, list)
    BY <1>1, <1>2, <2>2, HandlerShown
  <2> QED
    BY <1>1, <1>2, <2>1, <2>2, <2>3, TickShown DEF ShownNow
<1> QED
  BY <1>3, <1>4

\* Changes are requested by a review task, and an item with a review task has
\* been submitted.
LEMMA TaskStepShown ==
  ASSUME TypeOK, ShownNow, NEW n \in 1 .. Len(tasks), TaskStep(n)
  PROVE  ShownNow'
<1> DEFINE i    == tasks[n].item
           list == CompletedTasks(n)
<1>1. /\ n \in DOMAIN tasks /\ tasks \in Seq(Task) /\ tasks[n] \in Task
      /\ items \in ItemMap /\ watches \in WatchMap /\ DOMAIN tasks = 1 .. Len(tasks)
  BY ElementOfSeq, LenProperties DEF TypeOK, ItemMap, WatchMap
<1>2. i \in Items /\ list \in Seq(Task) /\ SameTasks(tasks, list)
  BY <1>1, CompletedTasksAre DEF Task, SameTasks
<1>3. ASSUME NEW pr \in BOOLEAN, SubmitWork(n, pr) PROVE ShownNow'
  BY <1>3, SubmitWorkShown
<1>4. tasks[n].kind = "Review" => items[i].evidence
  BY <1>2 DEF ShownNow, Shown
<1> HIDE DEF i, list
<1>5. CASE ApproveReview(n)
  <2> DEFINE its == Approved(i)
  <2>1. CliTick(its, watches, list) \/ Commit(its, watches, list)
    BY <1>5 DEF ApproveReview, i, list
  <2>2. its \in ItemMap /\ its[i].evidence /\ OnlyItem(i, its, watches)
    BY <1>2, ApprovedType, ApprovedItem DEF OnlyItem
  <2> HIDE DEF its
  <2>3. Shown(its, watches, list)
    BY <1>2, <2>2, HandlerShown
  <2> QED
    BY <1>1, <1>2, <2>1, <2>2, <2>3, TickShown DEF ShownNow
<1>6. CASE RejectReview(n)
  <2> DEFINE its == ChangesRequested(i)
  <2>1. PICK ts \in WithFixTask(i, list) :
          items' = its /\ watches' = watches /\ tasks' = ts
    BY <1>6 DEF RejectReview, Commit, i, list
  <2>2. ts = list \/ \E a \in Agents : ts = Append(list, NewTask("Fix", i, a))
    BY <1>2, <2>1, FixTaskType
  <2>3. its[i].evidence /\ OnlyItem(i, its, watches)
    BY <1>2, <1>4, <1>6, ChangesRequestedItem DEF RejectReview, OnlyItem
  <2> HIDE DEF its
  <2>4. Shown(its, watches, list)
    BY <1>2, <2>3, HandlerShown
  <2>5. Shown(its, watches, ts)
    BY <1>2, <2>2, <2>3, <2>4, AddedShown
  <2> QED
    BY <2>1, <2>5 DEF ShownNow
<1>7. CASE McpComplete(n)
  <2>1. items' = items /\ watches' = watches /\ tasks' = list
    BY <1>7 DEF McpComplete, Commit, list
  <2>2. Shown(items, watches, list)
    BY <1>2, SameShown DEF ShownNow, SameTasks
  <2> QED
    BY <2>1, <2>2 DEF ShownNow
<1>8. CASE StartTask(n) \/ FailRound(n) \/ RequeueOrphan(n) \/ CancelOrphan(n)
           \/ \E a \in Agents : ClaimTask(n, a)
  <2>1. PICK task : /\ SetTask(n, task) /\ UNCHANGED <<items, watches>>
                    /\ \/ \E s \in {"Running", "Assigned", "Cancelled"} :
                            task = [tasks[n] EXCEPT !.state = s]
                       \/ task = [tasks[n] EXCEPT !.state = "Pending",
                                    !.owner = NoAgent, !.queued = TRUE]
                       \/ \E a \in Agents :
                            task = [tasks[n] EXCEPT !.state = "Assigned",
                                      !.owner = a, !.queued = FALSE]
    BY <1>8 DEF StartTask, FailRound, RequeueOrphan, CancelOrphan, ClaimTask
  <2>2. task \in Task /\ task.item = tasks[n].item /\ task.kind = tasks[n].kind
    BY <1>1, <2>1 DEF Task, NonTerminal
  <2>3. Len(tasks') = Len(tasks)
    BY <1>1, <2>1, <2>2, ExceptSeq DEF SetTask
  <2>4. \A m \in 1 .. Len(tasks) :
          tasks'[m].item = tasks[m].item /\ tasks'[m].kind = tasks[m].kind
    BY <1>1, <2>1, <2>2 DEF SetTask
  <2>5. Shown(items, watches, tasks')
    BY <2>3, <2>4, SameShown DEF ShownNow
  <2> QED
    BY <2>1, <2>5 DEF ShownNow
<1> QED
  BY <1>3, <1>5, <1>6, <1>7, <1>8 DEF TaskStep

\* The watch engine blocks and fixes items that are watched.
LEMMA WatchStepShown ==
  ASSUME TypeOK, ShownNow, NEW i \in Items, NEW k \in WatchKinds, WatchStep(i, k)
  PROVE  ShownNow'
<1>1. /\ tasks \in Seq(Task) /\ items \in ItemMap /\ watches \in WatchMap
      /\ items[i] \in WorkItem
  BY DEF TypeOK, ItemMap, WatchMap
<1>2. items[i].evidence
  BY DEF WatchStep, PollClear, PollPending, PollFailing, PollError, Due, ShownNow, Shown
<1>3. PICK status, failures, its, ts :
        /\ its \in {items, [items EXCEPT ![i].status = "Blocked"]}
        /\ \/ ts = tasks
           \/ /\ items[i].owner # NoAgent
              /\ ts = Append(tasks, NewTask("Fix", i, items[i].owner))
        /\ items' = its /\ watches' = SetWatch(i, k, status, failures) /\ tasks' = ts
  BY DEF WatchStep, PollClear, PollPending, PollFailing, PollError, Commit
<1>4. its[i].evidence /\ \A j \in Items \ {i} : its[j] = items[j]
  BY <1>1, <1>2, <1>3 DEF ItemMap, WorkItem
<1>5. \A j \in Items \ {i} : watches'[j] = watches[j]
  BY <1>1, <1>3 DEF SetWatch, WatchMap
<1>6. ts = tasks \/ \E a \in Agents : ts = Append(tasks, NewTask("Fix", i, a))
  BY <1>1, <1>3 DEF WorkItem
<1>7. Shown(its, watches', tasks)
  BY <1>4, <1>5, HandlerShown DEF OnlyItem, SameTasks
<1>8. Shown(its, watches', ts)
  BY <1>1, <1>4, <1>6, <1>7, AddedShown
<1> QED
  BY <1>3, <1>8 DEF ShownNow

LEMMA OperatorStepShown ==
  ASSUME TypeOK, ShownNow, "mcp_reject" \notin Disturbances, OperatorStep
  PROVE  ShownNow'
<1>1. items \in ItemMap /\ watches \in WatchMap /\ tasks \in Seq(Task)
  BY DEF TypeOK, ItemMap, WatchMap
<1>2. ASSUME NEW i \in Items, McpApprove(i) PROVE ShownNow'
  <2>1. /\ Approved(i) \in ItemMap /\ Approved(i)[i].evidence
        /\ \A j \in Items \ {i} : Approved(i)[j] = items[j]
    BY ApprovedType, ApprovedItem
  <2>2. Shown(Approved(i), watches, tasks)
    BY <2>1, HandlerShown DEF OnlyItem, SameTasks
  <2> QED
    BY <1>1, <1>2, <2>1, <2>2, TickShown DEF McpApprove, ShownNow
<1>3. \A i \in Items : ~McpReject(i)
  BY DEF McpReject, Disturb
<1>4. ASSUME NEW i \in Items, NEW a \in Agents, NoteRedirect(i, a) PROVE ShownNow'
  <2>1. PICK list \in Seq(Task) :
          /\ Len(list) = Len(tasks)
          /\ \A m \in 1 .. Len(tasks) :
               list[m].item = tasks[m].item /\ list[m].kind = tasks[m].kind
          /\ \/ tasks' = list
             \/ tasks' = Append(list, NewTask("Fix", i, a)) /\ items[i].evidence
             \/ tasks' = Append(list, NewTask("Work", i, a))
    BY <1>4, RedirectedTasks
  <2>2. watches' = watches /\ items' = [items EXCEPT ![i] = AssignTo(items[i], a)]
    BY <1>4 DEF NoteRedirect
  <2>3. /\ items'[i].status = "Assigned" /\ items'[i].evidence = items[i].evidence
        /\ \A j \in Items \ {i} : items'[j] = items[j]
    BY <1>1, <2>2 DEF ItemMap, WorkItem, AssignTo
  <2>4. Shown(items', watches, list)
    BY <2>1, <2>3, SameShown DEF ShownNow
  <2>5. CASE items[i].evidence
    <3>1. Shown(items', watches, tasks')
      BY <2>1, <2>3, <2>4, <2>5, AddedShown
    <3> QED
      BY <2>2, <3>1 DEF ShownNow
  <2>6. CASE ~items[i].evidence
    <3> DEFINE new == NewTask("Work", i, a)
    <3>1. new \in Task /\ new.kind = "Work"
      BY NewTaskType DEF NewTask
    <3>2. tasks' = list \/ tasks' = Append(list, new)
      BY <2>1, <2>6
    <3> HIDE DEF new
    <3>3. \A n \in 1 .. Len(tasks') :
            tasks'[n] = new \/ (n \in 1 .. Len(list) /\ tasks'[n] = list[n])
      BY <3>1, <3>2, AppendProperties, LenProperties
    <3> QED
      BY <2>2, <2>4, <3>1, <3>3 DEF ShownNow, Shown
  <2> QED
    BY <2>5, <2>6
<1>5. CASE NoteResume \/ NotePause \/ ResumeMission \/ \E f \in BOOLEAN : StopMission(f)
  <2>1. UNCHANGED <<items, tasks>>
    BY <1>5 DEF NoteResume, NotePause, StopMission, ResumeMission
  <2>2. \A i \in Items, k \in WatchKinds :
          watches[i][k].status = "None" => watches'[i][k].status = "None"
    BY <1>5 DEF NoteResume, NotePause, StopMission, ResumeMission
  <2> QED
    BY <2>1, <2>2 DEF ShownNow, Shown
<1> QED
  BY <1>2, <1>3, <1>4, <1>5 DEF OperatorStep

LEMMA NextShown ==
  ASSUME "mcp_reject" \notin Disturbances, TypeOK, ShownNow, [Next]_vars
  PROVE  ShownNow'
<1>1. items \in ItemMap /\ watches \in WatchMap /\ tasks \in Seq(Task)
  BY DEF TypeOK, ItemMap, WatchMap
<1>2. CASE DispatcherTick
  BY <1>1, <1>2, TickShown DEF DispatcherTick, ShownNow
<1>3. CASE TickDies
  <2>1. PICK auth \in Authorities(tasks) :
          LET planned == Planned(items, watches, tasks, auth)
          IN  \E hires \in Hires(planned), done \in Hires(planned) :
                /\ planned \in ItemMap
                /\ items' = AssignedItems(planned, hires)
                /\ tasks' = tasks \o WorkTasks(done)
    BY <1>3, TickDiesCases
  <2>2. watches' = watches
    BY <1>3 DEF TickDies
  <2> QED
    BY <1>1, <2>1, <2>2, PlannedShown, HiredShown DEF ShownNow
<1>4. CASE \E n \in 1 .. Len(tasks) : TaskStep(n)
  BY <1>4, TaskStepShown
<1>5. CASE \E i \in Items, k \in WatchKinds : WatchStep(i, k)
  BY <1>5, WatchStepShown
<1>6. CASE OperatorStep
  BY <1>6, OperatorStepShown
<1>7. CASE UNCHANGED <<items, watches, tasks>>
  BY <1>7 DEF ShownNow
<1> QED
  BY <1>2, <1>3, <1>4, <1>5, <1>6, <1>7 DEF Next, AgentStep, AgentBusy, AgentIdle,
     AgentStops, AgentRestarts, AgentPruned, AgentChange, vars

LEMMA InitShown == Init => ShownNow
<1> SUFFICES ASSUME Init PROVE ShownNow
  OBVIOUS
<1>1. tasks = << >> /\ Len(tasks) = 0
  BY EmptySeq DEF Init
<1> QED
  BY <1>1 DEF Init, ShownNow, Shown

\* Unless mission.reject is called over MCP on an item that was never
\* submitted, every blocked item has a submission on record, which the tick
\* needs before it finishes the item.
THEOREM BlockedIsSubmitted ==
  ASSUME "mcp_reject" \notin Disturbances
  PROVE  Spec => []BlockedWasSubmitted
<1>1. TypeOK /\ ShownNow /\ [Next]_vars => ShownNow'
  BY NextShown
<1>2. ShownNow => BlockedWasSubmitted
  BY DEF ShownNow, Shown, BlockedWasSubmitted
<1> QED
  BY <1>1, <1>2, InitShown, TypeCorrect, PTL DEF Spec

\* Every item that was started has something that moves it, an open task or a
\* submission that waits for its gate, unless one of the four things happens
\* that leave an item behind: a tick that dies, a cancelled orphan, a
\* completion over MCP, a rejection over MCP.
THEOREM StartedItemsMove ==
  ASSUME {"crash", "cancel", "mcp_complete", "mcp_reject"} \cap Disturbances = {}
  PROVE  Spec => []StartedItemMoves
<1>1. Spec => []InProgressHasTask
  BY ProgressHasTask
<1>2. Spec => []BlockedWasSubmitted
  BY BlockedIsSubmitted
<1> QED
  BY <1>1, <1>2, PTL DEF StartedItemMoves
=============================================================================
