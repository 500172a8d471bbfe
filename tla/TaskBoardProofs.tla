--------------------------- MODULE TaskBoardProofs ---------------------------
(***************************************************************************)
(* Theorems about TaskBoard, for any tasks, agents, clients and            *)
(* disturbances: a task is in one place at a time, an open one is          *)
(* somewhere, and a finished one stays finished.                           *)
(*                                                                         *)
(* What the commands may be at (Shapes), whose they are (OwnJobs) and      *)
(* which tasks the reclaims of orphans go through (Orphans) come first.    *)
(* Then every step is shown to take a task out of places, to move it from  *)
(* one place to another, or to make a new one (the lemmas "...Moves"), and *)
(* the invariants Alone, News and Over follow from that alone.             *)
(***************************************************************************)
EXTENDS TaskBoard, TLAPS

----------------------------------------------------------------------------
(* What the steps do to the command of a process *)

OthersStay(p) == \A q \in Procs \ {p} : job'[q] = job[q]

JobsTyped == job' \in [Procs -> Job]

LEMMA OneJob ==
  ASSUME TypeOK, NEW p \in Procs, NEW j \in Job, job' = [job EXCEPT ![p] = j]
  PROVE  JobsTyped /\ job'[p] = j /\ OthersStay(p)
BY DEF TypeOK, JobsTyped, OthersStay

LEMMA JobFields ==
  ASSUME TypeOK, NEW p \in Procs
  PROVE  /\ job[p] \in Job
         /\ job[p].kind \in Kinds /\ job[p].target \in Agents \cup {NoAgent}
         /\ job[p].dead \subseteq Agents /\ job[p].todo \subseteq Tasks
         /\ job[p].task \in Tasks \cup {NoTask}
         /\ job[p].at \in {"next", "find", "get", "set", "put"} /\ job[p].draft \in TaskRecord
BY DEF TypeOK, Job

LEMMA NothingIs == Nothing \in TaskRecord /\ Pending \in TaskRecord /\ Pending.state = "Pending"
BY DEF Nothing, Pending, TaskRecord, TaskState

LEMMA NoJobIs ==
  /\ NoJob \in Job /\ NoJob.kind = "none" /\ NoJob.todo = {} /\ NoJob.task = NoTask
  /\ NoJob.at = "next"
BY NothingIs DEF NoJob, NewJob, Job, Kinds

LEMMA GoOnTo ==
  ASSUME TypeOK, NEW p \in Procs, NEW next \in {"next", "find", "get", "set", "put"},
         NEW record \in TaskRecord, GoOn(p, next, record)
  PROVE  /\ JobsTyped /\ OthersStay(p)
         /\ job'[p].kind = job[p].kind /\ job'[p].target = job[p].target
         /\ job'[p].todo = job[p].todo /\ job'[p].dead = job[p].dead /\ job'[p].at = next
         /\ job'[p].task = IF next = "next" THEN NoTask ELSE job[p].task
         /\ next # "next" => job'[p].draft = record
<1>1. PICK j : j = [job[p] EXCEPT !.at = next,
                      !.task = IF next = "next" THEN NoTask ELSE @,
                      !.draft = IF next = "next" THEN Nothing ELSE record]
  OBVIOUS
<1>2. job' = [job EXCEPT ![p] = j]
  BY <1>1 DEF GoOn, TypeOK
<1>3. /\ j \in Job
      /\ j.kind = job[p].kind /\ j.target = job[p].target
      /\ j.todo = job[p].todo /\ j.dead = job[p].dead /\ j.at = next
      /\ j.task = (IF next = "next" THEN NoTask ELSE job[p].task)
      /\ next # "next" => j.draft = record
  BY <1>1, JobFields, NothingIs DEF Job
<1> QED
  BY <1>2, <1>3, OneJob

LEMMA BeginAs ==
  ASSUME TypeOK, NEW p \in Procs, NEW new \in Job, Begin(p, new)
  PROVE  JobsTyped /\ OthersStay(p) /\ job'[p] = new /\ job[p] = NoJob
BY OneJob DEF Begin

LEMMA BeginsNew ==
  ASSUME TypeOK, NEW p \in Procs, NEW kind \in Kinds, NEW target \in Agents \cup {NoAgent},
         NEW dead \in SUBSET Agents, NEW task \in Tasks \cup {NoTask},
         NEW at \in {"next", "find", "get", "set", "put"},
         Begin(p, NewJob(kind, target, dead, task, at))
  PROVE  /\ JobsTyped /\ OthersStay(p) /\ job[p] = NoJob
         /\ job'[p].kind = kind /\ job'[p].target = target /\ job'[p].dead = dead
         /\ job'[p].todo = {} /\ job'[p].task = task /\ job'[p].at = at
<1>1. PICK j : j = NewJob(kind, target, dead, task, at)
  OBVIOUS
<1>2. /\ j \in Job /\ j.kind = kind /\ j.target = target /\ j.dead = dead
      /\ j.todo = {} /\ j.task = task /\ j.at = at
  BY <1>1, NothingIs DEF NewJob, Job
<1> QED
  BY <1>1, <1>2, BeginAs

LEMMA AddAt ==
  ASSUME TypeOK, NEW c \in Clients, NEW t \in Tasks, Add(c, t)
  PROVE  /\ JobsTyped /\ OthersStay(c) /\ job[c] = NoJob
         /\ job'[c].kind = "add" /\ job'[c].todo = {} /\ job'[c].task = t /\ job'[c].at = "set"
         /\ job'[c].draft = Pending
<1>1. PICK j : j = [NewJob("add", NoAgent, {}, t, "set") EXCEPT !.draft = Pending]
  OBVIOUS
<1>2. j \in Job /\ j.kind = "add" /\ j.todo = {} /\ j.task = t /\ j.at = "set" /\ j.draft = Pending
  BY <1>1, NothingIs DEF NewJob, Job, Kinds
<1> QED
  BY <1>1, <1>2, BeginAs DEF Add, Procs

LEMMA AssignAt ==
  ASSUME TypeOK, NEW c \in Clients, NEW t \in Tasks, NEW a \in Agents, Assign(c, t, a)
  PROVE  /\ JobsTyped /\ OthersStay(c) /\ job[c] = NoJob
         /\ job'[c].kind = "assign" /\ job'[c].todo = {} /\ job'[c].task = t /\ job'[c].at = "set"
         /\ job'[c].target = a /\ job'[c].draft = AssignedTo(a)
<1>1. PICK j : j = [NewJob("assign", a, {}, t, "set") EXCEPT !.draft = AssignedTo(a)]
  OBVIOUS
<1>2. /\ j \in Job /\ j.kind = "assign" /\ j.todo = {} /\ j.task = t /\ j.at = "set" /\ j.target = a
      /\ j.draft = AssignedTo(a)
  BY <1>1, NothingIs DEF NewJob, Job, Kinds, AssignedTo, TaskRecord, TaskState
<1> QED
  BY <1>1, <1>2, BeginAs DEF Assign, Procs

LEMMA PopAt ==
  ASSUME TypeOK, NEW p \in Procs, NEW t \in Tasks,
         job' = [job EXCEPT ![p].task = t, ![p].at = "get"]
  PROVE  /\ JobsTyped /\ OthersStay(p)
         /\ job'[p].kind = job[p].kind /\ job'[p].target = job[p].target
         /\ job'[p].todo = job[p].todo /\ job'[p].task = t /\ job'[p].at = "get"
<1>1. PICK j : j = [job[p] EXCEPT !.task = t, !.at = "get"]
  OBVIOUS
<1>2. job' = [job EXCEPT ![p] = j]
  BY <1>1 DEF TypeOK
<1>3. /\ j \in Job /\ j.kind = job[p].kind /\ j.target = job[p].target
      /\ j.todo = job[p].todo /\ j.task = t /\ j.at = "get"
  BY <1>1, JobFields DEF Job
<1> QED
  BY <1>2, <1>3, OneJob

\* A reclaim goes to its next agent or its next task.
LEMMA ReclaimAt ==
  ASSUME TypeOK, NEW p \in Procs, NEW dead \in SUBSET Agents, NEW todo \in SUBSET Tasks,
         job' = [job EXCEPT ![p].dead = dead, ![p].todo = todo]
  PROVE  /\ JobsTyped /\ OthersStay(p)
         /\ job'[p].kind = job[p].kind /\ job'[p].target = job[p].target
         /\ job'[p].todo = todo /\ job'[p].dead = dead
         /\ job'[p].task = job[p].task /\ job'[p].at = job[p].at /\ job'[p].draft = job[p].draft
<1>1. PICK j : j = [job[p] EXCEPT !.dead = dead, !.todo = todo]
  OBVIOUS
<1>2. job' = [job EXCEPT ![p] = j]
  BY <1>1 DEF TypeOK
<1>3. /\ j \in Job /\ j.kind = job[p].kind /\ j.target = job[p].target
      /\ j.todo = todo /\ j.dead = dead /\ j.task = job[p].task /\ j.at = job[p].at
      /\ j.draft = job[p].draft
  BY <1>1, JobFields DEF Job
<1> QED
  BY <1>2, <1>3, OneJob

LEMMA PickAt ==
  ASSUME TypeOK, NEW p \in Procs, Pick(p)
  PROVE  \E t \in job[p].todo :
           /\ JobsTyped /\ OthersStay(p) /\ t \in Tasks
           /\ job'[p].kind = job[p].kind /\ job'[p].target = job[p].target
           /\ job'[p].todo = job[p].todo \ {t} /\ job'[p].task = t
           /\ job'[p].dead = job[p].dead
           /\ job'[p].at = IF job[p].kind \in {"requeue", "cancel"} THEN "get" ELSE "put"
<1>1. PICK t \in job[p].todo :
       job' = [job EXCEPT
                 ![p].todo = @ \ {t}, ![p].task = t,
                 ![p].at = IF job[p].kind \in {"requeue", "cancel"} THEN "get" ELSE "put"]
  BY DEF Pick
<1>2. PICK j : j = [job[p] EXCEPT !.todo = @ \ {t}, !.task = t,
                      !.at = IF job[p].kind \in {"requeue", "cancel"} THEN "get" ELSE "put"]
  OBVIOUS
<1>3. job' = [job EXCEPT ![p] = j]
  BY <1>1, <1>2 DEF TypeOK
<1>4. /\ j \in Job /\ t \in Tasks
      /\ j.kind = job[p].kind /\ j.target = job[p].target
      /\ j.todo = job[p].todo \ {t} /\ j.task = t /\ j.dead = job[p].dead
      /\ j.at = IF job[p].kind \in {"requeue", "cancel"} THEN "get" ELSE "put"
  BY <1>2, JobFields DEF Job
<1> QED
  BY <1>3, <1>4, OneJob

----------------------------------------------------------------------------
(* Types, and what a command has at each of its steps *)

TaskKinds == {"add", "assign", "claim", "assign_all", "requeue"}

Reclaims == {"reclaim", "reclaim_to"}

Own == {"start", "complete", "giveback"}

StepOK(j) ==
  /\ j.at = "find" => j.kind = "claim"
  /\ j.at = "get" => j.kind \in {"claim", "assign_all", "requeue", "cancel"} \cup Own
  /\ j.at = "set" => j.kind \in TaskKinds \cup Own \cup {"cancel"}
  /\ j.at = "put" => j.kind \in TaskKinds \cup Reclaims \cup {"remove", "delete", "complete"}

TargetOK(j) ==
  /\ j.kind \in {"assign", "assign_all", "reclaim_to"} => j.target \in Agents
  /\ j.kind = "claim" /\ j.at \in {"get", "set", "put"} => j.target \in Agents

DraftOK(j) ==
  j.at = "set" =>
    /\ j.kind \notin {"complete", "cancel"} => j.draft.state \in Open
    /\ j.kind = "complete" => j.draft.state = "Completed"
    /\ j.kind = "cancel" => j.draft.state = "Cancelled"

ShapeOK(j) ==
  /\ j.task \notin j.todo
  /\ j.at = "next" <=> j.task = NoTask
  /\ j.todo # {} => j.kind \in Reclaims \cup OrphanActions
  /\ j.kind \in OrphanActions /\ j.dead # {} => j.at = "next" /\ j.todo = {}
  /\ StepOK(j) /\ TargetOK(j) /\ DraftOK(j)

Shapes == \A p \in Procs : ShapeOK(job[p])

LEMMA NoJobShape == ShapeOK(NoJob)
BY NoJobIs DEF ShapeOK, StepOK, TargetOK, DraftOK

LEMMA FollowingIs ==
  ASSUME NEW kind
  PROVE  /\ Following(kind, "get") = "set"
         /\ Following(kind, "set") = IF kind \in TaskKinds \cup {"complete"} THEN "put" ELSE "next"
         /\ Following(kind, "put") = "next"
BY DEF Following, TaskKinds

LEMMA ChangedIs ==
  ASSUME TypeOK, Shapes, NEW p \in Procs, job[p].at = "get",
         Applies(job[p].kind, tasks[job[p].task]),
         NEW new, new = Changed(job[p].kind, job[p].target, tasks[job[p].task])
  PROVE  /\ new \in TaskRecord
         /\ job[p].kind \notin {"complete", "cancel"} => new.state \in Open
         /\ job[p].kind = "complete" => new.state = "Completed"
         /\ job[p].kind = "cancel" => new.state = "Cancelled"
<1>1. job[p].kind \in {"claim", "assign_all", "requeue", "cancel"} \cup Own
  BY DEF Shapes, ShapeOK, StepOK
<1>2. job[p].task \in Tasks /\ job[p].target \in Agents \cup {NoAgent}
  BY JobFields DEF Shapes, ShapeOK
<1>3. tasks[job[p].task] \in TaskRecord
  BY <1>2 DEF TypeOK
<1>4. ASSUME NEW state \in {"Running", "Completed", "Cancelled"}, NEW record \in TaskRecord
      PROVE  InState(record, state) \in TaskRecord /\ InState(record, state).state = state
  BY DEF InState, TaskRecord, TaskState
<1>5. AssignedTo(job[p].target) \in TaskRecord /\ AssignedTo(job[p].target).state = "Assigned"
  BY <1>2 DEF AssignedTo, TaskRecord, TaskState
<1>6. CASE job[p].kind \in {"claim", "assign_all", "giveback"}
  BY <1>5, <1>6 DEF Changed, Open
<1>7. CASE job[p].kind = "start"
  BY <1>3, <1>4, <1>7 DEF Changed, Open
<1>8. CASE job[p].kind = "complete"
  BY <1>3, <1>4, <1>8 DEF Changed
<1>9. CASE job[p].kind = "cancel"
  BY <1>3, <1>4, <1>9 DEF Changed
<1>10. CASE job[p].kind = "requeue"
  BY <1>10, NothingIs DEF Changed, Open
<1> QED
  BY <1>1, <1>6, <1>7, <1>8, <1>9, <1>10 DEF Own

\* Where Get leaves the command.
LEMMA GetAt ==
  ASSUME TypeOK, Shapes, NEW p \in Procs, Get(p)
  PROVE  /\ JobsTyped /\ OthersStay(p) /\ job[p].task \in Tasks
         /\ job'[p].kind = job[p].kind /\ job'[p].target = job[p].target
         /\ job'[p].todo = job[p].todo /\ job'[p].dead = job[p].dead
         /\ \/ /\ job'[p].at = "set" /\ job'[p].task = job[p].task
               /\ Applies(job[p].kind, tasks[job[p].task])
               /\ job'[p].draft = Changed(job[p].kind, job[p].target, tasks[job[p].task])
               /\ DraftOK(job'[p])
            \/ /\ job'[p].at = "next" /\ job'[p].task = NoTask
               /\ ~ Applies(job[p].kind, tasks[job[p].task])
            \/ job'[p].at = "put" /\ job'[p].task = job[p].task /\ job[p].kind = "claim"
<1> DEFINE record == tasks[job[p].task]
<1>1. job[p].at = "get" /\ job[p].task \in Tasks
  BY JobFields DEF Get, Shapes, ShapeOK
<1>2. CASE Applies(job[p].kind, record) /\ GoOn(p, "set", Changed(job[p].kind, job[p].target, record))
  <2>1. PICK new : new = Changed(job[p].kind, job[p].target, record)
    OBVIOUS
  <2>2. /\ new \in TaskRecord
        /\ job[p].kind \notin {"complete", "cancel"} => new.state \in Open
        /\ job[p].kind = "complete" => new.state = "Completed"
        /\ job[p].kind = "cancel" => new.state = "Cancelled"
    BY <1>1, <1>2, <2>1, ChangedIs
  <2>3. /\ JobsTyped /\ OthersStay(p) /\ job'[p].draft = new
        /\ job'[p].kind = job[p].kind /\ job'[p].target = job[p].target
        /\ job'[p].todo = job[p].todo /\ job'[p].dead = job[p].dead
        /\ job'[p].at = "set" /\ job'[p].task = job[p].task
    BY <1>2, <2>1, <2>2, GoOnTo
  <2>4. DraftOK(job'[p])
    BY <2>2, <2>3 DEF DraftOK
  <2> QED
    BY <1>1, <1>2, <2>1, <2>3, <2>4
<1>3. CASE ~ Applies(job[p].kind, record) /\ GoOn(p, "next", Nothing)
  BY <1>1, <1>3, GoOnTo, NothingIs
<1>4. CASE job[p].kind = "claim" /\ GoOn(p, "put", Nothing)
  BY <1>1, <1>4, GoOnTo, NothingIs
<1> QED
  BY <1>2, <1>3, <1>4, FollowingIs DEF Get

LEMMA SetAt ==
  ASSUME TypeOK, Shapes, NEW p \in Procs, Set(p)
  PROVE  /\ JobsTyped /\ OthersStay(p) /\ job[p].task \in Tasks
         /\ job'[p].kind = job[p].kind /\ job'[p].target = job[p].target
         /\ job'[p].todo = job[p].todo /\ job'[p].dead = job[p].dead
         /\ IF job[p].kind \in TaskKinds \cup {"complete"}
            THEN job'[p].at = "put" /\ job'[p].task = job[p].task
            ELSE job'[p].at = "next" /\ job'[p].task = NoTask
<1>1. job[p].at = "set" /\ job[p].task \in Tasks /\ job[p].draft \in TaskRecord
  BY JobFields DEF Set, Shapes, ShapeOK
<1>2. GoOn(p, IF job[p].kind \in TaskKinds \cup {"complete"} THEN "put" ELSE "next", job[p].draft)
  BY FollowingIs DEF Set
<1> QED
  BY <1>1, <1>2, GoOnTo

LEMMA PutAt ==
  ASSUME TypeOK, Shapes, NEW p \in Procs, Put(p)
  PROVE  /\ JobsTyped /\ OthersStay(p) /\ job[p].task \in Tasks
         /\ job'[p].kind = job[p].kind /\ job'[p].target = job[p].target
         /\ job'[p].todo = job[p].todo /\ job'[p].dead = job[p].dead
         /\ job'[p].at = "next" /\ job'[p].task = NoTask
<1>1. job[p].at = "put" /\ job[p].task \in Tasks /\ job[p].draft \in TaskRecord
  BY JobFields DEF Put, Shapes, ShapeOK
<1>2. GoOn(p, "next", job[p].draft)
  BY FollowingIs DEF Put
<1> QED
  BY <1>1, <1>2, GoOnTo

LEMMA FindAt ==
  ASSUME TypeOK, Shapes, NEW p \in Procs, Find(p)
  PROVE  /\ JobsTyped /\ OthersStay(p) /\ job[p].task \in Tasks /\ job[p].kind = "claim"
         /\ job'[p].kind = job[p].kind /\ job'[p].target = job[p].target
         /\ job'[p].todo = job[p].todo /\ job'[p].dead = job[p].dead
         /\ \/ /\ job'[p].at = "get" /\ job'[p].task = job[p].task /\ lost' = lost
               /\ job[p].target \in Agents
            \/ /\ job'[p].at = "next" /\ job'[p].task = NoTask
               /\ lost' = lost \cup {job[p].task}
<1>1. /\ job[p].at = "find" /\ job[p].task \in Tasks /\ job[p].kind = "claim"
      /\ job[p].target \in Agents \cup {NoAgent}
  BY JobFields DEF Find, Shapes, ShapeOK, StepOK
<1>2. CASE job[p].target # NoAgent /\ status[job[p].target] # "missing"
  BY <1>1, <1>2, GoOnTo, NothingIs DEF Find
<1>3. CASE ~ (job[p].target # NoAgent /\ status[job[p].target] # "missing")
  BY <1>1, <1>3, GoOnTo, NothingIs DEF Find
<1> QED
  BY <1>2, <1>3

LEMMA DrainAt ==
  ASSUME TypeOK, NEW p \in Procs, Drain(p)
  PROVE  \E a \in job[p].dead :
           /\ JobsTyped /\ OthersStay(p) /\ a \in Agents
           /\ job[p].kind \in Reclaims \cup {"list"} /\ job[p].at = "next" /\ job[p].todo = {}
           /\ job'[p].kind = job[p].kind /\ job'[p].target = job[p].target
           /\ job'[p].task = job[p].task /\ job'[p].at = "next"
           /\ job'[p].todo = IF job[p].kind = "list" THEN {} ELSE {t \in Tasks : inbox[a][t] > 0}
           /\ inbox' = [inbox EXCEPT ![a] = [t \in Tasks |-> 0]]
<1>1. PICK a \in job[p].dead :
        /\ job' = [job EXCEPT
                     ![p].dead = @ \ {a},
                     ![p].todo = IF job[p].kind = "list" THEN {}
                                 ELSE {t \in Tasks : inbox[a][t] > 0}]
        /\ inbox' = [inbox EXCEPT ![a] = [t \in Tasks |-> 0]]
  BY DEF Drain
<1>2. /\ job[p].kind \in Reclaims \cup {"list"} /\ job[p].at = "next" /\ job[p].todo = {}
      /\ job[p].dead \subseteq Agents
  BY JobFields DEF Drain, Reclaims
<1>3. PICK todo : todo = IF job[p].kind = "list" THEN {} ELSE {t \in Tasks : inbox[a][t] > 0}
  OBVIOUS
<1>4. PICK dead : dead = job[p].dead \ {a}
  OBVIOUS
<1>5. job' = [job EXCEPT ![p].dead = dead, ![p].todo = todo]
  BY <1>1, <1>3, <1>4 DEF TypeOK
<1>6. dead \in SUBSET Agents /\ todo \in SUBSET Tasks
  BY <1>2, <1>3, <1>4
<1>7. /\ JobsTyped /\ OthersStay(p)
      /\ job'[p].kind = job[p].kind /\ job'[p].target = job[p].target
      /\ job'[p].todo = todo /\ job'[p].task = job[p].task /\ job'[p].at = job[p].at
  BY <1>5, <1>6, ReclaimAt
<1>8. a \in Agents
  BY <1>1, <1>2
<1> QED
  BY <1>1, <1>2, <1>3, <1>7, <1>8

LEMMA ScanAt ==
  ASSUME TypeOK, NEW p \in Procs, Scan(p)
  PROVE  /\ JobsTyped /\ OthersStay(p) /\ job[p].kind \in OrphanActions
         /\ job'[p].kind = job[p].kind /\ job'[p].target = job[p].target
         /\ job'[p].task = job[p].task /\ job'[p].at = job[p].at
         /\ job'[p].draft = job[p].draft
         /\ job'[p].todo \subseteq {t \in Tasks : tasks[t].state \in Open} /\ job'[p].dead = {}
         /\ orphaned' = orphaned \cup job'[p].todo
<1> DEFINE orphans == {t \in Tasks : tasks[t].state \in Open /\ tasks[t].owner \in job[p].dead}
<1>1. /\ job[p].kind \in OrphanActions /\ orphaned' = orphaned \cup orphans
      /\ job' = [job EXCEPT ![p].dead = {}, ![p].todo = orphans]
  BY DEF Scan
<1>2. PICK todo : todo = orphans
  OBVIOUS
<1>3. todo \in SUBSET Tasks /\ todo \subseteq {t \in Tasks : tasks[t].state \in Open}
  BY <1>2
<1>4. job' = [job EXCEPT ![p].dead = {}, ![p].todo = todo]
  BY <1>1, <1>2
<1>5. {} \in SUBSET Agents
  OBVIOUS
<1>6. /\ JobsTyped /\ OthersStay(p)
      /\ job'[p].kind = job[p].kind /\ job'[p].target = job[p].target
      /\ job'[p].todo = todo /\ job'[p].dead = {}
      /\ job'[p].task = job[p].task /\ job'[p].at = job[p].at /\ job'[p].draft = job[p].draft
  BY <1>3, <1>4, <1>5, ReclaimAt
<1> HIDE DEF orphans
<1> QED
  BY <1>1, <1>2, <1>3, <1>6

\* Where a command begins.
LEMMA ClaimAt ==
  ASSUME TypeOK, NEW c \in Clients, NEW t \in Tasks, NEW a \in Agents \cup {NoAgent}, Claim(c, t, a)
  PROVE  /\ JobsTyped /\ OthersStay(c) /\ job[c] = NoJob
         /\ job'[c].kind = "claim" /\ job'[c].todo = {} /\ job'[c].task = t /\ job'[c].at = "find"
<1>1. Begin(c, NewJob("claim", a, {}, t, "find")) /\ "claim" \in Kinds /\ c \in Procs
  BY DEF Claim, Kinds, Procs
<1> QED
  BY <1>1, BeginsNew

LEMMA AssignAllAt ==
  ASSUME TypeOK, NEW c \in Clients, NEW a \in Agents, AssignAll(c, a)
  PROVE  /\ JobsTyped /\ OthersStay(c) /\ job[c] = NoJob
         /\ job'[c].kind = "assign_all" /\ job'[c].todo = {} /\ job'[c].task = NoTask
         /\ job'[c].at = "next" /\ job'[c].target = a
<1>1. Begin(c, NewJob("assign_all", a, {}, NoTask, "next")) /\ "assign_all" \in Kinds /\ c \in Procs
  BY DEF AssignAll, Kinds, Procs
<1> QED
  BY <1>1, BeginsNew

LEMMA RemoveAt ==
  ASSUME TypeOK, NEW c \in Clients, NEW t \in Tasks, Remove(c, t)
  PROVE  /\ JobsTyped /\ OthersStay(c) /\ job[c] = NoJob
         /\ job'[c].kind = "remove" /\ job'[c].todo = {} /\ job'[c].task = t /\ job'[c].at = "put"
<1>1. Begin(c, NewJob("remove", NoAgent, {}, t, "put")) /\ "remove" \in Kinds /\ c \in Procs
  BY DEF Remove, Kinds, Procs
<1> QED
  BY <1>1, BeginsNew

LEMMA ReclaimBegins ==
  ASSUME TypeOK, NEW c \in Clients, NEW a \in Agents \cup {NoAgent},
         NEW kind \in {"reclaim", "reclaim_to", "list"} \cup OrphanActions, Reclaim(c, kind, a)
  PROVE  /\ JobsTyped /\ OthersStay(c) /\ job[c] = NoJob
         /\ job'[c].kind = kind /\ job'[c].todo = {} /\ job'[c].task = NoTask
         /\ job'[c].at = "next" /\ job'[c].target = a /\ (kind = "reclaim_to" => a \in Agents)
<1>1. PICK dead : /\ Begin(c, NewJob(kind, a, dead, NoTask, "next")) /\ dead \in SUBSET Agents
                  /\ kind = "reclaim_to" <=> a # NoAgent
  BY DEF Reclaim
<1>2. kind \in Kinds /\ c \in Procs
  BY DEF Kinds, Procs
<1> QED
  BY <1>1, <1>2, BeginsNew

LEMMA CompleteAt ==
  ASSUME TypeOK, NEW p \in Procs, NEW t \in Tasks, Complete(p, t)
  PROVE  /\ JobsTyped /\ OthersStay(p) /\ job[p] = NoJob
         /\ job'[p].kind = "complete" /\ job'[p].todo = {} /\ job'[p].task = t /\ job'[p].at = "get"
<1>1. Begin(p, NewJob("complete", NoAgent, {}, t, "get")) /\ "complete" \in Kinds
  BY DEF Complete, Kinds
<1> QED
  BY <1>1, BeginsNew

\* An agent starts or gives back a single task, or leaves its command alone.
LEMMA ReceiveAt ==
  ASSUME TypeOK, NEW a \in Agents, Receive(a)
  PROVE  /\ JobsTyped /\ OthersStay(a) /\ job[a] = NoJob
         /\ \/ job' = job
            \/ \E t \in Tasks : /\ t \in hand'[a] /\ job'[a].kind = "start" /\ job'[a].todo = {}
                                /\ job'[a].task = t /\ job'[a].at = "get"
<1> DEFINE taken == {t \in Tasks : inbox[a][t] > 0}
<1>1. hand'[a] = taken
  BY DEF Receive, TypeOK
<1>2. CASE job' = job
  BY <1>2 DEF Receive, TypeOK, JobsTyped, OthersStay
<1>3. ASSUME NEW t \in taken, Begin(a, NewJob("start", a, {}, t, "get"))
      PROVE  /\ JobsTyped /\ OthersStay(a) /\ job'[a].kind = "start" /\ job'[a].todo = {}
             /\ job'[a].task = t /\ job'[a].at = "get"
  <2>1. "start" \in Kinds /\ a \in Procs /\ t \in Tasks
    BY DEF Kinds, Procs
  <2> QED
    BY <1>3, <2>1, BeginsNew
<1> QED
  BY <1>1, <1>2, <1>3 DEF Receive

LEMMA RoundFailsAt ==
  ASSUME TypeOK, NEW a \in Agents, RoundFails(a)
  PROVE  /\ JobsTyped /\ OthersStay(a) /\ job[a] = NoJob
         /\ \/ job' = job
            \/ \E t \in Tasks : /\ job'[a].kind = "giveback" /\ job'[a].todo = {}
                                /\ job'[a].task = t /\ job'[a].at = "get"
<1>1. CASE job' = job
  BY <1>1 DEF RoundFails, TypeOK, JobsTyped, OthersStay
<1>2. ASSUME NEW t \in hand[a], Begin(a, NewJob("giveback", a, {}, t, "get"))
      PROVE  /\ JobsTyped /\ OthersStay(a) /\ job'[a].kind = "giveback" /\ job'[a].todo = {}
             /\ job'[a].task = t /\ job'[a].at = "get" /\ t \in Tasks
  <2>1. "giveback" \in Kinds /\ a \in Procs /\ t \in Tasks
    BY DEF Kinds, Procs, TypeOK
  <2> QED
    BY <1>2, <2>1, BeginsNew
<1> QED
  BY <1>1, <1>2 DEF RoundFails

LEMMA ShapeStays ==
  ASSUME TypeOK, Shapes, NEW p \in Procs, OthersStay(p), ShapeOK(job'[p])
  PROVE  Shapes'
BY DEF Shapes, OthersStay

LEMMA JobStepShape ==
  ASSUME TypeOK, Shapes, NEW p \in Procs, JobStep(p)
  PROVE  JobsTyped /\ Shapes'
<1>1. ShapeOK(job[p])
  BY DEF Shapes
<1> SUFFICES JobsTyped /\ OthersStay(p) /\ ShapeOK(job'[p])
  BY ShapeStays
<1>2. NoTask \notin Tasks
  BY TaskBoardConstants
<1>3. CASE Get(p)
  <2>1. job[p].at = "get" /\ job[p].todo \subseteq Tasks
    BY <1>3, JobFields DEF Get
  <2>2. /\ JobsTyped /\ OthersStay(p) /\ job[p].task \in Tasks
        /\ job'[p].kind = job[p].kind /\ job'[p].target = job[p].target
        /\ job'[p].todo = job[p].todo /\ job'[p].dead = job[p].dead
        /\ \/ job'[p].at = "set" /\ job'[p].task = job[p].task /\ DraftOK(job'[p])
           \/ job'[p].at = "next" /\ job'[p].task = NoTask
           \/ job'[p].at = "put" /\ job'[p].task = job[p].task /\ job[p].kind = "claim"
    BY <1>3, GetAt
  <2>3. DraftOK(job'[p])
    BY <2>2 DEF DraftOK
  <2>4. StepOK(job'[p]) /\ TargetOK(job'[p])
    BY <1>1, <2>1, <2>2 DEF ShapeOK, StepOK, TargetOK, Own, TaskKinds
  <2> QED
    BY <1>1, <1>2, <2>1, <2>2, <2>3, <2>4 DEF ShapeOK
<1>4. CASE Set(p)
  <2>1. job[p].at = "set" /\ job[p].todo \subseteq Tasks
    BY <1>4, JobFields DEF Set
  <2> QED
    BY <1>1, <1>2, <1>4, <2>1, SetAt
       DEF ShapeOK, StepOK, TargetOK, DraftOK, Own, TaskKinds, Reclaims, OrphanActions
<1>5. CASE Put(p)
  <2>1. job[p].at = "put" /\ job[p].todo \subseteq Tasks
    BY <1>5, JobFields DEF Put
  <2> QED
    BY <1>1, <1>2, <1>5, <2>1, PutAt DEF ShapeOK, StepOK, TargetOK, DraftOK, OrphanActions
<1>6. CASE Find(p)
  <2>1. job[p].at = "find" /\ job[p].todo \subseteq Tasks
    BY <1>6, JobFields DEF Find
  <2> QED
    BY <1>1, <1>2, <1>6, <2>1, FindAt
       DEF ShapeOK, StepOK, TargetOK, DraftOK, Own, Reclaims, OrphanActions
<1>7. CASE Pop(p)
  <2>1. PICK t \in Tasks : job' = [job EXCEPT ![p].task = t, ![p].at = "get"]
    BY <1>7 DEF Pop
  <2>2. job[p].kind = "assign_all"
    BY <1>7 DEF Pop
  <2> QED
    BY <1>1, <1>2, <2>1, <2>2, PopAt DEF ShapeOK, StepOK, TargetOK, DraftOK, Own, Reclaims, OrphanActions
<1>8. CASE Drain(p)
  <2>1. job[p].at = "next"
    BY <1>8 DEF Drain
  <2>2. /\ JobsTyped /\ OthersStay(p) /\ job[p].kind \in Reclaims \cup {"list"}
        /\ job'[p].kind = job[p].kind /\ job'[p].target = job[p].target
        /\ job'[p].task = job[p].task /\ job'[p].at = "next" /\ job'[p].todo \subseteq Tasks
        /\ job[p].kind = "list" => job'[p].todo = {}
    BY <1>8, DrainAt
  <2> QED
    BY <1>1, <1>2, <2>1, <2>2 DEF ShapeOK, StepOK, TargetOK, DraftOK, Reclaims, OrphanActions
<1>9. CASE Scan(p)
  <2>1. job[p].dead # {}
    BY <1>9 DEF Scan
  <2> QED
    BY <1>1, <1>2, <1>9, <2>1, ScanAt DEF ShapeOK, StepOK, TargetOK, DraftOK, Reclaims, OrphanActions
<1>10. CASE Pick(p)
  <2>1. PICK t \in job[p].todo :
          /\ JobsTyped /\ OthersStay(p) /\ t \in Tasks
          /\ job'[p].kind = job[p].kind /\ job'[p].target = job[p].target
          /\ job'[p].todo = job[p].todo \ {t} /\ job'[p].task = t
          /\ job'[p].dead = job[p].dead
          /\ job'[p].at = IF job[p].kind \in {"requeue", "cancel"} THEN "get" ELSE "put"
    BY <1>10, PickAt
  <2>2. job[p].kind \in Reclaims \cup OrphanActions
    BY <1>1, <2>1 DEF ShapeOK
  <2> QED
    BY <1>1, <1>2, <2>1, <2>2
       DEF ShapeOK, StepOK, TargetOK, DraftOK, Reclaims, OrphanActions, Own, TaskKinds
<1>11. CASE End(p)
  BY <1>11, NoJobIs, NoJobShape, OneJob DEF End
<1> QED
  BY <1>3, <1>4, <1>5, <1>6, <1>7, <1>8, <1>9, <1>10, <1>11 DEF JobStep

LEMMA CommandShape ==
  ASSUME TypeOK, Shapes, NEW c \in Clients, CommandBegins(c) \/ ClientCrash(c)
  PROVE  JobsTyped /\ Shapes'
<1>1. c \in Procs
  BY DEF Procs
<1> SUFFICES JobsTyped /\ OthersStay(c) /\ ShapeOK(job'[c])
  BY <1>1, ShapeStays
<1>2. NoTask \notin Tasks
  BY TaskBoardConstants
<1> USE DEF ShapeOK, StepOK, TargetOK, DraftOK, Reclaims, OrphanActions, Own, TaskKinds
<1>3. ASSUME NEW t \in Tasks, Add(c, t) PROVE JobsTyped /\ OthersStay(c) /\ ShapeOK(job'[c])
  BY <1>2, <1>3, AddAt, NothingIs DEF Open
<1>4. ASSUME NEW t \in Tasks, NEW a \in Agents, Assign(c, t, a)
      PROVE  JobsTyped /\ OthersStay(c) /\ ShapeOK(job'[c])
  <2>1. /\ JobsTyped /\ OthersStay(c)
        /\ job'[c].kind = "assign" /\ job'[c].todo = {} /\ job'[c].task = t /\ job'[c].at = "set"
        /\ job'[c].target = a /\ job'[c].draft = AssignedTo(a)
    BY <1>4, AssignAt
  <2>2. AssignedTo(a).state \in Open
    BY DEF AssignedTo, Open
  <2> QED
    BY <1>2, <2>1, <2>2
<1>5. ASSUME NEW t \in Tasks, NEW a \in Agents \cup {NoAgent}, Claim(c, t, a)
      PROVE  JobsTyped /\ OthersStay(c) /\ ShapeOK(job'[c])
  BY <1>2, <1>5, ClaimAt
<1>6. ASSUME NEW t \in Tasks, Remove(c, t) PROVE JobsTyped /\ OthersStay(c) /\ ShapeOK(job'[c])
  BY <1>2, <1>6, RemoveAt
<1>7. ASSUME NEW a \in Agents, AssignAll(c, a) PROVE JobsTyped /\ OthersStay(c) /\ ShapeOK(job'[c])
  BY <1>2, <1>7, AssignAllAt
<1>8. ASSUME NEW kind \in {"reclaim", "reclaim_to", "list"} \cup OrphanActions,
             NEW a \in Agents \cup {NoAgent}, Reclaim(c, kind, a)
      PROVE  JobsTyped /\ OthersStay(c) /\ ShapeOK(job'[c])
  BY <1>2, <1>8, ReclaimBegins
<1>9. CASE ClientCrash(c)
  BY <1>1, <1>9, NoJobIs, NoJobShape, OneJob DEF ClientCrash
<1>10. ASSUME NEW t \in Tasks, Complete(c, t) PROVE JobsTyped /\ OthersStay(c) /\ ShapeOK(job'[c])
  BY <1>1, <1>2, <1>10, CompleteAt
<1> QED
  BY <1>3, <1>4, <1>5, <1>6, <1>7, <1>8, <1>9, <1>10 DEF CommandBegins

LEMMA AgentShape ==
  ASSUME TypeOK, Shapes, NEW a \in Agents, AgentStep(a)
  PROVE  JobsTyped /\ Shapes'
<1>1. a \in Procs
  BY DEF Procs
<1>2. NoTask \notin Tasks
  BY TaskBoardConstants
<1> USE DEF ShapeOK, StepOK, TargetOK, DraftOK, Reclaims, OrphanActions, Own, TaskKinds
<1>3. CASE job' = job
  BY <1>3 DEF JobsTyped, TypeOK, Shapes
<1>4. CASE Receive(a)
  <2>1. CASE ShapeOK(job'[a])
    BY <1>1, <1>4, <2>1, ReceiveAt, ShapeStays
  <2>2. job' # job => ShapeOK(job'[a])
    BY <1>2, <1>4, ReceiveAt
  <2> QED
    BY <1>3, <2>1, <2>2
<1>5. ASSUME NEW t \in Tasks, Complete(a, t) PROVE JobsTyped /\ Shapes'
  <2>1. ShapeOK(job'[a])
    BY <1>1, <1>2, <1>5, CompleteAt
  <2> QED
    BY <1>1, <1>5, <2>1, CompleteAt, ShapeStays
<1>6. CASE RoundFails(a)
  <2>1. CASE ShapeOK(job'[a])
    BY <1>1, <1>6, <2>1, RoundFailsAt, ShapeStays
  <2>2. job' # job => ShapeOK(job'[a])
    BY <1>2, <1>6, RoundFailsAt
  <2> QED
    BY <1>3, <2>1, <2>2
<1>7. CASE AgentCrash(a)
  BY <1>1, <1>7, NoJobIs, NoJobShape, OneJob, ShapeStays DEF AgentCrash
<1> QED
  BY <1>3, <1>4, <1>5, <1>6, <1>7 DEF AgentStep, RoundEnds, Stop, Restart, Prune

AllButJobs == <<tasks, backlog, inbox, hand, status, lost, orphaned, reopened, elsewhere,
                budget>>

\* A counter in a list of a task goes up or down, or the list is emptied.
LEMMA Counted ==
  ASSUME NEW f \in [Tasks -> Nat], NEW t \in Tasks
  PROVE  /\ [f EXCEPT ![t] = @ + 1] \in [Tasks -> Nat]
         /\ f[t] > 0 => [f EXCEPT ![t] = @ - 1] \in [Tasks -> Nat]
OBVIOUS

LEMMA BudgetTyped ==
  ASSUME TypeOK, NEW what, Disturb(what)
  PROVE  budget' \in 0 .. MaxDisturbances
BY TaskBoardConstants DEF TypeOK, Disturb

LEMMA NoneWaiting ==
  ASSUME TypeOK, NEW a \in Agents
  PROVE  [inbox EXCEPT ![a] = [t \in Tasks |-> 0]] \in [Agents -> [Tasks -> Nat]]
<1>1. [t \in Tasks |-> 0] \in [Tasks -> Nat]
  OBVIOUS
<1> QED
  BY <1>1 DEF TypeOK

LEMMA JobStepTyped ==
  ASSUME TypeOK, Shapes, NEW p \in Procs, JobStep(p)
  PROVE  TypeOK'
<1>1. JobsTyped
  BY JobStepShape
<1>2. ShapeOK(job[p])
  BY DEF Shapes
<1>3. ASSUME UNCHANGED AllButJobs PROVE TypeOK'
  BY <1>1, <1>3 DEF TypeOK, AllButJobs, JobsTyped
<1>4. CASE Set(p)
  <2>1. job[p].task \in Tasks /\ job[p].draft \in TaskRecord
    BY <1>4, SetAt, JobFields
  <2>2. /\ tasks' \in [Tasks -> TaskRecord]
        /\ reopened' \subseteq Tasks /\ elsewhere' \subseteq Tasks
    BY <1>4, <2>1 DEF Set, TypeOK
  <2> QED
    BY <1>1, <1>4, <2>2 DEF Set, TypeOK, JobsTyped
<1>5. CASE Put(p)
  <2>1. job[p].task \in Tasks /\ job[p].at = "put"
    BY <1>5, PutAt DEF Put
  <2>2. tasks' \in [Tasks -> TaskRecord]
    BY <1>5, <2>1, NothingIs DEF Put, TypeOK
  <2>3. backlog' \in [Tasks -> Nat]
    BY <1>5, <2>1, Counted DEF Put, TypeOK
  <2>4. inbox' \in [Agents -> [Tasks -> Nat]]
    <3>1. CASE inbox' = inbox
      BY <3>1 DEF TypeOK
    <3>2. CASE /\ job[p].kind \in {"assign", "claim", "assign_all", "reclaim_to"}
               /\ inbox' = [inbox EXCEPT ![job[p].target][job[p].task] = @ + 1]
      <4>1. job[p].target \in Agents
        BY <1>2, <2>1, <3>2 DEF ShapeOK, TargetOK
      <4>2. [inbox[job[p].target] EXCEPT ![job[p].task] = @ + 1] \in [Tasks -> Nat]
        BY <2>1, <4>1, Counted DEF TypeOK
      <4> QED
        BY <3>2, <4>1, <4>2 DEF TypeOK
    <3> QED
      BY <1>5, <3>1, <3>2 DEF Put
  <2>5. lost' \subseteq Tasks
    BY <1>5, <2>1 DEF Put, TypeOK
  <2> QED
    BY <1>1, <1>5, <2>2, <2>3, <2>4, <2>5 DEF Put, TypeOK, JobsTyped
<1>6. CASE Find(p)
  BY <1>1, <1>6, FindAt DEF Find, TypeOK, JobsTyped
<1>7. CASE Pop(p)
  <2>1. backlog' \in [Tasks -> Nat]
    BY <1>7, Counted DEF Pop, InBacklog, Taken, TypeOK
  <2> QED
    BY <1>1, <1>7, <2>1 DEF Pop, TypeOK, JobsTyped, history
<1>8. CASE Drain(p)
  <2>1. inbox' \in [Agents -> [Tasks -> Nat]]
    BY <1>8, DrainAt, NoneWaiting
  <2> QED
    BY <1>1, <1>8, <2>1 DEF Drain, TypeOK, JobsTyped, history
<1>9. CASE Scan(p)
  <2>1. orphaned' \subseteq Tasks
    BY <1>9, ScanAt DEF TypeOK
  <2> QED
    BY <1>1, <1>9, <2>1 DEF Scan, TypeOK, JobsTyped
<1> QED
  BY <1>3, <1>4, <1>5, <1>6, <1>7, <1>8, <1>9 DEF JobStep, Get, Pick, End, AllButJobs, history

LEMMA CarriedTyped ==
  ASSUME TypeOK, NEW p \in Procs
  PROVE  Carried(p) \subseteq Tasks
BY JobFields DEF Carried

LEMMA CommandTyped ==
  ASSUME TypeOK, Shapes, NEW c \in Clients, CommandBegins(c) \/ ClientCrash(c)
  PROVE  TypeOK'
<1>1. JobsTyped /\ c \in Procs
  BY CommandShape DEF Procs
<1>2. backlog' \in [Tasks -> Nat]
  <2>1. \/ backlog' = backlog
        \/ \E t \in Tasks : InBacklog(t) /\ backlog' = Taken(t)
    BY DEF CommandBegins, ClientCrash, Add, Assign, Claim, Remove, Complete, AssignAll, Reclaim
  <2>2. ASSUME NEW t \in Tasks, InBacklog(t) PROVE Taken(t) \in [Tasks -> Nat]
    BY <2>2, Counted DEF InBacklog, Taken, TypeOK
  <2> QED
    BY <2>1, <2>2 DEF TypeOK
<1>3. budget' \in 0 .. MaxDisturbances
  BY BudgetTyped DEF CommandBegins, ClientCrash, Add, Assign, Claim, Remove, Complete, AssignAll, Reclaim, TypeOK
<1>4. lost' \subseteq Tasks
  BY <1>1, CarriedTyped DEF CommandBegins, ClientCrash, Add, Assign, Claim, Remove, Complete, AssignAll, Reclaim,
                            TypeOK, history
<1>5. UNCHANGED <<tasks, inbox, hand, status, orphaned, reopened, elsewhere>>
  BY DEF CommandBegins, ClientCrash, Add, Assign, Claim, Remove, Complete, AssignAll, Reclaim, history
<1> QED
  BY <1>1, <1>2, <1>3, <1>4, <1>5 DEF TypeOK, JobsTyped

LEMMA RequeuedTyped ==
  ASSUME TypeOK, NEW a \in Agents
  PROVE  [inbox EXCEPT ![a] = Requeued(a)] \in [Agents -> [Tasks -> Nat]]
<1>1. Requeued(a) \in [Tasks -> Nat]
  BY DEF Requeued, TypeOK
<1> QED
  BY <1>1 DEF TypeOK

LEMMA AgentTyped ==
  ASSUME TypeOK, Shapes, NEW a \in Agents, AgentStep(a)
  PROVE  TypeOK'
<1>1. JobsTyped
  BY AgentShape
<1>2. UNCHANGED <<tasks, backlog, orphaned, elsewhere>>
  BY DEF AgentStep, Receive, Complete, RoundEnds, RoundFails, Stop, Restart, Prune, AgentCrash, history
<1>3. inbox' \in [Agents -> [Tasks -> Nat]]
  <2>1. \/ inbox' = inbox
        \/ inbox' = [inbox EXCEPT ![a] = [t \in Tasks |-> 0]]
        \/ inbox' = [inbox EXCEPT ![a] = Requeued(a)]
    BY DEF AgentStep, Receive, Complete, RoundEnds, RoundFails, Stop, Restart, Prune, AgentCrash
  <2> QED
    BY <2>1, NoneWaiting, RequeuedTyped DEF TypeOK
<1>4. hand' \in [Agents -> SUBSET Tasks]
  BY DEF AgentStep, Receive, Complete, RoundEnds, RoundFails, Stop, Restart, Prune, AgentCrash, TypeOK
<1>5. status' \in [Agents -> {"live", "terminal", "missing"}]
  BY DEF AgentStep, Receive, Complete, RoundEnds, RoundFails, Stop, Restart, Prune, AgentCrash, TypeOK
<1>6. lost' \subseteq Tasks /\ reopened' \subseteq Tasks
  BY DEF AgentStep, Receive, Complete, RoundEnds, RoundFails, Stop, Restart, Prune, AgentCrash, TypeOK,
         history
<1>7. budget' \in 0 .. MaxDisturbances
  BY BudgetTyped
     DEF AgentStep, Receive, Complete, RoundEnds, RoundFails, Stop, Restart, Prune, AgentCrash, TypeOK
<1> QED
  BY <1>1, <1>2, <1>3, <1>4, <1>5, <1>6, <1>7 DEF TypeOK, JobsTyped

LEMMA InitTyped == Init => TypeOK /\ Shapes
<1> SUFFICES ASSUME Init PROVE TypeOK /\ Shapes
  OBVIOUS
<1>1. [state |-> "New", owner |-> NoAgent] \in TaskRecord
  BY DEF TaskRecord, TaskState
<1>2. budget \in 0 .. MaxDisturbances
  BY TaskBoardConstants DEF Init
<1>3. job \in [Procs -> Job] /\ Shapes
  BY NoJobIs, NoJobShape DEF Init, Shapes
<1>4. /\ backlog \in [Tasks -> Nat] /\ inbox \in [Agents -> [Tasks -> Nat]]
      /\ hand \in [Agents -> SUBSET Tasks] /\ status \in [Agents -> {"live", "terminal", "missing"}]
      /\ tasks \in [Tasks -> TaskRecord]
  BY <1>1 DEF Init
<1> QED
  BY <1>2, <1>3, <1>4 DEF Init, TypeOK

LEMMA WellFormed == Spec => [](TypeOK /\ Shapes)
<1>1. TypeOK /\ Shapes /\ [Next]_vars => (TypeOK /\ Shapes)'
  <2> SUFFICES ASSUME TypeOK, Shapes, [Next]_vars PROVE TypeOK' /\ Shapes'
    OBVIOUS
  <2>1. CASE UNCHANGED vars
    BY <2>1 DEF vars, history, TypeOK, Shapes
  <2> QED
    BY <2>1, JobStepShape, CommandShape, AgentShape, JobStepTyped, CommandTyped, AgentTyped DEF Next
<1> QED
  BY <1>1, InitTyped, PTL DEF Spec

\* The records, lists and commands stay of their kinds, whichever commands interleave.
THEOREM TypeCorrect == Spec => []TypeOK
BY WellFormed, PTL

----------------------------------------------------------------------------
(* Whose commands are whose, and what the reclaims of orphans go through *)

\* An agent's own commands, and the task in its hand that it starts. Clients complete
\* tasks too, but only an agent starts them or gives them back.
OwnOK(a) ==
  /\ job[a].kind \in {"none"} \cup Own
  /\ job[a].kind = "start" /\ job[a].at # "next" => job[a].task \in hand[a]
  /\ status[a] = "missing" => hand[a] = {} /\ job[a].kind = "none"

OwnJobs ==
  /\ \A c \in Clients : job[c].kind \notin {"start", "giveback"}
  /\ \A a \in Agents : OwnOK(a)

OrphanOK(j) ==
  j.kind \in OrphanActions => j.todo \subseteq orphaned /\ (j.at # "next" => j.task \in orphaned)

Orphans == \A p \in Procs : OrphanOK(job[p])

\* A step of a command: the kind stays, and the task changes in few of them.
LEMMA JobStepIs ==
  ASSUME TypeOK, Shapes, NEW p \in Procs, JobStep(p)
  PROVE  /\ OthersStay(p) /\ job[p].kind # "none" /\ UNCHANGED <<hand, status>>
         /\ orphaned \subseteq orphaned'
         /\ \/ job'[p] = NoJob
            \/ /\ job'[p].kind = job[p].kind
               /\ \/ /\ job'[p].todo = job[p].todo
                     /\ job'[p].at # "next" => job[p].at # "next" /\ job'[p].task = job[p].task
                  \/ job[p].kind \in {"assign_all", "list"} \cup Reclaims
                  \/ /\ job[p].kind \in OrphanActions /\ job'[p].at = "next"
                     /\ job'[p].todo \subseteq orphaned'
                  \/ /\ job[p].kind \in OrphanActions
                     /\ job'[p].todo \subseteq job[p].todo /\ job'[p].task \in job[p].todo
<1>1. ShapeOK(job[p])
  BY DEF Shapes
<1>2. CASE Get(p)
  <2>1. job[p].at = "get" /\ job[p].kind # "none"
    BY <1>1, <1>2 DEF Get, ShapeOK, StepOK, Own
  <2>2. /\ OthersStay(p) /\ job'[p].kind = job[p].kind /\ job'[p].todo = job[p].todo
        /\ job'[p].at # "next" => job'[p].task = job[p].task
    BY <1>2, GetAt
  <2> QED
    BY <1>2, <2>1, <2>2 DEF Get, history
<1>3. CASE Set(p)
  <2>1. job[p].at = "set" /\ job[p].kind # "none"
    BY <1>1, <1>3 DEF Set, ShapeOK, StepOK, Own, TaskKinds
  <2>2. /\ OthersStay(p) /\ job'[p].kind = job[p].kind /\ job'[p].todo = job[p].todo
        /\ job'[p].at # "next" => job'[p].task = job[p].task
    BY <1>3, SetAt
  <2> QED
    BY <1>3, <2>1, <2>2 DEF Set, history
<1>4. CASE Put(p)
  <2>1. job[p].at = "put" /\ job[p].kind # "none"
    BY <1>1, <1>4 DEF Put, ShapeOK, StepOK, Reclaims, TaskKinds
  <2> QED
    BY <1>4, <2>1, PutAt DEF Put, history
<1>5. CASE Find(p)
  <2>1. job[p].at = "find" /\ job[p].kind # "none"
    BY <1>1, <1>5 DEF Find, ShapeOK, StepOK
  <2>2. /\ OthersStay(p) /\ job'[p].kind = job[p].kind /\ job'[p].todo = job[p].todo
        /\ job'[p].at # "next" => job'[p].task = job[p].task
    BY <1>5, FindAt
  <2> QED
    BY <1>5, <2>1, <2>2 DEF Find, history
<1>6. CASE Pop(p)
  BY <1>6, PopAt DEF Pop, history
<1>7. CASE Drain(p)
  BY <1>7, DrainAt DEF Drain, history, Reclaims
<1>8. CASE Scan(p)
  <2>1. /\ job[p].dead # {} /\ job[p].kind \in OrphanActions
        /\ UNCHANGED <<hand, status>>
    BY <1>8 DEF Scan
  <2>2. job[p].at = "next"
    BY <1>1, <2>1 DEF ShapeOK
  <2>3. /\ OthersStay(p) /\ job'[p].kind = job[p].kind /\ job'[p].at = job[p].at
        /\ orphaned' = orphaned \cup job'[p].todo
    BY <1>8, ScanAt
  <2>4. job[p].kind # "none"
    BY <2>1 DEF OrphanActions
  <2> QED
    BY <2>1, <2>2, <2>3, <2>4
<1>9. CASE Pick(p)
  <2>1. PICK t \in job[p].todo :
          /\ OthersStay(p) /\ job'[p].kind = job[p].kind
          /\ job'[p].todo = job[p].todo \ {t} /\ job'[p].task = t
    BY <1>9, PickAt
  <2>2. job[p].kind \in Reclaims \cup OrphanActions
    BY <1>1, <2>1 DEF ShapeOK
  <2>3. job[p].kind # "none"
    BY <2>2 DEF Reclaims, OrphanActions
  <2> QED
    BY <1>9, <2>1, <2>2, <2>3 DEF Pick, history
<1>10. CASE End(p)
  BY <1>10, NoJobIs, OneJob DEF End, history
<1> QED
  BY <1>2, <1>3, <1>4, <1>5, <1>6, <1>7, <1>8, <1>9, <1>10 DEF JobStep

\* A client begins a command, or is gone.
LEMMA CommandIs ==
  ASSUME TypeOK, NEW c \in Clients, CommandBegins(c) \/ ClientCrash(c)
  PROVE  /\ OthersStay(c) /\ UNCHANGED <<tasks, hand, status, orphaned, reopened, elsewhere>>
         /\ job'[c].kind \notin {"start", "giveback"} /\ job'[c].todo = {}
         /\ job'[c].kind \in OrphanActions => job'[c].at = "next"
         /\ job'[c].kind = "complete" => job'[c].at = "get"
<1>1. c \in Procs
  BY DEF Procs
<1>2. UNCHANGED <<tasks, hand, status, orphaned, reopened, elsewhere>>
  BY DEF CommandBegins, ClientCrash, Add, Assign, Claim, Remove, Complete, AssignAll, Reclaim, history
<1> USE DEF Own, OrphanActions
<1>3. ASSUME NEW t \in Tasks, Add(c, t)
      PROVE  OthersStay(c) /\ job'[c].kind = "add" /\ job'[c].todo = {}
  BY <1>3, AddAt
<1>4. ASSUME NEW t \in Tasks, NEW a \in Agents, Assign(c, t, a)
      PROVE  OthersStay(c) /\ job'[c].kind = "assign" /\ job'[c].todo = {}
  BY <1>4, AssignAt
<1>5. ASSUME NEW t \in Tasks, NEW a \in Agents \cup {NoAgent}, Claim(c, t, a)
      PROVE  OthersStay(c) /\ job'[c].kind = "claim" /\ job'[c].todo = {}
  BY <1>5, ClaimAt
<1>6. ASSUME NEW t \in Tasks, Remove(c, t)
      PROVE  OthersStay(c) /\ job'[c].kind = "remove" /\ job'[c].todo = {}
  BY <1>6, RemoveAt
<1>7. ASSUME NEW a \in Agents, AssignAll(c, a)
      PROVE  OthersStay(c) /\ job'[c].kind = "assign_all" /\ job'[c].todo = {}
  BY <1>7, AssignAllAt
<1>8. ASSUME NEW kind \in {"reclaim", "reclaim_to", "list"} \cup OrphanActions,
             NEW a \in Agents \cup {NoAgent}, Reclaim(c, kind, a)
      PROVE  OthersStay(c) /\ job'[c].kind = kind /\ job'[c].todo = {} /\ job'[c].at = "next"
  BY <1>8, ReclaimBegins
<1>9. CASE ClientCrash(c)
  BY <1>1, <1>2, <1>9, NoJobIs, OneJob DEF ClientCrash
<1>10. ASSUME NEW t \in Tasks, Complete(c, t)
       PROVE  /\ OthersStay(c) /\ job'[c].kind = "complete" /\ job'[c].todo = {}
             /\ job'[c].at = "get"
  BY <1>1, <1>10, CompleteAt
<1>11. CASE CommandBegins(c)
  BY <1>2, <1>3, <1>4, <1>5, <1>6, <1>7, <1>8, <1>10, <1>11 DEF CommandBegins
<1> QED
  BY <1>9, <1>11

\* An agent touches nobody else's command, hand or status.
LEMMA AgentIs ==
  ASSUME TypeOK, OwnJobs, NEW a \in Agents, AgentStep(a)
  PROVE  /\ OthersStay(a) /\ UNCHANGED <<tasks, backlog, orphaned>>
         /\ \A b \in Agents \ {a} : hand'[b] = hand[b] /\ status'[b] = status[b] /\ inbox'[b] = inbox[b]
         /\ OwnOK(a)'
<1>1. a \in Procs
  BY DEF Procs
<1>2. UNCHANGED <<tasks, backlog, orphaned>>
  BY DEF AgentStep, Receive, Complete, RoundEnds, RoundFails, Stop, Restart, Prune, AgentCrash, history
<1>3. \A b \in Agents \ {a} : hand'[b] = hand[b] /\ status'[b] = status[b] /\ inbox'[b] = inbox[b]
  BY DEF AgentStep, Receive, Complete, RoundEnds, RoundFails, Stop, Restart, Prune, AgentCrash, TypeOK
<1> SUFFICES OthersStay(a) /\ OwnOK(a)'
  BY <1>2, <1>3
<1>4. OwnOK(a)
  BY DEF OwnJobs
<1> USE DEF Own, OwnOK
<1>5. CASE Receive(a)
  <2>1. status'[a] = "live"
    BY <1>5 DEF Receive
  <2>2. OthersStay(a) /\ job[a] = NoJob
    BY <1>5, ReceiveAt
  <2>3. CASE job' = job
    BY <2>1, <2>2, <2>3, NoJobIs
  <2>4. CASE \E t \in Tasks : /\ t \in hand'[a] /\ job'[a].kind = "start" /\ job'[a].todo = {}
                              /\ job'[a].task = t /\ job'[a].at = "get"
    BY <2>1, <2>2, <2>4
  <2> QED
    BY <1>5, <2>3, <2>4, ReceiveAt
<1>6. ASSUME NEW t \in Tasks, Complete(a, t) PROVE OthersStay(a) /\ OwnOK(a)'
  <2>1. status'[a] # "missing"
    BY <1>4, <1>6 DEF Complete
  <2> QED
    BY <1>1, <1>6, <2>1, CompleteAt
<1>7. CASE RoundEnds(a)
  BY <1>4, <1>7, NoJobIs DEF RoundEnds, OthersStay
<1>8. CASE RoundFails(a)
  <2>1. status'[a] = status[a] /\ status[a] # "missing"
    BY <1>4, <1>8 DEF RoundFails
  <2> QED
    BY <1>8, <2>1, RoundFailsAt, NoJobIs
<1>9. CASE Stop(a)
  BY <1>4, <1>9 DEF Stop, OthersStay, TypeOK, history
<1>10. CASE Restart(a)
  BY <1>4, <1>10 DEF Restart, OthersStay, TypeOK, history
<1>11. CASE Prune(a)
  BY <1>4, <1>11, NoJobIs DEF Prune, OthersStay, TypeOK
<1>12. CASE AgentCrash(a)
  <2>1. OthersStay(a) /\ job'[a] = NoJob
    BY <1>1, <1>12, NoJobIs, OneJob DEF AgentCrash
  <2>2. status'[a] = "terminal"
    BY <1>12 DEF AgentCrash, TypeOK
  <2> QED
    BY <2>1, <2>2, NoJobIs
<1> QED
  BY <1>5, <1>6, <1>7, <1>8, <1>9, <1>10, <1>11, <1>12 DEF AgentStep

LEMMA JobStepOwn ==
  ASSUME TypeOK, Shapes, OwnJobs, NEW p \in Procs, JobStep(p)
  PROVE  OwnJobs'
<1>1. /\ OthersStay(p) /\ job[p].kind # "none" /\ UNCHANGED <<hand, status>>
      /\ job'[p] = NoJob \/ job'[p].kind = job[p].kind
  BY JobStepIs
<1>2. ASSUME NEW c \in Clients PROVE job'[c].kind \notin {"start", "giveback"}
  BY <1>1, NoJobIs DEF OwnJobs, OthersStay, Procs
<1>3. ASSUME NEW a \in Agents PROVE OwnOK(a)'
  <2>1. OwnOK(a)
    BY DEF OwnJobs
  <2>2. CASE a # p
    BY <1>1, <2>1, <2>2 DEF OwnOK, OthersStay, Procs
  <2>3. CASE a = p
    <3>1. job[p].kind \in Own /\ status[p] # "missing"
      BY <1>1, <2>1, <2>3 DEF OwnOK
    <3>2. \/ job'[p] = NoJob
          \/ /\ job'[p].kind = job[p].kind
             /\ job'[p].at # "next" => job[p].at # "next" /\ job'[p].task = job[p].task
      BY <3>1, JobStepIs DEF Own, Reclaims, OrphanActions
    <3> QED
      BY <1>1, <2>1, <2>3, <3>1, <3>2, NoJobIs DEF OwnOK
  <2> QED
    BY <2>2, <2>3
<1> QED
  BY <1>2, <1>3 DEF OwnJobs

LEMMA OwnStays ==
  ASSUME TypeOK, Shapes, OwnJobs, [Next]_vars
  PROVE  OwnJobs'
<1>1. CASE UNCHANGED vars
  BY <1>1 DEF vars, history, OwnJobs, OwnOK
<1>2. ASSUME NEW c \in Clients, CommandBegins(c) \/ ClientCrash(c) PROVE OwnJobs'
  <2>1. OthersStay(c) /\ UNCHANGED <<hand, status>> /\ job'[c].kind \notin {"start", "giveback"}
    BY <1>2, CommandIs
  <2>2. \A a \in Agents : a # c
    BY TaskBoardConstants
  <2> QED
    BY <2>1, <2>2 DEF OwnJobs, OwnOK, OthersStay, Procs
<1>3. ASSUME NEW a \in Agents, AgentStep(a) PROVE OwnJobs'
  <2>1. /\ OthersStay(a) /\ OwnOK(a)'
        /\ \A b \in Agents \ {a} : hand'[b] = hand[b] /\ status'[b] = status[b]
    BY <1>3, AgentIs
  <2>2. \A c \in Clients : a # c
    BY TaskBoardConstants
  <2>3. ASSUME NEW b \in Agents \ {a} PROVE OwnOK(b)'
    BY <2>1, <2>3 DEF OwnJobs, OwnOK, OthersStay, Procs
  <2> QED
    BY <2>1, <2>2, <2>3 DEF OwnJobs, OthersStay, Procs
<1> QED
  BY <1>1, <1>2, <1>3, JobStepOwn DEF Next

LEMMA OrphansStay ==
  ASSUME TypeOK, Shapes, OwnJobs, Orphans, [Next]_vars
  PROVE  Orphans'
<1>1. CASE UNCHANGED vars
  BY <1>1 DEF vars, history, Orphans, OrphanOK
<1>2. ASSUME NEW p \in Procs, OthersStay(p), OrphanOK(job[p])', orphaned \subseteq orphaned'
      PROVE  Orphans'
  BY <1>2 DEF Orphans, OrphanOK, OthersStay
<1>3. ASSUME NEW p \in Procs, JobStep(p) PROVE Orphans'
  <2>1. OrphanOK(job[p])
    BY DEF Orphans
  <2>2. OthersStay(p) /\ orphaned \subseteq orphaned'
    BY <1>3, JobStepIs
  <2>3. CASE job'[p] = NoJob
    BY <1>2, <2>2, <2>3, NoJobIs DEF OrphanOK, OrphanActions
  <2>4. CASE job'[p].kind = job[p].kind /\ job[p].kind \in OrphanActions
    <3>1. job[p].kind \notin {"assign_all", "list"} \cup Reclaims
      BY <2>4 DEF OrphanActions, Reclaims
    <3>2. CASE /\ job'[p].todo = job[p].todo
               /\ job'[p].at # "next" => job[p].at # "next" /\ job'[p].task = job[p].task
      BY <1>2, <2>1, <2>2, <2>4, <3>2 DEF OrphanOK
    <3>3. CASE job'[p].at = "next" /\ job'[p].todo \subseteq orphaned'
      BY <1>2, <2>2, <3>3 DEF OrphanOK
    <3>4. CASE job'[p].todo \subseteq job[p].todo /\ job'[p].task \in job[p].todo
      BY <1>2, <2>1, <2>2, <2>4, <3>4 DEF OrphanOK
    <3>5. job'[p] = NoJob \/ <3>2!1 \/ <3>3!1 \/ <3>4!1
      BY <1>3, <3>1, JobStepIs
    <3> QED
      BY <2>3, <3>2, <3>3, <3>4, <3>5
  <2>5. CASE job'[p].kind = job[p].kind /\ job[p].kind \notin OrphanActions
    BY <1>2, <2>2, <2>5 DEF OrphanOK
  <2> QED
    BY <1>3, <2>3, <2>4, <2>5, JobStepIs
<1>4. ASSUME NEW c \in Clients, CommandBegins(c) \/ ClientCrash(c) PROVE Orphans'
  <2>1. /\ OthersStay(c) /\ orphaned' = orphaned /\ job'[c].todo = {}
        /\ job'[c].kind \in OrphanActions => job'[c].at = "next"
    BY <1>4, CommandIs
  <2> QED
    BY <1>2, <2>1 DEF OrphanOK, Procs
<1>5. ASSUME NEW a \in Agents, AgentStep(a) PROVE Orphans'
  <2>1. OthersStay(a) /\ orphaned' = orphaned /\ OwnOK(a)'
    BY <1>5, AgentIs
  <2>2. job'[a].kind \notin OrphanActions
    BY <2>1 DEF OwnOK, Own, OrphanActions
  <2> QED
    BY <1>2, <2>1, <2>2 DEF OrphanOK, Procs
<1> QED
  BY <1>1, <1>3, <1>4, <1>5 DEF Next

----------------------------------------------------------------------------
(* What a command carries *)

CarriedBy(j) ==
  IF j.kind \in Reclaims THEN (j.todo \cup {j.task}) \ {NoTask}
  ELSE IF j.kind \in TaskKinds \cup {"remove"} THEN {j.task} \ {NoTask}
  ELSE {}

LEMMA CarriedIs ==
  ASSUME NEW p \in Procs
  PROVE  Carried(p) = CarriedBy(job[p]) /\ Carried(p)' = CarriedBy(job'[p])
BY DEF Carried, CarriedBy, Reclaims, TaskKinds

OthersCarry(p) == \A q \in Procs \ {p} : Carried(q)' = Carried(q)

LEMMA OthersCarrySame ==
  ASSUME NEW p \in Procs, OthersStay(p)
  PROVE  OthersCarry(p)
BY CarriedIs DEF OthersStay, OthersCarry

LEMMA NoJobCarries == CarriedBy(NoJob) = {}
BY NoJobIs DEF CarriedBy, Reclaims, TaskKinds

LEMMA GetCarries ==
  ASSUME TypeOK, Shapes, NEW p \in Procs, Get(p)
  PROVE  /\ OthersCarry(p) /\ Carried(p)' \subseteq Carried(p) /\ job[p].at = "get"
         /\ \A t \in Carried(p) \ Carried(p)' : tasks[t].state \in {"New", "Deleted"}
<1>1. ShapeOK(job[p]) /\ job[p].at = "get"
  BY DEF Shapes, Get
<1>2. job[p].kind \in {"claim", "assign_all", "requeue", "cancel"} \cup Own
  BY <1>1 DEF ShapeOK, StepOK
<1>3. /\ OthersStay(p) /\ job'[p].kind = job[p].kind
      /\ \/ job'[p].task = job[p].task
         \/ job'[p].task = NoTask /\ ~ Applies(job[p].kind, tasks[job[p].task])
  BY GetAt
<1>4. job[p].kind \notin Reclaims \cup {"remove"}
  BY <1>2 DEF Reclaims, Own
<1>5. job[p].kind \in TaskKinds => job[p].kind \notin {"start", "giveback"}
  BY DEF TaskKinds
<1>6. CASE job'[p].task = job[p].task
  BY <1>1, <1>3, <1>4, <1>6, CarriedIs, OthersCarrySame DEF CarriedBy
<1>7. CASE job'[p].task = NoTask /\ ~ Applies(job[p].kind, tasks[job[p].task])
  <2>1. job[p].kind \in TaskKinds => tasks[job[p].task].state \in {"New", "Deleted"}
    BY <1>5, <1>7 DEF Applies
  <2> QED
    BY <1>1, <1>3, <1>4, <1>7, <2>1, CarriedIs, OthersCarrySame DEF CarriedBy
<1> QED
  BY <1>3, <1>6, <1>7

LEMMA SetCarries ==
  ASSUME TypeOK, Shapes, NEW p \in Procs, Set(p)
  PROVE  OthersCarry(p) /\ Carried(p)' = Carried(p) /\ job[p].at = "set" /\ job'[p].at # "set"
<1>1. ShapeOK(job[p]) /\ job[p].at = "set"
  BY DEF Shapes, Set
<1>2. job[p].kind \in TaskKinds \cup Own \cup {"cancel"}
  BY <1>1 DEF ShapeOK, StepOK
<1>3. /\ OthersStay(p) /\ job'[p].kind = job[p].kind
      /\ job[p].kind \in TaskKinds => job'[p].task = job[p].task
      /\ job'[p].at # "set"
  BY SetAt
<1>4. job[p].kind \notin Reclaims \cup {"remove"}
  BY <1>2 DEF Reclaims, Own, TaskKinds
<1> QED
  BY <1>1, <1>3, <1>4, CarriedIs, OthersCarrySame DEF CarriedBy

LEMMA PutCarries ==
  ASSUME TypeOK, Shapes, NEW p \in Procs, Put(p)
  PROVE  /\ OthersCarry(p) /\ Carried(p)' = Carried(p) \ {job[p].task}
         /\ job[p].kind \notin {"delete", "complete"} => job[p].task \in Carried(p)
         /\ job[p].at = "put" /\ job[p].task \in Tasks
<1>1. ShapeOK(job[p]) /\ job[p].at = "put"
  BY DEF Shapes, Put
<1>2. job[p].kind \in TaskKinds \cup Reclaims \cup {"remove", "delete", "complete"}
  BY <1>1 DEF ShapeOK, StepOK
<1>3. /\ OthersStay(p) /\ job'[p].kind = job[p].kind /\ job'[p].task = NoTask
      /\ job'[p].todo = job[p].todo /\ job[p].task \in Tasks
  BY PutAt
<1>4. job[p].task # NoTask /\ job[p].task \notin job[p].todo /\ NoTask \notin job[p].todo
  BY <1>1, <1>3, TaskBoardConstants, JobFields DEF ShapeOK
<1>5. OthersCarry(p)
  BY <1>3, OthersCarrySame
<1>6. CASE job[p].kind \in Reclaims
  BY <1>1, <1>3, <1>4, <1>5, <1>6, CarriedIs DEF CarriedBy
<1>7. CASE job[p].kind \in TaskKinds \cup {"remove"}
  <2>1. job[p].kind \notin Reclaims
    BY <1>7 DEF Reclaims, TaskKinds
  <2> QED
    BY <1>1, <1>3, <1>4, <1>5, <1>7, <2>1, CarriedIs DEF CarriedBy
<1>8. CASE job[p].kind \in {"delete", "complete"}
  <2>1. job[p].kind \notin Reclaims \cup TaskKinds \cup {"remove"}
    BY <1>8 DEF Reclaims, TaskKinds
  <2> QED
    BY <1>1, <1>3, <1>5, <1>8, <2>1, CarriedIs DEF CarriedBy
<1> QED
  BY <1>2, <1>6, <1>7, <1>8

LEMMA FindCarries ==
  ASSUME TypeOK, Shapes, NEW p \in Procs, Find(p)
  PROVE  /\ OthersCarry(p) /\ job[p].at = "find"
         /\ \/ Carried(p)' = Carried(p)
            \/ Carried(p)' = {} /\ lost' = lost \cup Carried(p)
<1>1. /\ OthersStay(p) /\ job[p].kind = "claim" /\ job'[p].kind = job[p].kind
      /\ job[p].task \in Tasks
      /\ \/ job'[p].task = job[p].task
         \/ job'[p].task = NoTask /\ lost' = lost \cup {job[p].task}
  BY FindAt
<1>2. job[p].kind \in TaskKinds /\ job[p].kind \notin Reclaims /\ job[p].task # NoTask
  BY <1>1, TaskBoardConstants DEF TaskKinds, Reclaims
<1>3. Carried(p) = {job[p].task}
  BY <1>2, CarriedIs DEF CarriedBy
<1>4. Carried(p)' = {job'[p].task} \ {NoTask}
  BY <1>1, <1>2, CarriedIs DEF CarriedBy
<1> QED
  BY <1>1, <1>2, <1>3, <1>4, OthersCarrySame DEF Find

LEMMA PopCarries ==
  ASSUME TypeOK, Shapes, NEW p \in Procs, Pop(p)
  PROVE  \E t \in Tasks : /\ OthersCarry(p) /\ Carried(p) = {} /\ Carried(p)' = {t}
                          /\ InBacklog(t) /\ backlog' = Taken(t)
<1>1. PICK t \in Tasks : /\ InBacklog(t) /\ backlog' = Taken(t)
                         /\ job' = [job EXCEPT ![p].task = t, ![p].at = "get"]
  BY DEF Pop
<1>2. job[p].kind = "assign_all" /\ job[p].task = NoTask /\ t # NoTask
  BY TaskBoardConstants DEF Pop, Shapes, ShapeOK
<1>3. OthersStay(p) /\ job'[p].kind = "assign_all" /\ job'[p].task = t
  BY <1>1, <1>2, PopAt
<1> QED
  BY <1>1, <1>2, <1>3, CarriedIs, OthersCarrySame DEF CarriedBy, TaskKinds, Reclaims

LEMMA DrainCarries ==
  ASSUME TypeOK, Shapes, NEW p \in Procs, Drain(p)
  PROVE  \E a \in Agents :
           /\ OthersCarry(p) /\ Carried(p) = {}
           /\ Carried(p)' = IF job[p].kind = "list" THEN {} ELSE {t \in Tasks : inbox[a][t] > 0}
           /\ inbox' = [inbox EXCEPT ![a] = [t \in Tasks |-> 0]]
<1>1. PICK a \in job[p].dead :
        /\ OthersStay(p) /\ a \in Agents
        /\ job[p].kind \in Reclaims \cup {"list"} /\ job[p].at = "next" /\ job[p].todo = {}
        /\ job'[p].kind = job[p].kind /\ job'[p].task = job[p].task
        /\ job'[p].todo = IF job[p].kind = "list" THEN {} ELSE {t \in Tasks : inbox[a][t] > 0}
        /\ inbox' = [inbox EXCEPT ![a] = [t \in Tasks |-> 0]]
  BY DrainAt
<1>2. job[p].task = NoTask /\ NoTask \notin Tasks
  BY <1>1, TaskBoardConstants DEF Shapes, ShapeOK
<1>3. OthersCarry(p)
  BY <1>1, OthersCarrySame
<1>4. CASE job[p].kind \in Reclaims
  <2>1. job[p].kind # "list"
    BY <1>4 DEF Reclaims
  <2> QED
    BY <1>1, <1>2, <1>3, <1>4, <2>1, CarriedIs DEF CarriedBy
<1>5. CASE job[p].kind = "list"
  BY <1>1, <1>3, <1>5, CarriedIs DEF CarriedBy, Reclaims, TaskKinds
<1> QED
  BY <1>1, <1>4, <1>5

LEMMA ScanCarries ==
  ASSUME TypeOK, Shapes, NEW p \in Procs, Scan(p)
  PROVE  OthersCarry(p) /\ Carried(p)' = Carried(p)
<1>1. /\ OthersStay(p) /\ job[p].kind \in OrphanActions /\ job'[p].kind = job[p].kind
      /\ job'[p].task = job[p].task
  BY ScanAt
<1>2. job[p].kind \notin Reclaims
  BY <1>1 DEF OrphanActions, Reclaims
<1> QED
  BY <1>1, <1>2, CarriedIs, OthersCarrySame DEF CarriedBy

\* A reclaim of inboxes carries its next task all along; one of orphans only now.
LEMMA PickCarries ==
  ASSUME TypeOK, Shapes, Orphans, NEW p \in Procs, Pick(p)
  PROVE  /\ OthersCarry(p) /\ Carried(p) \subseteq Carried(p)' /\ job[p].at = "next"
         /\ Carried(p)' \subseteq Carried(p) \cup orphaned
<1>1. PICK t \in job[p].todo :
          /\ OthersStay(p) /\ t \in Tasks /\ job'[p].kind = job[p].kind
          /\ job'[p].todo = job[p].todo \ {t} /\ job'[p].task = t
  BY PickAt
<1>2. job[p].at = "next" /\ job[p].task = NoTask /\ job[p].kind \in Reclaims \cup OrphanActions
  BY <1>1 DEF Pick, Shapes, ShapeOK
<1>3. t # NoTask /\ OthersCarry(p)
  BY <1>1, TaskBoardConstants, OthersCarrySame
<1>4. CASE job[p].kind \in Reclaims
  BY <1>1, <1>2, <1>3, <1>4, CarriedIs DEF CarriedBy
<1>5. CASE job[p].kind \in OrphanActions
  <2>1. t \in orphaned /\ job[p].kind \notin Reclaims
    BY <1>1, <1>5 DEF Orphans, OrphanOK, Reclaims, OrphanActions
  <2> QED
    BY <1>1, <1>2, <1>3, <2>1, CarriedIs DEF CarriedBy
<1> QED
  BY <1>2, <1>4, <1>5

LEMMA EndCarries ==
  ASSUME TypeOK, Shapes, NEW p \in Procs, End(p)
  PROVE  OthersCarry(p) /\ Carried(p)' = Carried(p)
<1>1. job[p].todo = {} /\ job[p].task = NoTask
  BY DEF End, Shapes, ShapeOK
<1>2. job'[p] = NoJob /\ OthersStay(p)
  BY NoJobIs, OneJob DEF End
<1> QED
  BY <1>1, <1>2, NoJobCarries, CarriedIs, OthersCarrySame DEF CarriedBy

----------------------------------------------------------------------------
(* An open task is always somewhere *)

Found(t) ==
  \/ backlog[t] > 0
  \/ \E a \in Agents : t \in hand[a]
  \/ \E p \in Procs : t \in Carried(p)
  \/ \E a \in Agents : status[a] # "missing" /\ inbox[a][t] > 0

Safe(t) == tasks[t].state \in Open => Found(t) \/ t \in lost \cup reopened

NoLists == "list" \notin Disturbances => \A p \in Procs : job[p].kind # "list"

LEMMA FoundHasCopy ==
  ASSUME TypeOK, NEW t \in Tasks, Found(t)
  PROVE  Copies(t) # {}
<1>1. CASE backlog[t] > 0
  <2>1. <<"backlog", NoAgent, 1>> \in {<<"backlog", NoAgent, n>> : n \in 1 .. backlog[t]}
    BY <1>1 DEF TypeOK
  <2> QED
    BY <2>1 DEF Copies
<1>2. ASSUME NEW a \in Agents, t \in hand[a] PROVE Copies(t) # {}
  <2>1. <<"hand", a, 1>> \in {<<"hand", b, 1>> : b \in {b \in Agents : t \in hand[b]}}
    BY <1>2
  <2> QED
    BY <2>1 DEF Copies
<1>3. ASSUME NEW p \in Procs, t \in Carried(p) PROVE Copies(t) # {}
  <2>1. <<"command", p, 1>> \in {<<"command", q, 1>> : q \in {q \in Procs : t \in Carried(q)}}
    BY <1>3
  <2> QED
    BY <2>1 DEF Copies
<1>4. ASSUME NEW a \in Agents, status[a] # "missing", inbox[a][t] > 0 PROVE Copies(t) # {}
  <2>1. <<"inbox", a, 1>> \in {<<"inbox", a, n>> : n \in 1 .. inbox[a][t]}
    BY <1>4 DEF TypeOK
  <2>2. <<"inbox", a, 1>> \in UNION {{<<"inbox", b, n>> : n \in 1 .. inbox[b][t]} :
                                        b \in {b \in Agents : status[b] # "missing"}}
    BY <1>4, <2>1
  <2> QED
    BY <2>2 DEF Copies
<1> QED
  BY <1>1, <1>2, <1>3, <1>4 DEF Found

LEMMA JobStepSafe ==
  ASSUME TypeOK, Shapes, OwnJobs, Orphans, NEW p \in Procs, JobStep(p), job[p].kind # "list",
         NEW t \in Tasks, Safe(t)
  PROVE  Safe(t)'
<1>1. ShapeOK(job[p])
  BY DEF Shapes
<1>2. CASE Get(p)
  BY <1>2, GetCarries DEF Get, Safe, Found, OthersCarry, history, Open
<1>3. CASE Set(p)
  <2>1. /\ OthersCarry(p) /\ Carried(p)' = Carried(p) /\ job[p].at = "set"
        /\ UNCHANGED <<backlog, inbox, hand, status, lost>> /\ reopened \subseteq reopened'
    BY <1>3, SetCarries DEF Set
  <2>2. Found(t)' <=> Found(t)
    BY <2>1 DEF Found, OthersCarry
  <2>3. CASE t # job[p].task
    <3>1. tasks'[t] = tasks[t]
      BY <1>3, <2>3 DEF Set, TypeOK
    <3> QED
      BY <2>1, <2>2, <3>1 DEF Safe
  <2>4. CASE t = job[p].task
    <3>1. tasks'[t] = job[p].draft
      BY <1>3, <2>4 DEF Set, TypeOK
    <3>2. CASE job[p].kind \in {"complete", "cancel"}
      BY <1>1, <2>1, <3>1, <3>2 DEF Safe, ShapeOK, DraftOK, Open
    <3>3. CASE job[p].kind = "start"
      <4>1. \E a \in Agents : t \in hand[a]
        BY <2>1, <2>4, <3>3 DEF OwnJobs, OwnOK, Procs, Own
      <4> QED
        BY <2>2, <4>1 DEF Safe, Found
    <3>4. CASE job[p].kind = "giveback"
      BY <1>3, <2>1, <2>2, <2>4, <3>4 DEF Set, Safe, Open
    <3>5. CASE job[p].kind \in TaskKinds
      <4>1. job[p].kind \notin Reclaims /\ t # NoTask
        BY <3>5, TaskBoardConstants DEF TaskKinds, Reclaims
      <4>2. t \in Carried(p)
        BY <2>4, <3>5, <4>1, CarriedIs DEF CarriedBy
      <4> QED
        BY <2>2, <4>2 DEF Safe, Found
    <3> QED
      BY <1>1, <2>1, <3>2, <3>3, <3>4, <3>5 DEF ShapeOK, StepOK, Own
  <2> QED
    BY <2>3, <2>4
<1>4. CASE Put(p)
  <2>1. /\ OthersCarry(p) /\ Carried(p)' = Carried(p) \ {job[p].task} /\ job[p].task \in Tasks
        /\ UNCHANGED <<hand, status, reopened>> /\ job[p].at = "put"
    BY <1>4, PutCarries DEF Put
  <2>2. CASE job[p].kind \in {"remove", "delete"}
    <3>1. /\ tasks' = [tasks EXCEPT ![job[p].task] = Nothing]
          /\ UNCHANGED <<backlog, inbox, lost>>
      BY <1>4, <2>2 DEF Put
    <3>2. CASE t = job[p].task
      BY <2>1, <3>1, <3>2 DEF Safe, Nothing, Open, TypeOK
    <3>3. CASE t # job[p].task
      BY <2>1, <3>1, <3>3 DEF Safe, Found, OthersCarry, TypeOK
    <3> QED
      BY <3>2, <3>3
  <2>3. CASE job[p].kind \in {"add", "requeue", "reclaim"}
    <3>1. /\ backlog' = [backlog EXCEPT ![job[p].task] = @ + 1]
          /\ lost' = lost \ {job[p].task}
          /\ UNCHANGED <<tasks, inbox>>
      BY <1>4, <2>3 DEF Put
    <3>2. CASE t = job[p].task
      <4>1. backlog'[t] > 0
        BY <3>1, <3>2 DEF TypeOK
      <4> QED
        BY <4>1 DEF Safe, Found
    <3>3. CASE t # job[p].task
      BY <2>1, <3>1, <3>3 DEF Safe, Found, OthersCarry, TypeOK
    <3> QED
      BY <3>2, <3>3
  <2>4. CASE job[p].kind \in {"assign", "claim", "assign_all", "reclaim_to"}
    <3>1. /\ inbox' = [inbox EXCEPT ![job[p].target][job[p].task] = @ + 1]
          /\ lost' = IF status[job[p].target] = "missing" THEN lost \cup {job[p].task}
                     ELSE lost \ {job[p].task}
          /\ UNCHANGED <<tasks, backlog>>
      BY <1>4, <2>4 DEF Put
    <3>2. job[p].target \in Agents
      BY <1>1, <2>1, <2>4 DEF ShapeOK, TargetOK
    <3>3. CASE t = job[p].task
      <4>1. inbox'[job[p].target][t] > 0
        BY <3>1, <3>2, <3>3 DEF TypeOK
      <4>2. t \in lost' \/ status'[job[p].target] # "missing"
        BY <2>1, <3>1, <3>3
      <4> QED
        BY <3>2, <4>1, <4>2 DEF Safe, Found
    <3>4. CASE t # job[p].task
      <4>1. \A a \in Agents : inbox'[a][t] = inbox[a][t]
        BY <3>1, <3>2, <3>4 DEF TypeOK
      <4> QED
        BY <2>1, <3>1, <3>4, <4>1 DEF Safe, Found, OthersCarry
    <3> QED
      BY <3>3, <3>4
  <2>5. CASE job[p].kind = "complete"
    <3>1. job[p].kind \notin Reclaims \cup TaskKinds \cup {"remove"}
      BY <2>5 DEF Reclaims, TaskKinds
    <3>2. job'[p].kind = job[p].kind
      BY <1>4, PutAt
    <3>3. Carried(p)' = Carried(p) /\ UNCHANGED <<tasks, backlog, inbox, lost>>
      BY <1>4, <2>5, <3>1, <3>2, CarriedIs DEF Put, CarriedBy
    <3> QED
      BY <2>1, <3>3 DEF Safe, Found, OthersCarry
  <2> QED
    BY <1>4, <2>2, <2>3, <2>4, <2>5 DEF Put
<1>5. CASE Find(p)
  BY <1>5, FindCarries DEF Find, Safe, Found, OthersCarry
<1>6. CASE Pop(p)
  <2>1. PICK u \in Tasks : /\ OthersCarry(p) /\ Carried(p) = {} /\ Carried(p)' = {u}
                           /\ backlog' = Taken(u)
    BY <1>6, PopCarries
  <2>2. CASE t = u
    BY <2>1, <2>2 DEF Safe, Found
  <2>3. CASE t # u
    <3>1. backlog'[t] = backlog[t]
      BY <2>1, <2>3 DEF Taken, TypeOK
    <3> QED
      BY <1>6, <2>1, <3>1 DEF Pop, Safe, Found, OthersCarry, history
  <2> QED
    BY <2>2, <2>3
<1>7. CASE Drain(p)
  <2>1. PICK a \in Agents :
           /\ OthersCarry(p) /\ Carried(p) = {}
           /\ Carried(p)' = {u \in Tasks : inbox[a][u] > 0}
           /\ inbox' = [inbox EXCEPT ![a] = [u \in Tasks |-> 0]]
    BY <1>7, DrainCarries
  <2>2. \A b \in Agents \ {a} : inbox'[b] = inbox[b]
    BY <2>1 DEF TypeOK
  <2> QED
    BY <1>7, <2>1, <2>2 DEF Drain, Safe, Found, OthersCarry, history
<1>8. CASE Scan(p)
  BY <1>8, ScanCarries DEF Scan, Safe, Found, OthersCarry
<1>9. CASE Pick(p)
  BY <1>9, PickCarries DEF Pick, Safe, Found, OthersCarry, history
<1>10. CASE End(p)
  BY <1>10, EndCarries DEF End, Safe, Found, OthersCarry, history
<1> QED
  BY <1>2, <1>3, <1>4, <1>5, <1>6, <1>7, <1>8, <1>9, <1>10 DEF JobStep

\* A command begins with a new task, with one from the backlog, or with none.
LEMMA CommandCarries ==
  ASSUME TypeOK, NEW c \in Clients, CommandBegins(c)
  PROVE  /\ OthersCarry(c) /\ Carried(c) = {}
         /\ UNCHANGED <<tasks, inbox, hand, status, lost, orphaned, reopened, elsewhere>>
         /\ \/ \E t \in Tasks : /\ Fresh(t) /\ backlog' = backlog /\ Carried(c)' = {t}
                                /\ job'[c].kind \in {"add", "assign"} /\ job'[c].at = "set"
            \/ \E t \in Tasks : InBacklog(t) /\ backlog' = Taken(t) /\ Carried(c)' = {t}
            \/ backlog' = backlog /\ Carried(c)' = {}
<1>1. c \in Procs /\ NoTask \notin Tasks
  BY TaskBoardConstants DEF Procs
<1>2. UNCHANGED <<tasks, inbox, hand, status, lost, orphaned, reopened, elsewhere>>
  BY DEF CommandBegins, Add, Assign, Claim, Remove, Complete, AssignAll, Reclaim, history
<1>3. job[c] = NoJob /\ OthersStay(c)
  BY CommandIs DEF CommandBegins, Add, Assign, Claim, Remove, Complete, AssignAll, Reclaim, Begin
<1>4. Carried(c) = {} /\ OthersCarry(c)
  BY <1>1, <1>3, NoJobCarries, CarriedIs, OthersCarrySame
<1>5. ASSUME NEW t \in Tasks, job'[c].task = t,
             job'[c].kind \in {"add", "assign", "claim", "remove"}
      PROVE  Carried(c)' = {t}
  BY <1>1, <1>5, CarriedIs DEF CarriedBy, Reclaims, TaskKinds
<1>6. ASSUME NEW t \in Tasks, Add(c, t)
      PROVE  /\ Fresh(t) /\ backlog' = backlog /\ Carried(c)' = {t}
             /\ job'[c].kind \in {"add", "assign"} /\ job'[c].at = "set"
  BY <1>5, <1>6, AddAt DEF Add
<1>7. ASSUME NEW t \in Tasks, NEW a \in Agents, Assign(c, t, a)
      PROVE  /\ Fresh(t) /\ backlog' = backlog /\ Carried(c)' = {t}
             /\ job'[c].kind \in {"add", "assign"} /\ job'[c].at = "set"
  BY <1>5, <1>7, AssignAt DEF Assign
<1>8. ASSUME NEW t \in Tasks, NEW a \in Agents \cup {NoAgent}, Claim(c, t, a)
      PROVE  InBacklog(t) /\ backlog' = Taken(t) /\ Carried(c)' = {t}
  BY <1>5, <1>8, ClaimAt DEF Claim
<1>9. ASSUME NEW t \in Tasks, Remove(c, t)
      PROVE  InBacklog(t) /\ backlog' = Taken(t) /\ Carried(c)' = {t}
  BY <1>5, <1>9, RemoveAt DEF Remove
<1>10. ASSUME NEW a \in Agents, AssignAll(c, a) PROVE backlog' = backlog /\ Carried(c)' = {}
  <2>1. job'[c].kind = "assign_all" /\ job'[c].task = NoTask
    BY <1>10, AssignAllAt
  <2> QED
    BY <1>1, <1>10, <2>1, CarriedIs DEF AssignAll, CarriedBy, Reclaims
<1>11. ASSUME NEW kind \in {"reclaim", "reclaim_to", "list"} \cup OrphanActions,
              NEW a \in Agents \cup {NoAgent}, Reclaim(c, kind, a)
       PROVE  backlog' = backlog /\ Carried(c)' = {}
  <2>1. job'[c].task = NoTask /\ job'[c].todo = {}
    BY <1>11, ReclaimBegins
  <2> QED
    BY <1>1, <1>11, <2>1, CarriedIs DEF Reclaim, CarriedBy
<1>12. ASSUME NEW t \in Tasks, Complete(c, t) PROVE backlog' = backlog /\ Carried(c)' = {}
  <2>1. job'[c].kind = "complete"
    BY <1>1, <1>12, CompleteAt
  <2> QED
    BY <1>1, <1>12, <2>1, CarriedIs DEF Complete, CarriedBy, Reclaims, TaskKinds
<1> QED
  BY <1>2, <1>4, <1>6, <1>7, <1>8, <1>9, <1>10, <1>11, <1>12 DEF CommandBegins

\* An agent's own commands carry nothing: what they are about is in its hand.
LEMMA AgentCarries ==
  ASSUME TypeOK, OwnJobs, NEW a \in Agents, AgentStep(a)
  PROVE  \A p \in Procs : Carried(p)' = Carried(p)
<1>1. a \in Procs
  BY DEF Procs
<1>2. OthersStay(a) /\ OwnOK(a) /\ OwnOK(a)'
  BY AgentIs DEF OwnJobs
<1>3. OthersCarry(a)
  BY <1>1, <1>2, OthersCarrySame
<1>4. \A kind \in {"none"} \cup Own : kind \notin Reclaims /\ kind \notin TaskKinds \cup {"remove"}
  BY DEF Own, Reclaims, TaskKinds
<1>5. Carried(a) = {} /\ Carried(a)' = {}
  BY <1>1, <1>2, <1>4, CarriedIs DEF OwnOK, CarriedBy
<1> QED
  BY <1>3, <1>5 DEF OthersCarry

LEMMA CommandSafe ==
  ASSUME TypeOK, NEW c \in Clients, CommandBegins(c) \/ ClientCrash(c), NEW t \in Tasks, Safe(t)
  PROVE  Safe(t)'
<1>1. c \in Procs
  BY DEF Procs
<1>2. CASE CommandBegins(c)
  <2>1. /\ OthersCarry(c) /\ Carried(c) = {}
        /\ UNCHANGED <<tasks, inbox, hand, status, lost, orphaned, reopened, elsewhere>>
    BY <1>2, CommandCarries
  <2>2. CASE backlog' = backlog
    BY <2>1, <2>2 DEF Safe, Found, OthersCarry
  <2>3. ASSUME NEW u \in Tasks, backlog' = Taken(u), Carried(c)' = {u} PROVE Safe(t)'
    <3>1. CASE t = u
      BY <1>1, <2>3, <3>1 DEF Safe, Found
    <3>2. CASE t # u
      <4>1. backlog'[t] = backlog[t]
        BY <2>3, <3>2 DEF Taken, TypeOK
      <4> QED
        BY <2>1, <4>1 DEF Safe, Found, OthersCarry
    <3> QED
      BY <3>1, <3>2
  <2> QED
    BY <1>2, <2>2, <2>3, CommandCarries
<1>3. CASE ClientCrash(c)
  <2>1. OthersCarry(c)
    BY <1>1, <1>3, CommandIs, OthersCarrySame
  <2> QED
    BY <1>3, <2>1 DEF ClientCrash, Safe, Found, OthersCarry
<1> QED
  BY <1>2, <1>3

LEMMA AgentSafe ==
  ASSUME TypeOK, OwnJobs, NEW a \in Agents, AgentStep(a), NEW t \in Tasks, Safe(t)
  PROVE  Safe(t)'
<1>1. /\ \A p \in Procs : Carried(p)' = Carried(p)
      /\ \A b \in Agents \ {a} : hand'[b] = hand[b] /\ status'[b] = status[b] /\ inbox'[b] = inbox[b]
      /\ UNCHANGED <<tasks, backlog>> /\ OwnOK(a)
  BY AgentCarries, AgentIs DEF OwnJobs
<1> DEFINE kept == \/ t \in hand'[a]
                   \/ t \in lost'
                   \/ inbox'[a][t] > 0 /\ status'[a] # "missing"
<1>2. ASSUME t \in hand[a] /\ tasks[t].state \in Open => kept,
             inbox[a][t] > 0 /\ status[a] # "missing" => kept,
             lost \subseteq lost', reopened \subseteq reopened'
      PROVE  Safe(t)'
  <2>1. CASE tasks[t].state \in Open /\ Found(t)
    BY <1>1, <1>2, <2>1 DEF Safe, Found
  <2> QED
    BY <1>1, <1>2, <2>1 DEF Safe
<1>3. CASE Receive(a)
  BY <1>2, <1>3 DEF Receive, TypeOK, history
<1>4. ASSUME NEW u \in Tasks, Complete(a, u) PROVE Safe(t)'
  <2>1. /\ t \in hand[a] /\ tasks[t].state \in Open => kept
        /\ inbox[a][t] > 0 /\ status[a] # "missing" => kept
        /\ lost \subseteq lost' /\ reopened \subseteq reopened'
    BY <1>4 DEF Complete, history
  <2> QED
    BY <1>2, <2>1
<1>5. CASE RoundEnds(a)
  <2>1. /\ t \in hand[a] /\ tasks[t].state \in Open => kept
        /\ inbox[a][t] > 0 /\ status[a] # "missing" => kept
        /\ lost \subseteq lost' /\ reopened \subseteq reopened'
    BY <1>5 DEF RoundEnds, TypeOK
  <2> QED
    BY <1>2, <2>1
<1>6. CASE RoundFails(a)
  <2>1. status'[a] = status[a] /\ status[a] # "missing" /\ inbox'[a] = Requeued(a)
    BY <1>1, <1>6 DEF RoundFails, OwnOK, TypeOK
  <2>2. t \in hand[a] \/ inbox[a][t] > 0 => inbox'[a][t] > 0
    BY <2>1 DEF Requeued, TypeOK
  <2> QED
    BY <1>2, <1>6, <2>1, <2>2 DEF RoundFails
<1>7. CASE Stop(a)
  BY <1>2, <1>7 DEF Stop, TypeOK, history
<1>8. CASE Restart(a)
  BY <1>2, <1>8 DEF Restart, TypeOK, history
<1>9. CASE Prune(a)
  <2>1. /\ t \in hand[a] /\ tasks[t].state \in Open => kept
        /\ inbox[a][t] > 0 /\ status[a] # "missing" => kept
        /\ lost \subseteq lost' /\ reopened \subseteq reopened'
    BY <1>9 DEF Prune, TypeOK
  <2> QED
    BY <1>2, <2>1
<1>10. CASE AgentCrash(a)
  BY <1>2, <1>10 DEF AgentCrash, TypeOK
<1> QED
  BY <1>3, <1>4, <1>5, <1>6, <1>7, <1>8, <1>9, <1>10 DEF AgentStep

LEMMA ListsStay ==
  ASSUME TypeOK, Shapes, OwnJobs, NoLists, [Next]_vars
  PROVE  NoLists'
<1> SUFFICES ASSUME "list" \notin Disturbances, NEW p \in Procs PROVE job'[p].kind # "list"
  BY DEF NoLists
<1>1. job[p].kind # "list"
  BY DEF NoLists
<1>2. ASSUME NEW q \in Procs, OthersStay(q), p # q PROVE job'[p].kind # "list"
  BY <1>1, <1>2 DEF OthersStay
<1>3. ASSUME NEW q \in Procs, JobStep(q) PROVE job'[p].kind # "list"
  BY <1>1, <1>2, <1>3, JobStepIs, NoJobIs
<1>4. ASSUME NEW c \in Clients, CommandBegins(c) PROVE job'[p].kind # "list"
  <2>1. c \in Procs /\ OthersStay(c)
    BY <1>4, CommandIs DEF Procs
  <2>2. ASSUME NEW kind \in {"reclaim", "reclaim_to", "list"} \cup OrphanActions,
               NEW a \in Agents \cup {NoAgent}, Reclaim(c, kind, a)
        PROVE  job'[c].kind # "list"
    BY <2>2, ReclaimBegins DEF Reclaim, Disturb
  <2>3. ASSUME NEW t \in Tasks, Add(c, t) PROVE job'[c].kind # "list"
    BY <2>3, AddAt
  <2>4. ASSUME NEW t \in Tasks, NEW a \in Agents, Assign(c, t, a) PROVE job'[c].kind # "list"
    BY <2>4, AssignAt
  <2>5. ASSUME NEW t \in Tasks, NEW a \in Agents \cup {NoAgent}, Claim(c, t, a)
        PROVE  job'[c].kind # "list"
    BY <2>5, ClaimAt
  <2>6. ASSUME NEW t \in Tasks, Remove(c, t) PROVE job'[c].kind # "list"
    BY <2>6, RemoveAt
  <2>7. ASSUME NEW a \in Agents, AssignAll(c, a) PROVE job'[c].kind # "list"
    BY <2>7, AssignAllAt
  <2>8. ASSUME NEW t \in Tasks, Complete(c, t) PROVE job'[c].kind # "list"
    BY <2>1, <2>8, CompleteAt
  <2>9. job'[c].kind # "list"
    BY <1>4, <2>2, <2>3, <2>4, <2>5, <2>6, <2>7, <2>8 DEF CommandBegins
  <2> QED
    BY <1>2, <2>1, <2>9
<1>5. ASSUME NEW c \in Clients, ClientCrash(c) PROVE job'[p].kind # "list"
  <2>1. c \in Procs /\ OthersStay(c) /\ job'[c] = NoJob
    BY <1>5, CommandIs, NoJobIs, OneJob DEF Procs, ClientCrash
  <2> QED
    BY <1>2, <2>1, NoJobIs
<1>6. ASSUME NEW a \in Agents, AgentStep(a) PROVE job'[p].kind # "list"
  <2>1. a \in Procs /\ OthersStay(a) /\ OwnOK(a)'
    BY <1>6, AgentIs DEF Procs
  <2> QED
    BY <1>2, <2>1 DEF OwnOK, Own
<1>7. CASE UNCHANGED vars
  BY <1>1, <1>7 DEF vars
<1> QED
  BY <1>3, <1>4, <1>5, <1>6, <1>7 DEF Next

\* Nobody has a command, so nobody owns one wrongly or goes through orphans.
LEMMA InitBegins ==
  ASSUME Init
  PROVE  /\ OwnJobs /\ Orphans /\ NoLists
         /\ \A p \in Procs : Carried(p) = {}
         /\ \A t \in Tasks : tasks[t].state = "New"
<1>1. \A p \in Procs : job[p] = NoJob
  BY DEF Init
<1>2. OwnJobs
  BY <1>1, NoJobIs DEF Init, OwnJobs, OwnOK, Own, Procs
<1>3. Orphans /\ NoLists
  BY <1>1, NoJobIs DEF Orphans, OrphanOK, NoLists, OrphanActions
<1>4. \A p \in Procs : Carried(p) = {}
  BY <1>1, CarriedIs, NoJobCarries
<1> QED
  BY <1>2, <1>3, <1>4 DEF Init

LEMMA Commands == Spec => [](OwnJobs /\ Orphans)
<1>1. TypeOK /\ Shapes /\ (OwnJobs /\ Orphans) /\ [Next]_vars => (OwnJobs /\ Orphans)'
  BY OwnStays, OrphansStay
<1>2. Init => OwnJobs /\ Orphans
  BY InitBegins
<1> QED
  BY <1>1, <1>2, WellFormed, PTL DEF Spec

AllSafe == \A t \in Tasks : Safe(t)

LEMMA OpenIsFound ==
  ASSUME "list" \notin Disturbances
  PROVE  Spec => []AllSafe
<1> USE DEF AllSafe
<1>1. Init => NoLists /\ AllSafe
  BY InitBegins DEF Safe, Open
<1>2. TypeOK /\ Shapes /\ (OwnJobs /\ Orphans) /\ (NoLists /\ AllSafe) /\ [Next]_vars
        => (NoLists /\ AllSafe)'
  <2> SUFFICES ASSUME TypeOK, Shapes, OwnJobs, Orphans, NoLists, AllSafe, [Next]_vars
               PROVE  NoLists' /\ AllSafe'
    OBVIOUS
  <2>1. NoLists'
    BY ListsStay
  <2>2. ASSUME NEW t \in Tasks PROVE Safe(t)'
    <3>1. CASE UNCHANGED vars
      <4>1. \A p \in Procs : Carried(p)' = Carried(p)
        BY <3>1, CarriedIs DEF vars
      <4> QED
        BY <3>1, <4>1 DEF vars, history, Safe, Found
    <3>2. ASSUME NEW p \in Procs, JobStep(p) PROVE Safe(t)'
      BY <3>2, JobStepSafe DEF NoLists
    <3>3. ASSUME NEW c \in Clients, CommandBegins(c) \/ ClientCrash(c) PROVE Safe(t)'
      BY <3>3, CommandSafe
    <3>4. ASSUME NEW a \in Agents, AgentStep(a) PROVE Safe(t)'
      BY <3>4, AgentSafe
    <3> QED
      BY <3>1, <3>2, <3>3, <3>4 DEF Next
  <2> QED
    BY <2>1, <2>2
<1> HIDE DEF AllSafe
<1> QED
  BY <1>1, <1>2, WellFormed, Commands, PTL DEF Spec

\* The messages of an agent that is only listed are dropped, so where nobody lists
\* them, a task that is open is in the backlog, in an inbox, in a round or in a
\* command under way; or the history says which accident took it away.
THEOREM OpenTaskIsSomewhere ==
  ASSUME "list" \notin Disturbances
  PROVE  Spec => []NothingStranded
<1>1. TypeOK /\ Shapes /\ AllSafe => NothingStranded
  BY FoundHasCopy DEF AllSafe, Safe, NothingStranded
<1> QED
  BY <1>1, WellFormed, OpenIsFound, PTL

----------------------------------------------------------------------------
(* A task is in one place at a time *)

PlaceKinds == {"backlog", "inbox", "hand", "command"}

Holders == Procs \cup {NoAgent}

Holds(t, k, w) ==
  \/ k = "backlog" /\ w = NoAgent /\ backlog[t] > 0
  \/ k = "inbox" /\ w \in Agents /\ inbox[w][t] > 0
  \/ k = "hand" /\ w \in Agents /\ t \in hand[w]
  \/ k = "command" /\ w \in Procs /\ t \in Carried(w)

\* If it is anywhere, it is there, and once.
OnlyAt(t, k, w) ==
  /\ backlog[t] <= 1 /\ (backlog[t] > 0 => k = "backlog" /\ w = NoAgent)
  /\ \A a \in Agents : inbox[a][t] <= 1 /\ (inbox[a][t] > 0 => k = "inbox" /\ w = a)
  /\ \A a \in Agents : t \in hand[a] => k = "hand" /\ w = a
  /\ \A p \in Procs : t \in Carried(p) => k = "command" /\ w = p

AloneOK(t) == t \notin orphaned => \E k \in PlaceKinds, w \in Holders : OnlyAt(t, k, w)

Alone == \A t \in Tasks : AloneOK(t)

\* A step takes the task out of places and puts it into none, ...
Fewer(t) ==
  /\ backlog'[t] <= backlog[t]
  /\ \A a \in Agents : inbox'[a][t] <= inbox[a][t] /\ (t \in hand'[a] => t \in hand[a])
  /\ \A p \in Procs : t \in Carried(p)' => t \in Carried(p)

\* ... or takes it from one place to another.
Travels(t, k0) ==
  \E w0, w1 \in Holders, k1 \in PlaceKinds :
    /\ Holds(t, k0, w0)
    /\ k0 = "command" => job[w0].at = "put"
    /\ OnlyAt(t, k0, w0) => OnlyAt(t, k1, w1)'

LEMMA FewerStays ==
  ASSUME TypeOK, TypeOK', NEW t \in Tasks, NEW k, NEW w, OnlyAt(t, k, w), Fewer(t)
  PROVE  OnlyAt(t, k, w)'
<1>1. backlog[t] \in Nat /\ backlog'[t] \in Nat
  BY DEF TypeOK
<1>2. \A a \in Agents : inbox[a][t] \in Nat /\ inbox'[a][t] \in Nat
  BY DEF TypeOK
<1> QED
  BY <1>1, <1>2 DEF OnlyAt, Fewer

LEMMA HeldOnlyThere ==
  ASSUME NEW t \in Tasks, NEW k \in PlaceKinds, NEW w \in Holders, NEW k0, NEW w0,
         OnlyAt(t, k, w), Holds(t, k0, w0)
  PROVE  k = k0 /\ w = w0
BY DEF OnlyAt, Holds

LEMMA PutMoves ==
  ASSUME TypeOK, Shapes, NEW p \in Procs, Put(p), NEW t \in Tasks
  PROVE  Fewer(t) \/ Travels(t, "command")
<1>1. ShapeOK(job[p])
  BY DEF Shapes
<1>2. /\ OthersCarry(p) /\ Carried(p)' = Carried(p) \ {job[p].task} /\ job[p].task \in Tasks
      /\ job[p].kind \notin {"delete", "complete"} => job[p].task \in Carried(p)
      /\ hand' = hand /\ job[p].at = "put"
  BY PutCarries DEF Put
<1>3. CASE UNCHANGED <<backlog, inbox>>
  BY <1>2, <1>3 DEF Fewer, OthersCarry, TypeOK
<1>4. CASE job[p].kind \in {"add", "requeue", "reclaim"}
  <2>1. backlog' = [backlog EXCEPT ![job[p].task] = @ + 1] /\ inbox' = inbox
    BY <1>4 DEF Put
  <2>2. CASE t # job[p].task
    BY <1>2, <2>1, <2>2 DEF Fewer, OthersCarry, TypeOK
  <2>3. CASE t = job[p].task
    <3>1. Holds(t, "command", p)
      BY <1>2, <1>4, <2>3 DEF Holds
    <3>2. ASSUME OnlyAt(t, "command", p) PROVE OnlyAt(t, "backlog", NoAgent)'
      <4>1. backlog[t] = 0 /\ backlog'[t] = 1
        BY <2>1, <2>3, <3>2 DEF OnlyAt, TypeOK
      <4>2. \A q \in Procs : t \notin Carried(q)'
        BY <1>2, <2>3, <3>2 DEF OnlyAt, OthersCarry
      <4> QED
        BY <1>2, <2>1, <3>2, <4>1, <4>2 DEF OnlyAt
    <3> QED
      BY <1>2, <3>1, <3>2 DEF Travels, Holders, PlaceKinds
  <2> QED
    BY <2>2, <2>3
<1>5. CASE job[p].kind \in {"assign", "claim", "assign_all", "reclaim_to"}
  <2>1. PICK a \in Agents :
          inbox' = [inbox EXCEPT ![a][job[p].task] = @ + 1] /\ backlog' = backlog
    BY <1>1, <1>2, <1>5 DEF Put, ShapeOK, TargetOK
  <2>2. CASE t # job[p].task
    <3>1. \A b \in Agents : inbox'[b][t] = inbox[b][t]
      BY <2>1, <2>2 DEF TypeOK
    <3> QED
      BY <1>2, <2>1, <3>1 DEF Fewer, OthersCarry, TypeOK
  <2>3. CASE t = job[p].task
    <3>1. Holds(t, "command", p)
      BY <1>2, <1>5, <2>3 DEF Holds
    <3>2. ASSUME OnlyAt(t, "command", p) PROVE OnlyAt(t, "inbox", a)'
      <4>1. \A b \in Agents : inbox[b][t] = 0
        BY <3>2 DEF OnlyAt, TypeOK
      <4>2. \A b \in Agents : inbox'[b][t] = IF b = a THEN 1 ELSE 0
        BY <2>1, <2>3, <4>1 DEF TypeOK
      <4>3. \A q \in Procs : t \notin Carried(q)'
        BY <1>2, <2>3, <3>2 DEF OnlyAt, OthersCarry
      <4>4. backlog'[t] = 0 /\ \A b \in Agents : t \notin hand'[b]
        BY <1>2, <2>1, <3>2 DEF OnlyAt, TypeOK
      <4> QED
        BY <4>2, <4>3, <4>4 DEF OnlyAt
    <3>3. a \in Holders /\ p \in Holders
      BY <2>1 DEF Holders, Procs
    <3> QED
      BY <1>2, <3>1, <3>2, <3>3 DEF Travels, PlaceKinds
  <2> QED
    BY <2>2, <2>3
<1> QED
  BY <1>3, <1>4, <1>5 DEF Put

\* A task leaves the backlog with a command.
LEMMA TakenMoves ==
  ASSUME TypeOK, NEW p \in Procs, NEW u \in Tasks, InBacklog(u), backlog' = Taken(u),
         UNCHANGED <<inbox, hand>>, OthersCarry(p), Carried(p) = {}, Carried(p)' = {u},
         NEW t \in Tasks
  PROVE  Fewer(t) \/ Travels(t, "backlog")
<1>1. CASE t # u
  BY <1>1 DEF Fewer, Taken, OthersCarry, TypeOK
<1>2. CASE t = u
  <2>1. Holds(t, "backlog", NoAgent)
    BY <1>2 DEF Holds, InBacklog
  <2>2. ASSUME OnlyAt(t, "backlog", NoAgent) PROVE OnlyAt(t, "command", p)'
    <3>1. backlog'[t] = 0
      BY <1>2, <2>2 DEF OnlyAt, Taken, InBacklog, TypeOK
    <3> QED
      BY <2>2, <3>1 DEF OnlyAt, OthersCarry
  <2> QED
    BY <2>1, <2>2 DEF Travels, Holders, PlaceKinds
<1> QED
  BY <1>1, <1>2

LEMMA DrainMoves ==
  ASSUME TypeOK, Shapes, NEW p \in Procs, Drain(p), NEW t \in Tasks
  PROVE  Fewer(t) \/ Travels(t, "inbox")
<1>1. PICK a \in Agents :
           /\ OthersCarry(p) /\ Carried(p) = {}
           /\ Carried(p)' = IF job[p].kind = "list" THEN {} ELSE {u \in Tasks : inbox[a][u] > 0}
           /\ inbox' = [inbox EXCEPT ![a] = [u \in Tasks |-> 0]]
  BY DrainCarries
<1>2. UNCHANGED <<backlog, hand>>
  BY DEF Drain
<1>3. /\ inbox'[a][t] = 0 /\ \A b \in Agents \ {a} : inbox'[b][t] = inbox[b][t]
      /\ backlog[t] \in Nat /\ \A b \in Agents : inbox[b][t] \in Nat
  BY <1>1 DEF TypeOK
<1>4. CASE t \notin Carried(p)'
  BY <1>1, <1>2, <1>3, <1>4 DEF Fewer, OthersCarry
<1>5. CASE t \in Carried(p)'
  <2>1. inbox[a][t] > 0
    BY <1>1, <1>5
  <2>2. Holds(t, "inbox", a)
    BY <2>1 DEF Holds
  <2>3. ASSUME OnlyAt(t, "inbox", a) PROVE OnlyAt(t, "command", p)'
    <3>1. \A b \in Agents : inbox'[b][t] = 0
      BY <1>3, <2>3 DEF OnlyAt
    <3> QED
      BY <1>1, <1>2, <2>3, <3>1 DEF OnlyAt, OthersCarry
  <2> QED
    BY <2>2, <2>3 DEF Travels, Holders, PlaceKinds, Procs
<1> QED
  BY <1>4, <1>5

LEMMA JobStepMoves ==
  ASSUME TypeOK, Shapes, Orphans, NEW p \in Procs, JobStep(p), NEW t \in Tasks \ orphaned
  PROVE  Fewer(t) \/ Travels(t, "backlog") \/ Travels(t, "inbox") \/ Travels(t, "command")
<1>1. ASSUME UNCHANGED <<backlog, inbox, hand>>, OthersCarry(p),
             t \in Carried(p)' => t \in Carried(p)
      PROVE  Fewer(t)
  BY <1>1 DEF Fewer, OthersCarry, TypeOK
<1>2. CASE Get(p)
  BY <1>1, <1>2, GetCarries DEF Get
<1>3. CASE Set(p)
  BY <1>1, <1>3, SetCarries DEF Set
<1>4. CASE Put(p)
  BY <1>4, PutMoves
<1>5. CASE Find(p)
  BY <1>1, <1>5, FindCarries DEF Find
<1>6. CASE Pop(p)
  BY <1>6, PopCarries, TakenMoves DEF Pop
<1>7. CASE Drain(p)
  BY <1>7, DrainMoves
<1>8. CASE Scan(p)
  BY <1>1, <1>8, ScanCarries DEF Scan
<1>9. CASE Pick(p)
  BY <1>1, <1>9, PickCarries DEF Pick
<1>10. CASE End(p)
  BY <1>1, <1>10, EndCarries DEF End
<1> QED
  BY <1>2, <1>3, <1>4, <1>5, <1>6, <1>7, <1>8, <1>9, <1>10 DEF JobStep

\* A new task comes into the hands of the command that makes it.
Born(t, c) ==
  /\ Fresh(t) /\ UNCHANGED <<backlog, inbox, hand>>
  /\ OthersCarry(c) /\ Carried(c) = {} /\ Carried(c)' = {t}
  /\ job'[c].kind \in {"add", "assign"} /\ job'[c].at = "set"

LEMMA CommandMoves ==
  ASSUME TypeOK, NEW c \in Clients, CommandBegins(c) \/ ClientCrash(c), NEW t \in Tasks
  PROVE  Fewer(t) \/ Travels(t, "backlog") \/ Born(t, c)
<1>1. c \in Procs
  BY DEF Procs
<1>2. CASE ClientCrash(c)
  <2>1. job'[c] = NoJob /\ OthersStay(c) /\ UNCHANGED <<backlog, inbox, hand>>
    BY <1>1, <1>2, NoJobIs, OneJob DEF ClientCrash
  <2>2. OthersCarry(c) /\ Carried(c)' = {}
    BY <1>1, <2>1, OthersCarrySame, CarriedIs, NoJobCarries
  <2> QED
    BY <2>1, <2>2 DEF Fewer, OthersCarry, TypeOK
<1>3. CASE CommandBegins(c)
  <2>1. OthersCarry(c) /\ Carried(c) = {} /\ UNCHANGED <<inbox, hand>>
    BY <1>3, CommandCarries
  <2>2. CASE backlog' = backlog /\ t \notin Carried(c)'
    BY <2>1, <2>2 DEF Fewer, OthersCarry, TypeOK
  <2>3. ASSUME NEW u \in Tasks, InBacklog(u), backlog' = Taken(u), Carried(c)' = {u}
        PROVE  Fewer(t) \/ Travels(t, "backlog")
    BY <1>1, <2>1, <2>3, TakenMoves
  <2>4. ASSUME NEW u \in Tasks, Fresh(u), backlog' = backlog, Carried(c)' = {u}, t = u,
               job'[c].kind \in {"add", "assign"}, job'[c].at = "set"
        PROVE  Born(t, c)
    BY <2>1, <2>4 DEF Born
  <2> QED
    BY <1>3, <2>2, <2>3, <2>4, CommandCarries
<1> QED
  BY <1>2, <1>3

LEMMA AgentMoves ==
  ASSUME TypeOK, OwnJobs, NEW a \in Agents, AgentStep(a), NEW t \in Tasks
  PROVE  \/ Fewer(t)
         \/ Travels(t, "inbox")
         \/ Travels(t, "hand") /\ (tasks[t].state \in Finished => t \in reopened')
<1>1. /\ \A p \in Procs : Carried(p)' = Carried(p)
      /\ \A b \in Agents \ {a} : hand'[b] = hand[b] /\ inbox'[b] = inbox[b]
      /\ backlog' = backlog /\ a \in Holders
  BY AgentCarries, AgentIs DEF Holders, Procs
<1>2. backlog[t] \in Nat /\ \A b \in Agents : inbox[b][t] \in Nat
  BY DEF TypeOK
<1>3. ASSUME t \in hand'[a] => t \in hand[a], inbox'[a][t] <= inbox[a][t] PROVE Fewer(t)
  BY <1>1, <1>2, <1>3 DEF Fewer
<1>4. CASE Receive(a)
  <2>1. inbox'[a][t] = 0 /\ (t \in hand'[a] => inbox[a][t] > 0)
    BY <1>4 DEF Receive, TypeOK
  <2>2. CASE t \notin hand'[a]
    BY <1>2, <1>3, <2>1, <2>2
  <2>3. CASE t \in hand'[a]
    <3>1. Holds(t, "inbox", a)
      BY <2>1, <2>3 DEF Holds
    <3>2. OnlyAt(t, "inbox", a) => OnlyAt(t, "hand", a)'
      BY <1>1, <1>2, <2>1 DEF OnlyAt
    <3> QED
      BY <1>1, <3>1, <3>2 DEF Travels, PlaceKinds
  <2> QED
    BY <2>2, <2>3
<1>5. CASE RoundFails(a)
  <2>1. /\ hand'[a] = {} /\ (t \in hand[a] /\ tasks[t].state \in Finished => t \in reopened')
        /\ inbox'[a][t] = IF t \in hand[a] THEN inbox[a][t] + 1 ELSE inbox[a][t]
    BY <1>5 DEF RoundFails, Requeued, TypeOK
  <2>2. CASE t \notin hand[a]
    BY <1>2, <1>3, <2>1, <2>2
  <2>3. CASE t \in hand[a]
    <3>1. Holds(t, "hand", a)
      BY <2>3 DEF Holds
    <3>2. OnlyAt(t, "hand", a) => OnlyAt(t, "inbox", a)'
      BY <1>1, <1>2, <2>1, <2>3 DEF OnlyAt
    <3> QED
      BY <1>1, <2>1, <2>3, <3>1, <3>2 DEF Travels, PlaceKinds
  <2> QED
    BY <2>2, <2>3
<1>6. CASE UNCHANGED <<hand, inbox>>
  BY <1>2, <1>3, <1>6
<1>7. CASE RoundEnds(a)
  BY <1>2, <1>3, <1>7 DEF RoundEnds, TypeOK
<1>8. CASE Prune(a)
  BY <1>2, <1>3, <1>8 DEF Prune, TypeOK
<1>9. CASE AgentCrash(a)
  BY <1>2, <1>3, <1>9 DEF AgentCrash, TypeOK
<1> QED
  BY <1>4, <1>5, <1>6, <1>7, <1>8, <1>9 DEF AgentStep, Complete, Stop, Restart

\* A task without a record yet is only with the command that makes it.
NewOK(t) ==
  tasks[t].state = "New" =>
    /\ t \notin orphaned /\ backlog[t] = 0
    /\ \A a \in Agents : inbox[a][t] = 0 /\ t \notin hand[a]
    /\ \A p \in Procs : t \in Carried(p) => job[p].kind \in {"add", "assign"} /\ job[p].at = "set"

News == \A t \in Tasks : NewOK(t)

LEMMA TravelsNotNew ==
  ASSUME NEW t \in Tasks, NEW k, Travels(t, k), NewOK(t)
  PROVE  tasks[t].state # "New"
BY DEF Travels, Holds, NewOK

LEMMA Alike ==
  ASSUME TypeOK, UNCHANGED vars, NEW t \in Tasks
  PROVE  Fewer(t)
<1>1. \A p \in Procs : Carried(p)' = Carried(p)
  BY CarriedIs DEF vars
<1> QED
  BY <1>1 DEF vars, Fewer, TypeOK

\* Which records a step writes, and whom the reclaims of orphans take up.
LEMMA RecordsKept ==
  ASSUME TypeOK, Shapes, OwnJobs, [Next]_vars, NEW t \in Tasks
  PROVE  /\ orphaned \subseteq orphaned' /\ reopened \subseteq reopened'
         /\ elsewhere \subseteq elsewhere'
         /\ \/ tasks'[t] = tasks[t]
            \/ \E p \in Procs : /\ job[p].task = t /\ JobStep(p)
                                /\ \/ Set(p) /\ tasks'[t] = job[p].draft
                                   \/ /\ Put(p) /\ job[p].kind \in {"remove", "delete"}
                                      /\ tasks'[t] = Nothing
         /\ t \in orphaned' \ orphaned => tasks[t].state \in Open
<1>1. CASE UNCHANGED vars
  BY <1>1 DEF vars, history
<1>2. ASSUME NEW c \in Clients, CommandBegins(c) \/ ClientCrash(c)
      PROVE  UNCHANGED <<tasks, orphaned, reopened, elsewhere>>
  BY <1>2, CommandIs
<1>3. ASSUME NEW a \in Agents, AgentStep(a)
      PROVE  UNCHANGED <<tasks, orphaned, elsewhere>> /\ reopened \subseteq reopened'
  BY <1>3, AgentIs DEF AgentStep, Receive, Complete, RoundEnds, RoundFails, Stop, Restart, Prune,
                       AgentCrash, history
<1>4. ASSUME NEW p \in Procs, JobStep(p)
      PROVE  /\ orphaned \subseteq orphaned' /\ reopened \subseteq reopened'
             /\ elsewhere \subseteq elsewhere'
             /\ \/ tasks'[t] = tasks[t]
                \/ /\ job[p].task = t
                   /\ \/ Set(p) /\ tasks'[t] = job[p].draft
                      \/ /\ Put(p) /\ job[p].kind \in {"remove", "delete"}
                         /\ tasks'[t] = Nothing
             /\ t \in orphaned' \ orphaned => tasks[t].state \in Open
  <2>1. CASE Set(p)
    BY <2>1 DEF Set, TypeOK
  <2>2. CASE Put(p)
    BY <2>2 DEF Put, TypeOK
  <2>3. CASE Scan(p)
    BY <2>3, ScanAt DEF Scan
  <2> QED
    BY <1>4, <2>1, <2>2, <2>3 DEF JobStep, Get, Find, Pop, Drain, Pick, End, history
<1> QED
  BY <1>1, <1>2, <1>3, <1>4 DEF Next

LEMMA StaysNew ==
  ASSUME TypeOK, Shapes, OwnJobs, [Next]_vars, NEW t \in Tasks, tasks'[t].state = "New"
  PROVE  tasks[t].state = "New" /\ (t \in orphaned' => t \in orphaned)
<1>1. ASSUME NEW p \in Procs, Set(p) PROVE job[p].draft.state # "New"
  BY <1>1 DEF Set, Shapes, ShapeOK, DraftOK, Open
<1>2. Nothing.state # "New" /\ "New" \notin Open
  BY DEF Nothing, Open
<1> QED
  BY <1>1, <1>2, RecordsKept

\* No other step of the command that makes a task leaves it without a record.
LEMMA NewsStay ==
  ASSUME TypeOK, TypeOK', Shapes, OwnJobs, Orphans, News, [Next]_vars
  PROVE  News'
<1> SUFFICES ASSUME NEW t \in Tasks, tasks'[t].state = "New" PROVE NewOK(t)'
  BY DEF News, NewOK
<1>1. /\ NewOK(t) /\ tasks[t].state = "New" /\ t \notin orphaned' /\ t \notin orphaned
      /\ backlog[t] = 0 /\ backlog'[t] \in Nat
      /\ \A a \in Agents : inbox[a][t] = 0 /\ t \notin hand[a] /\ inbox'[a][t] \in Nat
      /\ \A p \in Procs : t \in Carried(p) => job[p].kind \in {"add", "assign"} /\ job[p].at = "set"
  BY StaysNew DEF News, NewOK, TypeOK
<1>2. ASSUME Fewer(t),
             \A p \in Procs : t \in Carried(p)' => job'[p] = job[p]
      PROVE  NewOK(t)'
  <2>1. backlog'[t] = 0 /\ \A a \in Agents : inbox'[a][t] = 0 /\ t \notin hand'[a]
    BY <1>1, <1>2 DEF Fewer
  <2>2. \A p \in Procs : t \in Carried(p)'
                           => job'[p].kind \in {"add", "assign"} /\ job'[p].at = "set"
    BY <1>1, <1>2 DEF Fewer
  <2> QED
    BY <1>1, <2>1, <2>2 DEF NewOK
<1>3. ASSUME NEW k, Travels(t, k) PROVE FALSE
  BY <1>1, <1>3, TravelsNotNew
<1>4. ASSUME NEW p \in Procs, JobStep(p) PROVE NewOK(t)'
  <2>1. OthersStay(p) /\ Fewer(t)
    BY <1>1, <1>3, <1>4, JobStepIs, JobStepMoves
  <2>2. CASE t \notin Carried(p)
    BY <1>2, <2>1, <2>2 DEF OthersStay, Fewer
  <2>3. CASE t \in Carried(p)
    <3>1. job[p].kind \in {"add", "assign"} /\ job[p].at = "set"
      BY <1>1, <2>3
    <3>2. t = job[p].task
      BY <2>3, <3>1, CarriedIs DEF CarriedBy, Reclaims, TaskKinds
    <3>3. Set(p)
      BY <1>4, <3>1 DEF JobStep, Get, Put, Find, Pop, Drain, Scan, Pick, End, OrphanActions
    <3>4. tasks'[t] = job[p].draft /\ job[p].draft.state \in Open
      BY <3>1, <3>2, <3>3 DEF Set, TypeOK, Shapes, ShapeOK, DraftOK
    <3> QED
      BY <3>4 DEF Open
  <2> QED
    BY <2>2, <2>3
<1>5. ASSUME NEW c \in Clients, CommandBegins(c) \/ ClientCrash(c) PROVE NewOK(t)'
  <2>1. c \in Procs /\ OthersStay(c) /\ UNCHANGED <<hand>>
    BY <1>5, CommandIs DEF Procs
  <2>2. CASE Fewer(t)
    <3>1. t \notin Carried(c)'
      <4>1. CASE CommandBegins(c)
        BY <2>2, <4>1, CommandCarries, <2>1 DEF Fewer
      <4>2. CASE ClientCrash(c)
        BY <2>1, <4>2, OneJob, NoJobIs, NoJobCarries, CarriedIs DEF ClientCrash
      <4> QED
        BY <1>5, <4>1, <4>2
    <3> QED
      BY <1>2, <2>1, <2>2, <3>1 DEF OthersStay
  <2>3. CASE Born(t, c)
    <3>1. \A p \in Procs : t \in Carried(p)'
                             => job'[p].kind \in {"add", "assign"} /\ job'[p].at = "set"
      BY <1>1, <2>1, <2>3 DEF Born, OthersCarry, OthersStay
    <3> QED
      BY <1>1, <2>3, <3>1 DEF Born, NewOK
  <2> QED
    BY <1>3, <1>5, <2>2, <2>3, CommandMoves
<1>6. ASSUME NEW a \in Agents, AgentStep(a) PROVE NewOK(t)'
  <2>1. OthersStay(a) /\ Fewer(t) /\ OwnOK(a) /\ a \in Procs
    BY <1>3, <1>6, AgentIs, AgentMoves DEF OwnJobs, Procs
  <2>2. t \notin Carried(a)'
    BY <1>1, <1>6, <2>1, AgentCarries DEF OwnOK, Own
  <2> QED
    BY <1>2, <2>1, <2>2 DEF OthersStay
<1>7. CASE UNCHANGED vars
  BY <1>2, <1>7, Alike DEF vars
<1> QED
  BY <1>4, <1>5, <1>6, <1>7 DEF Next

LEMMA AloneStays ==
  ASSUME TypeOK, TypeOK', Shapes, OwnJobs, Orphans, News, Alone, [Next]_vars
  PROVE  Alone'
<1> SUFFICES ASSUME NEW t \in Tasks, t \notin orphaned'
             PROVE  \E k \in PlaceKinds, w \in Holders : OnlyAt(t, k, w)'
  BY DEF Alone, AloneOK
<1>1. t \notin orphaned
  BY RecordsKept
<1>2. PICK k \in PlaceKinds, w \in Holders : OnlyAt(t, k, w)
  BY <1>1 DEF Alone, AloneOK
<1>3. CASE Fewer(t)
  BY <1>2, <1>3, FewerStays
<1>4. ASSUME NEW k0 \in PlaceKinds, Travels(t, k0)
      PROVE  \E k1 \in PlaceKinds, w1 \in Holders : OnlyAt(t, k1, w1)'
  <2>1. PICK w0 \in Holders, w1 \in Holders, k1 \in PlaceKinds :
          Holds(t, k0, w0) /\ (OnlyAt(t, k0, w0) => OnlyAt(t, k1, w1)')
    BY <1>4 DEF Travels
  <2>2. k = k0 /\ w = w0
    BY <1>2, <2>1, HeldOnlyThere
  <2> QED
    BY <1>2, <2>1, <2>2
<1>5. ASSUME NEW c \in Clients, Born(t, c)
      PROVE  \E k1 \in PlaceKinds, w1 \in Holders : OnlyAt(t, k1, w1)'
  <2>1. /\ tasks[t].state = "New" /\ \A p \in Procs : job[p].task # t
        /\ UNCHANGED <<backlog, inbox, hand>>
        /\ OthersCarry(c) /\ c \in Procs
    BY <1>5 DEF Born, Fresh, Procs
  <2>2. /\ backlog[t] = 0 /\ \A a \in Agents : inbox[a][t] = 0 /\ t \notin hand[a]
        /\ \A p \in Procs : t \in Carried(p) => job[p].kind \in {"add", "assign"}
    BY <2>1 DEF News, NewOK
  <2>3. \A p \in Procs : t \notin Carried(p)
    <3> SUFFICES ASSUME NEW p \in Procs, job[p].kind \in {"add", "assign"} PROVE t \notin Carried(p)
      BY <2>2
    <3> QED
      BY <2>1, CarriedIs DEF CarriedBy, Reclaims, TaskKinds
  <2>4. OnlyAt(t, "command", c)'
    BY <2>1, <2>2, <2>3 DEF OnlyAt, OthersCarry
  <2> QED
    BY <2>1, <2>4 DEF PlaceKinds, Holders
<1>6. {"backlog", "inbox", "hand", "command"} = PlaceKinds
  BY DEF PlaceKinds
<1>7. ASSUME NEW p \in Procs, JobStep(p)
      PROVE  Fewer(t) \/ \E k0 \in PlaceKinds : Travels(t, k0)
  BY <1>1, <1>6, <1>7, JobStepMoves
<1>8. ASSUME NEW c \in Clients, CommandBegins(c) \/ ClientCrash(c)
      PROVE  Fewer(t) \/ Born(t, c) \/ \E k0 \in PlaceKinds : Travels(t, k0)
  BY <1>6, <1>8, CommandMoves
<1>9. ASSUME NEW a \in Agents, AgentStep(a)
      PROVE  Fewer(t) \/ \E k0 \in PlaceKinds : Travels(t, k0)
  BY <1>6, <1>9, AgentMoves
<1>10. UNCHANGED vars => Fewer(t)
  BY Alike
<1> QED
  BY <1>3, <1>4, <1>5, <1>7, <1>8, <1>9, <1>10 DEF Next

LEMMA InitAlone ==
  ASSUME Init
  PROVE  News /\ Alone
<1>1. /\ \A t \in Tasks : backlog[t] = 0
      /\ \A a \in Agents, t \in Tasks : inbox[a][t] = 0 /\ t \notin hand[a]
      /\ orphaned = {} /\ \A p \in Procs, t \in Tasks : t \notin Carried(p)
  BY InitBegins DEF Init
<1>2. News
  BY <1>1 DEF News, NewOK
<1>3. ASSUME NEW t \in Tasks PROVE OnlyAt(t, "backlog", NoAgent)
  BY <1>1 DEF OnlyAt
<1> QED
  BY <1>2, <1>3 DEF Alone, AloneOK, PlaceKinds, Holders

LEMMA AloneIsOnce ==
  ASSUME TypeOK, Alone
  PROVE  HandedOutOnce
<1> SUFFICES ASSUME NEW t \in Tasks \ orphaned, NEW x \in Copies(t), NEW y \in Copies(t)
             PROVE  x = y
  BY DEF HandedOutOnce
<1>1. PICK k \in PlaceKinds, w \in Holders : OnlyAt(t, k, w)
  BY DEF Alone, AloneOK
<1>2. ASSUME NEW z \in Copies(t) PROVE z = <<k, w, 1>>
  <2>1. CASE z \in {<<"backlog", NoAgent, n>> : n \in 1 .. backlog[t]}
    <3>1. PICK n \in 1 .. backlog[t] : z = <<"backlog", NoAgent, n>>
      BY <2>1
    <3>2. n = 1 /\ backlog[t] > 0
      BY <1>1, <3>1 DEF OnlyAt, TypeOK
    <3> QED
      BY <1>1, <3>1, <3>2 DEF OnlyAt
  <2>2. CASE z \in {<<"hand", a, 1>> : a \in {a \in Agents : t \in hand[a]}}
    <3>1. PICK a \in Agents : t \in hand[a] /\ z = <<"hand", a, 1>>
      BY <2>2
    <3> QED
      BY <1>1, <3>1 DEF OnlyAt
  <2>3. CASE z \in {<<"command", p, 1>> : p \in {p \in Procs : t \in Carried(p)}}
    <3>1. PICK p \in Procs : t \in Carried(p) /\ z = <<"command", p, 1>>
      BY <2>3
    <3> QED
      BY <1>1, <3>1 DEF OnlyAt
  <2>4. CASE z \in UNION {{<<"inbox", a, n>> : n \in 1 .. inbox[a][t]} :
                            a \in {a \in Agents : status[a] # "missing"}}
    <3>1. PICK a \in Agents : z \in {<<"inbox", a, n>> : n \in 1 .. inbox[a][t]}
      BY <2>4
    <3>2. PICK n \in 1 .. inbox[a][t] : z = <<"inbox", a, n>>
      BY <3>1
    <3>3. n = 1 /\ inbox[a][t] > 0
      BY <1>1, <3>2 DEF OnlyAt, TypeOK
    <3> QED
      BY <1>1, <3>2, <3>3 DEF OnlyAt
  <2> QED
    BY <1>2, <2>1, <2>2, <2>3, <2>4 DEF Copies
<1> QED
  BY <1>2

LEMMA OnePlace == Spec => [](News /\ Alone)
<1>1. (TypeOK /\ Shapes) /\ (TypeOK /\ Shapes)' /\ (OwnJobs /\ Orphans) /\ (News /\ Alone)
        /\ [Next]_vars
      => (News /\ Alone)'
  BY NewsStay, AloneStays
<1>2. Init => News /\ Alone
  BY InitAlone
<1> QED
  BY <1>1, <1>2, WellFormed, Commands, PTL DEF Spec

\* No task is in two places, so no two agents work on it.
THEOREM TaskHandedOutOnce == Spec => []HandedOutOnce
<1>1. TypeOK /\ Shapes /\ (News /\ Alone) => HandedOutOnce
  BY AloneIsOnce
<1> QED
  BY <1>1, WellFormed, OnePlace, PTL

----------------------------------------------------------------------------
(* A finished task stays finished *)

\* Nobody will write its record again, but the agent that may still be at it.
OverOK(t) ==
  t \notin orphaned \cup reopened \cup elsewhere /\ tasks[t].state \in Finished =>
    /\ backlog[t] = 0 /\ \A a \in Agents : inbox[a][t] = 0
    /\ \A p \in Procs : /\ t \notin Carried(p)
                        /\ job[p].kind = "start" /\ job[p].at = "set" => job[p].task # t

Over == \A t \in Tasks : OverOK(t)

\* Who could write the record of a finished task, can only finish it.
LEMMA WritesOver ==
  ASSUME TypeOK, Shapes, OwnJobs, Orphans, Over, [Next]_vars,
         NEW t \in Tasks, t \notin orphaned, t \notin reopened', t \notin elsewhere,
         tasks[t].state \in Finished
  PROVE  tasks'[t].state \in Finished
<1>1. t \notin orphaned \cup reopened \cup elsewhere /\ OverOK(t)
  BY RecordsKept DEF Over
<1>2. CASE tasks'[t] = tasks[t]
  BY <1>2
<1>3. ASSUME NEW p \in Procs, job[p].task = t, Set(p), tasks'[t] = job[p].draft
      PROVE  tasks'[t].state \in Finished
  <2>1. ShapeOK(job[p]) /\ job[p].at = "set" /\ t \notin Carried(p) /\ t # NoTask
    BY <1>1, <1>3, TaskBoardConstants DEF Set, Shapes, OverOK
  <2>2. job[p].kind \notin TaskKinds
    BY <1>3, <2>1, CarriedIs DEF CarriedBy, TaskKinds, Reclaims
  <2>3. job[p].kind # "start"
    BY <1>1, <1>3, <2>1 DEF OverOK
  <2>4. job[p].kind # "giveback"
    BY <1>3 DEF Set, Finished
  <2>5. job[p].kind \in {"complete", "cancel"}
    BY <2>1, <2>2, <2>3, <2>4 DEF ShapeOK, StepOK, Own
  <2> QED
    BY <1>3, <2>1, <2>5 DEF ShapeOK, DraftOK, Finished
<1>4. ASSUME NEW p \in Procs, job[p].task = t, Put(p), job[p].kind \in {"remove", "delete"}
      PROVE  FALSE
  <2>1. job[p].at = "put" /\ t \notin Carried(p)
    BY <1>1, <1>4 DEF Put, OverOK
  <2>2. job[p].kind = "delete"
    BY <1>4, <2>1, PutCarries
  <2>3. t \in orphaned
    BY <1>4, <2>1, <2>2 DEF Orphans, OrphanOK, OrphanActions
  <2> QED
    BY <1>1, <2>3
<1> QED
  BY <1>2, <1>3, <1>4, RecordsKept

\* A task that is finished now, by whomever, is in the hand of an agent at work on it.
LEMMA FinishedInHand ==
  ASSUME TypeOK, Shapes, OwnJobs, Orphans, Alone, NEW t \in Tasks, t \notin orphaned,
         NEW p \in Procs, Set(p), job[p].task = t, job[p].draft.state \in Finished,
         tasks[t].state \notin Finished, t \notin elsewhere'
  PROVE  /\ backlog[t] = 0 /\ \A a \in Agents : inbox[a][t] = 0
         /\ \A q \in Procs : /\ t \notin Carried(q)
                             /\ job[q].kind = "start" /\ job[q].at = "set" => job[q].task # t
<1>1. ShapeOK(job[p]) /\ job[p].at = "set"
  BY DEF Shapes, Set
<1>2. job[p].kind \in {"complete", "cancel"}
  BY <1>1 DEF ShapeOK, DraftOK, Finished, Open
<1>3. job[p].kind # "cancel"
  BY <1>1 DEF Orphans, OrphanOK, OrphanActions
<1>4. PICK b \in Agents :
        t \in hand[b] /\ ~(job[b].kind = "start" /\ job[b].at = "set" /\ job[b].task = t)
  <2>1. AtWork(t)
    BY <1>2, <1>3 DEF Set
  <2> QED
    BY <2>1 DEF AtWork
<1>5. PICK k \in PlaceKinds, w \in Holders : OnlyAt(t, k, w)
  BY DEF Alone, AloneOK
<1>6. k = "hand" /\ w = b
  BY <1>4, <1>5 DEF OnlyAt
<1>7. backlog[t] = 0 /\ \A a \in Agents : inbox[a][t] = 0
  BY <1>5, <1>6 DEF OnlyAt, TypeOK
<1>8. ASSUME NEW q \in Procs PROVE t \notin Carried(q)
  BY <1>5, <1>6 DEF OnlyAt
<1>9. ASSUME NEW q \in Procs, job[q].kind = "start", job[q].at = "set", job[q].task = t
      PROVE  FALSE
  <2>1. q \in Agents /\ t \in hand[q]
    BY <1>9 DEF OwnJobs, OwnOK, Own, Procs
  <2>2. q = b
    BY <1>5, <1>6, <2>1 DEF OnlyAt
  <2> QED
    BY <1>4, <1>9, <2>2
<1> QED
  BY <1>7, <1>8, <1>9

\* Only Get makes a command about to write that a task is started.
LEMMA NoStart ==
  ASSUME TypeOK, Shapes, OwnJobs, [Next]_vars, NEW q \in Procs,
         job'[q].kind = "start", job'[q].at = "set"
  PROVE  \/ job[q].kind = "start" /\ job[q].at = "set" /\ job[q].task = job'[q].task
         \/ tasks[job'[q].task].state \in {"Pending", "Assigned"}
<1>1. CASE job'[q] = job[q]
  BY <1>1
<1>2. ASSUME NEW p \in Procs, JobStep(p), job'[q] # job[q]
      PROVE  tasks[job'[q].task].state \in {"Pending", "Assigned"}
  <2>1. p = q
    BY <1>2, JobStepIs DEF OthersStay
  <2>2. job[q].kind = "start"
    BY <1>2, <2>1, JobStepIs, NoJobIs
  <2>3. Get(q)
    <3>1. ~ Set(q) /\ ~ Put(q) /\ ~ Find(q)
      BY <2>1, SetAt, PutAt, FindAt
    <3> QED
      BY <1>2, <2>1, <2>2, <3>1, NoJobIs, OneJob
         DEF JobStep, Pop, Drain, Scan, Pick, End, OrphanActions, Shapes, ShapeOK, Reclaims
  <2>4. job'[q].task = job[q].task /\ Applies(job[q].kind, tasks[job[q].task])
    BY <2>3, GetAt
  <2> QED
    BY <2>2, <2>4 DEF Applies
<1>3. ASSUME NEW c \in Clients, CommandBegins(c) \/ ClientCrash(c) PROVE job'[q] = job[q]
  BY <1>3, CommandIs DEF OthersStay, Procs
<1>4. ASSUME NEW a \in Agents, AgentStep(a) PROVE job'[q] = job[q]
  <2>1. CASE q # a
    BY <1>4, <2>1, AgentIs DEF OthersStay
  <2>2. CASE q = a
    <3>1. CASE Receive(a)
      BY <2>2, <3>1, ReceiveAt
    <3>2. ASSUME NEW t \in Tasks, Complete(a, t) PROVE FALSE
      BY <2>2, <3>2, CompleteAt
    <3>3. CASE RoundFails(a)
      BY <2>2, <3>3, RoundFailsAt
    <3>4. CASE AgentCrash(a)
      BY <2>2, <3>4, NoJobIs, OneJob DEF AgentCrash
    <3> QED
      BY <1>4, <2>2, <3>1, <3>2, <3>3, <3>4 DEF AgentStep, RoundEnds, Stop, Restart, Prune
  <2> QED
    BY <2>1, <2>2
<1>5. CASE UNCHANGED vars
  BY <1>1, <1>5 DEF vars
<1> QED
  BY <1>1, <1>2, <1>3, <1>4, <1>5 DEF Next

LEMMA OverStays ==
  ASSUME TypeOK, TypeOK', Shapes, OwnJobs, Orphans, News, Alone, Over, [Next]_vars
  PROVE  Over'
<1> SUFFICES ASSUME NEW t \in Tasks, t \notin orphaned' \cup reopened' \cup elsewhere',
                    tasks'[t].state \in Finished
             PROVE  OverOK(t)'
  BY DEF Over, OverOK
<1>1. /\ t \notin orphaned /\ t \notin reopened /\ t \notin reopened'
      /\ t \notin elsewhere /\ t \notin elsewhere'
  BY RecordsKept
<1>2. ASSUME backlog[t] = 0, \A a \in Agents : inbox[a][t] = 0,
             \A q \in Procs : /\ t \notin Carried(q)
                              /\ job[q].kind = "start" /\ job[q].at = "set" => job[q].task # t,
             Fewer(t), tasks[t].state \notin {"Pending", "Assigned"}
      PROVE  OverOK(t)'
  <2>1. backlog'[t] \in Nat /\ \A a \in Agents : inbox'[a][t] \in Nat
    BY DEF TypeOK
  <2>2. backlog'[t] = 0 /\ \A a \in Agents : inbox'[a][t] = 0
    BY <1>2, <2>1 DEF Fewer
  <2>3. \A q \in Procs : t \notin Carried(q)'
    BY <1>2 DEF Fewer
  <2>4. \A q \in Procs : job'[q].kind = "start" /\ job'[q].at = "set" => job'[q].task # t
    BY <1>2, NoStart
  <2> QED
    BY <2>2, <2>3, <2>4 DEF OverOK
<1>3. CASE tasks[t].state \in Finished
  <2>1. /\ backlog[t] = 0 /\ \A a \in Agents : inbox[a][t] = 0
        /\ \A q \in Procs : /\ t \notin Carried(q)
                            /\ job[q].kind = "start" /\ job[q].at = "set" => job[q].task # t
    BY <1>1, <1>3 DEF Over, OverOK
  <2>2. ~ Travels(t, "backlog") /\ ~ Travels(t, "inbox") /\ ~ Travels(t, "command")
    BY <2>1 DEF Travels, Holds
  <2>3. \A c \in Clients : ~ Born(t, c)
    BY <1>3 DEF Born, Fresh, Finished
  <2>4. Fewer(t)
    BY <1>1, <1>3, <2>2, <2>3, JobStepMoves, CommandMoves, AgentMoves, Alike DEF Next
  <2>5. tasks[t].state \notin {"Pending", "Assigned"}
    BY <1>3 DEF Finished
  <2> QED
    BY <1>2, <2>1, <2>4, <2>5
<1>4. CASE tasks[t].state \notin Finished
  <2>1. PICK p \in Procs : job[p].task = t /\ Set(p) /\ tasks'[t] = job[p].draft
    <3>1. Nothing.state \notin Finished /\ tasks'[t] # tasks[t]
      BY <1>4 DEF Nothing, Finished
    <3> QED
      BY <3>1, RecordsKept
  <2>2. /\ backlog[t] = 0 /\ \A a \in Agents : inbox[a][t] = 0
        /\ \A q \in Procs : /\ t \notin Carried(q)
                            /\ job[q].kind = "start" /\ job[q].at = "set" => job[q].task # t
    BY <1>1, <1>4, <2>1, FinishedInHand
  <2>3. OthersCarry(p) /\ Carried(p)' = Carried(p) /\ UNCHANGED <<backlog, inbox, hand>>
    BY <2>1, SetCarries DEF Set
  <2>4. OthersStay(p) /\ job'[p].at # "set"
    BY <2>1, SetAt
  <2> QED
    BY <2>2, <2>3, <2>4 DEF OverOK, OthersCarry, OthersStay
<1> QED
  BY <1>3, <1>4

LEMMA FinishedIsOver == Spec => []Over
<1>1. Init => Over
  BY InitBegins DEF Over, OverOK, Finished
<1>2. (TypeOK /\ Shapes) /\ (TypeOK /\ Shapes)' /\ (OwnJobs /\ Orphans) /\ (News /\ Alone)
        /\ Over /\ [Next]_vars
      => Over'
  BY OverStays
<1> QED
  BY <1>1, <1>2, WellFormed, Commands, OnePlace, PTL DEF Spec

\* A finished task stays finished, whoever completed it, unless a reclaim took it for
\* an orphan, a failed round gave it back, or it was completed before its agent was at
\* work on it.
THEOREM FinishedTaskStays == Spec => FinishedStays
<1>1. TypeOK /\ Shapes /\ (OwnJobs /\ Orphans) /\ Over /\ [Next]_vars
      => [\A t \in Tasks \ (orphaned \cup reopened' \cup elsewhere) :
            tasks[t].state \in Finished => tasks'[t].state \in Finished]_vars
  BY WritesOver
<1> QED
  BY <1>1, WellFormed, Commands, FinishedIsOver, PTL DEF Spec, FinishedStays
=============================================================================
