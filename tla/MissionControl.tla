--------------------------- MODULE MissionControl ---------------------------
(***************************************************************************)
(* One mission record and everybody who writes it: the dispatchers with    *)
(* their lease (src/mission/dispatcher.rs, storage.rs), the scheduler ticks *)
(* that run without it, and the commands and handlers that start, stop,    *)
(* resume, pause, annotate, complete and delete a mission (src/main.rs,    *)
(* src/app/mcp/tools.rs, src/app/server.rs).                               *)
(*                                                                         *)
(* Module Mission takes whole handlers as steps. Here a step is one access *)
(* to Redis: a handler reads the record, changes its copy, and writes the  *)
(* whole copy back, whatever has become of the record in between.          *)
(***************************************************************************)
EXTENDS Integers, FiniteSets

CONSTANTS
  Dispatchers,  \* processes in `tt mission dispatch`
  Operators,    \* processes that run one command or request after the other
  Items,        \* the work items the mission is compiled to
  Notes,        \* control notes there can be; their order is that of their age
  Free,         \* the lock's value when nobody holds it
  Dead,         \* the token of a process that is no more
  Commands,     \* the commands an instance admits
  MaxCommands,  \* bound: how many of them are given, after the start
  MaxAccidents  \* bound: crashes and leases that run out under their holder

Procs == Dispatchers \cup Operators

ASSUME MissionControlConstants ==
  /\ Dispatchers \cap Operators = {}
  /\ Free \notin Procs /\ Dead \notin Procs /\ Free # Dead
  /\ Notes \subseteq Nat
  /\ MaxCommands \in Nat /\ MaxAccidents \in Nat

VARIABLES
  record,    \* the state in the mission record
  active,    \* whether the mission is in the active set
  items,     \* the work item records
  tasks,     \* how many tasks each item has been handed out as
  watch,     \* the mission's pull request watch
  notes,     \* each control note: what it says while it is pending, "unsent", "processed" or "gone"
  lock,      \* who holds the dispatch lock
  job,       \* what each process is doing
  past,      \* what has happened, for the properties
  commands,  \* commands still to come
  accidents  \* accidents still to come

bounds == <<commands, accidents>>
vars == <<record, active, items, tasks, watch, notes, lock, job, past, bounds>>

----------------------------------------------------------------------------
(* The record *)

MissionState == {"Absent", "Running", "Blocked", "Completed", "Failed"}

Terminal == {"Completed", "Failed"}

\* Wrong on purpose: a failed mission can be resumed.
CanResumeTerminal(state) == state \in {"Blocked", "Failed"}

CanResume(state) == state = "Blocked"

CanPause(state) == state = "Running"

\* A note that says none of these is like a redirect that fails: it changes nothing.
Bodies == {"resume", "redirect", "pause"}

\* The notes that are pending, as they are read: each with what it says.
Pending == {<<n, notes[n]>> : n \in {n \in Notes : notes[n] \in Bodies}}

----------------------------------------------------------------------------
(* Processes *)

\* draft: the copy of the record to be written, read: the state and the membership of
\* the mission when it was read;
\* todo, took: notes to go through and notes that are in the draft;
\* hand: items to be saved or handed out.
Idle ==
  [at |-> "idle", cmd |-> "none", draft |-> "Absent", read |-> <<"Absent", FALSE>>,
   todo |-> {}, took |-> {}, hand |-> {}]

At(p, at) == job[p].at = at

\* Process p goes on at the given step, with nothing in its hands.
Moves(p, at) ==
  job' = [job EXCEPT ![p] =
            IF at = "idle" THEN Idle ELSE [Idle EXCEPT !.at = at, !.cmd = job[p].cmd]]

Begins(p, cmd, at) == job' = [job EXCEPT ![p] = [Idle EXCEPT !.at = at, !.cmd = cmd]]

Seen == <<record, active>>

\* It goes on with a copy of the record, which it changes to r.
Drafts(p, cmd, at, r) ==
  job' = [job EXCEPT ![p] =
            [Idle EXCEPT !.at = at, !.cmd = cmd, !.draft = r, !.read = Seen]]

\* Where a process is while it believes to hold the lease.
Leased == {"note", "save_notes", "watch", "github", "sched", "hand",
           "save_sched", "remove_sched", "tick", "save_tick", "release"}

\* A tick of the scheduler alone runs through some of these steps without it.
Unleased == {"start", "finish"}

Inside(p) == job[p].at \in Leased /\ job[p].cmd \notin Unleased

----------------------------------------------------------------------------
(* Commands *)

Init ==
  /\ record = "Absent"
  /\ active = FALSE
  /\ items = [i \in Items |-> "unsaved"]
  /\ tasks = [i \in Items |-> 0]
  /\ watch = "absent"
  /\ notes = [n \in Notes |-> "unsent"]
  /\ lock = Free
  /\ job = [p \in Procs |-> Idle]
  /\ past = [outlived |-> {}, overrun |-> FALSE, mislaid |-> FALSE, raced |-> {},
             redirects |-> [i \in Items |-> 0]]
  /\ commands = MaxCommands + 1
  /\ accidents = MaxAccidents

Gives(p, cmd) ==
  /\ p \in Operators
  /\ At(p, "idle")
  /\ commands > 0
  /\ commands' = commands - 1

\* `tt mission start` and mission.start make a record that nobody has seen before.
Start(p) ==
  /\ commands = MaxCommands + 1
  /\ Gives(p, "start")
  /\ Drafts(p, "start", "save", "Running")
  /\ UNCHANGED <<record, active, items, tasks, watch, notes, lock, past, accidents>>

\* Wrong on purpose: a stopped mission gets a state nobody knows.
ChangedByWord(cmd) ==
  CASE cmd = "resume"   -> "Running"
    [] cmd = "stop"     -> "Stopped"
    [] cmd = "fail"     -> "Failed"
    [] cmd = "complete" -> "Completed"
    [] OTHER            -> record

\* What a command does to its copy of the record.
Changed(cmd) ==
  CASE cmd = "resume"   -> "Running"
    [] cmd = "stop"     -> "Blocked"
    [] cmd = "fail"     -> "Failed"
    [] cmd = "complete" -> "Completed"
    [] OTHER            -> record

\* The states in which it goes on. Stopping and failing ask for none.
Admits(cmd) ==
  CASE cmd \in {"resume", "mcp_resume"} -> CanResume(record)
    [] cmd = "mcp_pause"                -> CanPause(record)
    [] cmd = "complete"                 -> record \notin {"Absent", "Completed"}
    [] OTHER                            -> record # "Absent"

\* The handlers that read the record in order to write it.
Command(p, cmd) ==
  /\ Gives(p, cmd)
  /\ commands <= MaxCommands
  /\ Admits(cmd)
  /\ Drafts(p, cmd, "save", Changed(cmd))
  /\ UNCHANGED <<record, active, items, tasks, watch, notes, lock, past, accidents>>

\* mission.note and mission.input leave the record alone.
McpNote(p) ==
  /\ Gives(p, "mcp_note")
  /\ commands <= MaxCommands
  /\ record # "Absent"
  /\ Begins(p, "mcp_note", "put")
  /\ UNCHANGED <<record, active, items, tasks, watch, notes, lock, past, accidents>>

\* mission.dispatch and `tt mission dispatch --once --run`: one tick, for this mission.
DispatchOnce(p) ==
  /\ Gives(p, "dispatch")
  /\ commands <= MaxCommands
  /\ record # "Absent"
  /\ Begins(p, "dispatch", "lock")
  /\ UNCHANGED <<record, active, items, tasks, watch, notes, lock, past, accidents>>

\* DELETE of a mission: its keys at once, then its place in the active set.
Delete(p) ==
  /\ Gives(p, "delete")
  /\ commands <= MaxCommands
  /\ record # "Absent"
  /\ record' = "Absent"
  /\ items' = [i \in Items |-> "unsaved"]
  /\ watch' = "absent"
  /\ notes' = [n \in Notes |-> IF notes[n] = "unsent" THEN "unsent" ELSE "gone"]
  /\ Begins(p, "delete", "remove")
  /\ UNCHANGED <<active, tasks, lock, past, accidents>>

\* An agent completes the task of an item, and the command ticks the scheduler.
FinishItem(p, i) ==
  /\ p \in Operators
  /\ At(p, "idle")
  /\ items[i] = "out"
  /\ items' = [items EXCEPT ![i] = "done"]
  /\ IF active THEN Begins(p, "finish", "sched") ELSE UNCHANGED job
  /\ UNCHANGED <<record, active, tasks, watch, notes, lock, past, bounds>>

\* A submission, the item's first or that of a fix, makes the item wait again. One with a
\* pull request opens the watch, and opens it again whatever has become of it.
Submit(i) ==
  /\ items[i] \in {"out", "done"}
  /\ items' = [items EXCEPT ![i] = "out"]
  /\ watch' \in {watch, "Active"}
  /\ UNCHANGED <<record, active, tasks, notes, lock, job, past, bounds>>

----------------------------------------------------------------------------
(* Writing *)

AfterSched(p) == IF job[p].cmd \in Unleased THEN "idle" ELSE "tick"

\* Wrong on purpose: a resumed mission is not put back into the active set.
AfterSaveWithoutAdding(p) ==
  CASE job[p].at = "save_notes" -> "watch"
    [] job[p].at = "save_tick"  -> "release"
    [] job[p].at = "save_sched" ->
         IF job[p].draft = "Completed" THEN "remove_sched" ELSE AfterSched(p)
    [] job[p].at = "save" /\ job[p].cmd = "start" -> "add"
    [] job[p].at = "save" /\ job[p].cmd = "resume" -> "idle"
    [] job[p].at = "save" /\ job[p].cmd \in {"stop", "fail", "complete"} -> "remove"
    [] OTHER -> "put"

\* What follows the write of the record.
AfterSave(p) ==
  CASE job[p].at = "save_notes" -> "watch"
    [] job[p].at = "save_tick"  -> "release"
    [] job[p].at = "save_sched" ->
         IF job[p].draft = "Completed" THEN "remove_sched" ELSE AfterSched(p)
    [] job[p].at = "save" /\ job[p].cmd \in {"start", "resume"} -> "add"
    [] job[p].at = "save" /\ job[p].cmd \in {"stop", "fail", "complete"} -> "remove"
    [] OTHER -> "put"

\* Whether others have been at work since p read the record.
Overtaken(p) == job[p].read # Seen

\* Wrong on purpose: a copy that was overtaken is thrown away.
SaveUnlessOvertaken(p) ==
  /\ job[p].at \in {"save", "save_notes", "save_sched", "save_tick"}
  /\ record' = IF Overtaken(p) THEN record ELSE job[p].draft
  /\ IF AfterSave(p) \in {"remove", "remove_sched"}
     THEN job' = [job EXCEPT ![p].at = AfterSave(p)]
     ELSE Moves(p, AfterSave(p))
  /\ UNCHANGED <<active, items, tasks, watch, notes, lock, past, bounds>>

\* save_mission sets the whole record. It may undo what others did since it was read,
\* or set going a mission that is not in the active set, for a note's sake.
SaveRecord(p) ==
  /\ job[p].at \in {"save", "save_notes", "save_sched", "save_tick"}
  /\ record' = job[p].draft
  /\ past' = [past EXCEPT !.mislaid = @ \/ (job[p].draft = "Running"
                            /\ (Overtaken(p) \/ (job[p].took # {} /\ ~ active)))]
  /\ IF AfterSave(p) \in {"remove", "remove_sched"}
     THEN job' = [job EXCEPT ![p].at = AfterSave(p)]
     ELSE Moves(p, AfterSave(p))
  /\ UNCHANGED <<active, items, tasks, watch, notes, lock, bounds>>

\* The start goes on with its items.
AddActive(p) ==
  /\ At(p, "add")
  /\ active' = TRUE
  /\ past' = [past EXCEPT !.mislaid = FALSE]
  /\ job' = [job EXCEPT ![p] =
              IF job[p].cmd = "start"
              THEN [Idle EXCEPT !.at = "items", !.cmd = "start", !.hand = Items] ELSE Idle]
  /\ UNCHANGED <<record, items, tasks, watch, notes, lock, bounds>>

\* The last step of a stop, which may come after somebody has set the record again.
RemoveActive(p) ==
  /\ job[p].at \in {"remove", "remove_sched"}
  /\ active' = FALSE
  /\ past' = [past EXCEPT !.mislaid = @ \/ record # job[p].draft]
  /\ Moves(p, IF At(p, "remove") THEN "idle" ELSE AfterSched(p))
  /\ UNCHANGED <<record, items, tasks, watch, notes, lock, bounds>>

\* The start saves its items one by one and then ticks the scheduler.
SaveItem(p) ==
  /\ At(p, "items")
  /\ \E i \in job[p].hand :
       /\ items' = [items EXCEPT ![i] = "ready"]
       /\ job' = [job EXCEPT ![p].hand = @ \ {i}]
  /\ UNCHANGED <<record, active, tasks, watch, notes, lock, past, bounds>>

ItemsSaved(p) ==
  /\ At(p, "items")
  /\ job[p].hand = {}
  /\ Moves(p, IF active THEN "sched" ELSE "idle")
  /\ UNCHANGED <<record, active, items, tasks, watch, notes, lock, past, bounds>>

Body(cmd) ==
  CASE cmd = "mcp_pause" -> {"pause"} [] cmd = "mcp_resume" -> {"resume"} [] OTHER -> Bodies

\* The note is saved. mission.pause and mission.resume go on with a tick of their own.
PutNote(p) ==
  /\ At(p, "put")
  /\ \E n \in Notes, body \in Body(job[p].cmd) :
       /\ notes[n] = "unsent"
       /\ notes' = [notes EXCEPT ![n] = body]
  /\ Moves(p, IF job[p].cmd \in {"mcp_pause", "mcp_resume"} THEN "lock" ELSE "idle")
  /\ UNCHANGED <<record, active, items, tasks, watch, lock, past, bounds>>

\* mission.resume looks at what came of it.
Check(p) ==
  /\ At(p, "check")
  /\ Moves(p, IF record = "Running" THEN "add" ELSE "idle")
  /\ UNCHANGED <<record, active, items, tasks, watch, notes, lock, past, bounds>>

----------------------------------------------------------------------------
(* A tick of the dispatcher *)

AfterTick(p) == IF job[p].cmd = "mcp_resume" THEN "check" ELSE "idle"

\* Wrong on purpose: the lock is set without NX.
AcquireAnyway(p, cmd) ==
  /\ lock' = p
  /\ IF Pending = {} \/ record = "Absent"
     THEN Begins(p, cmd, "watch")
     ELSE job' = [job EXCEPT ![p] = [Idle EXCEPT !.at = "note", !.cmd = cmd,
                    !.todo = Pending, !.draft = record, !.read = Seen]]
  /\ UNCHANGED <<record, active, items, tasks, watch, notes, past, bounds>>

\* The lease is taken with SET NX EX, and process_control_messages reads the pending
\* notes and the record.
Acquire(p, cmd) ==
  /\ lock = Free
  /\ lock' = p
  /\ IF Pending = {} \/ record = "Absent"
     THEN Begins(p, cmd, "watch")
     ELSE job' = [job EXCEPT ![p] = [Idle EXCEPT !.at = "note", !.cmd = cmd,
                    !.todo = Pending, !.draft = record, !.read = Seen]]
  /\ UNCHANGED <<record, active, items, tasks, watch, notes, past, bounds>>

\* The loop looks for active missions, and takes those whose lease is free.
Poll(p) ==
  /\ p \in Dispatchers
  /\ At(p, "idle")
  /\ active
  /\ Acquire(p, "loop")

\* A tick for one mission does not ask whether it is active. Without the lease, it ends.
TickOnce(p) == At(p, "lock") /\ Acquire(p, job[p].cmd)

TickElsewhere(p) ==
  /\ At(p, "lock")
  /\ lock # Free
  /\ Moves(p, AfterTick(p))
  /\ UNCHANGED <<record, active, items, tasks, watch, notes, lock, past, bounds>>

\* What a note makes of the dispatcher's copy, redirected if it has handed an item over.
Applied(body, redirected, r) ==
  CASE body = "pause" /\ CanPause(r) -> "Blocked"
    [] (body = "resume" \/ redirected) /\ CanResume(r) -> "Running"
    [] OTHER -> r

\* The oldest of the notes that were read.
Oldest(todo) == CHOOSE a \in todo : \A b \in todo : a[1] <= b[1]

\* A note is applied to the copy and marked as processed. The copy is saved after the
\* last one.
Applies(p, note, redirected) ==
  /\ job' = [job EXCEPT ![p].draft = Applied(note[2], redirected, @), ![p].todo = @ \ {note},
                        ![p].took = @ \cup {note[1]},
                        ![p].at = IF job[p].todo = {note} THEN "save_notes" ELSE "note"]
  /\ notes' = [notes EXCEPT ![note[1]] = "processed"]

\* A resume completes the watches at once. A redirect may name what is not there, and then
\* does nothing.
ApplyNote(p) ==
  /\ At(p, "note")
  /\ LET note == Oldest(job[p].todo)
         resumes == note[2] = "resume" /\ CanResume(job[p].draft)
     IN /\ Applies(p, note, FALSE)
        /\ watch' = IF resumes /\ watch = "Active" THEN "Done" ELSE watch
  /\ UNCHANGED <<record, active, items, tasks, lock, past, bounds>>

Known == {i \in Items : items[i] # "unsaved"}

\* redirect_work_item hands an item to another agent, whatever state it is in, as a new
\* task, unless that agent has one of its tasks already.
Redirect(p) ==
  /\ At(p, "note")
  /\ record # "Absent"
  /\ LET note == Oldest(job[p].todo)
     IN note[2] = "redirect" /\ Applies(p, note, TRUE)
  /\ \E i \in Known, new \in {0, 1} :
       /\ tasks[i] + new > 0
       /\ items' = [items EXCEPT ![i] = "out"]
       /\ tasks' = [tasks EXCEPT ![i] = @ + new]
       /\ past' = [past EXCEPT !.redirects[i] = @ + new]
  /\ UNCHANGED <<record, active, watch, lock, bounds>>

\* Wrong on purpose: a watch that is done is asked about again.
ReadAnyWatch(p) ==
  /\ At(p, "watch")
  /\ Moves(p, IF watch = "absent" THEN "sched" ELSE "github")
  /\ UNCHANGED <<record, active, items, tasks, watch, notes, lock, past, bounds>>

\* A due watch is read, and GitHub asked about it, which may take its time.
ReadWatch(p) ==
  /\ At(p, "watch")
  /\ IF watch = "Active"
     THEN Moves(p, "github")
     ELSE Moves(p, "sched")
  /\ UNCHANGED <<record, active, items, tasks, watch, notes, lock, past, bounds>>

\* The watch that was read is written back, completed or to be asked again.
SaveWatch(p) ==
  /\ At(p, "github")
  /\ watch' \in {"Done", "Active"}
  /\ Moves(p, "sched")
  /\ UNCHANGED <<record, active, items, tasks, notes, lock, past, bounds>>

\* Wrong on purpose: a mission without items is complete.
AllDoneOrNone ==
  /\ \A i \in Known : items[i] = "done"
  /\ watch # "Active"

\* The mission is complete when it has items, all are done and so is the watch.
AllDone ==
  /\ Known # {}
  /\ \A i \in Known : items[i] = "done"
  /\ watch # "Active"

\* Two scheduler ticks that no lease keeps apart, the one of q under way.
Unguarded(p, q) ==
  /\ p # q
  /\ At(q, "hand")
  /\ {p, q} \cap past.outlived # {} \/ {job[p].cmd, job[q].cmd} \cap Unleased # {}

\* Everything is read: the record, which must be Running, the items and the watch.
ReadMission(p) ==
  /\ At(p, "sched")
  /\ IF record # "Running"
     THEN Moves(p, AfterSched(p)) /\ UNCHANGED past
     ELSE \E hand \in SUBSET {i \in Known : items[i] = "ready"} :
            /\ job' = [job EXCEPT ![p] =
                 [Idle EXCEPT !.at = "hand", !.cmd = job[p].cmd, !.hand = hand, !.read = Seen,
                              !.draft = IF AllDone THEN "Completed" ELSE record]]
            /\ past' = [past EXCEPT !.raced = @ \cup
                          UNION {hand \cap job[q].hand : q \in {q \in Procs : Unguarded(p, q)}}]
  /\ UNCHANGED <<record, active, items, tasks, watch, notes, lock, bounds>>

\* The items are handed out, each as a new task. The record of a mission that goes on
\* is saved if the tick found another reason for it to wait, or none any more.
HandOut(p) ==
  /\ At(p, "hand")
  /\ items' = [i \in Items |-> IF i \in job[p].hand THEN "out" ELSE items[i]]
  /\ tasks' = [i \in Items |-> tasks[i] + (IF i \in job[p].hand THEN 1 ELSE 0)]
  /\ \/ job' = [job EXCEPT ![p].at = "save_sched", ![p].hand = {}]
     \/ job[p].draft = "Running" /\ Moves(p, AfterSched(p))
  /\ UNCHANGED <<record, active, watch, notes, lock, past, bounds>>

\* At the end of the tick the record is read and written once more, to note the tick
\* and whether help was asked for.
ReadRecord(p) ==
  /\ At(p, "tick")
  /\ IF record = "Absent"
     THEN Moves(p, "release")
     ELSE Drafts(p, job[p].cmd, "save_tick", record)
  /\ UNCHANGED <<record, active, items, tasks, watch, notes, lock, past, bounds>>

\* Wrong on purpose: the token is not compared.
UnlockedBlindly(p) == Free

\* The lease is given back by whoever still holds it.
Unlocked(p) == IF lock = p THEN Free ELSE lock

Release(p) ==
  /\ At(p, "release")
  /\ lock' = Unlocked(p)
  /\ past' = [past EXCEPT !.outlived = @ \ {p}]
  /\ Moves(p, AfterTick(p))
  /\ UNCHANGED <<record, active, items, tasks, watch, notes, bounds>>

----------------------------------------------------------------------------
(* What may happen to processes and leases *)

\* The time to live of the lease of a process that is still at work, or not any more.
LeaseRunsOut ==
  /\ lock \in Procs
  /\ accidents > 0
  /\ accidents' = accidents - 1
  /\ past' = [past EXCEPT !.outlived = @ \cup {lock}, !.overrun = TRUE]
  /\ lock' = Free
  /\ UNCHANGED <<record, active, items, tasks, watch, notes, job, commands>>

\* Wrong on purpose: the lock has no time to live.
DeadLeaseStays == lock = Dead /\ FALSE /\ UNCHANGED vars

DeadLeaseRunsOut ==
  /\ lock = Dead
  /\ lock' = Free
  /\ UNCHANGED <<record, active, items, tasks, watch, notes, job, past, bounds>>

\* A process dies, or stops at an error; what it had not written is gone. Another one
\* may take its place, with a token of its own.
Crash(p) ==
  /\ accidents > 0
  /\ accidents' = accidents - 1
  /\ ~ At(p, "idle")
  /\ job' = [job EXCEPT ![p] = Idle]
  /\ lock' = IF lock = p THEN Dead ELSE lock
  /\ past' = [past EXCEPT !.outlived = @ \ {p}, !.mislaid = @ \/ At(p, "add")]
  /\ UNCHANGED <<record, active, items, tasks, watch, notes, commands>>

----------------------------------------------------------------------------

TickStep(p) ==
  \/ Poll(p)
  \/ TickOnce(p)
  \/ TickElsewhere(p)
  \/ ApplyNote(p)
  \/ Redirect(p)
  \/ ReadWatch(p)
  \/ SaveWatch(p)
  \/ ReadMission(p)
  \/ HandOut(p)
  \/ ReadRecord(p)
  \/ Release(p)

Step(p) ==
  \/ TickStep(p)
  \/ SaveRecord(p)
  \/ AddActive(p)
  \/ RemoveActive(p)
  \/ SaveItem(p)
  \/ ItemsSaved(p)
  \/ PutNote(p)
  \/ Check(p)

Order(p) ==
  \/ Start(p)
  \/ \E cmd \in Commands \cap {"resume", "stop", "fail", "complete", "note", "mcp_pause", "mcp_resume"} :
       Command(p, cmd)
  \/ "mcp_note" \in Commands /\ McpNote(p)
  \/ "dispatch" \in Commands /\ DispatchOnce(p)
  \/ "delete" \in Commands /\ Delete(p)

Next ==
  \/ \E p \in Procs : Step(p) \/ Order(p) \/ Crash(p)
  \/ \E p \in Operators, i \in Items : FinishItem(p, i)
  \/ \E i \in Items : Submit(i)
  \/ LeaseRunsOut
  \/ DeadLeaseRunsOut

Spec == Init /\ [][Next]_vars

\* A process that lives goes on, the loop comes round again, and Redis expires the
\* lease of the dead.
FairSpec ==
  /\ Spec
  /\ \A p \in Procs : WF_vars(Step(p))
  /\ WF_vars(DeadLeaseRunsOut)

----------------------------------------------------------------------------
(* Properties *)

TypeOK ==
  /\ record \in MissionState
  /\ active \in BOOLEAN
  /\ items \in [Items -> {"unsaved", "ready", "out", "done"}]
  /\ tasks \in [Items -> Nat]
  /\ watch \in {"absent", "Active", "Done"}
  /\ lock \in Procs \cup {Free, Dead}

\* Whoever works on the mission as its dispatcher holds the lease, unless it has
\* outlived it: nobody takes or gives back a lease that is another's.
LeaseIsHeld == \A p \in Procs : Inside(p) => lock = p \/ p \in past.outlived

\* A mission that is Running is in the active set, where the dispatchers and the
\* scheduler look for it, or is about to be put there. It can only get lost by a copy
\* of the record that a stop, a completion or a deletion has overtaken, by a directive
\* that is carried out on a mission that was stopped, and by a crash.
RunningIsActive ==
  record = "Running" /\ ~ active => past.mislaid \/ \E p \in Procs : At(p, "add")

\* No handler that sees a mission Completed or Failed sets it going: one that does has
\* read the record before. Only a stop takes it to Blocked.
EndedStaysEnded ==
  [][(record \in Terminal) /\ record' = "Running" =>
       \E p \in Procs : job[p].draft = record' /\ job[p].read[1] \notin Terminal]_vars

\* What a processed note asks for is written to the record before the dispatcher goes on
\* to anything else, unless it dies.
NoteReachesRecord ==
  [][\A p \in Procs : job[p].took # {} /\ job'[p].took = {} =>
       record' = job[p].draft \/ accidents' < accidents]_vars

\* No note is carried out twice, as long as no dispatcher outlives its lease.
NoteAppliedOnce ==
  [][\A p \in Procs : \A n \in job'[p].took \ job[p].took :
       notes[n] = "processed" => past.overrun]_vars

\* A note takes effect once: what a dispatcher took from it is not lost, and no other
\* takes it again.
NoteTakesEffectOnce == NoteReachesRecord /\ NoteAppliedOnce

\* A mission is not completed for want of items, before a start has saved the first of
\* them: somebody completes it by hand, or writes back that it was completed.
CompletedHasItems ==
  [][record # "Completed" /\ record' = "Completed" =>
       \/ \E i \in Items : tasks[i] > 0
       \/ \E p \in Procs : /\ At(p, "save") \/ At(p, "save_tick") \/ At(p, "save_notes")
                           /\ job[p].cmd = "complete" \/ job[p].read[1] = "Completed"]_vars

\* An item is handed out once, and once more for each directive that redirects it, be it
\* ready, handed out, done or just in the hands of another tick. There are more tasks only
\* if two ticks saw it ready at the same time, one of them without a lease or after it.
HandedOutOnce == \A i \in Items \ past.raced : tasks[i] <= 1 + past.redirects[i]

\* A watch that is Done, be it by GitHub's word or by an operator's resume, is opened again
\* by a submission only, and not by the copy of it that a dispatcher has read before, as
\* long as none outlives its lease.
WatchStaysDone ==
  [][watch = "Done" /\ watch' = "Active" =>
       past.overrun \/ \E i \in Items : Submit(i)]_vars

\* A note to an active mission is processed, through crashes and leases that run out.
NoteIsProcessed ==
  \A n \in Notes :
    (notes[n] \in Bodies /\ active) ~> (notes[n] \notin Bodies \/ ~ active)
=============================================================================
