------------------------ MODULE MissionControlProofs ------------------------
(***************************************************************************)
(* What holds of a mission record and everybody who writes it, for any      *)
(* dispatchers, operators, items, notes, commands and bounds.              *)
(*                                                                         *)
(* The first invariant, IInv, is that of the types and of the lease.       *)
(* LeaseIsHeld needs to know who never believes to hold the lease: the     *)
(* ticks of a start and of a completion run through the same steps without *)
(* it, so the invariant keeps that items are only saved by a start.        *)
(* EndedStaysEnded needs to know of every copy of the record when it was   *)
(* read, from the read to the write (Faithful), and that the start, which  *)
(* reads nothing, comes before everything else (Fresh).                    *)
(*                                                                         *)
(* The second, MoreInv, rests on the first and says what a process can     *)
(* have in its hands at which step (Course): where a draft that sets the   *)
(* mission going or completes it comes from, and which notes are in it.    *)
(* From it follow, one by one, that a Running mission is in the active     *)
(* set, that a watch and a note that were read are still as they were      *)
(* unless a dispatcher outlived its lease, and that an item is in the      *)
(* hands of one tick, because two that see it at once are either under the *)
(* lease, which one of them holds, or counted as raced.                    *)
(***************************************************************************)
EXTENDS MissionControl, NaturalsInduction, WellFoundedInduction, TLAPS

Fields(j) ==
  j = [at |-> j.at, cmd |-> j.cmd, draft |-> j.draft, read |-> j.read,
       todo |-> j.todo, took |-> j.took, hand |-> j.hand]

\* A copy that sets the mission going was read before the mission ended. While notes
\* are applied, a copy of an ended mission stays ended.
Faithful(j) ==
  /\ j.draft = "Running" => j.read[1] \notin Terminal
  /\ j.at \in {"note", "save_notes"} /\ j.read[1] \in Terminal => j.draft \in Terminal

JobOK(j) ==
  /\ Fields(j)
  /\ j.draft \in MissionState
  /\ j.hand \subseteq Items
  /\ j.at = "items" => j.cmd = "start"
  /\ Faithful(j)

JobsOK == job = [p \in Procs |-> job[p]] /\ \A p \in Procs : JobOK(job[p])

PastOK ==
  /\ past = [outlived |-> past.outlived, overrun |-> past.overrun, mislaid |-> past.mislaid,
             raced |-> past.raced, redirects |-> past.redirects]
  /\ past.redirects \in [Items -> Nat]

Believes(j) == j.at \in Leased /\ j.cmd \notin Unleased

\* Nothing is there before the start.
Fresh ==
  /\ commands \in 0 .. MaxCommands + 1
  /\ commands = MaxCommands + 1 =>
       /\ record = "Absent" /\ ~ active
       /\ \A i \in Items : items[i] = "unsaved"
       /\ \A p \in Procs : job[p].at = "idle"

IInv == TypeOK /\ JobsOK /\ PastOK /\ Fresh /\ LeaseIsHeld

\* The conjuncts of IInv that a step changes through a process.
JobInv == JobsOK /\ LeaseIsHeld

----------------------------------------------------------------------------
(* Steps of one process *)

LEMMA JobChanges ==
  ASSUME JobsOK, NEW p \in Procs, NEW j, JobOK(j), job' = [job EXCEPT ![p] = j]
  PROVE  JobsOK' /\ job'[p] = j /\ \A q \in Procs \ {p} : job'[q] = job[q]
<1>1. job'[p] = j /\ \A q \in Procs \ {p} : job'[q] = job[q]
  BY DEF JobsOK
<1>2. job' = [q \in Procs |-> job'[q]]
  BY DEF JobsOK
<1>3. \A q \in Procs : JobOK(job'[q])
  BY <1>1 DEF JobsOK
<1> QED
  BY <1>1, <1>2, <1>3 DEF JobsOK

\* The process keeps the lease if it goes on believing in it.
LEMMA Continues ==
  ASSUME JobInv, NEW p \in Procs, NEW j, JobOK(j), job' = [job EXCEPT ![p] = j],
         Believes(j) => Believes(job[p]),
         lock' = lock, past'.outlived = past.outlived
  PROVE  JobInv'
<1>1. JobsOK' /\ job'[p] = j /\ \A q \in Procs \ {p} : job'[q] = job[q]
  BY JobChanges DEF JobInv
<1>2. LeaseIsHeld'
  BY <1>1 DEF JobInv, LeaseIsHeld, Inside, Believes
<1> QED
  BY <1>1, <1>2 DEF JobInv

LEMMA IdleOK == JobOK(Idle) /\ ~ Believes(Idle)
BY DEF JobOK, Fields, Faithful, Terminal, Idle, Believes, Leased, MissionState

LEMMA MovesOn ==
  ASSUME JobInv, NEW p \in Procs, NEW at, Moves(p, at),
         at # "items", at \in Leased => job[p].at \in Leased \/ job[p].cmd \in Unleased,
         lock' = lock, past'.outlived = past.outlived
  PROVE  JobInv'
<1>1. CASE at = "idle"
  BY <1>1, IdleOK, Continues DEF Moves
<1>2. CASE at # "idle"
  <2>1. PICK j : j = [Idle EXCEPT !.at = at, !.cmd = job[p].cmd]
    OBVIOUS
  <2>2. JobOK(j) /\ j.at = at /\ j.cmd = job[p].cmd
    BY <2>1 DEF JobOK, Fields, Faithful, Terminal, Idle, MissionState
  <2>3. job' = [job EXCEPT ![p] = j]
    BY <1>2, <2>1 DEF Moves
  <2>4. Believes(j) => Believes(job[p])
    BY <2>2 DEF Believes
  <2> QED
    BY <2>2, <2>3, <2>4, Continues
<1> QED
  BY <1>1, <1>2

LEMMA BeginsOn ==
  ASSUME JobInv, NEW p \in Procs, NEW cmd, NEW at, Begins(p, cmd, at), at # "items",
         at \in Leased /\ cmd \notin Unleased => Believes(job[p]),
         lock' = lock, past'.outlived = past.outlived
  PROVE  JobInv'
<1>1. PICK j : j = [Idle EXCEPT !.at = at, !.cmd = cmd]
  OBVIOUS
<1>2. JobOK(j) /\ j.at = at /\ j.cmd = cmd
  BY <1>1 DEF JobOK, Fields, Faithful, Terminal, Idle, MissionState
<1> QED
  BY <1>1, <1>2, Continues DEF Begins, Believes

LEMMA DraftsOn ==
  ASSUME JobInv, NEW p \in Procs, NEW cmd, NEW at, NEW r \in MissionState,
         Drafts(p, cmd, at, r), at \notin {"items", "note", "save_notes"},
         r = "Running" => record \notin Terminal,
         at \in Leased /\ cmd \notin Unleased => Believes(job[p]),
         lock' = lock, past'.outlived = past.outlived
  PROVE  JobInv'
<1>1. PICK j : j = [Idle EXCEPT !.at = at, !.cmd = cmd, !.draft = r, !.read = Seen]
  OBVIOUS
<1>2. JobOK(j) /\ j.at = at /\ j.cmd = cmd
  BY <1>1 DEF JobOK, Fields, Faithful, Seen, Idle
<1> QED
  BY <1>1, <1>2, Continues DEF Drafts, Believes

----------------------------------------------------------------------------
(* The steps of a tick keep the lease apart *)

LEMMA AcquireJob ==
  ASSUME IInv, NEW p \in Procs, NEW cmd, Acquire(p, cmd)
  PROVE  JobInv'
<1>1. PICK j : JobOK(j) /\ job' = [job EXCEPT ![p] = j]
  <2>1. CASE Pending = {} \/ record = "Absent"
    <3>1. PICK j : j = [Idle EXCEPT !.at = "watch", !.cmd = cmd]
      OBVIOUS
    <3>2. JobOK(j)
      BY <3>1 DEF JobOK, Fields, Faithful, Terminal, Idle, MissionState
    <3> QED
      BY <2>1, <3>1, <3>2 DEF Acquire, Begins
  <2>2. CASE ~ (Pending = {} \/ record = "Absent")
    <3>1. PICK j : j = [Idle EXCEPT !.at = "note", !.cmd = cmd,
                          !.todo = Pending, !.draft = record, !.read = Seen]
      OBVIOUS
    <3>2. JobOK(j)
      BY <3>1 DEF JobOK, Fields, Faithful, Seen, Terminal, Idle, IInv, TypeOK
    <3> QED
      BY <2>2, <3>1, <3>2 DEF Acquire
  <2> QED
    BY <2>1, <2>2
<1>2. JobsOK' /\ \A q \in Procs \ {p} : job'[q] = job[q]
  BY <1>1, JobChanges DEF IInv
<1>3. lock = Free /\ lock' = p /\ past' = past
  BY DEF Acquire
<1>4. LeaseIsHeld'
  BY <1>2, <1>3, MissionControlConstants DEF IInv, LeaseIsHeld, Inside
<1> QED
  BY <1>2, <1>4 DEF JobInv

\* What the two steps that carry out a note have in common.
LEMMA NoteStep ==
  ASSUME PastOK, NEW p \in Procs, ApplyNote(p) \/ Redirect(p)
  PROVE  /\ job[p].at = "note" /\ record' = record /\ active' = active /\ lock' = lock
         /\ UNCHANGED bounds
         /\ past'.outlived = past.outlived /\ past'.overrun = past.overrun
         /\ past'.mislaid = past.mislaid /\ past'.raced = past.raced
         /\ \E redirected \in BOOLEAN : Applies(p, Oldest(job[p].todo), redirected)
<1>1. CASE ApplyNote(p)
  BY <1>1 DEF ApplyNote, At
<1>2. CASE Redirect(p)
  BY <1>2 DEF Redirect, At, PastOK
<1> QED
  BY <1>1, <1>2

\* What becomes of the copy.
LEMMA AppliedIs ==
  ASSUME NEW body, NEW redirected \in BOOLEAN, NEW r
  PROVE  /\ Applied(body, redirected, r) \in {r, "Running", "Blocked"}
         /\ Applied(body, redirected, r) # r => CanResume(r) \/ CanPause(r)
         /\ Applied(body, redirected, r) = "Running" => r \in {"Running", "Blocked"}
BY DEF Applied, CanResume, CanPause

LEMMA ApplyNoteJob ==
  ASSUME IInv, NEW p \in Procs, ApplyNote(p) \/ Redirect(p)
  PROVE  JobInv'
<1>1. PICK note, r :
        /\ r \in {job[p].draft, "Running", "Blocked"}
        /\ r # job[p].draft => CanResume(job[p].draft) \/ CanPause(job[p].draft)
        /\ job' = [job EXCEPT ![p].draft = r, ![p].todo = @ \ {note},
                     ![p].took = @ \cup {note[1]},
                     ![p].at = IF job[p].todo = {note} THEN "save_notes" ELSE "note"]
  <2>1. PICK redirected \in BOOLEAN : \E note : Applies(p, note, redirected)
    BY NoteStep DEF IInv
  <2>2. PICK note : Applies(p, note, redirected)
    BY <2>1
  <2>3. PICK r : r = Applied(note[2], redirected, job[p].draft)
    OBVIOUS
  <2>4. job' = [job EXCEPT ![p].draft = r, ![p].todo = @ \ {note},
                     ![p].took = @ \cup {note[1]},
                     ![p].at = IF job[p].todo = {note} THEN "save_notes" ELSE "note"]
    BY <2>2, <2>3 DEF Applies, IInv, JobsOK
  <2>5. /\ r \in {job[p].draft, "Running", "Blocked"}
        /\ r # job[p].draft => CanResume(job[p].draft) \/ CanPause(job[p].draft)
    BY <2>3, AppliedIs
  <2> QED
    BY <2>4, <2>5, Zenon
<1>2. PICK j : j = [job[p] EXCEPT !.draft = r, !.todo = @ \ {note}, !.took = @ \cup {note[1]},
                      !.at = IF job[p].todo = {note} THEN "save_notes" ELSE "note"]
  OBVIOUS
<1>3. job' = [job EXCEPT ![p] = j]
  BY <1>1, <1>2 DEF IInv, JobsOK
<1>4. JobOK(job[p]) /\ job[p].at = "note"
  BY NoteStep DEF IInv, JobsOK
<1>5. r \in MissionState
  BY <1>1, <1>4 DEF MissionState, JobOK
<1>6. r = job[p].draft \/ CanResume(job[p].draft) \/ CanPause(job[p].draft)
  BY <1>1
<1>7. Faithful(j)
  <2>1. j.draft = r /\ j.at \in {"note", "save_notes"} /\ j.read = job[p].read
    BY <1>2, <1>4 DEF JobOK, Fields
  <2>2. Faithful(job[p])
    BY <1>4 DEF JobOK
  <2> QED
    BY <1>4, <1>6, <2>1, <2>2 DEF Faithful, CanResume, CanPause, Terminal
<1>8. JobOK(j) /\ j.at \in {"note", "save_notes"} /\ j.cmd = job[p].cmd
  BY <1>2, <1>4, <1>5, <1>7 DEF JobOK, Fields
<1>9. JobInv /\ lock' = lock /\ past'.outlived = past.outlived
  BY NoteStep DEF IInv, JobInv
<1>10. Believes(j) => Believes(job[p])
  BY <1>4, <1>8 DEF Believes, Leased
<1> QED
  BY <1>3, <1>8, <1>9, <1>10, Continues

LEMMA ReadMissionJob ==
  ASSUME IInv, NEW p \in Procs, ReadMission(p)
  PROVE  JobInv'
<1>1. JobInv /\ lock' = lock /\ past'.outlived = past.outlived
  BY DEF IInv, JobInv, ReadMission, PastOK
<1>2. job[p].at = "sched"
  BY DEF ReadMission, At
<1>3. CASE Moves(p, AfterSched(p))
  <2>1. AfterSched(p) # "items"
    BY DEF AfterSched
  <2>2. job[p].at \in Leased
    BY <1>2 DEF Leased
  <2> QED
    BY <1>1, <1>3, <2>1, <2>2, MovesOn
<1>4. ASSUME record = "Running", NEW hand \in SUBSET {i \in Known : items[i] = "ready"},
             job' = [job EXCEPT ![p] =
                 [Idle EXCEPT !.at = "hand", !.cmd = job[p].cmd, !.hand = hand, !.read = Seen,
                              !.draft = IF AllDone THEN "Completed" ELSE record]]
      PROVE  JobInv'
  <2>1. PICK j : j = [Idle EXCEPT !.at = "hand", !.cmd = job[p].cmd, !.hand = hand, !.read = Seen,
                                  !.draft = IF AllDone THEN "Completed" ELSE record]
    OBVIOUS
  <2>2. hand \subseteq Items
    BY DEF Known
  <2>3. (IF AllDone THEN "Completed" ELSE record) \in MissionState
    BY DEF IInv, TypeOK, MissionState
  <2>4. j.read[1] = "Running" /\ j.at = "hand"
    BY <1>4, <2>1 DEF Seen, Idle
  <2>5. JobOK(j) /\ j.at = "hand" /\ j.cmd = job[p].cmd
    BY <2>1, <2>2, <2>3, <2>4 DEF JobOK, Fields, Faithful, Terminal, Idle
  <2>6. Believes(j) => Believes(job[p])
    BY <1>2, <2>5 DEF Believes, Leased
  <2> QED
    BY <1>1, <1>4, <2>1, <2>5, <2>6, Continues
<1> QED
  BY <1>3, <1>4 DEF ReadMission

LEMMA HandOutJob ==
  ASSUME IInv, NEW p \in Procs, HandOut(p)
  PROVE  JobInv'
<1>1. JobInv /\ lock' = lock /\ past' = past
  BY DEF IInv, JobInv, HandOut
<1>2. job[p].at = "hand" /\ job[p].at \in Leased /\ JobOK(job[p])
  BY DEF HandOut, At, Leased, IInv, JobsOK
<1>3. CASE Moves(p, AfterSched(p))
  <2>1. AfterSched(p) # "items"
    BY DEF AfterSched
  <2> QED
    BY <1>1, <1>2, <1>3, <2>1, MovesOn
<1>4. CASE job' = [job EXCEPT ![p].at = "save_sched", ![p].hand = {}]
  <2>1. PICK j : j = [job[p] EXCEPT !.at = "save_sched", !.hand = {}]
    OBVIOUS
  <2>2. job' = [job EXCEPT ![p] = j]
    BY <1>4, <2>1 DEF IInv, JobsOK
  <2>3. JobOK(j) /\ j.at = "save_sched" /\ j.cmd = job[p].cmd
    BY <1>2, <2>1 DEF JobOK, Fields, Faithful
  <2>4. Believes(j) => Believes(job[p])
    BY <1>2, <2>3 DEF Believes
  <2> QED
    BY <1>1, <2>2, <2>3, <2>4, Continues
<1> QED
  BY <1>3, <1>4 DEF HandOut

LEMMA ReleaseJob ==
  ASSUME IInv, NEW p \in Procs, Release(p)
  PROVE  JobInv'
<1>1. PICK j : JobOK(j) /\ ~ Believes(j) /\ job' = [job EXCEPT ![p] = j]
  <2>1. CASE AfterTick(p) = "idle"
    BY <2>1, IdleOK DEF Release, Moves
  <2>2. CASE AfterTick(p) # "idle"
    <3>1. PICK j : j = [Idle EXCEPT !.at = "check", !.cmd = job[p].cmd]
      OBVIOUS
    <3>2. JobOK(j) /\ ~ Believes(j)
      BY <3>1 DEF JobOK, Fields, Faithful, Terminal, Idle, MissionState, Believes, Leased
    <3> QED
      BY <2>2, <3>1, <3>2 DEF Release, Moves, AfterTick
  <2> QED
    BY <2>1, <2>2
<1>2. JobsOK' /\ job'[p] = j /\ \A q \in Procs \ {p} : job'[q] = job[q]
  BY <1>1, JobChanges DEF IInv
<1>3. past'.outlived = past.outlived \ {p} /\ lock' = IF lock = p THEN Free ELSE lock
  BY DEF Release, Unlocked, IInv, PastOK
<1>4. LeaseIsHeld'
  BY <1>1, <1>2, <1>3 DEF IInv, LeaseIsHeld, Inside, Believes
<1> QED
  BY <1>2, <1>4 DEF JobInv

\* The tick goes on without a change of its copy.
LEMMA TickOnJob ==
  ASSUME IInv, NEW p \in Procs,
         TickElsewhere(p) \/ ReadWatch(p) \/ SaveWatch(p) \/ ReadRecord(p)
  PROVE  JobInv'
<1>1. JobInv /\ lock' = lock /\ past' = past
  BY DEF IInv, JobInv, TickElsewhere, ReadWatch, SaveWatch, ReadRecord
<1>2. CASE TickElsewhere(p)
  <2>1. AfterTick(p) # "items" /\ AfterTick(p) \notin Leased
    BY DEF AfterTick, Leased
  <2> QED
    BY <1>1, <1>2, <2>1, MovesOn DEF TickElsewhere
<1>3. CASE ReadWatch(p)
  <2>1. job[p].at \in Leased
    BY <1>3 DEF ReadWatch, At, Leased
  <2> QED
    BY <1>1, <1>3, <2>1, MovesOn DEF ReadWatch
<1>4. CASE SaveWatch(p)
  <2>1. job[p].at \in Leased
    BY <1>4 DEF SaveWatch, At, Leased
  <2> QED
    BY <1>1, <1>4, <2>1, MovesOn DEF SaveWatch
<1>5. CASE ReadRecord(p)
  <2>1. job[p].at \in Leased /\ record \in MissionState
    BY <1>5 DEF ReadRecord, At, Leased, IInv, TypeOK
  <2>2. CASE Moves(p, "release")
    BY <1>1, <2>1, <2>2, MovesOn
  <2>3. CASE Drafts(p, job[p].cmd, "save_tick", record)
    BY <1>1, <2>1, <2>3, DraftsOn DEF Believes, Terminal
  <2> QED
    BY <1>5, <2>2, <2>3 DEF ReadRecord
<1> QED
  BY <1>2, <1>3, <1>4, <1>5

----------------------------------------------------------------------------
(* The steps of everybody else *)

LEMMA AfterSaveIs ==
  ASSUME NEW p \in Procs, job[p].at \in {"save", "save_notes", "save_sched", "save_tick"}
  PROVE  /\ AfterSave(p) \notin {"items", "note", "save_notes"}
         /\ AfterSave(p) \in Leased => job[p].at \in Leased
BY DEF AfterSave, AfterSched, Leased

LEMMA SaveRecordJob ==
  ASSUME IInv, NEW p \in Procs, SaveRecord(p)
  PROVE  JobInv'
<1>1. JobInv /\ lock' = lock /\ past'.outlived = past.outlived /\ JobOK(job[p])
  BY DEF IInv, JobInv, SaveRecord, PastOK, JobsOK
<1>2. AfterSave(p) \notin {"items", "note", "save_notes"} /\ (AfterSave(p) \in Leased => job[p].at \in Leased)
  BY AfterSaveIs DEF SaveRecord
<1>3. CASE Moves(p, AfterSave(p))
  BY <1>1, <1>2, <1>3, MovesOn
<1>4. CASE job' = [job EXCEPT ![p].at = AfterSave(p)]
  <2>1. PICK j : j = [job[p] EXCEPT !.at = AfterSave(p)]
    OBVIOUS
  <2>2. job' = [job EXCEPT ![p] = j]
    BY <1>4, <2>1 DEF IInv, JobsOK
  <2>3. JobOK(j) /\ j.at = AfterSave(p) /\ j.cmd = job[p].cmd
    BY <1>1, <1>2, <2>1 DEF JobOK, Fields, Faithful
  <2>4. Believes(j) => Believes(job[p])
    BY <1>2, <2>3 DEF Believes
  <2> QED
    BY <1>1, <2>2, <2>3, <2>4, Continues
<1> QED
  BY <1>3, <1>4 DEF SaveRecord

LEMMA ActiveSetJob ==
  ASSUME IInv, NEW p \in Procs, AddActive(p) \/ RemoveActive(p)
  PROVE  JobInv'
<1>1. JobInv /\ lock' = lock /\ past'.outlived = past.outlived
  BY DEF IInv, JobInv, AddActive, RemoveActive, PastOK
<1>2. CASE AddActive(p)
  <2>1. CASE job[p].cmd = "start"
    <3>1. PICK j : j = [Idle EXCEPT !.at = "items", !.cmd = "start", !.hand = Items]
      OBVIOUS
    <3>2. JobOK(j) /\ ~ Believes(j)
      BY <3>1 DEF JobOK, Fields, Faithful, Terminal, Idle, MissionState, Believes, Leased
    <3> QED
      BY <1>1, <1>2, <2>1, <3>1, <3>2, Continues DEF AddActive
  <2>2. CASE job[p].cmd # "start"
    BY <1>1, <1>2, <2>2, IdleOK, Continues DEF AddActive
  <2> QED
    BY <2>1, <2>2
<1>3. CASE RemoveActive(p)
  <2>1. CASE At(p, "remove")
    BY <1>1, <1>3, <2>1, MovesOn DEF RemoveActive, Leased
  <2>2. CASE ~ At(p, "remove")
    <3>1. AfterSched(p) # "items" /\ (AfterSched(p) \in Leased => job[p].at \in Leased)
      BY <1>3, <2>2 DEF AfterSched, RemoveActive, At, Leased
    <3> QED
      BY <1>1, <1>3, <2>2, <3>1, MovesOn DEF RemoveActive
  <2> QED
    BY <2>1, <2>2
<1> QED
  BY <1>2, <1>3

LEMMA StartJob ==
  ASSUME IInv, NEW p \in Procs,
         SaveItem(p) \/ ItemsSaved(p) \/ PutNote(p) \/ Check(p)
  PROVE  JobInv'
<1>1. JobInv /\ lock' = lock /\ past' = past /\ JobOK(job[p])
  BY DEF IInv, JobInv, JobsOK, SaveItem, ItemsSaved, PutNote, Check
<1>2. CASE SaveItem(p)
  <2>1. PICK i : job' = [job EXCEPT ![p].hand = @ \ {i}]
    BY <1>2 DEF SaveItem
  <2>2. PICK j : j = [job[p] EXCEPT !.hand = @ \ {i}]
    OBVIOUS
  <2>3. job' = [job EXCEPT ![p] = j]
    BY <2>1, <2>2 DEF IInv, JobsOK
  <2>4. JobOK(j) /\ j.at = job[p].at /\ j.cmd = job[p].cmd
    BY <1>1, <2>2 DEF JobOK, Fields, Faithful
  <2>5. Believes(j) => Believes(job[p])
    BY <2>4 DEF Believes
  <2> QED
    BY <1>1, <2>3, <2>4, <2>5, Continues
<1>3. CASE ItemsSaved(p)
  <2>1. job[p].cmd \in Unleased
    BY <1>1, <1>3 DEF ItemsSaved, At, JobOK, Unleased
  <2> QED
    BY <1>1, <1>3, <2>1, MovesOn DEF ItemsSaved
<1>4. CASE PutNote(p)
  BY <1>1, <1>4, MovesOn DEF PutNote, Leased
<1>5. CASE Check(p)
  BY <1>1, <1>5, MovesOn DEF Check, Leased
<1> QED
  BY <1>2, <1>3, <1>4, <1>5

LEMMA OrderJob ==
  ASSUME IInv, NEW p \in Procs, Order(p)
  PROVE  JobInv'
<1>1. JobInv
  BY DEF IInv, JobInv
<1>2. CASE Start(p)
  <2>1. "Running" \in MissionState
    BY DEF MissionState
  <2>2. record \notin Terminal
    BY <1>2 DEF Start, IInv, Fresh, Terminal
  <2> QED
    BY <1>1, <1>2, <2>1, <2>2, DraftsOn DEF Start, Leased
<1>3. ASSUME NEW cmd, Command(p, cmd) PROVE JobInv'
  <2>1. Changed(cmd) \in MissionState
    BY DEF Changed, MissionState, IInv, TypeOK
  <2>2. Changed(cmd) = "Running" => record \notin Terminal
    BY <1>3 DEF Changed, Command, Admits, CanResume, Terminal
  <2> QED
    BY <1>1, <1>3, <2>1, <2>2, DraftsOn DEF Command, Leased
<1>4. CASE McpNote(p)
  BY <1>1, <1>4, BeginsOn DEF McpNote, Leased
<1>5. CASE DispatchOnce(p)
  BY <1>1, <1>5, BeginsOn DEF DispatchOnce, Leased
<1>6. CASE Delete(p)
  BY <1>1, <1>6, BeginsOn DEF Delete, Leased
<1> QED
  BY <1>2, <1>3, <1>4, <1>5, <1>6 DEF Order

LEMMA FinishItemJob ==
  ASSUME IInv, NEW p \in Procs, NEW i \in Items, FinishItem(p, i)
  PROVE  JobInv'
<1>1. JobInv /\ lock' = lock /\ past' = past
  BY DEF IInv, JobInv, FinishItem
<1>2. CASE Begins(p, "finish", "sched")
  BY <1>1, <1>2, BeginsOn DEF Unleased
<1>3. CASE job' = job
  BY <1>1, <1>3 DEF JobInv, JobsOK, LeaseIsHeld, Inside
<1> QED
  BY <1>2, <1>3 DEF FinishItem

LEMMA CrashJob ==
  ASSUME IInv, NEW p \in Procs, Crash(p)
  PROVE  JobInv'
<1>1. JobsOK' /\ job'[p] = Idle /\ \A q \in Procs \ {p} : job'[q] = job[q]
  BY IdleOK, JobChanges DEF IInv, Crash
<1>2. past'.outlived = past.outlived \ {p} /\ lock' = IF lock = p THEN Dead ELSE lock
  BY DEF Crash, IInv, PastOK
<1>3. LeaseIsHeld'
  BY <1>1, <1>2, IdleOK DEF IInv, LeaseIsHeld, Inside, Believes
<1> QED
  BY <1>1, <1>3 DEF JobInv

\* A lease that runs out leaves its holder to the exception of LeaseIsHeld.
LEMMA OthersJob ==
  ASSUME IInv, \/ \E i \in Items : Submit(i)
               \/ LeaseRunsOut \/ DeadLeaseRunsOut \/ UNCHANGED vars
  PROVE  JobInv'
<1>1. job' = job
  BY DEF Submit, LeaseRunsOut, DeadLeaseRunsOut, vars
<1>2. CASE LeaseRunsOut
  <2>1. past'.outlived = past.outlived \cup {lock}
    BY <1>2 DEF LeaseRunsOut, IInv, PastOK
  <2> QED
    BY <1>1, <2>1 DEF IInv, JobInv, JobsOK, LeaseIsHeld, Inside
<1>3. CASE DeadLeaseRunsOut
  BY <1>1, <1>3, MissionControlConstants
    DEF DeadLeaseRunsOut, IInv, JobInv, JobsOK, LeaseIsHeld, Inside
<1>4. CASE (\E i \in Items : Submit(i)) \/ UNCHANGED vars
  <2>1. lock' = lock /\ past' = past
    BY <1>4 DEF Submit, vars
  <2> QED
    BY <1>1, <2>1 DEF IInv, JobInv, JobsOK, LeaseIsHeld, Inside
<1> QED
  BY <1>2, <1>3, <1>4

----------------------------------------------------------------------------
(* Types *)

LEMMA StepTypes ==
  ASSUME IInv, NEW p \in Procs, Step(p)
  PROVE  TypeOK' /\ PastOK'
<1> USE DEF IInv, PastOK
<1>1. CASE Poll(p) \/ TickOnce(p)
  <2>1. PICK cmd : Acquire(p, cmd)
    BY <1>1 DEF Poll, TickOnce
  <2> QED
    BY <2>1 DEF Acquire, TypeOK, bounds
<1>2. CASE TickElsewhere(p)
  BY <1>2 DEF TickElsewhere, TypeOK
<1>3. CASE ApplyNote(p)
  BY <1>3 DEF ApplyNote, TypeOK
<1>15. CASE Redirect(p)
  <2>1. PICK i \in Known, new \in {0, 1} :
          /\ items' = [items EXCEPT ![i] = "out"]
          /\ tasks' = [tasks EXCEPT ![i] = @ + new]
          /\ past' = [past EXCEPT !.redirects[i] = @ + new]
    BY <1>15 DEF Redirect
  <2>2. i \in Items
    BY DEF Known
  <2>3. tasks' \in [Items -> Nat]
    BY <2>1, <2>2 DEF TypeOK
  <2>4. items' \in [Items -> {"unsaved", "ready", "out", "done"}]
    BY <2>1, <2>2 DEF TypeOK
  <2>5. PastOK'
    <3>1. past'.redirects = [past.redirects EXCEPT ![i] = @ + new]
      BY <2>1
    <3>2. past'.redirects \in [Items -> Nat]
      BY <3>1, <2>2
    <3>3. /\ past'.outlived = past.outlived /\ past'.overrun = past.overrun
          /\ past'.mislaid = past.mislaid /\ past'.raced = past.raced
      BY <2>1
    <3>4. past' = [outlived |-> past.outlived, overrun |-> past.overrun,
                   mislaid |-> past.mislaid, raced |-> past.raced,
                   redirects |-> [past.redirects EXCEPT ![i] = @ + new]]
      BY <2>1
    <3> QED
      BY <3>1, <3>2, <3>3, <3>4
  <2> QED
    BY <1>15, <2>3, <2>4, <2>5 DEF Redirect, TypeOK
<1>4. CASE ReadWatch(p)
  BY <1>4 DEF ReadWatch, TypeOK
<1>5. CASE SaveWatch(p)
  BY <1>5 DEF SaveWatch, TypeOK
<1>6. CASE ReadMission(p)
  <2>1. TypeOK'
    BY <1>6 DEF ReadMission, TypeOK
  <2>2. CASE UNCHANGED past
    BY <2>1, <2>2
  <2>3. ASSUME NEW hand, past' = [past EXCEPT !.raced = @ \cup hand] PROVE PastOK'
    BY <2>3
  <2> QED
    BY <1>6, <2>1, <2>2, <2>3 DEF ReadMission
<1>7. CASE HandOut(p)
  <2>1. tasks' \in [Items -> Nat]
    BY <1>7 DEF HandOut, TypeOK
  <2>2. items' \in [Items -> {"unsaved", "ready", "out", "done"}]
    BY <1>7 DEF HandOut, TypeOK
  <2> QED
    BY <1>7, <2>1, <2>2 DEF HandOut, TypeOK
<1>8. CASE ReadRecord(p)
  BY <1>8 DEF ReadRecord, TypeOK
<1>9. CASE Release(p)
  BY <1>9 DEF Release, Unlocked, TypeOK
<1>10. CASE SaveRecord(p)
  <2>1. job[p].draft \in MissionState
    BY DEF JobsOK, JobOK
  <2> QED
    BY <1>10, <2>1 DEF SaveRecord, TypeOK
<1>11. CASE AddActive(p)
  BY <1>11 DEF AddActive, TypeOK
<1>12. CASE RemoveActive(p)
  BY <1>12 DEF RemoveActive, TypeOK
<1>13. CASE SaveItem(p)
  BY <1>13 DEF SaveItem, TypeOK
<1>14. CASE ItemsSaved(p) \/ PutNote(p) \/ Check(p)
  BY <1>14 DEF ItemsSaved, PutNote, Check, TypeOK
<1> QED
  BY <1>1, <1>2, <1>3, <1>4, <1>5, <1>6, <1>7, <1>8, <1>9, <1>10, <1>11, <1>12, <1>13, <1>14, <1>15
    DEF Step, TickStep

LEMMA OtherTypes ==
  ASSUME IInv, \/ \E p \in Procs : Order(p) \/ Crash(p)
               \/ \E p \in Operators, i \in Items : FinishItem(p, i)
               \/ \E i \in Items : Submit(i)
               \/ LeaseRunsOut \/ DeadLeaseRunsOut \/ UNCHANGED vars
  PROVE  TypeOK' /\ PastOK'
<1> USE DEF IInv, PastOK
<1>1. ASSUME NEW p \in Procs, Order(p) PROVE TypeOK' /\ PastOK'
  <2>1. CASE Delete(p)
    BY <2>1 DEF Delete, TypeOK, MissionState
  <2>2. CASE ~ Delete(p)
    BY <1>1, <2>2 DEF Order, Start, Command, McpNote, DispatchOnce, TypeOK
  <2> QED
    BY <2>1, <2>2
<1>2. ASSUME NEW p \in Procs, Crash(p) PROVE TypeOK' /\ PastOK'
  BY <1>2 DEF Crash, TypeOK
<1>3. ASSUME NEW p \in Operators, NEW i \in Items, FinishItem(p, i) PROVE TypeOK' /\ PastOK'
  BY <1>3 DEF FinishItem, TypeOK
<1>4. ASSUME NEW i \in Items, Submit(i) PROVE TypeOK' /\ PastOK'
  BY <1>4 DEF Submit, TypeOK
<1>5. CASE LeaseRunsOut
  BY <1>5 DEF LeaseRunsOut, TypeOK
<1>6. CASE DeadLeaseRunsOut
  BY <1>6 DEF DeadLeaseRunsOut, TypeOK
<1>7. CASE UNCHANGED vars
  BY <1>7 DEF vars, TypeOK
<1> QED
  BY <1>1, <1>2, <1>3, <1>4, <1>5, <1>6, <1>7

LEMMA FreshStays ==
  ASSUME IInv, [Next]_vars
  PROVE  Fresh'
<1> USE MissionControlConstants DEF IInv, Fresh
<1>1. ASSUME NEW p \in Procs, Step(p) PROVE Fresh'
  <2>1. job[p].at # "idle" \/ active
    BY <1>1 DEF Step, TickStep, Poll, TickOnce, TickElsewhere, ApplyNote, Redirect, ReadWatch, SaveWatch,
      ReadMission, HandOut, ReadRecord, Release, SaveRecord, AddActive, RemoveActive, SaveItem,
      ItemsSaved, PutNote, Check, At
  <2>2. commands' = commands
    BY <1>1 DEF Step, TickStep, Poll, TickOnce, TickElsewhere, ApplyNote, Redirect, ReadWatch, SaveWatch,
      ReadMission, HandOut, ReadRecord, Release, SaveRecord, AddActive, RemoveActive, SaveItem,
      ItemsSaved, PutNote, Check, Acquire, bounds
  <2> QED
    BY <2>1, <2>2
<1>2. ASSUME NEW p \in Procs, Order(p) PROVE Fresh'
  <2>1. commands > 0 /\ commands' = commands - 1
    BY <1>2 DEF Order, Start, Command, McpNote, DispatchOnce, Delete, Gives
  <2> QED
    BY <2>1
<1>3. ASSUME NEW p \in Procs, Crash(p) PROVE Fresh'
  BY <1>3 DEF Crash, At
<1>4. ASSUME NEW p \in Operators, NEW i \in Items, FinishItem(p, i) PROVE Fresh'
  BY <1>4 DEF FinishItem, bounds
<1>5. ASSUME NEW i \in Items, Submit(i) PROVE Fresh'
  BY <1>5 DEF Submit, bounds
<1>6. CASE LeaseRunsOut \/ DeadLeaseRunsOut \/ UNCHANGED vars
  BY <1>6 DEF LeaseRunsOut, DeadLeaseRunsOut, vars, bounds
<1> QED
  BY <1>1, <1>2, <1>3, <1>4, <1>5, <1>6 DEF Next

----------------------------------------------------------------------------
(* The invariant *)

LEMMA InitOK == Init => IInv
<1> SUFFICES ASSUME Init PROVE IInv
  OBVIOUS
<1>1. TypeOK
  BY DEF Init, TypeOK, MissionState
<1>2. \A p \in Procs : job[p] = Idle
  BY DEF Init
<1>3. JobsOK
  BY <1>2, IdleOK DEF Init, JobsOK
<1>4. PastOK
  BY DEF Init, PastOK
<1>5. LeaseIsHeld
  BY <1>2, IdleOK DEF LeaseIsHeld, Inside, Believes
<1>6. Fresh
  BY <1>2, MissionControlConstants DEF Init, Fresh, Idle
<1> QED
  BY <1>1, <1>3, <1>4, <1>5, <1>6 DEF IInv

LEMMA StepJob ==
  ASSUME IInv, NEW p \in Procs, Step(p)
  PROVE  JobInv'
BY AcquireJob, ApplyNoteJob, ReadMissionJob, HandOutJob, ReleaseJob, TickOnJob,
   SaveRecordJob, ActiveSetJob, StartJob
  DEF Step, TickStep, Poll, TickOnce

LEMMA NextOK == IInv /\ [Next]_vars => IInv'
<1> SUFFICES ASSUME IInv, [Next]_vars PROVE IInv'
  OBVIOUS
<1>1. ASSUME NEW p \in Procs, Step(p) PROVE IInv'
  BY <1>1, StepJob, StepTypes, FreshStays DEF IInv, JobInv
<1>2. ASSUME NEW p \in Procs, Order(p) \/ Crash(p) PROVE IInv'
  BY <1>2, OrderJob, CrashJob, OtherTypes, FreshStays DEF IInv, JobInv
<1>3. ASSUME NEW p \in Operators, NEW i \in Items, FinishItem(p, i) PROVE IInv'
  BY <1>3, FinishItemJob, OtherTypes, FreshStays DEF IInv, JobInv, Procs
<1>4. CASE (\E i \in Items : Submit(i)) \/ LeaseRunsOut \/ DeadLeaseRunsOut \/ UNCHANGED vars
  BY <1>4, OthersJob, OtherTypes, FreshStays DEF IInv, JobInv
<1> QED
  BY <1>1, <1>2, <1>3, <1>4 DEF Next

LEMMA Invariance == Spec => []IInv
BY InitOK, NextOK, PTL DEF Spec

\* The record, the active set, the items, the watch and the lock are well typed in every
\* reachable state, whoever writes which copy when.
THEOREM TypeCorrect == Spec => []TypeOK
<1>1. IInv => TypeOK
  BY DEF IInv
<1> QED
  BY <1>1, Invariance, PTL

\* Whoever works as the dispatcher of the mission holds the lease or has outlived it: in
\* process_tick_mission nobody takes the lease of another, and with a token compared
\* nobody gives it back.
THEOREM LeaseHeld == Spec => []LeaseIsHeld
<1>1. IInv => LeaseIsHeld
  BY DEF IInv
<1> QED
  BY <1>1, Invariance, PTL

\* A mission that is Completed or Failed is set going by nobody who has seen that: the
\* resumes of the command line, the MCP tools, the HTTP server and the notes all ask for
\* Blocked. Only a copy that was read before the end can do it.
THEOREM EndedMissionStays == Spec => EndedStaysEnded
<1>1. ASSUME IInv, [Next]_vars, record \in Terminal, record' = "Running"
      PROVE  \E p \in Procs : job[p].draft = record' /\ job[p].read[1] \notin Terminal
  <2>1. record' # record
    BY <1>1 DEF Terminal
  <2>2. PICK p \in Procs : SaveRecord(p)
    BY <1>1, <2>1 DEF Next, Step, TickStep, Poll, TickOnce, Acquire, TickElsewhere, ApplyNote, Redirect,
      ReadWatch, SaveWatch, ReadMission, HandOut, ReadRecord, Release, AddActive, RemoveActive,
      SaveItem, ItemsSaved, PutNote, Check, Order, Start, Command, McpNote, DispatchOnce,
      Delete, FinishItem, Submit, LeaseRunsOut, DeadLeaseRunsOut, Crash, vars
  <2>3. job[p].draft = record'
    BY <2>2 DEF SaveRecord
  <2>4. Faithful(job[p])
    BY <1>1 DEF IInv, JobsOK, JobOK
  <2> QED
    BY <1>1, <2>3, <2>4 DEF Faithful
<1>2. IInv /\ [Next]_vars =>
        [(record \in Terminal) /\ record' = "Running" =>
           \E p \in Procs : job[p].draft = record' /\ job[p].read[1] \notin Terminal]_vars
  BY <1>1
<1> QED
  BY <1>2, Invariance, PTL DEF Spec, EndedStaysEnded

----------------------------------------------------------------------------
(* What a process can have in its hands, step by step *)

Saving == {"save", "save_notes", "save_sched", "save_tick"}

\* The steps that only those go through who take the lease.
OnLease == {"lock", "note", "save_notes", "watch", "github", "tick", "save_tick", "release"}

\* Notes are taken from those that were read, and are in the draft until it is saved. A
\* draft that sets the mission going was read so, or has a note in it, or is a start's or
\* a resume's; one that completes it is a tick's, unless it was read so or is an order.
NotesCourse(j) ==
  /\ j.took # {} => j.at \in {"note", "save_notes"}
  /\ j.at = "save_notes" => j.took # {}
  /\ j.at = "note" =>
       /\ j.todo # {} /\ j.todo \subseteq Notes \X Bodies
       /\ \A a, b \in j.todo : a[1] = b[1] => a = b

DraftCourse(j) ==
  /\ j.draft = "Running" /\ j.at \in Saving \cup {"hand"} =>
       \/ j.read[1] = "Running" \/ j.took # {}
       \/ j.at = "save" /\ j.cmd \in {"start", "resume"}
  /\ j.draft = "Running" =>
       /\ j.at \notin {"remove", "remove_sched"}
       /\ j.at = "save" => j.cmd \notin {"stop", "fail", "complete"}
  /\ j.draft = "Completed" =>
       \/ j.at \in {"hand", "save_sched", "remove_sched"}
       \/ j.at \in {"save", "remove"} /\ (j.cmd = "complete" \/ j.read[1] = "Completed")
       \/ j.at \in {"note", "save_notes", "save_tick"} /\ j.read[1] = "Completed"

Course(j) ==
  /\ j.at \in OnLease => j.cmd \notin Unleased
  /\ j.at = "check" => j.cmd = "mcp_resume"
  /\ NotesCourse(j)
  /\ DraftCourse(j)

Courses == \A p \in Procs : Course(job[p])

OthersStay(p) == \A q \in Procs \ {p} : job'[q] = job[q]

LEMMA OneJob ==
  ASSUME JobsOK, NEW p \in Procs, NEW j, job' = [job EXCEPT ![p] = j]
  PROVE  job'[p] = j /\ OthersStay(p)
BY DEF JobsOK, OthersStay

EmptyHanded(j) == j.todo = {} /\ j.took = {} /\ j.hand = {}

LEMMA IdleIs ==
  /\ Idle.at = "idle" /\ Idle.cmd = "none" /\ Idle.draft = "Absent"
  /\ EmptyHanded(Idle)
BY DEF Idle, EmptyHanded

LEMMA MovesTo ==
  ASSUME JobsOK, NEW p \in Procs, NEW at, Moves(p, at)
  PROVE  /\ job'[p].at = at /\ (at # "idle" => job'[p].cmd = job[p].cmd)
         /\ at = "idle" => job'[p].cmd = "none"
         /\ job'[p].draft = "Absent" /\ EmptyHanded(job'[p])
         /\ OthersStay(p)
<1>1. CASE at = "idle"
  BY <1>1, IdleIs, OneJob DEF Moves
<1>2. CASE at # "idle"
  <2>1. PICK j : j = [Idle EXCEPT !.at = at, !.cmd = job[p].cmd]
    OBVIOUS
  <2>2. j.at = at /\ j.cmd = job[p].cmd /\ j.draft = "Absent" /\ EmptyHanded(j)
    BY <2>1 DEF Idle, EmptyHanded
  <2>3. job'[p] = j /\ OthersStay(p)
    BY <1>2, <2>1, OneJob DEF Moves
  <2> QED
    BY <1>2, <2>2, <2>3
<1> QED
  BY <1>1, <1>2

LEMMA BeginsAt ==
  ASSUME JobsOK, NEW p \in Procs, NEW cmd, NEW at, Begins(p, cmd, at)
  PROVE  /\ job'[p].at = at /\ job'[p].cmd = cmd
         /\ job'[p].draft = "Absent" /\ EmptyHanded(job'[p])
         /\ OthersStay(p)
<1>1. PICK j : j = [Idle EXCEPT !.at = at, !.cmd = cmd]
  OBVIOUS
<1>2. j.at = at /\ j.cmd = cmd /\ j.draft = "Absent" /\ EmptyHanded(j)
  BY <1>1 DEF Idle, EmptyHanded
<1> QED
  BY <1>1, <1>2, OneJob DEF Begins

LEMMA DraftsAt ==
  ASSUME JobsOK, NEW p \in Procs, NEW cmd, NEW at, NEW r, Drafts(p, cmd, at, r)
  PROVE  /\ job'[p].at = at /\ job'[p].cmd = cmd
         /\ job'[p].draft = r /\ job'[p].read = <<record, active>> /\ EmptyHanded(job'[p])
         /\ OthersStay(p)
<1>1. PICK j : j = [Idle EXCEPT !.at = at, !.cmd = cmd, !.draft = r, !.read = Seen]
  OBVIOUS
<1>2. j.at = at /\ j.cmd = cmd /\ j.draft = r /\ j.read = <<record, active>> /\ EmptyHanded(j)
  BY <1>1 DEF Idle, EmptyHanded, Seen
<1> QED
  BY <1>1, <1>2, OneJob DEF Drafts

LEMMA AcquireAt ==
  ASSUME IInv, NEW p \in Procs, NEW cmd, Acquire(p, cmd)
  PROVE  /\ job'[p].cmd = cmd /\ job'[p].took = {} /\ job'[p].hand = {}
         /\ OthersStay(p)
         /\ \/ job'[p].at = "watch" /\ job'[p].draft = "Absent"
            \/ /\ job'[p].at = "note" /\ job'[p].draft = record
               /\ job'[p].read = <<record, active>>
               /\ job'[p].todo = Pending /\ Pending # {}
<1> USE DEF IInv
<1>1. CASE Pending = {} \/ record = "Absent"
  BY <1>1, BeginsAt DEF Acquire, EmptyHanded
<1>2. CASE ~ (Pending = {} \/ record = "Absent")
  <2>1. PICK j : j = [Idle EXCEPT !.at = "note", !.cmd = cmd,
                          !.todo = Pending, !.draft = record, !.read = Seen]
    OBVIOUS
  <2>2. /\ j.at = "note" /\ j.cmd = cmd /\ j.todo = Pending /\ j.draft = record /\ j.took = {}
        /\ j.read = <<record, active>> /\ j.hand = {}
    BY <2>1 DEF Idle, Seen
  <2>3. job'[p] = j /\ OthersStay(p)
    BY <1>2, <2>1, OneJob DEF Acquire
  <2> QED
    BY <1>2, <2>2, <2>3
<1> QED
  BY <1>1, <1>2

LEMMA ApplyNoteAt ==
  ASSUME IInv, NEW p \in Procs, ApplyNote(p) \/ Redirect(p)
  PROVE  LET note == Oldest(job[p].todo)
         IN /\ job[p].at = "note"
            /\ \E redirected \in BOOLEAN :
                 job'[p].draft = Applied(note[2], redirected, job[p].draft)
            /\ job'[p].todo = job[p].todo \ {note}
            /\ job'[p].took = job[p].took \cup {note[1]}
            /\ job'[p].at = IF job[p].todo = {note} THEN "save_notes" ELSE "note"
            /\ job'[p].cmd = job[p].cmd /\ job'[p].read = job[p].read
            /\ job'[p].hand = job[p].hand
            /\ notes' = [notes EXCEPT ![note[1]] = "processed"]
            /\ OthersStay(p)
<1> DEFINE note == Oldest(job[p].todo)
<1>0. PICK redirected \in BOOLEAN : Applies(p, note, redirected)
  BY NoteStep DEF IInv
<1>1. PICK r : /\ r = Applied(note[2], redirected, job[p].draft)
               /\ job' = [job EXCEPT ![p].draft = r, ![p].todo = @ \ {note},
                            ![p].took = @ \cup {note[1]},
                            ![p].at = IF job[p].todo = {note} THEN "save_notes" ELSE "note"]
  <2>1. PICK r : r = Applied(note[2], redirected, job[p].draft)
    OBVIOUS
  <2> HIDE DEF note
  <2>2. job' = [job EXCEPT ![p].draft = r, ![p].todo = @ \ {note},
                            ![p].took = @ \cup {note[1]},
                            ![p].at = IF job[p].todo = {note} THEN "save_notes" ELSE "note"]
    BY <1>0, <2>1 DEF Applies, IInv, JobsOK
  <2> QED
    BY <2>1, <2>2
<1>2. PICK j : j = [job[p] EXCEPT !.draft = r, !.todo = @ \ {note}, !.took = @ \cup {note[1]},
                      !.at = IF job[p].todo = {note} THEN "save_notes" ELSE "note"]
  OBVIOUS
<1>7. notes' = [notes EXCEPT ![note[1]] = "processed"]
  BY <1>0 DEF Applies
<1>8. job[p].at = "note"
  BY NoteStep DEF IInv
<1> HIDE DEF note
<1>3. job' = [job EXCEPT ![p] = j]
  BY <1>1, <1>2 DEF IInv, JobsOK
<1>4. Fields(job[p])
  BY DEF IInv, JobsOK, JobOK
<1>5. /\ j.draft = r /\ j.todo = job[p].todo \ {note} /\ j.took = job[p].took \cup {note[1]}
      /\ j.at = (IF job[p].todo = {note} THEN "save_notes" ELSE "note")
      /\ j.cmd = job[p].cmd /\ j.read = job[p].read /\ j.hand = job[p].hand
  BY <1>2, <1>4 DEF Fields
<1>6. job'[p] = j /\ OthersStay(p)
  BY <1>3, OneJob DEF IInv
<1> QED
  BY <1>1, <1>5, <1>6, <1>7, <1>8 DEF note

LEMMA ReadMissionAt ==
  ASSUME IInv, NEW p \in Procs, ReadMission(p)
  PROVE  /\ job'[p].took = {} /\ OthersStay(p)
         /\ \/ /\ job'[p].at = AfterSched(p) /\ EmptyHanded(job'[p])
               /\ job'[p].draft = "Absent" /\ (AfterSched(p) # "idle" => job'[p].cmd = job[p].cmd)
               /\ past' = past
            \/ /\ record = "Running" /\ job'[p].at = "hand" /\ job'[p].cmd = job[p].cmd
               /\ job'[p].draft = (IF AllDone THEN "Completed" ELSE record)
               /\ job'[p].read = <<record, active>>
               /\ job'[p].hand \subseteq {i \in Known : items[i] = "ready"}
               /\ past' = [past EXCEPT !.raced = @ \cup
                    UNION {job'[p].hand \cap job[q].hand : q \in {q \in Procs : Unguarded(p, q)}}]
<1>1. JobsOK
  BY DEF IInv
<1>2. CASE record # "Running"
  <2>1. Moves(p, AfterSched(p)) /\ past' = past
    BY <1>2 DEF ReadMission
  <2> QED
    BY <1>1, <2>1, MovesTo DEF EmptyHanded
<1>3. CASE record = "Running"
  <2>1. PICK hand \in SUBSET {i \in Known : items[i] = "ready"} :
            /\ job' = [job EXCEPT ![p] =
                 [Idle EXCEPT !.at = "hand", !.cmd = job[p].cmd, !.hand = hand, !.read = Seen,
                              !.draft = IF AllDone THEN "Completed" ELSE record]]
            /\ past' = [past EXCEPT !.raced = @ \cup
                          UNION {hand \cap job[q].hand : q \in {q \in Procs : Unguarded(p, q)}}]
    BY <1>3 DEF ReadMission
  <2>2. PICK j : j = [Idle EXCEPT !.at = "hand", !.cmd = job[p].cmd, !.hand = hand, !.read = Seen,
                                  !.draft = IF AllDone THEN "Completed" ELSE record]
    OBVIOUS
  <2>3. /\ j.at = "hand" /\ j.cmd = job[p].cmd /\ j.hand = hand /\ j.read = <<record, active>>
        /\ j.draft = (IF AllDone THEN "Completed" ELSE record) /\ j.took = {}
    BY <2>2 DEF Idle, Seen
  <2>4. job'[p] = j /\ OthersStay(p)
    BY <1>1, <2>1, <2>2, OneJob
  <2> QED
    BY <1>3, <2>1, <2>3, <2>4
<1> QED
  BY <1>2, <1>3

LEMMA HandOutAt ==
  ASSUME IInv, NEW p \in Procs, HandOut(p)
  PROVE  /\ OthersStay(p) /\ job'[p].hand = {}
         /\ \/ /\ job'[p].at = "save_sched" /\ job'[p].draft = job[p].draft
               /\ job'[p].read = job[p].read /\ job'[p].took = job[p].took
               /\ job'[p].cmd = job[p].cmd
            \/ /\ job'[p].at = AfterSched(p) /\ EmptyHanded(job'[p])
               /\ job'[p].draft = "Absent" /\ (AfterSched(p) # "idle" => job'[p].cmd = job[p].cmd)
<1>1. JobsOK /\ Fields(job[p])
  BY DEF IInv, JobsOK, JobOK
<1>2. CASE Moves(p, AfterSched(p))
  BY <1>1, <1>2, MovesTo DEF EmptyHanded
<1>3. CASE job' = [job EXCEPT ![p].at = "save_sched", ![p].hand = {}]
  <2>1. PICK j : j = [job[p] EXCEPT !.at = "save_sched", !.hand = {}]
    OBVIOUS
  <2>2. job' = [job EXCEPT ![p] = j]
    BY <1>3, <2>1 DEF IInv, JobsOK
  <2>3. /\ j.at = "save_sched" /\ j.hand = {} /\ j.draft = job[p].draft /\ j.read = job[p].read
        /\ j.took = job[p].took /\ j.cmd = job[p].cmd
    BY <1>1, <2>1 DEF Fields
  <2> QED
    BY <1>1, <2>2, <2>3, OneJob
<1> QED
  BY <1>2, <1>3 DEF HandOut

\* What follows a save is the same process with its draft, if it is to remove the mission
\* from the active set, and one with empty hands otherwise.
LEMMA SaveRecordAt ==
  ASSUME IInv, NEW p \in Procs, SaveRecord(p)
  PROVE  /\ OthersStay(p) /\ job'[p].at = AfterSave(p)
         /\ AfterSave(p) # "idle" => job'[p].cmd = job[p].cmd
         /\ AfterSave(p) \in {"remove", "remove_sched"} =>
              /\ job'[p].draft = job[p].draft /\ job'[p].read = job[p].read
              /\ job'[p].took = job[p].took /\ job'[p].hand = job[p].hand
         /\ AfterSave(p) \notin {"remove", "remove_sched"} =>
              EmptyHanded(job'[p]) /\ job'[p].draft = "Absent"
<1>1. JobsOK /\ Fields(job[p])
  BY DEF IInv, JobsOK, JobOK
<1>2. CASE AfterSave(p) \notin {"remove", "remove_sched"}
  <2>1. Moves(p, AfterSave(p))
    BY <1>2 DEF SaveRecord
  <2> QED
    BY <1>1, <1>2, <2>1, MovesTo
<1>3. CASE AfterSave(p) \in {"remove", "remove_sched"}
  <2>1. PICK j : j = [job[p] EXCEPT !.at = AfterSave(p)]
    OBVIOUS
  <2>2. job' = [job EXCEPT ![p] = j]
    BY <1>3, <2>1 DEF SaveRecord, IInv, JobsOK
  <2>3. /\ j.at = AfterSave(p) /\ j.draft = job[p].draft /\ j.read = job[p].read
        /\ j.took = job[p].took /\ j.cmd = job[p].cmd /\ j.hand = job[p].hand
    BY <1>1, <2>1 DEF Fields
  <2> QED
    BY <1>1, <1>3, <2>2, <2>3, OneJob
<1> QED
  BY <1>2, <1>3

LEMMA AddActiveAt ==
  ASSUME IInv, NEW p \in Procs, AddActive(p)
  PROVE  /\ OthersStay(p) /\ job'[p].took = {} /\ job'[p].draft = "Absent"
         /\ IF job[p].cmd = "start"
            THEN job'[p].at = "items" /\ job'[p].cmd = "start" /\ job'[p].hand = Items
            ELSE job'[p] = Idle
<1>1. JobsOK
  BY DEF IInv
<1>2. CASE job[p].cmd = "start"
  <2>1. PICK j : j = [Idle EXCEPT !.at = "items", !.cmd = "start", !.hand = Items]
    OBVIOUS
  <2>2. j.at = "items" /\ j.cmd = "start" /\ j.hand = Items /\ j.took = {} /\ j.draft = "Absent"
    BY <2>1 DEF Idle
  <2> QED
    BY <1>1, <1>2, <2>1, <2>2, OneJob DEF AddActive
<1>3. CASE job[p].cmd # "start"
  BY <1>1, <1>3, IdleIs, OneJob DEF AddActive, EmptyHanded
<1> QED
  BY <1>2, <1>3

LEMMA SaveItemAt ==
  ASSUME IInv, NEW p \in Procs, NEW i, job' = [job EXCEPT ![p].hand = @ \ {i}]
  PROVE  /\ OthersStay(p) /\ job'[p].hand = job[p].hand \ {i}
         /\ job'[p].at = job[p].at /\ job'[p].cmd = job[p].cmd /\ job'[p].draft = job[p].draft
         /\ job'[p].read = job[p].read /\ job'[p].took = job[p].took /\ job'[p].todo = job[p].todo
<1>1. JobsOK /\ Fields(job[p])
  BY DEF IInv, JobsOK, JobOK
<1>2. PICK j : j = [job[p] EXCEPT !.hand = @ \ {i}]
  OBVIOUS
<1>3. job' = [job EXCEPT ![p] = j]
  BY <1>2 DEF IInv, JobsOK
<1>4. /\ j.hand = job[p].hand \ {i} /\ j.at = job[p].at /\ j.cmd = job[p].cmd
      /\ j.draft = job[p].draft /\ j.read = job[p].read /\ j.took = job[p].took
      /\ j.todo = job[p].todo
  BY <1>1, <1>2 DEF Fields
<1> QED
  BY <1>1, <1>3, <1>4, OneJob

----------------------------------------------------------------------------
(* The course of every process *)

LEMMA PlainCourse ==
  ASSUME NEW j, EmptyHanded(j), j.draft = "Absent", j.at \notin {"note", "save_notes"},
         j.at \in OnLease => j.cmd \notin Unleased, j.at = "check" => j.cmd = "mcp_resume"
  PROVE  Course(j)
BY DEF EmptyHanded, Course, NotesCourse, DraftCourse

LEMMA IdleCourse == Course(Idle)
BY IdleIs, PlainCourse DEF OnLease

LEMMA AfterSchedIs ==
  ASSUME NEW p \in Procs
  PROVE  AfterSched(p) = "idle" \/ (AfterSched(p) = "tick" /\ job[p].cmd \notin Unleased)
BY DEF AfterSched

LEMMA AcquireCourse ==
  ASSUME IInv, NEW p \in Procs, NEW cmd, cmd \notin Unleased, Acquire(p, cmd)
  PROVE  Course(job'[p]) /\ OthersStay(p)
<1>1. Pending \subseteq Notes \X Bodies /\ \A a, b \in Pending : a[1] = b[1] => a = b
  BY DEF Pending
<1> QED
  BY <1>1, AcquireAt DEF Course, NotesCourse, DraftCourse, Saving

LEMMA ApplyNoteCourse ==
  ASSUME IInv, Courses, NEW p \in Procs, ApplyNote(p) \/ Redirect(p)
  PROVE  Course(job'[p]) /\ OthersStay(p)
<1> DEFINE note == Oldest(job[p].todo)
<1>1. Course(job[p]) /\ job[p].at = "note" /\ JobOK(job[p])
  BY ApplyNoteAt DEF Courses, IInv, JobsOK
<1>2. /\ \E redirected \in BOOLEAN :
           job'[p].draft = Applied(note[2], redirected, job[p].draft)
      /\ job'[p].todo = job[p].todo \ {note}
      /\ job'[p].took = job[p].took \cup {note[1]}
      /\ job'[p].at = IF job[p].todo = {note} THEN "save_notes" ELSE "note"
      /\ job'[p].cmd = job[p].cmd /\ job'[p].read = job[p].read
      /\ OthersStay(p)
  BY ApplyNoteAt
<1>3. job'[p].draft \in {"Running", "Blocked", job[p].draft}
  BY <1>2, AppliedIs
<1> HIDE DEF note
<1>4. job'[p].took # {}
  BY <1>2
<1>5. NotesCourse(job'[p])
  <2>1. job'[p].at \in {"note", "save_notes"}
    BY <1>2
  <2>2. job'[p].at = "note" => job'[p].todo # {}
    BY <1>1, <1>2 DEF Course, NotesCourse
  <2> QED
    BY <1>1, <1>2, <1>4, <2>1, <2>2 DEF Course, NotesCourse
<1>6. DraftCourse(job'[p])
  BY <1>1, <1>2, <1>3, <1>4 DEF Course, DraftCourse
<1> QED
  BY <1>1, <1>2, <1>5, <1>6 DEF Course, OnLease

LEMMA TickCourse ==
  ASSUME IInv, Courses, NEW p \in Procs,
         TickElsewhere(p) \/ ReadWatch(p) \/ SaveWatch(p) \/ ReadRecord(p) \/ Release(p)
  PROVE  Course(job'[p]) /\ OthersStay(p)
<1>1. JobsOK /\ Course(job[p])
  BY DEF IInv, Courses
<1>2. CASE ReadRecord(p) /\ Drafts(p, job[p].cmd, "save_tick", record)
  BY <1>1, <1>2, DraftsAt DEF EmptyHanded, Course, NotesCourse, DraftCourse, OnLease,
    ReadRecord, At, Saving
<1>3. CASE TickElsewhere(p) \/ Release(p)
  <2>1. PICK at : Moves(p, at) /\ at \in {"idle", "check"} /\ (at = "check" => job[p].cmd = "mcp_resume")
    BY <1>3 DEF TickElsewhere, Release, AfterTick
  <2> QED
    BY <1>1, <2>1, MovesTo, PlainCourse DEF OnLease
<1>4. CASE ReadWatch(p) \/ SaveWatch(p) \/ (ReadRecord(p) /\ record = "Absent")
  <2>1. PICK at : Moves(p, at) /\ at \in {"github", "sched", "release"}
    BY <1>4 DEF ReadWatch, SaveWatch, ReadRecord
  <2>2. job[p].at \in OnLease
    BY <1>4 DEF ReadWatch, SaveWatch, ReadRecord, At, OnLease
  <2> QED
    BY <1>1, <2>1, <2>2, MovesTo, PlainCourse DEF Course
<1> QED
  BY <1>2, <1>3, <1>4 DEF ReadRecord

LEMMA SchedCourse ==
  ASSUME IInv, Courses, NEW p \in Procs, ReadMission(p) \/ HandOut(p)
  PROVE  Course(job'[p]) /\ OthersStay(p)
<1>1. JobsOK /\ Course(job[p])
  BY DEF IInv, Courses
<1>2. CASE ReadMission(p)
  <2>1. CASE job'[p].at = "hand"
    <3>1. /\ record = "Running" /\ job'[p].read[1] = record /\ job'[p].took = {}
          /\ job'[p].draft \in {"Completed", record}
      BY <1>2, <2>1, ReadMissionAt, AfterSchedIs
    <3> QED
      BY <1>2, <2>1, <3>1, ReadMissionAt DEF Course, NotesCourse, DraftCourse, OnLease, Saving
  <2>2. CASE job'[p].at # "hand"
    BY <1>2, <2>2, ReadMissionAt, AfterSchedIs, PlainCourse DEF OnLease
  <2> QED
    BY <1>2, <2>1, <2>2, ReadMissionAt
<1>3. CASE HandOut(p)
  <2>1. job[p].at = "hand"
    BY <1>3 DEF HandOut, At
  <2>2. CASE job'[p].at = "save_sched"
    <3>1. /\ job'[p].draft = job[p].draft
          /\ job'[p].read = job[p].read /\ job'[p].took = job[p].took /\ OthersStay(p)
      BY <1>3, <2>2, HandOutAt, AfterSchedIs
    <3> QED
      BY <1>1, <2>1, <2>2, <3>1 DEF Course, NotesCourse, DraftCourse, OnLease, Saving
  <2>3. CASE job'[p].at # "save_sched"
    BY <1>3, <2>3, HandOutAt, AfterSchedIs, PlainCourse DEF OnLease
  <2> QED
    BY <1>3, <2>2, <2>3, HandOutAt
<1> QED
  BY <1>2, <1>3

LEMMA SaveRecordCourse ==
  ASSUME IInv, Courses, NEW p \in Procs, SaveRecord(p)
  PROVE  Course(job'[p]) /\ OthersStay(p)
<1>1. Course(job[p]) /\ job[p].at \in Saving
  BY DEF Courses, SaveRecord, Saving
<1>2. CASE AfterSave(p) \in {"remove", "remove_sched"}
  <2>1. /\ AfterSave(p) = "remove" => job[p].at = "save" /\ job[p].cmd \in {"stop", "fail", "complete"}
        /\ AfterSave(p) = "remove_sched" => job[p].at = "save_sched" /\ job[p].draft = "Completed"
    BY <1>1 DEF AfterSave, AfterSched, Saving
  <2>2. /\ job'[p].draft = job[p].draft /\ job'[p].read = job[p].read
        /\ job'[p].took = job[p].took /\ job'[p].cmd = job[p].cmd /\ job'[p].at = AfterSave(p)
    BY <1>2, SaveRecordAt
  <2>3. NotesCourse(job'[p])
    BY <1>1, <1>2, <2>1, <2>2 DEF Course, NotesCourse
  <2>4. DraftCourse(job'[p])
    BY <1>1, <1>2, <2>1, <2>2 DEF Course, DraftCourse, Saving
  <2> QED
    BY <1>2, <2>2, <2>3, <2>4, SaveRecordAt DEF Course, OnLease
<1>3. CASE AfterSave(p) \notin {"remove", "remove_sched"}
  <2>1. AfterSave(p) \in {"watch", "release", "tick", "idle", "add", "put"}
    BY <1>1, <1>3 DEF AfterSave, AfterSched, Saving
  <2>2. AfterSave(p) \in {"watch", "release", "tick"} => job[p].cmd \notin Unleased
    BY <1>1 DEF AfterSave, AfterSched, Saving, Course, OnLease
  <2> QED
    BY <1>3, <2>1, <2>2, SaveRecordAt, PlainCourse DEF OnLease
<1> QED
  BY <1>2, <1>3

LEMMA EverybodyCourse ==
  ASSUME IInv, Courses, NEW p \in Procs,
         \/ AddActive(p) \/ RemoveActive(p) \/ SaveItem(p) \/ ItemsSaved(p)
         \/ PutNote(p) \/ Check(p)
  PROVE  Course(job'[p]) /\ OthersStay(p)
<1>1. JobsOK /\ Course(job[p]) /\ JobOK(job[p])
  BY DEF IInv, Courses, JobsOK
<1>2. CASE AddActive(p)
  BY <1>2, AddActiveAt, IdleCourse DEF Course, NotesCourse, DraftCourse, OnLease
<1>3. CASE RemoveActive(p)
  <2>1. PICK at : Moves(p, at) /\ at \in {"idle", "tick"} /\ (at = "tick" => job[p].cmd \notin Unleased)
    BY <1>3, AfterSchedIs DEF RemoveActive
  <2> QED
    BY <1>1, <2>1, MovesTo, PlainCourse DEF OnLease
<1>4. CASE SaveItem(p)
  <2>1. PICK i : job' = [job EXCEPT ![p].hand = @ \ {i}]
    BY <1>4 DEF SaveItem
  <2> QED
    BY <1>1, <1>4, <2>1, SaveItemAt DEF SaveItem, At, Course, NotesCourse, DraftCourse, OnLease, Saving
<1>5. CASE ItemsSaved(p) \/ PutNote(p) \/ Check(p)
  <2>1. PICK at : /\ Moves(p, at) /\ at \in {"sched", "idle", "lock", "add"}
                  /\ at = "lock" => job[p].cmd \in {"mcp_pause", "mcp_resume"}
    BY <1>5 DEF ItemsSaved, PutNote, Check
  <2> QED
    BY <1>1, <2>1, MovesTo, PlainCourse DEF OnLease, Unleased
<1> QED
  BY <1>2, <1>3, <1>4, <1>5

LEMMA StepCourse ==
  ASSUME IInv, Courses, NEW p \in Procs, Step(p)
  PROVE  Course(job'[p]) /\ OthersStay(p)
<1>1. CASE Poll(p) \/ TickOnce(p)
  <2>1. PICK cmd : Acquire(p, cmd) /\ cmd \notin Unleased
    BY <1>1 DEF Poll, TickOnce, At, Courses, Course, OnLease, Unleased
  <2> QED
    BY <2>1, AcquireCourse
<1>2. CASE ~ (Poll(p) \/ TickOnce(p))
  BY <1>2, ApplyNoteCourse, TickCourse, SchedCourse, SaveRecordCourse, EverybodyCourse
    DEF Step, TickStep
<1> QED
  BY <1>1, <1>2

\* What an order makes of its process: it is about to save a copy, to save a note, to
\* take the lease, or to remove the mission from the active set.
LEMMA OrderAt ==
  ASSUME IInv, NEW p \in Procs, Order(p)
  PROVE  /\ job[p].at = "idle" /\ p \in Operators /\ OthersStay(p) /\ EmptyHanded(job'[p])
         /\ \/ /\ Start(p) /\ job'[p].at = "save" /\ job'[p].cmd = "start"
               /\ job'[p].draft = "Running"
            \/ \E cmd : /\ Command(p, cmd) /\ job'[p].at = "save" /\ job'[p].cmd = cmd
                        /\ cmd \notin {"start", "finish"}
                        /\ job'[p].draft = Changed(cmd) /\ job'[p].read = <<record, active>>
            \/ /\ McpNote(p) /\ job'[p].at = "put" /\ job'[p].cmd = "mcp_note"
               /\ job'[p].draft = "Absent"
            \/ /\ DispatchOnce(p) /\ job'[p].at = "lock" /\ job'[p].cmd = "dispatch"
               /\ job'[p].draft = "Absent"
            \/ /\ Delete(p) /\ job'[p].at = "remove" /\ job'[p].cmd = "delete"
               /\ job'[p].draft = "Absent"
<1>1. JobsOK
  BY DEF IInv
<1>2. job[p].at = "idle" /\ p \in Operators
  BY DEF Order, Start, Command, McpNote, DispatchOnce, Delete, Gives, At
<1>3. CASE Start(p)
  <2>1. Drafts(p, "start", "save", "Running")
    BY <1>3 DEF Start
  <2> QED
    BY <1>1, <1>2, <1>3, <2>1, DraftsAt
<1>4. ASSUME NEW cmd \in {"resume", "stop", "fail", "complete", "note", "mcp_pause", "mcp_resume"},
             Command(p, cmd)
      PROVE  /\ job'[p].at = "save" /\ job'[p].cmd = cmd /\ OthersStay(p) /\ EmptyHanded(job'[p])
             /\ cmd \notin {"start", "finish"}
             /\ job'[p].draft = Changed(cmd) /\ job'[p].read = <<record, active>>
  <2>1. Drafts(p, cmd, "save", Changed(cmd))
    BY <1>4 DEF Command
  <2> QED
    BY <1>1, <2>1, DraftsAt
<1>5. CASE McpNote(p)
  <2>1. Begins(p, "mcp_note", "put")
    BY <1>5 DEF McpNote
  <2> QED
    BY <1>1, <1>2, <1>5, <2>1, BeginsAt
<1>6. CASE DispatchOnce(p)
  <2>1. Begins(p, "dispatch", "lock")
    BY <1>6 DEF DispatchOnce
  <2> QED
    BY <1>1, <1>2, <1>6, <2>1, BeginsAt
<1>7. CASE Delete(p)
  <2>1. Begins(p, "delete", "remove")
    BY <1>7 DEF Delete
  <2> QED
    BY <1>1, <1>2, <1>7, <2>1, BeginsAt
<1> QED
  BY <1>2, <1>3, <1>4, <1>5, <1>6, <1>7 DEF Order

LEMMA OrderCourse ==
  ASSUME IInv, Courses, NEW p \in Procs, Order(p)
  PROVE  Course(job'[p]) /\ OthersStay(p)
<1>1. CASE job'[p].at = "save" /\ job'[p].cmd = "start" /\ job'[p].draft = "Running"
  <2>1. job'[p].todo = {} /\ job'[p].took = {} /\ OthersStay(p)
    BY OrderAt DEF EmptyHanded
  <2> QED
    BY <1>1, <2>1 DEF Course, NotesCourse, DraftCourse, OnLease
<1>2. ASSUME NEW cmd, job'[p].at = "save", job'[p].cmd = cmd, cmd \notin {"start", "finish"},
             job'[p].draft = Changed(cmd), job'[p].read = <<record, active>>
      PROVE  Course(job'[p]) /\ OthersStay(p)
  <2>1. /\ Changed(cmd) = "Running" => cmd = "resume" \/ (record = "Running" /\ cmd \notin {"stop", "fail", "complete"})
        /\ Changed(cmd) = "Completed" => cmd = "complete" \/ record = "Completed"
    BY DEF Changed
  <2>2. job'[p].todo = {} /\ job'[p].took = {} /\ OthersStay(p)
    BY OrderAt DEF EmptyHanded
  <2>3. DraftCourse(job'[p])
    BY <1>2, <2>1, <2>2 DEF DraftCourse
  <2> QED
    BY <1>2, <2>2, <2>3 DEF Course, NotesCourse, OnLease
<1>3. CASE /\ ~ (job'[p].at = "save" /\ job'[p].cmd = "start" /\ job'[p].draft = "Running")
           /\ ~ \E cmd : /\ job'[p].at = "save" /\ job'[p].cmd = cmd
                         /\ cmd \notin {"start", "finish"}
                         /\ job'[p].draft = Changed(cmd) /\ job'[p].read = <<record, active>>
  <2>1. /\ job'[p].at \in {"put", "lock", "remove"} /\ job'[p].cmd \in {"mcp_note", "dispatch", "delete"}
        /\ job'[p].draft = "Absent" /\ EmptyHanded(job'[p]) /\ OthersStay(p)
    BY <1>3, OrderAt
  <2> QED
    BY <2>1, PlainCourse DEF Unleased
<1> QED
  BY <1>1, <1>2, <1>3

LEMMA FinishItemAt ==
  ASSUME IInv, NEW p \in Procs, NEW i \in Items, FinishItem(p, i)
  PROVE  /\ OthersStay(p) /\ job[p].at = "idle"
         /\ \/ job' = job
            \/ /\ job'[p].at = "sched" /\ job'[p].cmd = "finish"
               /\ job'[p].draft = "Absent" /\ EmptyHanded(job'[p])
<1>1. CASE Begins(p, "finish", "sched")
  BY <1>1, BeginsAt DEF IInv, FinishItem, At
<1>2. CASE job' = job
  BY <1>2 DEF OthersStay, FinishItem, At
<1> QED
  BY <1>1, <1>2 DEF FinishItem

LEMMA CrashAt ==
  ASSUME IInv, NEW p \in Procs, Crash(p)
  PROVE  OthersStay(p) /\ job'[p] = Idle
BY OneJob DEF IInv, Crash

\* One process moves at a time, and each stays on its course.
LEMMA CoursesStay ==
  ASSUME IInv, Courses, [Next]_vars
  PROVE  Courses'
<1>1. ASSUME NEW p \in Procs, Step(p) \/ Order(p) \/ Crash(p) PROVE Courses'
  BY <1>1, StepCourse, OrderCourse, CrashAt, IdleCourse DEF Courses, OthersStay
<1>2. ASSUME NEW p \in Operators, NEW i \in Items, FinishItem(p, i) PROVE Courses'
  <2>1. p \in Procs
    BY DEF Procs
  <2> QED
    BY <1>2, <2>1, FinishItemAt, PlainCourse DEF Courses, OthersStay, OnLease
<1>3. CASE job' = job
  BY <1>3 DEF Courses
<1> QED
  BY <1>1, <1>2, <1>3 DEF Next, Submit, LeaseRunsOut, DeadLeaseRunsOut, vars

----------------------------------------------------------------------------
(* Which steps change what *)

\* The steps of one process. Another one's hands are never touched.
Acts(p) == Step(p) \/ Order(p) \/ Crash(p) \/ \E i \in Items : FinishItem(p, i)

LEMMA OneActs ==
  ASSUME IInv, Courses, [Next]_vars
  PROVE  job' = job \/ \E p \in Procs : Acts(p) /\ OthersStay(p)
<1>1. ASSUME NEW p \in Procs, Step(p) \/ Order(p) \/ Crash(p) PROVE Acts(p) /\ OthersStay(p)
  BY <1>1, StepCourse, OrderCourse, CrashAt DEF Acts
<1>2. ASSUME NEW p \in Operators, NEW i \in Items, FinishItem(p, i)
      PROVE  p \in Procs /\ Acts(p) /\ OthersStay(p)
  BY <1>2, FinishItemAt DEF Acts, Procs
<1> QED
  BY <1>1, <1>2 DEF Next, Submit, LeaseRunsOut, DeadLeaseRunsOut, vars

\* Where a process that moves comes from.
LEMMA ComesFrom ==
  ASSUME IInv, NEW p \in Procs, Acts(p)
  PROVE  /\ job'[p].at = "github" => ReadWatch(p)
         /\ job'[p].at \in {"note", "save_notes"} =>
              ApplyNote(p) \/ Redirect(p) \/ \E cmd : Acquire(p, cmd)
         /\ job'[p].at = "hand" => ReadMission(p)
         /\ job'[p].at = "save_sched" => HandOut(p)
<1> DEFINE Goal == /\ job'[p].at = "github" => ReadWatch(p)
                   /\ job'[p].at \in {"note", "save_notes"} =>
                        ApplyNote(p) \/ Redirect(p) \/ \E cmd : Acquire(p, cmd)
                   /\ job'[p].at = "hand" => ReadMission(p)
                   /\ job'[p].at = "save_sched" => HandOut(p)
<1>1. JobsOK
  BY DEF IInv
<1>2. ASSUME NEW at, Moves(p, at), at \notin {"github", "note", "save_notes", "hand", "save_sched"} PROVE Goal
  BY <1>1, <1>2, MovesTo
<1>3. CASE Poll(p) \/ TickOnce(p)
  <2>1. PICK cmd : Acquire(p, cmd)
    BY <1>3 DEF Poll, TickOnce
  <2> QED
    BY <2>1, AcquireAt
<1>4. CASE TickElsewhere(p) \/ SaveWatch(p) \/ Release(p) \/ (ReadRecord(p) /\ record = "Absent")
  <2>1. PICK at : Moves(p, at) /\ at \in {"idle", "check", "sched", "release"}
    BY <1>4 DEF TickElsewhere, SaveWatch, Release, ReadRecord, AfterTick
  <2> QED
    BY <1>2, <2>1
<1>5. CASE ReadRecord(p) /\ record # "Absent"
  <2>1. Drafts(p, job[p].cmd, "save_tick", record)
    BY <1>5 DEF ReadRecord
  <2> QED
    BY <1>1, <2>1, DraftsAt
<1>6. CASE ReadWatch(p)
  <2>1. PICK at : Moves(p, at) /\ at \in {"github", "sched"}
    BY <1>6 DEF ReadWatch
  <2> QED
    BY <1>1, <1>6, <2>1, MovesTo
<1>7. CASE ApplyNote(p) \/ Redirect(p)
  <2>1. job'[p].at \in {"note", "save_notes"}
    BY <1>7, ApplyNoteAt
  <2> QED
    BY <1>7, <2>1
<1>8. CASE ReadMission(p)
  BY <1>8, ReadMissionAt, AfterSchedIs
<1>9. CASE HandOut(p)
  BY <1>9, HandOutAt, AfterSchedIs
<1>10. CASE SaveRecord(p)
  <2>1. AfterSave(p) \notin {"github", "note", "save_notes", "hand", "save_sched"}
    BY DEF AfterSave, AfterSched
  <2> QED
    BY <1>10, <2>1, SaveRecordAt
<1>11. CASE AddActive(p)
  BY <1>11, AddActiveAt, IdleIs
<1>12. CASE RemoveActive(p) \/ ItemsSaved(p) \/ PutNote(p) \/ Check(p)
  <2>1. PICK at : Moves(p, at) /\ at \in {"idle", "tick", "sched", "lock", "add"}
    BY <1>12 DEF RemoveActive, ItemsSaved, PutNote, Check, AfterSched
  <2> QED
    BY <1>2, <2>1
<1>13. CASE SaveItem(p)
  <2>1. PICK i : job' = [job EXCEPT ![p].hand = @ \ {i}]
    BY <1>13 DEF SaveItem
  <2> QED
    BY <1>13, <2>1, SaveItemAt DEF SaveItem, At
<1>14. CASE Order(p)
  <2>1. job'[p].at \in {"save", "put", "lock", "remove"}
    BY <1>14, OrderAt
  <2> QED
    BY <2>1
<1>15. CASE Crash(p)
  BY <1>15, CrashAt, IdleIs
<1>16. ASSUME NEW i \in Items, FinishItem(p, i) PROVE Goal
  BY <1>16, FinishItemAt
<1> QED
  BY <1>3, <1>4, <1>5, <1>6, <1>7, <1>8, <1>9, <1>10, <1>11, <1>12, <1>13, <1>14, <1>15, <1>16
    DEF Acts, Step, TickStep

LEMMA Changes ==
  ASSUME [Next]_vars
  PROVE  /\ record' # record => \E p \in Procs : SaveRecord(p) \/ Delete(p)
         /\ active' # active => \E p \in Procs : AddActive(p) \/ RemoveActive(p)
         /\ items' # items =>
              \/ \E p \in Procs : HandOut(p) \/ SaveItem(p) \/ Delete(p) \/ Redirect(p)
              \/ \E p \in Operators, i \in Items : FinishItem(p, i)
              \/ \E i \in Items : Submit(i)
         /\ tasks' # tasks => \E p \in Procs : HandOut(p) \/ Redirect(p)
         /\ watch' # watch =>
              \/ \E i \in Items : Submit(i)
              \/ \E p \in Procs : ApplyNote(p) \/ SaveWatch(p) \/ Delete(p)
         /\ notes' # notes =>
              \E p \in Procs : ApplyNote(p) \/ Redirect(p) \/ PutNote(p) \/ Delete(p)
         /\ past' # past =>
              \/ LeaseRunsOut
              \/ \E p \in Procs : Redirect(p)
              \/ \E p \in Procs : \/ SaveRecord(p) \/ AddActive(p) \/ RemoveActive(p)
                                  \/ ReadMission(p) \/ Release(p) \/ Crash(p)
<1>1. ASSUME NEW p \in Procs, Step(p)
      PROVE  \/ SaveRecord(p) \/ AddActive(p) \/ RemoveActive(p) \/ ReadMission(p) \/ Release(p)
             \/ HandOut(p) \/ SaveItem(p) \/ ApplyNote(p) \/ Redirect(p) \/ SaveWatch(p)
             \/ PutNote(p)
             \/ UNCHANGED <<record, active, items, tasks, watch, notes, past>>
  BY <1>1 DEF Step, TickStep, Poll, TickOnce, Acquire, TickElsewhere, ReadWatch, ReadRecord,
    ItemsSaved, Check
<1>2. ASSUME NEW p \in Procs, Order(p)
      PROVE  Delete(p) \/ UNCHANGED <<record, active, items, tasks, watch, notes, past>>
  BY <1>2 DEF Order, Start, Command, McpNote, DispatchOnce
<1>3. CASE DeadLeaseRunsOut \/ UNCHANGED vars
  BY <1>3 DEF DeadLeaseRunsOut, vars
<1>4. ASSUME NEW p \in Procs, Step(p)
      PROVE  /\ record' # record => SaveRecord(p)
             /\ active' # active => AddActive(p) \/ RemoveActive(p)
             /\ items' # items => HandOut(p) \/ SaveItem(p) \/ Redirect(p)
             /\ tasks' # tasks => HandOut(p) \/ Redirect(p)
             /\ watch' # watch => ApplyNote(p) \/ SaveWatch(p)
             /\ notes' # notes => ApplyNote(p) \/ Redirect(p) \/ PutNote(p)
             /\ past' # past => \/ SaveRecord(p) \/ AddActive(p) \/ RemoveActive(p)
                                \/ ReadMission(p) \/ Release(p) \/ Redirect(p)
  BY <1>1, <1>4 DEF SaveRecord, AddActive, RemoveActive, ReadMission, Release, HandOut,
    SaveItem, ApplyNote, Redirect, SaveWatch, PutNote
<1>5. ASSUME NEW p \in Procs, Delete(p)
      PROVE  UNCHANGED <<active, tasks, past>>
  BY <1>5 DEF Delete
<1>6. ASSUME NEW p \in Procs, Crash(p) PROVE UNCHANGED <<record, active, items, tasks, watch, notes>>
  BY <1>6 DEF Crash
<1>7. ASSUME NEW p \in Operators, NEW i \in Items, FinishItem(p, i)
      PROVE  UNCHANGED <<record, active, tasks, watch, notes, past>>
  BY <1>7 DEF FinishItem
<1>8. ASSUME NEW i \in Items, Submit(i) PROVE UNCHANGED <<record, active, tasks, notes, past>>
  BY <1>8 DEF Submit
<1>9. LeaseRunsOut => UNCHANGED <<record, active, items, tasks, watch, notes>>
  BY DEF LeaseRunsOut
<1> QED
  BY <1>2, <1>3, <1>4, <1>5, <1>6, <1>7, <1>8, <1>9 DEF Next

----------------------------------------------------------------------------
(* The active set *)

Booleans == past.mislaid \in BOOLEAN /\ past.overrun \in BOOLEAN

LEMMA BooleansStay ==
  ASSUME IInv, Booleans, [Next]_vars
  PROVE  Booleans' /\ (past.overrun => past'.overrun)
<1> USE DEF IInv, PastOK, Booleans
<1>1. CASE past' = past
  BY <1>1
<1>2. ASSUME NEW p \in Procs, SaveRecord(p) PROVE Booleans' /\ past'.overrun = past.overrun
  BY <1>2 DEF SaveRecord
<1>3. ASSUME NEW p \in Procs, AddActive(p) PROVE Booleans' /\ past'.overrun = past.overrun
  BY <1>3 DEF AddActive
<1>4. ASSUME NEW p \in Procs, RemoveActive(p) PROVE Booleans' /\ past'.overrun = past.overrun
  BY <1>4 DEF RemoveActive
<1>5. ASSUME NEW p \in Procs, ReadMission(p) PROVE Booleans' /\ past'.overrun = past.overrun
  <2>1. CASE past' = past
    BY <2>1
  <2>2. CASE past' # past
    <3>1. PICK more : past' = [past EXCEPT !.raced = @ \cup more]
      BY <1>5, <2>2 DEF ReadMission
    <3> QED
      BY <3>1
  <2> QED
    BY <2>1, <2>2
<1>6. ASSUME NEW p \in Procs, Release(p) PROVE Booleans' /\ past'.overrun = past.overrun
  BY <1>6 DEF Release
<1>7. ASSUME NEW p \in Procs, Crash(p) PROVE Booleans' /\ past'.overrun = past.overrun
  BY <1>7 DEF Crash
<1>8. CASE LeaseRunsOut
  BY <1>8 DEF LeaseRunsOut
<1>9. ASSUME NEW p \in Procs, Redirect(p) PROVE Booleans' /\ past'.overrun = past.overrun
  BY <1>9, NoteStep
<1> QED
  BY <1>1, <1>2, <1>3, <1>4, <1>5, <1>6, <1>7, <1>8, <1>9, Changes

\* Nothing but the write of an overtaken copy sets a mission going without leaving it in
\* the active set or on its way there.
LEMMA SaveKeepsActive ==
  ASSUME IInv, Courses, Booleans, RunningIsActive, NEW p \in Procs, SaveRecord(p)
  PROVE  RunningIsActive'
<1> USE DEF IInv, PastOK, Booleans
<1> SUFFICES ASSUME record' = "Running", ~ active'
             PROVE  past'.mislaid \/ \E q \in Procs : At(q, "add")'
  BY DEF RunningIsActive
<1>1. job[p].draft = "Running" /\ active' = active /\ job[p].at \in Saving
  BY DEF SaveRecord, Saving
<1>2. past'.mislaid = (past.mislaid \/ (job[p].draft = "Running"
                            /\ (Overtaken(p) \/ (job[p].took # {} /\ ~ active))))
  BY DEF SaveRecord
<1>3. CASE Overtaken(p) \/ job[p].took # {}
  BY <1>1, <1>2, <1>3
<1>4. CASE ~ Overtaken(p) /\ job[p].took = {} /\ job[p].read[1] = "Running"
  <2>1. record = "Running"
    BY <1>4 DEF Overtaken, Seen
  <2>2. CASE past.mislaid
    BY <1>2, <2>2
  <2>3. ASSUME NEW q \in Procs, At(q, "add") PROVE At(q, "add")'
    <3>1. q # p
      BY <1>1, <2>3 DEF At, Saving
    <3> QED
      BY <2>3, <3>1, SaveRecordAt DEF At, OthersStay
  <2> QED
    BY <1>1, <2>1, <2>2, <2>3 DEF RunningIsActive
<1>5. CASE job[p].at = "save" /\ job[p].cmd \in {"start", "resume"}
  <2>1. AfterSave(p) = "add"
    BY <1>5 DEF AfterSave
  <2> QED
    BY <2>1, SaveRecordAt DEF At
<1> QED
  BY <1>1, <1>3, <1>4, <1>5 DEF Courses, Course, DraftCourse

LEMMA RunningStaysActive ==
  ASSUME IInv, Courses, Booleans, RunningIsActive, [Next]_vars
  PROVE  RunningIsActive'
<1> USE DEF IInv, PastOK, Booleans
<1>1. ASSUME NEW p \in Procs, SaveRecord(p) PROVE RunningIsActive'
  BY <1>1, SaveKeepsActive
<1>2. ASSUME NEW p \in Procs, Delete(p) PROVE RunningIsActive'
  BY <1>2 DEF Delete, RunningIsActive
<1>3. ASSUME NEW p \in Procs, AddActive(p) PROVE RunningIsActive'
  BY <1>3 DEF AddActive, RunningIsActive
<1>4. ASSUME NEW p \in Procs, RemoveActive(p) PROVE RunningIsActive'
  <2>1. job[p].draft # "Running"
    BY <1>4 DEF RemoveActive, Courses, Course, DraftCourse
  <2>2. record' = record /\ past'.mislaid = (past.mislaid \/ record # job[p].draft)
    BY <1>4 DEF RemoveActive
  <2> QED
    BY <2>1, <2>2 DEF RunningIsActive
<1>5. ASSUME NEW p \in Procs, Crash(p) PROVE RunningIsActive'
  <2>1. past'.mislaid = (past.mislaid \/ At(p, "add")) /\ record' = record /\ active' = active
    BY <1>5 DEF Crash
  <2>2. \A q \in Procs : At(q, "add") => q = p \/ At(q, "add")'
    BY <1>5, CrashAt DEF At, OthersStay
  <2> QED
    BY <2>1, <2>2 DEF RunningIsActive
<1>6. CASE \A p \in Procs : ~ (\/ SaveRecord(p) \/ Delete(p) \/ AddActive(p) \/ RemoveActive(p)
                               \/ Crash(p))
  <2>1. record' = record /\ active' = active /\ past'.mislaid = past.mislaid
    <3>1. record' = record /\ active' = active
      BY <1>6, Changes
    <3>2. CASE past' = past
      BY <3>1, <3>2
    <3>3. ASSUME NEW p \in Procs, ReadMission(p), past' # past PROVE past'.mislaid = past.mislaid
      <4>1. PICK more : past' = [past EXCEPT !.raced = @ \cup more]
        BY <3>3 DEF ReadMission
      <4> QED
        BY <4>1
    <3>4. ASSUME NEW p \in Procs, Release(p) PROVE past'.mislaid = past.mislaid
      BY <3>4 DEF Release
    <3>5. CASE LeaseRunsOut
      BY <3>5 DEF LeaseRunsOut
    <3>6. ASSUME NEW p \in Procs, Redirect(p) PROVE past'.mislaid = past.mislaid
      BY <3>6, NoteStep
    <3> QED
      BY <1>6, <3>1, <3>2, <3>3, <3>4, <3>5, <3>6, Changes
  <2>2. ASSUME NEW q \in Procs, At(q, "add") PROVE At(q, "add")'
    <3>1. ~ Step(q)
      BY <1>6, <2>2 DEF Step, TickStep, Poll, TickOnce, TickElsewhere, ApplyNote, Redirect, ReadWatch,
        SaveWatch, ReadMission, HandOut, ReadRecord, Release, SaveRecord, SaveItem,
        ItemsSaved, PutNote, Check, At
    <3>2. ~ Order(q) /\ \A i \in Items : ~ FinishItem(q, i)
      BY <2>2, OrderAt, FinishItemAt DEF At
    <3>3. ~ Acts(q)
      BY <1>6, <3>1, <3>2 DEF Acts
    <3> QED
      BY <2>2, <3>3, OneActs DEF At, OthersStay
  <2> QED
    BY <2>1, <2>2 DEF RunningIsActive
<1> QED
  BY <1>1, <1>2, <1>3, <1>4, <1>5, <1>6

----------------------------------------------------------------------------
(* The watch *)

Overrun == past.outlived # {} => past.overrun

\* A dispatcher that waits for GitHub's word has a watch that is not done yet.
WatchSeen == \A p \in Procs : At(p, "github") => watch # "Done" \/ past.overrun

LEMMA OverrunStays ==
  ASSUME IInv, Booleans, Overrun, [Next]_vars
  PROVE  Overrun'
<1> USE DEF IInv, PastOK, Overrun
<1>1. CASE past' = past
  BY <1>1
<1>2. ASSUME NEW p \in Procs,
             \/ SaveRecord(p) \/ AddActive(p) \/ RemoveActive(p) \/ ReadMission(p)
             \/ Release(p) \/ Crash(p)
      PROVE  past'.outlived \subseteq past.outlived
  <2>1. CASE SaveRecord(p) \/ AddActive(p) \/ RemoveActive(p) \/ ReadMission(p)
    <3>1. past'.outlived = past.outlived
      BY <2>1 DEF SaveRecord, AddActive, RemoveActive, ReadMission
    <3> QED
      BY <3>1
  <2>2. CASE Release(p) \/ Crash(p)
    BY <2>2 DEF Release, Crash
  <2> QED
    BY <1>2, <2>1, <2>2
<1>3. CASE LeaseRunsOut
  BY <1>3 DEF LeaseRunsOut
<1>4. ASSUME NEW p \in Procs, Redirect(p) PROVE past'.outlived = past.outlived
  BY <1>4, NoteStep
<1> QED
  BY <1>1, <1>2, <1>3, <1>4, BooleansStay, Changes

\* Two dispatchers believe to hold the lease only after one of them has outlived it.
LEMMA Alone ==
  ASSUME IInv, Overrun, NEW p \in Procs, NEW q \in Procs, p # q, Inside(p), Inside(q)
  PROVE  past.overrun
BY DEF IInv, LeaseIsHeld, Overrun

LEMMA WatchStaysSeen ==
  ASSUME IInv, Courses, Booleans, Overrun, WatchSeen, [Next]_vars
  PROVE  WatchSeen'
<1> SUFFICES ASSUME NEW p \in Procs, At(p, "github")', ~ past'.overrun PROVE watch' # "Done"
  BY DEF WatchSeen
<1>1. ~ past.overrun
  BY BooleansStay
<1>2. CASE job'[p] # job[p]
  <2>1. ReadWatch(p)
    BY <1>2, OneActs, ComesFrom DEF At, OthersStay
  <2>2. watch = "Active"
    <3>1. watch # "Active" => Moves(p, "sched")
      BY <2>1 DEF ReadWatch
    <3> QED
      BY <3>1, MovesTo DEF At, IInv
  <2> QED
    BY <2>1, <2>2 DEF ReadWatch
<1>3. CASE job'[p] = job[p]
  <2>1. At(p, "github") /\ watch # "Done" /\ Inside(p)
    BY <1>1, <1>3 DEF At, WatchSeen, Inside, Courses, Course, OnLease, Leased
  <2>2. ASSUME NEW q \in Procs, ApplyNote(q) \/ SaveWatch(q) PROVE FALSE
    <3>1. Inside(q)
      BY <2>2 DEF ApplyNote, SaveWatch, At, Inside, Courses, Course, OnLease, Leased
    <3>2. q # p
      <4>1. CASE SaveWatch(p)
        BY <1>3, <2>1, <4>1, MovesTo DEF SaveWatch, At, IInv
      <4>2. CASE ApplyNote(p)
        BY <2>1, <4>2 DEF ApplyNote, At
      <4> QED
        BY <2>2, <4>1, <4>2
    <3> QED
      BY <1>1, <2>1, <3>1, <3>2, Alone
  <2>3. ASSUME NEW i \in Items, Submit(i) PROVE watch' # "Done"
    BY <2>1, <2>3 DEF Submit
  <2>4. ASSUME NEW q \in Procs, Delete(q) PROVE watch' # "Done"
    BY <2>4 DEF Delete
  <2> QED
    BY <2>1, <2>2, <2>3, <2>4, Changes
<1> QED
  BY <1>2, <1>3

----------------------------------------------------------------------------
(* The notes *)

\* What a dispatcher has read of the notes is still to be done.
NotesSeen ==
  /\ notes = [n \in Notes |-> notes[n]]
  /\ \A p \in Procs : At(p, "note") =>
       \A a \in job[p].todo : notes[a[1]] # "processed" \/ past.overrun

Below == {a \in Nat \X Nat : a[1] < a[2]}

LEMMA BelowIsWellFounded == IsWellFoundedOn(Below, Nat)
BY NatLessThanWellFounded, Zenon DEF OpToRel, Below

LEMMA SmallestIs ==
  ASSUME NEW S, S \subseteq Nat, S # {}
  PROVE  \E n \in S : \A m \in S : n <= m
<1>1. PICK n \in S : \A m \in S : <<m, n>> \notin Below
  BY BelowIsWellFounded, WFMin, Zenon
<1>2. ASSUME NEW m \in S PROVE n <= m
  <2>1. <<m, n>> \in Nat \X Nat /\ m \in Nat /\ n \in Nat
    OBVIOUS
  <2>2. ~ (<<m, n>>[1] < <<m, n>>[2])
    BY <1>1, <2>1, Zenon DEF Below
  <2> QED
    BY <2>1, <2>2
<1> QED
  BY <1>2

\* There is an oldest note.
LEMMA OldestIs ==
  ASSUME NEW todo, todo # {}, todo \subseteq Notes \X Bodies
  PROVE  Oldest(todo) \in todo
<1> DEFINE ages == {a[1] : a \in todo}
<1>1. ages \subseteq Nat /\ ages # {}
  BY MissionControlConstants
<1>2. PICK n \in ages : \A m \in ages : n <= m
  <2> HIDE DEF ages
  <2> QED
    BY <1>1, SmallestIs
<1> QED
  BY <1>1, <1>2 DEF Oldest

LEMMA NotesStaySeen ==
  ASSUME IInv, Courses, Booleans, Overrun, NotesSeen, [Next]_vars
  PROVE  NotesSeen'
<1>1. notes' = [n \in Notes |-> notes'[n]]
  <2>1. ASSUME NEW p \in Procs, ApplyNote(p) \/ Redirect(p)
        PROVE  notes' = [notes EXCEPT ![Oldest(job[p].todo)[1]] = "processed"]
    BY <2>1, ApplyNoteAt
  <2>2. ASSUME NEW p \in Procs, PutNote(p)
        PROVE  \E n \in Notes : \E body : notes' = [notes EXCEPT ![n] = body]
    BY <2>2 DEF PutNote
  <2>3. ASSUME NEW p \in Procs, Delete(p) PROVE notes' = [n \in Notes |-> notes'[n]]
    BY <2>3 DEF Delete
  <2> QED
    BY <2>1, <2>2, <2>3, Changes DEF NotesSeen
<1>2. ASSUME NEW p \in Procs, At(p, "note")', NEW a \in job'[p].todo, ~ past'.overrun
      PROVE  notes'[a[1]] # "processed"
  <2>1. ~ past.overrun
    BY <1>2, BooleansStay
  <2>2. CASE \E cmd : Acquire(p, cmd)
    <3>1. a \in Pending /\ notes' = notes
      BY <1>2, <2>2, AcquireAt DEF At, Acquire
    <3> QED
      BY <3>1 DEF Pending, Bodies
  <2>3. CASE ApplyNote(p) \/ Redirect(p)
    <3>1. Course(job[p]) /\ job[p].at = "note" /\ job'[p].todo = job[p].todo \ {Oldest(job[p].todo)}
      BY <2>3, ApplyNoteAt DEF Courses
    <3>2. Oldest(job[p].todo) \in job[p].todo
      BY <3>1, OldestIs DEF Course, NotesCourse
    <3>3. a \in job[p].todo /\ a[1] # Oldest(job[p].todo)[1]
      BY <1>2, <3>1, <3>2 DEF Course, NotesCourse
    <3>4. notes' = [notes EXCEPT ![Oldest(job[p].todo)[1]] = "processed"]
      BY <2>3, ApplyNoteAt
    <3>5. notes'[a[1]] = notes[a[1]]
      BY <3>3, <3>4 DEF NotesSeen
    <3> QED
      BY <2>1, <3>1, <3>3, <3>5 DEF NotesSeen, At
  <2>4. CASE job'[p] = job[p] /\ ~ ApplyNote(p) /\ ~ Redirect(p)
    <3>1. At(p, "note") /\ a \in job[p].todo /\ a[1] \in Notes /\ Inside(p)
      BY <1>2, <2>4 DEF At, Courses, Course, NotesCourse, OnLease, Inside, Leased
    <3>2. notes[a[1]] # "processed"
      BY <2>1, <3>1 DEF NotesSeen
    <3>3. ASSUME NEW q \in Procs, ApplyNote(q) \/ Redirect(q) PROVE FALSE
      <4>1. Inside(q)
        BY <3>3, ApplyNoteAt DEF Inside, Courses, Course, OnLease, Leased
      <4>2. q # p
        BY <2>4, <3>3
      <4> QED
        BY <2>1, <3>1, <4>1, <4>2, Alone
    <3>4. ASSUME NEW q \in Procs, PutNote(q) PROVE notes'[a[1]] # "processed"
      <4>1. PICK n \in Notes, body \in Body(job[q].cmd) : notes' = [notes EXCEPT ![n] = body]
        BY <3>4 DEF PutNote
      <4>2. body # "processed"
        BY DEF Body, Bodies
      <4> QED
        BY <3>1, <3>2, <4>1, <4>2 DEF NotesSeen
    <3>5. ASSUME NEW q \in Procs, Delete(q) PROVE notes'[a[1]] # "processed"
      BY <3>1, <3>5 DEF Delete
    <3> QED
      BY <3>2, <3>3, <3>4, <3>5, Changes
  <2> QED
    BY <1>2, <2>2, <2>3, <2>4, OneActs, ComesFrom DEF At, OthersStay
<1> QED
  BY <1>1, <1>2 DEF NotesSeen

----------------------------------------------------------------------------
(* The items *)

Starting(j) == j.cmd = "start" /\ j.at \in {"save", "add", "items"}

\* What a start has still to save.
Unmade(j) == IF j.at = "items" THEN j.hand ELSE Items

InHand(p, i) == At(p, "hand") /\ i \in job[p].hand

\* There is one start, and what it has not saved yet is nobody's.
Unsaved ==
  /\ \A p, q \in Procs : Starting(job[p]) /\ Starting(job[q]) => p = q
  /\ \A p \in Procs : Starting(job[p]) =>
       \A i \in Unmade(job[p]) :
         items[i] = "unsaved" /\ tasks[i] = 0 /\ \A q \in Procs : ~ InHand(q, i)
  /\ commands = MaxCommands + 1 => \A i \in Items : tasks[i] = 0

\* An item that is ready, or in the hands of a tick, has no task yet but those it was
\* redirected with, and it is in the hands of one tick only.
HandOnce ==
  \A i \in Items \ past.raced :
    /\ tasks[i] <= 1 + past.redirects[i]
    /\ items[i] = "ready" => tasks[i] <= past.redirects[i]
    /\ \A p \in Procs : InHand(p, i) => tasks[i] <= past.redirects[i]
    /\ \A p, q \in Procs : InHand(p, i) /\ InHand(q, i) => p = q

\* Whoever is about to complete the mission for its items has seen one that has a task.
DoneHasTask ==
  /\ \A i \in Items : items[i] \in {"out", "done"} => tasks[i] > 0
  /\ \A p \in Procs : job[p].draft = "Completed" /\ job[p].at \in {"hand", "save_sched"} =>
       \E i \in Items : tasks[i] > 0

LEMMA HandOutTasks ==
  ASSUME IInv, NEW p \in Procs, HandOut(p), NEW i \in Items
  PROVE  /\ i \in job[p].hand => items'[i] = "out" /\ tasks'[i] = tasks[i] + 1
         /\ i \notin job[p].hand => items'[i] = items[i] /\ tasks'[i] = tasks[i]
<1>1. items'[i] = IF i \in job[p].hand THEN "out" ELSE items[i]
  BY DEF HandOut
<1>2. tasks'[i] = tasks[i] + (IF i \in job[p].hand THEN 1 ELSE 0)
  BY DEF HandOut
<1>3. tasks[i] \in Nat
  BY DEF IInv, TypeOK
<1> QED
  BY <1>1, <1>2, <1>3

\* A redirected item is out, with one more task or those it had.
LEMMA RedirectIs ==
  ASSUME IInv, NEW p \in Procs, Redirect(p), NEW i \in Items
  PROVE  \/ /\ items[i] # "unsaved" /\ items'[i] = "out" /\ tasks'[i] > 0
            /\ \E new \in {0, 1} : /\ tasks'[i] = tasks[i] + new
                                  /\ past'.redirects[i] = past.redirects[i] + new
         \/ /\ items'[i] = items[i] /\ tasks'[i] = tasks[i]
            /\ past'.redirects[i] = past.redirects[i]
<1>1. PICK k \in Known, new \in {0, 1} :
        /\ tasks[k] + new > 0
        /\ items' = [items EXCEPT ![k] = "out"]
        /\ tasks' = [tasks EXCEPT ![k] = @ + new]
        /\ past' = [past EXCEPT !.redirects[k] = @ + new]
  BY DEF Redirect
<1>2. past'.redirects = [past.redirects EXCEPT ![k] = @ + new]
  BY <1>1 DEF IInv, PastOK
<1>3. k \in Items /\ items[k] # "unsaved"
  BY DEF Known
<1>4. CASE i = k
  <2>1. items'[i] = "out" /\ tasks'[i] = tasks[i] + new /\ tasks[i] + new > 0
    BY <1>1, <1>4 DEF IInv, TypeOK
  <2>2. past'.redirects[i] = past.redirects[i] + new
    BY <1>2, <1>4 DEF IInv, PastOK
  <2> QED
    BY <1>3, <1>4, <2>1, <2>2
<1>5. CASE i # k
  <2>1. items'[i] = items[i] /\ tasks'[i] = tasks[i]
    BY <1>1, <1>5 DEF IInv, TypeOK
  <2>2. past'.redirects[i] = past.redirects[i]
    BY <1>2, <1>5 DEF IInv, PastOK
  <2> QED
    BY <2>1, <2>2
<1> QED
  BY <1>4, <1>5

LEMMA TasksGrow ==
  ASSUME IInv, [Next]_vars, NEW i \in Items
  PROVE  tasks'[i] >= tasks[i] /\ tasks[i] \in Nat /\ tasks'[i] \in Nat
<1>1. tasks[i] \in Nat /\ tasks'[i] \in Nat
  BY NextOK DEF IInv, TypeOK
<1>2. ASSUME NEW p \in Procs, HandOut(p) PROVE tasks'[i] >= tasks[i]
  BY <1>1, <1>2, HandOutTasks
<1>3. ASSUME NEW p \in Procs, Redirect(p) PROVE tasks'[i] >= tasks[i]
  BY <1>1, <1>3, RedirectIs
<1> QED
  BY <1>1, <1>2, <1>3, Changes

LEMMA DoneStillHasTask ==
  ASSUME IInv, Courses, DoneHasTask, [Next]_vars
  PROVE  DoneHasTask'
<1>1. ASSUME NEW i \in Items, items'[i] \in {"out", "done"} PROVE tasks'[i] > 0
  <2>1. CASE items'[i] = items[i]
    BY <1>1, <2>1, TasksGrow DEF DoneHasTask
  <2>2. ASSUME NEW p \in Procs, HandOut(p) PROVE tasks'[i] > 0
    BY <1>1, <2>2, HandOutTasks, TasksGrow DEF DoneHasTask
  <2>3. ASSUME NEW p \in Procs, SaveItem(p) PROVE items'[i] = items[i]
    <3>1. PICK k : items' = [items EXCEPT ![k] = "ready"]
      BY <2>3 DEF SaveItem
    <3> QED
      BY <1>1, <3>1 DEF IInv, TypeOK
  <2>4. ASSUME NEW p \in Procs, Delete(p) PROVE FALSE
    BY <1>1, <2>4 DEF Delete
  <2>5. ASSUME NEW p \in Operators, NEW k \in Items, FinishItem(p, k) PROVE tasks'[i] > 0
    <3>1. items[i] \in {"out", "done"}
      BY <1>1, <2>5 DEF FinishItem, IInv, TypeOK
    <3> QED
      BY <3>1, TasksGrow DEF DoneHasTask
  <2>6. ASSUME NEW p \in Procs, Redirect(p) PROVE tasks'[i] > 0 \/ items'[i] = items[i]
    BY <2>6, RedirectIs
  <2>7. ASSUME NEW k \in Items, Submit(k) PROVE tasks'[i] > 0
    <3>1. items[i] \in {"out", "done"}
      BY <1>1, <2>7 DEF Submit, IInv, TypeOK
    <3> QED
      BY <3>1, TasksGrow DEF DoneHasTask
  <2> QED
    BY <2>1, <2>2, <2>3, <2>4, <2>5, <2>6, <2>7, Changes
<1>2. ASSUME NEW p \in Procs, job'[p].draft = "Completed", job'[p].at \in {"hand", "save_sched"}
      PROVE  \E i \in Items : tasks'[i] > 0
  <2>1. ASSUME \E i \in Items : tasks[i] > 0 PROVE \E i \in Items : tasks'[i] > 0
    BY <2>1, TasksGrow
  <2>2. CASE ReadMission(p)
    <3>1. AllDone
      <4>1. /\ job'[p].at = "hand" => job'[p].draft = (IF AllDone THEN "Completed" ELSE record)
            /\ job'[p].at = "hand" => record = "Running"
            /\ job'[p].at # "hand" => job'[p].draft = "Absent"
        BY <2>2, ReadMissionAt, AfterSchedIs
      <4> QED
        BY <1>2, <4>1
    <3>2. \E i \in Items : items[i] = "done"
      BY <3>1 DEF AllDone, Known
    <3> QED
      BY <2>1, <3>2 DEF DoneHasTask
  <2>3. CASE HandOut(p)
    <3>1. job[p].draft = "Completed" /\ job[p].at = "hand"
      BY <1>2, <2>3, HandOutAt, AfterSchedIs DEF HandOut, At
    <3> QED
      BY <2>1, <3>1 DEF DoneHasTask
  <2>4. CASE job'[p] = job[p]
    BY <1>2, <2>1, <2>4 DEF DoneHasTask
  <2> QED
    BY <1>2, <2>2, <2>3, <2>4, OneActs, ComesFrom DEF OthersStay
<1> QED
  BY <1>1, <1>2 DEF DoneHasTask

\* A start comes from nothing but a start.
LEMMA StartsFrom ==
  ASSUME IInv, Courses, NEW p \in Procs, Acts(p), Starting(job'[p])
  PROVE  \/ Start(p)
         \/ /\ Starting(job[p]) /\ Unmade(job'[p]) \subseteq Unmade(job[p])
            /\ SaveItem(p) => \A i \in Unmade(job'[p]) : items'[i] = items[i]
<1>1. JobsOK /\ Course(job[p]) /\ JobOK(job[p])
  BY DEF IInv, Courses, JobsOK
<1>2. job'[p].cmd = "start" /\ job'[p].at \in {"save", "add", "items"}
  BY DEF Starting
<1>3. CASE Poll(p) \/ TickOnce(p)
  <2>1. PICK cmd : Acquire(p, cmd)
    BY <1>3 DEF Poll, TickOnce
  <2> QED
    BY <1>2, <2>1, AcquireAt
<1>4. CASE \/ TickElsewhere(p) \/ SaveWatch(p) \/ ReadWatch(p) \/ Release(p)
           \/ (ReadRecord(p) /\ record = "Absent") \/ RemoveActive(p) \/ ItemsSaved(p) \/ PutNote(p)
  <2>1. PICK at : Moves(p, at) /\ at \notin {"save", "add", "items"}
    BY <1>4 DEF TickElsewhere, SaveWatch, ReadWatch, Release, ReadRecord, RemoveActive,
      ItemsSaved, PutNote, AfterTick, AfterSched
  <2> QED
    BY <1>1, <1>2, <2>1, MovesTo
<1>5. CASE ReadRecord(p) /\ record # "Absent"
  <2>1. Drafts(p, job[p].cmd, "save_tick", record)
    BY <1>5 DEF ReadRecord
  <2> QED
    BY <1>1, <1>2, <2>1, DraftsAt
<1>6. CASE ApplyNote(p) \/ Redirect(p) \/ ReadMission(p) \/ HandOut(p)
  BY <1>2, <1>6, ApplyNoteAt, ReadMissionAt, HandOutAt, AfterSchedIs
<1>7. CASE SaveRecord(p)
  <2>1. AfterSave(p) \in {"save", "add", "items"} => job[p].at = "save" /\ AfterSave(p) = "add"
    BY DEF AfterSave, AfterSched
  <2>2. job[p].at = "save" /\ job'[p].at = "add" /\ job[p].cmd = "start"
    BY <1>2, <1>7, <2>1, SaveRecordAt
  <2>3. ~ SaveItem(p)
    BY <2>2 DEF SaveItem, At
  <2> QED
    BY <2>2, <2>3 DEF Starting, Unmade
<1>8. CASE AddActive(p)
  <2>1. job[p].cmd = "start" /\ job'[p].at = "items" /\ job'[p].hand = Items /\ job[p].at = "add"
    BY <1>2, <1>8, AddActiveAt, IdleIs DEF AddActive, At
  <2>2. ~ SaveItem(p)
    BY <2>1 DEF SaveItem, At
  <2> QED
    BY <2>1, <2>2 DEF Starting, Unmade
<1>9. CASE SaveItem(p)
  <2>1. PICK i \in job[p].hand : job' = [job EXCEPT ![p].hand = @ \ {i}] /\ items' = [items EXCEPT ![i] = "ready"]
    BY <1>9 DEF SaveItem
  <2>2. /\ job'[p].hand = job[p].hand \ {i} /\ job[p].at = "items" /\ job'[p].at = "items"
        /\ job'[p].cmd = job[p].cmd
    BY <1>9, <2>1, SaveItemAt DEF SaveItem, At
  <2> QED
    BY <1>1, <1>2, <2>1, <2>2 DEF Starting, Unmade, JobOK, IInv, TypeOK
<1>10. CASE Check(p)
  <2>1. PICK at : Moves(p, at) /\ at \in {"add", "idle"}
    BY <1>10 DEF Check
  <2>2. job[p].cmd = "mcp_resume"
    BY <1>1, <1>10 DEF Check, At, Course
  <2> QED
    BY <1>1, <1>2, <2>1, <2>2, MovesTo
<1>11. CASE Order(p)
  <2>1. Start(p) \/ job'[p].cmd # "start"
    BY <1>11, OrderAt
  <2> QED
    BY <1>2, <2>1
<1>12. CASE Crash(p)
  BY <1>2, <1>12, CrashAt, IdleIs
<1>13. ASSUME NEW i \in Items, FinishItem(p, i) PROVE FALSE
  <2>1. job' = job /\ job[p].at = "idle"
    BY <1>2, <1>13, FinishItemAt
  <2> QED
    BY <1>2, <2>1
<1> QED
  BY <1>2, <1>3, <1>4, <1>5, <1>6, <1>7, <1>8, <1>9, <1>10, <1>11, <1>12, <1>13
    DEF Acts, Step, TickStep

LEMMA CommandsShrink ==
  ASSUME IInv, [Next]_vars
  PROVE  commands' <= commands
<1>1. commands \in Int
  BY MissionControlConstants DEF IInv, Fresh
<1>2. ASSUME NEW p \in Procs, Step(p) PROVE commands' = commands
  BY <1>2 DEF Step, TickStep, Poll, TickOnce, TickElsewhere, ApplyNote, Redirect, ReadWatch, SaveWatch,
    ReadMission, HandOut, ReadRecord, Release, SaveRecord, AddActive, RemoveActive, SaveItem,
    ItemsSaved, PutNote, Check, Acquire, bounds
<1>3. ASSUME NEW p \in Procs, Order(p) PROVE commands' = commands - 1
  BY <1>3 DEF Order, Start, Command, McpNote, DispatchOnce, Delete, Gives
<1>4. ASSUME NEW p \in Procs, Crash(p) PROVE commands' = commands
  BY <1>4 DEF Crash
<1>5. ASSUME NEW p \in Operators, NEW i \in Items, FinishItem(p, i) PROVE commands' = commands
  BY <1>5 DEF FinishItem, bounds
<1>6. CASE (\E i \in Items : Submit(i)) \/ LeaseRunsOut \/ DeadLeaseRunsOut \/ UNCHANGED vars
  BY <1>1, <1>6 DEF Submit, LeaseRunsOut, DeadLeaseRunsOut, vars, bounds
<1> QED
  BY <1>1, <1>2, <1>3, <1>4, <1>5, <1>6 DEF Next

LEMMA AccidentsCount ==
  ASSUME accidents \in Nat, [Next]_vars
  PROVE  accidents' \in Nat
<1>1. ASSUME NEW p \in Procs, Step(p) PROVE accidents' = accidents
  BY <1>1 DEF Step, TickStep, Poll, TickOnce, TickElsewhere, ApplyNote, Redirect, ReadWatch, SaveWatch,
    ReadMission, HandOut, ReadRecord, Release, SaveRecord, AddActive, RemoveActive, SaveItem,
    ItemsSaved, PutNote, Check, Acquire, bounds
<1>2. ASSUME NEW p \in Procs, Order(p) PROVE accidents' = accidents
  BY <1>2 DEF Order, Start, Command, McpNote, DispatchOnce, Delete
<1>3. ASSUME NEW p \in Procs, Crash(p) PROVE accidents' \in Nat
  BY <1>3 DEF Crash
<1>4. ASSUME NEW p \in Operators, NEW i \in Items, FinishItem(p, i) PROVE accidents' = accidents
  BY <1>4 DEF FinishItem, bounds
<1>5. CASE (\E i \in Items : Submit(i)) \/ LeaseRunsOut \/ DeadLeaseRunsOut \/ UNCHANGED vars
  BY <1>5 DEF Submit, LeaseRunsOut, DeadLeaseRunsOut, vars, bounds
<1> QED
  BY <1>1, <1>2, <1>3, <1>4, <1>5 DEF Next

LEMMA UnsavedStays ==
  ASSUME IInv, Courses, Unsaved, [Next]_vars
  PROVE  Unsaved'
<1>1. ASSUME NEW p \in Procs, Starting(job'[p]), NEW i \in Unmade(job'[p])
      PROVE  \/ Start(p)
             \/ /\ Starting(job[p]) /\ i \in Unmade(job[p])
                /\ SaveItem(p) => items'[i] = items[i]
  <2>1. CASE Acts(p)
    BY <1>1, <2>1, StartsFrom
  <2>2. CASE ~ Acts(p)
    <3>1. job'[p] = job[p] /\ ~ SaveItem(p)
      BY <2>2, OneActs DEF OthersStay, Acts, Step
    <3> QED
      BY <1>1, <3>1
  <2> QED
    BY <2>1, <2>2
<1>2. ASSUME NEW p \in Procs, Start(p)
      PROVE  /\ \A q \in Procs : job[q].at = "idle" /\ (q # p => job'[q] = job[q])
             /\ job'[p].at = "save" /\ items' = items /\ tasks' = tasks
             /\ \A i \in Items : items[i] = "unsaved" /\ tasks[i] = 0
  <2>1. commands = MaxCommands + 1 /\ Drafts(p, "start", "save", "Running")
    BY <1>2 DEF Start
  <2>2. job'[p].at = "save" /\ OthersStay(p)
    BY <2>1, DraftsAt DEF IInv
  <2> QED
    BY <1>2, <2>1, <2>2 DEF Start, IInv, Fresh, Unsaved, OthersStay
<1>3. ASSUME NEW p \in Procs, NEW q \in Procs, Starting(job'[p]), Starting(job'[q]), p # q
      PROVE  FALSE
  <2>1. ASSUME NEW r \in Procs, Starting(job'[r]) PROVE Start(r) \/ Starting(job[r])
    <3>1. CASE Acts(r)
      BY <2>1, <3>1, StartsFrom
    <3>2. CASE ~ Acts(r)
      BY <2>1, <3>2, OneActs DEF OthersStay
    <3> QED
      BY <3>1, <3>2
  <2>2. ~ Start(p) /\ ~ Start(q)
    BY <1>2, <1>3 DEF Starting
  <2> QED
    BY <1>3, <2>1, <2>2 DEF Unsaved
<1>4. ASSUME NEW p \in Procs, Starting(job'[p]), NEW i \in Unmade(job'[p])
      PROVE  items'[i] = "unsaved" /\ tasks'[i] = 0 /\ \A q \in Procs : ~ InHand(q, i)'
  <2>1. i \in Items
    BY <1>4, NextOK DEF Unmade, IInv, JobsOK, JobOK
  <2>2. CASE Start(p)
    BY <1>2, <2>1, <2>2 DEF InHand, At
  <2>3. CASE ~ Start(p)
    <3>1. /\ Starting(job[p]) /\ i \in Unmade(job[p])
          /\ SaveItem(p) => items'[i] = items[i]
      BY <1>1, <1>4, <2>3
    <3>2. items[i] = "unsaved" /\ tasks[i] = 0 /\ \A q \in Procs : ~ InHand(q, i)
      BY <3>1 DEF Unsaved
    <3>3. ASSUME NEW q \in Procs, HandOut(q) PROVE items'[i] = items[i] /\ tasks'[i] = tasks[i]
      BY <2>1, <3>2, <3>3, HandOutTasks DEF InHand, HandOut
    <3>4. ASSUME NEW q \in Procs, SaveItem(q) PROVE items'[i] = items[i]
      <4>1. Starting(job[q])
        BY <3>4 DEF SaveItem, At, Starting, IInv, JobsOK, JobOK
      <4>2. q = p
        BY <3>1, <4>1 DEF Unsaved
      <4> QED
        BY <3>1, <3>4, <4>2
    <3>5. ASSUME NEW q \in Operators, NEW k \in Items, FinishItem(q, k) PROVE items'[i] = items[i]
      BY <3>2, <3>5 DEF FinishItem
    <3>6. ASSUME NEW q \in Procs, Delete(q) PROVE items'[i] = "unsaved"
      BY <2>1, <3>6 DEF Delete
    <3>9. ASSUME NEW q \in Procs, Redirect(q) PROVE items'[i] = items[i] /\ tasks'[i] = tasks[i]
      BY <2>1, <3>2, <3>9, RedirectIs
    <3>10. ASSUME NEW k \in Items, Submit(k) PROVE items'[i] = items[i]
      BY <3>2, <3>10 DEF Submit
    <3>7. items'[i] = "unsaved" /\ tasks'[i] = 0
      BY <3>2, <3>3, <3>4, <3>5, <3>6, <3>9, <3>10, Changes
    <3>8. ASSUME NEW q \in Procs, InHand(q, i)' PROVE FALSE
      <4>1. CASE job'[q] = job[q]
        BY <3>2, <3>8, <4>1 DEF InHand, At
      <4>2. CASE job'[q] # job[q]
        <5>1. ReadMission(q) /\ job'[q].at = "hand" /\ i \in job'[q].hand
          BY <3>8, <4>2, OneActs, ComesFrom DEF OthersStay, InHand, At
        <5>2. items[i] = "ready"
          BY <5>1, ReadMissionAt, AfterSchedIs
        <5> QED
          BY <3>2, <5>2
      <4> QED
        BY <4>1, <4>2
    <3> QED
      BY <3>7, <3>8
  <2> QED
    BY <2>2, <2>3
<1>5. ASSUME commands' = MaxCommands + 1, NEW i \in Items PROVE tasks'[i] = 0
  <2>1. commands = MaxCommands + 1
    BY <1>5, CommandsShrink, MissionControlConstants DEF IInv, Fresh
  <2>2. tasks[i] = 0 /\ \A p \in Procs : job[p].at = "idle"
    BY <2>1 DEF Unsaved, IInv, Fresh
  <2> QED
    BY <2>2, Changes DEF HandOut, Redirect, At
<1> QED
  BY <1>3, <1>4, <1>5 DEF Unsaved

LEMMA RacedGrows ==
  ASSUME IInv, [Next]_vars
  PROVE  past.raced \subseteq past'.raced
<1> USE DEF IInv, PastOK
<1>1. ASSUME NEW p \in Procs,
             SaveRecord(p) \/ AddActive(p) \/ RemoveActive(p) \/ Release(p) \/ Crash(p)
      PROVE  past'.raced = past.raced
  BY <1>1 DEF SaveRecord, AddActive, RemoveActive, Release, Crash
<1>2. ASSUME NEW p \in Procs, ReadMission(p) PROVE past.raced \subseteq past'.raced
  <2>1. CASE past' = past
    BY <2>1
  <2>2. CASE past' # past
    <3>1. PICK more : past' = [past EXCEPT !.raced = @ \cup more]
      BY <1>2, <2>2 DEF ReadMission
    <3> QED
      BY <3>1
  <2> QED
    BY <2>1, <2>2
<1>3. LeaseRunsOut => past'.raced = past.raced
  BY DEF LeaseRunsOut
<1>4. ASSUME NEW p \in Procs, Redirect(p) PROVE past'.raced = past.raced
  BY <1>4, NoteStep
<1> QED
  BY <1>1, <1>2, <1>3, <1>4, Changes

\* The count of redirects is left alone by everything else.
LEMMA RedirectsStay ==
  ASSUME IInv, [Next]_vars, \A p \in Procs : ~ Redirect(p)
  PROVE  past'.redirects = past.redirects
<1> USE DEF IInv, PastOK
<1>1. ASSUME NEW p \in Procs,
             SaveRecord(p) \/ AddActive(p) \/ RemoveActive(p) \/ Release(p) \/ Crash(p)
      PROVE  past'.redirects = past.redirects
  BY <1>1 DEF SaveRecord, AddActive, RemoveActive, Release, Crash
<1>2. ASSUME NEW p \in Procs, ReadMission(p), past' # past PROVE past'.redirects = past.redirects
  <2>1. PICK more : past' = [past EXCEPT !.raced = @ \cup more]
    BY <1>2 DEF ReadMission
  <2> QED
    BY <2>1
<1>3. LeaseRunsOut => past'.redirects = past.redirects
  BY DEF LeaseRunsOut
<1> QED
  BY <1>1, <1>2, <1>3, Changes

\* A tick that takes what another has in its hands has no lease to itself.
LEMMA Apart ==
  ASSUME IInv, NEW p \in Procs, NEW q \in Procs, p # q, NEW i,
         ReadMission(p), job'[p].at = "hand", i \in job'[p].hand, InHand(q, i)
  PROVE  i \in past'.raced
<1>1. /\ job'[p].cmd = job[p].cmd
      /\ past' = [past EXCEPT !.raced = @ \cup
                    UNION {job'[p].hand \cap job[r].hand : r \in {r \in Procs : Unguarded(p, r)}}]
  BY ReadMissionAt, AfterSchedIs
<1>2. CASE Unguarded(p, q)
  <2>1. i \in UNION {job'[p].hand \cap job[r].hand : r \in {r \in Procs : Unguarded(p, r)}}
    BY <1>2 DEF InHand
  <2> QED
    BY <1>1, <2>1 DEF IInv, PastOK
<1>3. CASE ~ Unguarded(p, q)
  <2>1. /\ p \notin past.outlived /\ q \notin past.outlived
        /\ job[p].cmd \notin Unleased /\ job[q].cmd \notin Unleased
    BY <1>3 DEF Unguarded, InHand
  <2>2. Inside(p) /\ Inside(q)
    BY <2>1 DEF Inside, Leased, ReadMission, InHand, At
  <2> QED
    BY <2>1, <2>2 DEF IInv, LeaseIsHeld
<1> QED
  BY <1>2, <1>3

LEMMA HandsStayOnce ==
  ASSUME IInv, Courses, Unsaved, HandOnce, [Next]_vars
  PROVE  HandOnce'
<1> SUFFICES ASSUME NEW i \in Items, i \notin past'.raced
             PROVE  /\ tasks'[i] <= 1 + past'.redirects[i]
                    /\ items'[i] = "ready" => tasks'[i] <= past'.redirects[i]
                    /\ \A p \in Procs : InHand(p, i)' => tasks'[i] <= past'.redirects[i]
                    /\ \A p, q \in Procs : InHand(p, i)' /\ InHand(q, i)' => p = q
  BY DEF HandOnce
<1>1. /\ tasks[i] <= 1 + past.redirects[i]
      /\ items[i] = "ready" => tasks[i] <= past.redirects[i]
      /\ \A p \in Procs : InHand(p, i) => tasks[i] <= past.redirects[i]
      /\ \A p, q \in Procs : InHand(p, i) /\ InHand(q, i) => p = q
  BY RacedGrows DEF HandOnce
<1>0. tasks[i] \in Nat /\ past.redirects[i] \in Nat
  BY DEF IInv, TypeOK, PastOK
<1>3. ASSUME NEW p \in Procs, InHand(p, i)'
      PROVE  InHand(p, i) \/ (/\ ReadMission(p) /\ job'[p].at = "hand" /\ i \in job'[p].hand
                              /\ items[i] = "ready" /\ tasks' = tasks)
  <2>1. CASE job'[p] = job[p]
    BY <1>3, <2>1 DEF InHand, At
  <2>2. CASE job'[p] # job[p]
    <3>1. ReadMission(p) /\ job'[p].at = "hand" /\ i \in job'[p].hand
      BY <1>3, <2>2, OneActs, ComesFrom DEF OthersStay, InHand, At
    <3>2. items[i] = "ready" /\ tasks' = tasks
      BY <3>1, ReadMissionAt, AfterSchedIs DEF ReadMission
    <3> QED
      BY <3>1, <3>2
  <2> QED
    BY <2>1, <2>2
<1> DEFINE Goal == /\ tasks'[i] <= 1 + past'.redirects[i]
                   /\ items'[i] = "ready" => tasks'[i] <= past'.redirects[i]
                   /\ \A p \in Procs : InHand(p, i)' => tasks'[i] <= past'.redirects[i]
\* The item is handed out by the one tick that had it in its hands.
<1>4. ASSUME NEW p \in Procs, HandOut(p), i \in job[p].hand PROVE Goal
  <2>1. InHand(p, i)
    BY <1>4 DEF InHand, HandOut
  <2>2. items'[i] = "out" /\ tasks'[i] = tasks[i] + 1
    BY <1>4, HandOutTasks
  <2>3. ~ InHand(p, i)' /\ past' = past
    BY <1>4, HandOutAt DEF InHand, HandOut
  <2>4. ASSUME NEW q \in Procs, InHand(q, i)' PROVE FALSE
    <3>1. q # p
      BY <2>3, <2>4
    <3>2. ~ InHand(q, i)
      BY <1>1, <2>1, <3>1
    <3>3. tasks' = tasks
      BY <1>3, <2>4, <3>2
    <3> QED
      BY <1>0, <2>2, <3>3
  <2> QED
    BY <1>0, <1>1, <2>1, <2>2, <2>3, <2>4
\* It gets as many tasks as redirects.
<1>5. ASSUME NEW p \in Procs, Redirect(p) PROVE Goal
  <2>1. ASSUME NEW q \in Procs, InHand(q, i)' PROVE InHand(q, i) \/ items[i] = "ready"
    BY <1>3, <2>1
  <2>2. ASSUME items'[i] = "ready" PROVE items[i] = "ready"
    BY <1>5, <2>2, RedirectIs
  <2>3. PICK new \in {0, 1} : /\ tasks'[i] = tasks[i] + new
                             /\ past'.redirects[i] = past.redirects[i] + new
    BY <1>0, <1>5, RedirectIs
  <2>4. CASE tasks[i] <= past.redirects[i]
    BY <1>0, <2>3, <2>4
  <2>5. CASE ~ tasks[i] <= past.redirects[i]
    BY <1>0, <1>1, <2>1, <2>2, <2>3, <2>5
  <2> QED
    BY <2>4, <2>5
\* Otherwise its tasks stay, and it becomes ready only as the start saves it.
<1>6. ASSUME \A p \in Procs : ~ Redirect(p),
             \A p \in Procs : HandOut(p) => i \notin job[p].hand
      PROVE  Goal
  <2>1. past'.redirects = past.redirects
    BY <1>6, RedirectsStay
  <2>2. tasks'[i] = tasks[i]
    BY <1>6, HandOutTasks, Changes
  <2>3. ASSUME items'[i] = "ready" PROVE tasks[i] <= past.redirects[i]
    <3>1. CASE items'[i] = items[i]
      BY <1>1, <2>3, <3>1
    <3>2. ASSUME NEW p \in Procs, SaveItem(p), items'[i] # items[i] PROVE tasks[i] = 0
      <4>1. PICK k \in job[p].hand : items' = [items EXCEPT ![k] = "ready"]
        BY <3>2 DEF SaveItem
      <4>2. i \in job[p].hand /\ job[p].at = "items" /\ job[p].cmd = "start"
        BY <3>2, <4>1 DEF IInv, TypeOK, SaveItem, At, JobsOK, JobOK
      <4> QED
        BY <4>2 DEF Unsaved, Starting, Unmade
    <3>3. ASSUME NEW p \in Procs, Delete(p) PROVE FALSE
      BY <2>3, <3>3 DEF Delete
    <3>4. ASSUME NEW p \in Operators, NEW k \in Items, FinishItem(p, k) PROVE items'[i] = items[i]
      BY <2>3, <3>4 DEF FinishItem, IInv, TypeOK
    <3>5. ASSUME NEW k \in Items, Submit(k) PROVE items'[i] = items[i]
      BY <2>3, <3>5 DEF Submit, IInv, TypeOK
    <3>6. ASSUME NEW p \in Procs, HandOut(p) PROVE items'[i] = items[i]
      BY <1>6, <3>6, HandOutTasks
    <3> QED
      BY <1>0, <1>6, <3>1, <3>2, <3>3, <3>4, <3>5, <3>6, Changes
  <2>4. ASSUME NEW p \in Procs, InHand(p, i)' PROVE tasks[i] <= past.redirects[i]
    BY <1>1, <1>3, <2>4
  <2> QED
    BY <1>1, <2>1, <2>2, <2>3, <2>4
<1>8. Goal
  BY <1>4, <1>5, <1>6
<1>7. ASSUME NEW p \in Procs, NEW q \in Procs, InHand(p, i)', InHand(q, i)', p # q
      PROVE  FALSE
  <2>1. job'[p] = job[p] \/ job'[q] = job[q]
    BY <1>7, OneActs DEF OthersStay
  <2>2. ASSUME NEW r \in Procs, NEW s \in Procs, r # s, job'[s] = job[s], InHand(r, i)', InHand(s, i)'
        PROVE  FALSE
    <3>1. InHand(s, i)
      BY <2>2 DEF InHand, At
    <3>2. ~ InHand(r, i)
      BY <1>1, <2>2, <3>1
    <3>3. ReadMission(r) /\ job'[r].at = "hand" /\ i \in job'[r].hand
      BY <1>3, <2>2, <3>2
    <3> QED
      BY <2>2, <3>1, <3>3, Apart
  <2> QED
    BY <1>7, <2>1, <2>2
<1> QED
  BY <1>7, <1>8

----------------------------------------------------------------------------
(* The invariant of the others' work *)

MoreInv ==
  /\ Courses /\ Booleans /\ Overrun
  /\ RunningIsActive /\ WatchSeen /\ NotesSeen
  /\ Unsaved /\ HandOnce /\ DoneHasTask

LEMMA MoreInit == Init => MoreInv
<1> SUFFICES ASSUME Init PROVE MoreInv
  OBVIOUS
<1>1. /\ record = "Absent" /\ past.outlived = {} /\ past.overrun = FALSE /\ past.mislaid = FALSE
      /\ past.raced = {}
      /\ \A i \in Items : items[i] = "unsaved" /\ tasks[i] = 0 /\ past.redirects[i] = 0
      /\ \A p \in Procs : job[p] = Idle
  BY DEF Init
<1>2. Courses
  BY <1>1, IdleCourse DEF Courses
<1>3. Booleans /\ Overrun /\ RunningIsActive
  BY <1>1 DEF Booleans, Overrun, RunningIsActive
<1>4. WatchSeen /\ NotesSeen
  BY <1>1, IdleIs DEF WatchSeen, NotesSeen, At, Init
<1>5. \A p \in Procs : ~ Starting(job[p]) /\ \A i \in Items : ~ InHand(p, i)
  BY <1>1, IdleIs DEF Starting, InHand, At
<1>6. Unsaved
  BY <1>1, <1>5 DEF Unsaved
<1>7. HandOnce
  BY <1>1, <1>5 DEF HandOnce
<1>8. DoneHasTask
  BY <1>1, IdleIs DEF DoneHasTask
<1> QED
  BY <1>2, <1>3, <1>4, <1>6, <1>7, <1>8 DEF MoreInv

LEMMA MoreNext == IInv /\ MoreInv /\ [Next]_vars => MoreInv'
BY CoursesStay, BooleansStay, OverrunStays, RunningStaysActive, WatchStaysSeen, NotesStaySeen,
   UnsavedStays, HandsStayOnce, DoneStillHasTask DEF MoreInv

LEMMA MoreInvariance == Spec => [](IInv /\ MoreInv)
<1>1. Init => IInv /\ MoreInv
  BY InitOK, MoreInit
<1>2. (IInv /\ MoreInv) /\ [Next]_vars => (IInv /\ MoreInv)'
  BY NextOK, MoreNext
<1> QED
  BY <1>1, <1>2, PTL DEF Spec

\* A mission that is Running is in the active set or about to be put there, unless an
\* overtaken copy of the record was written, a note set a stopped mission going, or a
\* handler died in between: the orders of the writes of start, resume, stop and completion
\* leave no other way.
THEOREM RunningMissionIsActive == Spec => []RunningIsActive
<1>1. IInv /\ MoreInv => RunningIsActive
  BY DEF MoreInv
<1> QED
  BY <1>1, MoreInvariance, PTL

\* However many dispatchers, starts and completions tick the scheduler, and whatever items
\* the operators redirect in whatever state, an item has no more tasks than the one it is
\* handed out with and one for each redirect, but for two ticks that saw it ready at the
\* same time, of which the lease kept not even one apart.
THEOREM ItemHandedOutOnce == Spec => []HandedOutOnce
<1>1. IInv /\ MoreInv => HandedOutOnce
  BY DEF MoreInv, HandOnce, HandedOutOnce
<1> QED
  BY <1>1, MoreInvariance, PTL

\* No dispatcher that asked GitHub about a watch reopens one that was completed
\* meanwhile, as long as none outlives its lease: only a submission opens it again.
THEOREM DoneWatchStays == Spec => WatchStaysDone
<1>1. ASSUME IInv, MoreInv, [Next]_vars, watch = "Done", watch' = "Active",
             ~ \E i \in Items : Submit(i)
      PROVE  past.overrun
  <2>1. \A p \in Procs : ~ Delete(p) /\ ~ ApplyNote(p)
    BY <1>1 DEF Delete, ApplyNote
  <2>2. PICK p \in Procs : SaveWatch(p)
    BY <1>1, <2>1, Changes
  <2> QED
    BY <1>1, <2>2 DEF SaveWatch, MoreInv, WatchSeen
<1>2. IInv /\ MoreInv /\ [Next]_vars =>
        [watch = "Done" /\ watch' = "Active" =>
           past.overrun \/ \E i \in Items : Submit(i)]_vars
  BY <1>1
<1> QED
  BY <1>2, MoreInvariance, PTL DEF Spec, WatchStaysDone

\* The scheduler completes a mission only when it has seen an item that was handed out;
\* otherwise an operator did, or a copy of a completed record is written back.
THEOREM CompletedMissionHasItems == Spec => CompletedHasItems
<1>1. ASSUME IInv, MoreInv, [Next]_vars, record # "Completed", record' = "Completed"
      PROVE  \/ \E i \in Items : tasks[i] > 0
             \/ \E p \in Procs : /\ At(p, "save") \/ At(p, "save_tick") \/ At(p, "save_notes")
                                 /\ job[p].cmd = "complete" \/ job[p].read[1] = "Completed"
  <2>1. \A p \in Procs : ~ Delete(p)
    BY <1>1 DEF Delete
  <2>2. PICK p \in Procs : SaveRecord(p)
    BY <1>1, <2>1, Changes
  <2>3. job[p].draft = "Completed" /\ job[p].at \in Saving /\ Course(job[p])
    BY <1>1, <2>2 DEF SaveRecord, Saving, MoreInv, Courses
  <2>4. CASE job[p].at = "save_sched"
    BY <1>1, <2>3, <2>4 DEF MoreInv, DoneHasTask
  <2>5. CASE job[p].at # "save_sched"
    BY <2>3, <2>5 DEF Course, DraftCourse, Saving, At
  <2> QED
    BY <2>4, <2>5
<1>2. IInv /\ MoreInv /\ [Next]_vars =>
        [(record # "Completed") /\ record' = "Completed" =>
          \/ \E i \in Items : tasks[i] > 0
          \/ \E p \in Procs : /\ At(p, "save") \/ At(p, "save_tick") \/ At(p, "save_notes")
                              /\ job[p].cmd = "complete" \/ job[p].read[1] = "Completed"]_vars
  BY <1>1
<1> QED
  BY <1>2, MoreInvariance, PTL DEF Spec, CompletedHasItems

LEMMA NoteIsCarriedOver ==
  ASSUME IInv, MoreInv, accidents \in Nat, [Next]_vars, NEW p \in Procs,
         job[p].took # {}, job'[p].took = {}
  PROVE  record' = job[p].draft \/ accidents' < accidents
<1>1. Acts(p) /\ Course(job[p])
  BY OneActs DEF MoreInv, Courses, OthersStay
<1>2. job[p].at \in {"note", "save_notes"}
  BY <1>1 DEF Course, NotesCourse
<1>3. CASE ApplyNote(p) \/ Redirect(p)
  BY <1>3, ApplyNoteAt
<1>4. CASE SaveRecord(p)
  BY <1>4 DEF SaveRecord
<1>5. CASE Crash(p)
  BY <1>5 DEF Crash
<1>6. ~ Order(p) /\ \A i \in Items : ~ FinishItem(p, i)
  BY <1>2, OrderAt, FinishItemAt
<1>7. CASE Step(p) /\ ~ ApplyNote(p) /\ ~ Redirect(p) /\ ~ SaveRecord(p)
  BY <1>2, <1>7 DEF Step, TickStep, Poll, TickOnce, TickElsewhere, ReadWatch, SaveWatch,
    ReadMission, HandOut, ReadRecord, Release, AddActive, RemoveActive, SaveItem,
    ItemsSaved, PutNote, Check, At
<1> QED
  BY <1>1, <1>3, <1>4, <1>5, <1>6, <1>7 DEF Acts

LEMMA NoteIsTakenOnce ==
  ASSUME IInv, MoreInv, [Next]_vars, NEW p \in Procs,
         NEW n \in job'[p].took \ job[p].took, notes[n] = "processed"
  PROVE  past.overrun
<1>1. Acts(p)
  BY OneActs DEF MoreInv, OthersStay
<1>2. job'[p].at \in {"note", "save_notes"}
  <2>1. Courses'
    BY CoursesStay DEF MoreInv
  <2> QED
    BY <2>1 DEF Courses, Course, NotesCourse
<1>3. ApplyNote(p) \/ Redirect(p)
  <2>1. \A cmd : ~ Acquire(p, cmd)
    BY AcquireAt
  <2> QED
    BY <1>1, <1>2, <2>1, ComesFrom
<1>4. n = Oldest(job[p].todo)[1]
  BY <1>3, ApplyNoteAt
<1>5. job[p].at = "note" /\ Course(job[p])
  BY <1>3, ApplyNoteAt DEF MoreInv, Courses
<1>6. Oldest(job[p].todo) \in job[p].todo
  BY <1>5, OldestIs DEF Course, NotesCourse
<1> QED
  BY <1>4, <1>5, <1>6 DEF MoreInv, NotesSeen, At

\* A note takes effect once: the dispatcher that has taken a note writes what it asks for
\* before it goes on, unless it dies; and no dispatcher takes a note that is processed, as
\* long as none outlives its lease. Between the read of the notes and their marks lie all
\* the steps of a tick, and only the lease keeps another tick out.
THEOREM NoteEffectOnce == Spec => NoteTakesEffectOnce
<1>1. Spec => [](accidents \in Nat)
  <2>1. Init => accidents \in Nat
    BY MissionControlConstants DEF Init
  <2>2. accidents \in Nat /\ [Next]_vars => (accidents \in Nat)'
    BY AccidentsCount
  <2> QED
    BY <2>1, <2>2, PTL DEF Spec
<1>2. IInv /\ MoreInv /\ accidents \in Nat /\ [Next]_vars =>
        [\A p \in Procs : job[p].took # {} /\ job'[p].took = {} =>
           record' = job[p].draft \/ accidents' < accidents]_vars
  BY NoteIsCarriedOver
<1>3. IInv /\ MoreInv /\ [Next]_vars =>
        [\A p \in Procs : \A n \in job'[p].took \ job[p].took :
           notes[n] = "processed" => past.overrun]_vars
  BY NoteIsTakenOnce
<1> QED
  BY <1>1, <1>2, <1>3, MoreInvariance, PTL
    DEF Spec, NoteTakesEffectOnce, NoteReachesRecord, NoteAppliedOnce
=============================================================================
