-------------------------- MODULE AgentLoopProofs --------------------------
(***************************************************************************)
(* Theorems about AgentLoop: type correctness, and that no message is lost *)
(* or handled twice, for any number of loops, tasks, notes and             *)
(* disturbances.                                                           *)
(***************************************************************************)
EXTENDS AgentLoop, TLAPS

----------------------------------------------------------------------------
(* The inductive invariant behind TypeOK *)

\* Where a process is, or will be when it has written the record.
At(p) == IF pc[p] = "save" THEN then[p] ELSE pc[p]

Busy == {"work", "start", "run"}

\* A process in a round has a round left, and only such a one holds messages.
Positions ==
  \A p \in Loops : /\ At(p) \in {"check", "take"} \cup Busy => left[p] > 0
                   /\ hand[p] # {} => At(p) \in Busy

IInv == TypeOK /\ Positions

----------------------------------------------------------------------------
(* The helpers *)

LEMMA RecordTypes ==
  ASSUME NEW r \in AgentRecord
  PROVE  /\ \A s \in AgentState : [r EXCEPT !.state = s] \in AgentRecord
         /\ \A c \in Tasks \cup {NoTask} : [r EXCEPT !.current = c] \in AgentRecord
         /\ ToIdle(r) \in AgentRecord
         /\ ClearTerminal(r) \in AgentRecord
         /\ r.current \in Tasks \cup {NoTask}
BY DEF AgentRecord, AgentState, ToIdle, ClearTerminal

LEMMA GoneType == Gone \in AgentRecord
BY DEF Gone, AgentRecord

LEMMA GotoMoves ==
  ASSUME TypeOK, NEW p \in Loops, NEW place \in Places \ {"save"}, Goto(p, place)
  PROVE  /\ pc' \in [Loops -> Places] /\ then' \in [Loops -> Places]
         /\ draft' \in [Loops -> AgentRecord]
         /\ At(p)' = place
         /\ \A q \in Loops \ {p} : At(q)' = At(q)
BY DEF TypeOK, Goto, At, Places

LEMMA LoadMoves ==
  ASSUME TypeOK, NEW p \in Loops, NEW place \in Places \ {"save"},
         NEW record, agent # Gone => record \in AgentRecord, Load(p, record, place)
  PROVE  /\ pc' \in [Loops -> Places] /\ then' \in [Loops -> Places]
         /\ draft' \in [Loops -> AgentRecord]
         /\ At(p)' = place
         /\ \A q \in Loops \ {p} : At(q)' = At(q)
BY GoneType DEF TypeOK, Load, At, Places

LEMMA TakesType ==
  ASSUME TypeOK, NEW p \in Loops, NEW taken \in Takes(p)
  PROVE  taken \subseteq inbox \cup {Prompt} /\ taken \subseteq Messages
BY DEF TypeOK, Takes, Messages

LEMMA BeginType ==
  ASSUME TypeOK, NEW name, NEW record \in AgentRecord, Begin(name, record),
         name \in {"kill", "interrupt", "resume", "close", "restart", "mcp_restart",
                   "recover", "prune"}
  PROVE  /\ command' \in Command
         /\ budget' \in 0 .. MaxDisturbances
         /\ command'.name = name /\ name \in Disturbances
BY AgentLoopConstants DEF TypeOK, Begin, Disturb, Command

LEMMA DisturbType ==
  ASSUME TypeOK, NEW what, Disturb(what)
  PROVE  budget' \in 0 .. MaxDisturbances
BY AgentLoopConstants DEF TypeOK, Disturb

----------------------------------------------------------------------------
(* The loop keeps the invariant *)

\* A step that moves one process, and neither its messages nor its rounds.
LEMMA MoveKeepsPositions ==
  ASSUME Positions, NEW p \in Loops, NEW place, UNCHANGED <<hand, left>>,
         At(p)' = place, \A q \in Loops \ {p} : At(q)' = At(q),
         place \in {"check", "take"} \cup Busy => At(p) \in {"check", "take"} \cup Busy \/ left[p] > 0,
         hand[p] # {} => place \in Busy
  PROVE  Positions'
BY DEF Positions

LEMMA LoopKeepsIInv ==
  ASSUME IInv, NEW p \in Loops, LoopStep(p)
  PROVE  IInv'
<1> USE DEF IInv
<1>0. agent \in AgentRecord
  BY DEF TypeOK
<1>1. CASE Save(p)
  <2>1. TypeOK'
    BY <1>1, GoneType DEF Save, TypeOK
  <2>2. \A q \in Loops : At(q)' = At(q)
    BY <1>1 DEF Save, At, TypeOK
  <2>3. Positions'
    BY <1>1, <2>2 DEF Save, Positions
  <2> QED BY <2>1, <2>3
<1>2. CASE Top(p)
  <2>1. /\ AfterTop(p) \in Places \ {"save"}
        /\ AfterTop(p) \in {"exit", "clear", "check"}
        /\ AfterTop(p) = "check" => left[p] > 0
    BY AgentLoopConstants DEF AfterTop, Places, TypeOK
  <2>2. TypeOK'
    BY <1>2, <2>1, GotoMoves DEF Top, TypeOK
  <2>3. hand[p] = {}
    BY <1>2 DEF Top, Positions, At, Busy
  <2>4. Positions'
    <3>1. UNCHANGED <<hand, left>>
      BY <1>2 DEF Top
    <3>2. At(p)' = AfterTop(p) /\ \A q \in Loops \ {p} : At(q)' = At(q)
      BY <1>2, <2>1, GotoMoves DEF Top
    <3> QED BY <2>1, <2>3, <3>1, <3>2, MoveKeepsPositions DEF Busy
  <2> QED BY <2>2, <2>4
<1>3. CASE ClearStop(p)
  <2>1. "exit" \in Places \ {"save"}
    BY DEF Places
  <2>2. TypeOK'
    BY <1>3, <2>1, GotoMoves DEF ClearStop, TypeOK
  <2>3. hand[p] = {}
    BY <1>3 DEF ClearStop, Positions, At, Busy
  <2>4. Positions'
    BY <1>3, <2>1, <2>3, GotoMoves, MoveKeepsPositions DEF ClearStop, Busy
  <2> QED BY <2>2, <2>4
<1>4. CASE CheckPaused(p)
  <2> DEFINE place == IF Held THEN "top" ELSE "take"
  <2>1. place \in Places \ {"save"}
    BY DEF Places
  <2>2. Goto(p, place)
    BY <1>4 DEF CheckPaused
  <2>3. TypeOK'
    BY <1>4, <2>1, <2>2, GotoMoves DEF CheckPaused, TypeOK
  <2>4. hand[p] = {} /\ At(p) = "check"
    BY <1>4 DEF CheckPaused, Positions, At, Busy
  <2>5. place \notin Busy
    BY DEF Busy
  <2>6. UNCHANGED <<hand, left>>
    BY <1>4 DEF CheckPaused
  <2>7. At(p)' = place /\ \A q \in Loops \ {p} : At(q)' = At(q)
    BY <2>1, <2>2, GotoMoves
  <2> HIDE DEF place
  <2>8. Positions'
    BY <2>4, <2>5, <2>6, <2>7, MoveKeepsPositions
  <2> QED BY <2>3, <2>8
<1>5. CASE TakeNothing(p, FALSE)
  <2>1. "top" \in Places \ {"save"} /\ "top" \notin {"check", "take"} \cup Busy
    BY DEF Places, Busy
  <2>2. ToIdle(ClearTerminal(agent)) \in AgentRecord
    BY <1>0, RecordTypes
  <2>3. Load(p, ToIdle(ClearTerminal(agent)), "top")
    BY <1>5 DEF TakeNothing
  <2>4. TypeOK'
    BY <1>5, <2>1, <2>2, <2>3, LoadMoves DEF TakeNothing, TypeOK
  <2>5. hand[p] = {}
    BY <1>5 DEF TakeNothing, Positions, At, Busy
  <2>6. At(p)' = "top" /\ \A q \in Loops \ {p} : At(q)' = At(q)
    BY <2>1, <2>2, <2>3, LoadMoves
  <2>7. UNCHANGED <<hand, left>>
    BY <1>5 DEF TakeNothing
  <2>8. Positions'
    BY <2>1, <2>5, <2>6, <2>7, MoveKeepsPositions
  <2> QED BY <2>4, <2>8
<1>6. CASE Dismiss(p)
  <2>1. "top" \in Places \ {"save"} /\ "top" \notin {"check", "take"} \cup Busy
    BY DEF Places, Busy
  <2>2. ToIdle(agent) \in AgentRecord
    BY <1>0, RecordTypes
  <2>3. Load(p, ToIdle(agent), "top")
    BY <1>6 DEF Dismiss
  <2>4. TypeOK'
    BY <1>6, <2>1, <2>2, <2>3, LoadMoves DEF Dismiss, TypeOK
  <2>5. hand[p] = {}
    BY <1>6 DEF Dismiss, Positions, At, Busy
  <2>6. At(p)' = "top" /\ \A q \in Loops \ {p} : At(q)' = At(q)
    BY <2>1, <2>2, <2>3, LoadMoves
  <2>7. UNCHANGED <<hand, left>>
    BY <1>6 DEF Dismiss
  <2>8. Positions'
    BY <2>1, <2>5, <2>6, <2>7, MoveKeepsPositions
  <2> QED BY <2>4, <2>8
<1>7. CASE Take(p)
  <2>1. "work" \in Places \ {"save"} /\ "work" \in Busy
    BY DEF Places, Busy
  <2>2. PICK taken \in Takes(p) :
          /\ hand' = [hand EXCEPT ![p] = taken]
          /\ inbox' = inbox \ taken
          /\ \/ Goto(p, "work")
             \/ \E t \in Tasks : Load(p, [agent EXCEPT !.current = t], "work")
    BY <1>7 DEF Take
  <2>3. /\ pc' \in [Loops -> Places] /\ then' \in [Loops -> Places]
        /\ draft' \in [Loops -> AgentRecord]
        /\ At(p)' = "work"
        /\ \A q \in Loops \ {p} : At(q)' = At(q)
    <3>1. CASE Goto(p, "work")
      BY <2>1, <3>1, GotoMoves
    <3>2. CASE \E t \in Tasks : Load(p, [agent EXCEPT !.current = t], "work")
      <4>1. PICK t \in Tasks : Load(p, [agent EXCEPT !.current = t], "work")
        BY <3>2
      <4>2. [agent EXCEPT !.current = t] \in AgentRecord
        BY <1>0, RecordTypes
      <4> QED BY <2>1, <4>1, <4>2, LoadMoves
    <3> QED BY <2>2, <3>1, <3>2
  <2>4. taken \subseteq Messages
    BY TakesType
  <2>5. TypeOK'
    BY <1>7, <2>2, <2>3, <2>4 DEF Take, TypeOK
  <2>6. left[p] > 0 /\ left' = left
    BY <1>7 DEF Take, Positions, At, Busy
  <2>7. Positions'
    BY <2>1, <2>2, <2>3, <2>6 DEF Positions, TypeOK
  <2> QED BY <2>5, <2>7
<1>8. CASE MarkWorking(p)
  <2>1. "start" \in Places \ {"save"} /\ "start" \in Busy
    BY DEF Places, Busy
  <2>2. [agent EXCEPT !.state = "Working"] \in AgentRecord
    BY <1>0, RecordTypes DEF AgentState
  <2>3. TypeOK'
    BY <1>8, <2>1, <2>2, LoadMoves DEF MarkWorking, TypeOK
  <2>4. At(p) \in Busy
    BY <1>8 DEF MarkWorking, At, Busy
  <2>5. At(p)' = "start" /\ \A q \in Loops \ {p} : At(q)' = At(q)
    BY <1>8, <2>1, <2>2, LoadMoves DEF MarkWorking
  <2>6. UNCHANGED <<hand, left>>
    BY <1>8 DEF MarkWorking
  <2>7. Positions'
    BY <2>1, <2>4, <2>5, <2>6, MoveKeepsPositions
  <2> QED BY <2>3, <2>7
<1>9. CASE Start(p)
  <2>1. "run" \in Places \ {"save"} /\ "run" \in Busy
    BY DEF Places, Busy
  <2>2. TypeOK'
    BY <1>9, <2>1, GotoMoves DEF Start, TypeOK
  <2>3. At(p) \in Busy
    BY <1>9 DEF Start, At, Busy
  <2>4. At(p)' = "run" /\ \A q \in Loops \ {p} : At(q)' = At(q)
    BY <1>9, <2>1, GotoMoves DEF Start
  <2>5. UNCHANGED <<hand, left>>
    BY <1>9 DEF Start
  <2>6. Positions'
    BY <2>1, <2>3, <2>4, <2>5, MoveKeepsPositions
  <2> QED BY <2>2, <2>6
<1>10. CASE \E t \in Tasks : CompleteTask(p, t)
  <2>1. PICK t \in Tasks : CompleteTask(p, t)
    BY <1>10
  <2>2. "run" \in Places \ {"save"} /\ "run" \in Busy
    BY DEF Places, Busy
  <2> DEFINE record == [agent EXCEPT !.current = IF @ = t THEN NoTask ELSE @]
  <2>3. record \in AgentRecord
    BY <1>0 DEF AgentRecord
  <2>4. Load(p, record, "run")
    BY <2>1 DEF CompleteTask
  <2> HIDE DEF record
  <2>5. /\ pc' \in [Loops -> Places] /\ then' \in [Loops -> Places]
        /\ draft' \in [Loops -> AgentRecord]
        /\ At(p)' = "run"
        /\ \A q \in Loops \ {p} : At(q)' = At(q)
    BY <2>2, <2>3, <2>4, LoadMoves
  <2>6. TypeOK'
    BY <2>1, <2>5 DEF CompleteTask, TypeOK
  <2>7. At(p) \in Busy /\ UNCHANGED <<hand, left>>
    BY <2>1 DEF CompleteTask, At, Busy
  <2>8. Positions'
    BY <2>2, <2>5, <2>7, MoveKeepsPositions
  <2> QED BY <2>6, <2>8
<1>11. CASE RoundEnds(p)
  <2>1. "end" \in Places \ {"save"} /\ "end" \notin {"check", "take"} \cup Busy
    BY DEF Places, Busy
  <2>2. left[p] > 0
    BY <1>11 DEF RoundEnds, Positions, At, Busy
  <2>3. left' \in [Loops -> 0 .. MaxRounds]
    BY <1>11, <2>2, AgentLoopConstants DEF RoundEnds, TypeOK
  <2>4. TypeOK'
    BY <1>11, <2>1, <2>3, GotoMoves DEF RoundEnds, TypeOK
  <2>5. At(p)' = "end" /\ \A q \in Loops \ {p} : At(q)' = At(q)
    BY <1>11, <2>1, GotoMoves DEF RoundEnds
  <2>6. /\ hand'[p] = {}
        /\ \A q \in Loops \ {p} : hand'[q] = hand[q] /\ left'[q] = left[q]
    BY <1>11 DEF RoundEnds, TypeOK
  <2>7. Positions'
    BY <2>1, <2>5, <2>6 DEF Positions
  <2> QED BY <2>4, <2>7
<1>12. CASE AfterRound(p)
  <2>1. "top" \in Places \ {"save"} /\ "top" \notin {"check", "take"} \cup Busy
    BY DEF Places, Busy
  <2>2. ToIdle(ClearTerminal(agent)) \in AgentRecord
    BY <1>0, RecordTypes
  <2>3. TypeOK'
    BY <1>12, <2>1, <2>2, LoadMoves DEF AfterRound, TypeOK
  <2>4. hand[p] = {}
    BY <1>12 DEF AfterRound, Positions, At, Busy
  <2>5. At(p)' = "top" /\ \A q \in Loops \ {p} : At(q)' = At(q)
    BY <1>12, <2>1, <2>2, LoadMoves DEF AfterRound
  <2>6. UNCHANGED <<hand, left>>
    BY <1>12 DEF AfterRound
  <2>7. Positions'
    BY <2>1, <2>4, <2>5, <2>6, MoveKeepsPositions
  <2> QED BY <2>3, <2>7
<1>13. CASE Exit(p)
  <2>1. "off" \in Places \ {"save"} /\ "off" \notin {"check", "take"} \cup Busy
    BY DEF Places, Busy
  <2>2. [agent EXCEPT !.state = "Stopped"] \in AgentRecord
    BY <1>0, RecordTypes DEF AgentState
  <2>3. TypeOK'
    BY <1>13, <2>1, <2>2, LoadMoves DEF Exit, TypeOK
  <2>4. hand[p] = {}
    BY <1>13 DEF Exit, Positions, At, Busy
  <2>5. At(p)' = "off" /\ \A q \in Loops \ {p} : At(q)' = At(q)
    BY <1>13, <2>1, <2>2, LoadMoves DEF Exit
  <2>6. UNCHANGED <<hand, left>>
    BY <1>13 DEF Exit
  <2>7. Positions'
    BY <2>1, <2>4, <2>5, <2>6, MoveKeepsPositions
  <2> QED BY <2>3, <2>7
<1> QED
  BY <1>1, <1>2, <1>3, <1>4, <1>5, <1>6, <1>7, <1>8, <1>9, <1>10, <1>11, <1>12, <1>13
     DEF LoopStep

----------------------------------------------------------------------------
(* What comes between keeps the invariant *)

LEMMA TimeoutKeepsIInv ==
  ASSUME IInv, NEW p \in Loops, TakeNothing(p, TRUE)
  PROVE  IInv'
<1> USE DEF IInv
<1> DEFINE record == [ToIdle(ClearTerminal(agent)) EXCEPT !.state = "Draining"]
<1>1. "exit" \in Places \ {"save"} /\ "exit" \notin {"check", "take"} \cup Busy
  BY DEF Places, Busy
<1>2. ToIdle(ClearTerminal(agent)) \in AgentRecord
  BY RecordTypes DEF TypeOK
<1>3. record \in AgentRecord
  BY <1>2, RecordTypes DEF AgentState
<1>4. Load(p, record, "exit")
  BY DEF TakeNothing
<1> HIDE DEF record
<1>5. TypeOK'
  BY <1>1, <1>3, <1>4, LoadMoves DEF TakeNothing, TypeOK
<1>6. hand[p] = {} /\ UNCHANGED <<hand, left>>
  BY DEF TakeNothing, Positions, At, Busy
<1>7. At(p)' = "exit" /\ \A q \in Loops \ {p} : At(q)' = At(q)
  BY <1>1, <1>3, <1>4, LoadMoves
<1>8. Positions'
  BY <1>1, <1>6, <1>7, MoveKeepsPositions
<1> QED BY <1>5, <1>8

LEMMA FailureKeepsIInv ==
  ASSUME IInv, NEW p \in Loops, NEW started \in BOOLEAN, RoundFails(p, started)
  PROVE  IInv'
<1> USE DEF IInv
<1> DEFINE place == IF started THEN "end" ELSE "exit"
           record == [agent EXCEPT !.current = NoTask]
<1>1. place \in Places \ {"save"} /\ place \notin {"check", "take"} \cup Busy
  BY DEF Places, Busy
<1>2. record \in AgentRecord
  BY RecordTypes DEF TypeOK
<1>3. Load(p, record, place)
  BY DEF RoundFails
<1>4. left[p] > 0
  BY DEF RoundFails, Positions, At, Busy
<1>5. left' \in [Loops -> 0 .. MaxRounds]
  BY <1>4, AgentLoopConstants DEF RoundFails, TypeOK
<1>6. Requeued(p) \subseteq Messages
  BY DEF Requeued, TypeOK
<1> HIDE DEF place, record
<1>7. /\ pc' \in [Loops -> Places] /\ then' \in [Loops -> Places]
      /\ draft' \in [Loops -> AgentRecord]
      /\ At(p)' = place
      /\ \A q \in Loops \ {p} : At(q)' = At(q)
  BY <1>1, <1>2, <1>3, LoadMoves
<1>8. budget' \in 0 .. MaxDisturbances
  BY DisturbType DEF RoundFails
<1>9. TypeOK'
  BY <1>5, <1>6, <1>7, <1>8 DEF RoundFails, TypeOK
<1>10. /\ hand'[p] = {}
       /\ \A q \in Loops \ {p} : hand'[q] = hand[q] /\ left'[q] = left[q]
  BY DEF RoundFails, TypeOK
<1>11. Positions'
  BY <1>1, <1>7, <1>10 DEF Positions
<1> QED BY <1>9, <1>11

LEMMA CrashKeepsIInv ==
  ASSUME IInv, NEW p \in Loops, Crash(p)
  PROVE  IInv'
<1> USE DEF IInv
<1>1. budget' \in 0 .. MaxDisturbances
  BY DisturbType DEF Crash
<1>2. TypeOK'
  BY <1>1, GoneType DEF Crash, TypeOK, Places
<1>3. /\ hand'[p] = {} /\ At(p)' = "off"
      /\ \A q \in Loops \ {p} : hand'[q] = hand[q] /\ At(q)' = At(q)
      /\ left' = left
  BY DEF Crash, TypeOK, At
<1>4. Positions'
  BY <1>3 DEF Positions, Busy
<1> QED BY <1>2, <1>4

\* What neither moves a process nor touches what it holds.
LEMMA OutsideKeepsPositions ==
  ASSUME Positions, UNCHANGED loopVars
  PROVE  Positions'
BY DEF Positions, At, loopVars

LEMMA CommandKeepsIInv ==
  ASSUME IInv, CommandStep
  PROVE  IInv'
<1> USE DEF IInv
<1>1. agent \in AgentRecord /\ command \in Command
  BY DEF TypeOK
<1>2. \A s \in AgentState : AsState(s) \in AgentRecord
  BY <1>1, RecordTypes DEF AsState
<1>3. CASE Kill
  <2>1. command' \in Command /\ budget' \in 0 .. MaxDisturbances
    BY <1>2, <1>3, BeginType DEF Kill, AgentState
  <2>2. TypeOK'
    BY <1>3, <2>1 DEF Kill, TypeOK, loopVars
  <2> QED BY <1>3, <2>2, OutsideKeepsPositions DEF Kill
<1>4. CASE Interrupt
  <2>1. command' \in Command /\ budget' \in 0 .. MaxDisturbances
    BY <1>2, <1>4, BeginType DEF Interrupt, AgentState
  <2>2. TypeOK'
    BY <1>4, <2>1 DEF Interrupt, TypeOK, loopVars
  <2> QED BY <1>4, <2>2, OutsideKeepsPositions DEF Interrupt
<1>5. CASE Resume
  <2>1. command' \in Command /\ budget' \in 0 .. MaxDisturbances
    BY <1>2, <1>5, BeginType DEF Resume, AgentState
  <2>2. TypeOK'
    BY <1>5, <2>1 DEF Resume, TypeOK, loopVars
  <2> QED BY <1>5, <2>2, OutsideKeepsPositions DEF Resume
<1>6. CASE Close
  <2>1. command' \in Command /\ budget' \in 0 .. MaxDisturbances
    BY <1>2, <1>6, BeginType DEF Close, AgentState
  <2>2. TypeOK'
    BY <1>6, <2>1 DEF Close, TypeOK, loopVars
  <2> QED BY <1>6, <2>2, OutsideKeepsPositions DEF Close
<1>7. CASE Restart
  <2>1. command' \in Command /\ budget' \in 0 .. MaxDisturbances
    BY <1>2, <1>7, BeginType DEF Restart, AgentState
  <2>2. TypeOK'
    BY <1>7, <2>1 DEF Restart, TypeOK, loopVars
  <2> QED BY <1>7, <2>2, OutsideKeepsPositions DEF Restart
<1>8. CASE McpRestart
  <2>1. command' \in Command /\ budget' \in 0 .. MaxDisturbances
    BY <1>2, <1>8, BeginType DEF McpRestart, AgentState
  <2>2. TypeOK'
    BY <1>8, <2>1 DEF McpRestart, TypeOK, loopVars
  <2> QED BY <1>8, <2>2, OutsideKeepsPositions DEF McpRestart
<1>9. CASE Recover
  <2>1. command' \in Command /\ budget' \in 0 .. MaxDisturbances
    BY <1>2, <1>9, BeginType DEF Recover, AgentState
  <2>2. TypeOK'
    BY <1>9, <2>1 DEF Recover, TypeOK, loopVars
  <2> QED BY <1>9, <2>2, OutsideKeepsPositions DEF Recover
<1>10. CASE Prune
  <2>1. command' \in Command /\ budget' \in 0 .. MaxDisturbances
    BY <1>10, GoneType, BeginType DEF Prune
  <2>2. TypeOK'
    BY <1>10, <2>1 DEF Prune, TypeOK, loopVars
  <2> QED BY <1>10, <2>2, OutsideKeepsPositions DEF Prune
<1>11. CASE Finish
  <2>1. command.draft \in AgentRecord /\ NoCommand \in Command
    BY <1>1, GoneType DEF Command, NoCommand
  <2>2. /\ stop' \in BOOLEAN
        /\ inbox' \subseteq Messages /\ lost' \subseteq Messages
    BY <1>11 DEF Finish, TypeOK
  <2>3. /\ pc' \in [Loops -> Places] /\ then' \in [Loops -> Places]
        /\ draft' \in [Loops -> AgentRecord]
        /\ left' \in [Loops -> 0 .. MaxRounds]
        /\ Positions'
    <3>1. CASE command.name = "restart"
      <4>1. PICK p \in Loops \ Alive : /\ Goto(p, "top")
                                       /\ left' = [left EXCEPT ![p] = MaxRounds]
        BY <1>11, <3>1 DEF Finish
      <4>2. "top" \in Places \ {"save"} /\ "top" \notin {"check", "take"} \cup Busy
        BY DEF Places, Busy
      <4>3. hand[p] = {} /\ hand' = hand
        BY <1>11 DEF Finish, Alive, Positions, At, Busy
      <4>4. left' \in [Loops -> 0 .. MaxRounds]
        BY <4>1, AgentLoopConstants DEF TypeOK
      <4>5. \A q \in Loops \ {p} : left'[q] = left[q]
        BY <4>1 DEF TypeOK
      <4>6. Positions'
        BY <4>1, <4>2, <4>3, <4>5, GotoMoves DEF Positions
      <4> QED BY <4>1, <4>2, <4>4, <4>6, GotoMoves
    <3>2. CASE command.name # "restart"
      <4>1. UNCHANGED loopVars
        BY <1>11, <3>2 DEF Finish, loopVars
      <4> QED BY <4>1, OutsideKeepsPositions DEF TypeOK, loopVars
    <3> QED BY <3>1, <3>2
  <2>4. TypeOK'
    BY <1>11, <2>1, <2>2, <2>3 DEF Finish, TypeOK
  <2> QED BY <2>3, <2>4
<1> QED
  BY <1>3, <1>4, <1>5, <1>6, <1>7, <1>8, <1>9, <1>10, <1>11 DEF CommandStep

LEMMA InitIInv ==
  ASSUME Init
  PROVE  IInv
<1>1. [state |-> "Starting", current |-> NoTask] \in AgentRecord
  BY DEF AgentRecord, AgentState
<1>2. NoCommand \in Command
  BY GoneType DEF NoCommand, Command
<1>3. TypeOK
  <2>1. agent \in AgentRecord /\ command \in Command
    BY <1>1, <1>2 DEF Init
  <2>2. left \in [Loops -> 0 .. MaxRounds] /\ budget \in 0 .. MaxDisturbances
    BY AgentLoopConstants DEF Init
  <2>3. draft \in [Loops -> AgentRecord]
    BY GoneType DEF Init
  <2> QED BY <2>1, <2>2, <2>3 DEF Init, TypeOK, Places
<1>4. Positions
  BY DEF Init, Positions, At, Busy
<1> QED BY <1>3, <1>4 DEF IInv

LEMMA NextKeepsIInv ==
  ASSUME IInv, [Next]_vars
  PROVE  IInv'
<1>1. CASE \E p \in Loops : \/ LoopStep(p)
                            \/ TakeNothing(p, TRUE)
                            \/ \E started \in BOOLEAN : RoundFails(p, started)
                            \/ Crash(p)
  BY <1>1, LoopKeepsIInv, TimeoutKeepsIInv, FailureKeepsIInv, CrashKeepsIInv
<1>2. CASE CommandStep
  BY <1>2, CommandKeepsIInv
<1>3. CASE StopExpires
  <2>1. budget' \in 0 .. MaxDisturbances
    BY <1>3, DisturbType DEF StopExpires, IInv
  <2> QED BY <1>3, <2>1, OutsideKeepsPositions DEF StopExpires, IInv, TypeOK, loopVars
<1>4. ASSUME NEW t \in Tasks, Assign(t) PROVE IInv'
  BY <1>4, OutsideKeepsPositions DEF Assign, IInv, TypeOK, loopVars, Messages
<1>5. ASSUME NEW m \in Notes, SendNote(m) PROVE IInv'
  BY <1>5, OutsideKeepsPositions DEF SendNote, IInv, TypeOK, loopVars, Messages
<1>6. CASE UNCHANGED vars
  BY <1>6 DEF IInv, TypeOK, Positions, At, vars, loopVars
<1> QED BY <1>1, <1>2, <1>3, <1>4, <1>5, <1>6 DEF Next

\* In every reachable state the agent's record, its inbox, its processes and the
\* commands under way are well formed. In particular no process runs more rounds
\* than --max-rounds, which is what the positions are needed for.
THEOREM TypeCorrect == Spec => []TypeOK
<1>1. Init => IInv
  BY InitIInv
<1>2. IInv /\ [Next]_vars => IInv'
  BY NextKeepsIInv
<1>3. IInv => TypeOK
  BY DEF IInv
<1> QED BY <1>1, <1>2, <1>3, PTL DEF Spec

----------------------------------------------------------------------------
(* No message is lost or handled twice *)

\* What MessageInOnePlace needs to be inductive: what was sent is a task that
\* was assigned, or no task, and agents are pruned only if that is admitted.
SentIsAssigned == \A t \in Tasks : t \in Sent => tasks[t] # "Unsent"

PruneAdmitted == command.name = "prune" => "prune" \in Disturbances

MInv == IInv /\ MessageInOnePlace /\ SentIsAssigned /\ PruneAdmitted

LEMMA HolderIsAlive ==
  ASSUME Positions, NEW p \in Loops, hand[p] # {}
  PROVE  p \in Alive
BY DEF Positions, At, Busy, Alive

\* A step that moves no message, and assigns no task.
LEMMA StillKeepsMessages ==
  ASSUME MInv, IInv', UNCHANGED <<inbox, hand, served, lost>>,
         \A t \in Tasks : tasks'[t] = "Unsent" <=> tasks[t] = "Unsent"
  PROVE  MessageInOnePlace' /\ SentIsAssigned'
<1>1. Sent' = Sent
  BY DEF Sent
<1>2. \A p \in Loops : hand'[p] # {} => p \in Alive'
  BY HolderIsAlive DEF IInv, Positions, At, Busy, Alive
<1> QED
  BY <1>1, <1>2 DEF MInv, MessageInOnePlace, SentIsAssigned, Apart

\* A step that moves messages of one process between the places.
LEMMA ShiftKeepsMessages ==
  ASSUME MInv, IInv', NEW p \in Loops, NEW mine,
         hand' = [hand EXCEPT ![p] = mine],
         inbox' \cup mine \cup served' \cup lost'
           \subseteq inbox \cup hand[p] \cup served \cup lost \cup {Prompt},
         inbox \cup hand[p] \cup served \cup lost
           \subseteq inbox' \cup mine \cup served' \cup lost' \cup {Prompt},
         Apart(mine, inbox' \cup served' \cup lost'),
         Apart(inbox', served'), Apart(inbox', lost'), Apart(served', lost'),
         {"crash", "prune"} \cap Disturbances = {} => lost' = {},
         \A t \in Tasks : tasks'[t] = "Unsent" <=> tasks[t] = "Unsent"
  PROVE  MessageInOnePlace' /\ SentIsAssigned'
<1>1. hand \in [Loops -> SUBSET Messages] /\ Prompt \notin Tasks
  BY AgentLoopConstants DEF MInv, IInv, TypeOK
<1>2. hand'[p] = mine /\ \A q \in Loops \ {p} : hand'[q] = hand[q]
  BY <1>1
<1>3. \A t \in Tasks : t \in Sent <=> t \in Sent'
  BY <1>1, <1>2 DEF Sent
<1>4. \A q \in Loops : hand'[q] # {} => q \in Alive'
  BY DEF IInv, Positions, At, Busy, Alive
<1>5. \A q \in Loops \ {p} :
        /\ Apart(hand[q], inbox' \cup served' \cup lost')
        /\ Apart(hand[q], mine) /\ Apart(mine, hand[q])
  BY DEF MInv, MessageInOnePlace, Apart
<1>6. \A q \in Loops : Apart(hand'[q], inbox' \cup served' \cup lost')
  BY <1>2, <1>5
<1>7. \A q, r \in Loops : q # r => Apart(hand'[q], hand'[r])
  BY <1>2, <1>5 DEF MInv, MessageInOnePlace
<1>8. MessageInOnePlace'
  BY <1>3, <1>4, <1>6, <1>7 DEF MInv, MessageInOnePlace, Apart
<1> QED
  BY <1>3, <1>8 DEF MInv, SentIsAssigned

LEMMA LoopKeepsMessages ==
  ASSUME MInv, IInv', NEW p \in Loops, LoopStep(p) \/ TakeNothing(p, TRUE)
  PROVE  MInv'
<1>1. command' = command
  BY DEF LoopStep, Save, Top, ClearStop, CheckPaused, TakeNothing, Dismiss, Take,
         MarkWorking, Start, CompleteTask, RoundEnds, AfterRound, Exit
<1>2. PruneAdmitted'
  BY <1>1 DEF MInv, PruneAdmitted
<1>3. TypeOK /\ Positions /\ MessageInOnePlace
  BY DEF MInv, IInv
<1>4. /\ Apart(inbox, served) /\ Apart(inbox, lost) /\ Apart(served, lost)
      /\ Apart(hand[p], inbox \cup served \cup lost)
      /\ {"crash", "prune"} \cap Disturbances = {} => lost = {}
  BY <1>3 DEF MessageInOnePlace
<1>5. CASE \/ Save(p) \/ Top(p) \/ ClearStop(p) \/ CheckPaused(p)
           \/ TakeNothing(p, FALSE) \/ TakeNothing(p, TRUE)
           \/ MarkWorking(p) \/ AfterRound(p) \/ Exit(p)
  <2>1. UNCHANGED <<inbox, hand, served, lost, tasks>>
    BY <1>5 DEF Save, Top, ClearStop, CheckPaused, TakeNothing, MarkWorking,
                AfterRound, Exit
  <2> QED BY <1>2, <2>1, StillKeepsMessages DEF MInv
<1>6. CASE Start(p)
  <2>1. \A t \in Tasks : tasks'[t] = "Unsent" <=> tasks[t] = "Unsent"
    BY <1>3, <1>6 DEF Start, Open, TypeOK
  <2>2. UNCHANGED <<inbox, hand, served, lost>>
    BY <1>6 DEF Start
  <2> QED BY <1>2, <2>1, <2>2, StillKeepsMessages DEF MInv
<1>7. CASE \E t \in Tasks : CompleteTask(p, t)
  <2>1. \A t \in Tasks : tasks'[t] = "Unsent" <=> tasks[t] = "Unsent"
    BY <1>3, <1>7 DEF CompleteTask, Open, TypeOK
  <2>2. UNCHANGED <<inbox, hand, served, lost>>
    BY <1>7 DEF CompleteTask
  <2> QED BY <1>2, <2>1, <2>2, StillKeepsMessages DEF MInv
<1>8. CASE Dismiss(p)
  <2>1. /\ inbox' = {} /\ served' = served \cup inbox
        /\ UNCHANGED <<hand, lost, tasks>>
    BY <1>8 DEF Dismiss
  <2>2. hand' = [hand EXCEPT ![p] = hand[p]]
    BY <1>3, <2>1 DEF TypeOK
  <2>3. /\ Apart(hand[p], inbox' \cup served' \cup lost')
        /\ Apart(inbox', served') /\ Apart(inbox', lost') /\ Apart(served', lost')
    BY <1>4, <2>1 DEF Apart
  <2>4. /\ inbox' \cup hand[p] \cup served' \cup lost'
             \subseteq inbox \cup hand[p] \cup served \cup lost \cup {Prompt}
        /\ inbox \cup hand[p] \cup served \cup lost
             \subseteq inbox' \cup hand[p] \cup served' \cup lost' \cup {Prompt}
    BY <2>1
  <2> QED BY <1>2, <1>4, <2>1, <2>2, <2>3, <2>4, ShiftKeepsMessages DEF MInv
<1>9. CASE Take(p)
  <2>1. PICK taken \in Takes(p) : /\ hand' = [hand EXCEPT ![p] = taken]
                                  /\ inbox' = inbox \ taken
    BY <1>9 DEF Take
  <2>2. UNCHANGED <<served, lost, tasks>>
    BY <1>9 DEF Take
  <2>3. taken \subseteq inbox \cup {Prompt}
    BY <1>3, TakesType
  <2>4. hand[p] = {}
    BY <1>3, <1>9 DEF Take, Positions, At, Busy
  <2>5. /\ Apart(taken, inbox' \cup served' \cup lost')
        /\ Apart(inbox', served') /\ Apart(inbox', lost') /\ Apart(served', lost')
    BY <1>4, <2>1, <2>2, <2>3 DEF Apart
  <2>6. /\ inbox' \cup taken \cup served' \cup lost'
             \subseteq inbox \cup hand[p] \cup served \cup lost \cup {Prompt}
        /\ inbox \cup hand[p] \cup served \cup lost
             \subseteq inbox' \cup taken \cup served' \cup lost' \cup {Prompt}
    BY <2>1, <2>2, <2>3, <2>4
  <2> QED BY <1>2, <1>4, <2>1, <2>2, <2>5, <2>6, ShiftKeepsMessages DEF MInv
<1>10. CASE RoundEnds(p)
  <2>1. /\ hand' = [hand EXCEPT ![p] = {}] /\ served' = served \cup hand[p]
        /\ UNCHANGED <<inbox, lost, tasks>>
    BY <1>10 DEF RoundEnds
  <2>2. /\ Apart({}, inbox' \cup served' \cup lost')
        /\ Apart(inbox', served') /\ Apart(inbox', lost') /\ Apart(served', lost')
    BY <1>4, <2>1 DEF Apart
  <2>3. /\ inbox' \cup {} \cup served' \cup lost'
             \subseteq inbox \cup hand[p] \cup served \cup lost \cup {Prompt}
        /\ inbox \cup hand[p] \cup served \cup lost
             \subseteq inbox' \cup {} \cup served' \cup lost' \cup {Prompt}
    BY <2>1
  <2> QED BY <1>2, <1>4, <2>1, <2>2, <2>3, ShiftKeepsMessages DEF MInv
<1> QED
  BY <1>5, <1>6, <1>7, <1>8, <1>9, <1>10 DEF LoopStep

LEMMA FailureKeepsMessages ==
  ASSUME MInv, IInv', NEW p \in Loops, NEW started \in BOOLEAN, RoundFails(p, started)
  PROVE  MInv'
<1>1. /\ hand' = [hand EXCEPT ![p] = {}]
      /\ inbox' = inbox \cup (hand[p] \ Notes)
      /\ served' = served \cup (hand[p] \cap Notes)
      /\ UNCHANGED <<lost, command>>
  BY DEF RoundFails, Requeued
<1>2. \A t \in Tasks : tasks'[t] = "Unsent" <=> tasks[t] = "Unsent"
  BY DEF RoundFails, MInv, IInv, TypeOK
<1>3. /\ Apart(inbox, served) /\ Apart(inbox, lost) /\ Apart(served, lost)
      /\ Apart(hand[p], inbox \cup served \cup lost)
      /\ {"crash", "prune"} \cap Disturbances = {} => lost = {}
  BY DEF MInv, MessageInOnePlace
<1>4. /\ Apart({}, inbox' \cup served' \cup lost')
      /\ Apart(inbox', served') /\ Apart(inbox', lost') /\ Apart(served', lost')
  BY <1>1, <1>3 DEF Apart
<1>5. /\ inbox' \cup {} \cup served' \cup lost'
           \subseteq inbox \cup hand[p] \cup served \cup lost \cup {Prompt}
      /\ inbox \cup hand[p] \cup served \cup lost
           \subseteq inbox' \cup {} \cup served' \cup lost' \cup {Prompt}
  BY <1>1
<1>6. PruneAdmitted'
  BY <1>1 DEF MInv, PruneAdmitted
<1> QED BY <1>1, <1>2, <1>3, <1>4, <1>5, <1>6, ShiftKeepsMessages DEF MInv

LEMMA CrashKeepsMessages ==
  ASSUME MInv, IInv', NEW p \in Loops, Crash(p)
  PROVE  MInv'
<1>1. /\ hand' = [hand EXCEPT ![p] = {}] /\ lost' = lost \cup hand[p]
      /\ UNCHANGED <<inbox, served, tasks, command>>
      /\ "crash" \in Disturbances
  BY DEF Crash, Disturb
<1>2. /\ Apart(inbox, served) /\ Apart(inbox, lost) /\ Apart(served, lost)
      /\ Apart(hand[p], inbox \cup served \cup lost)
  BY DEF MInv, MessageInOnePlace
<1>3. /\ Apart({}, inbox' \cup served' \cup lost')
      /\ Apart(inbox', served') /\ Apart(inbox', lost') /\ Apart(served', lost')
  BY <1>1, <1>2 DEF Apart
<1>4. /\ inbox' \cup {} \cup served' \cup lost'
           \subseteq inbox \cup hand[p] \cup served \cup lost \cup {Prompt}
      /\ inbox \cup hand[p] \cup served \cup lost
           \subseteq inbox' \cup {} \cup served' \cup lost' \cup {Prompt}
  BY <1>1
<1>5. {"crash", "prune"} \cap Disturbances = {} => lost' = {}
  BY <1>1
<1>6. PruneAdmitted'
  BY <1>1 DEF MInv, PruneAdmitted
<1> QED BY <1>1, <1>3, <1>4, <1>5, <1>6, ShiftKeepsMessages DEF MInv

LEMMA CommandKeepsMessages ==
  ASSUME MInv, IInv', CommandStep
  PROVE  MInv'
<1>1. CASE CommandStep /\ ~Finish
  <2>1. UNCHANGED <<inbox, hand, served, lost, tasks>>
    BY <1>1 DEF CommandStep, Kill, Interrupt, Resume, Close, Restart, McpRestart,
                Recover, Prune, loopVars
  <2>2. PruneAdmitted'
    BY <1>1, <2>1 DEF CommandStep, Kill, Interrupt, Resume, Close, Restart, McpRestart,
                      Recover, Prune, Begin, Disturb, PruneAdmitted
  <2> QED BY <2>1, <2>2, StillKeepsMessages DEF MInv
<1>2. CASE Finish
  <2>1. /\ command' = NoCommand
        /\ inbox' = IF command.name = "prune" THEN {} ELSE inbox
        /\ lost' = IF command.name = "prune" THEN lost \cup inbox ELSE lost
        /\ UNCHANGED <<tasks, hand, served>>
    BY <1>2 DEF Finish
  <2>2. PruneAdmitted'
    BY <2>1 DEF PruneAdmitted, NoCommand
  <2>3. CASE command.name # "prune"
    BY <2>1, <2>2, <2>3, StillKeepsMessages DEF MInv
  <2>4. CASE command.name = "prune"
    <3>1. /\ inbox' = {} /\ lost' = lost \cup inbox
          /\ "prune" \in Disturbances
      BY <2>1, <2>4 DEF MInv, PruneAdmitted
    <3>2. First \in Loops /\ hand' = [hand EXCEPT ![First] = hand[First]]
      BY <2>1, AgentLoopConstants DEF MInv, IInv, TypeOK
    <3>3. /\ Apart(inbox, served) /\ Apart(inbox, lost) /\ Apart(served, lost)
          /\ Apart(hand[First], inbox \cup served \cup lost)
      BY <3>2 DEF MInv, MessageInOnePlace
    <3>4. /\ Apart(hand[First], inbox' \cup served' \cup lost')
          /\ Apart(inbox', served') /\ Apart(inbox', lost') /\ Apart(served', lost')
      BY <2>1, <3>1, <3>3 DEF Apart
    <3>5. /\ inbox' \cup hand[First] \cup served' \cup lost'
               \subseteq inbox \cup hand[First] \cup served \cup lost \cup {Prompt}
          /\ inbox \cup hand[First] \cup served \cup lost
               \subseteq inbox' \cup hand[First] \cup served' \cup lost' \cup {Prompt}
      BY <2>1, <3>1
    <3>6. {"crash", "prune"} \cap Disturbances = {} => lost' = {}
      BY <3>1
    <3> QED BY <2>1, <2>2, <3>2, <3>4, <3>5, <3>6, ShiftKeepsMessages DEF MInv
  <2> QED BY <2>3, <2>4
<1> QED BY <1>1, <1>2

\* A message that was nowhere comes into the inbox.
LEMMA NewMessageIsApart ==
  ASSUME MInv, IInv', NEW m \in (Tasks \cup Notes) \ Sent, inbox' = inbox \cup {m},
         UNCHANGED <<loopVars, served, lost, command>>,
         m \in Tasks => tasks'[m] # "Unsent",
         \A t \in Tasks \ {m} : tasks'[t] = tasks[t]
  PROVE  MInv'
<1>1. hand' = hand /\ pc' = pc
  BY DEF loopVars
<1>2. /\ m \notin inbox \cup served \cup lost
      /\ \A p \in Loops : m \notin hand[p]
  BY DEF Sent
<1>3. \A t \in Tasks : t \in Sent' <=> t \in Sent \/ t = m
  BY <1>1 DEF Sent
<1>4. Alive' = Alive
  BY <1>1 DEF Alive
<1>5. MessageInOnePlace'
  BY <1>1, <1>2, <1>3, <1>4 DEF MInv, MessageInOnePlace, Apart
<1>6. SentIsAssigned' /\ PruneAdmitted'
  BY <1>3 DEF MInv, SentIsAssigned, PruneAdmitted
<1> QED BY <1>5, <1>6 DEF MInv

LEMMA NextKeepsMessages ==
  ASSUME MInv, [Next]_vars
  PROVE  MInv'
<1>1. IInv'
  BY NextKeepsIInv DEF MInv
<1>2. CASE \E p \in Loops : \/ LoopStep(p)
                            \/ TakeNothing(p, TRUE)
                            \/ \E started \in BOOLEAN : RoundFails(p, started)
                            \/ Crash(p)
  BY <1>1, <1>2, LoopKeepsMessages, FailureKeepsMessages, CrashKeepsMessages
<1>3. CASE CommandStep
  BY <1>1, <1>3, CommandKeepsMessages
<1>4. CASE StopExpires
  <2>1. UNCHANGED <<inbox, hand, served, lost, tasks, command>>
    BY <1>4 DEF StopExpires, loopVars
  <2> QED BY <1>1, <2>1, StillKeepsMessages DEF MInv, PruneAdmitted
<1>5. ASSUME NEW t \in Tasks, Assign(t) PROVE MInv'
  <2>1. t \notin Sent
    BY <1>5 DEF Assign, MInv, SentIsAssigned
  <2>2. tasks'[t] # "Unsent" /\ \A u \in Tasks \ {t} : tasks'[u] = tasks[u]
    BY <1>5 DEF Assign, MInv, IInv, TypeOK
  <2>3. inbox' = inbox \cup {t} /\ UNCHANGED <<loopVars, served, lost, command>>
    BY <1>5 DEF Assign
  <2> QED BY <1>1, <2>1, <2>2, <2>3, NewMessageIsApart
<1>6. ASSUME NEW m \in Notes, SendNote(m) PROVE MInv'
  <2>1. m \notin Sent /\ m \notin Tasks
    BY <1>6, AgentLoopConstants DEF SendNote
  <2>2. /\ inbox' = inbox \cup {m} /\ tasks' = tasks
        /\ UNCHANGED <<loopVars, served, lost, command>>
    BY <1>6 DEF SendNote
  <2> QED BY <1>1, <2>1, <2>2, NewMessageIsApart
<1>7. CASE UNCHANGED vars
  <2>1. UNCHANGED <<inbox, hand, served, lost, tasks, command>>
    BY <1>7 DEF vars, loopVars
  <2> QED BY <1>1, <2>1, StillKeepsMessages DEF MInv, PruneAdmitted
<1> QED BY <1>2, <1>3, <1>4, <1>5, <1>6, <1>7 DEF Next

\* A task that was sent to the agent is in its inbox, in the hands of one living
\* process or handled, and nowhere twice, whatever commands, failed rounds and
\* further processes come in between; only a crash or a prune loses it.
THEOREM NoMessageIsLost == Spec => []MessageInOnePlace
<1>1. Init => MInv
  <2> SUFFICES ASSUME Init PROVE MInv
    OBVIOUS
  <2>1. /\ Sent = {} /\ \A p \in Loops : hand[p] = {}
        /\ inbox = {} /\ served = {} /\ lost = {}
        /\ \A t \in Tasks : tasks[t] = "Unsent"
    BY DEF Init, Sent
  <2>2. MessageInOnePlace
    BY <2>1 DEF MessageInOnePlace, Apart
  <2>3. SentIsAssigned /\ PruneAdmitted
    BY <2>1 DEF SentIsAssigned, PruneAdmitted, Init, NoCommand
  <2> QED BY <2>2, <2>3, InitIInv DEF MInv
<1>2. MInv /\ [Next]_vars => MInv'
  BY NextKeepsMessages
<1>3. MInv => MessageInOnePlace
  BY DEF MInv
<1> QED BY <1>1, <1>2, <1>3, PTL DEF Spec
=============================================================================
