------------------------------- MODULE Mailbox -------------------------------
(***************************************************************************)
(* The lists that messages wait in (src/channel.rs): an agent's inbox and  *)
(* its urgent inbox, which its loop empties round by round (src/main.rs),  *)
(* and the supervisor's mailbox, from which handlers filter the help       *)
(* requests of missions that have been answered (src/mission/mod.rs).      *)
(* Every step is one Redis command.                                        *)
(***************************************************************************)
EXTENDS Integers, Sequences, FiniteSets, SequencesExt

CONSTANTS
  Filters,     \* handlers that may filter the supervisor's mailbox
  Kinds,       \* the kinds of messages that are sent
  MaxSent,     \* bound: messages
  MaxFailures, \* bound: rounds whose command line fails
  MaxAccidents \* bound: crashes and resets

AgentKinds == {"task", "note", "high", "urgent"}

SupervisorKinds == {"help", "report"}

ASSUME MailboxConstants ==
  /\ Kinds \subseteq AgentKinds \cup SupervisorKinds
  /\ MaxSent \in Nat /\ MaxFailures \in Nat /\ MaxAccidents \in Nat

VARIABLES
  kind,       \* the kind of each message sent so far, in the order they were sent
  inbox,      \* the agent's inbox
  urgent,     \* its urgent inbox
  supervisor, \* the supervisor's mailbox
  round,      \* the agent's round
  filter,     \* what each handler is doing
  handled,    \* messages that served their purpose
  past,       \* what has happened to some messages, for the properties
  failures,   \* rounds that have failed
  accidents   \* accidents that have happened

boxes == <<inbox, urgent, supervisor>>
vars == <<kind, boxes, round, filter, handled, past, failures, accidents>>

Sent == DOMAIN kind

\* A round in its beginning takes the urgent messages, then the regular ones.
NoRound == [at |-> "off", urgent |-> <<>>, regular |-> <<>>]

NoFilter == [at |-> "off", kept |-> <<>>]

Init ==
  /\ kind = <<>>
  /\ inbox = <<>> /\ urgent = <<>> /\ supervisor = <<>>
  /\ round = NoRound
  /\ filter = [p \in Filters |-> NoFilter]
  /\ handled = {}
  /\ past = [gone |-> {}, tried |-> {}, late |-> {}, between |-> {}, missed |-> {},
             overlap |-> FALSE]
  /\ failures = 0
  /\ accidents = 0

----------------------------------------------------------------------------
(* Sending *)

\* send: LPUSH for high priority, RPUSH for the rest. send_urgent: LPUSH.
Pushed(list, m, k) == IF k \in {"high", "urgent"} THEN <<m>> \o list ELSE Append(list, m)

Filtering(at) == \E p \in Filters : filter[p].at = at

\* The message is one that a filter under way, or a round, will not see.
Noted(m, k) ==
  [past EXCEPT
     !.late = IF k \in SupervisorKinds /\ Filtering("del") THEN @ \cup {m} ELSE @,
     !.between = IF k \in SupervisorKinds /\ Filtering("push") THEN @ \cup {m} ELSE @,
     !.missed = IF k = "urgent" /\ round.at = "regular" THEN @ \cup {m} ELSE @]

Send(k) ==
  /\ Len(kind) < MaxSent
  /\ LET m == Len(kind) + 1
     IN /\ kind' = Append(kind, k)
        /\ inbox' = IF k \in AgentKinds \ {"urgent"} THEN Pushed(inbox, m, k) ELSE inbox
        /\ urgent' = IF k = "urgent" THEN Pushed(urgent, m, k) ELSE urgent
        /\ supervisor' = IF k \in SupervisorKinds THEN Pushed(supervisor, m, k) ELSE supervisor
        /\ past' = Noted(m, k)
  /\ UNCHANGED <<round, filter, handled, failures, accidents>>

----------------------------------------------------------------------------
(* A round of the agent *)

\* Wrong on purpose: the urgent inbox is not looked at.
RoundBeginsWithInbox ==
  /\ round.at = "off"
  /\ round' = [NoRound EXCEPT !.at = "regular"]
  /\ UNCHANGED <<kind, boxes, filter, handled, past, failures, accidents>>

\* Wrong on purpose: a round waits for a regular message.
RoundBeginsForInbox ==
  /\ round.at = "off"
  /\ inbox # <<>>
  /\ round' = [NoRound EXCEPT !.at = "urgent"]
  /\ UNCHANGED <<kind, boxes, filter, handled, past, failures, accidents>>

RoundBegins ==
  /\ round.at = "off"
  /\ round' = [NoRound EXCEPT !.at = "urgent"]
  /\ UNCHANGED <<kind, boxes, filter, handled, past, failures, accidents>>

\* receive_urgent: LPOP until there is nothing.
ReceiveUrgent ==
  /\ round.at = "urgent"
  /\ IF urgent = <<>>
     THEN round' = [round EXCEPT !.at = "regular"] /\ UNCHANGED urgent
     ELSE /\ round' = [round EXCEPT !.urgent = Append(@, Head(urgent))]
          /\ urgent' = Tail(urgent)
  /\ UNCHANGED <<kind, inbox, supervisor, filter, handled, past, failures, accidents>>

\* drain_inbox: LPOP until there is nothing.
DrainInbox ==
  /\ round.at = "regular"
  /\ inbox # <<>>
  /\ round' = [round EXCEPT !.regular = Append(@, Head(inbox))]
  /\ inbox' = Tail(inbox)
  /\ UNCHANGED <<kind, urgent, supervisor, filter, handled, past, failures, accidents>>

Hand == round.urgent \o round.regular

\* How many places up to i are in the set of places.
UpTo(at, i) == Cardinality({j \in at : j <= i})

\* The messages of a list that are in the set, in the order of the list: SelectSeq, by
\* the number of such messages up to each place, which a proof can speak about.
Selected(list, set) ==
  LET at == {i \in DOMAIN list : list[i] \in set}
  IN [n \in 1 .. Cardinality(at) |-> list[CHOOSE i \in at : UpTo(at, i) = n]]

Actionable == {m \in Sent : kind[m] # "note"}

\* Informational messages are summed up and done with. Without any others there is
\* nothing to run.
Classify ==
  /\ round.at = "regular"
  /\ inbox = <<>>
  /\ round' = [at |-> IF ToSet(Hand) \cap Actionable # {} THEN "run" ELSE "off",
               urgent |-> Selected(round.urgent, Actionable),
               regular |-> Selected(round.regular, Actionable)]
  /\ handled' = handled \cup (ToSet(Hand) \ Actionable)
  /\ UNCHANGED <<kind, boxes, filter, past, failures, accidents>>

RoundSucceeds ==
  /\ round.at = "run"
  /\ round' = NoRound
  /\ handled' = handled \cup ToSet(Hand)
  /\ UNCHANGED <<kind, boxes, filter, past, failures, accidents>>

\* Wrong on purpose: the messages of a failed round are not sent again.
RoundFailsForGood ==
  /\ round.at = "run"
  /\ failures < MaxFailures
  /\ failures' = failures + 1
  /\ round' = NoRound
  /\ past' = [past EXCEPT !.tried = @ \cup ToSet(Hand)]
  /\ UNCHANGED <<kind, boxes, filter, handled, accidents>>

RoundFails ==
  /\ round.at = "run"
  /\ failures < MaxFailures
  /\ failures' = failures + 1
  /\ round' = [round EXCEPT !.at = "requeue"]
  /\ past' = [past EXCEPT !.tried = @ \cup ToSet(Hand)]
  /\ UNCHANGED <<kind, boxes, filter, handled, accidents>>

\* The messages are sent again, one after the other, each to the list it came from.
Requeue ==
  /\ round.at = "requeue"
  /\ IF Hand = <<>>
     THEN round' = NoRound /\ UNCHANGED <<inbox, urgent>>
     ELSE LET m == Head(Hand)
          IN IF round.urgent # <<>>
             THEN /\ urgent' = Pushed(urgent, m, "urgent")
                  /\ round' = [round EXCEPT !.urgent = Tail(@)]
                  /\ UNCHANGED inbox
             ELSE /\ inbox' = Pushed(inbox, m, kind[m])
                  /\ round' = [round EXCEPT !.regular = Tail(@)]
                  /\ UNCHANGED urgent
  /\ UNCHANGED <<kind, supervisor, filter, handled, past, failures, accidents>>

----------------------------------------------------------------------------
(* Filtering the supervisor's mailbox *)

Kept == {m \in Sent : kind[m] # "help"}

\* LRANGE. When there is no help request, that is all.
LookForHelp(p) ==
  /\ filter[p].at = "off"
  /\ ~ ToSet(supervisor) \subseteq Kept
  /\ filter' = [filter EXCEPT ![p] = [at |-> "del", kept |-> Selected(supervisor, Kept)]]
  /\ past' = [past EXCEPT !.overlap = @ \/ Filtering("del")]
  /\ UNCHANGED <<kind, boxes, round, handled, failures, accidents>>

\* Wrong on purpose: the mailbox is not deleted before the rest is pushed.
KeepMailbox(p) ==
  /\ filter[p].at = "del"
  /\ filter' = [filter EXCEPT ![p] = IF filter[p].kept = <<>> THEN NoFilter
                                     ELSE [@ EXCEPT !.at = "push"]]
  /\ UNCHANGED <<kind, boxes, round, handled, past, failures, accidents>>

DeleteMailbox(p) ==
  /\ filter[p].at = "del"
  /\ supervisor' = <<>>
  /\ handled' = handled \cup (ToSet(supervisor) \ (Kept \cup past.late))
  /\ filter' = [filter EXCEPT ![p] = IF filter[p].kept = <<>> THEN NoFilter
                                     ELSE [@ EXCEPT !.at = "push"]]
  /\ UNCHANGED <<kind, inbox, urgent, round, past, failures, accidents>>

\* Wrong on purpose: the messages are pushed to the front, the last one foremost.
PushToFront(p) ==
  /\ filter[p].at = "push"
  /\ supervisor' = Reverse(filter[p].kept) \o supervisor
  /\ filter' = [filter EXCEPT ![p] = NoFilter]
  /\ past' = [past EXCEPT !.late = IF Filtering("del") THEN @ \cup ToSet(filter[p].kept) ELSE @]
  /\ UNCHANGED <<kind, inbox, urgent, round, handled, failures, accidents>>

PushKept(p) ==
  /\ filter[p].at = "push"
  /\ supervisor' = supervisor \o filter[p].kept
  /\ filter' = [filter EXCEPT ![p] = NoFilter]
  /\ past' = [past EXCEPT !.late = IF Filtering("del") THEN @ \cup ToSet(filter[p].kept) ELSE @]
  /\ UNCHANGED <<kind, inbox, urgent, round, handled, failures, accidents>>

----------------------------------------------------------------------------
(* Accidents *)

Accident == accidents < MaxAccidents /\ accidents' = accidents + 1

\* The loop dies with what it holds; another one may be started.
LoopCrash ==
  /\ round.at # "off"
  /\ Accident
  /\ round' = NoRound
  /\ past' = [past EXCEPT !.gone = @ \cup ToSet(Hand)]
  /\ UNCHANGED <<kind, boxes, filter, handled, failures>>

FilterCrash(p) ==
  /\ filter[p].at # "off"
  /\ Accident
  /\ filter' = [filter EXCEPT ![p] = NoFilter]
  /\ past' = [past EXCEPT !.gone =
                IF filter[p].at = "push" THEN @ \cup ToSet(filter[p].kept) ELSE @]
  /\ UNCHANGED <<kind, boxes, round, handled, failures>>

\* `tt reset`, with or without --agents-only, deletes every inbox, the supervisor's too.
Reset ==
  /\ Accident
  /\ inbox' = <<>> /\ urgent' = <<>> /\ supervisor' = <<>>
  /\ past' = [past EXCEPT !.gone = @ \cup ToSet(inbox) \cup ToSet(urgent) \cup ToSet(supervisor)]
  /\ UNCHANGED <<kind, round, filter, handled, failures>>

----------------------------------------------------------------------------

RoundStep ==
  \/ RoundBegins
  \/ ReceiveUrgent
  \/ DrainInbox
  \/ Classify
  \/ RoundSucceeds
  \/ RoundFails
  \/ Requeue

FilterStep(p) ==
  \/ LookForHelp(p)
  \/ DeleteMailbox(p)
  \/ PushKept(p)

Next ==
  \/ \E k \in Kinds : Send(k)
  \/ RoundStep
  \/ \E p \in Filters : FilterStep(p) \/ FilterCrash(p)
  \/ LoopCrash
  \/ Reset

\* A loop goes on with its round and begins another, or is started again.
Spec == Init /\ [][Next]_vars /\ WF_vars(RoundStep)

----------------------------------------------------------------------------
(* Properties *)

Held == UNION {ToSet(filter[p].kept) : p \in {p \in Filters : filter[p].at = "push"}}

\* A message that was sent waits somewhere, is in somebody's hands or has been handled,
\* but for crashes, resets, and what reaches the supervisor's mailbox, be it by another
\* filter, between a filter's LRANGE and its DEL.
NothingLost ==
  Sent \ (past.gone \cup past.late) \subseteq
    handled \cup ToSet(inbox) \cup ToSet(urgent) \cup ToSet(supervisor) \cup ToSet(Hand) \cup Held

\* A message waits once, and not when it has been handled, unless two filters have read
\* the mailbox before one of them deletes it.
WaitsOnce ==
  past.overlap \/
    LET waiting == inbox \o urgent \o supervisor \o Hand
    IN IsInjective(waiting) /\ ToSet(waiting) \cap handled = {}

\* The messages of the list that are in the set are in the order they were sent in.
Increasing(list, set) ==
  \A i, j \in DOMAIN list : i < j /\ list[i] \in set /\ list[j] \in set => list[i] < list[j]

Regular == {m \in Sent : kind[m] # "high"} \ past.tried

Undisturbed == Sent \ past.between

\* Messages of normal priority wait in the order in which they were sent, behind those of
\* high priority, but for the messages of rounds that failed. So do the supervisor's,
\* but for those that come between a filter's DEL and its RPUSH.
KeepsOrder ==
  /\ Increasing(inbox, Regular)
  /\ \A i, j \in DOMAIN inbox : i < j /\ kind[inbox[j]] = "high" => kind[inbox[i]] = "high"
  /\ past.overlap \/ Increasing(supervisor, Undisturbed)

\* No regular message is taken up, as long as an urgent one waits that is older, unless
\* the urgent one came when the round had already looked for it.
UrgentFirst ==
  round.at = "run" =>
    \A m \in ToSet(urgent) \ past.missed : \A n \in ToSet(round.regular) : m > n

\* What an agent is sent gets handled, or lost to an accident.
IsServed ==
  \A m \in 1 .. MaxSent :
    m \in ToSet(inbox) \cup ToSet(urgent) ~> m \in handled \cup past.gone
=============================================================================
