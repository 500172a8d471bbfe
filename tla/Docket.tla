-------------------------------- MODULE Docket --------------------------------
(***************************************************************************)
(* The docket (src/channel.rs): a Redis stream of tasks that a town with   *)
(* `use_streams` keeps for the workers of other programs, with one         *)
(* consumer group. Nobody re-reads or claims what a consumer left          *)
(* unacknowledged.                                                         *)
(***************************************************************************)
EXTENDS Integers, Sequences

CONSTANT Entries  \* entries there may be

VARIABLES
  stream,   \* the entries of the stream; acknowledged ones stay
  last,     \* how many of them the group is past, NoGroup before there is a group
  pending   \* those that were delivered and not acknowledged

docketVars == <<stream, last, pending>>

NoGroup == -1

DocketInit ==
  /\ stream = <<>>
  /\ last = NoGroup
  /\ pending = {}

\* A group begins behind what the stream holds already.
EnsureGroup ==
  /\ last = NoGroup
  /\ last' = Len(stream)
  /\ UNCHANGED <<stream, pending>>

Pushed == {stream[i] : i \in DOMAIN stream}

DocketPush(e) ==
  /\ e \notin Pushed
  /\ stream' = Append(stream, e)
  /\ UNCHANGED <<last, pending>>

\* A consumer is given the next entry that nobody was given before.
DocketRead ==
  /\ last # NoGroup
  /\ last < Len(stream)
  /\ last' = last + 1
  /\ pending' = pending \cup {stream[last + 1]}
  /\ UNCHANGED stream

DocketAck(e) ==
  /\ e \in pending
  /\ pending' = pending \ {e}
  /\ UNCHANGED <<stream, last>>

DocketStep ==
  \/ EnsureGroup
  \/ \E e \in Entries : DocketPush(e)
  \/ DocketRead
  \/ \E e \in Entries : DocketAck(e)

\* XLEN, and the lag of XINFO GROUPS, which Redis need not know.
DocketLen == Len(stream)

Unknown == -1

GroupLag == IF last = NoGroup THEN {Unknown} ELSE {Unknown, Len(stream) - last}
=============================================================================
