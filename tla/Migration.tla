------------------------------ MODULE Migration ------------------------------
(***************************************************************************)
(* `tt migrate` and `tt migrate --hash` (src/migration.rs, src/main.rs):   *)
(* the keys of older versions are renamed into the town's name space, and  *)
(* agent and task records turned from JSON strings into hashes. Programs   *)
(* of all versions may be at work on the same Redis meanwhile, and a run   *)
(* may die and be repeated.                                                *)
(***************************************************************************)
EXTENDS Integers, Sequences, FiniteSets

CONSTANTS
  Keys,       \* what a town keeps, each under an old and a new name
  KindOf,     \* the kind of each
  MaxWrites,  \* bound: writes by other programs
  MaxCrashes  \* bound: runs that die

Kinds == <<"agent", "inbox", "urgent", "task", "activity", "stop", "backlog">>

RecordKinds == {"agent", "task"}

Records == {k \in Keys : KindOf[k] \in RecordKinds}

ASSUME MigrationConstants ==
  /\ KindOf \in [Keys -> {Kinds[i] : i \in DOMAIN Kinds}]
  /\ MaxWrites \in Nat /\ MaxCrashes \in Nat

VARIABLES
  old,     \* what is under the old names
  new,     \* what is under the town's names
  run,     \* the run of the command under way
  errors,  \* the keys it has reported as failed
  written, \* what has ever been written under each key, 0 being what was there before
  mixed,   \* keys in use under both names, or written in the middle of their conversion
  crashes  \* runs that have died

vars == <<old, new, run, errors, written, mixed, crashes>>

----------------------------------------------------------------------------
(* Keys *)

\* A key holds the entries of a list, or of a record its last write, as a JSON string
\* or as a hash. Some JSON cannot be parsed.
Nothing == [form |-> "none", data |-> {}]

List(entries) == [form |-> "list", data |-> entries]

String(write) == [form |-> "string", data |-> {write}]

Garbled == [form |-> "garbled", data |-> {0}]

Hash(writes) == [form |-> "hash", data |-> writes]

Exists(value) == value # Nothing

IsString(value) == value.form \in {"string", "garbled"}

\* The last of the writes to key k.
Latest(k) == CHOOSE n \in written[k] : \A m \in written[k] : m <= n

Count == Cardinality((UNION {written[k] : k \in Keys}) \ {0})

\* What another write leaves of a key.
Written(k, value) ==
  IF k \in Records THEN String(Count + 1) ELSE List(value.data \cup {Count + 1})

\* A process in the middle of the conversion of key k, which has read it.
Converting(k) == run.at \in {"del", "hset"} /\ run.key = k

----------------------------------------------------------------------------

\* keys: those still to be looked at; key, copy: the record under conversion;
\* behind: the keys that others have written in the meantime.
NoRun ==
  [at |-> "idle", kind |-> 0, keys |-> {}, key |-> "none", copy |-> Nothing, behind |-> {}]

\* An older version has left its keys, some of them under the town's name already.
Init ==
  /\ \E place \in [Keys -> {"nowhere", "old", "new"}], garbled \in SUBSET Records :
       LET first == [k \in Keys |-> IF k \in garbled THEN Garbled
                                   ELSE IF k \in Records THEN String(0) ELSE List({0})]
       IN /\ old = [k \in Keys |-> IF place[k] = "old" THEN first[k] ELSE Nothing]
          /\ new = [k \in Keys |-> IF place[k] = "new" THEN first[k] ELSE Nothing]
          /\ written = [k \in Keys |-> IF place[k] = "nowhere" THEN {} ELSE {0}]
  /\ run = NoRun
  /\ errors = {}
  /\ mixed = {}
  /\ crashes = 0

----------------------------------------------------------------------------
(* Other programs *)

\* A write to key k, which may be in use under its other name, too.
Writes(k, other) ==
  /\ Count < MaxWrites
  /\ written' = [written EXCEPT ![k] = @ \cup {Count + 1}]
  /\ mixed' = IF Exists(other) \/ Converting(k) THEN mixed \cup {k} ELSE mixed
  /\ run' = IF run.at = "idle" THEN run ELSE [run EXCEPT !.behind = @ \cup {k}]

\* A program from before the isolation of towns.
WriteOld(k) ==
  /\ Writes(k, new[k])
  /\ old' = [old EXCEPT ![k] = Written(k, old[k])]
  /\ UNCHANGED <<new, errors, crashes>>

\* A program from before the hashes sets a record whatever is there.
WriteJson(k) ==
  /\ Writes(k, old[k])
  /\ new' = [new EXCEPT ![k] = Written(k, new[k])]
  /\ UNCHANGED <<old, errors, crashes>>

\* A program of this version gets an error where there is a string.
WriteHash(k) ==
  /\ k \in Records
  /\ ~ IsString(new[k])
  /\ Writes(k, old[k])
  /\ new' = [new EXCEPT ![k] = Hash({Count + 1})]
  /\ UNCHANGED <<old, errors, crashes>>

----------------------------------------------------------------------------
(* Isolation of towns *)

OldKeys == {k \in Keys : Exists(old[k])}

\* Wrong on purpose: only records are looked for.
RecordsNeedMigration == OldKeys \cap Records # {}

NeedsMigration == OldKeys # {}

\* Anything but the old keys is left alone, so that a run can be repeated.
Migrate ==
  /\ run.at = "idle"
  /\ NeedsMigration
  /\ run' = [NoRun EXCEPT !.at = "scan", !.kind = 1]
  /\ errors' = {}
  /\ UNCHANGED <<old, new, written, mixed, crashes>>

OfKind(keys) == {k \in keys : KindOf[k] = Kinds[run.kind]}

\* The keys of one kind are looked up before the first of them is renamed.
ScanOldKeys ==
  /\ run.at = "scan"
  /\ run' = [run EXCEPT !.at = "rename", !.keys = OfKind(OldKeys)]
  /\ UNCHANGED <<old, new, errors, written, mixed, crashes>>

\* RENAME replaces what is under the new name, and fails without a key of the old name.
MigrateKey ==
  /\ run.at = "rename"
  /\ \E k \in run.keys :
       /\ run' = [run EXCEPT !.keys = @ \ {k}]
       /\ IF Exists(old[k])
          THEN /\ new' = [new EXCEPT ![k] = old[k]]
               /\ old' = [old EXCEPT ![k] = Nothing]
               /\ UNCHANGED errors
          ELSE /\ errors' = errors \cup {k}
               /\ UNCHANGED <<old, new>>
  /\ UNCHANGED <<written, mixed, crashes>>

NextKind ==
  /\ run.at = "rename"
  /\ run.keys = {}
  /\ run' = IF run.kind < Len(Kinds)
            THEN [run EXCEPT !.at = "scan", !.kind = @ + 1] ELSE NoRun
  /\ UNCHANGED <<old, new, errors, written, mixed, crashes>>

----------------------------------------------------------------------------
(* From JSON strings to hashes *)

JsonKeys == {k \in Records : IsString(new[k])}

NeedsHashMigration == JsonKeys # {}

\* Wrong on purpose: tasks are forgotten.
AgentsOnly == <<"agent">>

\* Agents come first, then tasks.
HashKinds == <<"agent", "task">>

MigrateHash ==
  /\ run.at = "idle"
  /\ NeedsHashMigration
  /\ run' = [NoRun EXCEPT !.at = "keys", !.kind = 1]
  /\ errors' = {}
  /\ UNCHANGED <<old, new, written, mixed, crashes>>

ListKeys ==
  /\ run.at = "keys"
  /\ run' = [run EXCEPT !.at = "type",
               !.keys = {k \in Records : KindOf[k] = HashKinds[run.kind] /\ Exists(new[k])}]
  /\ UNCHANGED <<old, new, errors, written, mixed, crashes>>

\* A hash is skipped, and so is anything that is not a string.
KeyType ==
  /\ run.at = "type"
  /\ \E k \in run.keys :
       run' = IF IsString(new[k])
              THEN [run EXCEPT !.at = "get", !.keys = @ \ {k}, !.key = k]
              ELSE [run EXCEPT !.keys = @ \ {k}]
  /\ UNCHANGED <<old, new, errors, written, mixed, crashes>>

\* GET fails if the key has gone or become a hash since, and what cannot be parsed is
\* left as it is.
GetJson ==
  /\ run.at = "get"
  /\ IF new[run.key].form = "string"
     THEN run' = [run EXCEPT !.at = "del", !.copy = new[run.key]] /\ UNCHANGED errors
     ELSE run' = [run EXCEPT !.at = "type", !.key = "none"] /\ errors' = errors \cup {run.key}
  /\ UNCHANGED <<old, new, written, mixed, crashes>>

\* DEL and HSET travel in one pipeline, which is no transaction: whoever comes between
\* them finds nothing.
DeleteJson ==
  /\ run.at = "del"
  /\ new' = [new EXCEPT ![run.key] = Nothing]
  /\ run' = [run EXCEPT !.at = "hset"]
  /\ UNCHANGED <<old, errors, written, mixed, crashes>>

SetHash ==
  /\ run.at = "hset"
  /\ run' = [run EXCEPT !.at = "type", !.key = "none", !.copy = Nothing]
  /\ IF IsString(new[run.key])
     THEN errors' = errors \cup {run.key} /\ UNCHANGED new
     ELSE new' = [new EXCEPT ![run.key] = Hash(run.copy.data)] /\ UNCHANGED errors
  /\ UNCHANGED <<old, written, mixed, crashes>>

NextHashKind ==
  /\ run.at = "type"
  /\ run.keys = {}
  /\ run' = IF run.kind < Len(HashKinds)
            THEN [run EXCEPT !.at = "keys", !.kind = @ + 1] ELSE NoRun
  /\ UNCHANGED <<old, new, errors, written, mixed, crashes>>

----------------------------------------------------------------------------

\* Wrong on purpose: the commands of the pipeline are sent one by one.
CrashAnywhere ==
  /\ run.at # "idle"
  /\ crashes < MaxCrashes
  /\ crashes' = crashes + 1
  /\ run' = NoRun
  /\ UNCHANGED <<old, new, errors, written, mixed>>

\* The process dies, or stops at an error of the connection. A pipeline has been sent
\* as a whole.
Crash ==
  /\ run.at \notin {"idle", "hset"}
  /\ crashes < MaxCrashes
  /\ crashes' = crashes + 1
  /\ run' = NoRun
  /\ UNCHANGED <<old, new, errors, written, mixed>>

RunStep ==
  \/ ScanOldKeys
  \/ MigrateKey
  \/ NextKind
  \/ ListKeys
  \/ KeyType
  \/ GetJson
  \/ DeleteJson
  \/ SetHash
  \/ NextHashKind

Next ==
  \/ Migrate
  \/ MigrateHash
  \/ RunStep
  \/ Crash
  \/ \E k \in Keys : WriteOld(k) \/ WriteJson(k) \/ WriteHash(k)

\* A run comes to its end, and the operator repeats it while it finds something to do.
Spec ==
  /\ Init /\ [][Next]_vars
  /\ WF_vars(RunStep) /\ SF_vars(Migrate) /\ SF_vars(MigrateHash)

----------------------------------------------------------------------------
(* Properties *)

\* What is under key k, under either name or in the hands of a conversion.
Entries(k) ==
  old[k].data \cup new[k].data
    \cup (IF run.at = "hset" /\ run.key = k THEN run.copy.data ELSE {})

\* Through any number of runs that die and are repeated, no entry of a list is lost and
\* no record falls back to an earlier one, but for keys in use under both names, where
\* RENAME replaces what is there, and records written between GET and HSET.
NothingLost ==
  \A k \in Keys \ mixed :
    IF k \in Records THEN written[k] # {} => Latest(k) \in Entries(k)
                     ELSE written[k] \subseteq Entries(k)

\* A run that comes to its end has migrated what it is for, but for the keys it reports
\* as failed and those that others have written in the meantime.
LeavesOnlyReported ==
  [][run'.at = "idle" /\ run.at # "idle" /\ crashes' = crashes =>
       (IF run.at = "rename" THEN OldKeys ELSE JsonKeys) \subseteq errors \cup run.behind]_vars

\* When older programs are no longer at work, repeated runs bring every key under the
\* town's name and make every record a hash that can be made one.
Converges ==
  <>[](OldKeys = {} /\ \A k \in Records : new[k].form # "string")
=============================================================================
