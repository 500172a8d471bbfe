-------------------------- MODULE MigrationProofs ---------------------------
(***************************************************************************)
(* Proofs about Migration (src/migration.rs), for any keys, kinds, writers *)
(* and crashes.                                                            *)
(*                                                                         *)
(* What each step does comes first (the lemmas "...Does"). Two invariants  *)
(* follow. Unmixed: a key that nobody disturbed is in one place, and holds *)
(* all it should. Thorough: a key that a run has neither reported nor been *)
(* overtaken at is still ahead of it.                                      *)
(***************************************************************************)
EXTENDS Migration, FiniteSetTheorems, TLAPS

----------------------------------------------------------------------------
(* Types *)

Value == [form : {"none", "list", "string", "garbled", "hash"}, data : SUBSET Nat]

Renames == {"scan", "rename"}

Converts == {"keys", "type", "get", "del", "hset"}

AtRecord == {"get", "del", "hset"}

RunRecord ==
  [at : {"idle"} \cup Renames \cup Converts, kind : Nat, keys : SUBSET Keys,
   key : Keys \cup {"none"}, copy : Value, behind : SUBSET Keys]

Typed ==
  /\ old \in [Keys -> Value] /\ new \in [Keys -> Value]
  /\ written \in [Keys -> SUBSET Nat] /\ crashes \in Nat /\ run \in RunRecord
  /\ run.at \in Renames => run.kind \in 1 .. Len(Kinds)
  /\ run.at \in Converts => run.kind \in 1 .. Len(HashKinds) /\ run.keys \subseteq Records
  /\ run.at \in AtRecord => run.key \in Records

LEMMA KindsAre ==
  /\ Len(Kinds) = 7 /\ Len(HashKinds) = 2
  /\ \A k \in Keys : \E i \in 1 .. Len(Kinds) : KindOf[k] = Kinds[i]
  /\ \A k \in Records : \E i \in 1 .. Len(HashKinds) : KindOf[k] = HashKinds[i]
<1>1. Len(Kinds) = 7 /\ DOMAIN Kinds = 1 .. 7
  BY DEF Kinds
<1>2. Len(HashKinds) = 2 /\ HashKinds[1] = "agent" /\ HashKinds[2] = "task"
  BY DEF HashKinds
<1>3. ASSUME NEW k \in Keys PROVE \E i \in 1 .. Len(Kinds) : KindOf[k] = Kinds[i]
  <2>1. KindOf[k] \in {Kinds[i] : i \in DOMAIN Kinds}
    BY MigrationConstants
  <2> QED
    BY <1>1, <2>1
<1>4. ASSUME NEW k \in Records PROVE \E i \in 1 .. Len(HashKinds) : KindOf[k] = HashKinds[i]
  BY <1>2, <1>4 DEF Records, RecordKinds
<1> QED
  BY <1>1, <1>2, <1>3, <1>4

LEMMA ValuesAre ==
  /\ Nothing \in Value /\ Nothing.form = "none" /\ Nothing.data = {}
  /\ \A v \in Value : IsString(v) => Exists(v)
  /\ \A S \in SUBSET Nat : /\ List(S) \in Value /\ List(S).data = S
                           /\ Hash(S) \in Value /\ Hash(S).data = S /\ ~ IsString(Hash(S))
  /\ \A n \in Nat : String(n) \in Value /\ String(n).data = {n}
  /\ Garbled \in Value /\ Garbled.data = {0}
BY DEF Nothing, Value, IsString, Exists, List, Hash, String, Garbled

LEMMA NoRunIs ==
  NoRun \in RunRecord /\ NoRun.at = "idle" /\ NoRun.kind = 0 /\ NoRun.keys = {} /\ NoRun.behind = {}
BY ValuesAre DEF NoRun, RunRecord

----------------------------------------------------------------------------
(* What the steps do *)

\* The run goes on to another step, of the same kind of keys, and others write nothing.
GoesOn ==
  /\ run' \in RunRecord /\ run'.kind = run.kind /\ run'.behind = run.behind
  /\ UNCHANGED <<written, mixed, crashes>>

\* Nobody has written yet while a run begins.
Begins ==
  /\ run.at = "idle"
  /\ run' \in RunRecord /\ run'.kind = 1 /\ run'.behind = {} /\ errors' = {}
  /\ UNCHANGED <<old, new, written, mixed, crashes>>

LEMMA BeginningDoes ==
  ASSUME Typed
  PROVE  /\ Migrate => Begins /\ run'.at = "scan"
         /\ MigrateHash => Begins /\ run'.at = "keys" /\ run'.keys = {}
<1>1. ASSUME NEW at \in {"scan", "keys"}, run' = [NoRun EXCEPT !.at = at, !.kind = 1]
      PROVE  /\ run' \in RunRecord /\ run'.kind = 1 /\ run'.behind = {} /\ run'.keys = {}
             /\ run'.at = at
  BY <1>1, ValuesAre DEF NoRun, RunRecord, Converts, Renames
<1>2. ASSUME Migrate PROVE Begins /\ run'.at = "scan"
  BY <1>1, <1>2 DEF Migrate, Begins
<1>3. ASSUME MigrateHash PROVE Begins /\ run'.at = "keys" /\ run'.keys = {}
  BY <1>1, <1>3 DEF MigrateHash, Begins
<1> QED
  BY <1>2, <1>3

LEMMA RenamingDoes ==
  ASSUME Typed
  PROVE  /\ ScanOldKeys => /\ GoesOn /\ run.at = "scan" /\ run'.at = "rename"
                           /\ run'.keys = OfKind(OldKeys) /\ UNCHANGED <<old, new, errors>>
         /\ MigrateKey =>
              /\ GoesOn /\ run.at = "rename" /\ run'.at = "rename"
              /\ \E k \in run.keys :
                   /\ run'.keys = run.keys \ {k}
                   /\ \/ /\ Exists(old[k]) /\ UNCHANGED errors
                         /\ new' = [new EXCEPT ![k] = old[k]]
                         /\ old' = [old EXCEPT ![k] = Nothing]
                      \/ ~ Exists(old[k]) /\ errors' = errors \cup {k} /\ UNCHANGED <<old, new>>
<1>1. ASSUME ScanOldKeys
      PROVE  /\ GoesOn /\ run.at = "scan" /\ run'.at = "rename"
             /\ run'.keys = OfKind(OldKeys) /\ UNCHANGED <<old, new, errors>>
  <2>1. OfKind(OldKeys) \subseteq Keys
    BY DEF OfKind, OldKeys
  <2> QED
    BY <1>1, <2>1 DEF ScanOldKeys, Typed, RunRecord, GoesOn, Renames
<1>2. ASSUME MigrateKey
      PROVE  /\ GoesOn /\ run.at = "rename" /\ run'.at = "rename"
             /\ \E k \in run.keys :
                  /\ run'.keys = run.keys \ {k}
                  /\ \/ /\ Exists(old[k]) /\ UNCHANGED errors
                        /\ new' = [new EXCEPT ![k] = old[k]]
                        /\ old' = [old EXCEPT ![k] = Nothing]
                     \/ ~ Exists(old[k]) /\ errors' = errors \cup {k} /\ UNCHANGED <<old, new>>
  <2>1. PICK k \in run.keys :
          /\ run' = [run EXCEPT !.keys = @ \ {k}]
          /\ \/ /\ Exists(old[k]) /\ UNCHANGED errors
                /\ new' = [new EXCEPT ![k] = old[k]]
                /\ old' = [old EXCEPT ![k] = Nothing]
             \/ ~ Exists(old[k]) /\ errors' = errors \cup {k} /\ UNCHANGED <<old, new>>
    BY <1>2 DEF MigrateKey
  <2>2. run' \in RunRecord /\ run'.kind = run.kind /\ run'.behind = run.behind
        /\ run'.at = run.at /\ run'.keys = run.keys \ {k}
    BY <2>1 DEF Typed, RunRecord
  <2> QED
    BY <1>2, <2>1, <2>2 DEF MigrateKey, GoesOn
<1> QED
  BY <1>1, <1>2

LEMMA ListingDoes ==
  ASSUME Typed
  PROVE  /\ ListKeys =>
              /\ GoesOn /\ run.at = "keys" /\ run'.at = "type" /\ UNCHANGED <<old, new, errors>>
              /\ run'.keys = {k \in Records : KindOf[k] = HashKinds[run.kind] /\ Exists(new[k])}
         /\ KeyType =>
              /\ GoesOn /\ run.at = "type" /\ UNCHANGED <<old, new, errors>>
              /\ \E k \in run.keys :
                   /\ run'.keys = run.keys \ {k}
                   /\ \/ IsString(new[k]) /\ run'.at = "get" /\ run'.key = k
                      \/ ~ IsString(new[k]) /\ run'.at = "type"
<1>1. ASSUME ListKeys
      PROVE  /\ GoesOn /\ run.at = "keys" /\ run'.at = "type" /\ UNCHANGED <<old, new, errors>>
             /\ run'.keys = {k \in Records : KindOf[k] = HashKinds[run.kind] /\ Exists(new[k])}
  BY <1>1 DEF ListKeys, Records, Typed, RunRecord, GoesOn, Converts
<1>2. ASSUME KeyType
      PROVE  /\ GoesOn /\ run.at = "type" /\ UNCHANGED <<old, new, errors>>
             /\ \E k \in run.keys :
                  /\ run'.keys = run.keys \ {k}
                  /\ \/ IsString(new[k]) /\ run'.at = "get" /\ run'.key = k
                     \/ ~ IsString(new[k]) /\ run'.at = "type"
  <2>1. PICK k \in run.keys :
          run' = IF IsString(new[k])
                 THEN [run EXCEPT !.at = "get", !.keys = @ \ {k}, !.key = k]
                 ELSE [run EXCEPT !.keys = @ \ {k}]
    BY <1>2 DEF KeyType
  <2>2. k \in Keys /\ run.at = "type" /\ UNCHANGED <<old, new, errors, written, mixed, crashes>>
    BY <1>2 DEF KeyType, Typed, RunRecord
  <2>3. CASE IsString(new[k])
    BY <2>1, <2>2, <2>3 DEF Typed, RunRecord, GoesOn, Converts
  <2>4. CASE ~ IsString(new[k])
    BY <2>1, <2>2, <2>4 DEF Typed, RunRecord, GoesOn, Converts
  <2> QED
    BY <2>3, <2>4
<1> QED
  BY <1>1, <1>2

LEMMA ConvertingDoes ==
  ASSUME Typed
  PROVE  /\ GetJson =>
              /\ GoesOn /\ run.at = "get" /\ run'.keys = run.keys /\ UNCHANGED <<old, new>>
              /\ \/ /\ new[run.key].form = "string" /\ UNCHANGED errors
                    /\ run'.at = "del" /\ run'.key = run.key /\ run'.copy = new[run.key]
                 \/ run'.at = "type" /\ errors' = errors \cup {run.key}
         /\ DeleteJson =>
              /\ GoesOn /\ run.at = "del" /\ run'.at = "hset" /\ run'.keys = run.keys
              /\ run'.key = run.key /\ run'.copy = run.copy
              /\ new' = [new EXCEPT ![run.key] = Nothing] /\ UNCHANGED <<old, errors>>
         /\ SetHash =>
              /\ GoesOn /\ run.at = "hset" /\ run'.at = "type" /\ run'.keys = run.keys
              /\ UNCHANGED old
              /\ \/ IsString(new[run.key]) /\ errors' = errors \cup {run.key} /\ UNCHANGED new
                 \/ /\ ~ IsString(new[run.key]) /\ UNCHANGED errors
                    /\ new' = [new EXCEPT ![run.key] = Hash(run.copy.data)]
<1>1. ASSUME GetJson
      PROVE  /\ GoesOn /\ run.at = "get" /\ run'.keys = run.keys /\ UNCHANGED <<old, new>>
             /\ \/ /\ new[run.key].form = "string" /\ UNCHANGED errors
                   /\ run'.at = "del" /\ run'.key = run.key /\ run'.copy = new[run.key]
                \/ run'.at = "type" /\ errors' = errors \cup {run.key}
  <2>1. run.at = "get" /\ run.key \in Keys /\ new[run.key] \in Value
        /\ UNCHANGED <<old, new, written, mixed, crashes>>
    BY <1>1 DEF GetJson, Typed, AtRecord, Records
  <2>2. CASE new[run.key].form = "string"
    BY <1>1, <2>1, <2>2 DEF GetJson, Typed, RunRecord, GoesOn, Converts
  <2>3. CASE new[run.key].form # "string"
    BY <1>1, <2>1, <2>3 DEF GetJson, Typed, RunRecord, GoesOn, Converts
  <2> QED
    BY <2>2, <2>3
<1>2. ASSUME DeleteJson
      PROVE  /\ GoesOn /\ run.at = "del" /\ run'.at = "hset" /\ run'.keys = run.keys
             /\ run'.key = run.key /\ run'.copy = run.copy
             /\ new' = [new EXCEPT ![run.key] = Nothing] /\ UNCHANGED <<old, errors>>
  BY <1>2 DEF DeleteJson, Typed, RunRecord, GoesOn, Converts
<1>3. ASSUME SetHash
      PROVE  /\ GoesOn /\ run.at = "hset" /\ run'.at = "type" /\ run'.keys = run.keys
             /\ UNCHANGED old
             /\ \/ IsString(new[run.key]) /\ errors' = errors \cup {run.key} /\ UNCHANGED new
                \/ /\ ~ IsString(new[run.key]) /\ UNCHANGED errors
                   /\ new' = [new EXCEPT ![run.key] = Hash(run.copy.data)]
  <2>1. /\ run.at = "hset" /\ run' = [run EXCEPT !.at = "type", !.key = "none", !.copy = Nothing]
        /\ UNCHANGED <<old, written, mixed, crashes>>
    BY <1>3 DEF SetHash
  <2>2. GoesOn /\ run'.at = "type" /\ run'.keys = run.keys
    BY <2>1, ValuesAre DEF Typed, RunRecord, GoesOn, Converts
  <2> QED
    BY <1>3, <2>1, <2>2 DEF SetHash
<1> QED
  BY <1>1, <1>2, <1>3

\* Done with one kind of keys, a run goes on to the next or ends.
TurnsTo(last, at) ==
  /\ run' \in RunRecord /\ run.keys = {}
  /\ \/ /\ run.kind < last /\ run'.at = at /\ run'.kind = run.kind + 1 /\ run'.keys = {}
        /\ run'.behind = run.behind
     \/ ~ (run.kind < last) /\ run' = NoRun
  /\ UNCHANGED <<old, new, errors, written, mixed, crashes>>

LEMMA TurningDoes ==
  ASSUME Typed
  PROVE  /\ NextKind => run.at = "rename" /\ TurnsTo(Len(Kinds), "scan")
         /\ NextHashKind => run.at = "type" /\ TurnsTo(Len(HashKinds), "keys")
<1>1. ASSUME NEW last \in Nat, NEW at \in {"scan", "keys"}, run.keys = {},
             run' = IF run.kind < last THEN [run EXCEPT !.at = at, !.kind = @ + 1] ELSE NoRun,
             UNCHANGED <<old, new, errors, written, mixed, crashes>>
      PROVE  TurnsTo(last, at)
  <2>1. CASE run.kind < last
    <3>1. run' = [run EXCEPT !.at = at, !.kind = @ + 1]
      BY <1>1, <2>1
    <3>2. PICK r \in RunRecord : r = run
      BY DEF Typed
    <3>3. PICK n \in Nat : n = r.kind + 1
      BY DEF RunRecord
    <3>4. PICK q : q = [r EXCEPT !.at = at, !.kind = n]
      OBVIOUS
    <3>5. /\ q \in RunRecord /\ q.at = at /\ q.kind = n /\ q.keys = r.keys
          /\ q.behind = r.behind
      BY <3>4 DEF RunRecord, Renames, Converts
    <3>6. run' = q
      BY <3>1, <3>2, <3>3, <3>4
    <3> QED
      BY <1>1, <2>1, <3>2, <3>3, <3>5, <3>6 DEF TurnsTo
  <2>2. CASE ~ (run.kind < last)
    BY <1>1, <2>2, NoRunIs DEF TurnsTo
  <2> QED
    BY <2>1, <2>2
<1>2. ASSUME NextKind PROVE run.at = "rename" /\ TurnsTo(Len(Kinds), "scan")
  BY <1>1, <1>2, KindsAre DEF NextKind
<1>3. ASSUME NextHashKind PROVE run.at = "type" /\ TurnsTo(Len(HashKinds), "keys")
  BY <1>1, <1>3, KindsAre DEF NextHashKind
<1> QED
  BY <1>2, <1>3

\* What is written is newer than all before. A run under way learns of it.
WritesOne(k) ==
  /\ written' = [written EXCEPT ![k] = @ \cup {Count + 1}]
  /\ run' \in RunRecord /\ run'.at = run.at /\ run'.kind = run.kind /\ run'.keys = run.keys
  /\ run'.key = run.key /\ run'.copy = run.copy
  /\ run'.behind = IF run.at = "idle" THEN run.behind ELSE run.behind \cup {k}
  /\ mixed \subseteq mixed' /\ (k \notin mixed' => ~ Converting(k))
  /\ UNCHANGED <<errors, crashes>>

LEMMA WritingDoes ==
  ASSUME Typed, NEW k \in Keys
  PROVE  /\ WriteOld(k) =>
              /\ WritesOne(k) /\ (k \notin mixed' => ~ Exists(new[k])) /\ UNCHANGED new
              /\ old' = [old EXCEPT ![k] = Written(k, old[k])]
         /\ WriteJson(k) =>
              /\ WritesOne(k) /\ (k \notin mixed' => ~ Exists(old[k])) /\ UNCHANGED old
              /\ new' = [new EXCEPT ![k] = Written(k, new[k])]
         /\ WriteHash(k) =>
              /\ WritesOne(k) /\ (k \notin mixed' => ~ Exists(old[k])) /\ UNCHANGED old
              /\ k \in Records /\ ~ IsString(new[k])
              /\ new' = [new EXCEPT ![k] = Hash({Count + 1})]
<1>1. ASSUME NEW other, Writes(k, other), UNCHANGED <<errors, crashes>>
      PROVE  WritesOne(k) /\ (k \notin mixed' => ~ Exists(other))
  <2>1. /\ run' \in RunRecord /\ run'.at = run.at /\ run'.kind = run.kind /\ run'.keys = run.keys
        /\ run'.key = run.key /\ run'.copy = run.copy
        /\ run'.behind = IF run.at = "idle" THEN run.behind ELSE run.behind \cup {k}
    BY <1>1 DEF Writes, Typed, RunRecord
  <2>2. mixed \subseteq mixed' /\ (k \notin mixed' => ~ Converting(k) /\ ~ Exists(other))
    BY <1>1 DEF Writes
  <2> QED
    BY <1>1, <2>1, <2>2 DEF Writes, WritesOne
<1>2. ASSUME WriteOld(k)
      PROVE  /\ WritesOne(k) /\ (k \notin mixed' => ~ Exists(new[k])) /\ UNCHANGED new
             /\ old' = [old EXCEPT ![k] = Written(k, old[k])]
  BY <1>1, <1>2 DEF WriteOld
<1>3. ASSUME WriteJson(k)
      PROVE  /\ WritesOne(k) /\ (k \notin mixed' => ~ Exists(old[k])) /\ UNCHANGED old
             /\ new' = [new EXCEPT ![k] = Written(k, new[k])]
  BY <1>1, <1>3 DEF WriteJson
<1>4. ASSUME WriteHash(k)
      PROVE  /\ WritesOne(k) /\ (k \notin mixed' => ~ Exists(old[k])) /\ UNCHANGED old
             /\ k \in Records /\ ~ IsString(new[k])
             /\ new' = [new EXCEPT ![k] = Hash({Count + 1})]
  BY <1>1, <1>4 DEF WriteHash
<1> QED
  BY <1>2, <1>3, <1>4

LEMMA CrashDoes ==
  ASSUME Typed, Crash
  PROVE  /\ run.at # "hset" /\ run' = NoRun /\ crashes' = crashes + 1 /\ crashes' # crashes
         /\ UNCHANGED <<old, new, errors, written, mixed>>
BY DEF Crash, Typed

----------------------------------------------------------------------------
(* Writes are numbered one after the other *)

Numbered ==
  Count \in Nat /\ (UNION {written[k] : k \in Keys}) \ {0} = 1 .. Count

LEMMA CountIs ==
  ASSUME NEW n \in Nat, (UNION {written[k] : k \in Keys}) \ {0} = 1 .. n
  PROVE  Count = n
<1>1. Cardinality(1 .. n) = n
  BY FS_Interval
<1> QED
  BY <1>1 DEF Count

LEMMA WriteIsNewest ==
  ASSUME Typed, Numbered, NEW k \in Keys, WritesOne(k)
  PROVE  /\ Numbered' /\ written' \in [Keys -> SUBSET Nat]
         /\ Count + 1 \in Nat /\ Count + 1 \in written'[k]
         /\ written'[k] = written[k] \cup {Count + 1}
         /\ \A m \in written'[k] : m <= Count + 1
         /\ \A j \in Keys \ {k} : written'[j] = written[j]
<1>1. PICK n \in Nat : n = Count
  BY DEF Numbered
<1>2. /\ written' \in [Keys -> SUBSET Nat] /\ written'[k] = written[k] \cup {n + 1}
      /\ \A j \in Keys \ {k} : written'[j] = written[j]
  BY <1>1 DEF WritesOne, Typed
<1>3. PICK all : all = UNION {written[j] : j \in Keys}
  OBVIOUS
<1>4. (UNION {written'[j] : j \in Keys}) \ {0} = 1 .. n + 1
  <2>1. all \ {0} = 1 .. n
    BY <1>1, <1>3, Zenon DEF Numbered
  <2>2. \A x : x \in all <=> \E j \in Keys : x \in written[j]
    BY <1>3, Zenon
  <2>3. PICK after : after = UNION {written'[j] : j \in Keys}
    OBVIOUS
  <2>4. \A x : x \in after <=> \E j \in Keys : x \in written'[j]
    BY <2>3, Zenon
  <2>5. \A x : x \in after <=> x \in all \/ x = n + 1
    BY <1>2, <2>2, <2>4
  <2>6. after \ {0} = 1 .. n + 1
    BY <2>1, <2>5
  <2> QED
    BY <2>3, <2>6, Zenon
<1>5. Count' = n + 1
  <2>1. PICK m \in Nat : m = n + 1
    OBVIOUS
  <2>2. Cardinality(1 .. m) = m
    BY FS_Interval
  <2> QED
    BY <1>4, <2>1, <2>2 DEF Count
<1>6. \A m \in written[k] : m <= n
  <2> SUFFICES ASSUME NEW m \in written[k], m # 0 PROVE m <= n
    OBVIOUS
  <2>1. written[k] \in {written[j] : j \in Keys}
    OBVIOUS
  <2>2. m \in (UNION {written[j] : j \in Keys}) \ {0}
    BY <2>1, Zenon
  <2>3. m \in 1 .. Count
    BY <2>2, Zenon DEF Numbered
  <2> QED
    BY <1>1, <2>3
<1>7. \A m \in written'[k] : m <= n + 1
  BY <1>2, <1>6 DEF Typed
<1> QED
  BY <1>1, <1>2, <1>4, <1>5, <1>7 DEF Numbered

LEMMA WrittenIs ==
  ASSUME Typed, Numbered, NEW k \in Keys, NEW v \in Value
  PROVE  /\ Written(k, v) \in Value /\ Count + 1 \in Written(k, v).data
         /\ k \notin Records => Written(k, v).data = v.data \cup {Count + 1}
<1>1. PICK n \in Nat : n = Count + 1
  BY DEF Numbered
<1>2. v.data \cup {n} \in SUBSET Nat
  BY DEF Value
<1>3. CASE k \in Records
  BY <1>1, <1>3, ValuesAre DEF Written
<1>4. CASE k \notin Records
  <2>1. Written(k, v) = List(v.data \cup {n})
    BY <1>1, <1>4 DEF Written
  <2> QED
    BY <1>1, <1>2, <1>4, <2>1, ValuesAre
<1> QED
  BY <1>3, <1>4

LEMMA TypedKept ==
  ASSUME Typed, Numbered, Next
  PROVE  Typed'
<1>1. CASE Migrate
  BY <1>1, BeginningDoes, KindsAre DEF Begins, Typed, Renames, Converts, AtRecord
<1>2. CASE MigrateHash
  BY <1>2, BeginningDoes, KindsAre DEF Begins, Typed, Renames, Converts, AtRecord
<1>3. CASE ScanOldKeys
  BY <1>3, RenamingDoes DEF GoesOn, Typed, Renames, Converts, AtRecord
<1>4. CASE MigrateKey
  <2>1. PICK k \in run.keys :
          \/ /\ new' = [new EXCEPT ![k] = old[k]]
             /\ old' = [old EXCEPT ![k] = Nothing]
          \/ UNCHANGED <<old, new>>
    BY <1>4, RenamingDoes
  <2>2. k \in Keys
    BY DEF Typed, RunRecord
  <2>3. old' \in [Keys -> Value] /\ new' \in [Keys -> Value]
    BY <2>1, <2>2, ValuesAre DEF Typed
  <2> QED
    BY <1>4, <2>3, RenamingDoes DEF GoesOn, Typed, Renames, Converts, AtRecord
<1>5. CASE NextKind
  BY <1>5, TurningDoes, KindsAre, NoRunIs DEF TurnsTo, Typed, RunRecord, Renames, Converts, AtRecord
<1>6. CASE ListKeys
  BY <1>6, ListingDoes DEF GoesOn, Typed, Renames, Converts, AtRecord
<1>7. CASE KeyType
  BY <1>7, ListingDoes DEF GoesOn, Typed, Renames, Converts, AtRecord
<1>8. CASE GetJson
  BY <1>8, ConvertingDoes DEF GoesOn, Typed, Renames, Converts, AtRecord
<1>9. CASE DeleteJson
  <2>1. new' \in [Keys -> Value]
    BY <1>9, ConvertingDoes, ValuesAre DEF Typed, AtRecord, Records
  <2> QED
    BY <1>9, <2>1, ConvertingDoes DEF GoesOn, Typed, Renames, Converts, AtRecord
<1>10. CASE SetHash
  <2>1. run.copy.data \in SUBSET Nat /\ run.key \in Keys
    BY <1>10, ConvertingDoes DEF Typed, RunRecord, Value, AtRecord, Records
  <2>2. Hash(run.copy.data) \in Value
    BY <2>1, ValuesAre
  <2>3. new' \in [Keys -> Value]
    BY <1>10, <2>1, <2>2, ConvertingDoes DEF Typed
  <2> QED
    BY <1>10, <2>3, ConvertingDoes DEF GoesOn, Typed, Renames, Converts, AtRecord
<1>11. CASE NextHashKind
  BY <1>11, TurningDoes, KindsAre, NoRunIs DEF TurnsTo, Typed, RunRecord, Renames, Converts, AtRecord
<1>12. CASE Crash
  BY <1>12, CrashDoes, NoRunIs DEF Typed, Renames, Converts, AtRecord
<1>13. ASSUME NEW k \in Keys, WriteOld(k) \/ WriteJson(k) \/ WriteHash(k) PROVE Typed'
  <2>1. WritesOne(k)
    BY <1>13, WritingDoes
  <2>2. Written(k, old[k]) \in Value /\ Written(k, new[k]) \in Value
    BY WrittenIs DEF Typed
  <2>3. Hash({Count + 1}) \in Value
    BY ValuesAre DEF Numbered
  <2>4. old' \in [Keys -> Value] /\ new' \in [Keys -> Value]
    BY <1>13, <2>2, <2>3, WritingDoes DEF Typed
  <2> QED
    BY <2>1, <2>4, WriteIsNewest DEF WritesOne, Typed, Renames, Converts, AtRecord
<1> QED
  BY <1>1, <1>2, <1>3, <1>4, <1>5, <1>6, <1>7, <1>8, <1>9, <1>10, <1>11, <1>12, <1>13
  DEF Next, RunStep

LEMMA NumberedKept ==
  ASSUME Typed, Numbered, Next
  PROVE  Numbered'
<1>1. UNCHANGED written \/ \E k \in Keys : WriteOld(k) \/ WriteJson(k) \/ WriteHash(k)
  BY DEF Next, RunStep, Migrate, MigrateHash, ScanOldKeys, MigrateKey, NextKind, ListKeys, KeyType,
         GetJson, DeleteJson, SetHash, NextHashKind, Crash
<1>2. CASE UNCHANGED written
  BY <1>2 DEF Numbered, Count
<1>3. ASSUME NEW k \in Keys, WriteOld(k) \/ WriteJson(k) \/ WriteHash(k) PROVE Numbered'
  BY <1>3, WritingDoes, WriteIsNewest
<1> QED
  BY <1>1, <1>2, <1>3

LEMMA BaseInitially ==
  Init => Typed /\ Numbered
<1> SUFFICES ASSUME Init PROVE Typed /\ Numbered
  OBVIOUS
<1>1. PICK place \in [Keys -> {"nowhere", "old", "new"}], garbled \in SUBSET Records :
        LET first == [k \in Keys |-> IF k \in garbled THEN Garbled
                                    ELSE IF k \in Records THEN String(0) ELSE List({0})]
        IN /\ old = [k \in Keys |-> IF place[k] = "old" THEN first[k] ELSE Nothing]
           /\ new = [k \in Keys |-> IF place[k] = "new" THEN first[k] ELSE Nothing]
           /\ written = [k \in Keys |-> IF place[k] = "nowhere" THEN {} ELSE {0}]
  BY DEF Init
<1>2. PICK first : first = [k \in Keys |-> IF k \in garbled THEN Garbled
                                    ELSE IF k \in Records THEN String(0) ELSE List({0})]
  OBVIOUS
<1>3. first \in [Keys -> Value]
  BY <1>2, ValuesAre
<1>4. /\ old = [k \in Keys |-> IF place[k] = "old" THEN first[k] ELSE Nothing]
      /\ new = [k \in Keys |-> IF place[k] = "new" THEN first[k] ELSE Nothing]
      /\ written = [k \in Keys |-> IF place[k] = "nowhere" THEN {} ELSE {0}]
  BY <1>1, <1>2
<1>5. (UNION {written[k] : k \in Keys}) \ {0} = 1 .. 0
  <2>1. \A k \in Keys : written[k] \subseteq {0}
    BY <1>4
  <2>2. PICK all : all = UNION {written[k] : k \in Keys}
    OBVIOUS
  <2>3. \A x : x \in all <=> \E k \in Keys : x \in written[k]
    BY <2>2, Zenon
  <2>4. all \ {0} = 1 .. 0
    BY <2>1, <2>3
  <2> QED
    BY <2>2, <2>4, Zenon
<1>6. Typed
  BY <1>3, <1>4, ValuesAre, NoRunIs DEF Init, Typed, Renames, Converts, AtRecord
<1> QED
  BY <1>5, <1>6, CountIs DEF Numbered

----------------------------------------------------------------------------
(* Where the entries of a key are *)

\* A key nobody disturbed is under one name, or in the hands of its conversion.
InOnePlace(k) ==
  /\ ~ (Exists(old[k]) /\ Exists(new[k]))
  /\ run.at = "del" /\ run.key = k => old[k] = Nothing /\ new[k] = run.copy
  /\ run.at = "hset" /\ run.key = k => old[k] = Nothing /\ new[k] = Nothing

\* The newest write of a record is there, and every entry of a list.
Safe(k) ==
  IF k \in Records
  THEN written[k] # {} => \E n \in written[k] \cap Entries(k) : \A m \in written[k] : m <= n
  ELSE written[k] \subseteq Entries(k)

Unmixed == \A k \in Keys \ mixed : InOnePlace(k) /\ Safe(k)

\* A key that keeps its entries and its writes stays safe.
LEMMA SafeStays ==
  ASSUME NEW k \in Keys, Safe(k), written'[k] = written[k], Entries(k)' = Entries(k)
  PROVE  Safe(k)'
BY DEF Safe

\* Nothing that is in the hands of a conversion is touched by steps of another kind.
LEMMA LeavesAlone ==
  ASSUME NEW k \in Keys, InOnePlace(k), Safe(k), written'[k] = written[k],
         UNCHANGED <<old, new>>,
         ~ (run.at \in {"del", "hset"} /\ run.key = k),
         ~ (run'.at \in {"del", "hset"} /\ run'.key = k)
  PROVE  InOnePlace(k)' /\ Safe(k)'
<1>1. Entries(k)' = Entries(k)
  BY DEF Entries
<1> QED
  BY <1>1, SafeStays DEF InOnePlace

LEMMA MigrateKeyKeeps ==
  ASSUME Typed, Unmixed, MigrateKey
  PROVE  Unmixed'
<1>1. PICK k \in run.keys :
        \/ /\ Exists(old[k])
           /\ new' = [new EXCEPT ![k] = old[k]]
           /\ old' = [old EXCEPT ![k] = Nothing]
        \/ UNCHANGED <<old, new>>
  BY RenamingDoes
<1>2. k \in Keys /\ run.at = "rename" /\ run'.at = "rename" /\ UNCHANGED <<written, mixed>>
  BY RenamingDoes DEF GoesOn, Typed, RunRecord
<1> SUFFICES ASSUME NEW j \in Keys \ mixed PROVE InOnePlace(j)' /\ Safe(j)'
  BY <1>2 DEF Unmixed
<1>3. InOnePlace(j) /\ Safe(j)
  BY DEF Unmixed
<1>4. CASE UNCHANGED <<old, new>>
  BY <1>2, <1>3, <1>4, LeavesAlone
<1>5. CASE /\ Exists(old[k]) /\ new' = [new EXCEPT ![k] = old[k]]
           /\ old' = [old EXCEPT ![k] = Nothing]
  <2>1. CASE j # k
    <3>1. old'[j] = old[j] /\ new'[j] = new[j]
      BY <1>2, <1>5, <2>1 DEF Typed
    <3>2. Entries(j)' = Entries(j)
      BY <1>2, <3>1 DEF Entries
    <3> QED
      BY <1>2, <1>3, <3>1, <3>2, SafeStays DEF InOnePlace
  <2>2. CASE j = k
    <3>1. old'[j] = Nothing /\ new'[j] = old[j] /\ new[j] = Nothing
      BY <1>2, <1>3, <1>5, <2>2 DEF Typed, InOnePlace, Exists
    <3>2. Entries(j)' = Entries(j)
      BY <1>2, <3>1, ValuesAre DEF Entries
    <3> QED
      BY <1>2, <1>3, <3>1, <3>2, SafeStays DEF InOnePlace, Exists
  <2> QED
    BY <2>1, <2>2
<1> QED
  BY <1>1, <1>4, <1>5

LEMMA GetJsonKeeps ==
  ASSUME Typed, Unmixed, GetJson
  PROVE  Unmixed'
<1>1. /\ run.at = "get" /\ UNCHANGED <<old, new, written, mixed>>
      /\ \/ /\ new[run.key].form = "string"
            /\ run'.at = "del" /\ run'.key = run.key /\ run'.copy = new[run.key]
         \/ run'.at = "type"
  BY ConvertingDoes DEF GoesOn
<1> SUFFICES ASSUME NEW j \in Keys \ mixed PROVE InOnePlace(j)' /\ Safe(j)'
  BY <1>1 DEF Unmixed
<1>2. InOnePlace(j) /\ Safe(j)
  BY DEF Unmixed
<1>3. CASE ~ (run'.at = "del" /\ run'.key = j)
  BY <1>1, <1>2, <1>3, LeavesAlone
<1>4. CASE run'.at = "del" /\ run'.key = j
  <2>1. run'.copy = new[j] /\ new[j].form = "string"
    BY <1>1, <1>4
  <2>2. Exists(new[j])
    BY <2>1, ValuesAre DEF Exists
  <2>3. old[j] = Nothing
    BY <1>2, <2>2 DEF InOnePlace, Exists
  <2>4. Entries(j)' = Entries(j)
    BY <1>1, <1>4 DEF Entries
  <2> QED
    BY <1>1, <1>2, <1>4, <2>1, <2>3, <2>4, SafeStays DEF InOnePlace
<1> QED
  BY <1>3, <1>4

LEMMA DeleteJsonKeeps ==
  ASSUME Typed, Unmixed, DeleteJson
  PROVE  Unmixed'
<1>1. /\ run.at = "del" /\ run'.at = "hset" /\ run'.key = run.key /\ run'.copy = run.copy
      /\ new' = [new EXCEPT ![run.key] = Nothing] /\ UNCHANGED <<old, written, mixed>>
  BY ConvertingDoes DEF GoesOn
<1> SUFFICES ASSUME NEW j \in Keys \ mixed PROVE InOnePlace(j)' /\ Safe(j)'
  BY <1>1 DEF Unmixed
<1>2. InOnePlace(j) /\ Safe(j)
  BY DEF Unmixed
<1>3. CASE j # run.key
  <2>1. new'[j] = new[j]
    BY <1>1, <1>3 DEF Typed
  <2>2. Entries(j)' = Entries(j)
    BY <1>1, <1>3, <2>1 DEF Entries
  <2> QED
    BY <1>1, <1>2, <1>3, <2>1, <2>2, SafeStays DEF InOnePlace
<1>4. CASE j = run.key
  <2>1. old[j] = Nothing /\ new[j] = run.copy /\ new'[j] = Nothing
    BY <1>1, <1>2, <1>4 DEF InOnePlace, Typed
  <2>2. Entries(j)' = Entries(j)
    BY <1>1, <1>4, <2>1, ValuesAre DEF Entries
  <2> QED
    BY <1>1, <1>2, <1>4, <2>1, <2>2, SafeStays DEF InOnePlace, Exists
<1> QED
  BY <1>3, <1>4

LEMMA SetHashKeeps ==
  ASSUME Typed, Unmixed, SetHash
  PROVE  Unmixed'
<1>1. /\ run.at = "hset" /\ run'.at = "type" /\ UNCHANGED <<old, written, mixed>>
      /\ \/ IsString(new[run.key]) /\ UNCHANGED new
         \/ new' = [new EXCEPT ![run.key] = Hash(run.copy.data)]
  BY ConvertingDoes DEF GoesOn
<1> SUFFICES ASSUME NEW j \in Keys \ mixed PROVE InOnePlace(j)' /\ Safe(j)'
  BY <1>1 DEF Unmixed
<1>2. InOnePlace(j) /\ Safe(j)
  BY DEF Unmixed
<1>3. CASE j # run.key
  <2>1. new'[j] = new[j]
    BY <1>1, <1>3 DEF Typed
  <2>2. Entries(j)' = Entries(j)
    BY <1>1, <1>3, <2>1 DEF Entries
  <2> QED
    BY <1>1, <1>2, <1>3, <2>1, <2>2, SafeStays DEF InOnePlace
<1>4. CASE j = run.key
  <2>1. old[j] = Nothing /\ new[j] = Nothing
    BY <1>1, <1>2, <1>4 DEF InOnePlace
  <2>2. ~ IsString(new[j])
    BY <2>1, ValuesAre DEF Exists
  <2>3. new'[j] = Hash(run.copy.data) /\ run.copy.data \in SUBSET Nat
    BY <1>1, <1>4, <2>2 DEF Typed, RunRecord, Value
  <2>4. Entries(j)' = Entries(j)
    BY <1>1, <1>4, <2>1, <2>3, ValuesAre DEF Entries
  <2> QED
    BY <1>1, <1>2, <1>4, <2>1, <2>4, SafeStays DEF InOnePlace, Exists
<1> QED
  BY <1>3, <1>4

\* The writer replaces a record, and adds to a list.
LEMMA WriteKeeps ==
  ASSUME Typed, Numbered, Unmixed, NEW k \in Keys, WriteOld(k) \/ WriteJson(k) \/ WriteHash(k)
  PROVE  Unmixed'
<1>1. /\ WritesOne(k) /\ mixed \subseteq mixed' /\ (k \notin mixed' => ~ Converting(k))
      /\ run'.at = run.at /\ run'.key = run.key /\ run'.copy = run.copy
  BY WritingDoes DEF WritesOne
<1> SUFFICES ASSUME NEW j \in Keys \ mixed' PROVE InOnePlace(j)' /\ Safe(j)'
  BY DEF Unmixed
<1>2. InOnePlace(j) /\ Safe(j)
  BY <1>1 DEF Unmixed
<1>3. CASE j # k
  <2>1. old'[j] = old[j] /\ new'[j] = new[j]
    BY <1>3, WritingDoes DEF Typed
  <2>2. written'[j] = written[j]
    BY <1>1, <1>3, WriteIsNewest
  <2>3. Entries(j)' = Entries(j)
    BY <1>1, <2>1 DEF Entries
  <2> QED
    BY <1>1, <1>2, <2>1, <2>2, <2>3, SafeStays DEF InOnePlace
<1>4. CASE j = k
  <2>1. ~ (run.at \in {"del", "hset"} /\ run.key = k)
    BY <1>1, <1>4 DEF Converting
  <2>2. PICK c : c = Count + 1
    OBVIOUS
  <2>3. PICK here, there :
          /\ here \in Value /\ there = Nothing /\ c \in here.data
          /\ k \notin Records => Entries(k) \subseteq here.data
          /\ \/ old'[k] = here /\ new'[k] = there
             \/ new'[k] = here /\ old'[k] = there
    <3>1. CASE WriteOld(k)
      <4>1. new[k] = Nothing /\ new'[k] = Nothing /\ old'[k] = Written(k, old[k])
        BY <1>4, <3>1, WritingDoes DEF Typed, Exists
      <4>2. Entries(k) = old[k].data
        BY <2>1, <4>1, ValuesAre DEF Entries
      <4>3. /\ Written(k, old[k]) \in Value /\ c \in Written(k, old[k]).data
            /\ k \notin Records => Written(k, old[k]).data = old[k].data \cup {c}
        BY <2>2, WrittenIs DEF Typed
      <4> QED
        BY <4>1, <4>2, <4>3
    <3>2. CASE WriteJson(k)
      <4>1. old[k] = Nothing /\ old'[k] = Nothing /\ new'[k] = Written(k, new[k])
        BY <1>4, <3>2, WritingDoes DEF Typed, Exists
      <4>2. Entries(k) = new[k].data
        BY <2>1, <4>1, ValuesAre DEF Entries
      <4>3. /\ Written(k, new[k]) \in Value /\ c \in Written(k, new[k]).data
            /\ k \notin Records => Written(k, new[k]).data = new[k].data \cup {c}
        BY <2>2, WrittenIs DEF Typed
      <4> QED
        BY <4>1, <4>2, <4>3
    <3>3. CASE WriteHash(k)
      <4>1. old[k] = Nothing /\ old'[k] = Nothing /\ new'[k] = Hash({c}) /\ k \in Records
        BY <1>4, <2>2, <3>3, WritingDoes DEF Typed, Exists
      <4>2. {c} \in SUBSET Nat
        BY <2>2 DEF Numbered
      <4>3. Hash({c}) \in Value /\ c \in Hash({c}).data
        BY <4>2, ValuesAre
      <4> QED
        BY <4>1, <4>3
    <3> QED
      BY <3>1, <3>2, <3>3
  <2>4. Entries(k)' = here.data
    BY <1>1, <2>1, <2>3, ValuesAre DEF Entries
  <2>5. /\ c \in written'[k] /\ written'[k] = written[k] \cup {c}
        /\ \A m \in written'[k] : m <= c
    BY <1>1, <2>2, WriteIsNewest
  <2>6. Safe(k)'
    BY <1>2, <1>4, <2>3, <2>4, <2>5 DEF Safe
  <2>7. InOnePlace(k)'
    BY <1>1, <2>1, <2>3 DEF InOnePlace, Exists
  <2> QED
    BY <1>4, <2>6, <2>7
<1> QED
  BY <1>3, <1>4

LEMMA UnmixedInitially ==
  Init => Unmixed
<1> SUFFICES ASSUME Init, NEW k \in Keys PROVE InOnePlace(k) /\ Safe(k)
  BY DEF Unmixed
<1>1. PICK place \in [Keys -> {"nowhere", "old", "new"}], garbled \in SUBSET Records :
        LET first == [j \in Keys |-> IF j \in garbled THEN Garbled
                                    ELSE IF j \in Records THEN String(0) ELSE List({0})]
        IN /\ old = [j \in Keys |-> IF place[j] = "old" THEN first[j] ELSE Nothing]
           /\ new = [j \in Keys |-> IF place[j] = "new" THEN first[j] ELSE Nothing]
           /\ written = [j \in Keys |-> IF place[j] = "nowhere" THEN {} ELSE {0}]
  BY DEF Init
<1>2. PICK first : first = [j \in Keys |-> IF j \in garbled THEN Garbled
                                    ELSE IF j \in Records THEN String(0) ELSE List({0})]
  OBVIOUS
<1>3. first[k].data = {0}
  BY <1>2, ValuesAre
<1>4. /\ old[k] = IF place[k] = "old" THEN first[k] ELSE Nothing
      /\ new[k] = IF place[k] = "new" THEN first[k] ELSE Nothing
      /\ written[k] = IF place[k] = "nowhere" THEN {} ELSE {0}
  BY <1>1, <1>2
<1>5. run.at = "idle"
  BY NoRunIs DEF Init
<1>6. InOnePlace(k)
  BY <1>4, <1>5 DEF InOnePlace, Exists
<1>7. Entries(k) = old[k].data \cup new[k].data
  BY <1>5 DEF Entries
<1>8. written[k] \subseteq Entries(k)
  BY <1>3, <1>4, <1>7
<1>9. written[k] \subseteq {0}
  BY <1>4
<1> QED
  BY <1>6, <1>8, <1>9 DEF Safe

LEMMA UnmixedKept ==
  ASSUME Typed, Numbered, Unmixed, Next
  PROVE  Unmixed'
<1>1. ASSUME UNCHANGED <<old, new, written, mixed>>,
             ~ (run.at \in {"del", "hset"}), ~ (run'.at \in {"del", "hset"})
      PROVE  Unmixed'
  BY <1>1, LeavesAlone DEF Unmixed
<1>2. CASE Migrate \/ MigrateHash
  BY <1>1, <1>2, BeginningDoes DEF Begins
<1>3. CASE ScanOldKeys
  BY <1>1, <1>3, RenamingDoes DEF GoesOn
<1>4. CASE ListKeys \/ KeyType
  BY <1>1, <1>4, ListingDoes DEF GoesOn
<1>5. CASE NextKind \/ NextHashKind
  BY <1>1, <1>5, TurningDoes, NoRunIs DEF TurnsTo
<1>6. CASE Crash
  <2>1. UNCHANGED <<old, new, written, mixed>> /\ run.at # "hset" /\ run'.at = "idle"
    BY <1>6, CrashDoes, NoRunIs
  <2> SUFFICES ASSUME NEW k \in Keys \ mixed PROVE InOnePlace(k)' /\ Safe(k)'
    BY <2>1 DEF Unmixed
  <2>2. InOnePlace(k) /\ Safe(k)
    BY DEF Unmixed
  <2>3. Entries(k)' = Entries(k)
    BY <2>1 DEF Entries
  <2> QED
    BY <2>1, <2>2, <2>3, SafeStays DEF InOnePlace
<1> QED
  BY <1>2, <1>3, <1>4, <1>5, <1>6, MigrateKeyKeeps, GetJsonKeeps, DeleteJsonKeeps, SetHashKeeps,
     WriteKeeps DEF Next, RunStep

----------------------------------------------------------------------------
(* What a run still has to look at *)

\* An old key that a run has not reported is of a kind still to come, or in its list.
StillToRename(k) ==
  \E i \in run.kind .. Len(Kinds) :
    KindOf[k] = Kinds[i] /\ (run.at = "rename" /\ i = run.kind => k \in run.keys)

\* So is a record in JSON, or it is the one under conversion.
StillToConvert(k) ==
  \E i \in run.kind .. Len(HashKinds) :
    /\ KindOf[k] = HashKinds[i]
    /\ run.at # "keys" /\ i = run.kind =>
         k \in run.keys \/ (run.at \in AtRecord /\ k = run.key)

Excused == errors \cup run.behind

Thorough ==
  /\ run.at \in Renames => \A k \in OldKeys \ Excused : StillToRename(k)
  /\ run.at \in Converts => \A k \in JsonKeys \ Excused : StillToConvert(k)

LEMMA RenamingIsThorough ==
  ASSUME Typed, Thorough, ScanOldKeys \/ MigrateKey
  PROVE  Thorough'
<1>1. /\ run.at \in Renames /\ run'.at = "rename" /\ run'.kind = run.kind
      /\ run'.behind = run.behind /\ run.kind \in 1 .. Len(Kinds)
  BY RenamingDoes DEF GoesOn, Renames, Typed
<1> SUFFICES ASSUME NEW k \in OldKeys', k \notin Excused' PROVE StillToRename(k)'
  BY <1>1 DEF Thorough, Converts
<1>2. CASE ScanOldKeys
  <2>1. k \in OldKeys \ Excused /\ run.at = "scan" /\ run'.keys = OfKind(OldKeys)
    BY <1>1, <1>2, RenamingDoes DEF OldKeys, Excused
  <2>2. PICK i \in run.kind .. Len(Kinds) : KindOf[k] = Kinds[i]
    BY <1>1, <2>1 DEF Thorough, StillToRename
  <2>3. i = run.kind => k \in run'.keys
    BY <2>1, <2>2 DEF OfKind, OldKeys
  <2> QED
    BY <1>1, <2>2, <2>3 DEF StillToRename
<1>3. CASE MigrateKey
  <2>1. PICK j \in run.keys :
          /\ run'.keys = run.keys \ {j} /\ run.at = "rename"
          /\ \/ /\ UNCHANGED errors /\ new' = [new EXCEPT ![j] = old[j]]
                /\ old' = [old EXCEPT ![j] = Nothing]
             \/ errors' = errors \cup {j} /\ UNCHANGED <<old, new>>
    BY <1>3, RenamingDoes
  <2>2. j \in Keys
    BY DEF Typed, RunRecord
  <2>3. k # j /\ k \in OldKeys \ Excused
    BY <1>1, <2>1, <2>2 DEF OldKeys, Excused, Exists, Typed
  <2>4. StillToRename(k)
    BY <1>1, <2>3 DEF Thorough
  <2> QED
    BY <1>1, <2>1, <2>3, <2>4 DEF StillToRename
<1> QED
  BY <1>2, <1>3

LEMMA ConvertingIsThorough ==
  ASSUME Typed, Thorough, ListKeys \/ KeyType \/ GetJson \/ DeleteJson \/ SetHash
  PROVE  Thorough'
<1>1. /\ run.at \in Converts /\ run'.at \in Converts \ {"keys"} /\ run'.kind = run.kind
      /\ run'.behind = run.behind /\ run.kind \in 1 .. Len(HashKinds)
  BY ListingDoes, ConvertingDoes DEF GoesOn, Converts, Typed
<1> SUFFICES ASSUME NEW k \in JsonKeys', k \notin Excused' PROVE StillToConvert(k)'
  BY <1>1 DEF Thorough, Converts, Renames
<1>2. \A j \in JsonKeys \ Excused : StillToConvert(j)
  BY <1>1 DEF Thorough
<1>3. CASE ListKeys
  <2>1. /\ k \in JsonKeys \ Excused
        /\ run'.keys = {j \in Records : KindOf[j] = HashKinds[run.kind] /\ Exists(new[j])}
    BY <1>1, <1>3, ListingDoes DEF JsonKeys, Excused
  <2>2. PICK i \in run.kind .. Len(HashKinds) : KindOf[k] = HashKinds[i]
    BY <1>2, <2>1 DEF StillToConvert
  <2>3. Exists(new[k]) /\ k \in Records
    BY <2>1, ValuesAre DEF JsonKeys, Exists
  <2> QED
    BY <1>1, <2>1, <2>2, <2>3 DEF StillToConvert
<1>4. CASE KeyType
  <2>1. PICK j \in run.keys :
          /\ run'.keys = run.keys \ {j} /\ run.at = "type"
          /\ \/ IsString(new[j]) /\ run'.at = "get" /\ run'.key = j
             \/ ~ IsString(new[j]) /\ run'.at = "type"
    BY <1>4, ListingDoes
  <2>2. k \in JsonKeys \ Excused /\ IsString(new[k])
    BY <1>1, <1>4, ListingDoes DEF JsonKeys, Excused
  <2>3. StillToConvert(k)
    BY <1>2, <2>2
  <2>4. k = j => run'.at = "get" /\ run'.key = k
    BY <2>1, <2>2
  <2> QED
    BY <1>1, <2>1, <2>3, <2>4 DEF StillToConvert, AtRecord
<1>5. CASE GetJson
  <2>1. /\ run.at = "get" /\ run'.keys = run.keys /\ UNCHANGED <<old, new>>
        /\ \/ run'.at = "del" /\ run'.key = run.key /\ UNCHANGED errors
           \/ run'.at = "type" /\ errors' = errors \cup {run.key}
    BY <1>5, ConvertingDoes
  <2>2. k \in JsonKeys \ Excused /\ (k = run.key => run'.at = "del" /\ run'.key = run.key)
    BY <1>1, <2>1 DEF JsonKeys, Excused
  <2>3. StillToConvert(k)
    BY <1>2, <2>2
  <2> QED
    BY <1>1, <2>1, <2>2, <2>3 DEF StillToConvert, AtRecord
<1>6. CASE DeleteJson
  <2>1. /\ run.at = "del" /\ run'.at = "hset" /\ run'.keys = run.keys /\ run'.key = run.key
        /\ new' = [new EXCEPT ![run.key] = Nothing] /\ UNCHANGED <<old, errors>>
    BY <1>6, ConvertingDoes
  <2>2. k # run.key /\ k \in JsonKeys \ Excused
    <3>1. run.key \in Keys
      BY <2>1 DEF Typed, AtRecord, Records
    <3>2. new'[run.key] = Nothing /\ (k # run.key => new'[k] = new[k])
      BY <2>1, <3>1 DEF Typed, JsonKeys, Records
    <3>3. ~ IsString(Nothing)
      BY ValuesAre DEF Exists
    <3> QED
      BY <1>1, <2>1, <3>2, <3>3 DEF JsonKeys, Excused
  <2>3. StillToConvert(k)
    BY <1>2, <2>2
  <2> QED
    BY <1>1, <2>1, <2>2, <2>3 DEF StillToConvert, AtRecord
<1>7. CASE SetHash
  <2>1. /\ run.at = "hset" /\ run'.at = "type" /\ run'.keys = run.keys
        /\ \/ errors' = errors \cup {run.key} /\ UNCHANGED new
           \/ UNCHANGED errors /\ new' = [new EXCEPT ![run.key] = Hash(run.copy.data)]
    BY <1>7, ConvertingDoes
  <2>2. k # run.key /\ k \in JsonKeys \ Excused
    <3>1. run.key \in Keys /\ run.copy.data \in SUBSET Nat
      BY <2>1 DEF Typed, AtRecord, Records, RunRecord, Value
    <3>2. \/ run.key \in errors' /\ new' = new /\ errors \subseteq errors'
          \/ /\ new'[run.key] = Hash(run.copy.data) /\ errors' = errors
             /\ k # run.key => new'[k] = new[k]
      BY <2>1, <3>1 DEF Typed, JsonKeys, Records
    <3>3. ~ IsString(Hash(run.copy.data))
      BY <3>1, ValuesAre
    <3> QED
      BY <1>1, <3>2, <3>3 DEF JsonKeys, Excused
  <2>3. StillToConvert(k)
    BY <1>2, <2>2
  <2> QED
    BY <1>1, <2>1, <2>2, <2>3 DEF StillToConvert, AtRecord
<1> QED
  BY <1>3, <1>4, <1>5, <1>6, <1>7

LEMMA TurningIsThorough ==
  ASSUME Typed, Thorough, NextKind \/ NextHashKind
  PROVE  Thorough'
<1>1. CASE run' = NoRun
  BY <1>1, NoRunIs DEF Thorough, Renames, Converts
<1>2. CASE NextKind /\ run' # NoRun
  <2>1. /\ run.at = "rename" /\ run'.at = "scan" /\ run.keys = {} /\ run'.kind = run.kind + 1
        /\ run.kind < Len(Kinds) /\ run.kind \in 1 .. Len(Kinds)
        /\ run'.behind = run.behind /\ UNCHANGED <<old, new, errors>>
    BY <1>2, TurningDoes DEF TurnsTo, Typed, Renames
  <2> SUFFICES ASSUME NEW k \in OldKeys', k \notin Excused' PROVE StillToRename(k)'
    BY <2>1 DEF Thorough, Converts
  <2>2. k \in OldKeys \ Excused
    BY <2>1 DEF OldKeys, Excused
  <2>3. StillToRename(k)
    BY <2>1, <2>2 DEF Thorough, Renames
  <2> QED
    BY <2>1, <2>3, KindsAre DEF StillToRename
<1>3. CASE NextHashKind /\ run' # NoRun
  <2>1. /\ run.at = "type" /\ run'.at = "keys" /\ run.keys = {} /\ run'.kind = run.kind + 1
        /\ run.kind < Len(HashKinds) /\ run.kind \in 1 .. Len(HashKinds)
        /\ run'.behind = run.behind /\ UNCHANGED <<old, new, errors>>
    BY <1>3, TurningDoes DEF TurnsTo, Typed, Converts
  <2> SUFFICES ASSUME NEW k \in JsonKeys', k \notin Excused' PROVE StillToConvert(k)'
    BY <2>1 DEF Thorough, Renames
  <2>2. k \in JsonKeys \ Excused
    BY <2>1 DEF JsonKeys, Excused
  <2>3. StillToConvert(k)
    BY <2>1, <2>2 DEF Thorough, Converts
  <2> QED
    BY <2>1, <2>3, KindsAre DEF StillToConvert, AtRecord
<1> QED
  BY <1>1, <1>2, <1>3

LEMMA WritingIsThorough ==
  ASSUME Typed, Thorough, NEW j \in Keys, WriteOld(j) \/ WriteJson(j) \/ WriteHash(j)
  PROVE  Thorough'
<1>1. /\ run'.at = run.at /\ run'.kind = run.kind /\ run'.keys = run.keys /\ run'.key = run.key
      /\ run.at # "idle" => run'.behind = run.behind \cup {j}
      /\ UNCHANGED errors
  BY WritingDoes DEF WritesOne
<1>2. \A k \in Keys \ {j} : old'[k] = old[k] /\ new'[k] = new[k]
  BY WritingDoes DEF Typed
<1>3. CASE run.at \in Renames
  <2> SUFFICES ASSUME NEW k \in OldKeys', k \notin Excused' PROVE StillToRename(k)'
    BY <1>1, <1>3 DEF Thorough, Renames, Converts
  <2>1. k # j /\ k \in OldKeys \ Excused
    BY <1>1, <1>2, <1>3 DEF OldKeys, Excused, Renames
  <2>2. StillToRename(k)
    BY <1>3, <2>1 DEF Thorough
  <2> QED
    BY <1>1, <2>2 DEF StillToRename
<1>4. CASE run.at \in Converts
  <2> SUFFICES ASSUME NEW k \in JsonKeys', k \notin Excused' PROVE StillToConvert(k)'
    BY <1>1, <1>4 DEF Thorough, Renames, Converts
  <2>1. k # j /\ k \in JsonKeys \ Excused
    BY <1>1, <1>2, <1>4 DEF JsonKeys, Records, Excused, Converts
  <2>2. StillToConvert(k)
    BY <1>4, <2>1 DEF Thorough
  <2> QED
    BY <1>1, <2>2 DEF StillToConvert
<1>5. CASE run.at \notin Renames \cup Converts
  BY <1>1, <1>5 DEF Thorough
<1> QED
  BY <1>3, <1>4, <1>5

LEMMA ThoroughKept ==
  ASSUME Typed, Thorough, Next
  PROVE  Thorough'
<1>1. CASE Migrate
  <2>1. run'.at = "scan" /\ run'.kind = 1
    BY <1>1, BeginningDoes DEF Begins
  <2> SUFFICES ASSUME NEW k \in OldKeys' PROVE StillToRename(k)'
    BY <2>1 DEF Thorough, Converts
  <2>2. PICK i \in 1 .. Len(Kinds) : KindOf[k] = Kinds[i]
    BY KindsAre DEF OldKeys
  <2> QED
    BY <2>1, <2>2 DEF StillToRename
<1>2. CASE MigrateHash
  <2>1. run'.at = "keys" /\ run'.kind = 1
    BY <1>2, BeginningDoes DEF Begins
  <2> SUFFICES ASSUME NEW k \in JsonKeys' PROVE StillToConvert(k)'
    BY <2>1 DEF Thorough, Renames
  <2>2. PICK i \in 1 .. Len(HashKinds) : KindOf[k] = HashKinds[i]
    BY KindsAre DEF JsonKeys
  <2> QED
    BY <2>1, <2>2 DEF StillToConvert
<1>3. CASE Crash
  BY <1>3, CrashDoes, NoRunIs DEF Thorough, Renames, Converts
<1> QED
  BY <1>1, <1>2, <1>3, RenamingIsThorough, ConvertingIsThorough, TurningIsThorough, WritingIsThorough
  DEF Next, RunStep

----------------------------------------------------------------------------
(* Theorems *)

MigrationIsSound == (Typed /\ Numbered) /\ (Unmixed /\ Thorough)

LEMMA SoundAlways ==
  Spec => []MigrationIsSound
<1>1. Init => MigrationIsSound
  <2>1. Init => Thorough
    BY NoRunIs DEF Init, Thorough, Renames, Converts
  <2> QED
    BY <2>1, BaseInitially, UnmixedInitially DEF MigrationIsSound
<1>2. MigrationIsSound /\ [Next]_vars => MigrationIsSound'
  <2> SUFFICES ASSUME MigrationIsSound, [Next]_vars PROVE MigrationIsSound'
    OBVIOUS
  <2>1. CASE Next
    BY <2>1, TypedKept, NumberedKept, UnmixedKept, ThoroughKept DEF MigrationIsSound
  <2>2. CASE UNCHANGED vars
    <3>1. Typed' /\ Numbered'
      BY <2>2 DEF vars, MigrationIsSound, Typed, Numbered, Count
    <3>2. Unmixed'
      BY <2>2 DEF vars, MigrationIsSound, Unmixed, InOnePlace, Safe, Entries
    <3>3. Thorough'
      BY <2>2 DEF vars, MigrationIsSound, Thorough, StillToRename, StillToConvert, Excused,
                  OldKeys, JsonKeys
    <3> QED
      BY <3>1, <3>2, <3>3 DEF MigrationIsSound
  <2> QED
    BY <2>1, <2>2
<1> QED
  BY <1>1, <1>2, PTL DEF Spec

\* However often a migration dies and is repeated, and whatever programs of three
\* versions write meanwhile, a key that was not in use under both its names, nor written
\* in the middle of its conversion, keeps all it holds (src/migration.rs).
THEOREM MigrationLosesNothing ==
  Spec => []NothingLost
<1>1. MigrationIsSound => NothingLost
  <2> SUFFICES ASSUME MigrationIsSound, NEW k \in Keys \ mixed
               PROVE  IF k \in Records THEN written[k] # {} => Latest(k) \in Entries(k)
                                       ELSE written[k] \subseteq Entries(k)
    BY DEF NothingLost
  <2>1. Safe(k) /\ written[k] \subseteq Nat
    BY DEF MigrationIsSound, Unmixed, Typed
  <2>2. CASE k \in Records /\ written[k] # {}
    <3>1. PICK n \in written[k] \cap Entries(k) : \A m \in written[k] : m <= n
      BY <2>1, <2>2 DEF Safe
    <3>2. Latest(k) \in written[k] /\ \A m \in written[k] : m <= Latest(k)
      BY <3>1 DEF Latest
    <3>3. Latest(k) = n
      BY <2>1, <3>1, <3>2
    <3> QED
      BY <2>2, <3>1, <3>3
  <2> QED
    BY <2>1, <2>2 DEF Safe
<1> QED
  BY <1>1, SoundAlways, PTL

\* A migration that comes to its end has dealt with every key it is for, but for those
\* it reports and those that others have written since it began.
THEOREM MigrationLeavesOnlyReported ==
  Spec => LeavesOnlyReported
<1>1. MigrationIsSound /\ [Next]_vars =>
        [run'.at = "idle" /\ run.at # "idle" /\ crashes' = crashes =>
           (IF run.at = "rename" THEN OldKeys ELSE JsonKeys) \subseteq errors \cup run.behind]_vars
  <2> SUFFICES ASSUME MigrationIsSound, Next, run'.at = "idle", run.at # "idle", crashes' = crashes
               PROVE  (IF run.at = "rename" THEN OldKeys ELSE JsonKeys) \subseteq errors \cup run.behind
    OBVIOUS
  <2>1. Typed /\ Thorough
    BY DEF MigrationIsSound
  <2>2. NextKind \/ NextHashKind
    <3>1. ~ (Migrate \/ MigrateHash)
      BY <2>1, BeginningDoes DEF Begins
    <3>2. ~ (ScanOldKeys \/ MigrateKey \/ ListKeys \/ KeyType \/ GetJson \/ DeleteJson \/ SetHash)
      BY <2>1, RenamingDoes, ListingDoes, ConvertingDoes
    <3>3. ~ Crash
      BY <2>1, CrashDoes
    <3>4. ASSUME NEW k \in Keys, WriteOld(k) \/ WriteJson(k) \/ WriteHash(k) PROVE FALSE
      BY <2>1, <3>4, WritingDoes DEF WritesOne
    <3> QED
      BY <3>1, <3>2, <3>3, <3>4 DEF Next, RunStep
  <2>3. CASE NextKind
    <3>1. run.at = "rename" /\ run.keys = {} /\ ~ (run.kind < Len(Kinds)) /\ run.kind \in 1 .. Len(Kinds)
      BY <2>1, <2>3, TurningDoes DEF TurnsTo, Typed, Renames
    <3>2. ASSUME NEW k \in OldKeys \ Excused PROVE FALSE
      <4>1. PICK i \in run.kind .. Len(Kinds) : i = run.kind => k \in run.keys
        BY <2>1, <3>1, <3>2 DEF Thorough, StillToRename, Renames
      <4> QED
        BY <3>1, <4>1, KindsAre
    <3> QED
      BY <3>1, <3>2 DEF Excused
  <2>4. CASE NextHashKind
    <3>1. /\ run.at = "type" /\ run.keys = {} /\ ~ (run.kind < Len(HashKinds))
          /\ run.kind \in 1 .. Len(HashKinds)
      BY <2>1, <2>4, TurningDoes DEF TurnsTo, Typed, Converts
    <3>2. ASSUME NEW k \in JsonKeys \ Excused PROVE FALSE
      <4>1. PICK i \in run.kind .. Len(HashKinds) : i = run.kind => k \in run.keys
        BY <2>1, <3>1, <3>2 DEF Thorough, StillToConvert, Converts, AtRecord
      <4> QED
        BY <3>1, <4>1, KindsAre
    <3> QED
      BY <3>1, <3>2 DEF Excused
  <2> QED
    BY <2>2, <2>3, <2>4
<1> QED
  BY <1>1, SoundAlways, PTL DEF Spec, LeavesOnlyReported
=============================================================================
