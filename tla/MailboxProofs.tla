----------------------------- MODULE MailboxProofs -----------------------------
(***************************************************************************)
(* No message that waits in a list is lost, doubled or overtaken, whatever *)
(* rounds fail, filters overlap or processes crash: the invariants of      *)
(* Mailbox, for any number of messages, filters and accidents.             *)
(***************************************************************************)
EXTENDS Mailbox, FiniteSetTheorems, SequenceTheorems, TLAPS

----------------------------------------------------------------------------
(* Lists without repetition *)

NoTwice(s) == \A m, n \in DOMAIN s : s[m] = s[n] => m = n

\* The names SequencesExt and Functions have for the same.
LEMMA SameNames ==
  ASSUME NEW s
  PROVE  ToSet(s) = Range(s) /\ (IsInjective(s) <=> NoTwice(s))
BY DEF ToSet, Range, IsInjective, NoTwice

\* The head of a queue without repetition is not in its tail.
LEMMA TailWithout ==
  ASSUME NEW S, NEW s \in Seq(S), NoTwice(s), s # <<>>
  PROVE  /\ Head(s) \in S /\ Head(s) \in Range(s)
         /\ Tail(s) \in Seq(S) /\ NoTwice(Tail(s))
         /\ Range(Tail(s)) = Range(s) \ {Head(s)}
<1>1. /\ Head(s) \in S /\ Tail(s) \in Seq(S) /\ Len(Tail(s)) = Len(s) - 1
      /\ \A i \in 1 .. Len(Tail(s)) : Tail(s)[i] = s[i + 1]
  BY HeadTailProperties
<1>2. DOMAIN s = 1 .. Len(s) /\ DOMAIN Tail(s) = 1 .. Len(s) - 1 /\ Len(s) \in Nat \ {0}
  BY <1>1, LenProperties, EmptySeq
<1>3. Head(s) = s[1]
  OBVIOUS
<1>4. NoTwice(Tail(s))
  <2> SUFFICES ASSUME NEW m \in 1 .. Len(s) - 1, NEW n \in 1 .. Len(s) - 1, Tail(s)[m] = Tail(s)[n]
               PROVE  m = n
    BY <1>2 DEF NoTwice
  <2>1. m + 1 \in DOMAIN s /\ n + 1 \in DOMAIN s /\ s[m + 1] = s[n + 1]
    BY <1>1, <1>2
  <2>2. m + 1 = n + 1
    BY <2>1 DEF NoTwice
  <2> QED
    BY <2>2
<1>5. Head(s) \in Range(s)
  BY <1>2, <1>3 DEF Range
<1>6. ASSUME NEW x \in Range(Tail(s)) PROVE x \in Range(s) /\ x # Head(s)
  <2>1. PICK i \in 1 .. Len(s) - 1 : Tail(s)[i] = x
    BY <1>2 DEF Range
  <2>2. i + 1 \in DOMAIN s /\ 1 \in DOMAIN s /\ s[i + 1] = x /\ i + 1 # 1
    BY <1>1, <1>2, <2>1
  <2> QED
    BY <1>3, <2>2 DEF Range, NoTwice
<1>7. ASSUME NEW x \in Range(s), x # Head(s) PROVE x \in Range(Tail(s))
  <2>1. PICK i \in 1 .. Len(s) : s[i] = x
    BY <1>2 DEF Range
  <2>2. i # 1
    BY <1>3, <1>7, <2>1
  <2>3. i - 1 \in 1 .. Len(s) - 1 /\ (i - 1) + 1 = i
    BY <1>2, <2>2
  <2>4. i - 1 \in DOMAIN Tail(s) /\ Tail(s)[i - 1] = x
    BY <1>1, <1>2, <2>1, <2>3
  <2> QED
    BY <2>4 DEF Range
<1> QED
  BY <1>1, <1>4, <1>5, <1>6, <1>7

LEMMA Joined ==
  ASSUME NEW S, NEW s \in Seq(S), NEW t \in Seq(S), NoTwice(s), NoTwice(t),
         Range(s) \cap Range(t) = {}
  PROVE  s \o t \in Seq(S) /\ NoTwice(s \o t) /\ Range(s \o t) = Range(s) \cup Range(t)
<1>1. /\ s \o t \in Seq(S) /\ Len(s \o t) = Len(s) + Len(t)
      /\ \A i \in 1 .. Len(s) + Len(t) :
           (s \o t)[i] = IF i <= Len(s) THEN s[i] ELSE t[i - Len(s)]
  BY ConcatProperties
<1>2. /\ DOMAIN s = 1 .. Len(s) /\ DOMAIN t = 1 .. Len(t) /\ DOMAIN (s \o t) = 1 .. Len(s) + Len(t)
      /\ Len(s) \in Nat /\ Len(t) \in Nat
  BY <1>1, LenProperties
<1>3. ASSUME NEW m \in 1 .. Len(s) + Len(t), NEW n \in 1 .. Len(s) + Len(t), (s \o t)[m] = (s \o t)[n]
      PROVE  m = n
  <2>1. CASE m <= Len(s) /\ n <= Len(s)
    BY <1>1, <1>2, <1>3, <2>1 DEF NoTwice
  <2>2. CASE m > Len(s) /\ n > Len(s)
    <3>1. /\ m - Len(s) \in DOMAIN t /\ n - Len(s) \in DOMAIN t
          /\ t[m - Len(s)] = t[n - Len(s)]
      BY <1>1, <1>2, <1>3, <2>2
    <3>2. m - Len(s) = n - Len(s)
      BY <3>1 DEF NoTwice
    <3> QED
      BY <1>2, <3>2
  <2>3. CASE m <= Len(s) /\ n > Len(s)
    <3>1. m \in DOMAIN s /\ n - Len(s) \in DOMAIN t /\ s[m] = t[n - Len(s)]
      BY <1>1, <1>2, <1>3, <2>3
    <3> QED
      BY <3>1 DEF Range
  <2>4. CASE m > Len(s) /\ n <= Len(s)
    <3>1. n \in DOMAIN s /\ m - Len(s) \in DOMAIN t /\ s[n] = t[m - Len(s)]
      BY <1>1, <1>2, <1>3, <2>4
    <3> QED
      BY <3>1 DEF Range
  <2> QED
    BY <1>2, <2>1, <2>2, <2>3, <2>4
<1> QED
  BY <1>1, <1>2, <1>3, RangeConcatenation DEF NoTwice

----------------------------------------------------------------------------
(* Lists under pops, pushes and joins *)

\* Every message in the list that is in the set stands behind others of the set only.
Foremost(list, set) ==
  \A i, j \in DOMAIN list : i < j /\ list[j] \in set => list[i] \in set

LEMMA Wider ==
  ASSUME NEW S, NEW T, S \subseteq T, NEW s \in Seq(S)
  PROVE  s \in Seq(T)
<1>1. Len(s) \in Nat /\ s \in [1 .. Len(s) -> S]
  BY LenProperties
<1>2. s \in [1 .. Len(s) -> T]
  BY <1>1
<1> QED
  BY <1>1, <1>2

LEMMA Ranges ==
  ASSUME NEW S, NEW s \in Seq(S)
  PROVE  /\ Range(s) \subseteq S /\ DOMAIN s = 1 .. Len(s) /\ Len(s) \in Nat
         /\ \A i \in 1 .. Len(s) : s[i] \in S /\ s[i] \in Range(s)
<1>1. DOMAIN s = 1 .. Len(s) /\ Len(s) \in Nat /\ \A i \in 1 .. Len(s) : s[i] \in S
  BY LenProperties
<1> QED
  BY <1>1 DEF Range

LEMMA NothingIn ==
  /\ \A S : <<>> \in Seq(S)
  /\ Range(<<>>) = {} /\ NoTwice(<<>>)
  /\ \A set : Increasing(<<>>, set) /\ Foremost(<<>>, set)
<1>1. DOMAIN <<>> = {}
  OBVIOUS
<1> QED
  BY <1>1 DEF Range, NoTwice, Increasing, Foremost

\* A list without its head is as orderly as it was.
LEMMA Popped ==
  ASSUME NEW S, NEW s \in Seq(S), s # <<>>
  PROVE  /\ Head(s) \in S /\ Tail(s) \in Seq(S)
         /\ Range(s) = Range(Tail(s)) \cup {Head(s)}
         /\ NoTwice(s) => NoTwice(Tail(s)) /\ Head(s) \notin Range(Tail(s))
         /\ \A set : Increasing(s, set) => Increasing(Tail(s), set)
         /\ \A set : Foremost(s, set) => Foremost(Tail(s), set)
<1>1. /\ Head(s) \in S /\ Tail(s) \in Seq(S) /\ Len(Tail(s)) = Len(s) - 1
      /\ \A i \in 1 .. Len(Tail(s)) : Tail(s)[i] = s[i + 1]
  BY HeadTailProperties
<1>2. DOMAIN s = 1 .. Len(s) /\ DOMAIN Tail(s) = 1 .. Len(s) - 1 /\ Len(s) \in Nat \ {0}
  BY <1>1, LenProperties, EmptySeq
<1>3. Head(s) = s[1]
  OBVIOUS
<1>4. \A i \in DOMAIN Tail(s) : i \in Int /\ i + 1 \in DOMAIN s /\ Tail(s)[i] = s[i + 1]
  BY <1>1, <1>2
<1>5. NoTwice(s) => NoTwice(Tail(s)) /\ Head(s) \notin Range(Tail(s))
  BY TailWithout
<1>6. Range(Tail(s)) \cup {Head(s)} \subseteq Range(s)
  <2>1. 1 \in DOMAIN s
    BY <1>2
  <2> QED
    BY <1>3, <1>4, <2>1 DEF Range
<1>7. ASSUME NEW x \in Range(s), x # Head(s) PROVE x \in Range(Tail(s))
  <2>1. PICK i \in 1 .. Len(s) : s[i] = x
    BY <1>2 DEF Range
  <2>2. i # 1
    BY <1>3, <1>7, <2>1
  <2>3. i - 1 \in 1 .. Len(s) - 1 /\ (i - 1) + 1 = i
    BY <1>2, <2>2
  <2>4. i - 1 \in DOMAIN Tail(s) /\ Tail(s)[i - 1] = x
    BY <1>1, <1>2, <2>1, <2>3
  <2> QED
    BY <2>4 DEF Range
<1>8. ASSUME NEW set, Increasing(s, set) PROVE Increasing(Tail(s), set)
  <2> SUFFICES ASSUME NEW i \in DOMAIN Tail(s), NEW j \in DOMAIN Tail(s), i < j,
                      Tail(s)[i] \in set, Tail(s)[j] \in set
               PROVE  Tail(s)[i] < Tail(s)[j]
    BY DEF Increasing
  <2>1. /\ i + 1 \in DOMAIN s /\ j + 1 \in DOMAIN s /\ i + 1 < j + 1
        /\ s[i + 1] \in set /\ s[j + 1] \in set
    BY <1>4
  <2>2. s[i + 1] < s[j + 1]
    BY <1>8, <2>1 DEF Increasing
  <2> QED
    BY <1>4, <2>2
<1>9. ASSUME NEW set, Foremost(s, set) PROVE Foremost(Tail(s), set)
  <2> SUFFICES ASSUME NEW i \in DOMAIN Tail(s), NEW j \in DOMAIN Tail(s), i < j, Tail(s)[j] \in set
               PROVE  Tail(s)[i] \in set
    BY DEF Foremost
  <2>1. i + 1 \in DOMAIN s /\ j + 1 \in DOMAIN s /\ i + 1 < j + 1 /\ s[j + 1] \in set
    BY <1>4
  <2>2. s[i + 1] \in set
    BY <1>9, <2>1 DEF Foremost
  <2> QED
    BY <1>4, <2>2
<1> QED
  BY <1>1, <1>5, <1>6, <1>7, <1>8, <1>9

\* One list behind another, as RPUSH puts them.
LEMMA PutTogether ==
  ASSUME NEW S, NEW s \in Seq(S), NEW t \in Seq(S)
  PROVE  /\ s \o t \in Seq(S) /\ Range(s \o t) = Range(s) \cup Range(t)
         /\ NoTwice(s \o t) <=>
              NoTwice(s) /\ NoTwice(t) /\ Range(s) \cap Range(t) = {}
         /\ \A set : /\ Increasing(s, set) /\ Increasing(t, set)
                     /\ \A x \in Range(s) \cap set, y \in Range(t) \cap set : x < y
                     => Increasing(s \o t, set)
         /\ \A set : Foremost(s, set) /\ Foremost(t, set)
                     /\ (Range(s) \subseteq set \/ Range(t) \cap set = {})
                     => Foremost(s \o t, set)
<1> DEFINE st == s \o t
<1>1. /\ s \o t \in Seq(S) /\ Len(s \o t) = Len(s) + Len(t)
      /\ \A i \in 1 .. Len(s) + Len(t) :
           (s \o t)[i] = IF i <= Len(s) THEN s[i] ELSE t[i - Len(s)]
  BY ConcatProperties
<1>2. /\ DOMAIN s = 1 .. Len(s) /\ DOMAIN t = 1 .. Len(t) /\ DOMAIN st = 1 .. Len(s) + Len(t)
      /\ Len(s) \in Nat /\ Len(t) \in Nat
  BY <1>1, LenProperties
<1>3. ASSUME NEW i \in DOMAIN st
      PROVE  \/ i \in DOMAIN s /\ st[i] = s[i] /\ st[i] \in Range(s)
             \/ i > Len(s) /\ i - Len(s) \in DOMAIN t /\ st[i] = t[i - Len(s)] /\ st[i] \in Range(t)
  BY <1>1, <1>2 DEF Range
<1>4. \A i \in DOMAIN s : i \in DOMAIN st /\ st[i] = s[i]
  BY <1>1, <1>2
<1>5. \A i \in DOMAIN t : Len(s) + i \in DOMAIN st /\ st[Len(s) + i] = t[i]
  BY <1>1, <1>2
<1> HIDE DEF st
<1>6. Range(st) = Range(s) \cup Range(t)
  <2>1. Range(st) \subseteq Range(s) \cup Range(t)
    BY <1>3 DEF Range
  <2>2. Range(s) \subseteq Range(st)
    BY <1>4 DEF Range
  <2>3. Range(t) \subseteq Range(st)
    BY <1>5 DEF Range
  <2> QED
    BY <2>1, <2>2, <2>3
<1>7. NoTwice(s) /\ NoTwice(t) /\ Range(s) \cap Range(t) = {} => NoTwice(st)
  BY Joined DEF st
<1>8. ASSUME NoTwice(st) PROVE NoTwice(s) /\ NoTwice(t) /\ Range(s) \cap Range(t) = {}
  <2>1. NoTwice(s)
    BY <1>4, <1>8 DEF NoTwice
  <2>2. NoTwice(t)
    <3> SUFFICES ASSUME NEW i \in DOMAIN t, NEW j \in DOMAIN t, t[i] = t[j] PROVE i = j
      BY DEF NoTwice
    <3>1. Len(s) + i = Len(s) + j
      BY <1>5, <1>8 DEF NoTwice
    <3> QED
      BY <1>2, <3>1
  <2>3. ASSUME NEW x \in Range(s), x \in Range(t) PROVE FALSE
    <3>1. PICK i \in DOMAIN s : s[i] = x
      BY DEF Range
    <3>2. PICK j \in DOMAIN t : t[j] = x
      BY <2>3 DEF Range
    <3>3. i = Len(s) + j
      BY <1>4, <1>5, <1>8, <3>1, <3>2 DEF NoTwice
    <3> QED
      BY <1>2, <3>3
  <2> QED
    BY <2>1, <2>2, <2>3
<1>9. ASSUME NEW set, Increasing(s, set), Increasing(t, set),
             \A x \in Range(s) \cap set, y \in Range(t) \cap set : x < y
      PROVE  Increasing(st, set)
  <2> SUFFICES ASSUME NEW i \in DOMAIN st, NEW j \in DOMAIN st, i < j, st[i] \in set, st[j] \in set
               PROVE  st[i] < st[j]
    BY DEF Increasing
  <2>1. CASE i \in DOMAIN s /\ st[i] = s[i] /\ j \in DOMAIN s /\ st[j] = s[j]
    BY <1>9, <2>1 DEF Increasing
  <2>2. CASE st[i] \in Range(s) /\ st[j] \in Range(t)
    BY <1>9, <2>2
  <2>3. CASE i > Len(s) /\ i - Len(s) \in DOMAIN t /\ st[i] = t[i - Len(s)] /\
             j > Len(s) /\ j - Len(s) \in DOMAIN t /\ st[j] = t[j - Len(s)]
    <3>1. i - Len(s) < j - Len(s)
      BY <1>2, <2>3
    <3> QED
      BY <1>9, <2>3, <3>1 DEF Increasing
  <2>4. CASE i > Len(s) /\ j \in DOMAIN s
    BY <1>2, <2>4
  <2> QED
    BY <1>3, <2>1, <2>2, <2>3, <2>4
<1>10. ASSUME NEW set, Foremost(s, set), Foremost(t, set),
              Range(s) \subseteq set \/ Range(t) \cap set = {}
       PROVE  Foremost(st, set)
  <2> SUFFICES ASSUME NEW i \in DOMAIN st, NEW j \in DOMAIN st, i < j, st[j] \in set
               PROVE  st[i] \in set
    BY DEF Foremost
  <2>1. CASE i \in DOMAIN s /\ st[i] = s[i] /\ j \in DOMAIN s /\ st[j] = s[j]
    BY <1>10, <2>1 DEF Foremost
  <2>2. CASE st[i] \in Range(s) /\ st[j] \in Range(t)
    BY <1>10, <2>2
  <2>3. CASE i > Len(s) /\ i - Len(s) \in DOMAIN t /\ st[i] = t[i - Len(s)] /\
             j > Len(s) /\ j - Len(s) \in DOMAIN t /\ st[j] = t[j - Len(s)]
    <3>1. i - Len(s) < j - Len(s)
      BY <1>2, <2>3
    <3> QED
      BY <1>10, <2>3, <3>1 DEF Foremost
  <2>4. CASE i > Len(s) /\ j \in DOMAIN s
    BY <1>2, <2>4
  <2> QED
    BY <1>3, <2>1, <2>2, <2>3, <2>4
<1> QED
  BY <1>1, <1>6, <1>7, <1>8, <1>9, <1>10 DEF st

LEMMA JustOne ==
  ASSUME NEW S, NEW m \in S
  PROVE  /\ <<m>> \in Seq(S) /\ Range(<<m>>) = {m} /\ NoTwice(<<m>>)
         /\ \A set : Increasing(<<m>>, set) /\ Foremost(<<m>>, set)
<1>1. <<m>> \in Seq(S) /\ DOMAIN <<m>> = 1 .. 1 /\ <<m>>[1] = m
  OBVIOUS
<1>2. \A i \in DOMAIN <<m>> : i = 1
  BY <1>1
<1>3. \A i, j \in DOMAIN <<m>> : i = j /\ ~ i < j
  BY <1>2
<1>4. Range(<<m>>) = {m}
  BY <1>1, <1>2 DEF Range
<1> QED
  BY <1>1, <1>3, <1>4 DEF NoTwice, Increasing, Foremost

\* A message that is pushed is in order if it is the youngest, at the end, or not looked at.
LEMMA PushedIs ==
  ASSUME NEW S, NEW s \in Seq(S), NEW m \in S, NEW k
  PROVE  /\ Pushed(s, m, k) \in Seq(S) /\ Range(Pushed(s, m, k)) = Range(s) \cup {m}
         /\ NoTwice(s) /\ m \notin Range(s) => NoTwice(Pushed(s, m, k))
         /\ \A set : /\ Increasing(s, set)
                     /\ \/ m \notin set
                        \/ k \notin {"high", "urgent"} /\ \A x \in Range(s) \cap set : x < m
                     => Increasing(Pushed(s, m, k), set)
         /\ \A set : Foremost(s, set) /\ (m \in set <=> k \in {"high", "urgent"})
                     => Foremost(Pushed(s, m, k), set)
<1>1. PICK one : one = <<m>>
  OBVIOUS
<1>2. /\ one \in Seq(S) /\ Range(one) = {m} /\ NoTwice(one)
      /\ \A set : Increasing(one, set) /\ Foremost(one, set)
  BY <1>1, JustOne
<1>3. CASE k \in {"high", "urgent"}
  <2>1. Pushed(s, m, k) = one \o s
    BY <1>1, <1>3 DEF Pushed
  <2>2. /\ one \o s \in Seq(S) /\ Range(one \o s) = {m} \cup Range(s)
        /\ NoTwice(one \o s) <=> NoTwice(s) /\ {m} \cap Range(s) = {}
    BY <1>2, PutTogether
  <2>3. ASSUME NEW set, Increasing(s, set), m \notin set PROVE Increasing(one \o s, set)
    BY <1>2, <2>3, PutTogether
  <2>4. ASSUME NEW set, Foremost(s, set), m \in set PROVE Foremost(one \o s, set)
    BY <1>2, <2>4, PutTogether
  <2> QED
    BY <1>3, <2>1, <2>2, <2>3, <2>4
<1>4. CASE k \notin {"high", "urgent"}
  <2>1. Append(s, m) = s \o one
    BY <1>1
  <2>2. Pushed(s, m, k) = s \o one
    BY <1>4, <2>1 DEF Pushed
  <2>3. /\ s \o one \in Seq(S) /\ Range(s \o one) = Range(s) \cup {m}
        /\ NoTwice(s \o one) <=> NoTwice(s) /\ Range(s) \cap {m} = {}
    BY <1>2, PutTogether
  <2>4. ASSUME NEW set, Increasing(s, set), m \notin set \/ \A x \in Range(s) \cap set : x < m
        PROVE  Increasing(s \o one, set)
    BY <1>2, <2>4, PutTogether
  <2>5. ASSUME NEW set, Foremost(s, set), m \notin set PROVE Foremost(s \o one, set)
    BY <1>2, <2>5, PutTogether
  <2> QED
    BY <1>4, <2>2, <2>3, <2>4, <2>5
<1> QED
  BY <1>3, <1>4

\* Every place counts one more than the place before it.
LEMMA UpToCounts ==
  ASSUME NEW N \in Nat, NEW at, at \subseteq 1 .. N
  PROVE  /\ IsFiniteSet(at) /\ Cardinality(at) \in Nat
         /\ \A i \in at : UpTo(at, i) \in 1 .. Cardinality(at)
         /\ \A i, j \in at : i < j => UpTo(at, i) < UpTo(at, j)
<1>1. IsFiniteSet(1 .. N)
  BY FS_Interval
<1>2. IsFiniteSet(at) /\ Cardinality(at) \in Nat
  BY <1>1, FS_Subset, FS_CardinalityType
<1>3. ASSUME NEW i \in at PROVE UpTo(at, i) \in 1 .. Cardinality(at)
  <2> DEFINE below == {j \in at : j <= i}
  <2>1. below \subseteq at /\ i \in below
    OBVIOUS
  <2>2. IsFiniteSet(below) /\ Cardinality(below) <= Cardinality(at)
    BY <1>2, <2>1, FS_Subset
  <2>3. Cardinality(below) \in Nat /\ Cardinality(below) # 0
    BY <2>1, <2>2, FS_CardinalityType, FS_EmptySet
  <2> QED
    BY <1>2, <2>2, <2>3 DEF UpTo
<1>4. ASSUME NEW i \in at, NEW j \in at, i < j PROVE UpTo(at, i) < UpTo(at, j)
  <2> DEFINE low == {h \in at : h <= i}
             high == {h \in at : h <= j}
  <2> at \subseteq Int
    OBVIOUS
  <2>1. low \subseteq high /\ j \in high /\ j \notin low
    <3>1. \A h \in at : h <= i => h <= j
      BY <1>4
    <3>2. ~ j <= i
      BY <1>4
    <3>3. j \in Int /\ j <= j
      OBVIOUS
    <3> QED
      BY <3>1, <3>2, <3>3
  <2>2. IsFiniteSet(high) /\ high \subseteq at
    BY <1>2, FS_Subset
  <2>3. low # high
    BY <2>1
  <2>4. IsFiniteSet(low) /\ Cardinality(low) <= Cardinality(high) /\ Cardinality(low) # Cardinality(high)
    <3> HIDE DEF low, high
    <3> QED
      BY <2>1, <2>2, <2>3, FS_Subset
  <2>5. Cardinality(low) \in Nat /\ Cardinality(high) \in Nat
    BY <2>2, <2>4, FS_CardinalityType
  <2> QED
    BY <2>4, <2>5 DEF UpTo
<1> QED
  BY <1>2, <1>3, <1>4

\* So every number up to the number of places belongs to exactly one of them, in order.
LEMMA PlacesInOrder ==
  ASSUME NEW N \in Nat, NEW at, at \subseteq 1 .. N,
         NEW place,
         \A n \in 1 .. Cardinality(at) : place[n] = CHOOSE i \in at : UpTo(at, i) = n
  PROVE  /\ Cardinality(at) \in Nat
         /\ \A n \in 1 .. Cardinality(at) : place[n] \in at
         /\ \A m, n \in 1 .. Cardinality(at) : m < n => place[m] < place[n]
         /\ \A i \in at : \E n \in 1 .. Cardinality(at) : place[n] = i
<1> DEFINE D == 1 .. Cardinality(at)
           rank == [i \in at |-> UpTo(at, i)]
<1>1. /\ IsFiniteSet(at) /\ Cardinality(at) \in Nat
      /\ \A i \in at : UpTo(at, i) \in D
      /\ \A i, j \in at : i < j => UpTo(at, i) < UpTo(at, j)
  BY UpToCounts
<1>2. \A i, j \in at : UpTo(at, i) = UpTo(at, j) => i = j
  <2> SUFFICES ASSUME NEW i \in at, NEW j \in at, UpTo(at, i) = UpTo(at, j) PROVE i = j
    OBVIOUS
  <2>1. i \in Int /\ j \in Int /\ UpTo(at, i) \in Int /\ UpTo(at, j) \in Int
    BY <1>1
  <2>2. ~ i < j /\ ~ j < i
    BY <1>1, <2>1
  <2> QED
    BY <2>1, <2>2
<1>3. rank \in Injection(at, D)
  BY <1>1, <1>2 DEF Injection, IsInjective
<1>4. IsFiniteSet(D) /\ Cardinality(D) = Cardinality(at)
  BY <1>1, FS_Interval
<1>5. rank \in Surjection(at, D)
  <2> HIDE DEF rank, D
  <2> QED
    BY <1>1, <1>3, <1>4, FS_Injection
<1>6. \A n \in D : \E i \in at : UpTo(at, i) = n
  BY <1>5 DEF Surjection
<1>7. \A n \in D : place[n] \in at /\ UpTo(at, place[n]) = n
  <2> SUFFICES ASSUME NEW n \in D PROVE place[n] \in at /\ UpTo(at, place[n]) = n
    OBVIOUS
  <2>1. PICK i \in at : UpTo(at, i) = n
    BY <1>6
  <2>2. place[n] = CHOOSE h \in at : UpTo(at, h) = n
    OBVIOUS
  <2> QED
    BY <2>1, <2>2, Zenon
<1>8. ASSUME NEW m \in D, NEW n \in D, m < n PROVE place[m] < place[n]
  <2>1. place[m] \in at /\ place[n] \in at /\ UpTo(at, place[m]) = m /\ UpTo(at, place[n]) = n
    BY <1>7
  <2>2. place[m] \in Int /\ place[n] \in Int
    <3>1. at \subseteq Int
      OBVIOUS
    <3> QED
      BY <2>1, <3>1
  <2>4. m \in Int /\ n \in Int
    BY <1>1
  <2>3. place[m] # place[n] /\ ~ place[n] < place[m]
    <3>1. place[n] < place[m] => n < m
      <4>1. \A i, j \in at : i < j => UpTo(at, i) < UpTo(at, j)
        BY <1>1
      <4>2. place[n] < place[m] => UpTo(at, place[n]) < UpTo(at, place[m])
        BY <2>1, <4>1, Zenon
      <4> QED
        BY <2>1, <4>2, Zenon
    <3> QED
      BY <1>8, <2>1, <2>4, <3>1
  <2> QED
    BY <2>2, <2>3
<1>9. ASSUME NEW i \in at PROVE \E n \in D : place[n] = i
  <2>1. UpTo(at, i) \in D
    BY <1>1
  <2>2. place[UpTo(at, i)] = i
    BY <1>2, <1>7, <2>1
  <2> QED
    BY <2>1, <2>2
<1> QED
  BY <1>1, <1>7, <1>8, <1>9

\* The selection has the messages of the set, none of them twice, in their order.
LEMMA SelectedIs ==
  ASSUME NEW S, NEW s \in Seq(S), NEW set
  PROVE  /\ Selected(s, set) \in Seq(S) /\ Range(Selected(s, set)) = Range(s) \cap set
         /\ NoTwice(s) => NoTwice(Selected(s, set))
         /\ \A other : Increasing(s, other) => Increasing(Selected(s, set), other)
<1> DEFINE at == {i \in DOMAIN s : s[i] \in set}
           D == 1 .. Cardinality(at)
<1>1. DOMAIN s = 1 .. Len(s) /\ Len(s) \in Nat /\ \A i \in DOMAIN s : s[i] \in S
  BY LenProperties
<1>2. at \subseteq 1 .. Len(s)
  BY <1>1
<1>3. PICK place : place = [n \in D |-> CHOOSE i \in at : UpTo(at, i) = n]
  OBVIOUS
<1>4. \A n \in D : place[n] = CHOOSE i \in at : UpTo(at, i) = n
  BY <1>3, Zenon
<1>5. /\ Cardinality(at) \in Nat
      /\ \A n \in D : place[n] \in at
      /\ \A m, n \in D : m < n => place[m] < place[n]
      /\ \A i \in at : \E n \in D : place[n] = i
  <2>1. PICK A : A = at
    OBVIOUS
  <2>2. /\ A \subseteq 1 .. Len(s) /\ Len(s) \in Nat
        /\ \A n \in 1 .. Cardinality(A) : place[n] = CHOOSE i \in A : UpTo(A, i) = n
    BY <1>1, <1>2, <1>4, <2>1
  <2>3. /\ Cardinality(A) \in Nat
        /\ \A n \in 1 .. Cardinality(A) : place[n] \in A
        /\ \A m, n \in 1 .. Cardinality(A) : m < n => place[m] < place[n]
        /\ \A i \in A : \E n \in 1 .. Cardinality(A) : place[n] = i
    BY <2>2, PlacesInOrder
  <2> QED
    BY <2>1, <2>3
<1>6. PICK t : t = Selected(s, set)
  OBVIOUS
<1>7. t = [n \in D |-> s[place[n]]]
  <2>1. t = [n \in D |-> s[CHOOSE i \in at : UpTo(at, i) = n]]
    BY <1>6, Zenon DEF Selected
  <2>2. \A n \in D : t[n] = s[CHOOSE i \in at : UpTo(at, i) = n]
    BY <2>1, Zenon
  <2>3. \A n \in D : t[n] = s[place[n]]
    BY <1>4, <2>2, Zenon
  <2>4. DOMAIN t = D /\ t = [n \in DOMAIN t |-> t[n]]
    BY <2>1
  <2> QED
    BY <2>3, <2>4
<1>8. /\ DOMAIN t = D
      /\ \A n \in D : /\ n \in Int /\ place[n] \in DOMAIN s /\ place[n] \in Int
                      /\ t[n] = s[place[n]] /\ t[n] \in set
  BY <1>1, <1>5, <1>7
<1>9. t \in Seq(S)
  <2>1. t \in [D -> S]
    BY <1>1, <1>7, <1>8
  <2> QED
    BY <1>5, <2>1
<1>10. Range(t) = Range(s) \cap set
  <2>1. Range(t) \subseteq Range(s) \cap set
    BY <1>8 DEF Range
  <2>2. ASSUME NEW x \in Range(s) \cap set PROVE x \in Range(t)
    <3>1. PICK i \in DOMAIN s : s[i] = x
      BY DEF Range
    <3>2. i \in at
      BY <3>1
    <3>3. PICK n \in D : place[n] = i
      BY <1>5, <3>2
    <3> QED
      BY <1>8, <3>1, <3>3 DEF Range
  <2> QED
    BY <2>1, <2>2
<1>11. ASSUME NoTwice(s) PROVE NoTwice(t)
  <2> SUFFICES ASSUME NEW m \in D, NEW n \in D, t[m] = t[n] PROVE m = n
    BY <1>8 DEF NoTwice
  <2>1. place[m] = place[n]
    BY <1>8, <1>11 DEF NoTwice
  <2>2. ~ m < n /\ ~ n < m
    BY <1>5, <1>8, <2>1
  <2> QED
    BY <1>8, <2>2
<1>12. ASSUME NEW other, Increasing(s, other) PROVE Increasing(t, other)
  <2> SUFFICES ASSUME NEW m \in D, NEW n \in D, m < n, t[m] \in other, t[n] \in other
               PROVE  t[m] < t[n]
    BY <1>8 DEF Increasing
  <2>1. place[m] < place[n] /\ s[place[m]] \in other /\ s[place[n]] \in other
    BY <1>5, <1>8
  <2> QED
    BY <1>8, <1>12, <2>1 DEF Increasing
<1> QED
  BY <1>6, <1>9, <1>10, <1>11, <1>12

----------------------------------------------------------------------------
(* The shape of the state *)

Typed ==
  /\ kind \in Seq(Kinds)
  /\ inbox \in Seq(Sent) /\ urgent \in Seq(Sent) /\ supervisor \in Seq(Sent)
  /\ round \in [at : {"off", "urgent", "regular", "run", "requeue"},
                urgent : Seq(Sent), regular : Seq(Sent)]
  /\ filter \in [Filters -> [at : {"off", "del", "push"}, kept : Seq(Sent)]]
  /\ handled \subseteq Sent
  /\ past \in [gone : SUBSET Sent, tried : SUBSET Sent, late : SUBSET Sent,
               between : SUBSET Sent, missed : SUBSET Sent, overlap : BOOLEAN]

\* What is sent is new, and younger than everything else.
NewMessage(m, k) ==
  /\ m \in Nat /\ m \notin Sent /\ Sent' = Sent \cup {m} /\ \A x \in Sent : x \in Nat /\ x < m
  /\ kind' \in Seq(Kinds) /\ kind'[m] = k /\ \A x \in Sent : kind'[x] = kind[x]
  /\ inbox \in Seq(Sent') /\ urgent \in Seq(Sent') /\ supervisor \in Seq(Sent')
  /\ inbox' = IF k \in {"task", "note", "high"} THEN Pushed(inbox, m, k) ELSE inbox
  /\ urgent' = IF k = "urgent" THEN Pushed(urgent, m, k) ELSE urgent
  /\ supervisor' = IF k \in {"help", "report"} THEN Pushed(supervisor, m, k) ELSE supervisor
  /\ Range(inbox') = Range(inbox) \cup IF k \in {"task", "note", "high"} THEN {m} ELSE {}
  /\ Range(urgent') = Range(urgent) \cup IF k = "urgent" THEN {m} ELSE {}
  /\ Range(supervisor') = Range(supervisor) \cup IF k \in {"help", "report"} THEN {m} ELSE {}
  /\ past' = Noted(m, k)

LEMMA SendDoes ==
  ASSUME Typed, NEW k \in Kinds, Send(k)
  PROVE  /\ \E m \in Nat : NewMessage(m, k)
         /\ round' = round /\ filter' = filter /\ handled' = handled
<1>1. /\ kind \in Seq(Kinds) /\ Len(kind) \in Nat /\ kind' = Append(kind, k)
      /\ kind' \in Seq(Kinds) /\ Len(kind') = Len(kind) + 1
      /\ \A i \in 1 .. Len(kind) : kind'[i] = kind[i]
      /\ kind'[Len(kind) + 1] = k
  BY AppendProperties, LenProperties DEF Typed, Send
<1>2. Sent = 1 .. Len(kind) /\ Sent' = 1 .. Len(kind) + 1
  BY <1>1, LenProperties DEF Sent
<1>3. PICK m \in Nat : m = Len(kind) + 1
  BY <1>1
<1>4. m \notin Sent /\ Sent' = Sent \cup {m} /\ \A x \in Sent : x \in Nat /\ x < m
  BY <1>1, <1>2, <1>3
<1>5. /\ inbox' = IF k \in {"task", "note", "high"} THEN Pushed(inbox, m, k) ELSE inbox
      /\ urgent' = IF k = "urgent" THEN Pushed(urgent, m, k) ELSE urgent
      /\ supervisor' = IF k \in {"help", "report"} THEN Pushed(supervisor, m, k) ELSE supervisor
      /\ past' = Noted(m, k)
  BY <1>3 DEF Send, AgentKinds, SupervisorKinds
<1>6. \A s \in Seq(Sent) : s \in Seq(Sent')
  BY <1>4, Wider
<1>7. inbox \in Seq(Sent') /\ urgent \in Seq(Sent') /\ supervisor \in Seq(Sent')
  BY <1>6 DEF Typed
<1>8. m \in Sent' /\ \A s \in Seq(Sent') : Range(Pushed(s, m, k)) = Range(s) \cup {m}
  BY <1>4, PushedIs
<1>9. /\ Range(inbox') = Range(inbox) \cup IF k \in {"task", "note", "high"} THEN {m} ELSE {}
      /\ Range(urgent') = Range(urgent) \cup IF k = "urgent" THEN {m} ELSE {}
      /\ Range(supervisor') = Range(supervisor) \cup IF k \in {"help", "report"} THEN {m} ELSE {}
  BY <1>5, <1>7, <1>8
<1>10. NewMessage(m, k)
  BY <1>1, <1>2, <1>3, <1>4, <1>5, <1>7, <1>9 DEF NewMessage
<1> QED
  BY <1>10 DEF Send

LEMMA NotedIs ==
  ASSUME Typed, NEW m, NEW k, past' = Noted(m, k)
  PROVE  /\ past' = [past EXCEPT !.late = past'.late, !.between = past'.between, !.missed = past'.missed]
         /\ past'.gone = past.gone /\ past'.tried = past.tried /\ past'.overlap = past.overlap
         /\ past.late \subseteq past'.late /\ past'.late \subseteq past.late \cup {m}
         /\ past.between \subseteq past'.between /\ past'.between \subseteq past.between \cup {m}
         /\ past.missed \subseteq past'.missed /\ past'.missed \subseteq past.missed \cup {m}
         /\ k \in SupervisorKinds /\ Filtering("del") => m \in past'.late
         /\ k \in SupervisorKinds /\ Filtering("push") => m \in past'.between
         /\ k = "urgent" /\ round.at = "regular" => m \in past'.missed
<1>1. past' = [past EXCEPT
         !.late = IF k \in SupervisorKinds /\ Filtering("del") THEN @ \cup {m} ELSE @,
         !.between = IF k \in SupervisorKinds /\ Filtering("push") THEN @ \cup {m} ELSE @,
         !.missed = IF k = "urgent" /\ round.at = "regular" THEN @ \cup {m} ELSE @]
  BY DEF Noted
<1>2. past \in [gone : SUBSET Sent, tried : SUBSET Sent, late : SUBSET Sent,
                between : SUBSET Sent, missed : SUBSET Sent, overlap : BOOLEAN]
  BY DEF Typed
<1> QED
  BY <1>1, <1>2

\* Everything but a send leaves the messages that were sent as they are.
LEMMA SentStays ==
  ASSUME kind' = kind
  PROVE  /\ Sent' = Sent /\ Actionable' = Actionable /\ Kept' = Kept
         /\ \A x : kind'[x] = kind[x]
BY DEF Sent, Actionable, Kept

LEMMA TypedInit ==
  ASSUME Init
  PROVE  Typed
<1>1. \A S : <<>> \in Seq(S)
  BY NothingIn
<1> QED
  BY <1>1 DEF Init, Typed, NoRound, NoFilter

LEMMA HandIs ==
  ASSUME Typed
  PROVE  Hand \in Seq(Sent) /\ Range(Hand) = Range(round.urgent) \cup Range(round.regular)
<1>1. round.urgent \in Seq(Sent) /\ round.regular \in Seq(Sent)
  BY DEF Typed
<1> QED
  BY <1>1, PutTogether DEF Hand

LEMMA HeadOfJoined ==
  ASSUME NEW S, NEW s \in Seq(S), NEW t \in Seq(S)
  PROVE  /\ s \o t = <<>> <=> s = <<>> /\ t = <<>>
         /\ s # <<>> => Head(s \o t) = Head(s)
         /\ s = <<>> => s \o t = t
<1>1. /\ s \o t \in Seq(S) /\ Len(s \o t) = Len(s) + Len(t)
      /\ \A i \in 1 .. Len(s) + Len(t) :
           (s \o t)[i] = IF i <= Len(s) THEN s[i] ELSE t[i - Len(s)]
  BY ConcatProperties
<1>2. Len(s) \in Nat /\ Len(t) \in Nat
  BY LenProperties
<1>3. \A u \in Seq(S) : u = <<>> <=> Len(u) = 0
  BY EmptySeq
<1>4. s \o t = <<>> <=> s = <<>> /\ t = <<>>
  BY <1>1, <1>2, <1>3
<1>5. ASSUME s # <<>> PROVE Head(s \o t) = Head(s)
  <2>1. Len(s) # 0 /\ 1 \in 1 .. Len(s) + Len(t) /\ 1 <= Len(s)
    BY <1>2, <1>3, <1>5
  <2>2. (s \o t)[1] = s[1]
    BY <1>1, <2>1
  <2>3. PICK st : st = s \o t
    OBVIOUS
  <2>4. Head(st) = st[1]
    OBVIOUS
  <2>5. Head(s) = s[1]
    OBVIOUS
  <2> QED
    BY <2>2, <2>3, <2>4, <2>5
<1>6. ASSUME s = <<>> PROVE s \o t = t
  BY <1>6, ConcatEmptySeq
<1> QED
  BY <1>4, <1>5, <1>6

LEMMA ReceiveDoes ==
  ASSUME Typed, ReceiveUrgent
  PROVE  \/ urgent = <<>> /\ urgent' = urgent /\ round' = [round EXCEPT !.at = "regular"]
         \/ \E m \in Sent :
              /\ urgent # <<>> /\ m = Head(urgent) /\ urgent' = Tail(urgent)
              /\ round' = [round EXCEPT !.urgent = Append(round.urgent, m)]
<1>1. urgent \in Seq(Sent)
  BY DEF Typed
<1>2. CASE urgent = <<>>
  BY <1>2 DEF ReceiveUrgent
<1>3. CASE urgent # <<>>
  <2>1. Head(urgent) \in Sent
    BY <1>1, <1>3, Popped
  <2>2. /\ urgent' = Tail(urgent)
        /\ round' = [round EXCEPT !.urgent = Append(round.urgent, Head(urgent))]
    BY <1>3, Zenon DEF ReceiveUrgent
  <2> QED
    BY <1>3, <2>1, <2>2
<1> QED
  BY <1>2, <1>3

\* A message goes back to the list it came from, the first of the hand first.
LEMMA RequeueDoes ==
  ASSUME Typed, Requeue
  PROVE  \/ /\ Range(Hand) = {} /\ round' = NoRound /\ inbox' = inbox /\ urgent' = urgent
         \/ \E m \in Sent :
              /\ round.urgent # <<>> /\ m = Head(round.urgent)
              /\ urgent' = Pushed(urgent, m, "urgent") /\ inbox' = inbox
              /\ round' = [round EXCEPT !.urgent = Tail(round.urgent)]
         \/ \E m \in Sent :
              /\ round.regular # <<>> /\ m = Head(round.regular)
              /\ inbox' = Pushed(inbox, m, kind[m]) /\ urgent' = urgent
              /\ round' = [round EXCEPT !.regular = Tail(round.regular)]
<1>1. round.urgent \in Seq(Sent) /\ round.regular \in Seq(Sent)
  BY DEF Typed
<1>2. /\ Hand = <<>> <=> round.urgent = <<>> /\ round.regular = <<>>
      /\ round.urgent # <<>> => Head(Hand) = Head(round.urgent)
      /\ round.urgent = <<>> => Hand = round.regular
  BY <1>1, HeadOfJoined DEF Hand
<1>3. \A s \in Seq(Sent) : s # <<>> => Head(s) \in Sent
  BY Popped
<1>4. CASE Hand = <<>>
  BY <1>4, NothingIn DEF Requeue
<1>5. CASE Hand # <<>> /\ round.urgent # <<>>
  <2>1. /\ urgent' = Pushed(urgent, Head(Hand), "urgent") /\ inbox' = inbox
        /\ round' = [round EXCEPT !.urgent = Tail(round.urgent)]
    BY <1>5, Zenon DEF Requeue
  <2> QED
    BY <1>1, <1>2, <1>3, <1>5, <2>1
<1>6. CASE Hand # <<>> /\ round.urgent = <<>>
  <2>1. /\ inbox' = Pushed(inbox, Head(Hand), kind[Head(Hand)]) /\ urgent' = urgent
        /\ round' = [round EXCEPT !.regular = Tail(round.regular)]
    BY <1>6, Zenon DEF Requeue
  <2> QED
    BY <1>1, <1>2, <1>3, <1>6, <2>1
<1> QED
  BY <1>4, <1>5, <1>6

LEMMA TypedKept ==
  ASSUME Typed, [Next]_vars
  PROVE  Typed'
<1>1. ASSUME NEW k \in Kinds, Send(k) PROVE Typed'
  <2>1. PICK m \in Nat : NewMessage(m, k)
    BY <1>1, SendDoes
  <2>2. m \in Sent' /\ Sent \subseteq Sent'
    BY <2>1 DEF NewMessage
  <2>3. \A s \in Seq(Sent) : s \in Seq(Sent')
    BY <2>2, Wider
  <2>4. \A s \in Seq(Sent') : Pushed(s, m, k) \in Seq(Sent')
    BY <2>2, PushedIs
  <2>5. inbox' \in Seq(Sent') /\ urgent' \in Seq(Sent') /\ supervisor' \in Seq(Sent')
    BY <2>1, <2>4 DEF NewMessage
  <2>6. round' \in [at : {"off", "urgent", "regular", "run", "requeue"},
                    urgent : Seq(Sent'), regular : Seq(Sent')]
    BY <1>1, <2>3 DEF Typed, Send
  <2>7. filter' \in [Filters -> [at : {"off", "del", "push"}, kept : Seq(Sent')]]
    BY <1>1, <2>3 DEF Typed, Send
  <2>8. past' \in [gone : SUBSET Sent', tried : SUBSET Sent', late : SUBSET Sent',
                   between : SUBSET Sent', missed : SUBSET Sent', overlap : BOOLEAN]
    BY <2>1, <2>2, NotedIs DEF Typed, NewMessage
  <2>9. handled' \subseteq Sent'
    BY <1>1, <2>2 DEF Typed, Send
  <2> QED
    BY <2>1, <2>5, <2>6, <2>7, <2>8, <2>9 DEF Typed, NewMessage
<1>2. ASSUME RoundBegins PROVE Typed'
  BY <1>2, SentStays, NothingIn DEF RoundBegins, Typed, NoRound, boxes
<1>3. ASSUME ReceiveUrgent PROVE Typed'
  <2>1. Sent' = Sent
    BY <1>3, SentStays DEF ReceiveUrgent
  <2>2. \A s \in Seq(Sent) : s # <<>> => Head(s) \in Sent /\ Tail(s) \in Seq(Sent)
    BY Popped
  <2>3. \A s \in Seq(Sent), m \in Sent : Append(s, m) \in Seq(Sent)
    OBVIOUS
  <2>4. /\ kind' = kind /\ inbox' = inbox /\ supervisor' = supervisor /\ filter' = filter
        /\ handled' = handled /\ past' = past
    BY <1>3 DEF ReceiveUrgent
  <2>5. urgent' \in Seq(Sent)
    BY <1>3, <2>2, ReceiveDoes DEF Typed
  <2>6. round' \in [at : {"off", "urgent", "regular", "run", "requeue"},
                    urgent : Seq(Sent), regular : Seq(Sent)]
    <3>1. CASE round' = [round EXCEPT !.at = "regular"]
      BY <3>1 DEF Typed
    <3>2. ASSUME NEW m \in Sent, round' = [round EXCEPT !.urgent = Append(round.urgent, m)]
          PROVE  round' \in [at : {"off", "urgent", "regular", "run", "requeue"},
                             urgent : Seq(Sent), regular : Seq(Sent)]
      <4>1. round.urgent \in Seq(Sent)
        BY DEF Typed
      <4>2. PICK list \in Seq(Sent) : list = Append(round.urgent, m)
        BY <2>3, <4>1
      <4>3. round' = [round EXCEPT !.urgent = list]
        BY <3>2, <4>2
      <4> QED
        BY <4>3 DEF Typed
    <3> QED
      BY <1>3, <3>1, <3>2, ReceiveDoes
  <2> QED
    BY <2>1, <2>4, <2>5, <2>6 DEF Typed
<1>4. ASSUME DrainInbox PROVE Typed'
  <2>1. Sent' = Sent
    BY <1>4, SentStays DEF DrainInbox
  <2>2. \A s \in Seq(Sent) : s # <<>> => Head(s) \in Sent /\ Tail(s) \in Seq(Sent)
    BY Popped
  <2>3. \A s \in Seq(Sent), m \in Sent : Append(s, m) \in Seq(Sent)
    OBVIOUS
  <2> QED
    BY <1>4, <2>1, <2>2, <2>3 DEF DrainInbox, Typed
<1>5. ASSUME Classify PROVE Typed'
  <2>1. Sent' = Sent
    BY <1>5, SentStays DEF Classify
  <2>2. \A s \in Seq(Sent) : Selected(s, Actionable) \in Seq(Sent)
    BY SelectedIs
  <2>3. ToSet(Hand) \subseteq Sent
    BY HandIs, SameNames, Ranges
  <2> QED
    BY <1>5, <2>1, <2>2, <2>3 DEF Classify, Typed, boxes
<1>6. ASSUME RoundSucceeds PROVE Typed'
  <2>1. ToSet(Hand) \subseteq Sent
    BY HandIs, SameNames, Ranges
  <2> QED
    BY <1>6, <2>1, SentStays, NothingIn DEF RoundSucceeds, Typed, NoRound, boxes
<1>7. ASSUME RoundFails PROVE Typed'
  <2>1. ToSet(Hand) \subseteq Sent
    BY HandIs, SameNames, Ranges
  <2> QED
    BY <1>7, <2>1, SentStays DEF RoundFails, Typed, boxes
<1>8. ASSUME Requeue PROVE Typed'
  <2>1. Sent' = Sent
    BY <1>8, SentStays DEF Requeue
  <2>2. \A s \in Seq(Sent) : s # <<>> => Head(s) \in Sent /\ Tail(s) \in Seq(Sent)
    BY Popped
  <2>3. \A k : \A s \in Seq(Sent), m \in Sent : Pushed(s, m, k) \in Seq(Sent)
    BY PushedIs
  <2>4. /\ kind' = kind /\ supervisor' = supervisor /\ filter' = filter
        /\ handled' = handled /\ past' = past
    BY <1>8 DEF Requeue
  <2>5. inbox' \in Seq(Sent) /\ urgent' \in Seq(Sent)
    <3>1. /\ inbox \in Seq(Sent) /\ urgent \in Seq(Sent)
          /\ round.urgent \in Seq(Sent) /\ round.regular \in Seq(Sent)
      BY DEF Typed
    <3> QED
      BY <1>8, <2>3, <3>1, RequeueDoes
  <2>6. round' \in [at : {"off", "urgent", "regular", "run", "requeue"},
                    urgent : Seq(Sent), regular : Seq(Sent)]
    <3>1. NoRound \in [at : {"off"}, urgent : Seq(Sent), regular : Seq(Sent)]
      BY NothingIn DEF NoRound
    <3> QED
      BY <1>8, <2>2, <3>1, RequeueDoes DEF Typed
  <2> QED
    BY <2>1, <2>4, <2>5, <2>6 DEF Typed
<1>9. ASSUME NEW p \in Filters, LookForHelp(p) PROVE Typed'
  <2>1. Selected(supervisor, Kept) \in Seq(Sent)
    BY SelectedIs DEF Typed
  <2>2. past.overlap \/ Filtering("del") \in BOOLEAN
    BY DEF Filtering, Typed
  <2> QED
    BY <1>9, <2>1, <2>2, SentStays DEF LookForHelp, Typed, boxes
<1>10. ASSUME NEW p \in Filters, DeleteMailbox(p) PROVE Typed'
  <2>1. ToSet(supervisor) \subseteq Sent
    BY SameNames, Ranges DEF Typed
  <2> QED
    BY <1>10, <2>1, SentStays, NothingIn DEF DeleteMailbox, Typed, NoFilter
<1>11. ASSUME NEW p \in Filters, PushKept(p) PROVE Typed'
  <2>1. filter[p].kept \in Seq(Sent) /\ supervisor \in Seq(Sent)
    BY DEF Typed
  <2>2. supervisor \o filter[p].kept \in Seq(Sent) /\ ToSet(filter[p].kept) \subseteq Sent
    BY <2>1, SameNames, Ranges, PutTogether
  <2> QED
    BY <1>11, <2>2, SentStays, NothingIn DEF PushKept, Typed, NoFilter
<1>12. ASSUME NEW p \in Filters, FilterCrash(p) PROVE Typed'
  <2>1. ToSet(filter[p].kept) \subseteq Sent
    BY SameNames, Ranges DEF Typed
  <2> QED
    BY <1>12, <2>1, SentStays, NothingIn DEF FilterCrash, Typed, NoFilter, boxes
<1>13. ASSUME LoopCrash PROVE Typed'
  <2>1. ToSet(Hand) \subseteq Sent
    BY HandIs, SameNames, Ranges
  <2> QED
    BY <1>13, <2>1, SentStays, NothingIn DEF LoopCrash, Typed, NoRound, boxes
<1>14. ASSUME Reset PROVE Typed'
  <2>1. ToSet(inbox) \subseteq Sent /\ ToSet(urgent) \subseteq Sent /\ ToSet(supervisor) \subseteq Sent
    BY SameNames, Ranges DEF Typed
  <2> QED
    BY <1>14, <2>1, SentStays, NothingIn DEF Reset, Typed
<1>15. CASE UNCHANGED vars
  BY <1>15, SentStays DEF vars, boxes, Typed
<1> QED
  BY <1>1, <1>2, <1>3, <1>4, <1>5, <1>6, <1>7, <1>8, <1>9, <1>10, <1>11, <1>12, <1>13, <1>14, <1>15
  DEF Next, RoundStep, FilterStep

----------------------------------------------------------------------------
(* Messages between a list and the round *)

\* Taken from a list into the round, or put back: as sets, what waits and what is in hand
\* stay together, and nothing else changes.
LEMMA Carried ==
  ASSUME Typed, ReceiveUrgent \/ DrainInbox \/ Requeue
  PROVE  /\ Range(inbox') \cup Range(round'.regular) = Range(inbox) \cup Range(round.regular)
         /\ Range(urgent') \cup Range(round'.urgent) = Range(urgent) \cup Range(round.urgent)
         /\ kind' = kind /\ supervisor' = supervisor /\ filter' = filter
         /\ handled' = handled /\ past' = past
<1>1. /\ kind' = kind /\ supervisor' = supervisor /\ filter' = filter
      /\ handled' = handled /\ past' = past
  BY DEF ReceiveUrgent, DrainInbox, Requeue
<1>2. /\ inbox \in Seq(Sent) /\ urgent \in Seq(Sent)
      /\ round.urgent \in Seq(Sent) /\ round.regular \in Seq(Sent)
  BY DEF Typed
<1>3. \A s \in Seq(Sent) : s # <<>> => Range(s) = Range(Tail(s)) \cup {Head(s)}
  BY Popped
<1>4. \A k : \A s \in Seq(Sent), m \in Sent : Range(Pushed(s, m, k)) = Range(s) \cup {m}
  BY PushedIs
<1>5. \A s \in Seq(Sent), m \in Sent : Append(s, m) = Pushed(s, m, "note")
  BY DEF Pushed
<1>6. \A at, s, t : /\ [round EXCEPT !.at = at].urgent = round.urgent
                    /\ [round EXCEPT !.at = at].regular = round.regular
                    /\ [round EXCEPT !.urgent = s].urgent = s
                    /\ [round EXCEPT !.urgent = s].regular = round.regular
                    /\ [round EXCEPT !.regular = t].urgent = round.urgent
                    /\ [round EXCEPT !.regular = t].regular = t
  BY DEF Typed
<1>7. CASE ReceiveUrgent
  <2>1. inbox' = inbox
    BY <1>7 DEF ReceiveUrgent
  <2>2. CASE urgent = <<>> /\ urgent' = urgent /\ round' = [round EXCEPT !.at = "regular"]
    BY <1>1, <1>6, <2>1, <2>2
  <2>3. ASSUME NEW m \in Sent, urgent # <<>>, m = Head(urgent), urgent' = Tail(urgent),
               round' = [round EXCEPT !.urgent = Append(round.urgent, m)]
        PROVE  /\ Range(urgent') \cup Range(round'.urgent) = Range(urgent) \cup Range(round.urgent)
               /\ round'.regular = round.regular
    <3>1. round'.urgent = Pushed(round.urgent, m, "note") /\ round'.regular = round.regular
      BY <1>2, <1>5, <1>6, <2>3
    <3>2. Range(round'.urgent) = Range(round.urgent) \cup {m}
      BY <1>2, <1>4, <3>1
    <3>3. Range(urgent) = Range(urgent') \cup {m}
      BY <1>2, <1>3, <2>3
    <3> QED
      BY <3>1, <3>2, <3>3
  <2> QED
    BY <1>1, <1>7, <2>1, <2>2, <2>3, ReceiveDoes
<1>8. CASE DrainInbox
  <2>1. /\ urgent' = urgent /\ inbox # <<>> /\ inbox' = Tail(inbox)
        /\ round' = [round EXCEPT !.regular = Append(round.regular, Head(inbox))]
    BY <1>8 DEF DrainInbox
  <2>2. PICK m \in Sent : m = Head(inbox)
    BY <1>2, <2>1, Popped
  <2>3. round'.regular = Pushed(round.regular, m, "note") /\ round'.urgent = round.urgent
    BY <1>2, <1>5, <1>6, <2>1, <2>2
  <2>4. Range(round'.regular) = Range(round.regular) \cup {m}
    BY <1>2, <1>4, <2>3
  <2>5. Range(inbox) = Range(inbox') \cup {m}
    BY <1>2, <1>3, <2>1, <2>2
  <2> QED
    BY <1>1, <2>1, <2>3, <2>4, <2>5
<1>9. CASE Requeue
  <2>1. CASE Range(Hand) = {} /\ round' = NoRound /\ inbox' = inbox /\ urgent' = urgent
    <3>1. Range(round.urgent) = {} /\ Range(round.regular) = {}
      BY <2>1, HandIs
    <3>2. Range(round'.urgent) = {} /\ Range(round'.regular) = {}
      BY <2>1, NothingIn DEF NoRound
    <3> QED
      BY <1>1, <2>1, <3>1, <3>2
  <2>2. ASSUME NEW m \in Sent, round.urgent # <<>>, m = Head(round.urgent),
               urgent' = Pushed(urgent, m, "urgent"), inbox' = inbox,
               round' = [round EXCEPT !.urgent = Tail(round.urgent)]
        PROVE  /\ Range(urgent') \cup Range(round'.urgent) = Range(urgent) \cup Range(round.urgent)
               /\ round'.regular = round.regular
    <3>1. round'.urgent = Tail(round.urgent) /\ round'.regular = round.regular
      BY <1>6, <2>2
    <3>2. Range(round.urgent) = Range(round'.urgent) \cup {m} /\ Range(urgent') = Range(urgent) \cup {m}
      BY <1>2, <1>3, <1>4, <2>2, <3>1
    <3> QED
      BY <3>1, <3>2
  <2>3. ASSUME NEW m \in Sent, round.regular # <<>>, m = Head(round.regular),
               inbox' = Pushed(inbox, m, kind[m]), urgent' = urgent,
               round' = [round EXCEPT !.regular = Tail(round.regular)]
        PROVE  /\ Range(inbox') \cup Range(round'.regular) = Range(inbox) \cup Range(round.regular)
               /\ round'.urgent = round.urgent
    <3>1. round'.regular = Tail(round.regular) /\ round'.urgent = round.urgent
      BY <1>6, <2>3
    <3>2. Range(round.regular) = Range(round'.regular) \cup {m} /\ Range(inbox') = Range(inbox) \cup {m}
      BY <1>2, <1>3, <1>4, <2>3, <3>1
    <3> QED
      BY <3>1, <3>2
  <2> QED
    BY <1>1, <1>9, <2>1, <2>2, <2>3, RequeueDoes
<1> QED
  BY <1>7, <1>8, <1>9

\* A round that ends, or is lost, has nothing in hand.
LEMMA NoRoundHasNothing ==
  ASSUME round' = NoRound
  PROVE  /\ round'.at = "off" /\ round'.urgent = <<>> /\ round'.regular = <<>>
         /\ Range(round'.urgent) = {} /\ Range(round'.regular) = {}
BY NothingIn DEF NoRound

LEMMA ClassifyDoes ==
  ASSUME Typed, Classify
  PROVE  /\ round.at = "regular" /\ round'.at \in {"run", "off"}
         /\ round'.urgent = Selected(round.urgent, Actionable)
         /\ round'.regular = Selected(round.regular, Actionable)
         /\ Range(round'.urgent) = Range(round.urgent) \cap Actionable
         /\ Range(round'.regular) = Range(round.regular) \cap Actionable
         /\ handled' = handled \cup ((Range(round.urgent) \cup Range(round.regular)) \ Actionable)
         /\ kind' = kind /\ inbox' = inbox /\ urgent' = urgent /\ supervisor' = supervisor
         /\ filter' = filter /\ past' = past
<1>1. round.urgent \in Seq(Sent) /\ round.regular \in Seq(Sent)
  BY DEF Typed
<1>2. /\ Range(Selected(round.urgent, Actionable)) = Range(round.urgent) \cap Actionable
      /\ Range(Selected(round.regular, Actionable)) = Range(round.regular) \cap Actionable
  BY <1>1, SelectedIs
<1>3. ToSet(Hand) = Range(round.urgent) \cup Range(round.regular)
  BY HandIs, SameNames
<1> QED
  BY <1>2, <1>3 DEF Classify, boxes

\* What a filter has and how far it is, after a step of one of them.
LEMMA FilterBecomes ==
  ASSUME Typed, NEW p \in Filters, NEW f, filter' = [filter EXCEPT ![p] = f]
  PROVE  filter'[p] = f /\ \A q \in Filters : q # p => filter'[q] = filter[q]
BY DEF Typed

LEMMA LookDoes ==
  ASSUME Typed, NEW p \in Filters, LookForHelp(p)
  PROVE  /\ filter[p].at = "off" /\ filter'[p].at = "del"
         /\ filter'[p].kept = Selected(supervisor, Kept)
         /\ Range(filter'[p].kept) = Range(supervisor) \cap Kept
         /\ \A q \in Filters : q # p => filter'[q] = filter[q]
         /\ past' = [past EXCEPT !.overlap = past'.overlap]
         /\ past'.late = past.late /\ past'.between = past.between /\ past'.gone = past.gone
         /\ past'.tried = past.tried /\ past'.missed = past.missed
         /\ past'.overlap <=> past.overlap \/ Filtering("del")
         /\ kind' = kind /\ inbox' = inbox /\ urgent' = urgent /\ supervisor' = supervisor
         /\ round' = round /\ handled' = handled
<1>1. PICK f : f = [at |-> "del", kept |-> Selected(supervisor, Kept)]
  OBVIOUS
<1>2. filter[p].at = "off" /\ filter' = [filter EXCEPT ![p] = f]
  BY <1>1 DEF LookForHelp
<1>3. Range(Selected(supervisor, Kept)) = Range(supervisor) \cap Kept
  BY SelectedIs DEF Typed
<1>4. past' = [past EXCEPT !.overlap = past.overlap \/ Filtering("del")]
  BY DEF LookForHelp
<1>5. past \in [gone : SUBSET Sent, tried : SUBSET Sent, late : SUBSET Sent,
                between : SUBSET Sent, missed : SUBSET Sent, overlap : BOOLEAN]
  BY DEF Typed
<1>6. PICK b \in BOOLEAN : b <=> past.overlap \/ Filtering("del")
  OBVIOUS
<1>7. past' = [past EXCEPT !.overlap = b]
  <2>1. past.overlap \in BOOLEAN /\ Filtering("del") \in BOOLEAN
    BY <1>5 DEF Filtering
  <2>2. b = (past.overlap \/ Filtering("del"))
    BY <1>6, <2>1
  <2> QED
    BY <1>4, <2>2
<1>8. filter'[p] = f /\ \A q \in Filters : q # p => filter'[q] = filter[q]
  BY <1>2, FilterBecomes
<1> QED
  BY <1>1, <1>2, <1>3, <1>5, <1>6, <1>7, <1>8 DEF LookForHelp, boxes

LEMMA DeleteDoes ==
  ASSUME Typed, NEW p \in Filters, DeleteMailbox(p)
  PROVE  /\ filter[p].at = "del" /\ supervisor' = <<>> /\ Range(supervisor') = {}
         /\ \/ filter'[p].at = "push" /\ filter'[p].kept = filter[p].kept
            \/ filter'[p].at = "off" /\ filter'[p].kept = <<>> /\ filter[p].kept = <<>>
         /\ \A q \in Filters : q # p => filter'[q] = filter[q]
         /\ handled' = handled \cup (Range(supervisor) \ (Kept \cup past.late))
         /\ kind' = kind /\ inbox' = inbox /\ urgent' = urgent
         /\ round' = round /\ past' = past
<1>1. PICK f : f = IF filter[p].kept = <<>> THEN NoFilter ELSE [filter[p] EXCEPT !.at = "push"]
  OBVIOUS
<1>2. filter' = [filter EXCEPT ![p] = f]
  BY <1>1 DEF DeleteMailbox
<1>3. filter[p] \in [at : {"off", "del", "push"}, kept : Seq(Sent)]
  BY DEF Typed
<1>4. \/ f.at = "push" /\ f.kept = filter[p].kept
      \/ f.at = "off" /\ f.kept = <<>> /\ filter[p].kept = <<>>
  BY <1>1, <1>3 DEF NoFilter
<1>5. filter'[p] = f /\ \A q \in Filters : q # p => filter'[q] = filter[q]
  BY <1>2, FilterBecomes
<1>6. ToSet(supervisor) = Range(supervisor)
  BY SameNames
<1> QED
  BY <1>4, <1>5, <1>6, NothingIn DEF DeleteMailbox

LEMMA PushDoes ==
  ASSUME Typed, NEW p \in Filters, PushKept(p)
  PROVE  /\ filter[p].at = "push" /\ filter'[p].at = "off" /\ filter'[p].kept = <<>>
         /\ supervisor' = supervisor \o filter[p].kept
         /\ Range(supervisor') = Range(supervisor) \cup Range(filter[p].kept)
         /\ \A q \in Filters : q # p => filter'[q] = filter[q]
         /\ past' = [past EXCEPT !.late = past'.late]
         /\ past.late \subseteq past'.late
         /\ past'.late \subseteq past.late \cup Range(filter[p].kept)
         /\ Filtering("del") => Range(filter[p].kept) \subseteq past'.late
         /\ past'.between = past.between /\ past'.gone = past.gone
         /\ past'.tried = past.tried /\ past'.missed = past.missed /\ past'.overlap = past.overlap
         /\ kind' = kind /\ inbox' = inbox /\ urgent' = urgent
         /\ round' = round /\ handled' = handled
<1>1. /\ filter[p].kept \in Seq(Sent) /\ supervisor \in Seq(Sent)
      /\ past \in [gone : SUBSET Sent, tried : SUBSET Sent, late : SUBSET Sent,
                   between : SUBSET Sent, missed : SUBSET Sent, overlap : BOOLEAN]
  BY DEF Typed
<1>2. Range(supervisor \o filter[p].kept) = Range(supervisor) \cup Range(filter[p].kept)
  BY <1>1, PutTogether
<1>3. filter'[p] = NoFilter /\ \A q \in Filters : q # p => filter'[q] = filter[q]
  BY FilterBecomes DEF PushKept
<1>4. ToSet(filter[p].kept) = Range(filter[p].kept)
  BY SameNames
<1>5. PICK now : now = IF Filtering("del") THEN past.late \cup Range(filter[p].kept) ELSE past.late
  OBVIOUS
<1>6. past' = [past EXCEPT !.late = now]
  BY <1>4, <1>5 DEF PushKept
<1> QED
  BY <1>1, <1>2, <1>3, <1>5, <1>6 DEF PushKept, NoFilter

\* The accidents put nothing anywhere.
LEMMA AccidentDoes ==
  ASSUME Typed, LoopCrash \/ Reset \/ \E p \in Filters : FilterCrash(p)
  PROVE  /\ kind' = kind /\ handled' = handled
         /\ past' = [past EXCEPT !.gone = past'.gone] /\ past.gone \subseteq past'.gone
         /\ past'.late = past.late /\ past'.between = past.between
         /\ past'.tried = past.tried /\ past'.missed = past.missed /\ past'.overlap = past.overlap
         /\ \/ inbox' = inbox /\ urgent' = urgent /\ supervisor' = supervisor
            \/ /\ inbox' = <<>> /\ urgent' = <<>> /\ supervisor' = <<>>
               /\ Range(inbox) \cup Range(urgent) \cup Range(supervisor) \subseteq past'.gone
         /\ \/ round' = round
            \/ /\ round' = NoRound
               /\ Range(round.urgent) \cup Range(round.regular) \subseteq past'.gone
         /\ \A p \in Filters :
              \/ filter'[p] = filter[p]
              \/ /\ filter'[p].at = "off" /\ filter'[p].kept = <<>>
                 /\ filter[p].at = "push" => Range(filter[p].kept) \subseteq past'.gone
<1>1. past \in [gone : SUBSET Sent, tried : SUBSET Sent, late : SUBSET Sent,
                between : SUBSET Sent, missed : SUBSET Sent, overlap : BOOLEAN]
  BY DEF Typed
<1>2. CASE LoopCrash
  <2>1. past' = [past EXCEPT !.gone = past.gone \cup Range(Hand)]
    BY <1>2, SameNames DEF LoopCrash
  <2> QED
    BY <1>1, <1>2, <2>1, HandIs DEF LoopCrash, boxes
<1>3. CASE Reset
  <2>1. past' = [past EXCEPT !.gone =
                   past.gone \cup Range(inbox) \cup Range(urgent) \cup Range(supervisor)]
    <3>1. /\ ToSet(inbox) = Range(inbox) /\ ToSet(urgent) = Range(urgent)
          /\ ToSet(supervisor) = Range(supervisor)
      BY SameNames
    <3> QED
      BY <1>3, <3>1 DEF Reset
  <2> QED
    BY <1>1, <1>3, <2>1 DEF Reset
<1>4. ASSUME NEW p \in Filters, FilterCrash(p)
      PROVE  /\ past' = [past EXCEPT !.gone = past'.gone] /\ past.gone \subseteq past'.gone
             /\ filter[p].at = "push" => Range(filter[p].kept) \subseteq past'.gone
             /\ past'.late = past.late /\ past'.between = past.between
             /\ past'.tried = past.tried /\ past'.missed = past.missed /\ past'.overlap = past.overlap
             /\ filter'[p].at = "off" /\ filter'[p].kept = <<>>
             /\ \A q \in Filters : q # p => filter'[q] = filter[q]
  <2>1. PICK now : now = IF filter[p].at = "push" THEN past.gone \cup Range(filter[p].kept)
                         ELSE past.gone
    OBVIOUS
  <2>2. past' = [past EXCEPT !.gone = now]
    BY <1>4, <2>1, SameNames DEF FilterCrash
  <2>3. filter'[p] = NoFilter /\ \A q \in Filters : q # p => filter'[q] = filter[q]
    BY <1>4, FilterBecomes DEF FilterCrash
  <2> QED
    BY <1>1, <2>1, <2>2, <2>3 DEF NoFilter
<1>5. ASSUME NEW p \in Filters, FilterCrash(p)
      PROVE  /\ kind' = kind /\ inbox' = inbox /\ urgent' = urgent /\ supervisor' = supervisor
             /\ round' = round /\ handled' = handled
  BY <1>5 DEF FilterCrash, boxes
<1>6. CASE \E p \in Filters : FilterCrash(p)
  <2>1. PICK p \in Filters : FilterCrash(p)
    BY <1>6
  <2>2. \A q \in Filters :
              \/ filter'[q] = filter[q]
              \/ /\ filter'[q].at = "off" /\ filter'[q].kept = <<>>
                 /\ filter[q].at = "push" => Range(filter[q].kept) \subseteq past'.gone
    BY <1>4, <2>1
  <2> QED
    BY <1>4, <1>5, <2>1, <2>2
<1> QED
  BY <1>2, <1>3, <1>6

----------------------------------------------------------------------------
(* Messages wait in the lists of their kinds *)

OfKind(kinds) == {m \in Sent : kind[m] \in kinds}

\* Filters keep reports, and only they: a report that has been handled is none.
InItsList ==
  /\ Range(inbox) \cup Range(round.regular) \subseteq OfKind({"task", "note", "high"})
  /\ Range(urgent) \cup Range(round.urgent) \subseteq OfKind({"urgent"})
  /\ Range(supervisor) \subseteq OfKind({"help", "report"})
  /\ \A p \in Filters : Range(filter[p].kept) \subseteq OfKind({"report"})
  /\ handled \cap OfKind({"report"}) = {}

LEMMA OfKindStays ==
  ASSUME kind' = kind
  PROVE  \A kinds : OfKind(kinds)' = OfKind(kinds)
BY SentStays DEF OfKind

LEMMA InItsListKept ==
  ASSUME MailboxConstants, Typed, InItsList, [Next]_vars
  PROVE  InItsList'
<1> USE DEF InItsList
<1>1. ASSUME NEW k \in Kinds, Send(k) PROVE InItsList'
  <2>1. PICK m \in Nat : NewMessage(m, k)
    BY <1>1, SendDoes
  <2>2. \A kinds, x : x \in OfKind(kinds)' <=> x \in OfKind(kinds) \/ (x = m /\ k \in kinds)
    BY <2>1 DEF OfKind, NewMessage
  <2>3. round' = round /\ filter' = filter /\ handled' = handled /\ m \notin handled
    BY <1>1, <2>1, SendDoes DEF Typed, NewMessage
  <2> QED
    BY <2>1, <2>2, <2>3 DEF NewMessage
<1>2. CASE ReceiveUrgent \/ DrainInbox \/ Requeue
  BY <1>2, Carried, OfKindStays
<1>3. CASE RoundBegins
  BY <1>3, OfKindStays, NothingIn DEF RoundBegins, NoRound, boxes
<1>4. CASE Classify
  BY <1>4, ClassifyDoes, OfKindStays DEF OfKind
<1>5. CASE RoundSucceeds
  <2>1. ToSet(Hand) = Range(round.urgent) \cup Range(round.regular)
    BY HandIs, SameNames
  <2>2. ToSet(Hand) \cap OfKind({"report"}) = {}
    BY <2>1 DEF OfKind
  <2> QED
    BY <1>5, <2>2, OfKindStays, NoRoundHasNothing DEF RoundSucceeds, boxes
<1>6. CASE RoundFails
  <2>1. round'.urgent = round.urgent /\ round'.regular = round.regular
    BY <1>6 DEF RoundFails, Typed
  <2> QED
    BY <1>6, <2>1, OfKindStays DEF RoundFails, boxes
<1>7. ASSUME NEW p \in Filters, LookForHelp(p) PROVE InItsList'
  <2>1. OfKind({"help", "report"}) \cap Kept \subseteq OfKind({"report"})
    BY DEF OfKind, Kept
  <2>2. \A q \in Filters : Range(filter'[q].kept) \subseteq OfKind({"report"})
    BY <1>7, <2>1, LookDoes
  <2> QED
    BY <1>7, <2>2, OfKindStays, LookDoes
<1>8. ASSUME NEW p \in Filters, DeleteMailbox(p) PROVE InItsList'
  <2>1. OfKind({"report"}) \subseteq Kept
    BY DEF OfKind, Kept
  <2>2. \A q \in Filters : Range(filter'[q].kept) \subseteq OfKind({"report"})
    BY <1>8, DeleteDoes, NothingIn
  <2>3. handled' \cap OfKind({"report"}) = {}
    BY <1>8, <2>1, DeleteDoes
  <2> QED
    BY <1>8, <2>2, <2>3, OfKindStays, DeleteDoes
<1>9. ASSUME NEW p \in Filters, PushKept(p) PROVE InItsList'
  <2>1. OfKind({"report"}) \subseteq OfKind({"help", "report"})
    BY DEF OfKind
  <2>2. \A q \in Filters : Range(filter'[q].kept) \subseteq OfKind({"report"})
    BY <1>9, PushDoes, NothingIn
  <2> QED
    BY <1>9, <2>1, <2>2, OfKindStays, PushDoes
<1>10. CASE LoopCrash \/ Reset \/ \E p \in Filters : FilterCrash(p)
  <2>1. \A q \in Filters : Range(filter'[q].kept) \subseteq OfKind({"report"})
    BY <1>10, AccidentDoes, NothingIn
  <2>2. /\ Range(inbox') \subseteq Range(inbox) /\ Range(urgent') \subseteq Range(urgent)
        /\ Range(supervisor') \subseteq Range(supervisor)
    BY <1>10, AccidentDoes, NothingIn
  <2>3. /\ Range(round'.urgent) \subseteq Range(round.urgent)
        /\ Range(round'.regular) \subseteq Range(round.regular)
    BY <1>10, AccidentDoes, NoRoundHasNothing
  <2>4. kind' = kind /\ handled' = handled
    BY <1>10, AccidentDoes
  <2> QED
    BY <2>1, <2>2, <2>3, <2>4, OfKindStays
<1>11. CASE UNCHANGED vars
  BY <1>11, OfKindStays DEF vars, boxes
<1> QED
  BY <1>1, <1>2, <1>3, <1>4, <1>5, <1>6, <1>7, <1>8, <1>9, <1>10, <1>11
  DEF Next, RoundStep, FilterStep

----------------------------------------------------------------------------
(* No message is lost *)

\* What a filter is about to delete, and may not, is what it has kept or comes too late.
Covered ==
  \A p \in Filters : filter[p].at = "del" =>
    Range(supervisor) \cap Kept \subseteq Range(filter[p].kept) \cup past.late

LEMMA CoveredKept ==
  ASSUME Typed, Covered, [Next]_vars
  PROVE  Covered'
<1> USE DEF Covered
<1>1. ASSUME NEW k \in Kinds, Send(k) PROVE Covered'
  <2>1. PICK m \in Nat : NewMessage(m, k)
    BY <1>1, SendDoes
  <2>2. Kept' \subseteq Kept \cup {m}
    BY <2>1 DEF Kept, NewMessage
  <2>3. filter' = filter /\ past.late \subseteq past'.late
    BY <1>1, <2>1, SendDoes, NotedIs DEF NewMessage
  <2>4. (\E p \in Filters : filter[p].at = "del") /\ k \in {"help", "report"} => m \in past'.late
    BY <2>1, NotedIs DEF Filtering, NewMessage, SupervisorKinds
  <2>5. m \notin Range(supervisor)
    BY <2>1, Ranges DEF Typed, NewMessage
  <2> QED
    BY <2>1, <2>2, <2>3, <2>4, <2>5 DEF NewMessage
<1>2. CASE ReceiveUrgent \/ DrainInbox \/ Requeue
  BY <1>2, Carried, SentStays
<1>3. CASE RoundBegins \/ Classify \/ RoundSucceeds \/ RoundFails
  <2>1. kind' = kind /\ supervisor' = supervisor /\ filter' = filter
    BY <1>3 DEF RoundBegins, Classify, RoundSucceeds, RoundFails, boxes
  <2>2. past'.late = past.late
    BY <1>3 DEF RoundBegins, Classify, RoundSucceeds, RoundFails, Typed
  <2> QED
    BY <2>1, <2>2, SentStays
<1>4. ASSUME NEW p \in Filters, LookForHelp(p) PROVE Covered'
  BY <1>4, LookDoes, SentStays
<1>5. ASSUME NEW p \in Filters, DeleteMailbox(p) PROVE Covered'
  BY <1>5, DeleteDoes
<1>6. ASSUME NEW p \in Filters, PushKept(p) PROVE Covered'
  <2> SUFFICES ASSUME NEW q \in Filters, filter'[q].at = "del"
               PROVE  Range(supervisor') \cap Kept' \subseteq Range(filter'[q].kept) \cup past'.late
    OBVIOUS
  <2>1. q # p /\ filter'[q] = filter[q]
    BY <1>6, PushDoes
  <2>2. Range(filter[p].kept) \subseteq past'.late
    BY <1>6, <2>1, PushDoes DEF Filtering
  <2> QED
    BY <1>6, <2>1, <2>2, PushDoes, SentStays
<1>7. CASE LoopCrash \/ Reset \/ \E p \in Filters : FilterCrash(p)
  <2>1. Range(supervisor') \subseteq Range(supervisor) /\ past'.late = past.late
    BY <1>7, AccidentDoes, NothingIn
  <2>2. \A p \in Filters : filter'[p].at = "del" => filter'[p] = filter[p]
    BY <1>7, AccidentDoes
  <2> QED
    BY <1>7, <2>1, <2>2, AccidentDoes, SentStays
<1>8. CASE UNCHANGED vars
  BY <1>8, SentStays DEF vars, boxes
<1> QED
  BY <1>1, <1>2, <1>3, <1>4, <1>5, <1>6, <1>7, <1>8 DEF Next, RoundStep, FilterStep

\* NothingLost, message by message.
Somewhere(m) ==
  \/ m \in handled \cup Range(inbox) \cup Range(urgent) \cup Range(supervisor)
  \/ m \in Range(round.urgent) \cup Range(round.regular)
  \/ \E p \in Filters : filter[p].at = "push" /\ m \in Range(filter[p].kept)

NoneMissing == \A m \in Sent \ (past.gone \cup past.late) : Somewhere(m)

\* A loop between two rounds has nothing in hand that the next one could forget.
RestsEmpty == round.at = "off" => Range(round.urgent) = {} /\ Range(round.regular) = {}

LEMMA NothingLostIs ==
  ASSUME Typed
  PROVE  NothingLost <=> NoneMissing
<1>1. /\ ToSet(inbox) = Range(inbox) /\ ToSet(urgent) = Range(urgent)
      /\ ToSet(supervisor) = Range(supervisor)
      /\ ToSet(Hand) = Range(round.urgent) \cup Range(round.regular)
  BY SameNames, HandIs
<1>2. \A m : m \in Held <=> \E p \in Filters : filter[p].at = "push" /\ m \in Range(filter[p].kept)
  <2>1. \A p \in Filters : ToSet(filter[p].kept) = Range(filter[p].kept)
    BY SameNames
  <2>2. PICK pushing : pushing = {p \in Filters : filter[p].at = "push"}
    OBVIOUS
  <2>3. PICK all : all = UNION {ToSet(filter[p].kept) : p \in pushing}
    OBVIOUS
  <2>4. \A m : m \in all <=> \E p \in pushing : m \in ToSet(filter[p].kept)
    BY <2>3, Zenon
  <2>5. Held = all
    BY <2>2, <2>3, Zenon DEF Held
  <2> QED
    BY <2>1, <2>2, <2>4, <2>5
<1> QED
  BY <1>1, <1>2 DEF NothingLost, NoneMissing, Somewhere

LEMMA RestsEmptyKept ==
  ASSUME Typed, RestsEmpty, [Next]_vars
  PROVE  RestsEmpty'
<1> USE DEF RestsEmpty
<1>1. CASE ReceiveUrgent
  <2>1. \A s : [round EXCEPT !.urgent = s].at = round.at /\ [round EXCEPT !.at = s].at = s
    BY DEF Typed
  <2>2. round'.at \in {"urgent", "regular"}
    BY <1>1, <2>1, ReceiveDoes DEF ReceiveUrgent
  <2> QED
    BY <2>2
<1>2. CASE DrainInbox
  BY <1>2 DEF DrainInbox, Typed
<1>3. CASE Requeue
  <2>1. \A s : [round EXCEPT !.urgent = s].at = round.at /\ [round EXCEPT !.regular = s].at = round.at
    BY DEF Typed
  <2>2. round'.at = "requeue" \/ round' = NoRound
    BY <1>3, <2>1, RequeueDoes DEF Requeue
  <2> QED
    BY <2>2, NoRoundHasNothing
<1>4. CASE Classify
  <2>1. round'.at = "off" => ToSet(Hand) \cap Actionable = {}
    BY <1>4 DEF Classify
  <2>2. ToSet(Hand) = Range(round.urgent) \cup Range(round.regular)
    BY HandIs, SameNames
  <2> QED
    BY <1>4, <2>1, <2>2, ClassifyDoes
<1>5. CASE RoundBegins \/ RoundFails
  BY <1>5 DEF RoundBegins, RoundFails, NoRound, Typed
<1>6. CASE RoundSucceeds
  BY <1>6, NoRoundHasNothing DEF RoundSucceeds
<1>7. CASE LoopCrash \/ Reset \/ \E p \in Filters : FilterCrash(p)
  BY <1>7, AccidentDoes, NoRoundHasNothing
<1>8. ASSUME NEW p \in Filters, FilterStep(p) PROVE round' = round
  BY <1>8 DEF FilterStep, LookForHelp, DeleteMailbox, PushKept
<1>9. ASSUME NEW k \in Kinds, Send(k) PROVE round' = round
  BY <1>9 DEF Send
<1>10. CASE UNCHANGED vars
  BY <1>10 DEF vars
<1> QED
  BY <1>1, <1>2, <1>3, <1>4, <1>5, <1>6, <1>7, <1>8, <1>9, <1>10 DEF Next, RoundStep

LEMMA NoneMissingKept ==
  ASSUME MailboxConstants, Typed, Covered, RestsEmpty, NoneMissing, [Next]_vars
  PROVE  NoneMissing'
<1> DEFINE Due == Sent \ (past.gone \cup past.late)
<1> USE DEF NoneMissing
<1>1. ASSUME NEW k \in Kinds, Send(k) PROVE NoneMissing'
  <2>1. PICK m \in Nat : NewMessage(m, k)
    BY <1>1, SendDoes
  <2>2. k \in {"task", "note", "high", "urgent", "help", "report"}
    BY MailboxConstants DEF MailboxConstants, AgentKinds, SupervisorKinds
  <2>3. Somewhere(m)' /\ \A x \in Sent : Somewhere(x) => Somewhere(x)'
    BY <1>1, <2>1, <2>2, SendDoes DEF Somewhere, NewMessage
  <2>4. Due' \subseteq Due \cup {m}
    BY <2>1, NotedIs DEF NewMessage
  <2> QED
    BY <2>1, <2>3, <2>4
<1>2. CASE ReceiveUrgent \/ DrainInbox \/ Requeue
  BY <1>2, Carried, SentStays DEF Somewhere
<1>3. CASE RoundBegins
  BY <1>3, SentStays DEF RoundBegins, RestsEmpty, Somewhere, boxes
<1>4. CASE Classify
  BY <1>4, ClassifyDoes, SentStays DEF Somewhere
<1>5. CASE RoundSucceeds
  <2>1. ToSet(Hand) = Range(round.urgent) \cup Range(round.regular)
    BY HandIs, SameNames
  <2> QED
    BY <1>5, <2>1, SentStays DEF RoundSucceeds, Somewhere, boxes
<1>6. CASE RoundFails
  <2>1. /\ round'.urgent = round.urgent /\ round'.regular = round.regular
        /\ past'.gone = past.gone /\ past'.late = past.late
    BY <1>6 DEF RoundFails, Typed
  <2> QED
    BY <1>6, <2>1, SentStays DEF RoundFails, Somewhere, boxes
<1>7. ASSUME NEW p \in Filters, LookForHelp(p) PROVE NoneMissing'
  <2>1. \A q \in Filters : filter[q].at = "push" => filter'[q] = filter[q]
    BY <1>7, LookDoes
  <2> QED
    BY <1>7, <2>1, LookDoes, SentStays DEF Somewhere
<1>8. ASSUME NEW p \in Filters, DeleteMailbox(p) PROVE NoneMissing'
  <2>1. \A q \in Filters : filter[q].at = "push" => filter'[q] = filter[q]
    BY <1>8, DeleteDoes
  <2>2. \A m \in Range(filter[p].kept) : filter'[p].at = "push" /\ m \in Range(filter'[p].kept)
    BY <1>8, DeleteDoes, NothingIn
  <2>3. Range(supervisor) \ past.late \subseteq handled' \cup Range(filter[p].kept)
    BY <1>8, DeleteDoes DEF Covered
  <2>4. \A m \in Due : Somewhere(m) => Somewhere(m)'
    BY <1>8, <2>1, <2>2, <2>3, DeleteDoes DEF Somewhere
  <2> QED
    BY <1>8, <2>4, DeleteDoes, SentStays
<1>9. ASSUME NEW p \in Filters, PushKept(p) PROVE NoneMissing'
  <2>1. \A m : Somewhere(m) => Somewhere(m)'
    BY <1>9, PushDoes DEF Somewhere
  <2> QED
    BY <1>9, <2>1, PushDoes, SentStays
<1>10. CASE LoopCrash \/ Reset \/ \E p \in Filters : FilterCrash(p)
  <2> SUFFICES ASSUME NEW m, m \in Sent', m \notin past'.gone, m \notin past'.late PROVE Somewhere(m)'
    OBVIOUS
  <2>1. m \in Sent /\ m \notin past.gone /\ m \notin past.late /\ Somewhere(m)
    BY <1>10, AccidentDoes, SentStays
  <2>2. m \in handled => m \in handled'
    BY <1>10, AccidentDoes
  <2>3. /\ m \in Range(inbox) => m \in Range(inbox')
        /\ m \in Range(urgent) => m \in Range(urgent')
        /\ m \in Range(supervisor) => m \in Range(supervisor')
    BY <1>10, AccidentDoes
  <2>4. /\ m \in Range(round.urgent) => m \in Range(round'.urgent)
        /\ m \in Range(round.regular) => m \in Range(round'.regular)
    BY <1>10, AccidentDoes
  <2>5. \A p \in Filters : filter[p].at = "push" /\ m \in Range(filter[p].kept) =>
                            filter'[p].at = "push" /\ m \in Range(filter'[p].kept)
    BY <1>10, AccidentDoes
  <2> QED
    BY <2>1, <2>2, <2>3, <2>4, <2>5 DEF Somewhere
<1>11. CASE UNCHANGED vars
  BY <1>11, SentStays DEF vars, boxes, Somewhere
<1> QED
  BY <1>1, <1>2, <1>3, <1>4, <1>5, <1>6, <1>7, <1>8, <1>9, <1>10, <1>11
  DEF Next, RoundStep, FilterStep

----------------------------------------------------------------------------
(* A message waits once *)

\* The agent's messages, for each kind a list and a part of the round.
AgentOnce ==
  /\ NoTwice(inbox) /\ NoTwice(urgent) /\ NoTwice(round.urgent) /\ NoTwice(round.regular)
  /\ Range(inbox) \cap Range(round.regular) = {}
  /\ Range(urgent) \cap Range(round.urgent) = {}
  /\ handled \cap (Range(inbox) \cup Range(round.regular)) = {}
  /\ handled \cap (Range(urgent) \cup Range(round.urgent)) = {}

\* The head of one list goes to another one.
LEMMA MovedOnce ==
  ASSUME NEW S, NEW s \in Seq(S), NEW t \in Seq(S), s # <<>>, NoTwice(s), NoTwice(t),
         Range(s) \cap Range(t) = {}, NEW k
  PROVE  /\ NoTwice(Tail(s)) /\ NoTwice(Pushed(t, Head(s), k))
         /\ Range(Tail(s)) \cap Range(Pushed(t, Head(s), k)) = {}
<1>1. /\ Head(s) \in S /\ NoTwice(Tail(s)) /\ Head(s) \notin Range(Tail(s))
      /\ Range(s) = Range(Tail(s)) \cup {Head(s)}
  BY Popped
<1>2. PICK m \in S : m = Head(s)
  BY <1>1
<1>3. m \notin Range(t)
  BY <1>1, <1>2
<1>4. NoTwice(Pushed(t, m, k)) /\ Range(Pushed(t, m, k)) = Range(t) \cup {m}
  BY <1>3, PushedIs
<1> QED
  BY <1>1, <1>2, <1>4

LEMMA CarriedOnce ==
  ASSUME Typed, AgentOnce, ReceiveUrgent \/ DrainInbox \/ Requeue
  PROVE  AgentOnce'
<1> USE DEF AgentOnce
<1>1. /\ inbox \in Seq(Sent) /\ urgent \in Seq(Sent)
      /\ round.urgent \in Seq(Sent) /\ round.regular \in Seq(Sent)
  BY DEF Typed
<1>2. \A at, s, t : /\ [round EXCEPT !.at = at].urgent = round.urgent
                    /\ [round EXCEPT !.at = at].regular = round.regular
                    /\ [round EXCEPT !.urgent = s].urgent = s
                    /\ [round EXCEPT !.urgent = s].regular = round.regular
                    /\ [round EXCEPT !.regular = t].urgent = round.urgent
                    /\ [round EXCEPT !.regular = t].regular = t
  BY DEF Typed
<1>3. \A s \in Seq(Sent), m \in Sent : Append(s, m) = Pushed(s, m, "note")
  BY DEF Pushed
<1>4. SUFFICES /\ NoTwice(inbox') /\ NoTwice(urgent')
               /\ NoTwice(round'.urgent) /\ NoTwice(round'.regular)
               /\ Range(inbox') \cap Range(round'.regular) = {}
               /\ Range(urgent') \cap Range(round'.urgent) = {}
  BY <1>4, Carried
<1>5. CASE ReceiveUrgent
  <2>1. inbox' = inbox
    BY <1>5 DEF ReceiveUrgent
  <2>2. CASE urgent = <<>> /\ urgent' = urgent /\ round' = [round EXCEPT !.at = "regular"]
    BY <1>2, <2>1, <2>2
  <2>3. CASE \E m \in Sent : /\ urgent # <<>> /\ m = Head(urgent) /\ urgent' = Tail(urgent)
                             /\ round' = [round EXCEPT !.urgent = Append(round.urgent, m)]
    <3>1. urgent # <<>> /\ Head(urgent) \in Sent /\ urgent' = Tail(urgent)
      BY <2>3
    <3>2. round'.urgent = Pushed(round.urgent, Head(urgent), "note") /\ round'.regular = round.regular
      BY <1>1, <1>2, <1>3, <2>3
    <3> QED
      BY <1>1, <2>1, <3>1, <3>2, MovedOnce
  <2> QED
    BY <1>5, <2>2, <2>3, ReceiveDoes
<1>6. CASE DrainInbox
  <2>1. /\ urgent' = urgent /\ inbox # <<>> /\ inbox' = Tail(inbox)
        /\ round' = [round EXCEPT !.regular = Append(round.regular, Head(inbox))]
    BY <1>6 DEF DrainInbox
  <2>2. Head(inbox) \in Sent
    BY <1>1, <2>1, Popped
  <2>3. round'.regular = Pushed(round.regular, Head(inbox), "note") /\ round'.urgent = round.urgent
    BY <1>1, <1>2, <1>3, <2>1, <2>2
  <2> QED
    BY <1>1, <2>1, <2>3, MovedOnce
<1>7. CASE Requeue
  <2>1. CASE Range(Hand) = {} /\ round' = NoRound /\ inbox' = inbox /\ urgent' = urgent
    BY <2>1, NoRoundHasNothing, NothingIn
  <2>2. CASE \E m \in Sent : /\ round.urgent # <<>> /\ m = Head(round.urgent)
                             /\ urgent' = Pushed(urgent, m, "urgent") /\ inbox' = inbox
                             /\ round' = [round EXCEPT !.urgent = Tail(round.urgent)]
    <3>1. /\ round.urgent # <<>> /\ inbox' = inbox
          /\ urgent' = Pushed(urgent, Head(round.urgent), "urgent")
          /\ round'.urgent = Tail(round.urgent) /\ round'.regular = round.regular
      BY <1>2, <2>2
    <3> QED
      BY <1>1, <3>1, MovedOnce
  <2>3. CASE \E m \in Sent : /\ round.regular # <<>> /\ m = Head(round.regular)
                             /\ inbox' = Pushed(inbox, m, kind[m]) /\ urgent' = urgent
                             /\ round' = [round EXCEPT !.regular = Tail(round.regular)]
    <3>1. PICK k : k = kind[Head(round.regular)]
      OBVIOUS
    <3>2. /\ round.regular # <<>> /\ inbox' = Pushed(inbox, Head(round.regular), k) /\ urgent' = urgent
          /\ round'.regular = Tail(round.regular) /\ round'.urgent = round.urgent
      BY <1>2, <2>3, <3>1
    <3> QED
      BY <1>1, <3>2, MovedOnce
  <2> QED
    BY <1>7, <2>1, <2>2, <2>3, RequeueDoes
<1> QED
  BY <1>5, <1>6, <1>7

\* The kinds of messages are different ones.
LEMMA KindsApart ==
  /\ OfKind({"task", "note", "high"}) \cap OfKind({"urgent"}) = {}
  /\ OfKind({"task", "note", "high"}) \cap OfKind({"help", "report"}) = {}
  /\ OfKind({"urgent"}) \cap OfKind({"help", "report"}) = {}
BY DEF OfKind

LEMMA AgentOnceKept ==
  ASSUME Typed, InItsList, AgentOnce, [Next]_vars
  PROVE  AgentOnce'
<1> USE DEF AgentOnce
<1>0. /\ round.urgent \in Seq(Sent) /\ round.regular \in Seq(Sent)
      /\ Range(inbox) \subseteq Sent /\ Range(urgent) \subseteq Sent
      /\ Range(round.urgent) \subseteq Sent /\ Range(round.regular) \subseteq Sent
  BY Ranges DEF Typed
<1>1. ASSUME NEW k \in Kinds, Send(k) PROVE AgentOnce'
  <2>1. PICK m \in Nat : NewMessage(m, k)
    BY <1>1, SendDoes
  <2>2. m \in Sent' /\ m \notin handled /\ m \notin Sent
    BY <2>1 DEF Typed, NewMessage
  <2>3. NoTwice(inbox') /\ NoTwice(urgent')
    BY <1>0, <2>1, <2>2, PushedIs DEF NewMessage
  <2> QED
    BY <1>0, <1>1, <2>1, <2>2, <2>3, SendDoes DEF NewMessage
<1>2. CASE ReceiveUrgent \/ DrainInbox \/ Requeue
  BY <1>2, CarriedOnce
<1>3. CASE RoundBegins
  <2>1. round'.urgent = <<>> /\ round'.regular = <<>>
    BY <1>3 DEF RoundBegins, NoRound
  <2> QED
    BY <1>3, <2>1, NothingIn DEF RoundBegins, boxes
<1>4. CASE Classify
  <2>1. NoTwice(round'.urgent) /\ NoTwice(round'.regular)
    BY <1>0, <1>4, SelectedIs, ClassifyDoes
  <2> QED
    BY <1>4, <2>1, KindsApart, ClassifyDoes DEF InItsList
<1>5. CASE RoundSucceeds
  <2>1. ToSet(Hand) = Range(round.urgent) \cup Range(round.regular)
    BY HandIs, SameNames
  <2>2. handled' = handled \cup Range(round.urgent) \cup Range(round.regular)
    BY <1>5, <2>1 DEF RoundSucceeds
  <2> QED
    BY <1>5, <2>2, NoRoundHasNothing, NothingIn, KindsApart DEF RoundSucceeds, boxes, InItsList
<1>6. CASE RoundFails
  <2>1. round'.urgent = round.urgent /\ round'.regular = round.regular
    BY <1>6 DEF RoundFails, Typed
  <2> QED
    BY <1>6, <2>1 DEF RoundFails, boxes
<1>7. ASSUME NEW p \in Filters, LookForHelp(p) PROVE AgentOnce'
  BY <1>7, LookDoes
<1>8. ASSUME NEW p \in Filters, DeleteMailbox(p) PROVE AgentOnce'
  BY <1>8, DeleteDoes, KindsApart DEF InItsList
<1>9. ASSUME NEW p \in Filters, PushKept(p) PROVE AgentOnce'
  BY <1>9, PushDoes
<1>10. CASE LoopCrash \/ Reset \/ \E p \in Filters : FilterCrash(p)
  <2>1. /\ NoTwice(inbox') /\ Range(inbox') \subseteq Range(inbox)
        /\ NoTwice(urgent') /\ Range(urgent') \subseteq Range(urgent)
    BY <1>10, AccidentDoes, NothingIn
  <2>2. /\ NoTwice(round'.urgent) /\ Range(round'.urgent) \subseteq Range(round.urgent)
        /\ NoTwice(round'.regular) /\ Range(round'.regular) \subseteq Range(round.regular)
    BY <1>10, AccidentDoes, NoRoundHasNothing, NothingIn
  <2>3. handled' = handled
    BY <1>10, AccidentDoes
  <2> QED
    BY <2>1, <2>2, <2>3
<1>11. CASE UNCHANGED vars
  BY <1>11 DEF vars, boxes
<1> QED
  BY <1>1, <1>2, <1>3, <1>4, <1>5, <1>6, <1>7, <1>8, <1>9, <1>10, <1>11
  DEF Next, RoundStep, FilterStep

\* Unless two filters have read the mailbox before one of them deletes it, what one of
\* them has kept is in nobody else's hands, and no longer in the mailbox when it is
\* pushed back.
SupervisorOnce ==
  /\ NoTwice(supervisor) /\ handled \cap Range(supervisor) = {}
  /\ \A p \in Filters :
       /\ NoTwice(filter[p].kept)
       /\ filter[p].at = "push" => Range(filter[p].kept) \cap Range(supervisor) = {}
       /\ \A q \in Filters : p # q =>
            /\ ~ (filter[p].at = "del" /\ filter[q].at = "del")
            /\ filter[p].at # "off" /\ filter[q].at = "push" =>
                 Range(filter[p].kept) \cap Range(filter[q].kept) = {}

LEMMA SupervisorOnceKept ==
  ASSUME Typed, InItsList, past.overlap \/ SupervisorOnce, [Next]_vars
  PROVE  (past.overlap \/ SupervisorOnce)'
<1> SUFFICES ASSUME ~ past'.overlap PROVE SupervisorOnce'
  OBVIOUS
<1>a. ASSUME past'.overlap = past.overlap PROVE SupervisorOnce
  BY <1>a
<1>b. \A p \in Filters : filter[p].kept \in Seq(Sent) /\ Range(filter[p].kept) \subseteq Sent
  BY Ranges DEF Typed
<1>c. supervisor \in Seq(Sent) /\ Range(supervisor) \subseteq Sent
  BY Ranges DEF Typed
<1>1. ASSUME NEW k \in Kinds, Send(k) PROVE SupervisorOnce'
  <2>1. PICK m \in Nat : NewMessage(m, k)
    BY <1>1, SendDoes
  <2>2. past'.overlap = past.overlap
    BY <2>1, NotedIs DEF NewMessage
  <2>3. m \in Sent' /\ m \notin handled /\ m \notin Sent
    BY <2>1 DEF Typed, NewMessage
  <2>4. NoTwice(supervisor')
    BY <1>a, <1>c, <2>1, <2>2, <2>3, PushedIs DEF NewMessage, SupervisorOnce
  <2>5. filter' = filter /\ handled' = handled /\ Range(supervisor') \subseteq Range(supervisor) \cup {m}
    BY <1>1, <2>1, SendDoes DEF NewMessage
  <2> QED
    BY <1>a, <1>b, <2>2, <2>3, <2>4, <2>5 DEF SupervisorOnce
<1>2. CASE ReceiveUrgent \/ DrainInbox \/ Requeue
  BY <1>a, <1>2, Carried DEF SupervisorOnce
<1>3. CASE RoundBegins \/ Classify \/ RoundSucceeds \/ RoundFails
  <2>1. supervisor' = supervisor /\ filter' = filter /\ past'.overlap = past.overlap
    BY <1>3 DEF RoundBegins, Classify, RoundSucceeds, RoundFails, boxes, Typed
  <2>2. handled' \subseteq handled \cup Range(round.urgent) \cup Range(round.regular)
    <3>1. ToSet(Hand) = Range(round.urgent) \cup Range(round.regular)
      BY HandIs, SameNames
    <3> QED
      BY <1>3, <3>1 DEF RoundBegins, Classify, RoundSucceeds, RoundFails
  <2>3. handled' \cap Range(supervisor) = {}
    BY <1>a, <2>1, <2>2, KindsApart DEF InItsList, SupervisorOnce
  <2> QED
    BY <1>a, <2>1, <2>3 DEF SupervisorOnce
<1>4. ASSUME NEW p \in Filters, LookForHelp(p) PROVE SupervisorOnce'
  <2>1. SupervisorOnce /\ \A q \in Filters : filter[q].at # "del"
    BY <1>4, LookDoes DEF Filtering
  <2>2. NoTwice(filter'[p].kept) /\ Range(filter'[p].kept) \subseteq Range(supervisor)
    BY <1>4, <1>c, <2>1, LookDoes, SelectedIs DEF SupervisorOnce
  <2>3. /\ filter'[p].at = "del" /\ \A q \in Filters : q # p => filter'[q] = filter[q]
        /\ supervisor' = supervisor /\ handled' = handled
    BY <1>4, LookDoes
  <2> QED
    BY <2>1, <2>2, <2>3 DEF SupervisorOnce
<1>5. ASSUME NEW p \in Filters, DeleteMailbox(p) PROVE SupervisorOnce'
  <2>1. SupervisorOnce /\ filter[p].at = "del"
    BY <1>a, <1>5, DeleteDoes
  <2>2. NoTwice(supervisor') /\ Range(supervisor') = {}
    BY <1>5, DeleteDoes, NothingIn
  <2>3. /\ \/ filter'[p].at = "push" /\ filter'[p].kept = filter[p].kept
           \/ filter'[p].at = "off" /\ filter'[p].kept = <<>>
        /\ \A q \in Filters : q # p => filter'[q] = filter[q]
    BY <1>5, DeleteDoes
  <2>4. \A q \in Filters : NoTwice(filter'[q].kept)
    BY <2>1, <2>3, NothingIn DEF SupervisorOnce
  <2>5. /\ filter'[p].at # "del"
        /\ filter'[p].at = "push" => Range(filter'[p].kept) = Range(filter[p].kept)
    BY <2>3
  <2>6. \A q \in Filters : q # p =>
           /\ filter'[q] = filter[q] /\ filter[q].at # "del"
           /\ filter[q].at = "push" => Range(filter[p].kept) \cap Range(filter[q].kept) = {}
    BY <2>1, <2>3 DEF SupervisorOnce
  <2>7. \A r, q \in Filters : r # q =>
           /\ ~ (filter'[r].at = "del" /\ filter'[q].at = "del")
           /\ filter'[r].at # "off" /\ filter'[q].at = "push" =>
                Range(filter'[r].kept) \cap Range(filter'[q].kept) = {}
    <3> SUFFICES ASSUME NEW r \in Filters, NEW q \in Filters, r # q
                 PROVE  /\ ~ (filter'[r].at = "del" /\ filter'[q].at = "del")
                        /\ filter'[r].at # "off" /\ filter'[q].at = "push" =>
                             Range(filter'[r].kept) \cap Range(filter'[q].kept) = {}
      OBVIOUS
    <3>0. filter'[p].at \in {"push", "off"}
      BY <2>3
    <3>1. CASE r = p
      BY <2>5, <2>6, <3>0, <3>1
    <3>2. CASE q = p
      <4>1. r # p /\ filter'[r] = filter[r] /\ filter[r].at \in {"off", "push"}
        BY <2>6, <3>2 DEF Typed
      <4>2. filter[r].at = "push" => Range(filter[p].kept) \cap Range(filter[r].kept) = {}
        BY <2>6, <4>1
      <4> QED
        BY <2>5, <3>0, <3>2, <4>1, <4>2
    <3>3. CASE r # p /\ q # p
      BY <2>1, <2>6, <3>3 DEF SupervisorOnce
    <3> QED
      BY <3>1, <3>2, <3>3
  <2> QED
    BY <2>2, <2>4, <2>7 DEF SupervisorOnce
<1>6. ASSUME NEW p \in Filters, PushKept(p) PROVE SupervisorOnce'
  <2>1. SupervisorOnce /\ filter[p].at = "push"
    BY <1>a, <1>6, PushDoes
  <2>2. /\ filter'[p].at = "off" /\ filter'[p].kept = <<>> /\ handled' = handled
        /\ supervisor' = supervisor \o filter[p].kept
        /\ Range(supervisor') = Range(supervisor) \cup Range(filter[p].kept)
        /\ \A q \in Filters : q # p => filter'[q] = filter[q]
    BY <1>6, PushDoes
  <2>3. NoTwice(supervisor')
    BY <1>b, <1>c, <2>1, <2>2, PutTogether DEF SupervisorOnce
  <2>4. handled \cap Range(filter[p].kept) = {}
    BY DEF InItsList
  <2>5. \A q \in Filters : NoTwice(filter'[q].kept)
    BY <2>1, <2>2, NothingIn DEF SupervisorOnce
  <2>6. handled' \cap Range(supervisor') = {}
    BY <2>1, <2>2, <2>4 DEF SupervisorOnce
  <2>7. ASSUME NEW q \in Filters, filter'[q].at = "push"
        PROVE  Range(filter'[q].kept) \cap Range(supervisor') = {}
    <3>1. q # p /\ filter'[q] = filter[q] /\ filter[q].at = "push"
      BY <2>2, <2>7
    <3>2. Range(filter[q].kept) \cap Range(supervisor) = {}
      BY <2>1, <3>1 DEF SupervisorOnce
    <3>3. Range(filter[p].kept) \cap Range(filter[q].kept) = {}
      BY <2>1, <3>1 DEF SupervisorOnce
    <3> QED
      BY <2>2, <3>1, <3>2, <3>3
  <2>8. ASSUME NEW r \in Filters, NEW q \in Filters, r # q
        PROVE  /\ ~ (filter'[r].at = "del" /\ filter'[q].at = "del")
               /\ filter'[r].at # "off" /\ filter'[q].at = "push" =>
                    Range(filter'[r].kept) \cap Range(filter'[q].kept) = {}
    <3>1. CASE r = p \/ q = p
      BY <2>2, <3>1
    <3>2. CASE r # p /\ q # p
      <4>1. filter'[r] = filter[r] /\ filter'[q] = filter[q]
        BY <2>2, <3>2
      <4> QED
        BY <2>1, <2>8, <4>1 DEF SupervisorOnce
    <3> QED
      BY <3>1, <3>2
  <2> QED
    BY <2>3, <2>5, <2>6, <2>7, <2>8 DEF SupervisorOnce
<1>7. CASE LoopCrash \/ Reset \/ \E p \in Filters : FilterCrash(p)
  <2>1. SupervisorOnce /\ handled' = handled
    BY <1>a, <1>7, AccidentDoes
  <2>2. NoTwice(supervisor') /\ Range(supervisor') \subseteq Range(supervisor)
    BY <1>7, <2>1, AccidentDoes, NothingIn DEF SupervisorOnce
  <2>3. \A p \in Filters :
          \/ filter'[p] = filter[p]
          \/ filter'[p].at = "off" /\ filter'[p].kept = <<>>
    BY <1>7, AccidentDoes
  <2>4. \A q \in Filters : NoTwice(filter'[q].kept)
    BY <2>1, <2>3, NothingIn DEF SupervisorOnce
  <2> QED
    BY <2>1, <2>2, <2>3, <2>4 DEF SupervisorOnce
<1>8. CASE UNCHANGED vars
  BY <1>a, <1>8 DEF vars, boxes, SupervisorOnce
<1> QED
  BY <1>1, <1>2, <1>3, <1>4, <1>5, <1>6, <1>7, <1>8 DEF Next, RoundStep, FilterStep

LEMMA WaitsOnceHolds ==
  ASSUME Typed, InItsList, AgentOnce, past.overlap \/ SupervisorOnce
  PROVE  WaitsOnce
<1> SUFFICES ASSUME ~ past.overlap
             PROVE  /\ IsInjective(inbox \o urgent \o supervisor \o Hand)
                    /\ ToSet(inbox \o urgent \o supervisor \o Hand) \cap handled = {}
  BY DEF WaitsOnce
<1>1. /\ inbox \in Seq(Sent) /\ urgent \in Seq(Sent) /\ supervisor \in Seq(Sent)
      /\ round.urgent \in Seq(Sent) /\ round.regular \in Seq(Sent)
  BY DEF Typed
<1>2. NoTwice(supervisor) /\ handled \cap Range(supervisor) = {}
  BY DEF SupervisorOnce
<1>3. PICK hand \in Seq(Sent) : /\ hand = Hand /\ NoTwice(hand)
                                /\ Range(hand) = Range(round.urgent) \cup Range(round.regular)
  <2>1. Range(round.urgent) \cap Range(round.regular) = {}
    BY KindsApart DEF InItsList
  <2> QED
    BY <1>1, <2>1, PutTogether DEF AgentOnce, Hand
<1>4. PICK first \in Seq(Sent) : /\ first = inbox \o urgent /\ NoTwice(first)
                                 /\ Range(first) = Range(inbox) \cup Range(urgent)
  <2>1. Range(inbox) \cap Range(urgent) = {}
    BY KindsApart DEF InItsList
  <2> QED
    BY <1>1, <2>1, PutTogether DEF AgentOnce
<1>5. PICK lists \in Seq(Sent) : /\ lists = first \o supervisor /\ NoTwice(lists)
                                 /\ Range(lists) = Range(first) \cup Range(supervisor)
  <2>1. Range(first) \cap Range(supervisor) = {}
    BY <1>4, KindsApart DEF InItsList
  <2> QED
    <3>0. supervisor \in Seq(Sent) /\ NoTwice(supervisor) /\ NoTwice(first)
      BY <1>1, <1>2, <1>4
    <3>1. /\ first \o supervisor \in Seq(Sent) /\ NoTwice(first \o supervisor)
          /\ Range(first \o supervisor) = Range(first) \cup Range(supervisor)
      BY <2>1, <3>0, Joined
    <3> QED
      BY <3>1
<1>6. NoTwice(lists \o hand) /\ Range(lists \o hand) = Range(lists) \cup Range(hand)
  <2>1. Range(lists) \cap Range(hand) = {}
    BY <1>3, <1>4, <1>5, KindsApart DEF InItsList, AgentOnce
  <2> QED
    BY <1>3, <1>5, <2>1, PutTogether
<1>7. inbox \o urgent \o supervisor \o Hand = lists \o hand
  BY <1>3, <1>4, <1>5
<1>8. Range(lists \o hand) \cap handled = {}
  BY <1>2, <1>3, <1>4, <1>5, <1>6 DEF AgentOnce
<1> QED
  BY <1>6, <1>7, <1>8, SameNames

----------------------------------------------------------------------------
(* Messages keep their order *)

LEMMA IncreasingIn ==
  ASSUME NEW s, NEW A, NEW B, Increasing(s, A), Range(s) \cap B \subseteq A
  PROVE  Increasing(s, B)
<1>1. \A i \in DOMAIN s : s[i] \in B => s[i] \in A
  BY DEF Range
<1> QED
  BY <1>1 DEF Increasing

LEMMA ForemostIn ==
  ASSUME NEW s, NEW A, NEW B, Foremost(s, A), Range(s) \cap A = Range(s) \cap B
  PROVE  Foremost(s, B)
<1>1. \A i \in DOMAIN s : s[i] \in B <=> s[i] \in A
  BY DEF Range
<1> QED
  BY <1>1 DEF Foremost

\* What is sent again has been tried, so it is not counted on to be in order.
AgentOrder ==
  /\ Increasing(inbox, Regular)
  /\ Foremost(inbox, OfKind({"high"}))
  /\ round.at = "requeue" => Range(round.urgent) \cup Range(round.regular) \subseteq past.tried

LEMMA AgentOrderKept ==
  ASSUME Typed, InItsList, AgentOrder, [Next]_vars
  PROVE  AgentOrder'
<1> USE DEF AgentOrder
<1>0. /\ inbox \in Seq(Sent) /\ Range(inbox) \subseteq Sent
      /\ round.urgent \in Seq(Sent) /\ round.regular \in Seq(Sent)
  BY Ranges DEF Typed
<1>a. ASSUME kind' = kind, past'.tried = past.tried
      PROVE  Regular' = Regular /\ OfKind({"high"})' = OfKind({"high"})
  BY <1>a, SentStays, OfKindStays DEF Regular
<1>b. \A at, s, t : /\ [round EXCEPT !.at = at].at = at
                    /\ [round EXCEPT !.urgent = s].at = round.at
                    /\ [round EXCEPT !.regular = t].at = round.at
  BY DEF Typed
<1>1. ASSUME NEW k \in Kinds, Send(k) PROVE AgentOrder'
  <2>1. PICK m \in Nat : NewMessage(m, k)
    BY <1>1, SendDoes
  <2>2. past'.tried = past.tried /\ round' = round
    BY <1>1, <2>1, SendDoes, NotedIs DEF NewMessage
  <2>3. m \in Sent' /\ m \notin Sent /\ inbox \in Seq(Sent') /\ \A x \in Range(inbox) : x < m
    BY <1>0, <2>1 DEF NewMessage
  <2>4. Range(inbox) \cap Regular' \subseteq Regular
    BY <1>0, <2>1, <2>2 DEF Regular, NewMessage
  <2>5. Range(inbox) \cap OfKind({"high"})' = Range(inbox) \cap OfKind({"high"})
    BY <1>0, <2>1, <2>3 DEF OfKind, NewMessage
  <2>6. PICK regular, high : regular = Regular' /\ high = OfKind({"high"})'
    OBVIOUS
  <2>7. Increasing(inbox, regular) /\ Foremost(inbox, high)
    BY <2>4, <2>5, <2>6, IncreasingIn, ForemostIn
  <2>8. Increasing(inbox', regular) /\ Foremost(inbox', high)
    <3>1. CASE k \in {"task", "note", "high"}
      <4>1. inbox' = Pushed(inbox, m, k)
        BY <2>1, <3>1 DEF NewMessage
      <4>2. m \in high <=> k \in {"high", "urgent"}
        BY <2>1, <2>3, <2>6, <3>1 DEF OfKind, NewMessage
      <4>3. m \notin regular \/ k \notin {"high", "urgent"}
        BY <2>1, <2>6, <3>1 DEF Regular, NewMessage
      <4> QED
        BY <2>3, <2>7, <4>1, <4>2, <4>3, PushedIs
    <3>2. CASE k \notin {"task", "note", "high"}
      BY <2>1, <2>7, <3>2 DEF NewMessage
    <3> QED
      BY <3>1, <3>2
  <2> QED
    BY <2>2, <2>6, <2>8
<1>2. CASE ReceiveUrgent
  <2>1. round'.at # "requeue"
    BY <1>2, <1>b, ReceiveDoes DEF ReceiveUrgent
  <2>2. inbox' = inbox /\ kind' = kind /\ past' = past
    BY <1>2 DEF ReceiveUrgent
  <2> QED
    BY <1>a, <2>1, <2>2
<1>3. CASE DrainInbox
  <2>1. inbox # <<>> /\ inbox' = Tail(inbox) /\ kind' = kind /\ past' = past /\ round'.at # "requeue"
    BY <1>3, <1>b DEF DrainInbox
  <2> QED
    BY <1>0, <1>a, <2>1, Popped
<1>4. CASE Requeue
  <2>1. /\ kind' = kind /\ past' = past
        /\ Range(round.urgent) \cup Range(round.regular) \subseteq past.tried
    BY <1>4 DEF Requeue
  <2>2. Regular' = Regular /\ OfKind({"high"})' = OfKind({"high"})
    BY <1>a, <2>1
  <2>3. /\ Range(round'.urgent) \subseteq Range(round.urgent)
        /\ Range(round'.regular) \subseteq Range(round.regular)
    <3>1. \A s, t : /\ [round EXCEPT !.urgent = s].urgent = s
                    /\ [round EXCEPT !.urgent = s].regular = round.regular
                    /\ [round EXCEPT !.regular = t].urgent = round.urgent
                    /\ [round EXCEPT !.regular = t].regular = t
      BY DEF Typed
    <3>2. \A s \in Seq(Sent) : s # <<>> => Range(Tail(s)) \subseteq Range(s)
      BY Popped
    <3> QED
      BY <1>0, <1>4, <3>1, <3>2, NoRoundHasNothing, RequeueDoes
  <2>4. CASE inbox' = inbox
    BY <2>1, <2>2, <2>3, <2>4
  <2>5. CASE \E m \in Sent : /\ round.regular # <<>> /\ m = Head(round.regular)
                             /\ inbox' = Pushed(inbox, m, kind[m])
    <3>1. PICK m \in Sent : /\ round.regular # <<>> /\ m = Head(round.regular)
                            /\ inbox' = Pushed(inbox, m, kind[m])
      BY <2>5
    <3>2. m \in Range(round.regular)
      BY <1>0, <3>1, Popped
    <3>3. m \notin Regular
      BY <2>1, <3>2 DEF Regular
    <3>4. PICK k : k = kind[m]
      OBVIOUS
    <3>5. m \in OfKind({"high"}) <=> k \in {"high", "urgent"}
      BY <3>2, <3>4 DEF InItsList, OfKind
    <3>6. Increasing(inbox', Regular) /\ Foremost(inbox', OfKind({"high"}))
      BY <1>0, <3>1, <3>3, <3>4, <3>5, PushedIs
    <3> QED
      BY <2>1, <2>2, <2>3, <3>6
  <2> QED
    BY <1>4, <2>4, <2>5, RequeueDoes
<1>5. CASE RoundBegins \/ Classify \/ RoundSucceeds
  <2>1. kind' = kind /\ inbox' = inbox /\ past' = past
    BY <1>5 DEF RoundBegins, Classify, RoundSucceeds, boxes
  <2>2. round'.at # "requeue"
    BY <1>5, ClassifyDoes DEF RoundBegins, RoundSucceeds, NoRound
  <2> QED
    BY <1>a, <2>1, <2>2
<1>6. CASE RoundFails
  <2>1. kind' = kind /\ inbox' = inbox /\ round'.urgent = round.urgent /\ round'.regular = round.regular
    BY <1>6 DEF RoundFails, boxes, Typed
  <2>2. past'.tried = past.tried \cup Range(round.urgent) \cup Range(round.regular)
    <3>1. past' = [past EXCEPT !.tried = past.tried \cup Range(Hand)]
      BY <1>6, SameNames DEF RoundFails
    <3> QED
      BY <3>1, HandIs DEF Typed
  <2>3. Regular' \subseteq Regular /\ OfKind({"high"})' = OfKind({"high"})
    BY <2>1, <2>2, SentStays, OfKindStays DEF Regular
  <2> QED
    BY <2>1, <2>2, <2>3, IncreasingIn
<1>7. ASSUME NEW p \in Filters, FilterStep(p) PROVE AgentOrder'
  <2>1. kind' = kind /\ inbox' = inbox /\ round' = round /\ past'.tried = past.tried
    BY <1>7, LookDoes, DeleteDoes, PushDoes DEF FilterStep
  <2> QED
    BY <1>a, <2>1
<1>8. CASE LoopCrash \/ Reset \/ \E p \in Filters : FilterCrash(p)
  <2>1. kind' = kind /\ past'.tried = past.tried
    BY <1>8, AccidentDoes
  <2>2. round' = round \/ round'.at = "off"
    BY <1>8, AccidentDoes, NoRoundHasNothing
  <2>3. inbox' = inbox \/ inbox' = <<>>
    BY <1>8, AccidentDoes
  <2> QED
    BY <1>a, <2>1, <2>2, <2>3, NothingIn
<1>9. CASE UNCHANGED vars
  BY <1>a, <1>9 DEF vars, boxes
<1> QED
  BY <1>1, <1>2, <1>3, <1>4, <1>5, <1>6, <1>7, <1>8, <1>9 DEF Next, RoundStep

\* What a filter pushes back behind others came between, or these did.
SupervisorOrder ==
  /\ Increasing(supervisor, Undisturbed)
  /\ \A p \in Filters :
       /\ Increasing(filter[p].kept, Undisturbed)
       /\ filter[p].at = "push" =>
            \/ Range(filter[p].kept) \subseteq past.between
            \/ /\ Range(supervisor) \subseteq past.between
               /\ \A q \in Filters : q # p /\ filter[q].at # "off" =>
                    Range(filter[q].kept) \subseteq past.between

LEMMA SupervisorOrderKept ==
  ASSUME Typed, past.overlap \/ SupervisorOnce, past.overlap \/ SupervisorOrder, [Next]_vars
  PROVE  (past.overlap \/ SupervisorOrder)'
<1> SUFFICES ASSUME ~ past'.overlap PROVE SupervisorOrder'
  OBVIOUS
<1>a. ASSUME past'.overlap = past.overlap PROVE SupervisorOnce /\ SupervisorOrder
  BY <1>a
<1>b. \A p \in Filters : filter[p].kept \in Seq(Sent) /\ Range(filter[p].kept) \subseteq Sent
  BY Ranges DEF Typed
<1>c. supervisor \in Seq(Sent) /\ Range(supervisor) \subseteq Sent
  BY Ranges DEF Typed
<1>d. ASSUME kind' = kind, past'.between = past.between PROVE Undisturbed' = Undisturbed
  BY <1>d, SentStays DEF Undisturbed
<1>e. \A set : Increasing(<<>>, set) /\ Range(<<>>) = {}
  BY NothingIn
<1>1. ASSUME NEW k \in Kinds, Send(k) PROVE SupervisorOrder'
  <2>1. PICK m \in Nat : NewMessage(m, k)
    BY <1>1, SendDoes
  <2>2. /\ past'.overlap = past.overlap /\ past.between \subseteq past'.between
        /\ past'.between \subseteq past.between \cup {m}
        /\ k \in {"help", "report"} /\ Filtering("push") => m \in past'.between
        /\ filter' = filter
    BY <1>1, <2>1, SendDoes, NotedIs DEF NewMessage, SupervisorKinds
  <2>3. m \in Sent' /\ m \notin Sent /\ supervisor \in Seq(Sent') /\ \A x \in Sent : x < m
    BY <2>1 DEF NewMessage
  <2>4. PICK good : good = Undisturbed' /\ good \cap Sent \subseteq Undisturbed
    BY <2>1, <2>2 DEF Undisturbed, NewMessage
  <2>5. Increasing(supervisor, good) /\ \A p \in Filters : Increasing(filter[p].kept, good)
    <3>1. \A s : Increasing(s, Undisturbed) /\ Range(s) \subseteq Sent => Increasing(s, good)
      BY <2>4, IncreasingIn
    <3> QED
      BY <1>a, <1>b, <1>c, <2>2, <3>1 DEF SupervisorOrder
  <2>6. Increasing(supervisor', good)
    <3>1. CASE k \in {"help", "report"}
      <4>1. supervisor' = Pushed(supervisor, m, k) /\ k \notin {"high", "urgent"}
        BY <2>1, <3>1 DEF NewMessage
      <4> QED
        BY <1>c, <2>3, <2>5, <4>1, PushedIs
    <3>2. CASE k \notin {"help", "report"}
      BY <2>1, <2>5, <3>2 DEF NewMessage
    <3> QED
      BY <3>1, <3>2
  <2>7. Range(supervisor') \subseteq Range(supervisor) \cup IF k \in {"help", "report"} THEN {m} ELSE {}
    BY <2>1 DEF NewMessage
  <2>8. \A p \in Filters : filter[p].at = "push" =>
            \/ Range(filter[p].kept) \subseteq past'.between
            \/ /\ Range(supervisor') \subseteq past'.between
               /\ \A q \in Filters : q # p /\ filter[q].at # "off" =>
                    Range(filter[q].kept) \subseteq past'.between
    BY <1>a, <2>2, <2>7 DEF SupervisorOrder, Filtering
  <2> QED
    BY <2>2, <2>4, <2>5, <2>6, <2>8 DEF SupervisorOrder
<1>2. CASE RoundStep
  <2>1. kind' = kind /\ supervisor' = supervisor /\ filter' = filter
    BY <1>2 DEF RoundStep, RoundBegins, ReceiveUrgent, DrainInbox, Classify, RoundSucceeds,
                RoundFails, Requeue, boxes
  <2>2. past'.between = past.between /\ past'.overlap = past.overlap
    BY <1>2 DEF RoundStep, RoundBegins, ReceiveUrgent, DrainInbox, Classify, RoundSucceeds,
                RoundFails, Requeue, Typed
  <2> QED
    BY <1>a, <1>d, <2>1, <2>2 DEF SupervisorOrder
<1>3. ASSUME NEW p \in Filters, LookForHelp(p) PROVE SupervisorOrder'
  <2>1. ~ past.overlap /\ SupervisorOrder
    BY <1>3, LookDoes
  <2>2. /\ filter[p].at = "off" /\ filter'[p].at = "del"
        /\ Range(filter'[p].kept) \subseteq Range(supervisor)
        /\ \A q \in Filters : q # p => filter'[q] = filter[q]
        /\ supervisor' = supervisor /\ past'.between = past.between /\ Undisturbed' = Undisturbed
    BY <1>3, <1>d, LookDoes
  <2>3. Increasing(filter'[p].kept, Undisturbed)
    BY <1>3, <1>c, <2>1, LookDoes, SelectedIs DEF SupervisorOrder
  <2> QED
    BY <2>1, <2>2, <2>3 DEF SupervisorOrder
<1>4. ASSUME NEW p \in Filters, DeleteMailbox(p) PROVE SupervisorOrder'
  <2>1. SupervisorOnce /\ SupervisorOrder /\ filter[p].at = "del"
    BY <1>4, <1>a, DeleteDoes
  <2>2. /\ supervisor' = <<>> /\ Range(supervisor') = {}
        /\ \A q \in Filters : q # p => filter'[q] = filter[q] /\ filter[q].at # "del"
        /\ past'.between = past.between /\ Undisturbed' = Undisturbed
    BY <1>4, <1>d, <2>1, DeleteDoes DEF SupervisorOnce
  <2>3. /\ filter'[p].kept = filter[p].kept /\ filter'[p].at \in {"push", "off"}
        /\ filter'[p].at = "off" => filter'[p].kept = <<>>
    BY <1>4, DeleteDoes
  <2>4. \A q \in Filters : Increasing(filter'[q].kept, Undisturbed)
    BY <2>1, <2>2, <2>3 DEF SupervisorOrder
  <2>5. \A q \in Filters : q # p /\ filter[q].at # "off" =>
           \/ Range(filter[q].kept) \subseteq past.between
           \/ Range(filter[p].kept) \subseteq past.between
    <3>1. \A q \in Filters : q # p /\ filter[q].at # "off" => filter[q].at = "push"
      BY <2>2 DEF Typed
    <3> QED
      BY <2>1, <3>1 DEF SupervisorOrder
  <2> QED
    BY <1>e, <2>1, <2>2, <2>3, <2>4, <2>5 DEF SupervisorOrder
<1>5. ASSUME NEW p \in Filters, PushKept(p) PROVE SupervisorOrder'
  <2>1. SupervisorOrder /\ filter[p].at = "push"
    BY <1>5, <1>a, PushDoes
  <2>2. /\ supervisor' = supervisor \o filter[p].kept
        /\ Range(supervisor') = Range(supervisor) \cup Range(filter[p].kept)
        /\ \A q \in Filters : q # p => filter'[q] = filter[q]
        /\ filter'[p].at = "off" /\ filter'[p].kept = <<>>
        /\ past'.between = past.between /\ Undisturbed' = Undisturbed
    BY <1>5, <1>d, PushDoes
  <2>3. Range(supervisor) \cap Undisturbed = {} \/ Range(filter[p].kept) \cap Undisturbed = {}
    BY <2>1 DEF SupervisorOrder, Undisturbed
  <2>4. Increasing(supervisor', Undisturbed)
    BY <1>b, <1>c, <2>1, <2>2, <2>3, PutTogether DEF SupervisorOrder
  <2>5. \A q \in Filters : Increasing(filter'[q].kept, Undisturbed)
    BY <1>e, <2>1, <2>2 DEF SupervisorOrder
  <2>6. \A q \in Filters : q # p /\ filter[q].at = "push" =>
           \/ Range(filter[q].kept) \subseteq past.between
           \/ Range(supervisor) \cup Range(filter[p].kept) \subseteq past.between
    BY <2>1 DEF SupervisorOrder
  <2> QED
    BY <2>1, <2>2, <2>4, <2>5, <2>6 DEF SupervisorOrder
<1>6. CASE LoopCrash \/ Reset \/ \E p \in Filters : FilterCrash(p)
  <2>1. /\ past'.overlap = past.overlap /\ past'.between = past.between /\ Undisturbed' = Undisturbed
    BY <1>6, <1>d, AccidentDoes
  <2>2. SupervisorOrder
    BY <1>a, <2>1
  <2>3. supervisor' = supervisor \/ supervisor' = <<>>
    BY <1>6, AccidentDoes
  <2>4. \A p \in Filters :
          \/ filter'[p] = filter[p]
          \/ filter'[p].at = "off" /\ filter'[p].kept = <<>>
    BY <1>6, AccidentDoes
  <2>5. Range(supervisor') \subseteq Range(supervisor) /\ Increasing(supervisor', Undisturbed)
    BY <1>e, <2>2, <2>3 DEF SupervisorOrder
  <2>6. \A p \in Filters : Increasing(filter'[p].kept, Undisturbed)
    BY <1>e, <2>2, <2>4 DEF SupervisorOrder
  <2> QED
    BY <2>1, <2>2, <2>4, <2>5, <2>6 DEF SupervisorOrder
<1>7. CASE UNCHANGED vars
  <2>1. past' = past /\ supervisor' = supervisor /\ filter' = filter /\ Undisturbed' = Undisturbed
    BY <1>7, <1>d DEF vars, boxes
  <2> QED
    BY <1>a, <2>1 DEF SupervisorOrder
<1> QED
  BY <1>1, <1>2, <1>3, <1>4, <1>5, <1>6, <1>7 DEF Next, FilterStep

LEMMA KeepsOrderHolds ==
  ASSUME Typed, AgentOrder, past.overlap \/ SupervisorOrder
  PROVE  KeepsOrder
<1>1. ASSUME NEW i \in DOMAIN inbox, NEW j \in DOMAIN inbox, i < j, kind[inbox[j]] = "high"
      PROVE  kind[inbox[i]] = "high"
  <2>1. inbox[i] \in Sent /\ inbox[j] \in Sent
    BY Ranges DEF Typed
  <2>2. inbox[j] \in OfKind({"high"})
    BY <1>1, <2>1 DEF OfKind
  <2>3. inbox[i] \in OfKind({"high"})
    BY <1>1, <2>2 DEF AgentOrder, Foremost
  <2> QED
    BY <2>3 DEF OfKind
<1> QED
  BY <1>1 DEF AgentOrder, SupervisorOrder, KeepsOrder

----------------------------------------------------------------------------
(* Urgent messages come first *)

\* A round that is through with the urgent messages misses only what comes from then on.
UrgentInTime ==
  /\ round.at = "regular" => Range(urgent) \subseteq past.missed
  /\ round.at = "run" =>
       \A m \in Range(urgent) \ past.missed, n \in Range(round.regular) : m > n

LEMMA UrgentInTimeKept ==
  ASSUME Typed, UrgentInTime, [Next]_vars
  PROVE  UrgentInTime'
<1> USE DEF UrgentInTime
<1>a. \A at, s, t : /\ [round EXCEPT !.at = at].at = at
                    /\ [round EXCEPT !.urgent = s].at = round.at
                    /\ [round EXCEPT !.regular = t].at = round.at
  BY DEF Typed
<1>1. ASSUME NEW k \in Kinds, Send(k) PROVE UrgentInTime'
  <2>1. PICK m \in Nat : NewMessage(m, k)
    BY <1>1, SendDoes
  <2>2. round' = round /\ past.missed \subseteq past'.missed
    BY <1>1, <2>1, SendDoes, NotedIs DEF NewMessage
  <2>3. round.at = "regular" /\ k = "urgent" => m \in past'.missed
    BY <2>1, NotedIs DEF NewMessage
  <2>4. \A n \in Range(round.regular) : m > n
    <3>1. Range(round.regular) \subseteq Sent
      BY Ranges DEF Typed
    <3> QED
      BY <2>1, <3>1 DEF NewMessage
  <2>5. Range(urgent') \subseteq Range(urgent) \cup IF k = "urgent" THEN {m} ELSE {}
    BY <2>1 DEF NewMessage
  <2> QED
    BY <2>2, <2>3, <2>4, <2>5
<1>2. CASE ReceiveUrgent
  <2>1. round.at = "urgent" /\ past' = past
    BY <1>2 DEF ReceiveUrgent
  <2> QED
    BY <1>2, <1>a, <2>1, ReceiveDoes, NothingIn
<1>3. CASE DrainInbox
  <2>1. round'.at = "regular" /\ round.at = "regular" /\ urgent' = urgent /\ past' = past
    BY <1>3, <1>a DEF DrainInbox
  <2> QED
    BY <2>1
<1>4. CASE Classify
  BY <1>4, ClassifyDoes
<1>5. CASE RoundBegins \/ RoundSucceeds \/ RoundFails
  <2>1. round'.at \in {"urgent", "off", "requeue"}
    BY <1>5 DEF RoundBegins, RoundSucceeds, RoundFails, NoRound, Typed
  <2> QED
    BY <2>1
<1>6. CASE Requeue
  <2>1. round'.at \in {"off", "requeue"}
    BY <1>6, <1>a, RequeueDoes, NoRoundHasNothing DEF Requeue
  <2> QED
    BY <2>1
<1>7. ASSUME NEW p \in Filters, FilterStep(p) PROVE UrgentInTime'
  <2>1. urgent' = urgent /\ round' = round /\ past'.missed = past.missed
    BY <1>7, LookDoes, DeleteDoes, PushDoes DEF FilterStep
  <2> QED
    BY <2>1
<1>8. CASE LoopCrash \/ Reset \/ \E p \in Filters : FilterCrash(p)
  <2>1. past'.missed = past.missed /\ Range(urgent') \subseteq Range(urgent)
    BY <1>8, AccidentDoes, NothingIn
  <2>2. round' = round \/ round'.at = "off"
    BY <1>8, AccidentDoes, NoRoundHasNothing
  <2> QED
    BY <2>1, <2>2
<1>9. CASE UNCHANGED vars
  BY <1>9 DEF vars, boxes
<1> QED
  BY <1>1, <1>2, <1>3, <1>4, <1>5, <1>6, <1>7, <1>8, <1>9 DEF Next, RoundStep

LEMMA UrgentFirstHolds ==
  ASSUME Typed, UrgentInTime
  PROVE  UrgentFirst
<1>1. ToSet(urgent) = Range(urgent) /\ ToSet(round.regular) = Range(round.regular)
  BY SameNames
<1> QED
  BY <1>1 DEF UrgentInTime, UrgentFirst

----------------------------------------------------------------------------
(* The theorems *)

\* The inductive invariant.
MailInOrder ==
  /\ Typed /\ InItsList
  /\ Covered /\ RestsEmpty /\ NoneMissing
  /\ AgentOnce /\ (past.overlap \/ SupervisorOnce)
  /\ AgentOrder /\ (past.overlap \/ SupervisorOrder)
  /\ UrgentInTime

LEMMA MailInOrderInit ==
  ASSUME Init
  PROVE  MailInOrder
<1>1. Typed
  BY TypedInit
<1>2. /\ inbox = <<>> /\ urgent = <<>> /\ supervisor = <<>> /\ handled = {} /\ kind = <<>>
      /\ round.at = "off" /\ round.urgent = <<>> /\ round.regular = <<>>
      /\ \A p \in Filters : filter[p].at = "off" /\ filter[p].kept = <<>>
  BY DEF Init, NoRound, NoFilter
<1>3. Sent = {}
  BY <1>2 DEF Sent
<1>4. /\ Range(<<>>) = {} /\ NoTwice(<<>>)
      /\ \A set : Increasing(<<>>, set) /\ Foremost(<<>>, set)
  BY NothingIn
<1>5. InItsList
  BY <1>2, <1>4 DEF InItsList
<1>6. Covered /\ RestsEmpty /\ NoneMissing
  BY <1>2, <1>3, <1>4 DEF Covered, RestsEmpty, NoneMissing
<1>7. AgentOnce /\ SupervisorOnce
  BY <1>2, <1>4 DEF AgentOnce, SupervisorOnce
<1>8. AgentOrder /\ SupervisorOrder /\ UrgentInTime
  BY <1>2, <1>4 DEF AgentOrder, SupervisorOrder, UrgentInTime
<1> QED
  BY <1>1, <1>5, <1>6, <1>7, <1>8 DEF MailInOrder

LEMMA MailStaysInOrder == Spec => []MailInOrder
<1>1. Init => MailInOrder
  BY MailInOrderInit
<1>2. MailInOrder /\ [Next]_vars => MailInOrder'
  <2> SUFFICES ASSUME MailInOrder, [Next]_vars PROVE MailInOrder'
    OBVIOUS
  <2>1. /\ Typed /\ InItsList
        /\ Covered /\ RestsEmpty /\ NoneMissing
        /\ AgentOnce /\ (past.overlap \/ SupervisorOnce)
        /\ AgentOrder /\ (past.overlap \/ SupervisorOrder)
        /\ UrgentInTime
    BY DEF MailInOrder
  <2>2. Typed' /\ InItsList'
    BY <2>1, MailboxConstants, TypedKept, InItsListKept
  <2>3. Covered' /\ RestsEmpty' /\ NoneMissing'
    BY <2>1, MailboxConstants, CoveredKept, RestsEmptyKept, NoneMissingKept
  <2>4. AgentOnce' /\ (past.overlap \/ SupervisorOnce)'
    BY <2>1, AgentOnceKept, SupervisorOnceKept
  <2>5. AgentOrder' /\ (past.overlap \/ SupervisorOrder)' /\ UrgentInTime'
    BY <2>1, AgentOrderKept, SupervisorOrderKept, UrgentInTimeKept
  <2> QED
    BY <2>2, <2>3, <2>4, <2>5 DEF MailInOrder
<1> QED
  BY <1>1, <1>2, PTL DEF Spec

\* No message is lost between a list, a round and a filter, except to accidents and in
\* the gap between a filter's LRANGE and its DEL (remove_inbox_messages_matching).
THEOREM NoMailIsLost == Spec => []NothingLost
<1>1. MailInOrder => NothingLost
  BY NothingLostIs DEF MailInOrder
<1> QED
  BY <1>1, MailStaysInOrder, PTL

\* No message waits in two places, or after it was handled, if filters do not overlap.
THEOREM MailWaitsOnce == Spec => []WaitsOnce
<1>1. MailInOrder => WaitsOnce
  BY WaitsOnceHolds DEF MailInOrder
<1> QED
  BY <1>1, MailStaysInOrder, PTL

\* The inbox keeps its order through rounds that fail, and the mailbox through filters.
THEOREM MailKeepsOrder == Spec => []KeepsOrder
<1>1. MailInOrder => KeepsOrder
  BY KeepsOrderHolds DEF MailInOrder
<1> QED
  BY <1>1, MailStaysInOrder, PTL

\* A round does not take regular messages past an urgent one that was there before them.
THEOREM UrgentMailIsFirst == Spec => []UrgentFirst
<1>1. MailInOrder => UrgentFirst
  BY UrgentFirstHolds DEF MailInOrder
<1> QED
  BY <1>1, MailStaysInOrder, PTL
===============================================================================
