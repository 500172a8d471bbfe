-------------------------- MODULE WorkGraphProofs ---------------------------
(***************************************************************************)
(* Proofs about WorkGraph (src/mission/compiler.rs and bootstrap.rs), for  *)
(* any issues, numbers, manifests and bounds.                              *)
(*                                                                         *)
(* The inductive invariant GraphIsSorted says of Kahn's algorithm that     *)
(* every counter is what its item still waits for, that who waits for      *)
(* nothing is queued or sorted, and that what is sorted comes after what   *)
(* it waits for; of the graph, that it holds what the texts of the issues  *)
(* say where they are taken at their word (Heard), and without a manifest  *)
(* nothing else (Grounded).                                                *)
(***************************************************************************)
EXTENDS WorkGraph, FiniteSetTheorems, SequenceTheorems, NaturalsInduction,
        WellFoundedInduction, TLAPS

----------------------------------------------------------------------------
(* Sequences without repetition, and the greatest of some numbers *)

NoTwice(s) == \A m, n \in DOMAIN s : s[m] = s[n] => m = n

\* Every way to list a finite set lists all of it, and nothing twice.
LEMMA ListingIs ==
  ASSUME NEW S, IsFiniteSet(S), NEW s \in SetToSeqs(S)
  PROVE  s \in Seq(S) /\ NoTwice(s) /\ Range(s) = S
<1> DEFINE D == 1 .. Cardinality(S)
<1>1. Cardinality(S) \in Nat
  BY FS_CardinalityType
<1>2. s \in [D -> S] /\ \A i, j \in D : i # j => s[i] # s[j]
  BY DEF SetToSeqs
<1>3. s \in Injection(D, S)
  BY <1>2 DEF Injection, IsInjective
<1>4. Cardinality(D) = Cardinality(S)
  BY <1>1, FS_Interval
<1>5. s \in Surjection(D, S)
  BY <1>3, <1>4, FS_Injection
<1>6. s \in Seq(S)
  BY <1>1, <1>2
<1>7. Range(s) = S
  BY <1>2, <1>5 DEF Surjection, Range
<1> QED
  BY <1>2, <1>6, <1>7 DEF NoTwice

LEMMA AppendOne ==
  ASSUME NEW S, NEW s \in Seq(S), NoTwice(s), NEW e \in S, e \notin Range(s)
  PROVE  /\ Append(s, e) \in Seq(S) /\ NoTwice(Append(s, e))
         /\ Range(Append(s, e)) = Range(s) \cup {e}
<1>1. /\ Append(s, e) \in Seq(S) /\ Len(Append(s, e)) = Len(s) + 1
      /\ \A i \in 1 .. Len(s) : Append(s, e)[i] = s[i]
      /\ Append(s, e)[Len(s) + 1] = e
  BY AppendProperties
<1>2. DOMAIN s = 1 .. Len(s) /\ DOMAIN Append(s, e) = 1 .. Len(s) + 1 /\ Len(s) \in Nat
  BY <1>1, LenProperties
<1>3. \A i \in 1 .. Len(s) : s[i] # e
  BY <1>2 DEF Range
<1>4. NoTwice(Append(s, e))
  BY <1>1, <1>2, <1>3 DEF NoTwice
<1>5. Range(Append(s, e)) \subseteq Range(s) \cup {e}
  BY <1>1, <1>2 DEF Range
<1>6. Range(s) \cup {e} \subseteq Range(Append(s, e))
  <2>1. ASSUME NEW x \in Range(s) PROVE x \in Range(Append(s, e))
    <3>1. PICK i \in 1 .. Len(s) : s[i] = x
      BY <1>2 DEF Range
    <3>2. i \in DOMAIN Append(s, e) /\ Append(s, e)[i] = x
      BY <1>1, <1>2, <3>1
    <3> QED
      BY <3>2 DEF Range
  <2>2. e \in Range(Append(s, e))
    <3>1. Len(s) + 1 \in DOMAIN Append(s, e)
      BY <1>2
    <3> QED
      BY <1>1, <3>1 DEF Range
  <2> QED
    BY <2>1, <2>2
<1> QED
  BY <1>1, <1>4, <1>5, <1>6

\* The head of a queue without repetition is not in its tail.
LEMMA TailWithout ==
  ASSUME NEW S, NEW s \in Seq(S), NoTwice(s), s # <<>>
  PROVE  /\ Head(s) \in S /\ Head(s) \in Range(s)
         /\ Tail(s) \in Seq(S) /\ NoTwice(Tail(s))
         /\ Range(Tail(s)) = Range(s) \ {Head(s)}
<1>1. /\ Head(s) \in S /\ Tail(s) \in Seq(S) /\ Len(Tail(s)) = Len(s) - 1
      /\ \A i \in 1 .. Len(Tail(s)) : Tail(s)[i] = s[i + 1]
  BY HeadTailProperties
<1>2. DOMAIN s = 1 .. Len(s) /\ DOMAIN Tail(s) = 1 .. Len(s) - 1 /\ Len(s) \in Nat \ {0}
  BY <1>1, LenProperties, EmptySeq
<1>3. Head(s) = s[1]
  OBVIOUS
<1>4. NoTwice(Tail(s))
  <2> SUFFICES ASSUME NEW m \in 1 .. Len(s) - 1, NEW n \in 1 .. Len(s) - 1, Tail(s)[m] = Tail(s)[n]
               PROVE  m = n
    BY <1>2 DEF NoTwice
  <2>1. m + 1 \in DOMAIN s /\ n + 1 \in DOMAIN s /\ s[m + 1] = s[n + 1]
    BY <1>1, <1>2
  <2>2. m + 1 = n + 1
    BY <2>1 DEF NoTwice
  <2> QED
    BY <2>2
<1>5. Head(s) \in Range(s)
  BY <1>2, <1>3 DEF Range
<1>6. ASSUME NEW x \in Range(Tail(s)) PROVE x \in Range(s) /\ x # Head(s)
  <2>1. PICK i \in 1 .. Len(s) - 1 : Tail(s)[i] = x
    BY <1>2 DEF Range
  <2>2. i + 1 \in DOMAIN s /\ 1 \in DOMAIN s /\ s[i + 1] = x /\ i + 1 # 1
    BY <1>1, <1>2, <2>1
  <2> QED
    BY <1>3, <2>2 DEF Range, NoTwice
<1>7. ASSUME NEW x \in Range(s), x # Head(s) PROVE x \in Range(Tail(s))
  <2>1. PICK i \in 1 .. Len(s) : s[i] = x
    BY <1>2 DEF Range
  <2>2. i # 1
    BY <1>3, <1>7, <2>1
  <2>3. i - 1 \in 1 .. Len(s) - 1 /\ (i - 1) + 1 = i
    BY <1>2, <2>2
  <2>4. i - 1 \in DOMAIN Tail(s) /\ Tail(s)[i - 1] = x
    BY <1>1, <1>2, <2>1, <2>3
  <2> QED
    BY <2>4 DEF Range
<1> QED
  BY <1>1, <1>4, <1>5, <1>6, <1>7

LEMMA Joined ==
  ASSUME NEW S, NEW s \in Seq(S), NEW t \in Seq(S), NoTwice(s), NoTwice(t),
         Range(s) \cap Range(t) = {}
  PROVE  s \o t \in Seq(S) /\ NoTwice(s \o t) /\ Range(s \o t) = Range(s) \cup Range(t)
<1>1. /\ s \o t \in Seq(S) /\ Len(s \o t) = Len(s) + Len(t)
      /\ \A i \in 1 .. Len(s) + Len(t) :
           (s \o t)[i] = IF i <= Len(s) THEN s[i] ELSE t[i - Len(s)]
  BY ConcatProperties
<1>2. /\ DOMAIN s = 1 .. Len(s) /\ DOMAIN t = 1 .. Len(t) /\ DOMAIN (s \o t) = 1 .. Len(s) + Len(t)
      /\ Len(s) \in Nat /\ Len(t) \in Nat
  BY <1>1, LenProperties
<1>3. ASSUME NEW m \in 1 .. Len(s) + Len(t), NEW n \in 1 .. Len(s) + Len(t), (s \o t)[m] = (s \o t)[n]
      PROVE  m = n
  <2>1. CASE m <= Len(s) /\ n <= Len(s)
    BY <1>1, <1>2, <1>3, <2>1 DEF NoTwice
  <2>2. CASE m > Len(s) /\ n > Len(s)
    <3>1. /\ m - Len(s) \in DOMAIN t /\ n - Len(s) \in DOMAIN t
          /\ t[m - Len(s)] = t[n - Len(s)]
      BY <1>1, <1>2, <1>3, <2>2
    <3>2. m - Len(s) = n - Len(s)
      BY <3>1 DEF NoTwice
    <3> QED
      BY <1>2, <3>2
  <2>3. CASE m <= Len(s) /\ n > Len(s)
    <3>1. m \in DOMAIN s /\ n - Len(s) \in DOMAIN t /\ s[m] = t[n - Len(s)]
      BY <1>1, <1>2, <1>3, <2>3
    <3> QED
      BY <3>1 DEF Range
  <2>4. CASE m > Len(s) /\ n <= Len(s)
    <3>1. n \in DOMAIN s /\ m - Len(s) \in DOMAIN t /\ s[n] = t[m - Len(s)]
      BY <1>1, <1>2, <1>3, <2>4
    <3> QED
      BY <3>1 DEF Range
  <2> QED
    BY <1>2, <2>1, <2>2, <2>3, <2>4
<1> QED
  BY <1>1, <1>2, <1>3, RangeConcatenation DEF NoTwice

Below == {a \in Nat \X Nat : a[1] < a[2]}

LEMMA BelowIsWellFounded == IsWellFoundedOn(Below, Nat)
BY NatLessThanWellFounded, Zenon DEF OpToRel, Below

LEMMA SmallestIs ==
  ASSUME NEW S, S \subseteq Nat, S # {}
  PROVE  \E n \in S : \A m \in S : n <= m
<1>1. PICK n \in S : \A m \in S : <<m, n>> \notin Below
  BY BelowIsWellFounded, WFMin, Zenon
<1>2. ASSUME NEW m \in S PROVE n <= m
  <2>1. <<m, n>> \in Nat \X Nat /\ m \in Nat /\ n \in Nat
    OBVIOUS
  <2>2. ~ (<<m, n>>[1] < <<m, n>>[2])
    BY <1>1, <2>1, Zenon DEF Below
  <2> QED
    BY <2>1, <2>2
<1> QED
  BY <1>2

LEMMA GreatestIs ==
  ASSUME NEW N \in Nat, NEW S, S \subseteq 1 .. N, S # {}
  PROVE  \E n \in S : \A m \in S : m <= n
<1> DEFINE bounds == {u \in Nat : \A m \in S : m <= u}
<1>1. bounds \subseteq Nat /\ N \in bounds
  OBVIOUS
<1>2. PICK u \in bounds : \A v \in bounds : u <= v
  <2> HIDE DEF bounds
  <2> QED
    BY <1>1, SmallestIs
<1>3. u \in S
  <2> SUFFICES ASSUME u \notin S PROVE FALSE
    OBVIOUS
  <2>1. \A m \in S : m <= u - 1
    OBVIOUS
  <2>2. PICK m \in S : TRUE
    OBVIOUS
  <2>3. 1 <= m /\ m <= u
    BY <2>2
  <2>4. u - 1 \in bounds
    BY <2>1, <2>3
  <2> QED
    BY <1>2, <2>4
<1> QED
  BY <1>3

----------------------------------------------------------------------------
(* Kahn's algorithm, on any graph *)

Items == DOMAIN depends_on

KahnTyped ==
  /\ IsFiniteSet(Items)
  /\ depends_on \in [Items -> SUBSET Items] /\ in_degree \in [Items -> Nat]
  /\ queue \in Seq(Items) /\ NoTwice(queue)
  /\ sorted \in Seq(Items) /\ NoTwice(sorted)

\* The counters say how much an item still waits for, and who waits for nothing more
\* is in the queue or sorted.
Counters ==
  /\ Range(queue) \cap Range(sorted) = {}
  /\ \A j \in Items : in_degree[j] = Cardinality(depends_on[j] \ Range(sorted))
  /\ \A j \in Items : depends_on[j] \subseteq Range(sorted) <=> j \in Range(queue) \cup Range(sorted)

\* What an item depends on is sorted before it.
InOrder ==
  \A n \in DOMAIN sorted : \A d \in depends_on[sorted[n]] :
    \E m \in DOMAIN sorted : m < n /\ sorted[m] = d

Kahn == KahnTyped /\ Counters /\ InOrder

LEMMA RangesIn ==
  ASSUME KahnTyped
  PROVE  /\ Range(queue) \subseteq Items /\ Range(sorted) \subseteq Items
         /\ \A j \in Items : depends_on[j] \subseteq Items /\ IsFiniteSet(depends_on[j] \ Range(sorted))
<1>1. Range(queue) \subseteq Items /\ Range(sorted) \subseteq Items
  BY RangeOfSeq DEF KahnTyped
<1>2. ASSUME NEW j \in Items
      PROVE  depends_on[j] \subseteq Items /\ IsFiniteSet(depends_on[j] \ Range(sorted))
  <2>1. depends_on[j] \subseteq Items
    BY DEF KahnTyped
  <2>2. depends_on[j] \ Range(sorted) \in SUBSET Items
    BY <2>1
  <2> QED
    BY <2>1, <2>2, FS_Subset DEF KahnTyped
<1> QED
  BY <1>1, <1>2

\* What the sort of the head of the queue does to the lists.
LEMMA SortLists ==
  ASSUME Kahn, Sort
  PROVE  \E i \in Items :
           /\ i = Head(queue) /\ i \in Range(queue) /\ i \notin Range(sorted)
           /\ depends_on[i] \subseteq Range(sorted)
           /\ sorted' = Append(sorted, i) /\ depends_on' = depends_on
           /\ sorted' \in Seq(Items) /\ NoTwice(sorted') /\ Range(sorted') = Range(sorted) \cup {i}
           /\ queue' \in Seq(Items) /\ NoTwice(queue')
           /\ Range(queue') = (Range(queue) \ {i}) \cup Freed(i)
           /\ in_degree' = [j \in Items |-> in_degree[j] - (IF i \in depends_on[j] THEN 1 ELSE 0)]
<1>1. PICK i : i = Head(queue)
  OBVIOUS
<1>2. /\ i \in Items /\ i \in Range(queue) /\ Tail(queue) \in Seq(Items) /\ NoTwice(Tail(queue))
      /\ Range(Tail(queue)) = Range(queue) \ {i}
  BY <1>1, TailWithout DEF Kahn, KahnTyped, Sort
<1>3. i \notin Range(sorted) /\ depends_on[i] \subseteq Range(sorted)
  BY <1>2 DEF Kahn, Counters
<1>4. /\ sorted' = Append(sorted, i) /\ depends_on' = depends_on
      /\ in_degree' =
            [j \in DOMAIN in_degree |-> in_degree[j] - (IF j \in Dependents(i) THEN 1 ELSE 0)]
  BY <1>1 DEF Sort
<1>5. in_degree' = [j \in Items |-> in_degree[j] - (IF i \in depends_on[j] THEN 1 ELSE 0)]
  BY <1>4 DEF Dependents, Kahn, KahnTyped, Items
<1>6. sorted' \in Seq(Items) /\ NoTwice(sorted') /\ Range(sorted') = Range(sorted) \cup {i}
  BY <1>2, <1>3, <1>4, AppendOne DEF Kahn, KahnTyped
<1>7. PICK freed \in SetToSeqs(Freed(i)) : queue' = Tail(queue) \o freed
  BY <1>1 DEF Sort
<1>8. Freed(i) \in SUBSET Items /\ IsFiniteSet(Freed(i))
  <2>1. Freed(i) \in SUBSET Items
    BY DEF Freed, Dependents, Items
  <2> QED
    BY <2>1, FS_Subset DEF Kahn, KahnTyped
<1>9. freed \in Seq(Freed(i)) /\ NoTwice(freed) /\ Range(freed) = Freed(i)
  BY <1>8, ListingIs
<1>10. freed \in Seq(Items)
  BY <1>8, <1>9, SeqMonotonic
<1>11. Freed(i) \cap Range(queue) = {}
  BY <1>3 DEF Freed, Dependents, Items, Kahn, Counters
<1>12. queue' \in Seq(Items) /\ NoTwice(queue') /\ Range(queue') = (Range(queue) \ {i}) \cup Freed(i)
  <2>1. Range(Tail(queue)) \cap Range(freed) = {}
    BY <1>2, <1>9, <1>11
  <2>2. PICK t : /\ t = Tail(queue) /\ t \in Seq(Items) /\ freed \in Seq(Items)
                 /\ NoTwice(t) /\ NoTwice(freed) /\ Range(t) \cap Range(freed) = {}
    BY <1>2, <1>9, <1>10, <2>1
  <2>3. /\ t \o freed \in Seq(Items) /\ NoTwice(t \o freed)
        /\ Range(t \o freed) = Range(t) \cup Range(freed)
    BY <2>2, Joined, ZenonT(60)
  <2>4. queue' = t \o freed
    BY <1>7, <2>2
  <2>5. Range(t) = Range(queue) \ {i} /\ Range(freed) = Freed(i)
    BY <1>2, <1>9, <2>2
  <2> QED
    BY <2>3, <2>4, <2>5
<1> QED
  BY <1>1, <1>2, <1>3, <1>4, <1>5, <1>6, <1>12

LEMMA SortKeepsOrder ==
  ASSUME Kahn, Sort
  PROVE  InOrder'
<1>1. PICK i \in Items : /\ depends_on[i] \subseteq Range(sorted)
                         /\ sorted' = Append(sorted, i) /\ depends_on' = depends_on
  BY SortLists
<1>2. /\ Len(Append(sorted, i)) = Len(sorted) + 1 /\ Append(sorted, i) \in Seq(Items)
      /\ \A n \in 1 .. Len(sorted) : Append(sorted, i)[n] = sorted[n]
      /\ Append(sorted, i)[Len(sorted) + 1] = i
  BY AppendProperties DEF Kahn, KahnTyped
<1>3. DOMAIN sorted = 1 .. Len(sorted) /\ DOMAIN sorted' = 1 .. Len(sorted) + 1 /\ Len(sorted) \in Nat
  BY <1>1, <1>2, LenProperties DEF Kahn, KahnTyped
<1> SUFFICES ASSUME NEW n \in DOMAIN sorted', NEW d \in depends_on[sorted'[n]]
             PROVE  \E m \in DOMAIN sorted' : m < n /\ sorted'[m] = d
  BY <1>1 DEF InOrder
<1>4. CASE n = Len(sorted) + 1
  <2>1. d \in Range(sorted)
    BY <1>1, <1>2, <1>4
  <2>2. PICK m \in 1 .. Len(sorted) : sorted[m] = d
    BY <1>3, <2>1 DEF Range
  <2> QED
    BY <1>1, <1>2, <1>3, <1>4, <2>2
<1>5. CASE n # Len(sorted) + 1
  <2>1. n \in DOMAIN sorted /\ sorted'[n] = sorted[n]
    BY <1>1, <1>2, <1>3, <1>5
  <2>2. PICK m \in DOMAIN sorted : m < n /\ sorted[m] = d
    BY <2>1 DEF Kahn, InOrder
  <2> QED
    BY <1>1, <1>2, <1>3, <2>2
<1> QED
  BY <1>4, <1>5

LEMMA SortKeepsCounters ==
  ASSUME Kahn, Sort
  PROVE  Counters' /\ in_degree' \in [Items -> Nat]
<1>1. PICK i \in Items :
         /\ i \notin Range(sorted) /\ depends_on' = depends_on
         /\ Range(sorted') = Range(sorted) \cup {i}
         /\ Range(queue') = (Range(queue) \ {i}) \cup Freed(i)
         /\ in_degree' = [j \in Items |-> in_degree[j] - (IF i \in depends_on[j] THEN 1 ELSE 0)]
         /\ i \in Range(queue)
  BY SortLists
<1>2. ASSUME NEW j \in Items
      PROVE  /\ in_degree'[j] = Cardinality(depends_on[j] \ Range(sorted'))
             /\ in_degree'[j] \in Nat
             /\ j \in Freed(i) <=> i \in depends_on[j] /\ depends_on[j] \ Range(sorted) = {i}
  <2> DEFINE W == depends_on[j] \ Range(sorted)
  <2>1. IsFiniteSet(W) /\ in_degree[j] = Cardinality(W)
    BY RangesIn DEF Kahn, Counters
  <2>2. depends_on[j] \ Range(sorted') = W \ {i} /\ (i \in W <=> i \in depends_on[j])
    BY <1>1
  <2>3. j \in Freed(i) <=> i \in depends_on[j] /\ in_degree[j] = 1
    BY DEF Freed, Dependents, Items
  <2> HIDE DEF W
  <2>4. /\ IsFiniteSet(W \ {i})
        /\ Cardinality(W \ {i}) = IF i \in W THEN Cardinality(W) - 1 ELSE Cardinality(W)
        /\ Cardinality(W \ {i}) \in Nat /\ Cardinality(W) \in Nat
    BY <2>1, FS_RemoveElement, FS_CardinalityType
  <2>5. Cardinality(W) = 1 <=> \E x : W = {x}
    BY <2>1, FS_Singleton
  <2>6. in_degree'[j] = Cardinality(W \ {i})
    BY <1>1, <2>1, <2>2, <2>4
  <2>7. i \in W => (Cardinality(W) = 1 <=> W = {i})
    BY <2>5
  <2>8. j \in Freed(i) <=> i \in depends_on[j] /\ W = {i}
    BY <2>1, <2>2, <2>3, <2>7
  <2>9. in_degree'[j] = Cardinality(depends_on[j] \ Range(sorted')) /\ in_degree'[j] \in Nat
    BY <2>2, <2>4, <2>6
  <2> QED
    BY <2>8, <2>9 DEF W
<1>3. in_degree' \in [Items -> Nat]
  BY <1>1, <1>2
<1>4. Range(queue') \cap Range(sorted') = {}
  <2>1. ASSUME NEW j \in Freed(i) PROVE j \notin Range(sorted) /\ j # i
    <3>1. j \in Items
      BY <2>1 DEF Freed, Dependents, Items
    <3>2. ~ (depends_on[j] \subseteq Range(sorted))
      BY <1>1, <1>2, <2>1, <3>1
    <3> QED
      BY <1>1, <3>1, <3>2 DEF Kahn, Counters
  <2> QED
    BY <1>1, <2>1 DEF Kahn, Counters
<1>5. ASSUME NEW j \in Items
      PROVE  depends_on[j] \subseteq Range(sorted') <=> j \in Range(queue') \cup Range(sorted')
  <2>1. j \in Range(queue') \cup Range(sorted')
          <=> j \in Range(queue) \cup Range(sorted) \/ j \in Freed(i)
    BY <1>1
  <2>2. depends_on[j] \subseteq Range(sorted) <=> j \in Range(queue) \cup Range(sorted)
    BY DEF Kahn, Counters
  <2>3. depends_on[j] \subseteq Range(sorted')
          <=> depends_on[j] \subseteq Range(sorted)
              \/ (i \in depends_on[j] /\ depends_on[j] \ Range(sorted) = {i})
    BY <1>1
  <2> QED
    BY <1>2, <2>1, <2>2, <2>3
<1>6. Items' = Items
  BY <1>1 DEF Items
<1>7. \A j \in Items : in_degree'[j] = Cardinality(depends_on[j] \ Range(sorted'))
  BY <1>2
<1> QED
  BY <1>1, <1>3, <1>4, <1>5, <1>6, <1>7 DEF Counters

LEMMA SortKeepsKahn ==
  ASSUME Kahn, Sort
  PROVE  Kahn'
<1>1. /\ depends_on' = depends_on
      /\ sorted' \in Seq(Items) /\ NoTwice(sorted')
      /\ queue' \in Seq(Items) /\ NoTwice(queue')
  BY SortLists
<1>2. Items' = Items
  BY <1>1 DEF Items
<1>3. in_degree' \in [Items -> Nat]
  BY SortKeepsCounters
<1>4. KahnTyped'
  BY <1>1, <1>2, <1>3 DEF Kahn, KahnTyped
<1> QED
  BY <1>4, SortKeepsCounters, SortKeepsOrder DEF Kahn

----------------------------------------------------------------------------
(* What is read, and the graph that is made of it *)

Read == [repo : {issue[1] : issue \in Issues}, number : Numbers,
         text : SUBSET Numbers, depends_on : SUBSET Numbers]

ReadingOK ==
  /\ phase \in {"reading", "failed", "documents", "sorting", "compiled", "cycle"}
  /\ docs \in Nat /\ manifest \in Manifests
  /\ parsed \in Seq(Read) /\ Objectives <= MaxObjectives
  /\ \A i \in DOMAIN parsed : parsed[i].depends_on \subseteq parsed[i].text

LEMMA KeptIs ==
  ASSUME ReadingOK
  PROVE  /\ Len(parsed) \in Nat /\ DOMAIN parsed = 1 .. Len(parsed)
         /\ Kept \subseteq 1 .. Len(parsed) /\ Kept \subseteq Position /\ IsFiniteSet(Kept)
<1>1. Len(parsed) \in Nat /\ DOMAIN parsed = 1 .. Len(parsed) /\ Len(parsed) <= MaxObjectives
  BY LenProperties, WorkGraphConstants DEF ReadingOK, Objectives
<1>2. Kept \subseteq 1 .. Len(parsed)
  BY <1>1 DEF Kept
<1>3. 1 .. Len(parsed) \subseteq Position
  BY <1>1, WorkGraphConstants DEF Position
<1>4. IsFiniteSet(1 .. Len(parsed))
  BY <1>1, FS_Interval
<1>5. IsFiniteSet(Kept)
  BY <1>2, <1>4, FS_Subset
<1> QED
  BY <1>1, <1>2, <1>3, <1>5

LEMMA GreatestChosen ==
  ASSUME NEW N \in Nat, NEW S, S \subseteq 1 .. N, S # {}
  PROVE  (CHOOSE n \in S : \A m \in S : m <= n) \in S
BY GreatestIs

\* A number that some kept issue has stands for a kept issue of that number.
LEMMA IssueMapIs ==
  ASSUME ReadingOK, NEW n, WithNumber(n) # {}
  PROVE  IssueMap(n) \in Kept /\ parsed[IssueMap(n)].number = n
<1>1. WithNumber(n) \subseteq 1 .. Len(parsed) /\ Len(parsed) \in Nat
  BY KeptIs DEF WithNumber
<1>2. (CHOOSE i \in WithNumber(n) : \A j \in WithNumber(n) : j <= i) \in WithNumber(n)
  <2> HIDE DEF WithNumber
  <2> QED
    BY <1>1, GreatestChosen
<1>3. IssueMap(n) \in WithNumber(n)
  BY <1>2 DEF IssueMap
<1> QED
  BY <1>3 DEF WithNumber

LEMMA ResolvedIs ==
  ASSUME ReadingOK, NEW i \in Kept
  PROVE  \A d \in Resolved(i) : d \in Kept /\ parsed[d].number \in Declared(i)
<1> SUFFICES ASSUME NEW d \in Resolved(i)
             PROVE  d \in Kept /\ parsed[d].number \in Declared(i)
  OBVIOUS
<1>1. PICK n \in Declared(i) : WithNumber(n) # {} /\ d = IssueMap(n)
  BY DEF Resolved
<1> QED
  BY <1>1, IssueMapIs

\* What the item of an issue depends on is nothing, or what one issue of its number
\* gave it.
LEMMA DependsOnIs ==
  ASSUME ReadingOK, NEW i \in Kept
  PROVE  /\ DependsOn(i) \subseteq Kept
         /\ DependsOn(i) # {} =>
              \E k \in Kept : parsed[k].number = parsed[i].number /\ DependsOn(i) = Resolved(k)
<1>1. PICK setters : setters = {j \in WithNumber(parsed[i].number) : Resolved(j) # {}}
  OBVIOUS
<1>2. PICK last : last = CHOOSE j \in setters : \A k \in setters : k <= j
  OBVIOUS
<1>3. DependsOn(i) =
        IF i = IssueMap(parsed[i].number) /\ setters # {} THEN Resolved(last) ELSE {}
  BY <1>1, <1>2 DEF DependsOn
<1>4. setters \subseteq WithNumber(parsed[i].number) /\ WithNumber(parsed[i].number) \subseteq Kept
  BY <1>1 DEF WithNumber
<1>5. setters # {} => last \in setters
  <2>1. setters \subseteq 1 .. Len(parsed) /\ Len(parsed) \in Nat
    BY <1>4, KeptIs
  <2> QED
    BY <1>2, <2>1, GreatestChosen
<1>6. CASE i = IssueMap(parsed[i].number) /\ setters # {}
  <2>1. last \in Kept /\ parsed[last].number = parsed[i].number /\ DependsOn(i) = Resolved(last)
    BY <1>3, <1>4, <1>5, <1>6 DEF WithNumber
  <2> QED
    BY <2>1, ResolvedIs
<1>7. CASE ~ (i = IssueMap(parsed[i].number) /\ setters # {})
  BY <1>3, <1>7
<1> QED
  BY <1>6, <1>7

LEMMA OnlyOneOfNumber ==
  ASSUME ReadingOK, NEW i \in Kept, OnlyOfItsNumber(i)
  PROVE  /\ WithNumber(parsed[i].number) = {i} /\ IssueMap(parsed[i].number) = i
         /\ DependsOn(i) = Resolved(i)
<1>1. WithNumber(parsed[i].number) = {i}
  BY DEF WithNumber, OnlyOfItsNumber
<1>2. IssueMap(parsed[i].number) = i
  BY <1>1, IssueMapIs DEF WithNumber, OnlyOfItsNumber
<1>3. PICK setters : setters = {j \in WithNumber(parsed[i].number) : Resolved(j) # {}}
  OBVIOUS
<1>4. PICK last : last = CHOOSE j \in setters : \A k \in setters : k <= j
  OBVIOUS
<1>5. DependsOn(i) =
        IF i = IssueMap(parsed[i].number) /\ setters # {} THEN Resolved(last) ELSE {}
  BY <1>3, <1>4 DEF DependsOn
<1>6. setters \subseteq {i} /\ (setters # {} <=> Resolved(i) # {})
  BY <1>1, <1>3
<1>7. setters # {} => last = i
  <2>1. setters \subseteq 1 .. Len(parsed) /\ Len(parsed) \in Nat
    BY <1>6, KeptIs
  <2>2. setters # {} => last \in setters
    BY <1>4, <2>1, GreatestChosen
  <2> QED
    BY <1>6, <2>2
<1> QED
  BY <1>1, <1>2, <1>5, <1>6, <1>7

\* An issue taken at its word waits for the issues its text names.
Heard ==
  \A i, j \in Kept :
    Says(i, j) /\ TakenAtItsWord(i) /\ OnlyOfItsNumber(i) /\ OnlyOfItsNumber(j)
      => j \in depends_on[i]

\* Without a manifest, what an item waits for is named in the text of one issue of its number.
Grounded ==
  (\A i \in Kept : ~ Overridden(i)) =>
    \A i \in Kept : depends_on[i] # {} =>
      \E k \in Kept : /\ parsed[k].number = parsed[i].number
                      /\ \A d \in depends_on[i] : parsed[d].number \in parsed[k].text

LEMMA WordIsHeard ==
  ASSUME ReadingOK, NEW i \in Kept, NEW j \in Kept,
         Says(i, j), TakenAtItsWord(i), OnlyOfItsNumber(i), OnlyOfItsNumber(j)
  PROVE  j \in DependsOn(i)
<1>1. parsed[j].number \in Declared(i)
  BY DEF Says, TakenAtItsWord, Declared
<1>2. WithNumber(parsed[j].number) # {} /\ IssueMap(parsed[j].number) = j
  BY OnlyOneOfNumber
<1>3. j \in Resolved(i)
  BY <1>1, <1>2 DEF Resolved
<1> QED
  BY <1>3, OnlyOneOfNumber

LEMMA DependsOnIsGrounded ==
  ASSUME ReadingOK, \A i \in Kept : ~ Overridden(i), NEW i \in Kept, DependsOn(i) # {}
  PROVE  \E k \in Kept : /\ parsed[k].number = parsed[i].number
                         /\ \A d \in DependsOn(i) : parsed[d].number \in parsed[k].text
<1>1. PICK k \in Kept : parsed[k].number = parsed[i].number /\ DependsOn(i) = Resolved(k)
  BY DependsOnIs
<1>2. Declared(k) = parsed[k].depends_on
  BY DEF Declared
<1>3. k \in DOMAIN parsed
  BY DEF Kept
<1>4. Declared(k) \subseteq parsed[k].text
  BY <1>2, <1>3 DEF ReadingOK
<1> QED
  BY <1>1, <1>4, ResolvedIs

----------------------------------------------------------------------------
(* Compile poses the graph *)

LEMMA ReadStays ==
  ASSUME UNCHANGED <<parsed, manifest>>
  PROVE  Kept' = Kept
BY DEF Kept, Skipped, Overridden

LEMMA CompileMakesKahn ==
  ASSUME ReadingOK, sorted = <<>>, Compile
  PROVE  Kahn' /\ Items' = Kept
<1>1. /\ depends_on' = [i \in Kept |-> DependsOn(i)]
      /\ in_degree' = [i \in Kept |-> Cardinality(DependsOn(i))]
      /\ queue' \in SetToSeqs({i \in Kept : DependsOn(i) = {}})
      /\ sorted' = <<>>
  BY DEF Compile
<1>2. Items' = Kept
  BY <1>1 DEF Items
<1>3. \A i \in Kept : DependsOn(i) \subseteq Kept /\ IsFiniteSet(DependsOn(i))
  BY DependsOnIs, KeptIs, FS_Subset
<1>4. PICK free : free = {i \in Kept : DependsOn(i) = {}}
  OBVIOUS
<1>5. queue' \in Seq(free) /\ NoTwice(queue') /\ Range(queue') = free
  <2>1. IsFiniteSet(free)
    BY <1>4, KeptIs, FS_Subset
  <2> QED
    BY <1>1, <1>4, <2>1, ListingIs
<1>6. queue' \in Seq(Kept)
  <2>1. free \subseteq Kept
    BY <1>4
  <2> QED
    BY <1>5, <2>1, SeqMonotonic
<1>7. sorted' \in Seq(Kept) /\ NoTwice(sorted') /\ Range(sorted') = {} /\ DOMAIN sorted' = {}
  <2>1. DOMAIN sorted' = {} /\ sorted' \in Seq(Kept)
    BY <1>1, EmptySeq
  <2> QED
    BY <2>1 DEF NoTwice, Range
<1>8. depends_on' \in [Kept -> SUBSET Kept] /\ in_degree' \in [Kept -> Nat]
  BY <1>1, <1>3, FS_CardinalityType
<1>9. KahnTyped'
  BY <1>2, <1>5, <1>6, <1>7, <1>8, KeptIs DEF KahnTyped
<1>10. \A j \in Kept : /\ in_degree'[j] = Cardinality(depends_on'[j] \ Range(sorted'))
                       /\ depends_on'[j] \subseteq Range(sorted') <=> j \in free
  <2>1. ASSUME NEW j \in Kept
        PROVE  /\ in_degree'[j] = Cardinality(depends_on'[j] \ Range(sorted'))
               /\ depends_on'[j] \subseteq Range(sorted') <=> j \in free
    <3>1. in_degree'[j] = Cardinality(DependsOn(j)) /\ depends_on'[j] = DependsOn(j)
      BY <1>1
    <3>2. depends_on'[j] \ Range(sorted') = DependsOn(j)
      BY <1>7, <3>1
    <3>3. depends_on'[j] \subseteq Range(sorted') <=> j \in free
      BY <1>4, <1>7, <3>1
    <3> QED
      BY <3>1, <3>2, <3>3
  <2> QED
    BY <2>1
<1>11. Counters'
  BY <1>2, <1>5, <1>7, <1>10 DEF Counters
<1>12. InOrder'
  BY <1>7 DEF InOrder
<1> QED
  BY <1>2, <1>9, <1>11, <1>12 DEF Kahn

LEMMA CompileHears ==
  ASSUME ReadingOK, Compile
  PROVE  Heard' /\ Grounded'
<1>1. /\ depends_on' = [i \in Kept |-> DependsOn(i)]
      /\ UNCHANGED <<parsed, manifest>> /\ Kept' = Kept
  BY ReadStays DEF Compile
<1>2. \A i, j \in Kept :
        Says(i, j) /\ TakenAtItsWord(i) /\ OnlyOfItsNumber(i) /\ OnlyOfItsNumber(j)
          => j \in depends_on'[i]
  BY <1>1, WordIsHeard
<1>3. Heard'
  BY <1>1, <1>2 DEF Heard, Says, TakenAtItsWord, OnlyOfItsNumber, Overridden
<1>4. (\A i \in Kept : ~ Overridden(i)) =>
         \A i \in Kept : depends_on'[i] # {} =>
           \E k \in Kept : /\ parsed[k].number = parsed[i].number
                           /\ \A d \in depends_on'[i] : parsed[d].number \in parsed[k].text
  BY <1>1, DependsOnIsGrounded
<1>5. Grounded'
  BY <1>1, <1>4 DEF Grounded, Overridden
<1> QED
  BY <1>3, <1>5

----------------------------------------------------------------------------
(* The invariant *)

Graphed == phase \in {"sorting", "compiled", "cycle"}

\* Before there is a graph there are no lists.
Blank == ~ Graphed => depends_on = <<>> /\ in_degree = <<>> /\ queue = <<>> /\ sorted = <<>>

Posed == Graphed => Kahn /\ Items = Kept /\ Heard /\ Grounded

\* How a sort ends says whether it sorted everything.
Ended ==
  /\ phase = "compiled" => Range(sorted) = Kept
  /\ phase = "cycle" => queue = <<>> /\ Range(sorted) # Kept

GraphIsSorted == ReadingOK /\ Blank /\ Posed /\ Ended

\* Reading another objective keeps what was read.
LEMMA ReadKeepsReading ==
  ASSUME ReadingOK, ReadIssue
  PROVE  ReadingOK'
<1>1. PICK issue \in Issues, shown \in BOOLEAN,
           text \in {T \in SUBSET Numbers : Cardinality(T) <= MaxDeclared} :
             parsed' = Append(parsed, Parsed(issue, text, shown))
  BY DEF ReadIssue
<1>2. PICK new : new = Parsed(issue, text, shown)
  OBVIOUS
<1>3. new \in Read /\ new.depends_on \subseteq new.text
  BY <1>2, WorkGraphConstants DEF Parsed, Read
<1>4. /\ parsed' \in Seq(Read) /\ Len(parsed') = Len(parsed) + 1 /\ Len(parsed) \in Nat
      /\ \A i \in 1 .. Len(parsed) : parsed'[i] = parsed[i]
      /\ parsed'[Len(parsed) + 1] = new
  <2>1. parsed \in Seq(Read) /\ parsed' = Append(parsed, new)
    BY <1>1, <1>2 DEF ReadingOK
  <2> QED
    BY <1>3, <2>1, AppendProperties, LenProperties
<1>5. DOMAIN parsed = 1 .. Len(parsed) /\ DOMAIN parsed' = 1 .. Len(parsed) + 1
  BY <1>4, LenProperties DEF ReadingOK
<1>6. ASSUME NEW i \in DOMAIN parsed' PROVE parsed'[i].depends_on \subseteq parsed'[i].text
  <2>1. CASE i = Len(parsed) + 1
    BY <1>3, <1>4, <2>1
  <2>2. CASE i # Len(parsed) + 1
    <3>1. i \in DOMAIN parsed /\ parsed'[i] = parsed[i]
      BY <1>4, <1>5, <2>2
    <3> QED
      BY <3>1 DEF ReadingOK
  <2> QED
    BY <2>1, <2>2
<1>7. Objectives' <= MaxObjectives
  BY <1>4, WorkGraphConstants DEF ReadIssue, Objectives, ReadingOK
<1> QED
  BY <1>4, <1>6, <1>7 DEF ReadIssue, ReadingOK

LEMMA FullSort ==
  ASSUME Kahn
  PROVE  AllSorted <=> Range(sorted) = Items
<1>1. /\ sorted \in [1 .. Len(sorted) -> Items] /\ Len(sorted) \in Nat
      /\ DOMAIN sorted = 1 .. Len(sorted)
  BY LenProperties DEF Kahn, KahnTyped
<1> DEFINE D == 1 .. Len(sorted)
<1>2. IsFiniteSet(D) /\ Cardinality(D) = Len(sorted)
  <2>1. PICK n \in Nat : n = Len(sorted)
    BY <1>1
  <2>2. IsFiniteSet(1 .. n) /\ Cardinality(1 .. n) = IF 1 > n THEN 0 ELSE n - 1 + 1
    BY FS_Interval
  <2> QED
    BY <2>1, <2>2
<1>3. sorted \in [D -> Range(sorted)] /\ Range(sorted) \subseteq Items
  BY <1>1 DEF Range
<1>4. sorted \in Bijection(D, Range(sorted))
  BY <1>1, <1>3 DEF Kahn, KahnTyped, NoTwice, Bijection, Injection, Surjection, IsInjective, Range
<1>5. Cardinality(Range(sorted)) = Len(sorted) /\ IsFiniteSet(Range(sorted))
  <2>1. ExistsBijection(D, Range(sorted))
    BY <1>4 DEF ExistsBijection
  <2> HIDE DEF D
  <2> QED
    BY <1>2, <2>1, FS_Bijection
<1>6. IsFiniteSet(Items)
  BY DEF Kahn, KahnTyped
<1>7. Cardinality(Range(sorted)) = Cardinality(Items) <=> Range(sorted) = Items
  BY <1>3, <1>5, <1>6, FS_Subset, FS_CardinalityType
<1> QED
  BY <1>5, <1>7 DEF AllSorted, Items

LEMMA GraphStays ==
  ASSUME Posed, Graphed, Graphed',
         UNCHANGED <<parsed, manifest, depends_on, in_degree, queue, sorted>>
  PROVE  Posed'
<1>1. Kept' = Kept
  BY ReadStays
<1>2. Kahn'
  BY DEF Posed, Kahn, KahnTyped, Counters, InOrder, Items
<1>3. Heard' /\ Grounded'
  BY <1>1 DEF Posed, Heard, Grounded, Says, TakenAtItsWord, OnlyOfItsNumber, Overridden
<1> QED
  BY <1>1, <1>2, <1>3 DEF Posed, Items

LEMMA SortKeepsGraph ==
  ASSUME ReadingOK, Posed, Sort
  PROVE  ReadingOK' /\ Blank' /\ Posed' /\ Ended'
<1>1. /\ phase = "sorting" /\ Graphed /\ Graphed' /\ Kahn /\ Items = Kept
      /\ UNCHANGED <<phase, parsed, docs, manifest, depends_on>>
  BY DEF Sort, Graphed, Posed
<1>2. Kept' = Kept /\ Items' = Items
  BY <1>1, ReadStays DEF Items
<1>3. Kahn'
  BY <1>1, SortKeepsKahn
<1>4. Heard' /\ Grounded'
  BY <1>1, <1>2 DEF Posed, Heard, Grounded, Says, TakenAtItsWord, OnlyOfItsNumber, Overridden
<1>5. ReadingOK'
  BY <1>1 DEF ReadingOK, Objectives
<1> QED
  BY <1>1, <1>2, <1>3, <1>4, <1>5 DEF Posed, Blank, Ended

LEMMA ReturnKeepsGraph ==
  ASSUME ReadingOK, Posed, Return
  PROVE  ReadingOK' /\ Blank' /\ Posed' /\ Ended'
<1>1. /\ phase = "sorting" /\ Graphed /\ Graphed' /\ Kahn /\ Items = Kept /\ queue = <<>>
      /\ UNCHANGED <<parsed, docs, manifest, depends_on, in_degree, queue, sorted>>
      /\ phase' = IF AllSorted THEN "compiled" ELSE "cycle"
  BY DEF Return, Graphed, Posed
<1>2. Kept' = Kept
  BY <1>1, ReadStays
<1>3. Ended'
  BY <1>1, <1>2, FullSort DEF Ended
<1>4. ReadingOK'
  BY <1>1 DEF ReadingOK, Objectives
<1> QED
  BY <1>1, <1>3, <1>4, GraphStays DEF Blank

LEMMA CompileKeepsGraph ==
  ASSUME ReadingOK, Blank, Compile
  PROVE  ReadingOK' /\ Blank' /\ Posed' /\ Ended'
<1>1. /\ sorted = <<>> /\ Graphed' /\ phase' = "sorting"
      /\ UNCHANGED <<parsed, docs, manifest, sorted>>
  BY DEF Compile, Blank, Graphed
<1>2. Kahn' /\ Items' = Kept /\ Kept' = Kept /\ Heard' /\ Grounded'
  BY <1>1, CompileMakesKahn, CompileHears, ReadStays
<1>3. ReadingOK'
  BY <1>1 DEF ReadingOK, Objectives
<1> QED
  BY <1>1, <1>2, <1>3 DEF Posed, Blank, Ended

LEMMA GraphIsSortedInitially ==
  Init => GraphIsSorted
<1> SUFFICES ASSUME Init PROVE GraphIsSorted
  OBVIOUS
<1>1. parsed \in Seq(Read) /\ Len(parsed) = 0 /\ DOMAIN parsed = {}
  BY EmptySeq DEF Init
<1>2. ReadingOK
  BY <1>1, WorkGraphConstants DEF Init, ReadingOK, Objectives
<1> QED
  BY <1>2 DEF Init, GraphIsSorted, Blank, Posed, Ended, Graphed

LEMMA GraphIsSortedKept ==
  GraphIsSorted /\ [Next]_vars => GraphIsSorted'
<1> SUFFICES ASSUME GraphIsSorted, [Next]_vars PROVE GraphIsSorted'
  OBVIOUS
<1> USE DEF GraphIsSorted
<1>1. CASE ReadIssue
  BY <1>1, ReadKeepsReading DEF ReadIssue, Blank, Posed, Ended, Graphed
<1>2. CASE ReadDoc
  <2>1. ReadingOK'
    BY <1>2, KeptIs, WorkGraphConstants DEF ReadDoc, ReadingOK, Objectives
  <2> QED
    BY <1>2, <2>1 DEF ReadDoc, Blank, Posed, Ended, Graphed
<1>3. CASE AnswerIsMalformed
  BY <1>3 DEF AnswerIsMalformed, ReadingOK, Objectives, Blank, Posed, Ended, Graphed
<1>4. CASE Compile
  BY <1>4, CompileKeepsGraph
<1>5. CASE Sort
  BY <1>5, SortKeepsGraph
<1>6. CASE Return
  BY <1>6, ReturnKeepsGraph
<1>7. CASE ReturnDocs
  BY <1>7 DEF ReturnDocs, ReadingOK, Objectives, Blank, Posed, Ended, Graphed
<1>8. CASE UNCHANGED vars
  <2>1. Kept' = Kept /\ (Graphed' <=> Graphed)
    BY <1>8, ReadStays DEF vars, Graphed
  <2>2. Posed'
    BY <1>8, <2>1, GraphStays DEF vars, Posed
  <2> QED
    BY <1>8, <2>1, <2>2 DEF vars, ReadingOK, Objectives, Blank, Ended
<1> QED
  BY <1>1, <1>2, <1>3, <1>4, <1>5, <1>6, <1>7, <1>8 DEF Next

LEMMA GraphIsSortedAlways ==
  Spec => []GraphIsSorted
BY GraphIsSortedInitially, GraphIsSortedKept, PTL DEF Spec

----------------------------------------------------------------------------
(* What follows *)

\* An issue taken at its word, of a number that is its own, comes after the issues its
\* text names (src/mission/compiler.rs, compile and topological_sort).
THEOREM DeclaredOrderKept ==
  Spec => []DeclaredOrderIsKept
<1>1. GraphIsSorted => DeclaredOrderIsKept
  <2> SUFFICES ASSUME GraphIsSorted, phase = "compiled", NEW i \in Kept, NEW j \in Kept,
                      Says(i, j), TakenAtItsWord(i), OnlyOfItsNumber(i), OnlyOfItsNumber(j)
               PROVE  Precedes(j, i)
    BY DEF DeclaredOrderIsKept
  <2>1. /\ Heard /\ InOrder /\ Range(sorted) = Kept
    BY DEF GraphIsSorted, Posed, Ended, Graphed, Kahn
  <2>2. j \in depends_on[i]
    BY <2>1 DEF Heard
  <2>3. PICK n \in DOMAIN sorted : sorted[n] = i
    BY <2>1 DEF Range
  <2>4. PICK m \in DOMAIN sorted : m < n /\ sorted[m] = j
    BY <2>1, <2>2, <2>3 DEF InOrder
  <2> QED
    BY <2>3, <2>4 DEF Precedes
<1> QED
  BY <1>1, GraphIsSortedAlways, PTL

\* What is left when the queue runs dry waits for something that is left too.
LEMMA LeftWaits ==
  ASSUME Kahn, queue = <<>>, NEW c \in Items \ Range(sorted)
  PROVE  \E d \in depends_on[c] : d \in Items \ Range(sorted)
<1>1. Range(queue) = {}
  BY DEF Range
<1>2. ~ (depends_on[c] \subseteq Range(sorted))
  BY <1>1 DEF Kahn, Counters
<1> QED
  BY <1>2, RangesIn DEF Kahn

\* A mission whose issues are all of one repository, without a manifest, is refused
\* only when its issues go round in a circle by their own words.
THEOREM RefusedOnlyForACycle ==
  Spec => []RefusedForACycle
<1>1. GraphIsSorted => RefusedForACycle
  <2> SUFFICES ASSUME GraphIsSorted, phase = "cycle", \A i \in Kept : ~ Overridden(i),
                      \A i, j \in Kept : parsed[i].repo = parsed[j].repo
               PROVE  \E S \in (SUBSET Kept) \ {{}} : \A i \in S : \E j \in S : Says(i, j)
    BY DEF RefusedForACycle
  <2>1. /\ Kahn /\ Items = Kept /\ Grounded /\ queue = <<>> /\ Range(sorted) # Kept
    BY DEF GraphIsSorted, Posed, Ended, Graphed
  <2> DEFINE Left == Kept \ Range(sorted)
             Speaks(k, c) == /\ parsed[k].number = parsed[c].number
                             /\ \A d \in depends_on[c] : parsed[d].number \in parsed[k].text
             S == {k \in Kept : \E c \in Left : Speaks(k, c)}
  <2>2. \A c \in Left : \E d \in depends_on[c] : d \in Left
    BY <2>1, LeftWaits
  <2>3. \A c \in Left : \E k \in S : parsed[k].number = parsed[c].number
    <3> SUFFICES ASSUME NEW c \in Left PROVE \E k \in S : parsed[k].number = parsed[c].number
      OBVIOUS
    <3>1. depends_on[c] # {}
      BY <2>2
    <3>2. PICK k \in Kept : Speaks(k, c)
      BY <2>1, <3>1 DEF Grounded
    <3> QED
      BY <3>2
  <2>4. PICK c \in Left : TRUE
    BY <2>1, RangesIn DEF Kahn
  <2>5. S # {} /\ S \subseteq Kept
    BY <2>3, <2>4
  <2>6. ASSUME NEW k \in S PROVE \E j \in S : Says(k, j)
    <3>1. PICK e \in Left : Speaks(k, e)
      OBVIOUS
    <3>2. PICK d \in depends_on[e] : d \in Left
      BY <2>2
    <3>3. PICK j \in S : parsed[j].number = parsed[d].number
      BY <2>3, <3>2
    <3>4. parsed[j].number \in parsed[k].text /\ parsed[k].repo = parsed[j].repo
      BY <3>1, <3>2, <3>3
    <3> QED
      BY <3>4 DEF Says
  <2> HIDE DEF S
  <2> QED
    BY <2>5, <2>6
<1> QED
  BY <1>1, GraphIsSortedAlways, PTL

----------------------------------------------------------------------------
(* The sort implements an abstract topological order *)

LEMMA RefinedInitially ==
  Init => Order!Init
BY DEF Init, Order!Init

LEMMA ListedIs ==
  Order!Listed = Range(sorted)
BY DEF Order!Listed, Range

LEMMA CompilePoses ==
  ASSUME GraphIsSorted, Compile
  PROVE  Order!Pose
<1>1. Kahn' /\ Items' = Kept
  BY CompileMakesKahn DEF GraphIsSorted, Blank, Graphed, Compile
<1>2. Kept \in SUBSET Position /\ depends_on' \in [Kept -> SUBSET Kept]
  BY <1>1, KeptIs DEF Kahn, KahnTyped, GraphIsSorted
<1> QED
  BY <1>2 DEF Order!Pose, Compile

LEMMA SortListsOne ==
  ASSUME GraphIsSorted, Sort
  PROVE  \E i \in DOMAIN depends_on : Order!List(i)
<1>1. Kahn
  BY DEF GraphIsSorted, Posed, Graphed, Sort
<1>2. PICK i \in Items : /\ i \notin Range(sorted) /\ depends_on[i] \subseteq Range(sorted)
                         /\ sorted' = Append(sorted, i) /\ depends_on' = depends_on
  BY <1>1, SortLists
<1>3. Order!List(i)
  BY <1>2, ListedIs DEF Order!List, Sort
<1> QED
  BY <1>2, <1>3 DEF Items

LEMMA ReturnDecides ==
  ASSUME GraphIsSorted, Return
  PROVE  Order!Finish \/ Order!Refuse
<1>1. /\ Kahn /\ Items = Kept /\ phase = "sorting" /\ queue = <<>>
      /\ UNCHANGED <<depends_on, sorted>>
      /\ phase' = IF AllSorted THEN "compiled" ELSE "cycle"
  BY DEF GraphIsSorted, Posed, Graphed, Return
<1>2. AllSorted <=> Range(sorted) = Items
  BY <1>1, FullSort
<1>3. CASE AllSorted
  BY <1>1, <1>2, <1>3, ListedIs DEF Order!Finish, Items
<1>4. CASE ~ AllSorted
  <2>1. Items \ Range(sorted) # {}
    BY <1>1, <1>2, <1>4, RangesIn DEF Kahn
  <2>2. \A i \in Items \ Range(sorted) : depends_on[i] \cap (Items \ Range(sorted)) # {}
    BY <1>1, LeftWaits
  <2>3. Order!Circular(depends_on)
    BY <2>1, <2>2 DEF Order!Circular, Items
  <2> QED
    BY <1>1, <1>4, <2>3 DEF Order!Refuse
<1> QED
  BY <1>3, <1>4

LEMMA RefinedByStep ==
  GraphIsSorted /\ [Next]_vars => [Order!Next]_(Order!vars)
<1> SUFFICES ASSUME GraphIsSorted, [Next]_vars PROVE [Order!Next]_(Order!vars)
  OBVIOUS
<1>1. CASE ReadIssue \/ ReadDoc \/ AnswerIsMalformed \/ ReturnDocs
  BY <1>1 DEF ReadIssue, ReadDoc, AnswerIsMalformed, ReturnDocs, Order!vars
<1>2. CASE Compile
  BY <1>2, CompilePoses DEF Order!Next
<1>3. CASE Sort
  BY <1>3, SortListsOne DEF Order!Next
<1>4. CASE Return
  BY <1>4, ReturnDecides DEF Order!Next
<1>5. CASE UNCHANGED vars
  BY <1>5 DEF vars, Order!vars
<1> QED
  BY <1>1, <1>2, <1>3, <1>4, <1>5 DEF Next

\* Whatever the order of its hash maps, the compiler lists every item after what it
\* needs, finishes only with all of them, and refuses only graphs that go round in a
\* circle: every step of it is one the abstract order allows.
THEOREM SortImplementsOrder ==
  Spec => Order!Safety
BY RefinedInitially, RefinedByStep, GraphIsSortedAlways, PTL DEF Spec, Order!Safety
=============================================================================
