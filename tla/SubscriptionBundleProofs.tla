---------------------- MODULE SubscriptionBundleProofs ----------------------
(***************************************************************************)
(* What the bus and a bundle of subscriptions promise, for any threads,    *)
(* subscriptions, types and orders: a post finds every subscription that   *)
(* nobody moved while it was looking; and, as long as one thread at most   *)
(* calls register(), the lists of the bus agree with its id map, and the   *)
(* bundle has on the bus what its flag says.                               *)
(***************************************************************************)
EXTENDS SubscriptionBundle, FiniteSetTheorems, FunctionTheorems,
        SequenceTheorems, WellFoundedInduction, TLAPS

------------------------------------------------------------------------------
(* Sorting *)

\* p leads from the places of the result to those of seq.
Sorts(p, seq) ==
    /\ p \in [DOMAIN seq -> DOMAIN seq]
    /\ \A i \in DOMAIN seq : \E k \in DOMAIN seq : p[k] = i
    /\ \A k, l \in DOMAIN seq : k < l => NotAfter(seq, p[k], p[l]) /\ p[k] # p[l]

InOrder(seq) ==
    \A i, j \in DOMAIN seq : i < j => OrderOf[seq[i]] <= OrderOf[seq[j]]

LEMMA SubsAreOrdered ==
    ASSUME NEW seq \in Seq(Subs)
    PROVE  /\ Len(seq) \in Nat /\ DOMAIN seq = 1..Len(seq)
           /\ \A i \in DOMAIN seq : seq[i] \in Subs /\ OrderOf[seq[i]] \in Nat
BY BusAssumption, LenProperties, ElementOfSeq

LEMMA CountUpTo == \A n \in Nat : IsFiniteSet(1..n) /\ Cardinality(1..n) = n
<1> SUFFICES ASSUME NEW n \in Nat PROVE IsFiniteSet(1..n) /\ Cardinality(1..n) = n
  OBVIOUS
<1>1. 1 \in Int /\ n \in Int
  OBVIOUS
<1> QED
  BY <1>1, FS_Interval

\* Of two elements, exactly one comes after the other, and its rank is higher.
LEMMA RankFollowsOrder ==
    ASSUME NEW seq \in Seq(Subs), NEW i \in DOMAIN seq, NEW j \in DOMAIN seq, i # j
    PROVE  /\ Rank(seq, i) \in DOMAIN seq
           /\ NotAfter(seq, i, j) => Rank(seq, i) < Rank(seq, j)
           /\ NotAfter(seq, i, j) \/ NotAfter(seq, j, i)
<1> DEFINE Before(k) == {h \in DOMAIN seq : NotAfter(seq, h, k)}
<1>1. Len(seq) \in Nat /\ DOMAIN seq = 1..Len(seq)
      /\ \A k \in DOMAIN seq : OrderOf[seq[k]] \in Nat
  BY SubsAreOrdered
<1>2. IsFiniteSet(DOMAIN seq) /\ Cardinality(DOMAIN seq) = Len(seq)
  BY <1>1, CountUpTo
<1>3. \A k \in DOMAIN seq :
        /\ IsFiniteSet(Before(k)) /\ Cardinality(Before(k)) \in Nat
        /\ Cardinality(Before(k)) <= Len(seq)
  BY <1>2, FS_Subset, FS_CardinalityType
<1>4. i \in Before(i) /\ j \in Before(j)
  BY <1>1 DEF NotAfter
<1>5. Cardinality(Before(i)) # 0
  BY <1>3, <1>4, FS_EmptySet
<1>6. ASSUME NotAfter(seq, i, j) PROVE Cardinality(Before(i)) < Cardinality(Before(j))
  <2>1. Before(i) \subseteq Before(j)
    BY <1>1, <1>6 DEF NotAfter
  <2>2. j \notin Before(i)
    BY <1>1, <1>6 DEF NotAfter
  <2>3. Before(i) # Before(j)
    BY <1>4, <2>2
  <2>4. Cardinality(Before(i)) <= Cardinality(Before(j))
        /\ (Cardinality(Before(j)) = Cardinality(Before(i)) => Before(j) = Before(i))
    <3> HIDE DEF Before
    <3> QED
      BY <2>1, <1>3, FS_Subset
  <2>5. Cardinality(Before(i)) \in Nat /\ Cardinality(Before(j)) \in Nat
    BY <1>3
  <2> QED
    BY <2>3, <2>4, <2>5
<1>7. NotAfter(seq, i, j) \/ NotAfter(seq, j, i)
  BY <1>1 DEF NotAfter
<1>8. Rank(seq, i) = Cardinality(Before(i)) /\ Rank(seq, j) = Cardinality(Before(j))
  BY DEF Rank
<1> HIDE DEF Before
<1> QED
  BY <1>1, <1>3, <1>5, <1>6, <1>7, <1>8

LEMMA SortedBy ==
    ASSUME NEW seq \in Seq(Subs)
    PROVE  \E p : Sorts(p, seq) /\ StableSort(seq) = [k \in DOMAIN seq |-> seq[p[k]]]
<1> DEFINE D == DOMAIN seq
           p == [k \in D |-> CHOOSE i \in D : Rank(seq, i) = k]
           rank == [i \in D |-> Rank(seq, i)]
<1>1. Len(seq) \in Nat /\ D = 1..Len(seq) /\ D \subseteq Nat
  BY SubsAreOrdered
<1>2. \A i \in D : Rank(seq, i) \in D
  <2> SUFFICES ASSUME NEW i \in D PROVE Rank(seq, i) \in D
    OBVIOUS
  <2>1. CASE \E j \in D : i # j
    BY <2>1, RankFollowsOrder
  <2>2. CASE \A j \in D : i = j
    <3>1. D = {i} /\ i = 1
      BY <1>1, <2>2
    <3>2. NotAfter(seq, i, i)
      BY <1>1 DEF NotAfter
    <3>3. {j \in DOMAIN seq : NotAfter(seq, j, i)} = {i}
      BY <3>1, <3>2
    <3> QED
      BY <3>1, <3>3, FS_Singleton DEF Rank
  <2> QED
    BY <2>1, <2>2
<1>3. \A i, j \in D : Rank(seq, i) = Rank(seq, j) => i = j
  BY <1>1, <1>2, RankFollowsOrder
<1>4. \A k \in D : \E i \in D : Rank(seq, i) = k
  <2>1. rank \in Injection(D, D)
    BY <1>2, <1>3, Fun_IsInj
  <2>2. rank \in Surjection(D, D)
    BY <1>1, <2>1, CountUpTo, FS_Injection
  <2> QED
    BY <2>2, Fun_SurjectionProperties
<1>5. \A k \in D : p[k] \in D /\ Rank(seq, p[k]) = k
  BY <1>4
<1>6. \A i \in D : p[Rank(seq, i)] = i
  BY <1>2, <1>3, <1>5
<1>7. \A k, l \in D : k < l => NotAfter(seq, p[k], p[l]) /\ p[k] # p[l]
  <2> SUFFICES ASSUME NEW k \in D, NEW l \in D, k < l
               PROVE  NotAfter(seq, p[k], p[l]) /\ p[k] # p[l]
    OBVIOUS
  <2>1. p[k] \in D /\ p[l] \in D /\ Rank(seq, p[k]) = k /\ Rank(seq, p[l]) = l
    BY <1>5
  <2>2. k \in Nat /\ l \in Nat /\ k # l
    BY <1>1
  <2>3. p[k] # p[l]
    BY <2>1, <2>2
  <2> HIDE DEF p
  <2>4. NotAfter(seq, p[k], p[l]) \/ NotAfter(seq, p[l], p[k])
    BY <2>1, <2>3, RankFollowsOrder
  <2>5. NotAfter(seq, p[l], p[k]) => Rank(seq, p[l]) < Rank(seq, p[k])
    BY <2>1, <2>3, RankFollowsOrder
  <2> QED
    BY <2>1, <2>2, <2>3, <2>4, <2>5
<1>8. p \in [D -> D]
  BY <1>5
<1>9. \A i \in D : \E k \in D : p[k] = i
  BY <1>2, <1>6
<1>10. Sorts(p, seq)
  <2> HIDE DEF p
  <2> QED
    BY <1>7, <1>8, <1>9 DEF Sorts
<1>11. StableSort(seq) = [k \in DOMAIN seq |-> seq[p[k]]]
  BY DEF StableSort
<1> QED
  BY <1>10, <1>11

\* What a sort keeps, and what it brings about.
LEMMA SortResult ==
    ASSUME NEW seq \in Seq(Subs)
    PROVE  /\ StableSort(seq) \in Seq(Subs)
           /\ DOMAIN StableSort(seq) = DOMAIN seq /\ Len(StableSort(seq)) = Len(seq)
           /\ ToSet(StableSort(seq)) = ToSet(seq)
           /\ IsInjective(seq) => IsInjective(StableSort(seq))
           /\ InOrder(StableSort(seq))
<1>1. PICK p : Sorts(p, seq) /\ StableSort(seq) = [k \in DOMAIN seq |-> seq[p[k]]]
  BY SortedBy
<1>2. Len(seq) \in Nat /\ DOMAIN seq = 1..Len(seq)
      /\ \A i \in DOMAIN seq : seq[i] \in Subs /\ OrderOf[seq[i]] \in Nat
  BY SubsAreOrdered
<1>3. StableSort(seq) \in [1..Len(seq) -> Subs]
  BY <1>1, <1>2 DEF Sorts
<1>4. StableSort(seq) \in Seq(Subs) /\ Len(StableSort(seq)) = Len(seq)
  BY <1>2, <1>3
<1>5. ToSet(StableSort(seq)) = ToSet(seq)
  BY <1>1 DEF Sorts, ToSet
<1>6. ASSUME IsInjective(seq) PROVE IsInjective(StableSort(seq))
  <2> SUFFICES ASSUME NEW a \in DOMAIN seq, NEW b \in DOMAIN seq,
                      seq[p[a]] = seq[p[b]]
               PROVE  a = b
    BY <1>1 DEF IsInjective
  <2>1. p[a] = p[b]
    BY <1>1, <1>6 DEF IsInjective, Sorts
  <2> QED
    BY <1>1, <1>2, <2>1 DEF Sorts
<1>7. InOrder(StableSort(seq))
  <2>1. \A k, l \in DOMAIN seq : k < l => OrderOf[seq[p[k]]] <= OrderOf[seq[p[l]]]
    <3> SUFFICES ASSUME NEW k \in DOMAIN seq, NEW l \in DOMAIN seq, k < l
                 PROVE  OrderOf[seq[p[k]]] <= OrderOf[seq[p[l]]]
      OBVIOUS
    <3>1. NotAfter(seq, p[k], p[l]) /\ p[k] \in DOMAIN seq /\ p[l] \in DOMAIN seq
      BY <1>1 DEF Sorts
    <3> QED
      BY <3>1, <1>2 DEF NotAfter
  <2> QED
    BY <1>1, <2>1 DEF InOrder
<1> QED
  BY <1>1, <1>3, <1>4, <1>5, <1>6, <1>7

LEMMA SortedStays ==
    ASSUME NEW seq \in Seq(Subs), InOrder(seq)
    PROVE  StableSort(seq) = seq
<1>1. Len(seq) \in Nat /\ DOMAIN seq = 1..Len(seq)
      /\ \A i \in DOMAIN seq : seq[i] \in Subs /\ OrderOf[seq[i]] \in Nat
  BY SubsAreOrdered
<1>2. \A i \in DOMAIN seq : Rank(seq, i) = i
  <2> SUFFICES ASSUME NEW i \in DOMAIN seq PROVE Rank(seq, i) = i
    OBVIOUS
  <2>1. {j \in DOMAIN seq : NotAfter(seq, j, i)} = 1..i
    BY <1>1 DEF NotAfter, InOrder
  <2> QED
    <3>1. i \in Nat
      BY <1>1
    <3> QED
      BY <3>1, <2>1, CountUpTo DEF Rank
<1>3. \A k \in DOMAIN seq : (CHOOSE i \in DOMAIN seq : Rank(seq, i) = k) = k
  BY <1>2
<1>4. seq = [k \in DOMAIN seq |-> seq[k]]
  BY <1>1, LenProperties
<1> QED
  BY <1>3, <1>4 DEF StableSort

LEMMA SortIsStable ==
    ASSUME NEW seq \in Seq(Subs)
    PROVE  seq = StableSort(seq) <=> InOrder(seq)
BY SortResult, SortedStays

------------------------------------------------------------------------------
(* Sequences *)

\* A set of numbers that has a member has a least one.
LEMMA LeastOf ==
    ASSUME NEW T \in SUBSET Nat, T # {}
    PROVE  \E m \in T : \A n \in T : m <= n
<1> DEFINE R == {ss \in Nat \X Nat : ss[1] < ss[2]}
<1>1. IsWellFoundedOn(R, Nat)
  BY NatLessThanWellFounded DEF OpToRel
<1>2. \A a, b \in Nat : <<a, b>> \in R <=> a < b
  OBVIOUS
<1> HIDE DEF R
<1>3. PICK m \in T : \A n \in T : ~(<<n, m>> \in R)
  BY <1>1, WFMin
<1>4. \A n \in T : m <= n
  <2> SUFFICES ASSUME NEW n \in T PROVE m <= n
    OBVIOUS
  <2>1. n \in Nat /\ m \in Nat /\ ~(n < m)
    BY <1>2, <1>3
  <2> QED
    BY <2>1
<1> QED
  BY <1>4

\* The sequence of a finite set has its elements, each once.
LEMMA SeqOfSet ==
    ASSUME NEW S \in SUBSET Subs
    PROVE  /\ SetToSeq(S) \in Seq(Subs) /\ IsInjective(SetToSeq(S))
           /\ ToSet(SetToSeq(S)) = S
           /\ \A i \in DOMAIN SetToSeq(S) : SetToSeq(S)[i] \in S
<1> DEFINE n == Cardinality(S)
           seq == SetToSeq(S)
<1>1. IsFiniteSet(S) /\ n \in Nat /\ ExistsBijection(1..n, S)
  BY BusAssumption, FS_Subset, FS_CardinalityType
<1>2. PICK f : f \in Bijection(1..n, S)
  BY <1>1, Fun_ExistsBij
<1>3. f \in [1..n -> S] /\ IsInjective(f)
  BY <1>2 DEF Bijection, Injection
<1>4. seq \in [1..n -> S] /\ IsInjective(seq)
  BY <1>3 DEF SetToSeq
<1> HIDE DEF seq
<1>5. seq \in Injection(1..n, S)
  BY <1>4, Fun_IsInj DEF IsInjective
<1>6. seq \in Surjection(1..n, S)
  BY <1>1, <1>5, CountUpTo, FS_Injection
<1>7. ToSet(seq) = S
  <2>1. \A s \in S : \E i \in 1..n : seq[i] = s
    BY <1>6 DEF Surjection
  <2>2. DOMAIN seq = 1..n /\ \A i \in 1..n : seq[i] \in S
    BY <1>4
  <2> QED
    BY <2>1, <2>2 DEF ToSet
<1>8. seq \in Seq(Subs)
  BY <1>1, <1>4
<1> QED
  BY <1>4, <1>7, <1>8 DEF seq

------------------------------------------------------------------------------
(* The bus: types and its lock *)

Lists   == UNION {[D -> Seq(Subs)] : D \in SUBSET Types}
Passing == {"register", "appended", "sorting", "lookup", "unregister"}
Holding == {"appended", "sorting"}

BusTypes ==
    /\ lists \in Lists
    /\ \A ty \in DOMAIN lists : \A i \in DOMAIN lists[ty] : TypeOf[lists[ty][i]] = ty
    /\ ids \subseteq Subs /\ busLock \in Threads \cup {None}
    /\ sorted \in Types \cup {None}
    /\ bpc \in [Threads -> BusPCs] /\ arg \in [Threads -> Subs \cup {None}]
    /\ level \in [Threads -> Nat] /\ index \in [Threads -> Nat]
    /\ found \in [Threads -> Seq(Subs)]
    /\ touched \in [Threads -> SUBSET Types]

\* The lock is held by the thread that is between its append and the end of its
\* sort, and a list looks empty only while that thread sorts it.
BusLocked ==
    /\ \A t \in Threads : bpc[t] \in Passing => arg[t] \in Subs
    /\ \A t \in Threads : bpc[t] \in Holding => busLock = t /\ TypeOf[arg[t]] \in DOMAIN lists
    /\ \A t \in Threads : bpc[t] = "sorting" => sorted = TypeOf[arg[t]]
    /\ busLock # None => bpc[busLock] \in Holding
    /\ sorted # None => busLock # None /\ bpc[busLock] = "sorting"
    /\ \A t \in Threads : bpc[t] = "collect" => level[t] # 0 /\ index[t] # 0

\* What a step of a thread can do to the bus.
BusMove(t) ==
    \/ BusStep(t) \/ CallPost(t)
    \/ \E s \in Subs : CallRegister(t, s) \/ CallUnregister(t, s) \/ CallLookup(t, s)

LEMMA ListsAre ==
    ASSUME lists \in Lists
    PROVE  /\ DOMAIN lists \subseteq Types /\ lists \in [DOMAIN lists -> Seq(Subs)]
           /\ \A ty \in DOMAIN lists : lists[ty] \in Seq(Subs)
BY DEF Lists

LEMMA TypesOfSubs == \A s \in Subs : TypeOf[s] \in Types
BY BusAssumption

\* What becomes of a sequence when the first s is taken out of it.
LEMMA Removal ==
    ASSUME NEW S, NEW seq \in Seq(S), NEW s
    PROVE  /\ RemoveFirst(seq, s) \in Seq(S)
           /\ s \notin ToSet(seq) => RemoveFirst(seq, s) = seq
           /\ s \in ToSet(seq) =>
                \E n \in 1..Len(seq) :
                  /\ seq[n] = s /\ Len(RemoveFirst(seq, s)) = Len(seq) - 1
                  /\ \A i \in 1..(Len(seq) - 1) :
                       RemoveFirst(seq, s)[i] = IF i < n THEN seq[i] ELSE seq[i + 1]
<1>0. Len(seq) \in Nat /\ DOMAIN seq = 1..Len(seq)
      /\ \A i \in 1..Len(seq) : seq[i] \in S
  BY LenProperties, ElementOfSeq
<1>1. CASE s \notin ToSet(seq)
  BY <1>0, <1>1 DEF RemoveFirst, ToSet
<1>2. CASE s \in ToSet(seq)
  <2> DEFINE I == {i \in 1..Len(seq) : seq[i] = s}
             n == SelectInSeq(seq, LAMBDA v : v = s)
             left == SubSeq(seq, 1, n - 1)
             right == SubSeq(seq, n + 1, Len(seq))
  <2>1. \E m \in I : \A i \in I : m <= i
    <3>1. I \in SUBSET Nat /\ I # {}
      BY <1>0, <1>2 DEF ToSet
    <3> QED
      BY <3>1, LeastOf
  <2>2. n \in I
    BY <1>0, <2>1 DEF SelectInSeq, Min
  <2>3. RemoveFirst(seq, s) = left \o right
    BY <1>0, <2>2 DEF RemoveFirst, RemoveAt
  <2> HIDE DEF n
  <2>4. /\ left \in Seq(S) /\ Len(left) = n - 1
        /\ \A i \in 1..(n - 1) : left[i] = seq[i]
    BY <1>0, <2>2, SubSeqProperties
  <2>5. /\ right \in Seq(S) /\ Len(right) = Len(seq) - n
        /\ \A i \in 1..(Len(seq) - n) : right[i] = seq[n + i]
    <3>1. n + 1 \in Int /\ Len(seq) \in Int /\ \A i \in (n + 1)..Len(seq) : seq[i] \in S
      BY <1>0, <2>2
    <3>2. /\ right \in Seq(S)
          /\ Len(right) = IF n + 1 <= Len(seq) THEN Len(seq) - (n + 1) + 1 ELSE 0
          /\ \A i \in 1..(Len(seq) - (n + 1) + 1) : right[i] = seq[(n + 1) + i - 1]
      BY <3>1, SubSeqProperties
    <3> HIDE DEF right
    <3>3. Len(right) = Len(seq) - n
      <4>1. n \in Nat /\ Len(seq) \in Nat /\ n <= Len(seq)
        BY <1>0, <2>2
      <4>2. Len(right) = IF n + 1 <= Len(seq) THEN Len(seq) - (n + 1) + 1 ELSE 0
        BY <3>2
      <4>3. CASE n + 1 <= Len(seq)
        BY <4>1, <4>2, <4>3
      <4>4. CASE ~(n + 1 <= Len(seq))
        BY <4>1, <4>2, <4>4
      <4> QED
        BY <4>3, <4>4
    <3>4. \A i \in 1..(Len(seq) - n) :
            i \in 1..(Len(seq) - (n + 1) + 1) /\ (n + 1) + i - 1 = n + i
      BY <1>0, <2>2
    <3> QED
      BY <3>2, <3>3, <3>4
  <2> HIDE DEF left, right
  <2>6. /\ left \o right \in Seq(S) /\ Len(left \o right) = Len(left) + Len(right)
        /\ \A i \in 1..(Len(left) + Len(right)) :
             (left \o right)[i] = IF i <= Len(left) THEN left[i] ELSE right[i - Len(left)]
    BY <2>4, <2>5, ConcatProperties
  <2>7. Len(left \o right) = Len(seq) - 1
    BY <1>0, <2>2, <2>4, <2>5, <2>6
  <2>8. \A i \in 1..(Len(seq) - 1) :
          (left \o right)[i] = IF i < n THEN seq[i] ELSE seq[i + 1]
    <3> SUFFICES ASSUME NEW i \in 1..(Len(seq) - 1)
                 PROVE  (left \o right)[i] = IF i < n THEN seq[i] ELSE seq[i + 1]
      OBVIOUS
    <3>1. CASE i < n
      BY <1>0, <2>2, <2>4, <2>5, <2>6, <3>1
    <3>2. CASE ~(i < n)
      <4>1. i - Len(left) \in 1..(Len(seq) - n) /\ n + (i - Len(left)) = i + 1
        BY <1>0, <2>2, <2>4, <3>2
      <4>2. right[i - Len(left)] = seq[n + (i - Len(left))]
        BY <2>5, <4>1
      <4> QED
        BY <1>0, <2>2, <2>4, <2>5, <2>6, <3>2, <4>1, <4>2
    <3> QED
      BY <3>1, <3>2
  <2> QED
    BY <1>2, <2>2, <2>3, <2>6, <2>7, <2>8
<1> QED
  BY <1>1, <1>2

LEMMA RemovalKeepsType ==
    ASSUME NEW seq \in Seq(Subs), NEW s, NEW ty,
           \A i \in DOMAIN seq : TypeOf[seq[i]] = ty
    PROVE  /\ RemoveFirst(seq, s) \in Seq(Subs)
           /\ \A i \in DOMAIN RemoveFirst(seq, s) : TypeOf[RemoveFirst(seq, s)[i]] = ty
<1> DEFINE rest == RemoveFirst(seq, s)
<1>1. Len(seq) \in Nat /\ DOMAIN seq = 1..Len(seq)
  BY LenProperties
<1>2. rest \in Seq(Subs) /\ DOMAIN rest = 1..Len(rest)
  BY Removal, LenProperties
<1>3. CASE s \in ToSet(seq)
  <2>1. PICK n \in 1..Len(seq) :
          /\ seq[n] = s /\ Len(rest) = Len(seq) - 1
          /\ \A i \in 1..(Len(seq) - 1) : rest[i] = IF i < n THEN seq[i] ELSE seq[i + 1]
    BY <1>3, Removal
  <2> HIDE DEF rest
  <2>2. \A i \in 1..(Len(seq) - 1) : i \in DOMAIN seq /\ i + 1 \in DOMAIN seq
    BY <1>1
  <2>3. \A i \in DOMAIN rest : TypeOf[rest[i]] = ty
    BY <1>2, <2>1, <2>2
  <2> QED
    BY <1>2, <2>3 DEF rest
<1>4. CASE s \notin ToSet(seq)
  BY <1>2, <1>4, Removal
<1> QED
  BY <1>3, <1>4

\* The list of one type becomes `list`, and it may be the first.
Becomes(ty, list) ==
    /\ DOMAIN lists' = DOMAIN lists \cup {ty} /\ lists'[ty] = list
    /\ \A other \in DOMAIN lists \ {ty} : lists'[other] = lists[other]
    /\ lists' = [x \in DOMAIN lists \cup {ty} |-> IF x = ty THEN list ELSE lists[x]]

\* What a step of the bus does to its lists.
LEMMA ListSteps ==
    ASSUME BusTypes, BusLocked, NEW t \in Threads, BusMove(t)
    PROVE  \/ UNCHANGED lists /\ ~FirstOfType(t) /\ ~AppendToList(t) /\ ~SortEnds(t)
           \/ FirstOfType(t) /\ Becomes(TypeOf[arg[t]], <<arg[t]>>)
           \/ AppendToList(t) /\ Becomes(TypeOf[arg[t]], Append(lists[TypeOf[arg[t]]], arg[t]))
           \/ SortEnds(t) /\ Becomes(TypeOf[arg[t]], StableSort(lists[TypeOf[arg[t]]]))
           \/ /\ RemoveFromList(t) /\ TypeOf[arg[t]] \in DOMAIN lists
              /\ Becomes(TypeOf[arg[t]], RemoveFirst(lists[TypeOf[arg[t]]], arg[t]))
<1> DEFINE ty == TypeOf[arg[t]]
<1>0. lists \in [DOMAIN lists -> Seq(Subs)]
  BY ListsAre DEF BusTypes
<1>1. CASE FirstOfType(t)
  <2>1. lists' = [x \in DOMAIN lists \cup {ty} |-> IF x = ty THEN <<arg[t]>> ELSE lists[x]]
    BY <1>1 DEF FirstOfType
  <2> QED
    BY <1>1, <2>1 DEF Becomes
<1>2. CASE AppendToList(t)
  <2>1. ty \in DOMAIN lists /\ lists' = [lists EXCEPT ![ty] = Append(lists[ty], arg[t])]
    BY <1>2 DEF AppendToList
  <2> QED
    BY <1>0, <1>2, <2>1 DEF Becomes
<1>3. CASE SortEnds(t)
  <2>1. ty \in DOMAIN lists /\ lists' = [lists EXCEPT ![ty] = StableSort(lists[ty])]
    BY <1>3 DEF SortEnds, BusLocked, Holding
  <2> QED
    BY <1>0, <1>3, <2>1 DEF Becomes
<1>4. CASE RemoveFromList(t) /\ arg[t] \in ToSet(ListOf(ty))
  <2>1. ty \in DOMAIN lists
    BY <1>4 DEF ListOf, ToSet
  <2>2. lists' = [lists EXCEPT ![ty] = RemoveFirst(lists[ty], arg[t])]
    BY <1>4 DEF RemoveFromList
  <2> QED
    BY <1>0, <1>4, <2>1, <2>2 DEF Becomes
<1>5. CASE BusMove(t) /\ ~FirstOfType(t) /\ ~AppendToList(t) /\ ~SortEnds(t)
           /\ ~(RemoveFromList(t) /\ arg[t] \in ToSet(ListOf(ty)))
  BY <1>5 DEF BusMove, BusStep, SortBegins, RemoveFromList, Lookup, Collect, Collected, Deliver,
              CallPost, CallRegister, CallUnregister, CallLookup
<1> QED
  BY <1>1, <1>2, <1>3, <1>4, <1>5

\* The lists stay lists of subscriptions of their type.
LEMMA ListsKept ==
    ASSUME BusTypes, BusLocked, NEW t \in Threads, BusMove(t)
    PROVE  /\ lists' \in Lists /\ DOMAIN lists \subseteq DOMAIN lists'
           /\ \A ty \in DOMAIN lists' : \A i \in DOMAIN lists'[ty] : TypeOf[lists'[ty][i]] = ty
<1> DEFINE s == arg[t]
           ty == TypeOf[s]
<1>0. /\ DOMAIN lists \subseteq Types /\ lists \in [DOMAIN lists -> Seq(Subs)]
      /\ \A x \in DOMAIN lists : lists[x] \in Seq(Subs)
      /\ \A x \in DOMAIN lists : \A i \in DOMAIN lists[x] : TypeOf[lists[x][i]] = x
  BY ListsAre DEF BusTypes
<1>1. ASSUME NEW list \in Seq(Subs), Becomes(ty, list), s \in Subs,
             \A i \in DOMAIN list : TypeOf[list[i]] = ty
      PROVE  /\ lists' \in Lists /\ DOMAIN lists \subseteq DOMAIN lists'
             /\ \A x \in DOMAIN lists' : \A i \in DOMAIN lists'[x] : TypeOf[lists'[x][i]] = x
  <2>1. DOMAIN lists \cup {ty} \in SUBSET Types
    BY <1>0, <1>1, TypesOfSubs
  <2>2. lists' \in [DOMAIN lists \cup {ty} -> Seq(Subs)]
    BY <1>0, <1>1 DEF Becomes
  <2> QED
    <3>1. lists' \in Lists
      BY <2>1, <2>2 DEF Lists
    <3> QED
      BY <1>0, <1>1, <3>1 DEF Becomes
<1>2. CASE FirstOfType(t) /\ Becomes(ty, <<s>>)
  <2>1. s \in Subs
    BY <1>2 DEF FirstOfType, BusLocked, Passing
  <2>2. <<s>> \in Seq(Subs) /\ \A i \in DOMAIN <<s>> : TypeOf[<<s>>[i]] = ty
    BY <2>1
  <2> QED
    BY <1>1, <1>2, <2>1, <2>2
<1>3. CASE AppendToList(t) /\ Becomes(ty, Append(lists[ty], s))
  <2>1. s \in Subs /\ ty \in DOMAIN lists
    BY <1>3 DEF AppendToList, BusLocked, Passing
  <2>2. lists[ty] \in Seq(Subs) /\ \A i \in DOMAIN lists[ty] : TypeOf[lists[ty][i]] = ty
    BY <1>0, <2>1
  <2>3. Append(lists[ty], s) \in Seq(Subs)
        /\ \A i \in DOMAIN Append(lists[ty], s) : TypeOf[Append(lists[ty], s)[i]] = ty
    BY <2>1, <2>2, AppendProperties
  <2> QED
    BY <1>1, <1>3, <2>1, <2>3
<1>4. CASE SortEnds(t) /\ Becomes(ty, StableSort(lists[ty]))
  <2>1. s \in Subs /\ ty \in DOMAIN lists
    BY <1>4 DEF SortEnds, BusLocked, Passing, Holding
  <2>2. lists[ty] \in Seq(Subs) /\ \A i \in DOMAIN lists[ty] : TypeOf[lists[ty][i]] = ty
    BY <1>0, <2>1
  <2>3. StableSort(lists[ty]) \in Seq(Subs)
        /\ \A i \in DOMAIN StableSort(lists[ty]) : TypeOf[StableSort(lists[ty])[i]] = ty
    <3>1. ToSet(StableSort(lists[ty])) = ToSet(lists[ty])
      BY <2>2, SortResult
    <3> QED
      BY <2>2, <3>1, SortResult DEF ToSet
  <2> QED
    BY <1>1, <1>4, <2>1, <2>3
<1>5. CASE RemoveFromList(t) /\ ty \in DOMAIN lists /\ Becomes(ty, RemoveFirst(lists[ty], s))
  <2>1. s \in Subs
    BY <1>5 DEF RemoveFromList, BusLocked, Passing
  <2>2. lists[ty] \in Seq(Subs) /\ \A i \in DOMAIN lists[ty] : TypeOf[lists[ty][i]] = ty
        /\ DOMAIN lists[ty] = 1..Len(lists[ty]) /\ Len(lists[ty]) \in Nat
    BY <1>0, <1>5, LenProperties
  <2>3. RemoveFirst(lists[ty], s) \in Seq(Subs)
        /\ \A i \in DOMAIN RemoveFirst(lists[ty], s) : TypeOf[RemoveFirst(lists[ty], s)[i]] = ty
    BY <2>2, RemovalKeepsType
  <2> QED
    BY <1>1, <1>5, <2>1, <2>3
<1>6. CASE UNCHANGED lists
  BY <1>6 DEF BusTypes
<1> QED
  BY <1>2, <1>3, <1>4, <1>5, <1>6, ListSteps

LEMMA VisibleIs ==
    ASSUME BusTypes, NEW ty
    PROVE  Visible(ty) \in Seq(Subs) /\ ListOf(ty) \in Seq(Subs)
BY ListsAre DEF BusTypes, Visible, ListOf

LEMMA Touches ==
    ASSUME BusTypes, NEW ty \in Types, Touch(ty)
    PROVE  /\ touched' \in [Threads -> SUBSET Types]
           /\ \A t \in Threads : touched[t] \subseteq touched'[t]
                                 /\ (bpc[t] = "collect" => ty \in touched'[t])
BY DEF BusTypes, Touch

LEMMA BusTypesKept ==
    ASSUME BusTypes, BusLocked, NEW t \in Threads, BusMove(t)
    PROVE  BusTypes'
<1> DEFINE s == arg[t]
           Others == /\ ids' \subseteq Subs /\ busLock' \in Threads \cup {None}
                     /\ sorted' \in Types \cup {None}
                     /\ bpc' \in [Threads -> BusPCs] /\ arg' \in [Threads -> Subs \cup {None}]
                     /\ level' \in [Threads -> Nat] /\ index' \in [Threads -> Nat]
                     /\ found' \in [Threads -> Seq(Subs)]
                     /\ touched' \in [Threads -> SUBSET Types]
<1> USE DEF BusPCs
<1>1. CASE FirstOfType(t) \/ AppendToList(t) \/ SortBegins(t) \/ SortEnds(t)
           \/ RemoveFromList(t)
  <2>1. s \in Subs /\ TypeOf[s] \in Types
    BY <1>1, TypesOfSubs DEF FirstOfType, AppendToList, SortBegins, SortEnds, RemoveFromList, Lookup,
                             BusLocked, Passing
  <2>2. touched' \in [Threads -> SUBSET Types]
    BY <1>1, <2>1, Touches DEF FirstOfType, AppendToList, SortBegins, SortEnds,
                               RemoveFromList, Lookup, BusTypes
  <2> QED
    BY <1>1, <2>1, <2>2, ListsKept DEF BusTypes, FirstOfType, AppendToList, SortBegins,
                                      SortEnds, RemoveFromList, Lookup, Bus
<1>2. CASE Collect(t)
  <2> DEFINE list == Visible(Mro[level[t]])
  <2>1. list \in Seq(Subs)
    BY VisibleIs
  <2>2. index[t] <= Len(list) => Append(found[t], list[index[t]]) \in Seq(Subs)
    <3> SUFFICES ASSUME index[t] <= Len(list)
                 PROVE  Append(found[t], list[index[t]]) \in Seq(Subs)
      OBVIOUS
    <3>1. index[t] \in 1..Len(list)
      BY <1>2, <2>1, LenProperties DEF BusTypes, BusLocked, Collect
    <3>2. list[index[t]] \in Subs
      BY <2>1, <3>1, ElementOfSeq
    <3> QED
      BY <3>2, AppendProperties DEF BusTypes
  <2>3. found' \in [Threads -> Seq(Subs)]
    BY <1>2, <2>2 DEF BusTypes, Collect
  <2>4. level' \in [Threads -> Nat] /\ index' \in [Threads -> Nat]
    <3> level[t] + 1 \in Nat /\ index[t] + 1 \in Nat
      BY DEF BusTypes
    <3>1. CASE index[t] <= Len(list)
      BY <1>2, <3>1 DEF BusTypes, Collect
    <3>2. CASE ~(index[t] <= Len(list))
      <4>1. level' = [level EXCEPT ![t] = level[t] + 1] /\ index' = [index EXCEPT ![t] = 1]
        BY <1>2, <3>2 DEF Collect
      <4> QED
        BY <4>1 DEF BusTypes
    <3> QED
      BY <3>1, <3>2
  <2> QED
    BY <1>2, <2>3, <2>4, ListsKept DEF BusTypes, Collect
<1>3. CASE Collected(t)
  <2>1. StableSort(found[t]) \in Seq(Subs)
    BY SortResult DEF BusTypes
  <2> QED
    BY <1>3, <2>1, ListsKept DEF BusTypes, Collected, Bus
<1>4. CASE Deliver(t)
  <2>1. found[t] # <<>> => Tail(found[t]) \in Seq(Subs)
    BY HeadTailProperties DEF BusTypes
  <2>2. <<>> \in Seq(Subs)
    BY EmptySeq
  <2>3. found' \in [Threads -> Seq(Subs)]
    BY <1>4, <2>1, <2>2 DEF BusTypes, Deliver
  <2>4. touched' \in [Threads -> SUBSET Types] /\ bpc' \in [Threads -> BusPCs]
    BY <1>4 DEF BusTypes, Deliver, Bus
  <2>5. UNCHANGED <<ids, busLock, sorted, arg, level, index>>
    BY <1>4 DEF Deliver
  <2>6. Others
    BY <2>3, <2>4, <2>5 DEF BusTypes
  <2> QED
    BY <2>6, ListsKept DEF BusTypes
<1>5. CASE CallPost(t)
  <2>1. <<>> \in Seq(Subs)
    BY EmptySeq
  <2> QED
    BY <1>5, <2>1, ListsKept DEF BusTypes, CallPost, Bus
<1>6. CASE \E x \in Subs : CallRegister(t, x) \/ CallUnregister(t, x) \/ CallLookup(t, x)
  <2> PICK x \in Subs : CallRegister(t, x) \/ CallUnregister(t, x) \/ CallLookup(t, x)
    BY <1>6
  <2>1. /\ UNCHANGED <<ids, busLock, sorted, level, index, found, touched>>
        /\ arg' = [arg EXCEPT ![t] = x]
        /\ \E label \in {"register", "unregister", "lookup"} :
             bpc' = [bpc EXCEPT ![t] = label]
    BY DEF CallRegister, CallUnregister, CallLookup, Bus
  <2>2. Others
    BY <2>1 DEF BusTypes
  <2> QED
    BY <2>2, ListsKept DEF BusTypes
<1>7. CASE Lookup(t)
  <2>1. /\ UNCHANGED <<ids, busLock, sorted, level, index, found, touched>>
        /\ \E label \in {"idle", "unregister"} : bpc' = [bpc EXCEPT ![t] = label]
        /\ arg' = arg \/ arg' = [arg EXCEPT ![t] = None]
    BY <1>7 DEF Lookup, Bus
  <2>2. Others
    BY <2>1 DEF BusTypes
  <2> QED
    BY <2>2, ListsKept DEF BusTypes
<1> QED
  BY <1>1, <1>2, <1>3, <1>4, <1>5, <1>6, <1>7 DEF BusMove, BusStep

\* A thread that does not hold the lock moves, and does not take it.
LEMMA LockedElsewhere ==
    ASSUME BusTypes, BusLocked, NEW t \in Threads,
           bpc[t] \notin Holding, bpc'[t] \notin Holding,
           \A u \in Threads \ {t} : bpc'[u] = bpc[u] /\ arg'[u] = arg[u]
                                    /\ level'[u] = level[u] /\ index'[u] = index[u],
           bpc'[t] \in Passing => arg'[t] \in Subs,
           bpc'[t] = "collect" => level'[t] # 0 /\ index'[t] # 0,
           UNCHANGED <<busLock, sorted>>, DOMAIN lists \subseteq DOMAIN lists'
    PROVE  BusLocked'
<1>1. \A u \in Threads : bpc'[u] \in Holding \/ bpc'[u] = "sorting" => u # t
  BY DEF Holding
<1>2. busLock \in Threads \cup {None} /\ busLock # t /\ None \notin Threads
  BY BusAssumption DEF BusTypes, BusLocked, Holding
<1>3. \A u \in Threads : bpc'[u] \in Passing => arg'[u] \in Subs
  BY DEF BusLocked
<1>4. \A u \in Threads : bpc'[u] \in Holding =>
        busLock' = u /\ TypeOf[arg'[u]] \in DOMAIN lists'
  BY <1>1 DEF BusLocked
<1>5. \A u \in Threads : bpc'[u] = "sorting" => sorted' = TypeOf[arg'[u]]
  BY <1>1 DEF BusLocked
<1>6. /\ busLock' # None => bpc'[busLock'] \in Holding
      /\ sorted' # None => busLock' # None /\ bpc'[busLock'] = "sorting"
  BY <1>2 DEF BusLocked
<1>7. \A u \in Threads : bpc'[u] = "collect" => level'[u] # 0 /\ index'[u] # 0
  BY DEF BusLocked
<1> QED
  BY <1>3, <1>4, <1>5, <1>6, <1>7 DEF BusLocked

LEMMA BusLockedKept ==
    ASSUME BusTypes, BusLocked, NEW t \in Threads, BusMove(t)
    PROVE  BusLocked'
<1> USE DEF Passing, Holding, BusPCs
<1>0. None \notin Threads /\ None \notin Subs /\ None \notin Types
  BY BusAssumption
<1>1. DOMAIN lists \subseteq DOMAIN lists'
  BY ListsKept
<1>2. CASE FirstOfType(t)
  BY <1>0, <1>1, <1>2 DEF FirstOfType, BusLocked, BusTypes, Bus
<1>3. CASE AppendToList(t)
  BY <1>0, <1>1, <1>3 DEF AppendToList, BusLocked, BusTypes, Bus
<1>4. CASE SortBegins(t)
  BY <1>0, <1>1, <1>4, TypesOfSubs DEF SortBegins, BusLocked, BusTypes, Bus
<1>5. CASE SortEnds(t)
  BY <1>0, <1>1, <1>5 DEF SortEnds, BusLocked, BusTypes, Bus
<1>6. CASE RemoveFromList(t)
  BY <1>0, <1>1, <1>6 DEF RemoveFromList, BusLocked, BusTypes, Bus
<1>7. CASE Collect(t) \/ Collected(t) \/ Deliver(t) \/ CallPost(t)
  <2>1. /\ bpc' \in [Threads -> BusPCs] /\ bpc'[t] \in {"idle", "collect", "deliver"}
        /\ bpc[t] \in {"idle", "collect", "deliver"} /\ UNCHANGED <<busLock, sorted>>
        /\ \A u \in Threads \ {t} : bpc'[u] = bpc[u] /\ arg'[u] = arg[u]
    BY <1>7 DEF Collect, Collected, Deliver, CallPost, BusTypes, Bus
  <2>2. /\ \A u \in Threads \ {t} : level'[u] = level[u] /\ index'[u] = index[u]
        /\ bpc'[t] = "collect" => level'[t] # 0 /\ index'[t] # 0
    <3>1. CASE Collect(t)
      BY <3>1 DEF Collect, BusTypes, BusLocked
    <3>2. CASE Collected(t)
      BY <3>2 DEF Collected, BusTypes, BusLocked, Bus
    <3>3. CASE Deliver(t) \/ CallPost(t)
      BY <3>3 DEF Deliver, CallPost, BusTypes, BusLocked, Bus
    <3> QED
      BY <1>7, <3>1, <3>2, <3>3
  <2> QED
    BY <1>1, <2>1, <2>2, LockedElsewhere
<1>8. CASE \E x \in Subs : CallRegister(t, x) \/ CallUnregister(t, x) \/ CallLookup(t, x)
  <2>1. PICK x \in Subs : CallRegister(t, x) \/ CallUnregister(t, x) \/ CallLookup(t, x)
    BY <1>8
  <2>2. /\ bpc[t] = "idle" /\ bpc' \in [Threads -> BusPCs] /\ arg'[t] \in Subs
        /\ bpc'[t] \notin Holding /\ bpc'[t] # "collect"
        /\ \A u \in Threads \ {t} : bpc'[u] = bpc[u] /\ arg'[u] = arg[u]
        /\ UNCHANGED <<busLock, sorted>> /\ UNCHANGED level /\ UNCHANGED index
    BY <2>1 DEF CallRegister, CallUnregister, CallLookup, Bus, BusTypes
  <2> QED
    BY <1>1, <2>2, LockedElsewhere
<1>9. CASE Lookup(t)
  <2>1. /\ bpc[t] = "lookup" /\ bpc' \in [Threads -> BusPCs]
        /\ bpc'[t] = "idle" \/ (bpc'[t] = "unregister" /\ arg'[t] \in Subs)
        /\ \A u \in Threads \ {t} : bpc'[u] = bpc[u] /\ arg'[u] = arg[u]
        /\ UNCHANGED <<busLock, sorted>> /\ UNCHANGED level /\ UNCHANGED index
    BY <1>9 DEF Lookup, Bus, BusTypes
  <2> QED
    BY <1>1, <2>1, LockedElsewhere
<1> QED
  BY <1>2, <1>3, <1>4, <1>5, <1>6, <1>7, <1>8, <1>9 DEF BusMove, BusStep

------------------------------------------------------------------------------
(* The bundle: types, and the steps it takes on the bus *)

AtWork  == {"adding", "added", "removing", "removed"}
Inside  == {"registerNext", "unregisterNext", "added", "removed"}

BundleTypes ==
    /\ upc \in [Threads -> BundlePCs] /\ item \in [Threads -> Own \cup {None}]
    /\ subscriptions \subseteq Own /\ withId \subseteq Own
    /\ registered \in BOOLEAN /\ bundleLock \in Threads \cup {None}
    /\ todo \in [Threads -> SUBSET Own]
    /\ \A t \in Threads : upc[t] \in AtWork => item[t] \in Own

Typed == BusTypes /\ BusLocked /\ BundleTypes

LEMMA BusMoves ==
    ASSUME BundleTypes, NEW t \in Threads, Call(t) \/ Step(t)
    PROVE  UNCHANGED busVars \/ BusMove(t)
<1>0. Own \subseteq Subs /\ todo[t] \subseteq Own
  BY BundleAssumption DEF BundleTypes
<1>1. CASE Call(t)
  BY <1>0, <1>1 DEF Call, CallRegisterAll, CallUnregisterAll, CallAdd, CallRemove,
                    CallUnregisterId, BusMove
<1>2. CASE RegisterNext(t)
  BY <1>0, <1>2 DEF RegisterNext, BusMove
<1>3. CASE UnregisterNext(t)
  BY <1>0, <1>3 DEF UnregisterNext, BusMove
<1>4. CASE Add(t) \/ RemoveOwn(t)
  <2>1. item[t] \in Subs
    BY <1>0, <1>4 DEF Add, RemoveOwn, BundleTypes, AtWork
  <2> QED
    BY <1>4, <2>1 DEF Add, RemoveOwn, CallUnregisterId, BusMove
<1>5. CASE BusStep(t) \/ RegisterBegins(t) \/ UnregisterBegins(t) \/ Added(t)
           \/ RemoveFails(t) \/ Removed(t)
  BY <1>5 DEF BusMove, RegisterBegins, UnregisterBegins, Added, RemoveFails, Removed
<1> QED
  BY <1>1, <1>2, <1>3, <1>4, <1>5 DEF Step, BundleStep

LEMMA BundleTypesKept ==
    ASSUME BundleTypes, NEW t \in Threads, Call(t) \/ Step(t)
    PROVE  BundleTypes'
<1> USE DEF BundlePCs, AtWork, Goto, Leave, Lock
<1>1. CASE CallRegisterAll(t) \/ CallUnregisterAll(t)
  BY <1>1 DEF CallRegisterAll, CallUnregisterAll, BundleTypes
<1>2. CASE CallAdd(t)
  BY <1>2 DEF CallAdd, BundleTypes
<1>3. CASE CallRemove(t)
  BY <1>3 DEF CallRemove, BundleTypes
<1>4. CASE RegisterBegins(t) \/ UnregisterBegins(t)
  BY <1>4 DEF RegisterBegins, UnregisterBegins, BundleTypes
<1>5. CASE RegisterNext(t)
  <2>1. CASE todo[t] = {}
    BY <1>5, <2>1 DEF RegisterNext, BundleTypes
  <2>2. CASE todo[t] # {}
    <3> PICK s \in todo[t] : /\ todo' = [todo EXCEPT ![t] = todo[t] \ {s}]
                             /\ withId' = withId \cup {s}
                             /\ UNCHANGED <<bundleLock, upc, item>>
      BY <1>5, <2>2 DEF RegisterNext
    <3> QED
      BY <1>5 DEF RegisterNext, BundleTypes
  <2> QED
    BY <2>1, <2>2
<1>6. CASE UnregisterNext(t)
  <2>1. CASE todo[t] = {}
    BY <1>6, <2>1 DEF UnregisterNext, BundleTypes
  <2>2. CASE todo[t] # {}
    <3> PICK s \in todo[t] : /\ todo' = [todo EXCEPT ![t] = todo[t] \ {s}]
                             /\ withId' = withId \ {s}
                             /\ UNCHANGED <<bundleLock, upc, item>>
      BY <1>6, <2>2 DEF UnregisterNext
    <3> QED
      BY <1>6 DEF UnregisterNext, BundleTypes
  <2> QED
    BY <2>1, <2>2
<1>7. CASE Add(t) \/ Added(t)
  BY <1>7 DEF Add, Added, BundleTypes
<1>8. CASE RemoveFails(t) \/ RemoveOwn(t) \/ Removed(t)
  BY <1>8 DEF RemoveFails, RemoveOwn, Removed, BundleTypes
<1>9. CASE UNCHANGED <<subscriptions, withId, registered, bundleLock, upc, item, todo>>
  BY <1>9 DEF BundleTypes
<1> QED
  BY <1>1, <1>2, <1>3, <1>4, <1>5, <1>6, <1>7, <1>8, <1>9
     DEF Call, Step, BundleStep, bundleVars

LEMMA TypedInit == Init => Typed
<1> SUFFICES ASSUME Init PROVE Typed
  OBVIOUS
<1> DEFINE others(ty) == {s \in Subs \ Own : TypeOf[s] = ty}
<1>1. \A ty : /\ SetToSeq(others(ty)) \in Seq(Subs)
              /\ \A i \in DOMAIN SetToSeq(others(ty)) : TypeOf[SetToSeq(others(ty))[i]] = ty
  BY SeqOfSet
<1>2. \A ty : /\ StableSort(SetToSeq(others(ty))) \in Seq(Subs)
              /\ \A i \in DOMAIN StableSort(SetToSeq(others(ty))) :
                   TypeOf[StableSort(SetToSeq(others(ty)))[i]] = ty
  <2> SUFFICES ASSUME NEW ty
               PROVE  /\ StableSort(SetToSeq(others(ty))) \in Seq(Subs)
                      /\ \A i \in DOMAIN StableSort(SetToSeq(others(ty))) :
                           TypeOf[StableSort(SetToSeq(others(ty)))[i]] = ty
    OBVIOUS
  <2>1. SetToSeq(others(ty)) \in Seq(Subs)
        /\ \A s \in ToSet(SetToSeq(others(ty))) : TypeOf[s] = ty
    BY <1>1 DEF ToSet
  <2>2. StableSort(SetToSeq(others(ty))) \in Seq(Subs)
        /\ \A s \in ToSet(StableSort(SetToSeq(others(ty)))) : TypeOf[s] = ty
    BY <2>1, SortResult
  <2> QED
    BY <2>2 DEF ToSet
<1>3. /\ lists = [ty \in {TypeOf[s] : s \in Subs \ Own} |-> StableSort(SetToSeq(others(ty)))]
      /\ {TypeOf[s] : s \in Subs \ Own} \subseteq Types
  BY TypesOfSubs DEF Init, BusInit
<1> HIDE DEF others
<1>4. /\ lists \in Lists
      /\ \A ty \in DOMAIN lists : \A i \in DOMAIN lists[ty] : TypeOf[lists[ty][i]] = ty
  <2> DEFINE D == {TypeOf[s] : s \in Subs \ Own}
  <2>1. D \in SUBSET Types /\ lists \in [D -> Seq(Subs)] /\ DOMAIN lists = D
    BY <1>2, <1>3
  <2>2. \A ty \in D : lists[ty] = StableSort(SetToSeq(others(ty)))
    BY <1>3
  <2> HIDE DEF D
  <2>3. lists \in Lists
    BY <2>1 DEF Lists
  <2> QED
    BY <1>2, <2>1, <2>2, <2>3
<1>5. <<>> \in Seq(Subs)
  BY EmptySeq
<1>6. BusTypes
  BY <1>4, <1>5 DEF BusTypes, Init, BusInit, BusPCs
<1>7. BusLocked
  BY DEF BusLocked, Init, BusInit, Passing, Holding
<1>8. BundleTypes
  BY DEF BundleTypes, Init, BundlePCs, AtWork
<1> QED
  BY <1>6, <1>7, <1>8 DEF Typed

LEMMA TypedNext == Typed /\ [Next]_vars => Typed'
<1> SUFFICES ASSUME Typed, [Next]_vars PROVE Typed'
  OBVIOUS
<1>1. CASE UNCHANGED vars
  BY <1>1 DEF Typed, BusTypes, BusLocked, BundleTypes, vars, busVars, bundleVars
<1>2. CASE Next
  <2> PICK t \in Threads : Call(t) \/ Step(t)
    BY <1>2 DEF Next
  <2>1. BundleTypes'
    BY BundleTypesKept DEF Typed
  <2>2. CASE UNCHANGED busVars
    BY <2>1, <2>2 DEF Typed, BusTypes, BusLocked, busVars
  <2>3. CASE BusMove(t)
    BY <2>1, <2>3, BusTypesKept, BusLockedKept DEF Typed
  <2> QED
    BY <2>2, <2>3, BusMoves DEF Typed
<1> QED
  BY <1>1, <1>2

LEMMA TypedInvariant == Spec => []Typed
BY TypedInit, TypedNext, PTL DEF Spec

\* What the bus and the bundle hold is of the types they are made for, and a list
\* is hidden by its sort only while the lock of the bus is held.
THEOREM BundleTypeCorrect == Spec => []TypeOK
<1>1. Typed => TypeOK
  <2> SUFFICES ASSUME Typed PROVE TypeOK
    OBVIOUS
  <2>1. /\ DOMAIN lists \subseteq Types
        /\ \A ty \in DOMAIN lists : \A s \in ToSet(lists[ty]) : TypeOf[s] = ty
    BY ListsAre DEF Typed, BusTypes, ToSet
  <2> QED
    BY <2>1 DEF TypeOK, Typed, BusTypes, BusLocked, BundleTypes
<1> QED
  BY <1>1, TypedInvariant, PTL

------------------------------------------------------------------------------
(* Posting: what a thread has found so far *)

\* Behind the first `from` of seq stand the first n of list, and nothing else in
\* seq is of the type ty.
Stands(seq, list, n, ty, from) ==
    /\ n <= Len(list) /\ from + n <= Len(seq)
    /\ \A i \in 1..n : seq[from + i] = list[i]
    /\ \A k \in DOMAIN seq : TypeOf[seq[k]] = ty => k \in (from + 1)..(from + n)

\* How much of the list of the l-th type t has gone through.
Gone(t, l) ==
    IF l < level[t] THEN Len(ListOf(Mro[l])) ELSE IF l = level[t] THEN index[t] - 1 ELSE 0

\* The lists that nobody touched have been gone through so far, each in a row;
\* the one that is being gone through ends what has been found.
Looks(t) ==
    /\ sorted # None => sorted \in touched[t]
    /\ \A l \in 1..Len(Mro) : Mro[l] \notin touched[t] =>
         \E from \in Nat :
           /\ Stands(found[t], ListOf(Mro[l]), Gone(t, l), Mro[l], from)
           /\ l = level[t] => from + Gone(t, l) = Len(found[t])
Looking == \A t \in Threads : bpc[t] = "collect" => Looks(t)

LEMMA MroIs ==
    /\ Len(Mro) \in Nat /\ DOMAIN Mro = 1..Len(Mro)
    /\ \A l \in 1..Len(Mro) : Mro[l] \in Types
    /\ \A l, m \in 1..Len(Mro) : Mro[l] = Mro[m] => l = m
BY BusAssumption, LenProperties, ElementOfSeq DEF IsInjective

\* Whoever goes through a list finds only what is of its type.
LEMMA VisibleTypes ==
    ASSUME BusTypes, NEW ty, NEW i \in DOMAIN Visible(ty)
    PROVE  TypeOf[Visible(ty)[i]] = ty
<1>1. ty \in DOMAIN lists /\ Visible(ty) = lists[ty]
  BY DEF Visible, ListOf
<1> QED
  BY <1>1 DEF BusTypes

\* The others keep what they have found, as long as they are told what changes.
LEMMA LooksElsewhere ==
    ASSUME Typed, Typed', NEW t \in Threads, Looks(t),
           level'[t] = level[t], index'[t] = index[t], found'[t] = found[t],
           touched[t] \subseteq touched'[t],
           sorted' # None => sorted' \in touched'[t],
           \A ty \in Types : ty \notin touched'[t] => ListOf(ty)' = ListOf(ty)
    PROVE  Looks(t)'
<1>1. ASSUME NEW l \in 1..Len(Mro), Mro[l] \notin touched'[t]
      PROVE  \E from \in Nat :
               /\ Stands(found'[t], ListOf(Mro[l])', Gone(t, l)', Mro[l], from)
               /\ l = level'[t] => from + Gone(t, l)' = Len(found'[t])
  <2>1. Mro[l] \notin touched[t] /\ ListOf(Mro[l])' = ListOf(Mro[l])
    BY <1>1, MroIs
  <2>2. Gone(t, l)' = Gone(t, l)
    BY <2>1 DEF Gone
  <2> QED
    BY <2>1, <2>2 DEF Looks
<1> QED
  BY <1>1 DEF Looks, Stands

\* One more element at the end: of another type, or the next of the list.
LEMMA FindsAnother ==
    ASSUME NEW seq \in Seq(Subs), NEW list \in Seq(Subs), NEW ty, NEW n \in Nat,
           NEW from \in Nat, NEW s \in Subs, Stands(seq, list, n, ty, from),
           TypeOf[s] # ty
    PROVE  Stands(Append(seq, s), list, n, ty, from)
<1> DEFINE more == Append(seq, s)
<1>1. /\ Len(seq) \in Nat /\ DOMAIN seq = 1..Len(seq)
      /\ more \in Seq(Subs) /\ Len(more) = Len(seq) + 1
      /\ \A i \in 1..Len(seq) : more[i] = seq[i]
      /\ more[Len(seq) + 1] = s
  BY LenProperties, AppendProperties
<1>2. DOMAIN more = 1..(Len(seq) + 1)
  BY <1>1, LenProperties
<1> HIDE DEF more
<1>3. \A i \in 1..n : from + i \in 1..Len(seq)
  BY <1>1 DEF Stands
<1>4. n <= Len(list) /\ from + n <= Len(more)
  BY <1>1 DEF Stands
<1>5. \A i \in 1..n : more[from + i] = list[i]
  BY <1>1, <1>3 DEF Stands
<1>6. ASSUME NEW k \in DOMAIN more, TypeOf[more[k]] = ty
      PROVE  k \in (from + 1)..(from + n)
  <2>1. k \in DOMAIN seq /\ more[k] = seq[k]
    BY <1>1, <1>2, <1>6
  <2> QED
    BY <1>6, <2>1 DEF Stands
<1>7. Stands(more, list, n, ty, from)
  BY <1>4, <1>5, <1>6 DEF Stands
<1> QED
  BY <1>7 DEF more

LEMMA FindsNext ==
    ASSUME NEW seq \in Seq(Subs), NEW list \in Seq(Subs), NEW ty, NEW n \in Nat,
           NEW from \in Nat, NEW s \in Subs, Stands(seq, list, n, ty, from),
           n < Len(list), s = list[n + 1], from + n = Len(seq)
    PROVE  /\ Stands(Append(seq, s), list, n + 1, ty, from)
           /\ from + (n + 1) = Len(Append(seq, s))
<1> DEFINE more == Append(seq, s)
<1>1. /\ Len(seq) \in Nat /\ DOMAIN seq = 1..Len(seq) /\ Len(list) \in Nat
      /\ more \in Seq(Subs) /\ Len(more) = Len(seq) + 1
      /\ \A i \in 1..Len(seq) : more[i] = seq[i]
      /\ more[Len(seq) + 1] = s
  BY LenProperties, AppendProperties
<1>2. DOMAIN more = 1..(Len(seq) + 1)
  BY <1>1, LenProperties
<1> HIDE DEF more
<1>3. n + 1 <= Len(list) /\ from + (n + 1) = Len(more)
  <2> Len(list) \in Nat /\ n + 1 <= Len(list)
    BY <1>1
  <2> from + (n + 1) = Len(seq) + 1
    OBVIOUS
  <2> QED
    BY <1>1
<1>4. \A i \in 1..(n + 1) : more[from + i] = list[i]
  <2> TAKE i \in 1..(n + 1)
  <2>1. CASE i \in 1..n
    <3>1. from + i \in 1..Len(seq)
      BY <2>1
    <3> QED
      BY <1>1, <2>1, <3>1 DEF Stands
  <2>2. CASE i = n + 1
    BY <1>1, <2>2
  <2> QED
    BY <2>1, <2>2
<1>5. \A k \in DOMAIN more : TypeOf[more[k]] = ty => k \in (from + 1)..(from + (n + 1))
  BY <1>1, <1>2 DEF Stands
<1>6. Stands(more, list, n + 1, ty, from)
  BY <1>1, <1>3, <1>4, <1>5 DEF Stands
<1> QED
  BY <1>3, <1>6 DEF more

LEMMA CollectLooks ==
    ASSUME Typed, Typed', NEW t \in Threads, Looks(t), Collect(t)
    PROVE  Looks(t)'
<1> DEFINE L == level[t]
           n == index[t]
           list == Visible(Mro[L])
<1>0. /\ L \in 1..Len(Mro) /\ Len(Mro) \in Nat /\ n \in Nat \ {0}
      /\ found[t] \in Seq(Subs) /\ Len(found[t]) \in Nat
      /\ list \in Seq(Subs) /\ Len(list) \in Nat /\ DOMAIN list = 1..Len(list)
      /\ \A l \in 1..Len(Mro) : ListOf(Mro[l]) \in Seq(Subs) /\ Len(ListOf(Mro[l])) \in Nat
      /\ \A l \in 1..Len(Mro) : ListOf(Mro[l])' = ListOf(Mro[l])
      /\ UNCHANGED <<sorted, touched>>
  BY MroIs, VisibleIs, LenProperties DEF Collect, Typed, BusTypes, BusLocked, ListOf
<1>1. Mro[L] \notin touched[t] => list = ListOf(Mro[L])
  <2> SUFFICES ASSUME Mro[L] \notin touched[t] PROVE sorted # Mro[L]
    BY DEF Visible
  <2>1. Mro[L] # None
    BY <1>0, MroIs, BusAssumption
  <2> QED
    BY <2>1 DEF Looks
<1>2. CASE n <= Len(list)
  <2>1. /\ level' = level /\ index' = [index EXCEPT ![t] = n + 1]
        /\ found' = [found EXCEPT ![t] = Append(found[t], list[n])]
    BY <1>2 DEF Collect
  <2>2. level'[t] = L /\ index'[t] = n + 1 /\ found'[t] = Append(found[t], list[n])
    BY <2>1 DEF Typed, BusTypes
  <2>3. list[n] \in Subs /\ TypeOf[list[n]] = Mro[L]
    BY <1>0, <1>2, ElementOfSeq, VisibleTypes DEF Typed
  <2>4. ASSUME NEW l \in 1..Len(Mro), Mro[l] \notin touched[t]
        PROVE  \E from \in Nat :
                 /\ Stands(found'[t], ListOf(Mro[l]), Gone(t, l)', Mro[l], from)
                 /\ l = level'[t] => from + Gone(t, l)' = Len(found'[t])
    <3>1. PICK from \in Nat :
            /\ Stands(found[t], ListOf(Mro[l]), Gone(t, l), Mro[l], from)
            /\ l = L => from + Gone(t, l) = Len(found[t])
      BY <2>4 DEF Looks
    <3>2. CASE l = L
      <4> DEFINE m == n - 1
      <4>1. m \in Nat /\ m + 1 = n /\ m < Len(list) /\ list = ListOf(Mro[l])
        BY <1>0, <1>1, <1>2, <2>4, <3>2
      <4>2. Gone(t, l) = m /\ Gone(t, l)' = n
        <5>1. Gone(t, l)' = index'[t] - 1
          BY <1>0, <2>2, <3>2 DEF Gone
        <5>2. (n + 1) - 1 = n
          BY <1>0
        <5> QED
          BY <1>0, <2>2, <3>2, <5>1, <5>2 DEF Gone
      <4> HIDE DEF n, list, m
      <4>3. Stands(found[t], list, m, Mro[l], from) /\ from + m = Len(found[t])
        BY <3>1, <3>2, <4>1, <4>2
      <4>4. Stands(Append(found[t], list[n]), list, n, Mro[l], from)
            /\ from + n = Len(Append(found[t], list[n]))
        <5>1. list[n] = list[m + 1]
          BY <4>1
        <5>2. Stands(Append(found[t], list[n]), list, m + 1, Mro[l], from)
              /\ from + (m + 1) = Len(Append(found[t], list[n]))
          <6>1. /\ found[t] \in Seq(Subs) /\ list \in Seq(Subs) /\ m \in Nat
                /\ list[n] \in Subs /\ m < Len(list)
            BY <1>0, <2>3, <4>1
          <6> QED
            BY <4>3, <5>1, <6>1, FindsNext
        <5> QED
          BY <4>1, <5>2
      <4> QED
        BY <2>2, <4>1, <4>2, <4>4
    <3>3. CASE l # L
      <4>1. Gone(t, l)' = Gone(t, l) /\ Gone(t, l) \in Nat
        BY <1>0, <2>2, <2>4, <3>3 DEF Gone
      <4>2. TypeOf[list[n]] # Mro[l]
        BY <1>0, <2>3, <3>3, MroIs
      <4> HIDE DEF n, list
      <4>3. Stands(Append(found[t], list[n]), ListOf(Mro[l]), Gone(t, l), Mro[l], from)
        BY <1>0, <2>3, <3>1, <4>1, <4>2, FindsAnother
      <4> QED
        BY <2>2, <3>3, <4>1, <4>3
    <3> QED
      BY <3>2, <3>3
  <2>5. \A l \in 1..Len(Mro) : Mro[l] \notin touched'[t] =>
          \E from \in Nat :
            /\ Stands(found'[t], ListOf(Mro[l])', Gone(t, l)', Mro[l], from)
            /\ l = level'[t] => from + Gone(t, l)' = Len(found'[t])
    BY <1>0, <2>4
  <2>6. sorted' # None => sorted' \in touched'[t]
    BY <1>0 DEF Looks
  <2> QED
    BY <2>5, <2>6 DEF Looks, Stands
<1>3. CASE ~(n <= Len(list))
  <2>1. /\ level' = [level EXCEPT ![t] = L + 1] /\ index' = [index EXCEPT ![t] = 1]
        /\ found' = found
    BY <1>3 DEF Collect
  <2>2. level'[t] = L + 1 /\ index'[t] = 1 /\ found'[t] = found[t]
    BY <2>1 DEF Typed, BusTypes
  <2>4. ASSUME NEW l \in 1..Len(Mro), Mro[l] \notin touched[t]
        PROVE  \E from \in Nat :
                 /\ Stands(found'[t], ListOf(Mro[l]), Gone(t, l)', Mro[l], from)
                 /\ l = level'[t] => from + Gone(t, l)' = Len(found'[t])
    <3>1. PICK from \in Nat :
            /\ Stands(found[t], ListOf(Mro[l]), Gone(t, l), Mro[l], from)
            /\ l = L => from + Gone(t, l) = Len(found[t])
      BY <2>4 DEF Looks
    <3>2. CASE l = L
      <4>1. Gone(t, l)' = Len(ListOf(Mro[l]))
        BY <1>0, <2>2, <3>2 DEF Gone
      <4>2. Gone(t, l) = n - 1 /\ n - 1 <= Len(list) /\ list = ListOf(Mro[l])
        BY <1>0, <1>1, <2>4, <3>1, <3>2 DEF Gone, Stands
      <4>3. Gone(t, l) = Len(ListOf(Mro[l]))
        BY <1>0, <1>3, <4>2
      <4> QED
        BY <1>0, <2>2, <3>1, <3>2, <4>1, <4>3
    <3>3. CASE l = L + 1
      <4>1. Gone(t, l) = 0 /\ Gone(t, l)' = 0
        BY <1>0, <2>2, <3>3 DEF Gone
      <4>2. \A k \in DOMAIN found[t] : TypeOf[found[t][k]] # Mro[l]
        BY <3>1, <4>1 DEF Stands
      <4>3. Stands(found[t], ListOf(Mro[l]), 0, Mro[l], Len(found[t]))
        BY <1>0, <4>2 DEF Stands
      <4> QED
        BY <1>0, <2>2, <4>1, <4>3
    <3>4. CASE l # L /\ l # L + 1
      <4>1. Gone(t, l)' = Gone(t, l)
        BY <1>0, <2>2, <2>4, <3>4 DEF Gone
      <4> QED
        BY <2>2, <3>1, <3>4, <4>1
    <3> QED
      BY <3>2, <3>3, <3>4
  <2>5. \A l \in 1..Len(Mro) : Mro[l] \notin touched'[t] =>
          \E from \in Nat :
            /\ Stands(found'[t], ListOf(Mro[l])', Gone(t, l)', Mro[l], from)
            /\ l = level'[t] => from + Gone(t, l)' = Len(found'[t])
    BY <1>0, <2>4
  <2>6. sorted' # None => sorted' \in touched'[t]
    BY <1>0 DEF Looks
  <2> QED
    BY <2>5, <2>6 DEF Looks, Stands
<1> QED
  BY <1>2, <1>3

\* A step of a thread leaves the others where they are.
LEMMA OneMoves ==
    ASSUME Typed, NEW u \in Threads, BusMove(u), NEW t \in Threads \ {u}
    PROVE  bpc'[t] = bpc[t] /\ arg'[t] = arg[t]
BY DEF BusMove, BusStep, FirstOfType, AppendToList, SortBegins, SortEnds, RemoveFromList, Lookup,
       Collect, Collected, Deliver, CallPost, CallRegister, CallUnregister, CallLookup, Bus, Typed,
       BusTypes

LEMMA CallPostLooks ==
    ASSUME Typed, Typed', NEW t \in Threads, CallPost(t)
    PROVE  Looks(t)'
<1>1. /\ level'[t] = 1 /\ index'[t] = 1 /\ found'[t] = <<>>
      /\ touched'[t] = {sorted} \ {None} /\ UNCHANGED <<lists, sorted>>
  BY DEF CallPost, Typed, BusTypes
<1>2. \A l \in 1..Len(Mro) : Gone(t, l)' = 0
  BY <1>1, MroIs DEF Gone
<1>3. ASSUME NEW l \in 1..Len(Mro)
      PROVE  Stands(found'[t], ListOf(Mro[l])', 0, Mro[l], 0)
  <2>1. ListOf(Mro[l])' = ListOf(Mro[l]) /\ ListOf(Mro[l]) \in Seq(Subs)
    BY <1>1, VisibleIs DEF Typed, ListOf
  <2>2. Len(ListOf(Mro[l])') \in Nat
    BY <2>1, LenProperties
  <2> QED
    BY <1>1, <2>2 DEF Stands
<1>4. \A l \in 1..Len(Mro) :
        \E from \in Nat :
          /\ Stands(found'[t], ListOf(Mro[l])', Gone(t, l)', Mro[l], from)
          /\ l = level'[t] => from + Gone(t, l)' = Len(found'[t])
  <2> TAKE l \in 1..Len(Mro)
  <2> WITNESS 0 \in Nat
  <2> QED
    BY <1>1, <1>2, <1>3
<1> QED
  BY <1>1, <1>4 DEF Looks, Stands

\* Whoever changes a list is seen by those who are collecting.
LEMMA OthersLook ==
    ASSUME Typed, Typed', NEW u \in Threads, BusMove(u),
           NEW t \in Threads \ {u}, bpc[t] = "collect", Looks(t)
    PROVE  bpc'[t] = "collect" /\ Looks(t)'
<1> DEFINE s == arg[u]
           ty == TypeOf[s]
<1>1. CASE FirstOfType(u) \/ AppendToList(u) \/ SortBegins(u) \/ SortEnds(u)
           \/ (RemoveFromList(u) /\ s \in ToSet(ListOf(ty)))
  <2>1. ty \in Types /\ Touch(ty)
    BY <1>1, TypesOfSubs DEF FirstOfType, AppendToList, SortBegins, SortEnds, RemoveFromList, Lookup,
                             Typed, BusLocked, Passing
  <2>2. touched[t] \subseteq touched'[t] /\ ty \in touched'[t]
    BY <2>1, Touches DEF Typed
  <2>3. /\ bpc'[t] = bpc[t] /\ level' = level /\ index' = index /\ found' = found
        /\ sorted' \in {sorted, None, ty}
    BY <1>1 DEF FirstOfType, AppendToList, SortBegins, SortEnds, RemoveFromList, Lookup, Bus,
                Typed, BusTypes
  <2>4. \A x \in Types : x # ty => ListOf(x)' = ListOf(x)
    BY <1>1, ListSteps DEF Typed, Becomes, ListOf, BusMove, BusStep
  <2>5. sorted' # None => sorted' \in touched'[t]
    BY <2>2, <2>3 DEF Looks
  <2> QED
    BY <2>2, <2>3, <2>4, <2>5, LooksElsewhere
<1>2. CASE RemoveFromList(u) /\ s \notin ToSet(ListOf(ty))
  <2>1. /\ bpc'[t] = bpc[t] /\ UNCHANGED <<lists, touched, sorted, level, index, found>>
    BY <1>2 DEF RemoveFromList, Bus, Typed, BusTypes
  <2>2. \A x \in Types : ListOf(x)' = ListOf(x)
    BY <2>1 DEF ListOf
  <2>3. sorted' # None => sorted' \in touched'[t]
    BY <2>1 DEF Looks
  <2> QED
    BY <2>1, <2>2, <2>3, LooksElsewhere
<1>3. CASE Collect(u) \/ Collected(u) \/ Deliver(u) \/ CallPost(u)
           \/ Lookup(u) \/ \E x \in Subs : CallRegister(u, x) \/ CallUnregister(u, x) \/ CallLookup(u, x)
  <2>1. /\ bpc'[t] = bpc[t] /\ level'[t] = level[t] /\ index'[t] = index[t]
        /\ found'[t] = found[t] /\ touched'[t] = touched[t] /\ UNCHANGED <<lists, sorted>>
    <3>1. CASE Collect(u)
      <4>1. /\ UNCHANGED <<bpc, lists, sorted, touched>>
            /\ \/ level' = level /\ index' = [index EXCEPT ![u] = @ + 1]
               \/ /\ level' = [level EXCEPT ![u] = @ + 1]
                  /\ index' = [index EXCEPT ![u] = 1]
            /\ \/ found' = found
               \/ \E e : found' = [found EXCEPT ![u] = Append(@, e)]
        BY <3>1 DEF Collect
      <4> QED
        BY <4>1 DEF Typed, BusTypes
    <3>2. CASE Collected(u)
      BY <3>2 DEF Collected, Bus, Typed, BusTypes
    <3>3. CASE Deliver(u)
      BY <3>3 DEF Deliver, Bus, Typed, BusTypes
    <3>4. CASE CallPost(u)
      BY <3>4 DEF CallPost, Bus, Typed, BusTypes
    <3>5. CASE \E x \in Subs : CallRegister(u, x) \/ CallUnregister(u, x) \/ CallLookup(u, x)
      BY <3>5 DEF CallRegister, CallUnregister, CallLookup, Bus, Typed, BusTypes
    <3>6. CASE Lookup(u)
      BY <3>6 DEF Lookup, Bus, Typed, BusTypes
    <3> QED
      BY <1>3, <3>1, <3>2, <3>3, <3>4, <3>5, <3>6
  <2>2. \A x \in Types : ListOf(x)' = ListOf(x)
    BY <2>1 DEF ListOf
  <2>3. sorted' # None => sorted' \in touched'[t]
    BY <2>1 DEF Looks
  <2> QED
    BY <2>1, <2>2, <2>3, LooksElsewhere
<1> QED
  BY <1>1, <1>2, <1>3 DEF BusMove, BusStep

LEMMA LookingNext == Typed /\ Typed' /\ Looking /\ [Next]_vars => Looking'
<1> SUFFICES ASSUME Typed, Typed', Looking, [Next]_vars,
                    NEW t \in Threads, bpc'[t] = "collect"
             PROVE  Looks(t)'
  BY DEF Looking
<1>1. CASE UNCHANGED busVars
  <2>1. /\ UNCHANGED <<bpc, lists, sorted, touched>>
        /\ UNCHANGED <<level, index, found>>
    BY <1>1 DEF busVars
  <2>2. Looks(t) /\ \A x \in Types : ListOf(x)' = ListOf(x)
    BY <2>1 DEF Looking, ListOf
  <2>3. sorted' # None => sorted' \in touched'[t]
    BY <2>1, <2>2 DEF Looks
  <2> QED
    BY <2>1, <2>2, <2>3, LooksElsewhere
<1>2. CASE Next /\ ~UNCHANGED busVars
  <2> PICK u \in Threads : Call(u) \/ Step(u)
    BY <1>2 DEF Next
  <2>1. BusMove(u)
    BY <1>2, BusMoves DEF Typed
  <2>2. CASE u # t
    <3>1. bpc[t] = "collect"
      BY <2>1, <2>2, OneMoves
    <3> QED
      BY <2>1, <2>2, <3>1, OthersLook DEF Looking
  <2>3. CASE u = t
    <3>1. Collect(t) \/ CallPost(t)
      BY <2>1, <2>3 DEF BusMove, BusStep, FirstOfType, AppendToList, SortBegins, SortEnds,
                        RemoveFromList, Lookup, Collected, Deliver, CallRegister, CallUnregister, CallLookup,
                        Bus, Typed, BusTypes
    <3> QED
      BY <3>1, CallPostLooks, CollectLooks DEF Looking, Collect
  <2> QED
    BY <2>2, <2>3
<1> QED
  BY <1>1, <1>2 DEF vars

\* A row of a sequence stays in its order when both are sorted.
LEMMA SortedRow ==
    ASSUME NEW seq \in Seq(Subs), NEW list \in Seq(Subs), NEW ty, NEW from \in Nat,
           Stands(seq, list, Len(list), ty, from),
           \A i \in DOMAIN list : TypeOf[list[i]] = ty
    PROVE  IsPartOfType(StableSort(list), StableSort(seq), ty)
<1>1. PICK p : Sorts(p, seq) /\ StableSort(seq) = [k \in DOMAIN seq |-> seq[p[k]]]
  BY SortedBy
<1>2. PICK q : Sorts(q, list) /\ StableSort(list) = [k \in DOMAIN list |-> list[q[k]]]
  BY SortedBy
<1> DEFINE D == DOMAIN seq
           E == DOMAIN list
           at == [i \in E |-> CHOOSE k \in D : p[k] = from + q[i]]
<1>3. /\ Len(list) \in Nat /\ E = 1..Len(list) /\ Len(seq) \in Nat /\ D = 1..Len(seq)
      /\ \A i \in E : q[i] \in E
      /\ \A k \in D : p[k] \in D
      /\ \A i \in E : OrderOf[list[i]] \in Nat
  BY <1>1, <1>2, SubsAreOrdered DEF Sorts
<1>4. \A i \in E : from + i \in D /\ seq[from + i] = list[i]
  BY <1>3 DEF Stands
<1>5. \A i \in E : at[i] \in D /\ p[at[i]] = from + q[i]
  <2> SUFFICES ASSUME NEW i \in E PROVE \E k \in D : p[k] = from + q[i]
    OBVIOUS
  <2>1. from + q[i] \in D
    BY <1>3, <1>4
  <2> QED
    BY <1>1, <2>1 DEF Sorts
<1>6. at \in [E -> D]
  BY <1>5
<1> HIDE DEF at
<1>7. \A i, j \in E : i < j => at[i] < at[j]
  <2> SUFFICES ASSUME NEW i \in E, NEW j \in E, i < j, ~(at[i] < at[j]) PROVE FALSE
    OBVIOUS
  <2>1. NotAfter(list, q[i], q[j]) /\ q[i] # q[j] /\ q[i] \in Nat /\ q[j] \in Nat
    <3>1. NotAfter(list, q[i], q[j]) /\ q[i] # q[j]
      BY <1>2 DEF Sorts
    <3>2. q[i] \in E /\ q[j] \in E
      BY <1>3
    <3> QED
      BY <1>3, <3>1, <3>2
  <2>2. at[i] \in Nat /\ at[j] \in Nat
    BY <1>3, <1>5
  <2>3. CASE at[i] = at[j]
    BY <1>5, <2>1, <2>3
  <2>4. CASE at[j] < at[i]
    <3>1. NotAfter(seq, from + q[j], from + q[i])
      <4>1. NotAfter(seq, p[at[j]], p[at[i]])
        BY <1>1, <1>5, <2>4 DEF Sorts
      <4> QED
        BY <1>5, <4>1
    <3>2. /\ seq[from + q[i]] = list[q[i]] /\ seq[from + q[j]] = list[q[j]]
          /\ OrderOf[list[q[i]]] \in Nat /\ OrderOf[list[q[j]]] \in Nat
      BY <1>3, <1>4
    <3>3. \/ OrderOf[list[q[j]]] < OrderOf[list[q[i]]]
          \/ /\ OrderOf[list[q[j]]] = OrderOf[list[q[i]]]
             /\ from + q[j] <= from + q[i]
      BY <3>1, <3>2 DEF NotAfter
    <3>4. \/ OrderOf[list[q[i]]] < OrderOf[list[q[j]]]
          \/ OrderOf[list[q[i]]] = OrderOf[list[q[j]]] /\ q[i] <= q[j]
      BY <2>1 DEF NotAfter
    <3>5. OrderOf[list[q[j]]] = OrderOf[list[q[i]]] /\ q[i] <= q[j]
      BY <3>2, <3>3, <3>4
    <3>6. from + q[j] <= from + q[i]
      BY <3>2, <3>3, <3>5
    <3>7. q[i] \in Nat /\ q[j] \in Nat /\ q[i] # q[j]
      BY <2>1
    <3> QED
      BY <3>5, <3>6, <3>7
  <2> QED
    BY <2>2, <2>3, <2>4
<1>8. \A i \in E : StableSort(seq)[at[i]] = StableSort(list)[i]
  BY <1>1, <1>2, <1>3, <1>4, <1>5
<1>9. ASSUME NEW k \in D, TypeOf[StableSort(seq)[k]] = ty
      PROVE  \E i \in E : at[i] = k
  <2>1. p[k] \in D /\ TypeOf[seq[p[k]]] = ty
    BY <1>1, <1>3, <1>9
  <2>2. p[k] - from \in E /\ from + (p[k] - from) = p[k]
    BY <1>3, <2>1 DEF Stands
  <2>3. PICK i \in E : q[i] = p[k] - from
    BY <1>2, <2>2 DEF Sorts
  <2>4. p[at[i]] = p[k] /\ at[i] \in D
    BY <1>5, <2>2, <2>3
  <2>5. at[i] = k
    BY <1>1, <1>3, <2>4 DEF Sorts
  <2> QED
    BY <2>5
<1>10. DOMAIN StableSort(seq) = D /\ DOMAIN StableSort(list) = E
  BY <1>1, <1>2
<1> HIDE DEF D, E
<1> QED
  BY <1>6, <1>7, <1>8, <1>9, <1>10 DEF IsPartOfType

\* A post finds every subscription of a type whose list nobody changed while it
\* was looking, once each and in their order, however the threads interleave and
\* whatever the others register and unregister.
THEOREM UndisturbedAreFoundHolds == Spec => UndisturbedAreFound
<1>1. ASSUME Typed, Looking, [Next]_vars,
             NEW t \in Threads, bpc[t] = "collect", bpc'[t] = "deliver",
             NEW ty \in ToSet(Mro) \ touched[t]
      PROVE  IsPartOfType(StableSort(ListOf(ty)), found'[t], ty)
  <2>1. Collected(t)
    <3>1. CASE Next /\ ~UNCHANGED busVars
      <4> PICK u \in Threads : Call(u) \/ Step(u)
        BY <3>1 DEF Next
      <4>1. BusMove(u)
        BY <3>1, BusMoves, <1>1 DEF Typed
      <4>2. u = t
        BY <1>1, <4>1, OneMoves
      <4> QED
        BY <1>1, <4>1, <4>2
           DEF BusMove, BusStep, FirstOfType, AppendToList, SortBegins, SortEnds,
               RemoveFromList, Lookup, Collect, Deliver, CallPost, CallRegister, CallUnregister, CallLookup,
               Bus, Typed, BusTypes
    <3> QED
      BY <1>1, <3>1 DEF vars, busVars
  <2>2. PICK l \in 1..Len(Mro) : Mro[l] = ty
    BY MroIs, <1>1 DEF ToSet
  <2>3. Gone(t, l) = Len(ListOf(ty))
    BY <1>1, <2>1, <2>2, MroIs DEF Gone, Collected, Typed, BusTypes
  <2>4. PICK from \in Nat : Stands(found[t], ListOf(ty), Len(ListOf(ty)), ty, from)
    BY <1>1, <2>2, <2>3 DEF Looking, Looks
  <2>5. /\ found'[t] = StableSort(found[t]) /\ found[t] \in Seq(Subs)
        /\ ListOf(ty) \in Seq(Subs)
        /\ \A i \in DOMAIN ListOf(ty) : TypeOf[ListOf(ty)[i]] = ty
    BY <1>1, <2>1, VisibleIs DEF Collected, Typed, BusTypes, ListOf
  <2> QED
    BY <2>4, <2>5, SortedRow
<1>2. Init => Looking
  BY DEF Init, BusInit, Looking
<1>3. Typed /\ Looking /\ [Next]_vars =>
        [\A t \in Threads : bpc[t] = "collect" /\ bpc'[t] = "deliver" =>
           \A ty \in ToSet(Mro) \ touched[t] :
             IsPartOfType(StableSort(ListOf(ty)), found'[t], ty)]_vars
  BY <1>1
<1> QED
  BY <1>2, <1>3, TypedInvariant, LookingNext, PTL DEF Spec, UndisturbedAreFound

------------------------------------------------------------------------------
(* The bundle: what it holds while it works *)

\* At most one thread calls register().
OneRegistrar == \A t, u \in Registrars : t = u

own == ids \cap Own

\* Where a thread can be in the bus while it is in the bundle, and with what.
Working ==
    /\ \A t \in Threads : upc[t] \in Inside => bundleLock = t
    /\ bundleLock # None => upc[bundleLock] \in Inside
    /\ \A t \in Threads : upc[t] \notin Inside =>
         \/ bpc[t] \in {"idle", "collect", "deliver"}
         \/ bpc[t] \in {"lookup", "unregister"} /\ arg[t] \notin Own
    /\ \A t \in Threads : bpc[t] # "idle" => upc[t] \in Inside \cup {"idle"}
    /\ \A t \in Threads : upc[t] \in {"registerNext", "added"} =>
         bpc[t] \in {"idle", "register"} \cup Holding
    /\ \A t \in Threads : upc[t] = "unregisterNext" => bpc[t] \in {"idle", "unregister"}
    /\ \A t \in Threads : upc[t] = "removed" => bpc[t] \in {"idle", "lookup", "unregister"}
    /\ \A t \in Threads : upc[t] \in {"registering", "registerNext"} => t \in Registrars

\* Nobody else has a subscription that is being added, and it is not there yet; one
\* that is being removed under the lock is there.
Items ==
    /\ \A t \in Threads : upc[t] \in {"adding", "added"} =>
         item[t] \notin subscriptions /\ \A u \in Threads \ {t} : item[u] # item[t]
    /\ \A t \in Threads : upc[t] = "removed" => item[t] \in subscriptions
    /\ \A t \in Threads : upc[t] = "registering" => ~registered

\* What is on the bus and has an id, while the lock is free and while t holds it.
Settled ==
    own = (IF registered THEN subscriptions ELSE {}) /\ withId = own
MidRegister(t) ==
    /\ registered /\ todo[t] \subseteq subscriptions /\ withId = subscriptions \ todo[t]
    /\ bpc[t] = "idle" => own = withId
    /\ bpc[t] # "idle" => arg[t] \in withId /\ own = withId \ {arg[t]}
MidUnregister(t) ==
    /\ ~registered /\ withId \subseteq todo[t]
    /\ bpc[t] = "idle" => own = withId
    /\ bpc[t] # "idle" => arg[t] \in Own \ withId /\ own \ {arg[t]} = withId
MidAdd(t) ==
    /\ withId = IF registered THEN subscriptions \cup {item[t]} ELSE {}
    /\ bpc[t] = "idle" => own = withId
    /\ bpc[t] # "idle" => registered /\ arg[t] = item[t] /\ own = subscriptions
MidRemove(t) ==
    /\ withId = IF registered THEN subscriptions ELSE {}
    /\ bpc[t] = "idle" => own = withId \ {item[t]}
    /\ bpc[t] # "idle" => registered /\ arg[t] = item[t] /\ own = subscriptions
Mid(t) ==
    /\ upc[t] = "registerNext" => MidRegister(t)
    /\ upc[t] = "unregisterNext" => MidUnregister(t)
    /\ upc[t] = "added" => MidAdd(t)
    /\ upc[t] = "removed" => MidRemove(t)
Kept ==
    /\ bundleLock = None => Settled
    /\ \A t \in Threads : Mid(t)

Bundled == Working /\ Items /\ Kept

\* Every subscription that the bus knows, and the one that is being sorted in, is in
\* the list of its type, once; every list is in order but the one being sorted.
On(s) == s \in ToSet(ListOf(TypeOf[s]))
Listed ==
    /\ \A ty \in DOMAIN lists : IsInjective(lists[ty])
    /\ \A ty \in DOMAIN lists :
         InOrder(lists[ty]) \/ (busLock # None /\ ty = TypeOf[arg[busLock]])
    /\ \A s \in Subs : On(s) <=> s \in ids \/ (busLock # None /\ s = arg[busLock])

\* What a step of the bus does to the ids and to the thread.
LEMMA BusStepIs ==
    ASSUME Typed, NEW t \in Threads, BusStep(t)
    PROVE  \/ /\ bpc[t] \in {"register", "appended"} /\ bpc'[t] \in Holding
              /\ arg'[t] = arg[t] /\ ids' = ids
           \/ /\ bpc[t] \in {"register", "sorting"} /\ bpc'[t] = "idle"
              /\ ids' = ids \cup {arg[t]}
           \/ bpc[t] = "unregister" /\ bpc'[t] = "idle" /\ ids' = ids \ {arg[t]}
           \/ /\ bpc[t] \in {"collect", "deliver"} /\ ids' = ids
              /\ bpc'[t] \in {"idle", "collect", "deliver"}
           \/ /\ bpc[t] = "lookup" /\ ids' = ids
              /\ IF arg[t] \in ids THEN bpc'[t] = "unregister" /\ arg'[t] = arg[t]
                                   ELSE bpc'[t] = "idle"
<1> USE DEF Typed, BusTypes, Bus, Holding
<1>1. CASE FirstOfType(t) \/ SortEnds(t) \/ RemoveFromList(t)
  BY <1>1 DEF FirstOfType, SortEnds, RemoveFromList
<1>2. CASE AppendToList(t) \/ SortBegins(t)
  BY <1>2 DEF AppendToList, SortBegins
<1>3. CASE Collect(t) \/ Collected(t) \/ Deliver(t)
  BY <1>3 DEF Collect, Collected, Deliver
<1>4. CASE Lookup(t)
  BY <1>4 DEF Lookup
<1> QED
  BY <1>1, <1>2, <1>3, <1>4 DEF BusStep

LEMMA CallsAre ==
    ASSUME Typed, NEW t \in Threads
    PROVE  /\ \A s : CallRegister(t, s) /\ s \in Subs =>
                bpc[t] = "idle" /\ bpc'[t] = "register" /\ arg'[t] = s /\ ids' = ids
           /\ \A s : CallUnregister(t, s) /\ s \in Subs =>
                bpc[t] = "idle" /\ bpc'[t] = "unregister" /\ arg'[t] = s /\ ids' = ids
           /\ \A s : CallLookup(t, s) /\ s \in Subs =>
                bpc[t] = "idle" /\ bpc'[t] = "lookup" /\ arg'[t] = s /\ ids' = ids
           /\ CallPost(t) => bpc[t] = "idle" /\ bpc'[t] = "collect" /\ ids' = ids
BY DEF Typed, BusTypes, CallRegister, CallUnregister, CallLookup, CallPost, Bus

\* A step of a thread is its own.
Mine(t) ==
    \A u \in Threads \ {t} : /\ upc'[u] = upc[u] /\ item'[u] = item[u] /\ todo'[u] = todo[u]
                             /\ bpc'[u] = bpc[u] /\ arg'[u] = arg[u]

LEMMA StepIsMine ==
    ASSUME Typed, NEW t \in Threads, Call(t) \/ Step(t)
    PROVE  Mine(t)
<1>1. \A u \in Threads \ {t} : bpc'[u] = bpc[u] /\ arg'[u] = arg[u]
  <2>1. UNCHANGED busVars \/ BusMove(t)
    BY BusMoves DEF Typed
  <2>2. CASE UNCHANGED busVars
    BY <2>2 DEF busVars
  <2> QED
    BY <2>1, <2>2, OneMoves
<1>2. \A u \in Threads \ {t} : upc'[u] = upc[u] /\ item'[u] = item[u] /\ todo'[u] = todo[u]
  <2> USE DEF Typed, BundleTypes, Goto, Leave
  <2>1. CASE Call(t)
    BY <2>1 DEF Call, CallRegisterAll, CallUnregisterAll, CallAdd, CallRemove
  <2>2. CASE RegisterBegins(t) \/ UnregisterBegins(t) \/ Add(t) \/ Added(t)
             \/ RemoveFails(t) \/ RemoveOwn(t) \/ Removed(t)
    BY <2>2 DEF RegisterBegins, UnregisterBegins, Add, Added, RemoveFails, RemoveOwn, Removed
  <2>3. CASE RegisterNext(t)
    BY <2>3 DEF RegisterNext
  <2>4. CASE UnregisterNext(t)
    BY <2>4 DEF UnregisterNext
  <2>5. CASE UNCHANGED bundleVars
    BY <2>5 DEF bundleVars
  <2> QED
    BY <2>1, <2>2, <2>3, <2>4, <2>5 DEF Step, BundleStep
<1> QED
  BY <1>1, <1>2 DEF Mine

\* The bundle's state is kept by a step outside of its lock, by one that takes the
\* lock or is within it, and by one that leaves it.
LEMMA MidElsewhere ==
    ASSUME NEW t \in Threads, Mine(t), NEW u \in Threads \ {t}, Mid(u),
           UNCHANGED <<subscriptions, withId, registered>>, own' = own
    PROVE  Mid(u)'
BY DEF Mid, MidRegister, MidUnregister, MidAdd, MidRemove, Mine

LEMMA KeptOutside ==
    ASSUME Bundled, NEW t \in Threads, Mine(t), upc'[t] \notin Inside,
           UNCHANGED <<bundleLock, subscriptions, withId, registered>>, own' = own
    PROVE  Kept'
<1>1. Mid(t)'
  BY DEF Mid, Inside
<1>2. \A u \in Threads \ {t} : Mid(u)'
  BY MidElsewhere DEF Bundled, Kept
<1>3. bundleLock' = None => Settled'
  BY DEF Bundled, Kept, Settled
<1> QED
  BY <1>1, <1>2, <1>3 DEF Kept

LEMMA KeptInside ==
    ASSUME Typed, Bundled, NEW t \in Threads, Mine(t), bundleLock \in {None, t},
           bundleLock' = t, Mid(t)'
    PROVE  Kept'
<1>1. \A u \in Threads \ {t} : upc[u] \notin Inside
  BY BusAssumption DEF Bundled, Working
<1>2. \A u \in Threads \ {t} : Mid(u)'
  BY <1>1 DEF Mid, Mine, Inside
<1>3. bundleLock' # None
  BY BusAssumption
<1> QED
  BY <1>2, <1>3 DEF Kept

LEMMA KeptLeaving ==
    ASSUME Typed, Bundled, NEW t \in Threads, Mine(t), bundleLock = t,
           bundleLock' = None, upc'[t] \notin Inside, Settled'
    PROVE  Kept'
<1>1. \A u \in Threads \ {t} : upc[u] \notin Inside
  BY DEF Bundled, Working
<1>2. \A u \in Threads \ {t} : Mid(u)'
  BY <1>1 DEF Mid, Mine, Inside
<1>3. Mid(t)'
  BY DEF Mid, Inside
<1> QED
  BY <1>2, <1>3 DEF Kept

\* Where t is in the bus and in the bundle fits together.
Fits(u) ==
    /\ upc[u] \in Inside <=> bundleLock = u
    /\ upc[u] \notin Inside =>
         \/ bpc[u] \in {"idle", "collect", "deliver"}
         \/ bpc[u] \in {"lookup", "unregister"} /\ arg[u] \notin Own
    /\ bpc[u] # "idle" => upc[u] \in Inside \cup {"idle"}
    /\ upc[u] \in {"registerNext", "added"} => bpc[u] \in {"idle", "register"} \cup Holding
    /\ upc[u] = "unregisterNext" => bpc[u] \in {"idle", "unregister"}
    /\ upc[u] = "removed" => bpc[u] \in {"idle", "lookup", "unregister"}
    /\ upc[u] \in {"registering", "registerNext"} => u \in Registrars

LEMMA WorkingFits == ASSUME Typed PROVE Working <=> \A u \in Threads : Fits(u)
BY BusAssumption DEF Typed, BundleTypes, Working, Fits

LEMMA WorkingKept ==
    ASSUME Typed, Typed', Working, NEW t \in Threads, Mine(t), Fits(t)',
           bundleLock' = bundleLock \/ (bundleLock \in {None, t} /\ bundleLock' \in {None, t})
    PROVE  Working'
<1>1. \A u \in Threads : Fits(u)
  BY WorkingFits
<1>2. \A u \in Threads \ {t} : Fits(u)'
  BY <1>1, BusAssumption DEF Fits, Mine
<1>3. \A u \in Threads : Fits(u)'
  BY <1>2
<1> QED
  BY <1>3, BusAssumption DEF Typed, BundleTypes, Working, Fits

LEMMA ItemsKept ==
    ASSUME Typed, Items, NEW t \in Threads, Mine(t),
           \A s \in subscriptions' \ subscriptions : s = item[t] /\ upc[t] = "added",
           \A u \in Threads : upc'[u] = "removed" => item'[u] \in subscriptions',
           \A u \in Threads : upc'[u] = "registering" => ~registered',
           upc'[t] \in {"adding", "added"} =>
             item'[t] \notin subscriptions' /\ \A u \in Threads \ {t} : item[u] # item'[t],
           item'[t] \in {item[t], None} \cup subscriptions \/ upc'[t] = "adding"
    PROVE  Items'
<1>1. ASSUME NEW u \in Threads, upc'[u] \in {"adding", "added"}
      PROVE  item'[u] \notin subscriptions' /\ \A w \in Threads \ {u} : item'[w] # item'[u]
  <2>1. CASE u = t
    BY <1>1, <2>1 DEF Mine
  <2>2. CASE u # t
    <3>1. upc[u] \in {"adding", "added"} /\ item'[u] = item[u] /\ item[u] \in Own
      BY <1>1, <2>2 DEF Mine, Typed, BundleTypes, AtWork
    <3>2. item[u] \notin subscriptions /\ \A w \in Threads \ {u} : item[w] # item[u]
      BY <3>1 DEF Items
    <3>3. item[u] \notin subscriptions'
      BY <2>2, <3>2
    <3>4. item'[t] # item[u]
      <4>1. item[u] # None
        BY <3>1, BusAssumption, BundleAssumption
      <4> QED
        BY <2>2, <3>1, <3>2, <4>1
    <3> QED
      BY <2>2, <3>1, <3>2, <3>3, <3>4 DEF Mine
  <2> QED
    BY <2>1, <2>2
<1> QED
  BY <1>1 DEF Items

LEMMA OutsideKeeps ==
    ASSUME Typed, Typed', Bundled, NEW t \in Threads,
           Call(t) \/ RemoveFails(t) \/ (BusStep(t) /\ UNCHANGED bundleVars /\ upc[t] \notin Inside)
    PROVE  Bundled'
<1>0. Mine(t) /\ Fits(t) /\ upc[t] \notin Inside /\ bundleLock # t
  <2>1. Mine(t) /\ Fits(t)
    BY StepIsMine, WorkingFits DEF Bundled, Step, BundleStep
  <2>2. upc[t] \notin Inside
    BY DEF Call, CallRegisterAll, CallUnregisterAll, CallAdd, CallRemove, Free,
           RemoveFails, Inside
  <2> QED
    BY <2>1, <2>2 DEF Fits
<1>1. /\ bundleLock' = bundleLock /\ UNCHANGED <<subscriptions, withId, registered>>
      /\ upc'[t] \notin Inside
  <2> USE DEF Typed, BundleTypes, Inside
  <2>1. CASE CallRegisterAll(t) \/ CallUnregisterAll(t) \/ CallAdd(t) \/ CallRemove(t)
    BY <2>1 DEF CallRegisterAll, CallUnregisterAll, CallAdd, CallRemove, Goto
  <2>2. CASE RemoveFails(t)
    BY <2>2 DEF RemoveFails, Leave, Goto
  <2>3. CASE UNCHANGED bundleVars \/ UNCHANGED <<subscriptions, withId, registered,
                                                 bundleLock, upc, item, todo>>
    BY <1>0, <2>3 DEF bundleVars
  <2> QED
    BY <2>1, <2>2, <2>3 DEF Call
<1>2. /\ own' = own
      /\ \/ /\ bpc'[t] = bpc[t] /\ arg'[t] = arg[t]
            /\ upc'[t] = upc[t] \/ bpc[t] = "idle"
         \/ /\ upc'[t] = "idle" \/ upc'[t] = upc[t]
            /\ \/ bpc'[t] \in {"idle", "collect", "deliver"}
               \/ bpc'[t] \in {"lookup", "unregister"} /\ arg'[t] \notin Own
            /\ bpc'[t] # "idle" => upc[t] = "idle" /\ upc'[t] = "idle"
  <2>1. CASE UNCHANGED busVars
    <3>1. upc'[t] = upc[t] \/ bpc[t] = "idle"
      BY <1>0 DEF Call, CallRegisterAll, CallUnregisterAll, CallAdd, CallRemove, Free,
                  RemoveFails, Fits, Inside, bundleVars
    <3> QED
      BY <2>1, <3>1 DEF busVars, own
  <2>2. CASE CallPost(t) /\ Free(t) /\ UNCHANGED upc
    BY <2>2, CallsAre DEF Free, own
  <2>3. CASE Free(t) /\ UNCHANGED upc /\ \E s \in Subs \ Own : CallLookup(t, s)
    BY <2>3, CallsAre DEF Free, own
  <2>4. CASE BusStep(t) /\ UNCHANGED bundleVars
    <3>1. \/ bpc[t] = "unregister" /\ bpc'[t] = "idle" /\ ids' = ids \ {arg[t]}
             /\ arg[t] \notin Own
          \/ /\ bpc[t] \in {"collect", "deliver"} /\ ids' = ids
             /\ bpc'[t] \in {"idle", "collect", "deliver"}
          \/ /\ bpc[t] = "lookup" /\ ids' = ids
             /\ bpc'[t] = "idle" \/ (bpc'[t] = "unregister" /\ arg'[t] \notin Own)
      BY <1>0, <2>4, BusStepIs DEF Fits, Inside, Holding
    <3>2. upc' = upc /\ upc[t] = "idle"
      BY <1>0, <2>4, <3>1 DEF bundleVars, Fits
    <3> QED
      BY <3>1, <3>2 DEF own
  <2> QED
    BY <2>1, <2>2, <2>3, <2>4
       DEF Call, CallRegisterAll, CallUnregisterAll, CallAdd, CallRemove, RemoveFails,
           CallUnregisterId
<1>3. upc'[t] \in {"registering", "registerNext"} =>
        upc[t] = upc'[t] \/ (t \in Registrars /\ upc'[t] = "registering" /\ ~registered)
  <2> USE DEF Typed, BundleTypes
  <2>1. CASE CallRegisterAll(t)
    BY <2>1 DEF CallRegisterAll, Goto
  <2>2. CASE CallUnregisterAll(t) \/ CallAdd(t) \/ CallRemove(t) \/ RemoveFails(t)
    BY <2>2 DEF CallUnregisterAll, CallAdd, CallRemove, RemoveFails, Leave, Goto
  <2>3. CASE upc' = upc
    BY <2>3
  <2> QED
    BY <2>1, <2>2, <2>3 DEF Call, bundleVars
<1>4. Fits(t)'
  BY <1>0, <1>1, <1>2, <1>3 DEF Fits, Inside, Holding
<1>5. Working'
  BY <1>0, <1>1, <1>4, WorkingKept DEF Bundled
<1>6. Items'
  <2> USE DEF Typed, BundleTypes
  <2>1. /\ upc'[t] \in {"adding", "added"} =>
             item'[t] \notin subscriptions /\ \A u \in Threads \ {t} : item[u] # item'[t]
        /\ item'[t] \in {item[t], None} \cup subscriptions \/ upc'[t] = "adding"
    <3>1. CASE CallAdd(t)
      BY <3>1 DEF CallAdd, Goto
    <3>2. CASE CallRegisterAll(t) \/ CallUnregisterAll(t) \/ CallRemove(t)
      BY <3>2 DEF CallRegisterAll, CallUnregisterAll, CallRemove, Goto
    <3>3. CASE RemoveFails(t)
      BY <3>3 DEF RemoveFails, Leave, Goto
    <3>4. CASE upc' = upc /\ item' = item
      BY <3>4 DEF Bundled, Items
    <3> QED
      BY <3>1, <3>2, <3>3, <3>4 DEF Call, bundleVars
  <2>2. \A u \in Threads : upc'[u] = "removed" => item'[u] \in subscriptions'
    BY <1>0, <1>1 DEF Mine, Bundled, Items, Inside
  <2>3. \A u \in Threads : upc'[u] = "registering" => ~registered'
    BY <1>0, <1>1, <1>3 DEF Mine, Bundled, Items
  <2> QED
    BY <1>0, <1>1, <2>1, <2>2, <2>3, ItemsKept DEF Bundled
<1>7. Kept'
  BY <1>0, <1>1, <1>2, KeptOutside
<1> QED
  BY <1>5, <1>6, <1>7 DEF Bundled

\* A call that takes the lock of the bundle.
LEMMA BeginKeeps ==
    ASSUME Typed, Typed', Bundled, OneRegistrar, NEW t \in Threads,
           RegisterBegins(t) \/ UnregisterBegins(t) \/ Add(t) \/ RemoveOwn(t)
    PROVE  Bundled'
<1> USE DEF Typed, BundleTypes
<1>0. /\ Mine(t) /\ Fits(t) /\ bundleLock = None /\ bundleLock' = t
      /\ UNCHANGED <<subscriptions, item>> /\ Settled /\ upc[t] \notin Inside
      /\ bpc[t] = "idle"
  <2>1. Mine(t) /\ Fits(t)
    BY StepIsMine, WorkingFits DEF Bundled, Step, BundleStep
  <2>2. /\ bundleLock = None /\ bundleLock' = t /\ UNCHANGED <<subscriptions, item>>
        /\ upc[t] \in {"registering", "unregistering", "adding", "removing"}
    BY DEF RegisterBegins, UnregisterBegins, Add, RemoveOwn, Lock
  <2> QED
    BY <2>1, <2>2 DEF Fits, Inside, Bundled, Kept
<1>1. CASE RegisterBegins(t)
  <2>1. /\ upc'[t] = "registerNext" /\ registered' /\ todo'[t] = subscriptions
        /\ UNCHANGED <<withId, bpc, arg>> /\ own' = own
    BY <1>1 DEF RegisterBegins, Goto, busVars, own
  <2>2. ~registered /\ t \in Registrars
    BY <1>0, <1>1 DEF RegisterBegins, Bundled, Items, Fits
  <2>3. Mid(t)'
    BY <1>0, <2>1, <2>2 DEF Mid, MidRegister, Settled
  <2>4. Fits(t)'
    BY <1>0, <2>1, <2>2 DEF Fits, Inside
  <2>5. \A u \in Threads : upc'[u] # "registering"
    BY <1>0, <2>1, <2>2 DEF Bundled, Working, Mine, OneRegistrar
  <2>6. Items'
    <3>1. upc'[t] \notin {"adding", "added"} /\ item'[t] = item[t]
      BY <1>0, <2>1
    <3>2. \A u \in Threads : upc'[u] = "removed" => item'[u] \in subscriptions'
      BY <1>0, <2>1 DEF Mine, Bundled, Items
    <3> QED
      BY <1>0, <2>5, <3>1, <3>2, ItemsKept DEF Bundled
  <2> QED
    BY <1>0, <2>3, <2>4, <2>6, KeptInside, WorkingKept DEF Bundled
<1>2. CASE UnregisterBegins(t)
  <2>1. /\ upc'[t] = "unregisterNext" /\ ~registered' /\ todo'[t] = subscriptions
        /\ UNCHANGED <<withId, bpc, arg>> /\ own' = own
    BY <1>2 DEF UnregisterBegins, Goto, busVars, own
  <2>2. Mid(t)'
    BY <1>0, <2>1 DEF Mid, MidUnregister, Settled
  <2>3. Fits(t)'
    BY <1>0, <2>1 DEF Fits, Inside
  <2>4. Items'
    <3>1. upc'[t] \notin {"adding", "added"} /\ item'[t] = item[t]
      BY <1>0, <2>1
    <3>2. \A u \in Threads : upc'[u] = "removed" => item'[u] \in subscriptions'
      BY <1>0, <2>1 DEF Mine, Bundled, Items
    <3> QED
      BY <1>0, <2>1, <3>1, <3>2, ItemsKept DEF Bundled
  <2> QED
    BY <1>0, <2>2, <2>3, <2>4, KeptInside, WorkingKept DEF Bundled
<1>3. CASE Add(t)
  <2>1. /\ upc[t] = "adding" /\ upc'[t] = "added" /\ registered' = registered
        /\ withId' = IF registered THEN withId \cup {item[t]} ELSE withId
        /\ item[t] \in Own /\ item[t] \in Subs
    BY <1>3, BundleAssumption DEF Add, Goto, AtWork
  <2>2. /\ own' = own
        /\ registered => bpc'[t] = "register" /\ arg'[t] = item[t]
        /\ ~registered => bpc'[t] = "idle"
    <3>1. CASE registered
      BY <1>3, <2>1, <3>1, CallsAre DEF Add, own
    <3>2. CASE ~registered
      BY <1>0, <1>3, <3>2 DEF Add, busVars, own
    <3> QED
      BY <3>1, <3>2
  <2>3. Mid(t)'
    BY <1>0, <2>1, <2>2 DEF Mid, MidAdd, Settled
  <2>4. Fits(t)'
    BY <1>0, <2>1, <2>2 DEF Fits, Inside
  <2>5. Items'
    <3>1. /\ item[t] \notin subscriptions /\ \A u \in Threads \ {t} : item[u] # item[t]
          /\ item'[t] = item[t]
      BY <1>0, <2>1 DEF Bundled, Items
    <3>2. /\ \A u \in Threads : upc'[u] = "removed" => item'[u] \in subscriptions'
          /\ \A u \in Threads : upc'[u] = "registering" => ~registered'
      BY <1>0, <2>1 DEF Mine, Bundled, Items
    <3> QED
      BY <1>0, <3>1, <3>2, ItemsKept DEF Bundled
  <2> QED
    BY <1>0, <2>3, <2>4, <2>5, KeptInside, WorkingKept DEF Bundled
<1>4. CASE RemoveOwn(t)
  <2>1. /\ upc[t] = "removing" /\ upc'[t] = "removed" /\ UNCHANGED <<registered, withId>>
        /\ item[t] \in subscriptions /\ item[t] \in Subs
    BY <1>4, BundleAssumption DEF RemoveOwn, Goto
  <2>2. /\ own' = own
        /\ registered => bpc'[t] = "lookup" /\ arg'[t] = item[t]
        /\ ~registered => bpc'[t] = "idle"
    <3>1. CASE registered
      <4>1. item[t] \in ids
        BY <1>0, <2>1, <3>1 DEF Settled, own
      <4> QED
        BY <1>4, <2>1, <3>1, <4>1, CallsAre DEF RemoveOwn, CallUnregisterId, own
    <3>2. CASE ~registered
      BY <1>0, <1>4, <3>2 DEF RemoveOwn, busVars, own
    <3> QED
      BY <3>1, <3>2
  <2>3. Mid(t)'
    BY <1>0, <2>1, <2>2 DEF Mid, MidRemove, Settled
  <2>4. Fits(t)'
    BY <1>0, <2>1, <2>2 DEF Fits, Inside
  <2>5. Items'
    <3>1. upc'[t] \notin {"adding", "added"} /\ item'[t] = item[t]
      BY <1>0, <2>1
    <3>2. /\ \A u \in Threads : upc'[u] = "removed" => item'[u] \in subscriptions'
          /\ \A u \in Threads : upc'[u] = "registering" => ~registered'
      BY <1>0, <2>1 DEF Mine, Bundled, Items
    <3> QED
      BY <1>0, <3>1, <3>2, ItemsKept DEF Bundled
  <2> QED
    BY <1>0, <2>3, <2>4, <2>5, KeptInside, WorkingKept DEF Bundled
<1> QED
  BY <1>1, <1>2, <1>3, <1>4

\* Going on under the lock of the bundle.
LEMMA InsideKeeps ==
    ASSUME Typed, Typed', Bundled, NEW t \in Threads, upc[t] \in Inside,
           \/ (RegisterNext(t) \/ UnregisterNext(t)) /\ todo[t] # {}
           \/ BusStep(t) /\ UNCHANGED bundleVars
    PROVE  Bundled'
<1> USE DEF Typed, BundleTypes
<1>0. /\ Mine(t) /\ Fits(t) /\ bundleLock = t /\ Mid(t)
  BY StepIsMine, WorkingFits DEF Bundled, Kept, Step, BundleStep, Fits
<1>1. UNCHANGED <<subscriptions, registered, bundleLock, upc, item>>
  BY DEF RegisterNext, UnregisterNext, bundleVars
<1>2. Items'
  <2>1. /\ \A u \in Threads : upc'[u] = "removed" => item'[u] \in subscriptions'
        /\ \A u \in Threads : upc'[u] = "registering" => ~registered'
        /\ upc'[t] \in {"adding", "added"} =>
             item'[t] \notin subscriptions' /\ \A u \in Threads \ {t} : item[u] # item'[t]
    BY <1>1 DEF Bundled, Items
  <2> QED
    BY <1>0, <1>1, <2>1, ItemsKept DEF Bundled
<1>3. CASE RegisterNext(t) /\ todo[t] # {}
  <2>1. PICK s \in todo[t] :
          /\ CallRegister(t, s) /\ bpc[t] = "idle" /\ upc[t] = "registerNext"
          /\ todo' = [todo EXCEPT ![t] = todo[t] \ {s}] /\ withId' = withId \cup {s}
    BY <1>3 DEF RegisterNext
  <2>2. bpc'[t] = "register" /\ arg'[t] = s /\ own' = own /\ todo'[t] = todo[t] \ {s}
    BY <2>1, CallsAre, BundleAssumption DEF own
  <2>3. Mid(t)'
    BY <1>0, <1>1, <2>1, <2>2 DEF Mid, MidRegister
  <2>4. Fits(t)'
    BY <1>0, <1>1, <2>1, <2>2 DEF Fits, Inside
  <2> QED
    BY <1>0, <1>1, <1>2, <2>3, <2>4, KeptInside, WorkingKept DEF Bundled
<1>4. CASE UnregisterNext(t) /\ todo[t] # {}
  <2>1. PICK s \in todo[t] :
          /\ CallUnregister(t, s) /\ bpc[t] = "idle" /\ upc[t] = "unregisterNext"
          /\ todo' = [todo EXCEPT ![t] = todo[t] \ {s}] /\ withId' = withId \ {s}
    BY <1>4 DEF UnregisterNext
  <2>2. bpc'[t] = "unregister" /\ arg'[t] = s /\ own' = own /\ todo'[t] = todo[t] \ {s}
        /\ s \in Own
    BY <2>1, CallsAre, BundleAssumption DEF own
  <2>3. Mid(t)'
    BY <1>0, <1>1, <2>1, <2>2 DEF Mid, MidUnregister
  <2>4. Fits(t)'
    BY <1>0, <1>1, <2>1, <2>2 DEF Fits, Inside
  <2> QED
    BY <1>0, <1>1, <1>2, <2>3, <2>4, KeptInside, WorkingKept DEF Bundled
<1>5. CASE BusStep(t) /\ UNCHANGED bundleVars
  <2>1. UNCHANGED <<todo, withId>>
    BY <1>5 DEF bundleVars
  <2>2. CASE /\ bpc[t] \in {"register", "appended"} /\ bpc'[t] \in Holding
             /\ arg'[t] = arg[t] /\ ids' = ids
    <3>1. upc[t] \in {"registerNext", "added"} /\ own' = own
      BY <1>0, <2>2 DEF Fits, Inside, own
    <3>2. Mid(t)'
      BY <1>0, <1>1, <2>1, <2>2, <3>1 DEF Mid, MidRegister, MidAdd, Holding
    <3>3. Fits(t)'
      BY <1>0, <1>1, <2>2, <3>1 DEF Fits, Inside, Holding
    <3> QED
      BY <1>0, <1>1, <1>2, <3>2, <3>3, KeptInside, WorkingKept DEF Bundled
  <2>3. CASE /\ bpc[t] \in {"register", "sorting"} /\ bpc'[t] = "idle"
             /\ ids' = ids \cup {arg[t]}
    <3>1. upc[t] \in {"registerNext", "added"} /\ own' = own \cup ({arg[t]} \cap Own)
      BY <1>0, <2>3 DEF Fits, Inside, own
    <3>2. Mid(t)'
      <4>1. CASE upc[t] = "registerNext"
        BY <1>0, <1>1, <2>1, <2>3, <3>1, <4>1 DEF Mid, MidRegister
      <4>2. CASE upc[t] = "added"
        <5>1. item[t] \in Own
          BY <4>2 DEF AtWork
        <5> QED
          BY <1>0, <1>1, <2>1, <2>3, <3>1, <4>2, <5>1 DEF Mid, MidAdd
      <4> QED
        BY <3>1, <4>1, <4>2
    <3>3. Fits(t)'
      BY <1>0, <1>1, <2>3, <3>1 DEF Fits, Inside
    <3> QED
      BY <1>0, <1>1, <1>2, <3>2, <3>3, KeptInside, WorkingKept DEF Bundled
  <2>4. CASE bpc[t] = "unregister" /\ bpc'[t] = "idle" /\ ids' = ids \ {arg[t]}
    <3>1. upc[t] \in {"unregisterNext", "removed"} /\ own' = own \ {arg[t]}
      BY <1>0, <2>4 DEF Fits, Inside, Holding, own
    <3>2. Mid(t)'
      BY <1>0, <1>1, <2>1, <2>4, <3>1 DEF Mid, MidUnregister, MidRemove
    <3>3. Fits(t)'
      BY <1>0, <1>1, <2>4, <3>1 DEF Fits, Inside
    <3> QED
      BY <1>0, <1>1, <1>2, <3>2, <3>3, KeptInside, WorkingKept DEF Bundled
  <2>5. bpc[t] \notin {"collect", "deliver"}
    BY <1>0 DEF Fits, Inside, Holding
\* The id of an own subscription is found: it only leaves the map under the lock.
  <2>6. CASE /\ bpc[t] = "lookup" /\ ids' = ids
             /\ IF arg[t] \in ids THEN bpc'[t] = "unregister" /\ arg'[t] = arg[t]
                                  ELSE bpc'[t] = "idle"
    <3>1. upc[t] = "removed" /\ own' = own
      BY <1>0, <2>6 DEF Fits, Inside, Holding, own
    <3>2. arg[t] \in own /\ own \subseteq ids
      <4>1. item[t] \in subscriptions
        BY <3>1 DEF Bundled, Items
      <4> QED
        BY <1>0, <2>6, <3>1, <4>1 DEF Mid, MidRemove, own
    <3>3. Mid(t)'
      BY <1>0, <1>1, <2>1, <2>6, <3>1, <3>2 DEF Mid, MidRemove
    <3>4. Fits(t)'
      BY <1>0, <1>1, <2>6, <3>1, <3>2 DEF Fits, Inside
    <3> QED
      BY <1>0, <1>1, <1>2, <3>3, <3>4, KeptInside, WorkingKept DEF Bundled
  <2> QED
    BY <1>5, <2>2, <2>3, <2>4, <2>5, <2>6, BusStepIs
<1> QED
  BY <1>3, <1>4, <1>5

\* The end of a call that leaves the lock.
LEMMA LeavingKeeps ==
    ASSUME Typed, Typed', Bundled, NEW t \in Threads,
           \/ (RegisterNext(t) \/ UnregisterNext(t)) /\ todo[t] = {}
           \/ Added(t) \/ Removed(t)
    PROVE  Bundled'
<1> USE DEF Typed, BundleTypes
<1>0. /\ Mine(t) /\ Fits(t) /\ Mid(t)
  BY StepIsMine, WorkingFits DEF Bundled, Kept, Step, BundleStep
<1>1. /\ upc[t] \in Inside /\ bpc[t] = "idle" /\ upc'[t] = "idle" /\ item'[t] = None
      /\ bundleLock' = None /\ UNCHANGED <<busVars, registered>>
  BY DEF RegisterNext, UnregisterNext, Added, Removed, Leave, Goto, Inside
<1>2. bundleLock = t /\ own' = own /\ bpc'[t] = "idle"
  BY <1>0, <1>1 DEF Fits, busVars, own
<1>3. Fits(t)'
  BY <1>0, <1>1, <1>2, BusAssumption DEF Fits, Inside
<1>4. Settled'
  <2>1. CASE RegisterNext(t) /\ todo[t] = {}
    BY <1>0, <1>1, <1>2, <2>1 DEF RegisterNext, Mid, MidRegister, Settled
  <2>2. CASE UnregisterNext(t) /\ todo[t] = {}
    BY <1>0, <1>1, <1>2, <2>2 DEF UnregisterNext, Mid, MidUnregister, Settled
  <2>3. CASE Added(t)
    BY <1>0, <1>1, <1>2, <2>3 DEF Added, Mid, MidAdd, Settled
  <2>4. CASE Removed(t)
    BY <1>0, <1>1, <1>2, <2>4 DEF Removed, Mid, MidRemove, Settled
  <2> QED
    BY <2>1, <2>2, <2>3, <2>4
<1>5. Items'
  <2>1. \A s \in subscriptions' \ subscriptions : s = item[t] /\ upc[t] = "added"
    BY DEF RegisterNext, UnregisterNext, Added, Removed
  <2>2. \A u \in Threads \ {t} : upc[u] # "removed"
    BY <1>2 DEF Bundled, Working, Inside
  <2>3. /\ \A u \in Threads : upc'[u] = "removed" => item'[u] \in subscriptions'
        /\ \A u \in Threads : upc'[u] = "registering" => ~registered'
    BY <1>0, <1>1, <2>2 DEF Mine, Bundled, Items
  <2> QED
    BY <1>0, <1>1, <2>1, <2>3, ItemsKept DEF Bundled
<1> QED
  BY <1>0, <1>1, <1>2, <1>3, <1>4, <1>5, KeptLeaving, WorkingKept DEF Bundled, Inside

LEMMA BundledNext == OneRegistrar /\ Typed /\ Typed' /\ Bundled /\ [Next]_vars => Bundled'
<1> SUFFICES ASSUME OneRegistrar, Typed, Typed', Bundled, [Next]_vars PROVE Bundled'
  OBVIOUS
<1>1. CASE UNCHANGED vars
  BY <1>1 DEF vars, busVars, bundleVars, Bundled, Working, Items, Kept, Settled, Mid,
              MidRegister, MidUnregister, MidAdd, MidRemove, own
<1>2. CASE Next
  <2> PICK t \in Threads : Call(t) \/ Step(t)
    BY <1>2 DEF Next
  <2>1. RegisterNext(t) \/ UnregisterNext(t) => upc[t] \in Inside
    BY DEF RegisterNext, UnregisterNext, Inside
  <2> QED
    BY <2>1, OutsideKeeps, BeginKeeps, InsideKeeps, LeavingKeeps DEF Step, BundleStep
<1> QED
  BY <1>1, <1>2

LEMMA BundledInit == Init => Bundled
BY DEF Init, BusInit, Bundled, Working, Items, Kept, Settled, Mid, Inside, own

------------------------------------------------------------------------------
(* The lists of the bus and its ids *)

LEMMA RemovedOnce ==
    ASSUME NEW seq \in Seq(Subs), IsInjective(seq), NEW s \in ToSet(seq)
    PROVE  /\ ToSet(RemoveFirst(seq, s)) = ToSet(seq) \ {s}
           /\ IsInjective(RemoveFirst(seq, s))
           /\ InOrder(seq) => InOrder(RemoveFirst(seq, s))
<1> DEFINE rest == RemoveFirst(seq, s)
<1>1. PICK n \in 1..Len(seq) :
        /\ seq[n] = s /\ Len(rest) = Len(seq) - 1
        /\ \A i \in 1..(Len(seq) - 1) : rest[i] = IF i < n THEN seq[i] ELSE seq[i + 1]
  BY Removal
<1>2. /\ Len(seq) \in Nat /\ DOMAIN seq = 1..Len(seq) /\ rest \in Seq(Subs)
      /\ DOMAIN rest = 1..(Len(seq) - 1)
  BY <1>1, Removal, LenProperties
<1> HIDE DEF rest
<1> DEFINE old(i) == IF i < n THEN i ELSE i + 1
<1>3. \A i \in DOMAIN rest : old(i) \in DOMAIN seq \ {n} /\ rest[i] = seq[old(i)]
  BY <1>1, <1>2
<1>4. \A i, j \in DOMAIN rest : (i < j <=> old(i) < old(j)) /\ (old(i) = old(j) => i = j)
  BY <1>2
<1>5. \A k \in DOMAIN seq \ {n} : \E i \in DOMAIN rest : old(i) = k
  <2> SUFFICES ASSUME NEW k \in DOMAIN seq \ {n} PROVE \E i \in DOMAIN rest : old(i) = k
    OBVIOUS
  <2>1. CASE k < n
    <3>1. k \in DOMAIN rest /\ old(k) = k
      BY <1>2, <2>1
    <3> QED
      BY <3>1
  <2>2. CASE k > n
    <3>1. k - 1 \in DOMAIN rest /\ old(k - 1) = k
      BY <1>2, <2>2
    <3> QED
      BY <3>1
  <2> QED
    BY <1>2, <2>1, <2>2
<1> HIDE DEF old
<1>6. ToSet(rest) = ToSet(seq) \ {s}
  <2>1. ASSUME NEW x \in ToSet(rest) PROVE x \in ToSet(seq) \ {s}
    <3>1. PICK i \in DOMAIN rest : rest[i] = x
      BY <2>1 DEF ToSet
    <3>2. old(i) \in DOMAIN seq /\ old(i) # n /\ x = seq[old(i)]
      BY <1>3, <3>1
    <3>3. x # s
      BY <1>1, <1>2, <3>2 DEF IsInjective
    <3> QED
      BY <3>2, <3>3 DEF ToSet
  <2>2. ASSUME NEW x \in ToSet(seq) \ {s} PROVE x \in ToSet(rest)
    <3>1. PICK k \in DOMAIN seq : seq[k] = x
      BY <2>2 DEF ToSet
    <3>2. k # n
      BY <1>1, <2>2, <3>1
    <3>3. PICK i \in DOMAIN rest : old(i) = k
      BY <1>5, <3>2
    <3> QED
      BY <1>3, <3>1, <3>3 DEF ToSet
  <2> QED
    BY <2>1, <2>2
<1>7. IsInjective(rest)
  BY <1>3, <1>4 DEF IsInjective
<1>8. InOrder(seq) => InOrder(rest)
  BY <1>3, <1>4 DEF InOrder
<1> QED
  BY <1>6, <1>7, <1>8 DEF rest

\* A subscription that is being registered is not known yet.
LEMMA RegisteringIsNew ==
    ASSUME Typed, Bundled, NEW t \in Threads, bpc[t] \in {"register"} \cup Holding
    PROVE  arg[t] \in Own \ ids
<1>1. Fits(t) /\ Mid(t)
  BY WorkingFits DEF Bundled, Kept
<1>2. upc[t] \in {"registerNext", "added"}
  BY <1>1 DEF Fits, Inside, Holding
<1>3. item[t] \in Own \/ upc[t] # "added"
  BY DEF Typed, BundleTypes, AtWork
<1>4. item[t] \notin subscriptions \/ upc[t] # "added"
  BY DEF Bundled, Items
<1>5. CASE upc[t] = "registerNext"
  BY <1>1, <1>5 DEF Mid, MidRegister, own, Holding, Typed, BundleTypes
<1>6. CASE upc[t] = "added"
  BY <1>1, <1>3, <1>4, <1>6 DEF Mid, MidAdd, own, Holding
<1> QED
  BY <1>2, <1>5, <1>6

LEMMA OneListChanges ==
    ASSUME NEW ty, NEW list, Becomes(ty, list)
    PROVE  /\ ListOf(ty)' = list
           /\ \A other : other # ty => ListOf(other)' = ListOf(other)
BY DEF Becomes, ListOf

LEMMA ListedKept ==
    ASSUME Typed, Bundled, Listed, NEW t \in Threads, BusMove(t)
    PROVE  Listed'
<1> DEFINE s == arg[t]
           ty == TypeOf[s]
<1>0. /\ None \notin Threads
      /\ \A x \in DOMAIN lists : lists[x] \in Seq(Subs) /\ ListOf(x) = lists[x]
      /\ \A u \in Threads : bpc[u] \in Holding => busLock = u
      /\ busLock # None => busLock \in Threads /\ bpc[busLock] \in Holding
  BY ListsAre, BusAssumption DEF Typed, BusTypes, BusLocked, ListOf
<1>1. CASE FirstOfType(t)
  <2>1. /\ ty \notin DOMAIN lists /\ ids' = ids \cup {s}
        /\ busLock = None /\ busLock' = None /\ s \in Subs
        /\ lists' = [x \in DOMAIN lists \cup {ty} |-> IF x = ty THEN <<s>> ELSE lists[x]]
    BY <1>1 DEF FirstOfType, Typed, BusLocked, Passing
  <2>a. Becomes(ty, <<s>>)
    BY <2>1 DEF Becomes
  <2>b. ListOf(ty) = <<>>
    BY <2>1 DEF ListOf
  <2>c. \A x : ListOf(x)' = IF x = ty THEN <<s>> ELSE ListOf(x)
    BY <2>1 DEF ListOf
  <2>3. \A x \in Subs : On(x)' <=> x \in ids'
    <3> SUFFICES ASSUME NEW x \in Subs PROVE On(x)' <=> x \in ids'
      OBVIOUS
    <3>1. CASE TypeOf[x] = ty
      <4>a. ToSet(<<>>) = {} /\ ToSet(<<s>>) = {s}
        BY DEF ToSet
      <4>b. ListOf(TypeOf[x]) = <<>> /\ ListOf(TypeOf[x])' = <<s>>
        BY <2>b, <2>c, <3>1 DEF ty
      <4>1. ~On(x) /\ (On(x)' <=> x = s)
        BY <4>a, <4>b DEF On
      <4> QED
        BY <2>1, <4>1 DEF Listed
    <3>2. CASE TypeOf[x] # ty
      BY <2>1, <2>c, <3>2 DEF On, Listed
    <3> QED
      BY <3>1, <3>2
  <2>4. IsInjective(<<s>>) /\ InOrder(<<s>>)
    BY DEF IsInjective, InOrder
  <2>5. \A x \in DOMAIN lists' : IsInjective(lists'[x]) /\ InOrder(lists'[x])
    BY <2>1, <2>4, <2>a DEF Becomes, Listed
  <2> QED
    BY <2>1, <2>3, <2>5 DEF Listed
<1>2. CASE AppendToList(t)
  <2>1. /\ Becomes(ty, Append(lists[ty], s)) /\ ty \in DOMAIN lists /\ ids' = ids
        /\ busLock = None /\ busLock' = t /\ arg' = arg /\ s \in Subs
    BY <1>2, ListSteps DEF AppendToList, Typed, BusLocked, Passing, FirstOfType, SortEnds,
                           RemoveFromList
  <2>2. s \notin ids
    BY <1>2, RegisteringIsNew DEF AppendToList
  <2>3. s \notin ToSet(lists[ty])
    BY <1>0, <2>1, <2>2 DEF Listed, On
  <2>4. /\ lists[ty] \in Seq(Subs) /\ IsInjective(lists[ty])
        /\ DOMAIN lists[ty] = 1..Len(lists[ty]) /\ Len(lists[ty]) \in Nat
    BY <1>0, <2>1, LenProperties DEF Listed
  <2> DEFINE more == Append(lists[ty], s)
  <2>5. /\ DOMAIN more = 1..(Len(lists[ty]) + 1) /\ more[Len(lists[ty]) + 1] = s
        /\ \A i \in 1..Len(lists[ty]) : more[i] = lists[ty][i]
    BY <2>1, <2>4, AppendProperties, LenProperties
  <2> HIDE DEF more
  <2>6. IsInjective(more)
    <3> SUFFICES ASSUME NEW i \in DOMAIN more, NEW j \in DOMAIN more, more[i] = more[j]
                 PROVE  i = j
      BY DEF IsInjective
    <3>1. \A k \in DOMAIN lists[ty] : more[k] = lists[ty][k] /\ more[k] # s
      BY <2>3, <2>4, <2>5 DEF ToSet
    <3>2. \A k \in DOMAIN more : k \in DOMAIN lists[ty] \/ k = Len(lists[ty]) + 1
      <4>1. \A n \in Nat : \A k \in 1..(n + 1) : k \in 1..n \/ k = n + 1
        OBVIOUS
      <4> QED
        BY <2>4, <2>5, <4>1
    <3>3. CASE i \in DOMAIN lists[ty] /\ j \in DOMAIN lists[ty]
      BY <2>4, <3>1, <3>3 DEF IsInjective
    <3>4. CASE i \in DOMAIN lists[ty] <=> j \notin DOMAIN lists[ty]
      BY <2>5, <3>1, <3>2, <3>4
    <3>5. CASE i \notin DOMAIN lists[ty] /\ j \notin DOMAIN lists[ty]
      BY <3>2, <3>5
    <3> QED
      BY <3>3, <3>4, <3>5
  <2>7. ToSet(more) = ToSet(lists[ty]) \cup {s}
    <3>1. ASSUME NEW x \in ToSet(more) PROVE x \in ToSet(lists[ty]) \cup {s}
      <4>1. PICK i \in DOMAIN more : more[i] = x
        BY <3>1 DEF ToSet
      <4>2. i = Len(lists[ty]) + 1 \/ i \in DOMAIN lists[ty]
        BY <2>4, <2>5
      <4> QED
        BY <2>4, <2>5, <4>1, <4>2 DEF ToSet
    <3>2. ASSUME NEW x \in ToSet(lists[ty]) PROVE x \in ToSet(more)
      <4>1. PICK i \in DOMAIN lists[ty] : lists[ty][i] = x
        BY <3>2 DEF ToSet
      <4>2. i \in DOMAIN more
        BY <2>4, <2>5
      <4> QED
        BY <2>4, <2>5, <4>1, <4>2 DEF ToSet
    <3>3. s \in ToSet(more)
      <4>1. Len(lists[ty]) + 1 \in DOMAIN more
        BY <2>4, <2>5
      <4> QED
        BY <2>5, <4>1 DEF ToSet
    <3> QED
      BY <3>1, <3>2, <3>3
  <2>8. \A x \in Subs : On(x)' <=> x \in ids' \/ x = s
    <3> SUFFICES ASSUME NEW x \in Subs PROVE On(x)' <=> x \in ids \/ x = s
      BY <2>1
    <3>1. CASE TypeOf[x] = ty
      BY <1>0, <2>1, <2>7, <3>1, OneListChanges DEF On, Listed, more
    <3>2. CASE TypeOf[x] # ty
      BY <2>1, <3>2, OneListChanges DEF On, Listed
    <3> QED
      BY <3>1, <3>2
  <2>9. \A x \in DOMAIN lists' : IsInjective(lists'[x]) /\ (InOrder(lists'[x]) \/ x = ty)
    BY <2>1, <2>6 DEF Becomes, Listed, more
  <2> QED
    BY <1>0, <2>1, <2>8, <2>9 DEF Listed
<1>3. CASE SortEnds(t)
  <2>1. /\ Becomes(ty, StableSort(lists[ty])) /\ ids' = ids \cup {s}
        /\ busLock = t /\ busLock' = None /\ s \in Subs /\ ty \in DOMAIN lists
    BY <1>0, <1>3, ListSteps DEF SortEnds, Typed, BusLocked, Passing, Holding, FirstOfType,
                                 AppendToList, RemoveFromList
  <2>2. /\ IsInjective(StableSort(lists[ty])) /\ InOrder(StableSort(lists[ty]))
        /\ ToSet(StableSort(lists[ty])) = ToSet(lists[ty])
    BY <1>0, <2>1, SortResult DEF Listed
  <2>3. \A x \in Subs : On(x)' <=> On(x)
    <3> TAKE x \in Subs
    <3>1. CASE TypeOf[x] = ty
      BY <1>0, <2>1, <2>2, <3>1, OneListChanges DEF On
    <3>2. CASE TypeOf[x] # ty
      BY <2>1, <3>2, OneListChanges DEF On
    <3> QED
      BY <3>1, <3>2
  <2>4. \A x \in DOMAIN lists' : IsInjective(lists'[x]) /\ InOrder(lists'[x])
    BY <2>1, <2>2 DEF Becomes, Listed
  <2> QED
    BY <1>0, <2>1, <2>3, <2>4 DEF Listed
<1>4. CASE RemoveFromList(t) /\ s \in ToSet(ListOf(ty))
  <2>1. /\ ty \in DOMAIN lists /\ ids' = ids \ {s} /\ s \in Subs
        /\ busLock = None /\ busLock' = None
        /\ lists' = [lists EXCEPT ![ty] = RemoveFirst(lists[ty], s)]
    BY <1>4 DEF RemoveFromList, Typed, BusLocked, Passing, ListOf, ToSet
  <2>a. lists \in [DOMAIN lists -> Seq(Subs)]
    BY ListsAre DEF Typed, BusTypes
  <2>2. Becomes(ty, RemoveFirst(lists[ty], s))
    BY <2>1, <2>a DEF Becomes
  <2>3. /\ IsInjective(RemoveFirst(lists[ty], s))
        /\ InOrder(lists[ty]) => InOrder(RemoveFirst(lists[ty], s))
        /\ ToSet(RemoveFirst(lists[ty], s)) = ToSet(lists[ty]) \ {s}
    BY <1>0, <1>4, <2>1, RemovedOnce DEF Listed
  <2>4. \A x \in Subs : On(x)' <=> x \in ids'
    <3> SUFFICES ASSUME NEW x \in Subs PROVE On(x)' <=> x \in ids \ {s}
      BY <2>1
    <3>0. On(x) <=> x \in ids
      BY <2>1 DEF Listed
    <3>1. CASE TypeOf[x] = ty
      BY <1>0, <2>1, <2>2, <2>3, <3>0, <3>1, OneListChanges DEF On
    <3>2. CASE TypeOf[x] # ty
      BY <2>2, <3>0, <3>2, OneListChanges DEF On
    <3> QED
      BY <3>1, <3>2
  <2>5. \A x \in DOMAIN lists' : IsInjective(lists'[x]) /\ InOrder(lists'[x])
    BY <2>1, <2>2, <2>3 DEF Becomes, Listed
  <2> QED
    BY <2>1, <2>4, <2>5 DEF Listed
<1>5. CASE RemoveFromList(t) /\ s \notin ToSet(ListOf(ty))
  <2>1. /\ ids' = ids \ {s} /\ s \in Subs /\ lists' = lists
        /\ busLock = None /\ busLock' = None
    BY <1>5 DEF RemoveFromList, Typed, BusLocked, Passing
  <2>2. s \notin ids
    BY <1>5, <2>1 DEF Listed, On
  <2> QED
    BY <2>1, <2>2 DEF Listed, On, ListOf
<1>6. CASE SortBegins(t) \/ Lookup(t) \/ Collect(t) \/ Collected(t) \/ Deliver(t) \/ CallPost(t)
           \/ \E x \in Subs : CallRegister(t, x) \/ CallUnregister(t, x) \/ CallLookup(t, x)
  <2>1. UNCHANGED <<lists, ids, busLock>>
    BY <1>6 DEF SortBegins, Lookup, Collect, Collected, Deliver, CallPost, CallRegister, CallUnregister, CallLookup
  <2>2. busLock # None => arg'[busLock] = arg[busLock]
    <3>1. CASE busLock = t
      BY <1>0, <1>6, <3>1 DEF SortBegins, Lookup, Collect, Collected, Deliver, CallPost, CallRegister,
                              CallUnregister, CallLookup, Holding
    <3>2. CASE busLock # t
      BY <1>0, <3>2, OneMoves
    <3> QED
      BY <3>1, <3>2
  <2> QED
    BY <2>1, <2>2 DEF Listed, On, ListOf
<1> QED
  BY <1>1, <1>2, <1>3, <1>4, <1>5, <1>6 DEF BusMove, BusStep

LEMMA ListedNext == Typed /\ Bundled /\ Listed /\ [Next]_vars => Listed'
<1> SUFFICES ASSUME Typed, Bundled, Listed, [Next]_vars PROVE Listed'
  OBVIOUS
<1>1. CASE UNCHANGED busVars
  BY <1>1 DEF busVars, Listed, On, ListOf
<1>2. CASE Next /\ ~UNCHANGED busVars
  BY <1>2, BusMoves, ListedKept DEF Next, Typed
<1> QED
  BY <1>1, <1>2 DEF vars

LEMMA ListedInit == Init => Listed
<1> SUFFICES ASSUME Init PROVE Listed
  OBVIOUS
<1> DEFINE others(x) == {s \in Subs \ Own : TypeOf[s] = x}
<1>1. /\ ids = Subs \ Own /\ busLock = None
      /\ lists = [x \in {TypeOf[s] : s \in Subs \ Own} |-> StableSort(SetToSeq(others(x)))]
  BY DEF Init, BusInit
<1>2. ASSUME NEW x \in DOMAIN lists
      PROVE  IsInjective(lists[x]) /\ InOrder(lists[x]) /\ ToSet(lists[x]) = others(x)
  <2>1. lists[x] = StableSort(SetToSeq(others(x)))
    BY <1>1, <1>2
  <2>2. /\ SetToSeq(others(x)) \in Seq(Subs) /\ IsInjective(SetToSeq(others(x)))
        /\ ToSet(SetToSeq(others(x))) = others(x)
    BY SeqOfSet
  <2> HIDE DEF others
  <2> QED
    BY <2>1, <2>2, SortResult
<1>3. ASSUME NEW s \in Subs PROVE On(s) <=> s \in ids
  <2>1. CASE TypeOf[s] \in DOMAIN lists
    BY <1>1, <1>2, <2>1 DEF On, ListOf
  <2>2. CASE TypeOf[s] \notin DOMAIN lists
    BY <1>1, <2>2 DEF On, ListOf, ToSet
  <2> QED
    BY <2>1, <2>2
<1> QED
  BY <1>1, <1>2, <1>3 DEF Listed

LEMMA BundleInvariant ==
    ASSUME OneRegistrar PROVE Spec => [](Typed /\ Bundled /\ Listed)
<1>1. Typed /\ Bundled /\ Listed /\ [Next]_vars => (Typed /\ Bundled /\ Listed)'
  BY TypedNext, BundledNext, ListedNext
<1>2. Init => Typed /\ Bundled /\ Listed
  BY TypedInit, BundledInit, ListedInit
<1> QED
  BY <1>1, <1>2, PTL DEF Spec

\* Whoever looks at the bus while its lock is free finds every list in order,
\* nothing in it twice, and in all of them what the id map knows, for any
\* subscriptions and threads of which at most one calls register().
THEOREM BusIsConsistentHolds ==
    ASSUME OneRegistrar PROVE Spec => []BusIsConsistent
<1>1. Typed /\ Listed => BusIsConsistent
  <2> SUFFICES ASSUME Typed, Listed, busLock = None
               PROVE  /\ \A ty \in DOMAIN lists :
                           lists[ty] = StableSort(lists[ty]) /\ IsInjective(lists[ty])
                      /\ UNION {ToSet(lists[ty]) : ty \in DOMAIN lists} = ids
    BY DEF BusIsConsistent
  <2>0. \A x \in DOMAIN lists : lists[x] \in Seq(Subs) /\ ListOf(x) = lists[x]
    BY ListsAre DEF Typed, BusTypes, ListOf
  <2>1. \A ty \in DOMAIN lists : lists[ty] = StableSort(lists[ty]) /\ IsInjective(lists[ty])
    BY <2>0, SortIsStable DEF Listed
  <2>2. ASSUME NEW ty \in DOMAIN lists, NEW s \in ToSet(lists[ty]) PROVE s \in ids
    <3>1. s \in Subs /\ TypeOf[s] = ty
      BY <2>0, <2>2, SubsAreOrdered DEF Typed, BusTypes, ToSet
    <3> QED
      BY <2>0, <2>2, <3>1 DEF Listed, On
  <2>3. ASSUME NEW s \in ids PROVE \E ty \in DOMAIN lists : s \in ToSet(lists[ty])
    <3>1. s \in Subs /\ On(s)
      BY <2>3 DEF Listed, Typed, BusTypes
    <3> QED
      BY <3>1 DEF On, ListOf, ToSet
  <2> QED
    BY <2>1, <2>2, <2>3
<1> QED
  BY <1>1, BundleInvariant, PTL

\* Between the calls of a bundle, all of its subscriptions are on the bus if it is
\* registered and none if it is not, and those that are there are those whose id it
\* knows, however its calls interleave with each other and with those of the bus,
\* as long as at most one thread calls register().
THEOREM BundleMatchesBusHolds ==
    ASSUME OneRegistrar PROVE Spec => []BundleMatchesBus
<1>1. Bundled => BundleMatchesBus
  BY DEF Bundled, Kept, Settled, own, BundleMatchesBus
<1> QED
  BY <1>1, BundleInvariant, PTL
==============================================================================
