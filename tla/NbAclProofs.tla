---------------------------- MODULE NbAclProofs ----------------------------
(***************************************************************************)
(* Proofs about NbAcl, for every set of entries and of foreign elements    *)
(* and every choice of permissions.                                        *)
(***************************************************************************)
EXTENDS NbAcl, TLAPS, FiniteSetTheorems, WellFoundedInduction, NaturalsInduction, SequenceTheorems

-----------------------------------------------------------------------------
(* Sets of natural numbers.                                                *)
LEMMA LeastElement ==
  ASSUME NEW T \in SUBSET Nat, NEW x \in T
  PROVE  \E m \in T : \A y \in T : m <= y
<1> DEFINE R == {ss \in Nat \X Nat : ss[1] < ss[2]}
<1>1. \A a, b \in Nat : a < b => <<a, b>> \in R
  OBVIOUS
<1>2. IsWellFoundedOn(R, Nat)
  BY NatLessThanWellFounded DEF OpToRel
<1> HIDE DEF R
<1>3. PICK m \in T : \A y \in T : ~ (<<y, m>> \in R)
  BY <1>2, WFMin
<1>4. \A y \in T : m <= y
  <2>1. ASSUME NEW y \in T PROVE m <= y
    <3>1. y \in Nat /\ m \in Nat
      OBVIOUS
    <3>2. ~ (y < m)
      BY <1>1, <1>3, <3>1
    <3> QED BY <3>1, <3>2
  <2> QED BY <2>1
<1> QED BY <1>4

LEMMA FirstSelected ==
  ASSUME NEW n \in Nat, NEW I \in SUBSET (1..n), I # {}
  PROVE  Min(I) \in I
<1>1. PICK x : x \in I
  OBVIOUS
<1>2. I \in SUBSET Nat
  OBVIOUS
<1>3. \E m \in I : \A y \in I : m <= y
  BY <1>1, <1>2, LeastElement
<1> QED BY <1>3 DEF Min

(* Rank is a bijection between a finite set of numbers and 1..its size.    *)
Rank(x, S) == Cardinality({y \in S : y <= x})

LEMMA RankType ==
  ASSUME NEW S \in SUBSET Nat, IsFiniteSet(S), NEW x \in S
  PROVE  Rank(x, S) \in 1..Cardinality(S)
<1> DEFINE low == {y \in S : y <= x}
<1>1. low \in SUBSET S /\ x \in low
  OBVIOUS
<1>2. IsFiniteSet(low) /\ Cardinality(low) <= Cardinality(S)
  BY <1>1, FS_Subset
<1>3. Cardinality(low) \in Nat /\ Cardinality(S) \in Nat /\ Cardinality(low) # 0
  BY <1>1, <1>2, FS_CardinalityType, FS_EmptySet
<1> HIDE DEF low
<1>4. Cardinality(low) \in 1..Cardinality(S)
  BY <1>2, <1>3
<1> QED BY <1>4 DEF Rank, low

LEMMA RankInjective ==
  ASSUME NEW S \in SUBSET Nat, IsFiniteSet(S), NEW a \in S, NEW b \in S, Rank(a, S) = Rank(b, S)
  PROVE  a = b
<1>1. ASSUME NEW p \in S, NEW q \in S, p < q, Rank(p, S) = Rank(q, S)
      PROVE  FALSE
  <2> DEFINE low(x) == {y \in S : y <= x}
  <2>1. p \in Nat /\ q \in Nat
    OBVIOUS
  <2>2. low(p) \in SUBSET low(q)
    <3>1. ASSUME NEW y \in S, y <= p PROVE y <= q
      <4>1. y \in Nat
        OBVIOUS
      <4> QED BY <1>1, <2>1, <3>1, <4>1
    <3> QED BY <3>1
  <2>3. q \in low(q) /\ q \notin low(p)
    BY <1>1, <2>1
  <2>4. IsFiniteSet(low(q))
    <3>1. low(q) \in SUBSET S
      OBVIOUS
    <3> QED BY <3>1, FS_Subset
  <2>5. Cardinality(low(p)) = Cardinality(low(q))
    BY <1>1 DEF Rank
  <2> HIDE DEF low
  <2> QED BY <2>2, <2>3, <2>4, <2>5, FS_Subset
<1>2. a \in Nat /\ b \in Nat
  OBVIOUS
<1>3. ~(a < b) /\ ~(b < a)
  BY <1>1
<1> QED BY <1>2, <1>3

LEMMA RankSurjective ==
  ASSUME NEW S \in SUBSET Nat, IsFiniteSet(S), NEW i \in 1..Cardinality(S)
  PROVE  \E x \in S : Rank(x, S) = i
<1> DEFINE rank == [x \in S |-> Rank(x, S)]
           T == 1..Cardinality(S)
<1>1. Cardinality(S) \in Nat
  BY FS_CardinalityType
<1>2. rank \in [S -> T]
  BY RankType
<1>3. \A a, b \in S : rank[a] = rank[b] => a = b
  BY RankInjective
<1>4. rank \in Injection(S, T)
  BY <1>2, <1>3 DEF Injection, IsInjective
<1>5. IsFiniteSet(T) /\ Cardinality(T) = Cardinality(S)
  BY <1>1, FS_Interval
<1>6. rank \in Surjection(S, T)
  <2> HIDE DEF T, rank
  <2> QED BY <1>4, <1>5, FS_Injection
<1>7. \A t \in T : \E s \in S : rank[s] = t
  BY <1>6 DEF Surjection
<1> QED BY <1>7

LEMMA InOrderIs ==
  ASSUME NEW S \in SUBSET Nat, IsFiniteSet(S)
  PROVE  /\ InOrder(S) \in Seq(S)
         /\ Range(InOrder(S)) = S
         /\ \A i, j \in DOMAIN InOrder(S) : InOrder(S)[i] = InOrder(S)[j] => i = j
<1> DEFINE n == Cardinality(S)
           s == InOrder(S)
<1>1. n \in Nat
  BY FS_CardinalityType
<1>2. s = [i \in 1..n |-> CHOOSE x \in S : Rank(x, S) = i]
  BY DEF InOrder, Rank
<1> HIDE DEF s
<1>3. \A i \in 1..n : s[i] \in S /\ Rank(s[i], S) = i
  <2>1. ASSUME NEW i \in 1..n PROVE s[i] \in S /\ Rank(s[i], S) = i
    <3>1. \E x \in S : Rank(x, S) = i
      BY RankSurjective
    <3> QED BY <1>2, <3>1
  <2> QED BY <2>1
<1>4. DOMAIN s = 1..n
  BY <1>2
<1>5. s \in Seq(S)
  BY <1>1, <1>2, <1>3, SeqDef
<1>6. \A x \in S : \E i \in DOMAIN s : s[i] = x
  <2>1. ASSUME NEW x \in S PROVE \E i \in DOMAIN s : s[i] = x
    <3>1. Rank(x, S) \in 1..n
      BY RankType
    <3>2. s[Rank(x, S)] = x
      BY <1>3, <3>1, RankInjective
    <3> QED BY <1>4, <3>1, <3>2
  <2> QED BY <2>1
<1>7. Range(s) = S
  BY <1>3, <1>4, <1>6 DEF Range
<1>8. \A i, j \in DOMAIN s : s[i] = s[j] => i = j
  BY <1>3, <1>4
<1> QED BY <1>5, <1>7, <1>8 DEF s
-----------------------------------------------------------------------------
(* Lists.                                                                  *)
LEMMA RangeIsFinite ==
  ASSUME NEW S, NEW list \in Seq(S)
  PROVE  IsFiniteSet(Range(list)) /\ Range(list) \in SUBSET S
<1>1. Len(list) \in Nat /\ list \in [1..Len(list) -> S] /\ DOMAIN list = 1..Len(list)
  BY LenProperties
<1>2. IsFiniteSet(1..Len(list))
  BY <1>1, FS_Interval
<1>3. list \in Surjection(1..Len(list), Range(list))
  BY <1>1 DEF Surjection, Range
<1>4. IsFiniteSet(Range(list))
  BY <1>2, <1>3, FS_Surjection
<1> QED BY <1>1, <1>4 DEF Range

(* A list of an ACL: nothing in it twice.                                  *)
IsList(list) ==
  /\ list \in Seq(Nat)
  /\ \A i, j \in DOMAIN list : list[i] = list[j] => i = j

LEMMA InOrderIsList ==
  ASSUME NEW S \in SUBSET Nat, IsFiniteSet(S)
  PROVE  IsList(InOrder(S)) /\ Range(InOrder(S)) = S
BY InOrderIs, SeqMonotonic DEF IsList

LEMMA SortUniqueIs ==
  ASSUME NEW list \in Seq(Nat)
  PROVE  IsList(SortUnique(list)) /\ Range(SortUnique(list)) = Range(list)
BY RangeIsFinite, InOrderIsList DEF SortUnique

LEMMA WithEntryIs ==
  ASSUME NEW list, IsList(list), NEW entry \in Nat
  PROVE  /\ IsList(WithEntry(list, entry))
         /\ Range(WithEntry(list, entry)) \ {0} = (Range(list) \ {0}) \cup ({entry} \ {0})
<1>1. CASE entry = 0
  BY <1>1 DEF WithEntry
<1>2. CASE entry # 0
  <2> DEFINE more == Append(list, entry)
  <2>1. list \in Seq(Nat)
    BY DEF IsList
  <2>2. /\ more \in Seq(Nat) /\ Len(more) = Len(list) + 1
        /\ \A i \in 1..Len(list) : more[i] = list[i]
        /\ more[Len(list) + 1] = entry
    BY <2>1, AppendProperties
  <2>3. /\ Len(list) \in Nat /\ DOMAIN list = 1..Len(list)
        /\ DOMAIN more = 1..Len(more)
    BY <2>1, <2>2, LenProperties
  <2> HIDE DEF more
  <2>4. Range(more) = Range(list) \cup {entry}
    <3>1. ASSUME NEW x \in Range(more) PROVE x \in Range(list) \cup {entry}
      <4>1. PICK i \in 1..(Len(list) + 1) : more[i] = x
        BY <2>2, <2>3 DEF Range
      <4>2. CASE i = Len(list) + 1
        BY <2>2, <4>1, <4>2
      <4>3. CASE i \in 1..Len(list)
        BY <2>2, <2>3, <4>1, <4>3 DEF Range
      <4> QED BY <2>3, <4>1, <4>2, <4>3
    <3>2. ASSUME NEW x \in Range(list) PROVE x \in Range(more)
      <4>1. PICK i \in 1..Len(list) : list[i] = x
        BY <2>3 DEF Range
      <4> QED BY <2>2, <2>3, <4>1 DEF Range
    <3>3. entry \in Range(more)
      <4>1. Len(list) + 1 \in DOMAIN more
        BY <2>2, <2>3
      <4> QED BY <2>2, <4>1 DEF Range
    <3> QED BY <3>1, <3>2, <3>3
  <2>5. WithEntry(list, entry) = SortUnique(more)
    BY <1>2 DEF WithEntry, more
  <2>6. IsList(SortUnique(more)) /\ Range(SortUnique(more)) = Range(more)
    BY <2>2, SortUniqueIs
  <2> QED BY <1>2, <2>4, <2>5, <2>6
<1> QED BY <1>1, <1>2

(* In a list with nothing twice, erasing the first that is equal erases    *)
(* all that is equal.                                                      *)
LEMMA FirstEqual ==
  ASSUME NEW S, NEW list \in Seq(S), NEW entry \in Range(list)
  PROVE  /\ SelectInSeq(list, LAMBDA e : e = entry) \in 1..Len(list)
         /\ list[SelectInSeq(list, LAMBDA e : e = entry)] = entry
<1> DEFINE I == {i \in 1..Len(list) : list[i] = entry}
<1>1. Len(list) \in Nat /\ DOMAIN list = 1..Len(list)
  BY LenProperties
<1>2. I \in SUBSET (1..Len(list)) /\ I # {}
  BY <1>1 DEF Range
<1>3. SelectInSeq(list, LAMBDA e : e = entry) = Min(I)
  BY <1>2 DEF SelectInSeq
<1>4. Min(I) \in I
  <2> HIDE DEF I
  <2> QED BY <1>1, <1>2, FirstSelected
<1> QED BY <1>3, <1>4

LEMMA WithoutEntryIs ==
  ASSUME NEW list, IsList(list), NEW entry \in Nat
  PROVE  /\ IsList(WithoutEntry(list, entry))
         /\ Range(WithoutEntry(list, entry)) \ {0} = (Range(list) \ {0}) \ {entry}
<1>1. CASE entry = 0 \/ entry \notin Range(list)
  BY <1>1 DEF WithoutEntry
<1>2. CASE entry # 0 /\ entry \in Range(list)
  <2>1. list \in Seq(Nat) /\ \A i, j \in DOMAIN list : list[i] = list[j] => i = j
    BY DEF IsList
  <2>2. Len(list) \in Nat /\ DOMAIN list = 1..Len(list) /\ list \in [1..Len(list) -> Nat]
    BY <2>1, LenProperties
  <2>3. PICK k \in 1..Len(list) : /\ list[k] = entry
                                 /\ WithoutEntry(list, entry) = RemoveAt(list, k)
    BY <1>2, <2>1, FirstEqual DEF WithoutEntry
  <2> DEFINE before == SubSeq(list, 1, k - 1)
             after  == SubSeq(list, k + 1, Len(list))
             less   == before \o after
  <2>4. /\ before \in Seq(Nat) /\ Len(before) = k - 1
        /\ \A i \in 1..(k - 1) : before[i] = list[i]
    BY <2>2, SubSeqProperties
  <2>5. /\ after \in Seq(Nat) /\ Len(after) = Len(list) - k
        /\ \A i \in 1..(Len(list) - k) : after[i] = list[i + k]
    <3>1. k + 1 \in Int /\ Len(list) \in Int /\ \A i \in (k + 1)..Len(list) : list[i] \in Nat
      BY <2>2
    <3>2. /\ after \in Seq(Nat)
          /\ Len(after) = IF k + 1 <= Len(list) THEN Len(list) - (k + 1) + 1 ELSE 0
          /\ \A i \in 1..(Len(list) - (k + 1) + 1) : after[i] = list[(k + 1) + i - 1]
      BY <3>1, SubSeqProperties
    <3> HIDE DEF after
    <3>3. \A i \in 1..(Len(list) - k) : after[i] = list[i + k]
      <4>1. ASSUME NEW i \in 1..(Len(list) - k) PROVE after[i] = list[i + k]
        <5>1. i \in 1..(Len(list) - (k + 1) + 1) /\ (k + 1) + i - 1 = i + k
          BY <2>2
        <5> QED BY <3>2, <5>1
      <4> QED BY <4>1
    <3>4. Len(after) = Len(list) - k
      <4>1. CASE k + 1 <= Len(list)
        BY <2>2, <3>2, <4>1
      <4>2. CASE ~(k + 1 <= Len(list))
        <5>1. k = Len(list)
          <6>1. k \in Int /\ Len(list) \in Int /\ k <= Len(list)
            BY <2>2
          <6> QED BY <4>2, <6>1
        <5> QED BY <2>2, <3>2, <4>2, <5>1
      <4> QED BY <4>1, <4>2
    <3> QED BY <3>2, <3>3, <3>4
  <2> HIDE DEF before, after
  <2>6. /\ less \in Seq(Nat) /\ Len(less) = Len(list) - 1
        /\ \A i \in 1..(Len(list) - 1) : less[i] = IF i <= k - 1 THEN list[i] ELSE list[i + 1]
    <3>1. /\ less \in Seq(Nat)
          /\ Len(less) = Len(before) + Len(after)
          /\ \A i \in 1..(Len(before) + Len(after)) :
               less[i] = IF i <= Len(before) THEN before[i] ELSE after[i - Len(before)]
      BY <2>4, <2>5, ConcatProperties
    <3> HIDE DEF less
    <3>2. Len(before) + Len(after) = Len(list) - 1
      BY <2>2, <2>4, <2>5
    <3>3. ASSUME NEW i \in 1..(Len(list) - 1)
          PROVE  less[i] = IF i <= k - 1 THEN list[i] ELSE list[i + 1]
      <4>1. CASE i <= k - 1
        <5>1. i \in 1..(k - 1) /\ i \in 1..(Len(before) + Len(after)) /\ i <= Len(before)
          BY <2>2, <2>4, <3>2, <4>1
        <5> QED BY <2>4, <3>1, <4>1, <5>1
      <4>2. CASE ~(i <= k - 1)
        <5>1. less[i] = after[i - (k - 1)]
          BY <2>4, <3>1, <3>2, <4>2
        <5>2. i - (k - 1) \in 1..(Len(list) - k) /\ (i - (k - 1)) + k = i + 1
          BY <2>2, <4>2
        <5> QED BY <2>5, <4>2, <5>1, <5>2
      <4> QED BY <4>1, <4>2
    <3> QED BY <3>1, <3>2, <3>3
  <2>7. DOMAIN less = 1..(Len(list) - 1)
    BY <2>6, LenProperties
  <2>8. WithoutEntry(list, entry) = less
    BY <2>3 DEF RemoveAt, before, after
  <2> HIDE DEF less
  <2>9. \A i, j \in DOMAIN less : less[i] = less[j] => i = j
    <3>1. ASSUME NEW i \in 1..(Len(list) - 1)
          PROVE  \E p \in 1..Len(list) : less[i] = list[p] /\ p = IF i <= k - 1 THEN i ELSE i + 1
      BY <2>2, <2>6
    <3>2. ASSUME NEW i \in 1..(Len(list) - 1), NEW j \in 1..(Len(list) - 1), less[i] = less[j]
          PROVE  i = j
      <4>1. PICK p \in 1..Len(list) : less[i] = list[p] /\ p = IF i <= k - 1 THEN i ELSE i + 1
        BY <3>1
      <4>2. PICK q \in 1..Len(list) : less[j] = list[q] /\ q = IF j <= k - 1 THEN j ELSE j + 1
        BY <3>1
      <4>3. p = q
        BY <2>1, <2>2, <3>2, <4>1, <4>2
      <4> QED BY <2>2, <4>1, <4>2, <4>3
    <3> QED BY <2>7, <3>2
  <2>10. Range(less) = Range(list) \ {entry}
    <3>1. ASSUME NEW x \in Range(less) PROVE x \in Range(list) /\ x # entry
      <4>1. PICK i \in 1..(Len(list) - 1) : less[i] = x
        BY <2>7 DEF Range
      <4>2. PICK j \in 1..Len(list) : list[j] = x /\ j # k
        BY <2>2, <2>6, <4>1
      <4> QED BY <2>1, <2>2, <2>3, <4>2 DEF Range
    <3>2. ASSUME NEW x \in Range(list), x # entry PROVE x \in Range(less)
      <4>1. PICK j \in 1..Len(list) : list[j] = x /\ j # k
        BY <2>2, <2>3, <3>2 DEF Range
      <4>2. CASE j < k
        <5>1. j \in DOMAIN less /\ less[j] = x
          BY <2>2, <2>6, <2>7, <4>1, <4>2
        <5> QED BY <5>1 DEF Range
      <4>3. CASE j > k
        <5>1. j - 1 \in DOMAIN less /\ less[j - 1] = x
          BY <2>2, <2>6, <2>7, <4>1, <4>3
        <5> QED BY <5>1 DEF Range
      <4> QED BY <4>1, <4>2, <4>3
    <3> QED BY <3>1, <3>2
  <2> QED BY <2>6, <2>8, <2>9, <2>10 DEF IsList
<1> QED BY <1>1, <1>2
-----------------------------------------------------------------------------
(* Lists in JSON.                                                          *)
LEMMA GetAllStringIs ==
  ASSUME NEW array \in Seq(Int)
  PROVE  /\ GetAllString(array) \in Seq(Nat)
         /\ Range(GetAllString(array)) \ {0} = {e \in Range(array) : e > 0}
<1> DEFINE strings == GetAllString(array)
<1>1. Len(array) \in Nat /\ DOMAIN array = 1..Len(array) /\ array \in [1..Len(array) -> Int]
  BY LenProperties
<1>2. DOMAIN strings = 1..Len(array)
      /\ \A i \in 1..Len(array) : strings[i] = IF array[i] < 0 THEN 0 ELSE array[i]
  BY <1>1 DEF GetAllString
<1>3. strings \in [1..Len(array) -> Nat]
  BY <1>1 DEF GetAllString
<1>4. strings \in Seq(Nat)
  BY <1>1, <1>3, SeqDef
<1> HIDE DEF strings
<1>5. ASSUME NEW x \in Range(strings), x # 0 PROVE x \in Range(array) /\ x > 0
  BY <1>1, <1>2, <1>5 DEF Range
<1>6. ASSUME NEW x \in Range(array), x > 0 PROVE x \in Range(strings) /\ x # 0
  <2>1. PICK i \in 1..Len(array) : array[i] = x
    BY <1>1 DEF Range
  <2>2. strings[i] = x /\ x # 0
    BY <1>1, <1>2, <1>6, <2>1
  <2> QED BY <1>2, <2>2 DEF Range
<1> QED BY <1>4, <1>5, <1>6 DEF strings

(* The array of one list is used again for the next: what is in JSON is    *)
(* each list all the same.                                                 *)
LEMMA ToJsonObjectIs ==
  ASSUME NEW lists, \A p \in PermissionsOf : IsList(lists[p]), NEW p \in PermissionsOf
  PROVE  ToJsonObject(lists)[p] = lists[p]
<1> DEFINE n == Len(Permissions)
           Fills(f) == f = [i \in 0..n |->
                              IF i = 0 THEN <<>>
                              ELSE PutAllList(IF Permissions[i] = "ADMIN" THEN <<>> ELSE f[i - 1],
                                              lists[Permissions[i]])]
           array == CHOOSE f : Fills(f)
           g == [i \in 0..n |-> IF i = 0 THEN <<>> ELSE PutAllList(<<>>, lists[Permissions[i]])]
           k == SelectInSeq(Permissions, LAMBDA q : q = p)
<1>1. n \in Nat /\ DOMAIN Permissions = 1..n
  BY AclAssumption, LenProperties
<1>2. \A i \in 1..n : Permissions[i] \in PermissionsOf
  BY <1>1 DEF PermissionsOf, Range
<1>3. Fills(g)
  BY <1>1 DEF PutAllList
<1>4. Fills(array)
  BY <1>3
<1>5. ToJsonObject(lists) = [q \in PermissionsOf |-> array[SelectInSeq(Permissions, LAMBDA r : r = q)]]
  BY DEF ToJsonObject
<1>6. ToJsonObject(lists)[p] = array[k]
  BY <1>5
<1>7. k \in 1..n /\ Permissions[k] = p
  BY AclAssumption, FirstEqual DEF PermissionsOf
<1> HIDE DEF array, k
<1>8. array[k] = [i \in DOMAIN lists[p] |-> lists[p][i]]
  BY <1>1, <1>4, <1>7 DEF PutAllList
<1>9. lists[p] = [i \in DOMAIN lists[p] |-> lists[p][i]]
  <2>1. lists[p] \in Seq(Nat)
    BY DEF IsList
  <2>2. lists[p] \in [1..Len(lists[p]) -> Nat]
    BY <2>1, LenProperties
  <2> QED BY <2>2
<1> QED BY <1>6, <1>8, <1>9
-----------------------------------------------------------------------------
(* The invariant: the lists are lists of the application's, hold nothing   *)
(* twice, and hold whom they should.                                       *)
AclInv ==
  /\ acl = [p \in PermissionsOf |-> acl[p]]
  /\ granted = [p \in PermissionsOf |-> granted[p]]
  /\ \A p \in PermissionsOf : IsList(acl[p]) /\ Range(acl[p]) \ {0} = granted[p]

Holds(list, grants) == IsList(list) /\ Range(list) \ {0} = grants

LEMMA EmptyList == Holds(<<>>, {})
<1>1. <<>> \in Seq(Nat) /\ DOMAIN <<>> = {}
  BY EmptySeq, LenProperties
<1> QED BY <1>1 DEF Holds, IsList, Range

LEMMA AddHolds ==
  ASSUME NEW list, NEW grants, Holds(list, grants), NEW entry \in Nat
  PROVE  Holds(WithEntry(list, entry), grants \cup ({entry} \ {0}))
BY WithEntryIs DEF Holds

LEMMA RemoveHolds ==
  ASSUME NEW list, NEW grants, Holds(list, grants), NEW entry \in Nat
  PROVE  Holds(WithoutEntry(list, entry), grants \ {entry})
BY WithoutEntryIs DEF Holds

LEMMA SetHolds ==
  ASSUME NEW entries \in Seq(Nat)
  PROVE  Holds(ListOf(entries), Range(entries) \ {0})
<1> DEFINE S == Range(entries) \ {0}
<1>1. IsFiniteSet(Range(entries)) /\ Range(entries) \in SUBSET Nat
  BY RangeIsFinite
<1>2. S \in SUBSET Range(entries) /\ S \in SUBSET Nat /\ S \ {0} = S
  BY <1>1
<1>3. IsFiniteSet(S)
  BY <1>1, <1>2, FS_Subset
<1>4. ListOf(entries) = InOrder(S)
  BY DEF ListOf
<1> HIDE DEF S
<1>5. IsList(InOrder(S)) /\ Range(InOrder(S)) = S
  BY <1>2, <1>3, InOrderIsList
<1> QED BY <1>2, <1>4, <1>5 DEF Holds, S

LEMMA JsonHolds ==
  ASSUME NEW array \in Seq(Int)
  PROVE  Holds(SortUnique(GetAllString(array)), {e \in Range(array) : e > 0})
BY GetAllStringIs, SortUniqueIs DEF Holds

LEMMA SavedHolds ==
  ASSUME NEW list, NEW grants, Holds(list, grants)
  PROVE  Holds(SortUnique(GetAllString(list)), grants)
<1>1. list \in Seq(Nat)
  BY DEF Holds, IsList
<1>2. list \in Seq(Int)
  BY <1>1, SeqMonotonic
<1>3. \A x \in Range(list) : x \in Nat
  BY <1>1, RangeIsFinite
<1>4. {e \in Range(list) : e > 0} = Range(list) \ {0}
  BY <1>3
<1> QED BY <1>2, <1>4, JsonHolds DEF Holds

LEMMA BoundedIsSeq ==
  ASSUME NEW S, NEW T, S \subseteq T, NEW entries \in SeqOf(S, 2)
  PROVE  entries \in Seq(T)
<1>1. PICK n \in 0..2 : entries \in [1..n -> S]
  BY DEF SeqOf
<1>2. n \in Nat /\ entries \in [1..n -> T]
  BY <1>1
<1> QED BY <1>2, SeqDef

LEMMA NextKeepsAcl == AclInv /\ [AclNext]_aclVars => AclInv'
<1> SUFFICES ASSUME AclInv, [AclNext]_aclVars PROVE AclInv'
  OBVIOUS
<1>1. \A p \in PermissionsOf : Holds(acl[p], granted[p])
  BY DEF AclInv, Holds
<1> DEFINE Fine == /\ acl' = [p \in PermissionsOf |-> acl'[p]]
                   /\ granted' = [p \in PermissionsOf |-> granted'[p]]
                   /\ \A p \in PermissionsOf : Holds(acl'[p], granted'[p])
<1> SUFFICES Fine
  BY DEF AclInv, Holds
<1>2. \A e \in Entries \cup {0} : e \in Nat
  BY AclAssumption
<1>3. \A entries \in SeqOf(Entries \cup {0}, 2) : entries \in Seq(Nat)
  BY <1>2, BoundedIsSeq
<1>4. ASSUME NEW p \in PermissionsOf, NEW entry \in Entries \cup {0}, AddEntry(p, entry)
      PROVE  Fine
  <2>1. Holds(WithEntry(acl[p], entry), granted[p] \cup ({entry} \ {0}))
    BY <1>1, <1>2, AddHolds
  <2> QED BY <1>1, <1>4, <2>1 DEF AddEntry, AclInv
<1>5. ASSUME NEW p \in PermissionsOf, NEW entry \in Entries \cup {0}, RemoveEntry(p, entry)
      PROVE  Fine
  <2>1. Holds(WithoutEntry(acl[p], entry), granted[p] \ {entry})
    BY <1>1, <1>2, RemoveHolds
  <2> QED BY <1>1, <1>5, <2>1 DEF RemoveEntry, AclInv
<1>6. ASSUME NEW p \in PermissionsOf, NEW entries \in SeqOf(Entries \cup {0}, 2),
             SetEntries(p, entries)
      PROVE  Fine
  <2>1. Holds(ListOf(entries), Range(entries) \ {0})
    BY <1>3, SetHolds
  <2> QED BY <1>1, <1>6, <2>1 DEF SetEntries, AclInv
<1>7. ASSUME NEW entries \in SeqOf(Entries \cup {0}, 2), CreateAclFor(entries)
      PROVE  Fine
  <2>1. Holds(ListOf(entries), Range(entries) \ {0})
    BY <1>3, SetHolds
  <2> QED BY <1>7, <2>1, EmptyList DEF CreateAclFor
<1>8. CASE SetSaved
  <2>1. \A p \in PermissionsOf : ToJsonObject(acl)[p] = acl[p]
    BY ToJsonObjectIs DEF AclInv
  <2>2. ASSUME NEW p \in PermissionsOf PROVE Holds(SortUnique(GetAllString(acl[p])), granted[p])
    BY <1>1, SavedHolds
  <2> QED BY <1>8, <2>1, <2>2 DEF SetSaved, SetJson, AclInv
<1>9. ASSUME NEW json \in [PermissionsOf -> SeqOf(Foreign, 2)], SetForeign(json)
      PROVE  Fine
  <2>1. ASSUME NEW p \in PermissionsOf
        PROVE  Holds(SortUnique(GetAllString(json[p])), {e \in Range(json[p]) : e > 0})
    <3>1. json[p] \in Seq(Int)
      BY AclAssumption, BoundedIsSeq
    <3> QED BY <3>1, JsonHolds
  <2> QED BY <1>9, <2>1 DEF SetForeign, SetJson
<1>10. CASE UNCHANGED aclVars
  BY <1>1, <1>10 DEF aclVars, AclInv
<1> QED BY <1>4, <1>5, <1>6, <1>7, <1>8, <1>9, <1>10 DEF AclNext

(* The invariant, for every set of entries and of foreign elements.        *)
THEOREM AclInvariant == AclSpec => []AclInv
<1>1. AclInit => AclInv
  BY EmptyList DEF AclInit, AclInv, Holds
<1> QED BY <1>1, NextKeepsAcl, PTL DEF AclSpec

(* Who has been granted a permission holds it until he is revoked it, in   *)
(* the lists and in the JSON that is sent.                                 *)
THEOREM GrantsAsAsked == AclSpec => []GrantsAreAsked
<1>1. AclInv => GrantsAreAsked
  BY ToJsonObjectIs DEF AclInv, GrantsAreAsked
<1> QED BY <1>1, AclInvariant, PTL
=============================================================================
