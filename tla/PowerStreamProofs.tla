-------------------------- MODULE PowerStreamProofs --------------------------
(***************************************************************************)
(* Proofs about two clamps on one cable.                                   *)
(*                                                                         *)
(* aggregate() compares means, sums over the readings of a window that     *)
(* each node sent.  At a steady load all readings of a clamp are the same, *)
(* so the mean is that reading, however many of them the radio lost, and   *)
(* of the two the finer clamp sends the greater one.  Clamps that send a   *)
(* reading of 0, at a tiny load, have no group and are not compared.       *)
(***************************************************************************)
EXTENDS PowerStream, FiniteSetTheorems, SequenceTheorems, WellFoundedInduction,
        NaturalsInduction, TLAPS

LEMMA LeastNatural ==
  ASSUME NEW T, T \subseteq Nat, T # {}
  PROVE  \E x \in T : \A y \in T : x <= y
<1> DEFINE R == {ss \in Nat \X Nat : ss[1] < ss[2]}
<1>1. IsWellFoundedOn(R, Nat)
  BY NatLessThanWellFounded DEF OpToRel
<1> HIDE DEF R
<1>2. PICK x \in T : \A y \in T : ~ (<<y, x>> \in R)
  BY <1>1, WFMin
<1>3. \A y \in T : ~(y < x)
  BY <1>2 DEF R
<1> QED  BY <1>2, <1>3

-----------------------------------------------------------------------------
(* The sum over the readings of a node. *)

\* sum has the partial sums: a reading is taken out at a time.
Takes(sum, r, s, x) == sum[s] = rms_current(r[x]) + sum[s \ {x}]
Sums(sum, r, n) ==
  /\ rms_current_total(r, n) = sum[Group(r, n)]
  /\ sum[{}] = 0
  /\ \A s \in SUBSET Group(r, n) : s # {} => \E x \in s : Takes(sum, r, s, x)

\* The recursion is well-founded.
LEMMA TotalDef ==
  ASSUME NEW r, NEW n, IsFiniteSet(Group(r, n))
  PROVE  \E sum : Sums(sum, r, n)
<1> DEFINE S == Group(r, n)
           Body(f, s) == IF s = {} THEN 0
                         ELSE LET x == CHOOSE x \in s : TRUE IN rms_current(r[x]) + f[s \ {x}]
           Sub(k) == {s \in SUBSET S : Cardinality(s) <= k}
           Upto(f, k) == f = [s \in Sub(k) |-> Body(f, s)]
           Short == {k \in Nat : ~\E f : Upto(f, k)}
<1>1. \A s \in SUBSET S : IsFiniteSet(s) /\ Cardinality(s) \in Nat /\ Cardinality(s) <= Cardinality(S)
  BY FS_Subset, FS_CardinalityType
<1>2. \A s \in SUBSET S : Cardinality(s) = 0 <=> s = {}
  BY <1>1, FS_EmptySet
<1>3. \A s \in SUBSET S : \A x \in s : s \ {x} \in SUBSET S /\ Cardinality(s \ {x}) = Cardinality(s) - 1
  BY <1>1, FS_RemoveElement
<1> HIDE DEF S
<1>4. Short = {}
  <2> SUFFICES ASSUME Short # {} PROVE FALSE
    OBVIOUS
  <2>1. PICK k \in Short : \A j \in Short : k <= j
    <3>1. Short \subseteq Nat  OBVIOUS
    <3> HIDE DEF Short
    <3> QED  BY <3>1, LeastNatural
  <2>2. CASE k = 0
    <3> DEFINE g == [s \in Sub(0) |-> 0]
    <3>1. \A s \in Sub(0) : s = {}  BY <1>1, <1>2
    <3>2. Upto(g, 0)  BY <3>1
    <3> QED  BY <2>1, <2>2, <3>2
  <2>3. CASE k # 0
    <3>1. k - 1 \in Nat /\ k - 1 \notin Short
      <4> HIDE DEF Upto
      <4> QED  BY <2>1, <2>3
    <3>2. PICK f : Upto(f, k - 1)  BY <3>1
    <3> DEFINE g == [s \in Sub(k) |-> Body(f, s)]
    <3>3. \A s \in Sub(k) : s \in Sub(k - 1) => f[s] = Body(f, s)  BY <3>2
    <3>4. ASSUME NEW s \in Sub(k - 1) PROVE s \in Sub(k) /\ g[s] = f[s]
      <4>1. Cardinality(s) \in Nat /\ Cardinality(s) <= k - 1 /\ k \in Nat  BY <1>1, <2>1
      <4>2. s \in Sub(k)  BY <4>1
      <4>3. f[s] = Body(f, s)  BY <3>3, <4>2
      <4> HIDE DEF Body
      <4> QED  BY <4>2, <4>3
    <3>5. ASSUME NEW s \in Sub(k) PROVE Body(f, s) = Body(g, s)
      <4>1. CASE s = {}  BY <4>1
      <4>2. CASE s # {}
        <5> DEFINE x == CHOOSE x \in s : TRUE
        <5>1. x \in s  BY <4>2
        <5> HIDE DEF x
        <5>2. s \ {x} \in SUBSET S /\ Cardinality(s \ {x}) = Cardinality(s) - 1  BY <1>3, <5>1
        <5>3. Cardinality(s) \in Nat /\ Cardinality(s) <= k  BY <1>1
        <5>4. s \ {x} \in Sub(k - 1)  BY <2>1, <5>2, <5>3
        <5>5. f[s \ {x}] = g[s \ {x}]  BY <3>4, <5>4
        <5> HIDE DEF g
        <5> QED  BY <4>2, <5>5 DEF x
      <4> QED  BY <4>1, <4>2
    <3>6. Upto(g, k)
      <4> HIDE DEF Body
      <4> QED  BY <3>5
    <3> QED  BY <2>1, <3>6
  <2> QED  BY <2>2, <2>3
<1>5. Sub(Cardinality(S)) = SUBSET S /\ Cardinality(S) \in Nat  BY <1>1
<1>6. \E f : f = [s \in SUBSET S |-> Body(f, s)]
  <2>1. PICK f : Upto(f, Cardinality(S))  BY <1>4, <1>5
  <2> QED  BY <1>5, <2>1
<1> DEFINE sum == CHOOSE f : f = [s \in SUBSET S |-> Body(f, s)]
<1>7. sum = [s \in SUBSET S |-> Body(sum, s)]  BY <1>6
<1>8. rms_current_total(r, n) = sum[S]
  BY DEF rms_current_total, MapThenSumSet, MapThenFoldSet, S
<1> HIDE DEF sum
<1>9. \A s \in SUBSET S : sum[s] = Body(sum, s)
  <2> HIDE DEF Body
  <2> QED  BY <1>7
<1>10. sum[{}] = 0  BY <1>9
<1>11. ASSUME NEW s \in SUBSET S, s # {}
       PROVE  \E x \in s : Takes(sum, r, s, x)
  <2> DEFINE x == CHOOSE x \in s : TRUE
  <2>1. x \in s  BY <1>11
  <2>2. Takes(sum, r, s, x)  BY <1>9, <1>11 DEF Takes
  <2> QED  BY <2>1, <2>2
<1> QED  BY <1>8, <1>10, <1>11 DEF S, Sums

\* A claim about sums that holds for none and is kept by one more reading holds
\* for all: here that a sum is a number, and the readings' number times the
\* value they all have.
LEMMA TotalType ==
  ASSUME NEW r, NEW n, IsFiniteSet(Group(r, n)),
         \A i \in Group(r, n) : rms_current(r[i]) \in Nat
  PROVE  rms_current_total(r, n) \in Nat
<1> DEFINE S == Group(r, n)
<1>1. PICK sum : Sums(sum, r, n)  BY TotalDef
<1> DEFINE Bad == {k \in Nat : \E s \in SUBSET S : Cardinality(s) = k /\ sum[s] \notin Nat}
<1>2. \A s \in SUBSET S : IsFiniteSet(s) /\ Cardinality(s) \in Nat
  BY FS_Subset, FS_CardinalityType
<1>3. ASSUME Bad # {} PROVE FALSE
  <2>1. PICK k \in Bad : \A j \in Bad : k <= j
    <3>1. Bad \subseteq Nat  OBVIOUS
    <3> HIDE DEF Bad
    <3> QED  BY <1>3, <3>1, LeastNatural
  <2>2. PICK s \in SUBSET S : Cardinality(s) = k /\ sum[s] \notin Nat  BY <2>1
  <2>3. PICK x \in s : Takes(sum, r, s, x)  BY <1>1, <2>2 DEF Sums
  <2>4. Cardinality(s \ {x}) = k - 1 /\ s \ {x} \in SUBSET S /\ k - 1 \in Nat
    BY <1>2, <2>2, FS_RemoveElement
  <2>5. k - 1 \notin Bad  BY <2>1
  <2>6. sum[s \ {x}] \in Nat  BY <2>4, <2>5
  <2>7. rms_current(r[x]) \in Nat  OBVIOUS
  <2> QED  BY <2>2, <2>3, <2>6, <2>7 DEF Takes
<1> QED  BY <1>1, <1>2, <1>3 DEF Sums

LEMMA TotalOfEqual ==
  ASSUME NEW r, NEW n, IsFiniteSet(Group(r, n)), NEW c \in Nat,
         \A i \in Group(r, n) : rms_current(r[i]) = c
  PROVE  rms_current_total(r, n) = c * rms_count(r, n)
<1> DEFINE S == Group(r, n)
<1>1. PICK sum : Sums(sum, r, n)  BY TotalDef
<1> DEFINE Bad == {k \in Nat : \E s \in SUBSET S : Cardinality(s) = k /\ sum[s] # c * k}
<1>2. \A s \in SUBSET S : IsFiniteSet(s) /\ Cardinality(s) \in Nat
  BY FS_Subset, FS_CardinalityType
<1>3. ASSUME Bad # {} PROVE FALSE
  <2>1. PICK k \in Bad : \A j \in Bad : k <= j
    <3>1. Bad \subseteq Nat  OBVIOUS
    <3> HIDE DEF Bad
    <3> QED  BY <1>3, <3>1, LeastNatural
  <2>2. PICK s \in SUBSET S : Cardinality(s) = k /\ sum[s] # c * k  BY <2>1
  <2>3. s # {}
    <3>1. c * 0 = 0 /\ Cardinality({}) = 0 /\ sum[{}] = 0  BY <1>1, FS_EmptySet DEF Sums
    <3> HIDE DEF Bad
    <3> QED  BY <2>2, <3>1
  <2>4. PICK x \in s : Takes(sum, r, s, x)  BY <1>1, <2>3 DEF Sums
  <2>5. Cardinality(s \ {x}) = k - 1 /\ s \ {x} \in SUBSET S /\ k - 1 \in Nat
    <3>1. IsFiniteSet(s) /\ Cardinality(s) = k  BY <1>2, <2>2
    <3>2. Cardinality(s \ {x}) = k - 1  BY <3>1, FS_RemoveElement
    <3>3. s \ {x} \in SUBSET S  OBVIOUS
    <3> QED  BY <1>2, <3>2, <3>3, <2>1
  <2>6. k - 1 \notin Bad  BY <2>1
  <2>7. sum[s \ {x}] = c * (k - 1)  BY <2>5, <2>6
  <2>8. c + c * (k - 1) = c * k  BY <2>5
  <2>9. rms_current(r[x]) = c  OBVIOUS
  <2> QED  BY <2>2, <2>4, <2>7, <2>8, <2>9 DEF Takes
<1> QED  BY <1>1, <1>2, <1>3 DEF rms_count, Sums

-----------------------------------------------------------------------------
(* Groups and their means. *)

LEMMA GroupsFinite ==
  ASSUME NEW r \in Seq(Reading)
  PROVE  /\ GroupIds(r) \subseteq Nat
         /\ \A n : IsFiniteSet(Group(r, n)) /\ \A i \in Group(r, n) : rms_current(r[i]) \in Nat
         /\ \A n \in GroupIds(r) : rms_count(r, n) \in Nat \ {0}
<1>1. Len(r) \in Nat /\ DOMAIN r = 1..Len(r) /\ \A i \in 1..Len(r) : r[i] \in Reading
  BY LenProperties, ElementOfSeq
<1>2. \A i \in Electric(r) : i \in 1..Len(r) /\ r[i].node_id \in Nat /\ rms_current(r[i]) \in Nat
  BY <1>1 DEF Electric, IsElectric, rms_current, Reading
<1>3. IsFiniteSet(1..Len(r))  BY <1>1, FS_Interval
<1>4. \A n : Group(r, n) \in SUBSET (1..Len(r))  BY <1>2 DEF Group
<1>5. \A n : IsFiniteSet(Group(r, n))  BY <1>3, <1>4, FS_Subset
<1>6. ASSUME NEW n \in GroupIds(r) PROVE rms_count(r, n) \in Nat \ {0}
  <2>1. Group(r, n) # {}  BY <1>6 DEF GroupIds, Group
  <2> QED  BY <1>5, <2>1, FS_EmptySet, FS_CardinalityType DEF rms_count
<1> QED  BY <1>2, <1>5, <1>6 DEF GroupIds, Group

\* If all readings of a node are the same, their mean is that reading.
LEMMA MeanOfEqual ==
  ASSUME NEW r \in Seq(Reading), NEW n \in GroupIds(r), NEW m \in GroupIds(r),
         NEW c \in Nat, NEW d \in Nat,
         \A i \in Group(r, n) : rms_current(r[i]) = c,
         \A i \in Group(r, m) : rms_current(r[i]) = d
  PROVE  MeanGreater(r, n, m) <=> c > d
<1> DEFINE k == rms_count(r, n)
           l == rms_count(r, m)
<1>1. k \in Nat \ {0} /\ l \in Nat \ {0}  BY GroupsFinite
<1>2. rms_current_total(r, n) = c * k /\ rms_current_total(r, m) = d * l
  BY GroupsFinite, TotalOfEqual
<1>3. MeanGreater(r, n, m) <=> (c * k) * l > (d * l) * k
  BY <1>2 DEF MeanGreater
<1> HIDE DEF k, l
<1>4. k * l \in Nat \ {0}
  <2>1. k \in 1..k /\ l \in 1..l /\ k >= 1 /\ l >= 1  BY <1>1
  <2> QED  BY <1>1, <2>1
<1> DEFINE p == k * l
<1>5. (c * k) * l = c * p /\ (d * l) * k = d * p  BY <1>1
<1> HIDE DEF p
<1>6. c * p > d * p <=> c > d
  <2>1. p \in Nat \ {0}  BY <1>4 DEF p
  <2>2. CASE c > d
    <3>1. c * p = d * p + (c - d) * p /\ c - d >= 1  BY <2>1, <2>2
    <3>2. (c - d) * p >= p
      <4>1. c - d - 1 \in Nat /\ (c - d) * p = (c - d - 1) * p + p  BY <2>1, <2>2
      <4>2. (c - d - 1) * p \in Nat  BY <2>1, <4>1
      <4> QED  BY <2>1, <4>1, <4>2
    <3>3. d * p \in Nat  BY <2>1
    <3> QED  BY <2>1, <2>2, <3>1, <3>2, <3>3
  <2>3. CASE ~(c > d)
    <3>1. d - c \in Nat /\ d * p = c * p + (d - c) * p  BY <2>1, <2>3
    <3>2. (d - c) * p \in Nat /\ c * p \in Nat  BY <2>1, <3>1
    <3> QED  BY <2>3, <3>1, <3>2
  <2> QED  BY <2>2, <2>3
<1> QED  BY <1>3, <1>5, <1>6

LEMMA ExtremesOfPair ==
  ASSUME NEW a \in Nat, NEW b \in Nat, a < b
  PROVE  Min({a, b}) = a /\ Max({a, b}) = b /\ Cardinality({a, b}) = 2
<1>1. \A x \in {a, b} : (\A y \in {a, b} : x <= y) => x = a  OBVIOUS
<1>2. \A y \in {a, b} : a <= y  OBVIOUS
<1>3. \A x \in {a, b} : (\A y \in {a, b} : x >= y) => x = b  OBVIOUS
<1>4. \A y \in {a, b} : b >= y  OBVIOUS
<1>5. Min({a, b}) = a  BY <1>1, <1>2 DEF Min
<1>6. Max({a, b}) = b  BY <1>3, <1>4 DEF Max
<1>7. Cardinality({a, b}) = 2
  <2>1. {a, b} = {a} \cup {b} /\ b \notin {a}  OBVIOUS
  <2>2. IsFiniteSet({a}) /\ Cardinality({a}) = 1  BY FS_Singleton
  <2>3. Cardinality({a} \cup {b}) = 1 + 1  BY <2>1, <2>2, FS_AddElement
  <2> QED  BY <2>1, <2>3
<1> QED  BY <1>5, <1>6, <1>7

\* The mapping check yields a mapping.
LEMMA CheckMappingsType ==
  ASSUME NEW r, NEW map \in ClampMap, GroupIds(r) \subseteq Nat, NEW a, NEW b,
         GroupIds(r) \subseteq {a, b}
  PROVE  CheckMappings(r, map) \in ClampMap
<1> DEFINE ids == GroupIds(r)
<1>1. CASE ids = {a, b} /\ a # b
  <2>1. Min(ids) \in Nat /\ Max(ids) \in Nat
    <3>1. a \in Nat /\ b \in Nat  BY <1>1
    <3>2. CASE a < b  BY <1>1, <3>1, <3>2, ExtremesOfPair
    <3>3. CASE b < a
      <4>1. {a, b} = {b, a}  OBVIOUS
      <4> QED  BY <1>1, <3>1, <3>3, <4>1, ExtremesOfPair
    <3> QED  BY <1>1, <3>1, <3>2, <3>3
  <2>2. \A x, y \in Nat : Assign(x, y) \in ClampMap
    BY DEF Assign, ClampMap
  <2> QED  BY <2>1, <2>2 DEF CheckMappings
<1>2. CASE ~(ids = {a, b} /\ a # b)
  <2>1. ids = {} \/ ids = {a} \/ ids = {b}  BY <1>2
  <2>2. Cardinality({}) = 0 /\ Cardinality({a}) = 1 /\ Cardinality({b}) = 1
    BY FS_EmptySet, FS_Singleton
  <2> HIDE DEF ids
  <2>3. Cardinality(ids) # 2  BY <2>1, <2>2
  <2> QED  BY <2>3 DEF CheckMappings, ids
<1> QED  BY <1>1, <1>2

\* What is concluded from two groups of which x has the greater mean.
LEMMA TwoGroups ==
  ASSUME NEW r, NEW map \in ClampMap, NEW x \in Nat, NEW y \in Nat, x # y,
         GroupIds(r) = {x, y}, MeanGreater(r, x, y), ~MeanGreater(r, y, x)
  PROVE  LET half == y < x /\ (map.ID_30A = x) # (map.ID_100A = y)
         IN  CheckMappings(r, map) = IF half THEN map ELSE Assign(x, y)
<1>0. map = Assign(map.ID_30A, map.ID_100A) /\ map.ID_30A \in Nat /\ map.ID_100A \in Nat
  BY DEF ClampMap, Assign
<1>1. CASE x < y
  <2>1. Min({x, y}) = x /\ Max({x, y}) = y /\ Cardinality({x, y}) = 2
    BY <1>1, ExtremesOfPair
  <2> QED  BY <1>0, <1>1, <2>1 DEF CheckMappings
<1>2. CASE y < x
  <2>1. {x, y} = {y, x}  OBVIOUS
  <2>2. Min({x, y}) = y /\ Max({x, y}) = x /\ Cardinality({x, y}) = 2
    BY <1>2, <2>1, ExtremesOfPair
  <2> QED  BY <1>0, <1>2, <2>2 DEF CheckMappings
<1> QED  BY <1>1, <1>2

-----------------------------------------------------------------------------
(* The invariant. *)

\* The readings of the window are those of the clamps, and while the load is
\* steady each is what its clamp shows at that load.
OfClamps == \A i \in 1..Len(window) : window[i].node_id \in {seen.ID_30A, seen.ID_100A}
SameLoad ==
  steady => \A i \in 1..Len(window) :
              rms_current(window[i]) = raw(window[i].node_id - HomeOffset)
IInv == TypeOK /\ OfClamps /\ SameLoad

LEMMA DivBounds ==
  ASSUME NEW a \in Nat, NEW u \in Nat \ {0}
  PROVE  /\ a \div u \in Nat
         /\ u * (a \div u) <= a /\ a < u * (a \div u) + u
<1>1. a \div u \in Int /\ a = u * (a \div u) + (a % u) /\ a % u \in 0..u - 1
  OBVIOUS
<1>2. a \div u >= 0
  BY <1>1
<1> QED  BY <1>1, <1>2

\* What the two clamps show.
LEMMA RawType ==
  ASSUME TypeOK
  PROVE  /\ installed.ID_30A \in Nat /\ installed.ID_100A \in Nat
         /\ installed.ID_30A # installed.ID_100A
         /\ raw(installed.ID_30A) \in Nat /\ raw(installed.ID_100A) \in Nat
         /\ \A n : raw(n) \in Nat
<1>1. installed \in ClampMap /\ installed.ID_30A # installed.ID_100A
  BY PowerAssumption DEF TypeOK
<1>2. load \in Nat /\ load * 1000 \in Nat
  BY PowerAssumption DEF TypeOK
<1>3. \A n : raw(n) \in Nat
  BY <1>2, DivBounds, PowerAssumption DEF raw
<1> QED  BY <1>1, <1>3 DEF ClampMap

\* The finer clamp shows more, where the coarser one shows anything.
LEMMA FinerShowsMore ==
  ASSUME TypeOK, raw(installed.ID_100A) > 0
  PROVE  raw(installed.ID_30A) > raw(installed.ID_100A)
<1> DEFINE a == load * 1000
           p == a \div UNIT_30A
           q == a \div UNIT_100A
<1>1. a \in Nat
  BY PowerAssumption DEF TypeOK
<1>2. raw(installed.ID_30A) = p /\ raw(installed.ID_100A) = q
  BY RawType DEF raw
<1>3. /\ p \in Nat /\ a < UNIT_30A * p + UNIT_30A
      /\ q \in Nat /\ UNIT_100A * q <= a
  <2> HIDE DEF a
  <2> QED  BY <1>1, DivBounds, PowerAssumption
<1>4. q > 0  BY <1>2
<1> HIDE DEF p, q, a
<1>5. ASSUME p <= q PROVE FALSE
  <2>1. UNIT_30A \in Nat \ {0} /\ UNIT_100A \in Nat \ {0} /\ UNIT_100A - 2 * UNIT_30A \in Nat
    BY PowerAssumption
  <2> DEFINE e == UNIT_100A - 2 * UNIT_30A
             f == q - p
             g == q - 1
  <2>2. f \in Nat /\ g \in Nat  BY <1>3, <1>4, <1>5
  <2>3. UNIT_100A = 2 * UNIT_30A + e /\ q = p + f /\ q = g + 1 /\ e \in Nat  BY <1>3, <2>1
  <2> HIDE DEF e, f, g
  <2>4. UNIT_100A * q = 2 * (UNIT_30A * q) + e * q  BY <1>3, <2>3, <2>1
  <2>5. UNIT_30A * q = UNIT_30A * p + UNIT_30A * f  BY <1>3, <2>2, <2>3, <2>1
  <2>6. UNIT_30A * q = UNIT_30A * g + UNIT_30A  BY <1>3, <2>2, <2>3, <2>1
  <2>7. e * q \in Nat /\ UNIT_30A * f \in Nat /\ UNIT_30A * g \in Nat /\ UNIT_30A * p \in Nat
    BY <1>3, <2>1, <2>2, <2>3
  <2> QED  BY <1>1, <1>3, <2>1, <2>4, <2>5, <2>6, <2>7
<1> QED  BY <1>2, <1>3, <1>5

LEMMA SeenNodes ==
  ASSUME TypeOK
  PROVE  /\ seen.ID_30A = installed.ID_30A + HomeOffset /\ seen.ID_30A \in Nat
         /\ seen.ID_100A = installed.ID_100A + HomeOffset /\ seen.ID_100A \in Nat
         /\ seen.ID_30A # seen.ID_100A
         /\ seen.ID_30A - HomeOffset = installed.ID_30A
         /\ seen.ID_100A - HomeOffset = installed.ID_100A
<1>1. seen.ID_30A = installed.ID_30A + HomeOffset /\ seen.ID_100A = installed.ID_100A + HomeOffset
  BY DEF seen, Assign
<1> QED  BY <1>1, RawType, PacketAssumption

LEMMA InitInv == Init => IInv
<1> SUFFICES ASSUME Init PROVE IInv
  OBVIOUS
<1>1. DefaultMap \in ClampMap /\ <<0, 1>> \in Nat \X (Nat \ {0})
  BY DEF DefaultMap, ClampMap
<1>2. <<>> \in Seq(Reading) /\ Len(<<>>) = 0  OBVIOUS
<1> QED  BY <1>1, <1>2, PowerAssumption DEF Init, IInv, TypeOK, OfClamps, SameLoad

\* The reading that OnCurrent buffers.
LEMMA CurrentReading ==
  ASSUME TypeOK, NEW n \in {installed.ID_30A, installed.ID_100A}
  PROVE  LET d == MakeReading(CurrentPacket(n), Undefined, Len(window) + 1)
         IN  /\ d \in Reading
             /\ d.node_id = n + HomeOffset /\ rms_current(d) = raw(n)
             /\ d.packet_type = CURRENT
<1> DEFINE d == MakeReading(CurrentPacket(n), Undefined, Len(window) + 1)
<1>1. n \in Nat /\ raw(n) \in Nat  BY RawType
<1>2. d = [id |-> Len(window) + 1, node_id |-> n + HomeOffset, home_id |-> home,
           packet_type |-> CURRENT, fields |-> <<0, raw(n)>>]
  BY DEF MakeReading, CurrentPacket, Fields, CURRENT, CLAMPS, GAS
<1>3. Len(window) + 1 \in Nat  BY LenProperties DEF TypeOK
<1>4. d \in Reading
  <2>1. n + HomeOffset \in Nat /\ home \in Homes /\ CURRENT \in 1..7 /\ <<0, raw(n)>> \in Int \X Int
    BY <1>1, PacketAssumption, PowerAssumption DEF CURRENT
  <2> QED  BY <1>2, <1>3, <2>1 DEF Reading
<1>5. d.node_id = n + HomeOffset /\ rms_current(d) = raw(n) /\ d.packet_type = CURRENT
  BY <1>2 DEF rms_current
<1> QED  BY <1>4, <1>5

\* A group is chosen, where any is eligible.
LEMMA Chosen ==
  ASSUME TypeOK, OfClamps, Eligible(window, clamps) # {}
  PROVE  /\ Max(Eligible(window, clamps)) \in GroupIds(window)
         /\ Max(Eligible(window, clamps)) \in {seen.ID_30A, seen.ID_100A}
<1> DEFINE ok == Eligible(window, clamps)
           a == seen.ID_30A
           b == seen.ID_100A
<1>1. ok \subseteq GroupIds(window)  BY DEF Eligible
<1>2. GroupIds(window) \subseteq {a, b}
  BY LenProperties DEF GroupIds, Electric, OfClamps, TypeOK
<1>3. Max(ok) \in ok
  <2>1. a \in Nat /\ b \in Nat  BY SeenNodes
  <2>2. ok = {a} \/ ok = {b} \/ ok = {a, b}  BY <1>1, <1>2
  <2> HIDE DEF ok, a, b
  <2>3. \E x \in ok : \A y \in ok : x >= y  BY <2>1, <2>2
  <2> QED  BY <2>3 DEF Max
<1> QED  BY <1>1, <1>2, <1>3

\* Any figure is a fraction.
LEMMA ChosenPowerType ==
  ASSUME TypeOK, OfClamps
  PROVE  ChosenPower(window, clamps) \in Nat \X (Nat \ {0})
<1> DEFINE ok == Eligible(window, clamps)
<1>1. CASE ok = {}
  BY <1>1 DEF ChosenPower
<1>2. CASE ok # {}
  <2> DEFINE n == Max(ok)
  <2>1. window \in Seq(Reading) /\ n \in GroupIds(window)  BY <1>2, Chosen DEF TypeOK
  <2> HIDE DEF n
  <2>2. rms_count(window, n) \in Nat \ {0} /\ rms_current_total(window, n) \in Nat
    BY <2>1, GroupsFinite, TotalType
  <2>3. Power(window, n, clamps) \in Nat \X (Nat \ {0})
    <3>1. \A u, w \in Nat : u * w \in Nat  OBVIOUS
    <3> QED  BY <2>2, <3>1, AggregateAssumption DEF Power
  <2> QED  BY <1>2, <2>3 DEF ChosenPower, n
<1> QED  BY <1>1, <1>2

\* The groups of a steady window, and what is concluded from them.
LEMMA SteadyTick ==
  ASSUME IInv, steady
  PROVE  CheckMappings(window, clamps) =
           IF Both(GroupIds(window)) /\ ~HalfRight THEN seen ELSE clamps
<1> DEFINE a == seen.ID_30A
           b == seen.ID_100A
           ids == GroupIds(window)
           c == raw(installed.ID_30A)
           d == raw(installed.ID_100A)
<1>1. window \in Seq(Reading) /\ DOMAIN window = 1..Len(window) /\ clamps \in ClampMap
  BY LenProperties DEF IInv, TypeOK
<1>2. a \in Nat /\ b \in Nat /\ a # b /\ c \in Nat /\ d \in Nat
  BY SeenNodes, RawType DEF IInv
<1>3. \A i \in Electric(window) : i \in 1..Len(window) /\ rms_current(window[i]) > 0
  BY <1>1 DEF Electric, IsElectric, rms_current
<1>4. \A i \in Group(window, a) : rms_current(window[i]) = c /\ c > 0
  BY <1>3, SeenNodes DEF Group, IInv, SameLoad
<1>5. \A i \in Group(window, b) : rms_current(window[i]) = d /\ d > 0
  BY <1>3, SeenNodes DEF Group, IInv, SameLoad
<1>6. ids \subseteq {a, b}  BY <1>3 DEF GroupIds, IInv, OfClamps
<1>7. seen = Assign(a, b)  BY DEF seen, Assign
<1>8. CASE ids = {a, b}
  <2>1. a \in ids /\ b \in ids  BY <1>8
  <2>2. d > 0
    <3>1. PICK i \in Electric(window) : window[i].node_id = b  BY <2>1 DEF GroupIds
    <3>2. i \in Group(window, b)  BY <3>1 DEF Group
    <3> QED  BY <1>5, <3>2
  <2>3. c > d  BY <2>2, FinerShowsMore DEF IInv
  <2> HIDE DEF a, b, ids, c, d
  <2>4. MeanGreater(window, a, b) /\ ~MeanGreater(window, b, a)
    <3>1. MeanGreater(window, a, b) <=> c > d
      BY <1>1, <1>2, <1>4, <1>5, <2>1, MeanOfEqual DEF ids
    <3>2. MeanGreater(window, b, a) <=> d > c
      BY <1>1, <1>2, <1>4, <1>5, <2>1, MeanOfEqual DEF ids
    <3> QED  BY <1>2, <2>3, <3>1, <3>2
  <2>5. LET half == b < a /\ (clamps.ID_30A = a) # (clamps.ID_100A = b)
        IN  CheckMappings(window, clamps) = IF half THEN clamps ELSE Assign(a, b)
    BY <1>1, <1>2, <1>8, <2>4, TwoGroups DEF ids
  <2> QED  BY <1>7, <1>8, <2>5 DEF HalfRight, Both, ids, a, b
<1>9. CASE ids # {a, b}
  <2>1. ids = {} \/ ids = {a} \/ ids = {b}  BY <1>6, <1>9
  <2>2. Cardinality(ids) # 2
    <3>1. Cardinality({}) = 0 /\ Cardinality({a}) = 1 /\ Cardinality({b}) = 1
      BY FS_EmptySet, FS_Singleton
    <3> HIDE DEF ids
    <3> QED  BY <2>1, <3>1
  <2>3. CheckMappings(window, clamps) = clamps  BY <2>2 DEF CheckMappings
  <2> QED  BY <1>9, <2>3 DEF Both
<1> QED  BY <1>8, <1>9

LEMMA NextInv == IInv /\ [Next]_vars => IInv'
<1> SUFFICES ASSUME IInv, [Next]_vars PROVE IInv'
  OBVIOUS
<1>1. ASSUME NEW n \in {installed.ID_30A, installed.ID_100A}, OnCurrent(n) PROVE IInv'
  <2> DEFINE d == MakeReading(CurrentPacket(n), Undefined, Len(window) + 1)
             w == Append(window, d)
  <2>1. d \in Reading /\ d.node_id = n + HomeOffset /\ rms_current(d) = raw(n)
    BY <1>1, CurrentReading DEF IInv
  <2>2. window \in Seq(Reading) /\ Len(window) \in Nat
    BY LenProperties DEF IInv, TypeOK
  <2>3. window' = w /\ UNCHANGED <<installed, load, clamps, power, steady>> /\ Len(window) < MaxWindow
    BY <1>1 DEF OnCurrent
  <2>4. n \in Nat /\ n + HomeOffset - HomeOffset = n
    BY RawType, PacketAssumption DEF IInv
  <2>5. d.node_id \in {seen.ID_30A, seen.ID_100A} /\ rms_current(d) = raw(d.node_id - HomeOffset)
    BY <2>1, <2>4, SeenNodes DEF IInv
  <2> HIDE DEF d
  <2>6. /\ w \in Seq(Reading) /\ Len(w) = Len(window) + 1
        /\ \A i \in 1..Len(w) : w[i] = d \/ (i \in 1..Len(window) /\ w[i] = window[i])
    BY <2>1, <2>2
  <2> HIDE DEF w
  <2>7. TypeOK'
    BY <2>2, <2>3, <2>6, PowerAssumption DEF IInv, TypeOK
  <2>8. seen' = seen /\ \A m : raw(m)' = raw(m)
    BY <2>3 DEF seen, raw
  <2>9. OfClamps'
    BY <2>3, <2>5, <2>6, <2>8 DEF IInv, OfClamps
  <2>10. SameLoad'
    <3>1. ASSUME NEW i \in 1..Len(w), steady
          PROVE  rms_current(w[i]) = raw(w[i].node_id - HomeOffset)
      BY <2>5, <2>6, <3>1 DEF IInv, SameLoad
    <3>2. \A m : raw(m)' = raw(m)  BY <2>8
    <3> QED  BY <2>3, <3>1, <3>2 DEF SameLoad
  <2> QED  BY <2>7, <2>9, <2>10 DEF IInv
<1>2. ASSUME NEW l \in Loads, LoadChanges(l) PROVE IInv'
  <2>1. /\ load' = l /\ steady' = (window = <<>>)
        /\ UNCHANGED <<installed, window, clamps, power>>
    BY <1>2 DEF LoadChanges
  <2>2. TypeOK'  BY <2>1 DEF IInv, TypeOK
  <2>3. OfClamps'  BY <2>1 DEF IInv, OfClamps, seen
  <2>4. steady' => window' = <<>> /\ Len(<<>>) = 0  BY <2>1
  <2>5. SameLoad'  BY <2>4 DEF SameLoad
  <2> QED  BY <2>2, <2>3, <2>5 DEF IInv
<1>3. ASSUME Tick PROVE IInv'
  <2>1. /\ power' = ChosenPower(window, clamps) /\ clamps' = CheckMappings(window, clamps)
        /\ window' = <<>> /\ steady' = TRUE /\ UNCHANGED <<installed, load>>
    BY <1>3 DEF Tick
  <2>2. power' \in Nat \X (Nat \ {0})
    BY <2>1, ChosenPowerType DEF IInv
  <2>3. clamps' \in ClampMap
    <3>1. window \in Seq(Reading) /\ DOMAIN window = 1..Len(window) /\ clamps \in ClampMap
      BY LenProperties DEF IInv, TypeOK
    <3>2. GroupIds(window) \subseteq {seen.ID_30A, seen.ID_100A}
      BY <3>1 DEF GroupIds, Electric, IInv, OfClamps
    <3>3. GroupIds(window) \subseteq Nat  BY <3>1, GroupsFinite
    <3> QED  BY <2>1, <3>1, <3>2, <3>3, CheckMappingsType
  <2>4. <<>> \in Seq(Reading) /\ Len(<<>>) = 0  OBVIOUS
  <2>5. TypeOK'  BY <2>1, <2>2, <2>3, <2>4, PowerAssumption DEF IInv, TypeOK
  <2> QED  BY <2>1, <2>4, <2>5 DEF IInv, OfClamps, SameLoad
<1>4. ASSUME Restart PROVE IInv'
  <2>1. /\ clamps' = DefaultMap /\ window' = <<>> /\ steady' = TRUE
        /\ UNCHANGED <<installed, load, power>>
    BY <1>4 DEF Restart
  <2>2. DefaultMap \in ClampMap  BY DEF DefaultMap, ClampMap
  <2>3. <<>> \in Seq(Reading) /\ Len(<<>>) = 0  OBVIOUS
  <2>4. TypeOK'  BY <2>1, <2>2, <2>3, PowerAssumption DEF IInv, TypeOK
  <2> QED  BY <2>1, <2>3, <2>4 DEF IInv, OfClamps, SameLoad
<1>5. CASE UNCHANGED vars
  <2>1. UNCHANGED <<installed, load, window, clamps, power, steady>>  BY <1>5 DEF vars
  <2>2. seen' = seen /\ \A m : raw(m)' = raw(m)  BY <2>1 DEF seen, raw
  <2>3. TypeOK'  BY <2>1 DEF IInv, TypeOK
  <2>4. OfClamps'  BY <2>1, <2>2 DEF IInv, OfClamps
  <2>5. SameLoad'  BY <2>1, <2>2 DEF IInv, SameLoad
  <2> QED  BY <2>3, <2>4, <2>5 DEF IInv
<1> QED  BY <1>1, <1>2, <1>3, <1>4, <1>5 DEF Next

LEMMA InvAlways == Spec => []IInv
  BY InitInv, NextInv, PTL DEF Spec

\* The server's belief is a pair of nodes, and what it publishes a number: no mean
\* is taken of no readings.
THEOREM TypeCorrect == Spec => []TypeOK
<1>1. IInv => TypeOK  BY DEF IInv
<1> QED  BY <1>1, InvAlways, PTL

\* A window of aggregate() with a steady load in which both clamps are heard teaches it
\* which node is which, however few readings of either are left, at any load, unless
\* its belief was half right, and not if it was.
THEOREM LearnsTheMapping == Spec => MappingLearned
<1>1. ASSUME IInv, Tick, steady, Both(GroupIds(window)) PROVE clamps' = seen <=> ~HalfRight
  <2>1. HalfRight => clamps # seen  BY DEF HalfRight
  <2> QED  BY <1>1, <2>1, SteadyTick DEF Tick
<1>2. IInv /\ [Next]_vars =>
        [Tick /\ steady /\ Both(GroupIds(window)) => (clamps' = seen <=> ~HalfRight)]_vars
  BY <1>1
<1> QED  BY <1>2, InvAlways, PTL DEF Spec, MappingLearned

\* A right belief survives every window of aggregate() with a steady load, whether both
\* clamps, one of them or none is heard in it.
THEOREM KeepsTheMapping == Spec => MappingKept
<1>1. ASSUME IInv, Tick, steady, clamps = seen PROVE clamps' = seen
  BY <1>1, SteadyTick DEF Tick
<1>2. IInv /\ [Next]_vars => [Tick /\ steady /\ clamps = seen => clamps' = seen]_vars
  BY <1>1
<1> QED  BY <1>2, InvAlways, PTL DEF Spec, MappingKept

-----------------------------------------------------------------------------
(* The figure. *)

\* A raw reading times its factor is within a unit of the true power.
LEMMA ScaledRaw ==
  ASSUME NEW l \in Nat, NEW u \in Nat \ {0}, NEW per \in Nat,
         u <= UNIT_100A, Excess(per, u) \in Nat,
         Excess(per, u) * ((l * 1000) \div u) <= 1000 * PER_UNIT_100A
  PROVE  LET d == ((l * 1000) \div u) * per - l * VOLTAGE
         IN  d \in Int /\ -PER_UNIT_100A <= d /\ d <= PER_UNIT_100A
<1> DEFINE a == l * 1000
           c == a \div u
           e == Excess(per, u)
           t == l * VOLTAGE
           d == c * per - t
<1>1. a \in Nat /\ t \in Nat /\ VOLTAGE \in Nat /\ UNIT_100A \in Nat /\ PER_UNIT_100A \in Nat
  BY PowerAssumption, AggregateAssumption
<1>2. c \in Nat /\ u * c <= a /\ a < u * c + u
  <2> HIDE DEF a
  <2>1. \A y \in Nat, x \in Nat \ {0} :
          y \div x \in Nat /\ x * (y \div x) <= y /\ y < x * (y \div x) + x
    BY DivBounds
  <2>2. a \in Nat /\ u \in Nat \ {0}  BY <1>1
  <2> QED  BY <2>1, <2>2
<1>3. e \in Nat /\ 1000 * per = u * VOLTAGE + e /\ e * c <= 1000 * PER_UNIT_100A
  <2>1. e * c <= 1000 * PER_UNIT_100A  OBVIOUS
  <2>2. e \in Nat  OBVIOUS
  <2> HIDE DEF e, c, d
  <2>3. e = 1000 * per - u * VOLTAGE  BY DEF e, Excess
  <2>4. 1000 * per \in Nat /\ u * VOLTAGE \in Nat  BY <1>1
  <2> QED  BY <2>1, <2>2, <2>3, <2>4
<1>4. a * VOLTAGE = 1000 * t  BY <1>1
<1> HIDE DEF c, e, a
<1>5. 1000 * (c * per) = (u * c) * VOLTAGE + e * c /\ c * per \in Nat
  <2>1. 1000 * (c * per) = c * (1000 * per)  BY <1>2
  <2>2. c * (u * VOLTAGE + e) = (u * c) * VOLTAGE + e * c  BY <1>1, <1>2, <1>3
  <2> QED  BY <1>2, <1>3, <2>1, <2>2
<1>6. (u * c) * VOLTAGE <= a * VOLTAGE
  <2> DEFINE m == u * c
             f == a - m
  <2>1. m \in Nat /\ f \in Nat /\ a = m + f  BY <1>1, <1>2
  <2> HIDE DEF m, f
  <2>2. a * VOLTAGE = m * VOLTAGE + f * VOLTAGE /\ f * VOLTAGE \in Nat /\ m * VOLTAGE \in Nat
    BY <1>1, <2>1
  <2> QED  BY <2>2 DEF m
<1>7. a * VOLTAGE <= (u * c) * VOLTAGE + u * VOLTAGE
  <2> DEFINE m == u * c
             f == m + u - a
  <2>1. m \in Nat /\ f \in Nat /\ m + u = a + f  BY <1>1, <1>2
  <2> HIDE DEF m, f
  <2>2. m * VOLTAGE + u * VOLTAGE = a * VOLTAGE + f * VOLTAGE
    <3>1. m * VOLTAGE + u * VOLTAGE = (m + u) * VOLTAGE  BY <1>1, <2>1
    <3>2. a * VOLTAGE + f * VOLTAGE = (a + f) * VOLTAGE  BY <1>1, <2>1
    <3> QED  BY <2>1, <3>1, <3>2
  <2>3. f * VOLTAGE \in Nat /\ a * VOLTAGE \in Nat /\ m * VOLTAGE \in Nat /\ u * VOLTAGE \in Nat
    BY <1>1, <2>1
  <2> QED  BY <2>2, <2>3 DEF m
<1>8. u * VOLTAGE <= 1000 * PER_UNIT_100A
  <2> DEFINE f == UNIT_100A - u
  <2>1. f \in Nat /\ UNIT_100A = u + f  BY <1>1
  <2> HIDE DEF f
  <2>2. UNIT_100A * VOLTAGE = u * VOLTAGE + f * VOLTAGE /\ f * VOLTAGE \in Nat
    BY <1>1, <2>1
  <2>3. 1000 * PER_UNIT_100A - UNIT_100A * VOLTAGE \in Nat
    BY FactorAssumption DEF Excess
  <2>4. u * VOLTAGE \in Nat  BY <1>1
  <2> QED  BY <1>1, <2>2, <2>3, <2>4
<1>9. e * c \in Nat /\ (u * c) * VOLTAGE \in Nat /\ u * VOLTAGE \in Nat
  BY <1>1, <1>2, <1>3
<1> DEFINE g == c * per
           h == (u * c) * VOLTAGE
           k == u * VOLTAGE
           j == e * c
<1>10. /\ 1000 * g = h + j /\ h <= 1000 * t /\ 1000 * t <= h + k
       /\ k <= 1000 * PER_UNIT_100A /\ j <= 1000 * PER_UNIT_100A
       /\ g \in Nat /\ h \in Nat /\ k \in Nat /\ j \in Nat
  BY <1>3, <1>4, <1>5, <1>6, <1>7, <1>8, <1>9
<1> HIDE DEF g, h, k, j, t
<1>11. g - t \in Int /\ -PER_UNIT_100A <= g - t /\ g - t <= PER_UNIT_100A
  BY <1>1, <1>10
<1> QED  BY <1>11 DEF g, t, c, a

\* A figure made of a group of equal readings.
LEMMA FigureOfEqual ==
  ASSUME NEW c \in Nat, NEW k \in Nat, NEW per \in Nat, NEW t \in Nat,
         -PER_UNIT_100A <= c * per - t, c * per - t <= PER_UNIT_100A
  PROVE  LET error == (c * k) * per - t * k
         IN  -PER_UNIT_100A * k <= error /\ error <= PER_UNIT_100A * k
<1> DEFINE b == PER_UNIT_100A
           d == c * per - t
<1>1. b \in Nat /\ d \in Int /\ b - d \in Nat /\ b + d \in Nat
  BY AggregateAssumption
<1>2. (c * k) * per - t * k = d * k
  <2>1. (c * k) * per = (c * per) * k /\ c * per \in Nat  OBVIOUS
  <2>2. (c * per) * k - t * k = (c * per - t) * k  BY <2>1
  <2> QED  BY <2>1, <2>2
<1> HIDE DEF b, d
<1>3. (b - d) * k \in Nat /\ (b + d) * k \in Nat  BY <1>1
<1>4. (b - d) * k = b * k - d * k /\ (b + d) * k = b * k + d * k  BY <1>1
<1>5. -b * k = -(b * k) /\ b * k \in Nat /\ d * k \in Int  BY <1>1
<1> QED  BY <1>2, <1>3, <1>4, <1>5 DEF b

\* A figure that aggregate() makes of both clamps under a right belief at a steady load is
\* within a unit of the 100 A clamp of the true power, whichever clamp it chose and
\* however few readings of it are left, or it is 0.
THEOREM FigureIsAccurate == Spec => PowerAccurate
<1>1. ASSUME IInv, Tick, steady, clamps = seen
      PROVE  \/ power'[1] = 0
             \/ LET error == power'[1] - load * VOLTAGE * power'[2]
                IN  -PER_UNIT_100A * power'[2] <= error /\ error <= PER_UNIT_100A * power'[2]
  <2> DEFINE a == seen.ID_30A
             b == seen.ID_100A
             ok == Eligible(window, clamps)
  <2>1. power' = ChosenPower(window, clamps)  BY <1>1 DEF Tick
  <2>2. CASE ok = {}
    BY <2>1, <2>2 DEF ChosenPower
  <2>3. CASE ok # {}
    <3> DEFINE n == Max(ok)
               per == IF n = clamps.ID_30A THEN PER_UNIT_30A ELSE PER_UNIT_100A
               c == raw(n - HomeOffset)
               k == rms_count(window, n)
    <3>1. window \in Seq(Reading) /\ DOMAIN window = 1..Len(window) /\ load \in Nat
      BY <1>1, LenProperties, PowerAssumption DEF IInv, TypeOK
    <3>2. n \in GroupIds(window) /\ n \in {a, b}  BY <1>1, <2>3, Chosen DEF IInv
    <3>3. \A i \in Group(window, n) : rms_current(window[i]) = c
      BY <1>1, <3>1 DEF IInv, SameLoad, Group, Electric
    <3>4. c \in Nat /\ k \in Nat  BY <1>1, <3>1, <3>2, RawType, GroupsFinite DEF IInv
    <3>5. power' = <<(c * k) * per, k>>
      <4>1. rms_current_total(window, n) = c * k
        <5> HIDE DEF n, c
        <5> QED  BY <3>1, <3>3, <3>4, GroupsFinite, TotalOfEqual
      <4> QED  BY <2>1, <2>3, <4>1 DEF ChosenPower, Power
    <3>6. -PER_UNIT_100A <= c * per - load * VOLTAGE /\ c * per - load * VOLTAGE <= PER_UNIT_100A
      <4>1. installed.ID_30A # installed.ID_100A /\ a # b
            /\ a - HomeOffset = installed.ID_30A /\ b - HomeOffset = installed.ID_100A
        BY <1>1, RawType, SeenNodes DEF IInv
      <4>2. UNIT_30A <= UNIT_100A /\ UNIT_30A \in Nat \ {0} /\ UNIT_100A \in Nat \ {0}
            /\ PER_UNIT_30A \in Nat /\ PER_UNIT_100A \in Nat
        BY PowerAssumption, AggregateAssumption
      <4>3. load \in Loads  BY <1>1 DEF IInv, TypeOK
      <4>4. CASE n = a
        <5>1. c = (load * 1000) \div UNIT_30A /\ per = PER_UNIT_30A
          BY <1>1, <4>1, <4>4 DEF raw
        <5> HIDE DEF c, per
        <5> QED  BY <3>1, <4>2, <4>3, <5>1, ScaledRaw, FactorAssumption
      <4>5. CASE n = b
        <5>1. c = (load * 1000) \div UNIT_100A /\ per = PER_UNIT_100A
          BY <1>1, <4>1, <4>5 DEF raw
        <5> HIDE DEF c, per
        <5> QED  BY <3>1, <4>2, <4>3, <5>1, ScaledRaw, FactorAssumption
      <4> QED  BY <3>2, <4>4, <4>5
    <3>7. load * VOLTAGE \in Nat /\ per \in Nat
      BY <3>1, PowerAssumption, AggregateAssumption
    <3> HIDE DEF c, k, per
    <3>8. LET error == (c * k) * per - load * VOLTAGE * k
          IN  -PER_UNIT_100A * k <= error /\ error <= PER_UNIT_100A * k
      BY <3>4, <3>6, <3>7, FigureOfEqual
    <3> QED  BY <3>5, <3>8
  <2> QED  BY <2>2, <2>3
<1>2. IInv /\ [Next]_vars =>
        [Tick /\ steady /\ clamps = seen /\ Both(GroupIds(window)) =>
           \/ power'[1] = 0
           \/ LET error == power'[1] - load * VOLTAGE * power'[2]
              IN  -PER_UNIT_100A * power'[2] <= error /\ error <= PER_UNIT_100A * power'[2]]_vars
  BY <1>1
<1> QED  BY <1>2, InvAlways, PTL DEF Spec, PowerAccurate
=============================================================================
