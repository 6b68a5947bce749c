---------------------------- MODULE IdealozProofs ----------------------------
(***************************************************************************)
(* Proofs about idealoz and the driver it listens to.                      *)
(*                                                                         *)
(* A table here is a function from nodes to sets of values.  A notification*)
(* is understood as a step from one table to the next: Delivers(t, e, u)   *)
(* says that e may be delivered when idealoz shows t, that is without      *)
(* following a NULL entry or adding anything twice, and that it then shows *)
(* u.  Leads(t, s, u) says so of a whole queue.                            *)
(*                                                                         *)
(* The invariant: what is queued leads from the table idealoz shows to the *)
(* one the driver holds.  Every turn of the driver appends a queue that    *)
(* leads from the table it held to the one it holds now, and every handler *)
(* of idealoz does to its table what Delivers says.  The readings need one *)
(* fact more: a value that was read and not posted has a change queued.    *)
(***************************************************************************)
EXTENDS Idealoz, SequenceTheorems, FiniteSetTheorems, WellFoundedInduction,
        NaturalsInduction, TLAPS

LEMMA LeastNumber ==
  ASSUME NEW T, T \subseteq Nat, T # {}
  PROVE  \E x \in T : \A y \in T : x <= y
<1> DEFINE R == {p \in Nat \X Nat : p[1] < p[2]}
<1>1. IsWellFoundedOn(R, Nat)
  BY NatLessThanWellFounded DEF OpToRel
<1> HIDE DEF R
<1>2. PICK x \in T : \A y \in T : ~ (<<y, x>> \in R)
  BY <1>1, WFMin
<1>3. \A y \in T : ~(y < x)
  BY <1>2 DEF R
<1> QED  BY <1>2, <1>3

-----------------------------------------------------------------------------
(* Loops over the ids. *)

Round(lists, k) == IF k \in DOMAIN lists THEN lists[k] ELSE <<>>

\* The recursion over the ids is well-founded.
LEMMA InOrderDef ==
  ASSUME NEW lists
  PROVE  \E upto : /\ InOrder(lists) = upto[MaxId] /\ upto[0] = <<>>
                   /\ \A k \in 1..MaxId : upto[k] = upto[k - 1] \o Round(lists, k)
<1> DEFINE Body(f, i) == IF i = 0 THEN <<>> ELSE f[i - 1] \o Round(lists, i)
           Upto(f, k) == f = [i \in 0..k |-> Body(f, i)]
           Short == {k \in Nat : ~\E f : Upto(f, k)}
<1>1. Short = {}
  <2> SUFFICES ASSUME Short # {} PROVE FALSE
    OBVIOUS
  <2>1. PICK k \in Short : \A j \in Short : k <= j
    BY LeastNumber
  <2>2. CASE k = 0
    <3> DEFINE g == [i \in 0..0 |-> <<>>]
    <3>1. Upto(g, 0)  OBVIOUS
    <3> QED  BY <2>1, <2>2, <3>1
  <2>3. CASE k # 0
    <3>1. k - 1 \in Nat /\ k - 1 \notin Short
      <4> HIDE DEF Upto
      <4> QED  BY <2>1, <2>3
    <3>2. PICK f : Upto(f, k - 1)  BY <3>1
    <3> DEFINE g == [i \in 0..k |-> IF i = k THEN Body(f, k) ELSE f[i]]
    <3>3. \A i \in 0..k - 1 : g[i] = f[i]  BY <2>1
    <3>4. \A i \in 0..k : g[i] = Body(g, i)
      <4> TAKE i \in 0..k
      <4>1. CASE i = k
        <5>1. k \in 0..k /\ k - 1 \in 0..k - 1 /\ k # 0  BY <2>1, <2>3
        <5>2. g[k] = f[k - 1] \o Round(lists, k)  BY <5>1
        <5>3. g[k - 1] = f[k - 1]  BY <3>3, <5>1
        <5> HIDE DEF g
        <5> QED  BY <4>1, <5>1, <5>2, <5>3
      <4>2. CASE i # k
        <5>1. i \in 0..k - 1 /\ (i # 0 => i - 1 \in 0..k - 1)  BY <2>1, <4>2
        <5>2. f[i] = Body(f, i)  BY <3>2, <5>1
        <5>3. g[i] = f[i] /\ (i # 0 => g[i - 1] = f[i - 1])  BY <3>3, <5>1
        <5> HIDE DEF g
        <5> QED  BY <5>2, <5>3
      <4> QED  BY <4>1, <4>2
    <3>5. g = [i \in 0..k |-> g[i]]  OBVIOUS
    <3> HIDE DEF g
    <3>6. Upto(g, k)  BY <3>4, <3>5
    <3> QED  BY <2>1, <3>6
  <2> QED  BY <2>2, <2>3
<1>2. MaxId \in Nat  BY IdealozAssumption
<1>3. \E f : f = [i \in 0..MaxId |-> IF i = 0 THEN <<>>
                   ELSE f[i - 1] \o (IF i \in DOMAIN lists THEN lists[i] ELSE <<>>)]
  BY <1>1, <1>2 DEF Round
<1> DEFINE F == CHOOSE f : f = [i \in 0..MaxId |-> IF i = 0 THEN <<>>
                   ELSE f[i - 1] \o (IF i \in DOMAIN lists THEN lists[i] ELSE <<>>)]
<1>4. F = [i \in 0..MaxId |-> IF i = 0 THEN <<>>
                   ELSE F[i - 1] \o (IF i \in DOMAIN lists THEN lists[i] ELSE <<>>)]
  BY <1>3, Zenon
<1>5. InOrder(lists) = F[MaxId]  BY Zenon DEF InOrder
<1> HIDE DEF F
<1>6. F[0] = <<>>  BY <1>2, <1>4
<1>7. \A k \in 1..MaxId : F[k] = F[k - 1] \o Round(lists, k)
  BY <1>2, <1>4 DEF Round
<1> QED  BY <1>5, <1>6, <1>7

\* What holds of the list before the first round and is kept by each round
\* holds of the whole list; G[k] is the set of lists that may be there after
\* round k.
LEMMA InOrderInduction ==
  ASSUME NEW lists, NEW G, <<>> \in G[0],
         \A k \in 1..MaxId : \A s \in G[k - 1] : s \o Round(lists, k) \in G[k]
  PROVE  InOrder(lists) \in G[MaxId]
<1>1. PICK upto : /\ InOrder(lists) = upto[MaxId] /\ upto[0] = <<>>
                  /\ \A k \in 1..MaxId : upto[k] = upto[k - 1] \o Round(lists, k)
  BY InOrderDef
<1>2. MaxId \in Nat  BY IdealozAssumption
<1> DEFINE Bad == {k \in 0..MaxId : upto[k] \notin G[k]}
<1>3. Bad = {}
  <2> SUFFICES ASSUME Bad # {} PROVE FALSE
    OBVIOUS
  <2>1. PICK k \in Bad : \A j \in Bad : k <= j
    <3>1. Bad \subseteq Nat  BY <1>2
    <3> HIDE DEF Bad
    <3> QED  BY <3>1, LeastNumber
  <2>2. k \in 1..MaxId  BY <1>1, <1>2, <2>1
  <2>3. k - 1 \in 0..MaxId /\ k - 1 \notin Bad  BY <1>2, <2>1, <2>2
  <2>4. upto[k - 1] \in G[k - 1]  BY <2>3
  <2>5. upto[k - 1] \o Round(lists, k) \in G[k]  BY <2>2, <2>4
  <2> QED  BY <1>1, <2>1, <2>2, <2>5
<1>4. upto[MaxId] \in G[MaxId]  BY <1>2, <1>3
<1> QED  BY <1>1, <1>4

LEMMA InOrderSeq ==
  ASSUME NEW lists, NEW X, \A k \in DOMAIN lists : lists[k] \in Seq(X)
  PROVE  InOrder(lists) \in Seq(X)
<1> DEFINE G == [k \in 0..MaxId |-> Seq(X)]
<1>1. MaxId \in Nat  BY IdealozAssumption
<1>2. \A k \in 0..MaxId : G[k] = Seq(X)  OBVIOUS
<1> HIDE DEF G
<1>3. \A k \in 1..MaxId : Round(lists, k) \in Seq(X)  BY DEF Round
<1>4. 0 \in 0..MaxId /\ MaxId \in 0..MaxId
      /\ \A k \in 1..MaxId : k \in 0..MaxId /\ k - 1 \in 0..MaxId
  BY <1>1
<1>5. \A k \in 1..MaxId : \A s \in Seq(X) : s \o Round(lists, k) \in Seq(X)
  BY <1>3
<1>6. <<>> \in G[0]
  <2>1. <<>> \in Seq(X) /\ G[0] = Seq(X)  BY <1>2, <1>4, EmptySeq
  <2> QED  BY <2>1
<1>7. \A k \in 1..MaxId : \A s \in G[k - 1] : s \o Round(lists, k) \in G[k]
  BY <1>2, <1>4, <1>5
<1>8. InOrder(lists) \in G[MaxId]  BY <1>6, <1>7, InOrderInduction
<1> QED  BY <1>2, <1>4, <1>8

-----------------------------------------------------------------------------
(* The tables a queue leads to. *)

\* Notifications about an entry that stays as it is.
Marks == Notices \cup {"NodeQueriesComplete", "ValueChanged", "ValueRefreshed"}

\* A table is a function from the nodes to the sets of their values.  The
\* delivery of e is safe in table t and makes it u.
Delivers(t, e, u) ==
  \/ e.type = "NodeAdded" /\ e.node \notin DOMAIN t /\ u = With(t, e.node, {})
  \/ e.type = "NodeRemoved" /\ u = Without(t, e.node)
  \/ /\ e.type = "ValueAdded" /\ e.node \in DOMAIN t /\ e.value \notin t[e.node]
     /\ u = With(t, e.node, t[e.node] \cup {e.value})
  \/ /\ e.type = "ValueRemoved" /\ e.node \in DOMAIN t
     /\ u = With(t, e.node, t[e.node] \ {e.value})
  \/ e.type \in Marks /\ e.node \in DOMAIN t /\ u = t
  \/ e.type \in {"DriverReady", "NodeNew"} /\ u = t
  \/ e.type = "DriverFailed" /\ u = [n \in {} |-> {}]

\* The deliveries of the queue s are safe and make table t the table u; r are
\* the tables between them.
Leads(t, s, u) ==
  \E r : /\ r[0] = t /\ r[Len(s)] = u
         /\ \A i \in 1..Len(s) : Delivers(r[i - 1], s[i], r[i])

LEMMA LeadsNone ==
  ASSUME NEW t
  PROVE  Leads(t, <<>>, t)
<1> DEFINE r == [i \in {0} |-> t]
<1>1. r[0] = t /\ Len(<<>>) = 0  OBVIOUS
<1> HIDE DEF r
<1> QED  BY <1>1 DEF Leads

LEMMA LeadsOne ==
  ASSUME NEW t, NEW e, NEW u, Delivers(t, e, u)
  PROVE  Leads(t, <<e>>, u)
<1> DEFINE r == [i \in {0, 1} |-> IF i = 0 THEN t ELSE u]
<1>1. r[0] = t /\ r[1] = u  OBVIOUS
<1>2. Len(<<e>>) = 1 /\ <<e>>[1] = e  OBVIOUS
<1> DEFINE s == <<e>>
<1> HIDE DEF r, s, Delivers
<1>3. \A i \in 1..Len(s) : i = 1  BY <1>2 DEF s
<1>4. \A i \in 1..Len(s) : Delivers(r[i - 1], s[i], r[i])
  <2> TAKE i \in 1..Len(s)
  <2>1. i = 1 /\ i - 1 = 0  BY <1>3
  <2> QED  BY <1>1, <1>2, <2>1 DEF s
<1>5. Leads(t, s, u)  BY <1>1, <1>2, <1>4 DEF Leads, s
<1> QED  BY <1>5 DEF s

LEMMA LeadsConcat ==
  ASSUME NEW X, NEW s \in Seq(X), NEW z \in Seq(X), NEW t, NEW u, NEW w,
         Leads(t, s, u), Leads(u, z, w)
  PROVE  Leads(t, s \o z, w)
<1> DEFINE a == Len(s)
           b == Len(z)
           c == s \o z
<1>1. PICK p : /\ p[0] = t /\ p[a] = u
               /\ \A i \in 1..a : Delivers(p[i - 1], s[i], p[i])
  BY DEF Leads
<1>2. PICK q : /\ q[0] = u /\ q[b] = w
               /\ \A i \in 1..b : Delivers(q[i - 1], z[i], q[i])
  BY DEF Leads
<1>3. a \in Nat /\ b \in Nat  BY LenProperties
<1>4. /\ Len(c) = a + b
      /\ \A i \in 1..a + b : c[i] = IF i <= a THEN s[i] ELSE z[i - a]
  BY ConcatProperties
<1> DEFINE r == [i \in 0..a + b |-> IF i <= a THEN p[i] ELSE q[i - a]]
<1>5. \A i \in 0..a + b : r[i] = IF i <= a THEN p[i] ELSE q[i - a]  OBVIOUS
<1> HIDE DEF a, b, c, r, Delivers
<1>6. \A i \in 0..a : r[i] = p[i]  BY <1>3, <1>5
<1>7. \A i \in a..a + b : r[i] = q[i - a]
  <2> TAKE i \in a..a + b
  <2>1. CASE i = a
    <3>1. a \in 0..a + b /\ a - a = 0  BY <1>3
    <3>2. r[a] = p[a]  BY <1>3, <1>5, <3>1
    <3> QED  BY <1>1, <1>2, <2>1, <3>1, <3>2
  <2>2. CASE i # a
    BY <1>3, <1>5, <2>2
  <2> QED  BY <2>1, <2>2
<1>8. r[0] = t /\ r[a + b] = w
  <2>1. 0 \in 0..a /\ a + b \in a..a + b /\ (a + b) - a = b  BY <1>3
  <2> QED  BY <1>1, <1>2, <1>6, <1>7, <2>1
<1>9. \A i \in 1..a + b : Delivers(r[i - 1], c[i], r[i])
  <2> TAKE i \in 1..a + b
  <2>1. CASE i <= a
    <3>1. i \in 1..a /\ i \in 0..a /\ i - 1 \in 0..a  BY <1>3, <2>1
    <3>2. r[i - 1] = p[i - 1] /\ r[i] = p[i]  BY <1>6, <3>1
    <3>3. c[i] = s[i]  BY <1>4, <2>1
    <3> QED  BY <1>1, <3>1, <3>2, <3>3
  <2>2. CASE ~(i <= a)
    <3>1. /\ i \in a..a + b /\ i - 1 \in a..a + b /\ i - a \in 1..b
          /\ (i - 1) - a = (i - a) - 1
      BY <1>3, <2>2
    <3>2. r[i - 1] = q[(i - a) - 1] /\ r[i] = q[i - a]  BY <1>7, <3>1
    <3>3. c[i] = z[i - a]  BY <1>4, <2>2
    <3>4. Delivers(q[(i - a) - 1], z[i - a], q[i - a])  BY <1>2, <3>1
    <3> QED  BY <3>2, <3>3, <3>4
  <2> QED  BY <2>1, <2>2
<1>10. Leads(t, c, w)  BY <1>4, <1>8, <1>9 DEF Leads
<1> QED  BY <1>10 DEF c

LEMMA LeadsHead ==
  ASSUME NEW X, NEW s \in Seq(X), s # <<>>, NEW t, NEW u, Leads(t, s, u)
  PROVE  \E w : Delivers(t, Head(s), w) /\ Leads(w, Tail(s), u)
<1> DEFINE a == Len(s)
           z == Tail(s)
<1>1. PICK p : /\ p[0] = t /\ p[a] = u
               /\ \A i \in 1..a : Delivers(p[i - 1], s[i], p[i])
  BY DEF Leads
<1>2. a \in Nat /\ a # 0  BY EmptySeq
<1>3. Len(z) = a - 1 /\ Head(s) = s[1] /\ \A i \in 1..a - 1 : z[i] = s[i + 1]
  OBVIOUS
<1> DEFINE r == [i \in 0..a - 1 |-> p[i + 1]]
<1>4. \A i \in 0..a - 1 : r[i] = p[i + 1]  OBVIOUS
<1> HIDE DEF a, z, r, Delivers
<1>5. r[0] = p[1] /\ r[a - 1] = u
  <2>1. 0 \in 0..a - 1 /\ a - 1 \in 0..a - 1 /\ 0 + 1 = 1 /\ (a - 1) + 1 = a  BY <1>2
  <2> QED  BY <1>1, <1>4, <2>1
<1>6. \A i \in 1..a - 1 : Delivers(r[i - 1], z[i], r[i])
  <2> TAKE i \in 1..a - 1
  <2>1. /\ i \in 0..a - 1 /\ i - 1 \in 0..a - 1 /\ i + 1 \in 1..a
        /\ (i + 1) - 1 = i /\ (i - 1) + 1 = i
    BY <1>2
  <2>2. r[i - 1] = p[i] /\ r[i] = p[i + 1] /\ z[i] = s[i + 1]  BY <1>3, <1>4, <2>1
  <2>3. Delivers(p[i], s[i + 1], p[i + 1])  BY <1>1, <2>1
  <2> QED  BY <2>2, <2>3
<1>7. Leads(p[1], z, u)  BY <1>3, <1>5, <1>6 DEF Leads
<1>8. Delivers(t, Head(s), p[1])
  <2>1. 1 \in 1..a /\ 1 - 1 = 0  BY <1>2
  <2> QED  BY <1>1, <1>3, <2>1
<1> QED  BY <1>7, <1>8 DEF z

\* A loop leads from the first of the tables g to the last when each of its
\* rounds leads from one to the next.
LEMMA InOrderLeads ==
  ASSUME NEW lists, NEW X, NEW g, \A k \in DOMAIN lists : lists[k] \in Seq(X),
         \A k \in 1..MaxId : Leads(g[k - 1], Round(lists, k), g[k])
  PROVE  Leads(g[0], InOrder(lists), g[MaxId])
<1> DEFINE G == [k \in 0..MaxId |-> {s \in Seq(X) : Leads(g[0], s, g[k])}]
<1>1. MaxId \in Nat  BY IdealozAssumption
<1>2. \A k \in 0..MaxId : \A s : s \in G[k] <=> s \in Seq(X) /\ Leads(g[0], s, g[k])
  OBVIOUS
<1> HIDE DEF G, Leads
<1>3. \A k \in 1..MaxId : Round(lists, k) \in Seq(X)  BY DEF Round
<1>4. /\ 0 \in 0..MaxId /\ MaxId \in 0..MaxId
      /\ \A k \in 1..MaxId : k \in 0..MaxId /\ k - 1 \in 0..MaxId
  BY <1>1
<1>5. <<>> \in G[0]  BY <1>2, <1>4, EmptySeq, LeadsNone
<1>6. ASSUME NEW k \in 1..MaxId, NEW s \in G[k - 1]
      PROVE  s \o Round(lists, k) \in G[k]
  <2>1. s \in Seq(X) /\ Leads(g[0], s, g[k - 1])  BY <1>2, <1>4
  <2>2. Leads(g[0], s \o Round(lists, k), g[k])  BY <1>3, <2>1, LeadsConcat
  <2>3. s \o Round(lists, k) \in Seq(X)  BY <1>3, <2>1
  <2> QED  BY <1>2, <1>4, <2>2, <2>3
<1>7. InOrder(lists) \in G[MaxId]  BY <1>5, <1>6, InOrderInduction
<1> QED  BY <1>2, <1>4, <1>7

-----------------------------------------------------------------------------
(* The notifications of the driver. *)

NodeTypes == Notices \cup {"NodeQueriesComplete", "NodeNew", "NodeAdded", "NodeRemoved"}
NodeNotes == [type : NodeTypes, node : NodeIds]
ValueNotes == [type : {"ValueAdded", "ValueRemoved", "ValueChanged", "ValueRefreshed"},
               node : NodeIds, value : Values]
DriverNotes == [type : {"DriverReady", "DriverReset", "DriverFailed"}]
Notifications == NodeNotes \cup ValueNotes \cup DriverNotes

LEMMA NoteType ==
  ASSUME NEW n \in NodeIds, NEW type \in NodeTypes
  PROVE  Note(type, n) \in Seq(Notifications)
<1> DEFINE e == [type |-> type, node |-> n]
<1>1. e \in Notifications  BY DEF Notifications, NodeNotes
<1> HIDE DEF e
<1>2. <<e>> \in Seq(Notifications)  BY <1>1
<1> QED  BY <1>2 DEF Note, e

LEMMA ValueNoteType ==
  ASSUME NEW n \in NodeIds, NEW v \in Values,
         NEW type \in {"ValueAdded", "ValueRemoved", "ValueChanged", "ValueRefreshed"}
  PROVE  ValueNote(type, n, v) \in Seq(Notifications)
<1> DEFINE e == [type |-> type, node |-> n, value |-> v]
<1>1. e \in Notifications  BY DEF Notifications, ValueNotes
<1> HIDE DEF e
<1>2. <<e>> \in Seq(Notifications)  BY <1>1
<1> QED  BY <1>2 DEF ValueNote, e

LEMMA DriverType ==
  ASSUME NEW type \in {"DriverReady", "DriverReset", "DriverFailed"}
  PROVE  Driver(type) \in Seq(Notifications)
<1> DEFINE e == [type |-> type]
<1>1. e \in Notifications  BY DEF Notifications, DriverNotes
<1> HIDE DEF e
<1>2. <<e>> \in Seq(Notifications)  BY <1>1
<1> QED  BY <1>2 DEF Driver, e

LEMMA DeletionType ==
  ASSUME NEW n \in NodeIds, NEW values \in SUBSET Values
  PROVE  Deletion(n, values) \in Seq(Notifications)
<1> DEFINE lists == [v \in values |-> ValueNote("ValueRemoved", n, v)]
<1>1. \A v \in values : ValueNote("ValueRemoved", n, v) \in Seq(Notifications)
  BY ValueNoteType
<1>2. \A v \in DOMAIN lists : lists[v] \in Seq(Notifications)  BY <1>1
<1> HIDE DEF lists
<1>3. InOrder(lists) \in Seq(Notifications)  BY <1>2, InOrderSeq
<1>4. Note("NodeRemoved", n) \in Seq(Notifications)  BY NoteType DEF NodeTypes
<1>5. InOrder(lists) \o Note("NodeRemoved", n) \in Seq(Notifications)  BY <1>3, <1>4
<1> QED  BY <1>5 DEF Deletion, lists

IsTable(t) ==
  /\ t = [m \in DOMAIN t |-> t[m]]
  /\ DOMAIN t \subseteq NodeIds
  /\ \A m \in DOMAIN t : t[m] \subseteq Values

LEMMA ValueAddedLeads ==
  ASSUME NEW t, NEW n \in DOMAIN t, NEW v, v \notin t[n]
  PROVE  Leads(t, ValueNote("ValueAdded", n, v), With(t, n, t[n] \cup {v}))
<1> DEFINE e == [type |-> "ValueAdded", node |-> n, value |-> v]
           u == With(t, n, t[n] \cup {v})
<1>1. e.type = "ValueAdded" /\ e.node = n /\ e.value = v  OBVIOUS
<1> HIDE DEF e, u
<1>2. Delivers(t, e, u)  BY <1>1 DEF Delivers, u
<1>3. Leads(t, <<e>>, u)  BY <1>2, LeadsOne
<1> QED  BY <1>3 DEF ValueNote, e, u

LEMMA ValueRemovedLeads ==
  ASSUME NEW t, NEW n \in DOMAIN t, NEW v
  PROVE  Leads(t, ValueNote("ValueRemoved", n, v), With(t, n, t[n] \ {v}))
<1> DEFINE e == [type |-> "ValueRemoved", node |-> n, value |-> v]
           u == With(t, n, t[n] \ {v})
<1>1. e.type = "ValueRemoved" /\ e.node = n /\ e.value = v  OBVIOUS
<1> HIDE DEF e, u
<1>2. Delivers(t, e, u)  BY <1>1 DEF Delivers, u
<1>3. Leads(t, <<e>>, u)  BY <1>2, LeadsOne
<1> QED  BY <1>3 DEF ValueNote, e, u

LEMMA ValueMarkLeads ==
  ASSUME NEW t, NEW n \in DOMAIN t, NEW v, NEW type \in {"ValueChanged", "ValueRefreshed"}
  PROVE  Leads(t, ValueNote(type, n, v), t)
<1> DEFINE e == [type |-> type, node |-> n, value |-> v]
<1>1. e.type = type /\ e.node = n  OBVIOUS
<1> HIDE DEF e
<1>2. Delivers(t, e, t)  BY <1>1 DEF Delivers, Marks
<1>3. Leads(t, <<e>>, t)  BY <1>2, LeadsOne
<1> QED  BY <1>3 DEF ValueNote, e

LEMMA NoticeLeads ==
  ASSUME NEW t, NEW n, NEW type, \/ /\ type \in Notices \cup {"NodeQueriesComplete"}
                                    /\ n \in DOMAIN t
                                 \/ type = "NodeNew"
  PROVE  Leads(t, Note(type, n), t)
<1> DEFINE e == [type |-> type, node |-> n]
<1>1. e.type = type /\ e.node = n  OBVIOUS
<1> HIDE DEF e
<1>2. Delivers(t, e, t)  BY <1>1 DEF Delivers, Marks
<1>3. Leads(t, <<e>>, t)  BY <1>2, LeadsOne
<1> QED  BY <1>3 DEF Note, e

LEMMA NodeAddedLeads ==
  ASSUME NEW t, NEW n, n \notin DOMAIN t
  PROVE  Leads(t, Note("NodeAdded", n), With(t, n, {}))
<1> DEFINE e == [type |-> "NodeAdded", node |-> n]
           u == With(t, n, {})
<1>1. e.type = "NodeAdded" /\ e.node = n  OBVIOUS
<1> HIDE DEF e, u
<1>2. Delivers(t, e, u)  BY <1>1 DEF Delivers, u
<1>3. Leads(t, <<e>>, u)  BY <1>2, LeadsOne
<1> QED  BY <1>3 DEF Note, e, u

LEMMA NodeRemovedLeads ==
  ASSUME NEW t, NEW n
  PROVE  Leads(t, Note("NodeRemoved", n), Without(t, n))
<1> DEFINE e == [type |-> "NodeRemoved", node |-> n]
           u == Without(t, n)
<1>1. e.type = "NodeRemoved" /\ e.node = n  OBVIOUS
<1> HIDE DEF e, u
<1>2. Delivers(t, e, u)  BY <1>1 DEF Delivers, u
<1>3. Leads(t, <<e>>, u)  BY <1>2, LeadsOne
<1> QED  BY <1>3 DEF Note, e, u

\* The deletion of a node removes its values one after the other, then the node.
LEMMA DeletionLeads ==
  ASSUME NEW t, IsTable(t), NEW n \in NodeIds, NEW values,
         values = (IF n \in DOMAIN t THEN t[n] ELSE {})
  PROVE  Leads(t, Deletion(n, values), Without(t, n))
<1> DEFINE lists == [v \in values |-> ValueNote("ValueRemoved", n, v)]
           After(k) == [m \in DOMAIN t |-> IF m = n THEN {v \in t[n] : v > k} ELSE t[m]]
           g == [k \in 0..MaxId |-> After(k)]
<1>1. MaxId \in Nat /\ Values \subseteq 1..MaxId  BY IdealozAssumption
<1>2. values \subseteq Values /\ values \subseteq 1..MaxId  BY <1>1 DEF IsTable
<1>3. \A k \in 0..MaxId : g[k] = After(k)  OBVIOUS
<1>4. \A v \in values : ValueNote("ValueRemoved", n, v) \in Seq(Notifications)
  BY <1>2, ValueNoteType
<1>5. /\ \A v \in DOMAIN lists : lists[v] \in Seq(Notifications)
      /\ \A k : Round(lists, k) = IF k \in values THEN ValueNote("ValueRemoved", n, k) ELSE <<>>
  BY <1>4 DEF Round
<1> HIDE DEF lists, g
<1>6. ASSUME NEW k \in 1..MaxId
      PROVE  Leads(g[k - 1], Round(lists, k), g[k])
  <2>1. k \in 0..MaxId /\ k - 1 \in 0..MaxId  BY <1>1
  <2>2. g[k] = After(k) /\ g[k - 1] = After(k - 1)  BY <1>3, <2>1
  <2>3. CASE k \in values
    <3>1. n \in DOMAIN t /\ values = t[n]  BY <2>3
    <3>2. {v \in t[n] : v > k} = {v \in t[n] : v > k - 1} \ {k}
      BY <1>1, <1>2, <3>1
    <3>3. n \in DOMAIN After(k - 1) /\ After(k - 1)[n] = {v \in t[n] : v > k - 1}
      BY <3>1
    <3>4. After(k) = With(After(k - 1), n, After(k - 1)[n] \ {k})
      BY <3>1, <3>2 DEF With
    <3> HIDE DEF After
    <3>5. Leads(After(k - 1), ValueNote("ValueRemoved", n, k), After(k))
      BY <3>3, <3>4, ValueRemovedLeads
    <3> QED  BY <1>5, <2>2, <2>3, <3>5
  <2>4. CASE k \notin values
    <3>1. n \in DOMAIN t => {v \in t[n] : v > k} = {v \in t[n] : v > k - 1}
      BY <1>1, <1>2, <2>4
    <3>2. After(k) = After(k - 1)  BY <3>1
    <3> HIDE DEF After
    <3>3. Leads(After(k), <<>>, After(k))  BY LeadsNone
    <3> QED  BY <1>5, <2>2, <2>4, <3>2, <3>3
  <2> QED  BY <2>3, <2>4
<1>7. Leads(g[0], InOrder(lists), g[MaxId])  BY <1>5, <1>6, InOrderLeads
<1>8. g[0] = t
  <2>1. g[0] = After(0)  BY <1>1, <1>3
  <2>2. n \in DOMAIN t => {v \in t[n] : v > 0} = t[n]  BY <1>1, <1>2
  <2>3. After(0) = [m \in DOMAIN t |-> t[m]]  BY <2>2
  <2> QED  BY <2>1, <2>3 DEF IsTable
<1>9. Without(g[MaxId], n) = Without(t, n)
  <2>1. g[MaxId] = After(MaxId)  BY <1>1, <1>3
  <2>2. Without(After(MaxId), n) = Without(t, n)  BY DEF Without
  <2> QED  BY <2>1, <2>2
<1>10. Leads(g[MaxId], Note("NodeRemoved", n), Without(t, n))
  BY <1>9, NodeRemovedLeads
<1>11. InOrder(lists) \in Seq(Notifications)  BY <1>5, InOrderSeq
<1>12. Note("NodeRemoved", n) \in Seq(Notifications)  BY NoteType DEF NodeTypes
<1>13. Leads(t, InOrder(lists) \o Note("NodeRemoved", n), Without(t, n))
  BY <1>7, <1>8, <1>10, <1>11, <1>12, LeadsConcat
<1> QED  BY <1>13 DEF Deletion, lists

NodeConfig(n, values) ==
  Note("NodeAdded", n) \o InOrder([v \in values |-> ValueNote("ValueAdded", n, v)])

\* A node of zwcfg is added, then its values one after the other.
LEMMA NodeConfigLeads ==
  ASSUME NEW t, NEW n \in NodeIds, n \notin DOMAIN t, NEW values, values \subseteq Values
  PROVE  /\ NodeConfig(n, values) \in Seq(Notifications)
         /\ Leads(t, NodeConfig(n, values), With(t, n, values))
<1> DEFINE lists == [v \in values |-> ValueNote("ValueAdded", n, v)]
           After(k) == With(t, n, {v \in values : v <= k})
           g == [k \in 0..MaxId |-> After(k)]
<1>1. MaxId \in Nat /\ values \subseteq 1..MaxId  BY IdealozAssumption
<1>2. \A k \in 0..MaxId : g[k] = After(k)  OBVIOUS
<1>3. \A v \in values : ValueNote("ValueAdded", n, v) \in Seq(Notifications)
  BY ValueNoteType
<1>4. /\ \A v \in DOMAIN lists : lists[v] \in Seq(Notifications)
      /\ \A k : Round(lists, k) = IF k \in values THEN ValueNote("ValueAdded", n, k) ELSE <<>>
  BY <1>3 DEF Round
<1> HIDE DEF lists, g
<1>5. ASSUME NEW k \in 1..MaxId
      PROVE  Leads(g[k - 1], Round(lists, k), g[k])
  <2>1. k \in 0..MaxId /\ k - 1 \in 0..MaxId  BY <1>1
  <2>2. g[k] = After(k) /\ g[k - 1] = After(k - 1)  BY <1>2, <2>1
  <2>3. CASE k \in values
    <3>1. \A v \in values : v <= k <=> v <= k - 1 \/ v = k  BY <1>1
    <3>2. {v \in values : v <= k} = {v \in values : v <= k - 1} \cup {k}
      BY <2>3, <3>1
    <3>3. n \in DOMAIN After(k - 1) /\ After(k - 1)[n] = {v \in values : v <= k - 1}
      BY DEF With
    <3>4. k \notin After(k - 1)[n]  BY <3>3
    <3>5. After(k) = With(After(k - 1), n, After(k - 1)[n] \cup {k})
      BY <3>2 DEF With
    <3> HIDE DEF After
    <3>6. Leads(After(k - 1), ValueNote("ValueAdded", n, k), After(k))
      BY <3>3, <3>4, <3>5, ValueAddedLeads
    <3> QED  BY <1>4, <2>2, <2>3, <3>6
  <2>4. CASE k \notin values
    <3>1. \A v \in values : v <= k <=> v <= k - 1  BY <1>1, <2>4
    <3>2. {v \in values : v <= k} = {v \in values : v <= k - 1}  BY <3>1
    <3>3. After(k) = After(k - 1)  BY <3>2
    <3> HIDE DEF After
    <3>4. Leads(After(k), <<>>, After(k))  BY LeadsNone
    <3> QED  BY <1>4, <2>2, <2>4, <3>3, <3>4
  <2> QED  BY <2>3, <2>4
<1>6. Leads(g[0], InOrder(lists), g[MaxId])  BY <1>4, <1>5, InOrderLeads
<1>7. g[0] = With(t, n, {})
  <2>1. g[0] = After(0)  BY <1>1, <1>2
  <2>2. \A v \in values : ~(v <= 0)  BY <1>1
  <2>3. {v \in values : v <= 0} = {}  BY <2>2
  <2> QED  BY <2>1, <2>3
<1>8. g[MaxId] = With(t, n, values)
  <2>1. g[MaxId] = After(MaxId)  BY <1>1, <1>2
  <2>2. \A v \in values : v <= MaxId  BY <1>1
  <2>3. {v \in values : v <= MaxId} = values  BY <2>2
  <2> QED  BY <2>1, <2>3
<1>9. Leads(t, Note("NodeAdded", n), With(t, n, {}))  BY NodeAddedLeads
<1>10. InOrder(lists) \in Seq(Notifications)  BY <1>4, InOrderSeq
<1>11. Note("NodeAdded", n) \in Seq(Notifications)  BY NoteType DEF NodeTypes
<1>12. Note("NodeAdded", n) \o InOrder(lists) \in Seq(Notifications)  BY <1>10, <1>11
<1>13. Leads(t, Note("NodeAdded", n) \o InOrder(lists), With(t, n, values))
  BY <1>6, <1>7, <1>8, <1>9, <1>10, <1>11, LeadsConcat
<1> QED  BY <1>12, <1>13 DEF lists, NodeConfig

NoNodes == [n \in {} |-> {}]

LEMMA ReadConfigLeads ==
  ASSUME IsTable(saved)
  PROVE  ReadConfig \in Seq(Notifications) /\ Leads(NoNodes, ReadConfig, saved)
<1> DEFINE Part(n) == NodeConfig(n, saved[n])
           lists == [n \in DOMAIN saved |-> Part(n)]
           After(k) == [m \in {i \in DOMAIN saved : i <= k} |-> saved[m]]
           g == [k \in 0..MaxId |-> After(k)]
<1>1. MaxId \in Nat /\ NodeIds \subseteq 1..MaxId  BY IdealozAssumption
<1>2. DOMAIN saved \subseteq NodeIds /\ DOMAIN saved \subseteq 1..MaxId
  BY <1>1 DEF IsTable
<1>3. \A k \in 0..MaxId : g[k] = After(k)  OBVIOUS
<1>4. ASSUME NEW n \in DOMAIN saved, NEW t, n \notin DOMAIN t
      PROVE  Part(n) \in Seq(Notifications) /\ Leads(t, Part(n), With(t, n, saved[n]))
  <2> DEFINE values == saved[n]
  <2>1. values \subseteq Values /\ n \in NodeIds  BY <1>2 DEF IsTable
  <2> HIDE DEF values
  <2>2. /\ NodeConfig(n, values) \in Seq(Notifications)
        /\ Leads(t, NodeConfig(n, values), With(t, n, values))
    BY <1>4, <2>1, NodeConfigLeads
  <2> QED  BY <2>2 DEF values
<1> HIDE DEF Part
<1>5. \A n \in DOMAIN saved : Part(n) \in Seq(Notifications)
  <2> TAKE n \in DOMAIN saved
  <2>1. n \notin DOMAIN NoNodes  BY DEF NoNodes
  <2> QED  BY <1>4, <2>1
<1>6. /\ \A n \in DOMAIN lists : lists[n] \in Seq(Notifications)
      /\ \A k : Round(lists, k) = IF k \in DOMAIN saved THEN Part(k) ELSE <<>>
  BY <1>5 DEF Round
<1>7. ReadConfig = InOrder(lists)  BY DEF ReadConfig, Part, NodeConfig
<1> HIDE DEF lists, g
<1>8. ASSUME NEW k \in 1..MaxId
      PROVE  Leads(g[k - 1], Round(lists, k), g[k])
  <2>1. k \in 0..MaxId /\ k - 1 \in 0..MaxId  BY <1>1
  <2>2. g[k] = After(k) /\ g[k - 1] = After(k - 1)  BY <1>3, <2>1
  <2>3. CASE k \in DOMAIN saved
    <3>1. {i \in DOMAIN saved : i <= k} = {i \in DOMAIN saved : i <= k - 1} \cup {k}
      BY <1>1, <1>2, <2>3
    <3>2. k \notin DOMAIN After(k - 1)  OBVIOUS
    <3>3. After(k) = With(After(k - 1), k, saved[k])
      BY <3>1, <3>2 DEF With
    <3> HIDE DEF After
    <3>4. Leads(After(k - 1), Part(k), After(k))  BY <1>4, <2>3, <3>2, <3>3
    <3> QED  BY <1>6, <2>2, <2>3, <3>4
  <2>4. CASE k \notin DOMAIN saved
    <3>1. {i \in DOMAIN saved : i <= k} = {i \in DOMAIN saved : i <= k - 1}
      BY <1>1, <1>2, <2>4
    <3>2. After(k) = After(k - 1)  BY <3>1
    <3> HIDE DEF After
    <3>3. Leads(After(k), <<>>, After(k))  BY LeadsNone
    <3> QED  BY <1>6, <2>2, <2>4, <3>2, <3>3
  <2> QED  BY <2>3, <2>4
<1>9. Leads(g[0], InOrder(lists), g[MaxId])  BY <1>6, <1>8, InOrderLeads
<1>10. g[0] = NoNodes
  <2>1. g[0] = After(0)  BY <1>1, <1>3
  <2>2. {i \in DOMAIN saved : i <= 0} = {}  BY <1>1, <1>2
  <2>3. After(0) = NoNodes  BY <2>2 DEF NoNodes
  <2> QED  BY <2>1, <2>3
<1>11. g[MaxId] = saved
  <2>1. g[MaxId] = After(MaxId)  BY <1>1, <1>3
  <2>2. {i \in DOMAIN saved : i <= MaxId} = DOMAIN saved  BY <1>1, <1>2
  <2> QED  BY <2>1, <2>2 DEF IsTable
<1>12. InOrder(lists) \in Seq(Notifications)  BY <1>6, InOrderSeq
<1> QED  BY <1>7, <1>9, <1>10, <1>11, <1>12

-----------------------------------------------------------------------------
(* The answer to the request for the init data. *)

BitNotes == InOrder([n \in network \cup DOMAIN Known |-> NodeBit(n)])

LEMMA NodeBitType ==
  ASSUME NEW n \in NodeIds, n \in network \cup DOMAIN Known,
         n \in DOMAIN Known => DOMAIN Known[n] \subseteq Values
  PROVE  NodeBit(n) \in Seq(Notifications)
<1>1. CASE n \notin DOMAIN Known
  <2>1. Note("NodeNew", n) \in Seq(Notifications) /\ Note("NodeAdded", n) \in Seq(Notifications)
    BY NoteType DEF NodeTypes
  <2>2. Note("NodeNew", n) \o Note("NodeAdded", n) \in Seq(Notifications)  BY <2>1
  <2>3. NodeBit(n) = Note("NodeNew", n) \o Note("NodeAdded", n)  BY <1>1 DEF NodeBit
  <2> QED  BY <2>2, <2>3
<1>2. CASE n \in DOMAIN Known /\ n \notin network
  <2>1. Deletion(n, DOMAIN Known[n]) \in Seq(Notifications)  BY <1>2, DeletionType
  <2> QED  BY <1>2, <2>1 DEF NodeBit
<1>3. CASE n \in DOMAIN Known /\ n \in network
  <2>1. NodeBit(n) = <<>>  BY <1>3 DEF NodeBit
  <2> QED  BY <2>1, EmptySeq
<1> QED  BY <1>1, <1>2, <1>3

LEMMA BitNotesType ==
  ASSUME network \subseteq NodeIds, DOMAIN Known \subseteq NodeIds,
         \A n \in DOMAIN Known : DOMAIN Known[n] \subseteq Values
  PROVE  BitNotes \in Seq(Notifications)
<1> DEFINE lists == [n \in network \cup DOMAIN Known |-> NodeBit(n)]
<1>1. \A n \in network \cup DOMAIN Known : NodeBit(n) \in Seq(Notifications)
  BY NodeBitType
<1>2. \A n \in DOMAIN lists : lists[n] \in Seq(Notifications)  BY <1>1
<1> HIDE DEF lists
<1>3. InOrder(lists) \in Seq(Notifications)  BY <1>2, InOrderSeq
<1> QED  BY <1>3 DEF BitNotes, lists

\* What the loop over the bit field makes of the nodes of zwcfg.
Found == [n \in network |-> IF n \in DOMAIN saved THEN saved[n] ELSE {}]

LEMMA BitNotesLead ==
  ASSUME IsTable(saved), network \subseteq NodeIds, ~m_init
  PROVE  BitNotes \in Seq(Notifications) /\ Leads(saved, BitNotes, Found)
<1> DEFINE lists == [n \in network \cup DOMAIN saved |-> NodeBit(n)]
           There(k) == {i \in network \cup DOMAIN saved :
                          IF i <= k THEN i \in network ELSE i \in DOMAIN saved}
           After(k) == [m \in There(k) |-> IF m \in DOMAIN saved THEN saved[m] ELSE {}]
           g == [k \in 0..MaxId |-> After(k)]
<1>1. MaxId \in Nat /\ NodeIds \subseteq 1..MaxId  BY IdealozAssumption
<1>2. /\ DOMAIN saved \subseteq NodeIds /\ DOMAIN saved \subseteq 1..MaxId
      /\ network \subseteq 1..MaxId
  BY <1>1 DEF IsTable
<1>3. DOMAIN Known = DOMAIN saved /\ \A n \in DOMAIN saved : DOMAIN Known[n] = saved[n]
  BY DEF Known
<1>4. \A n \in DOMAIN saved : saved[n] \subseteq Values  BY DEF IsTable
<1>5. \A n \in network \cup DOMAIN saved : NodeBit(n) \in Seq(Notifications)
  BY <1>2, <1>3, <1>4, NodeBitType
<1>6. /\ \A n \in DOMAIN lists : lists[n] \in Seq(Notifications)
      /\ \A k : Round(lists, k) = IF k \in network \cup DOMAIN saved THEN NodeBit(k) ELSE <<>>
  BY <1>5 DEF Round
<1>7. \A k \in 0..MaxId : g[k] = After(k)  OBVIOUS
<1>8. BitNotes = InOrder(lists)  BY <1>3 DEF BitNotes
<1> HIDE DEF lists, g
<1>9. ASSUME NEW k \in 1..MaxId
      PROVE  Leads(g[k - 1], Round(lists, k), g[k])
  <2>1. k \in 0..MaxId /\ k - 1 \in 0..MaxId  BY <1>1
  <2>2. g[k] = After(k) /\ g[k - 1] = After(k - 1)  BY <1>7, <2>1
  <2>3. /\ \A i \in (network \cup DOMAIN saved) \ {k} : i \in There(k) <=> i \in There(k - 1)
        /\ k \in There(k) <=> k \in network
        /\ k \in There(k - 1) <=> k \in DOMAIN saved
    BY <1>1, <1>2
  <2>4. There(k) \subseteq network \cup DOMAIN saved
        /\ There(k - 1) \subseteq network \cup DOMAIN saved
    OBVIOUS
  <2>5. CASE k \in network /\ k \notin DOMAIN saved
    <3>1. There(k) = There(k - 1) \cup {k} /\ k \notin There(k - 1)
      BY <2>3, <2>4, <2>5
    <3> HIDE DEF There
    <3>2. k \notin DOMAIN After(k - 1)  BY <3>1
    <3>3. After(k) = With(After(k - 1), k, {})
      BY <2>5, <3>1 DEF With
    <3> HIDE DEF After
    <3>4. Leads(After(k - 1), Note("NodeAdded", k), After(k))
      BY <3>2, <3>3, NodeAddedLeads
    <3>5. Leads(After(k - 1), Note("NodeNew", k), After(k - 1))
      BY NoticeLeads
    <3>6. Note("NodeNew", k) \in Seq(Notifications) /\ Note("NodeAdded", k) \in Seq(Notifications)
      BY <2>5, NoteType DEF NodeTypes
    <3>7. Leads(After(k - 1), Note("NodeNew", k) \o Note("NodeAdded", k), After(k))
      BY <3>4, <3>5, <3>6, LeadsConcat
    <3>8. NodeBit(k) = Note("NodeNew", k) \o Note("NodeAdded", k)
      BY <1>3, <2>5 DEF NodeBit
    <3> QED  BY <1>6, <2>2, <2>5, <3>7, <3>8
  <2>6. CASE k \in DOMAIN saved /\ k \notin network
    <3>1. There(k) = There(k - 1) \ {k} /\ k \in There(k - 1)
      BY <2>3, <2>4, <2>6
    <3>2. There(k - 1) \subseteq NodeIds  BY <1>2, <2>4
    <3> HIDE DEF There
    <3>3. IsTable(After(k - 1))  BY <1>4, <3>2 DEF IsTable
    <3>4. k \in DOMAIN After(k - 1) /\ After(k - 1)[k] = saved[k]  BY <2>6, <3>1
    <3>5. After(k) = Without(After(k - 1), k)  BY <3>1 DEF Without
    <3> HIDE DEF After
    <3>6. k \in NodeIds  BY <1>2, <2>6
    <3>7. Leads(After(k - 1), Deletion(k, saved[k]), After(k))
      BY <3>3, <3>4, <3>5, <3>6, DeletionLeads
    <3>8. NodeBit(k) = Deletion(k, saved[k])  BY <1>3, <2>6 DEF NodeBit
    <3> QED  BY <1>6, <2>2, <2>6, <3>7, <3>8
  <2>7. CASE k \in DOMAIN saved <=> k \in network
    <3>1. There(k) = There(k - 1)  BY <2>3, <2>4, <2>7
    <3>2. After(k) = After(k - 1)  BY <3>1
    <3> HIDE DEF There, After
    <3>3. Round(lists, k) = <<>>  BY <1>3, <1>6, <2>7 DEF NodeBit
    <3>4. Leads(After(k), <<>>, After(k))  BY LeadsNone
    <3> QED  BY <2>2, <3>2, <3>3, <3>4
  <2> QED  BY <2>5, <2>6, <2>7
<1>10. Leads(g[0], InOrder(lists), g[MaxId])  BY <1>6, <1>9, InOrderLeads
<1>11. g[0] = saved
  <2>1. g[0] = After(0)  BY <1>1, <1>7
  <2>2. \A i \in network \cup DOMAIN saved : ~(i <= 0)  BY <1>1, <1>2
  <2>3. There(0) = DOMAIN saved  BY <2>2
  <2> HIDE DEF There
  <2>4. After(0) = [m \in DOMAIN saved |-> saved[m]]  BY <2>3
  <2> QED  BY <2>1, <2>4 DEF IsTable
<1>12. g[MaxId] = Found
  <2>1. g[MaxId] = After(MaxId)  BY <1>1, <1>7
  <2>2. \A i \in network \cup DOMAIN saved : i <= MaxId  BY <1>1, <1>2
  <2>3. There(MaxId) = network  BY <2>2
  <2> HIDE DEF There
  <2> QED  BY <2>1, <2>3 DEF Found
<1>13. InOrder(lists) \in Seq(Notifications)  BY <1>6, InOrderSeq
<1> QED  BY <1>8, <1>10, <1>11, <1>12, <1>13

LEMMA InitDataLeads ==
  ASSUME IsTable(saved), network \subseteq NodeIds, ~m_init
  PROVE  LET q == (Driver("DriverReady") \o ReadConfig) \o BitNotes
         IN  q \in Seq(Notifications) /\ Leads(NoNodes, q, Found)
<1> DEFINE e == [type |-> "DriverReady"]
           d == Driver("DriverReady")
<1>1. e.type = "DriverReady"  OBVIOUS
<1> HIDE DEF e
<1>2. Delivers(NoNodes, e, NoNodes)  BY <1>1 DEF Delivers
<1>3. d \in Seq(Notifications) /\ Leads(NoNodes, d, NoNodes)
  BY <1>2, DriverType, LeadsOne DEF Driver, e
<1> HIDE DEF d
<1>4. ReadConfig \in Seq(Notifications) /\ Leads(NoNodes, ReadConfig, saved)
  BY ReadConfigLeads
<1>5. BitNotes \in Seq(Notifications) /\ Leads(saved, BitNotes, Found)
  BY BitNotesLead
<1>6. d \o ReadConfig \in Seq(Notifications) /\ Leads(NoNodes, d \o ReadConfig, saved)
  BY <1>3, <1>4, LeadsConcat
<1> DEFINE p == d \o ReadConfig
<1>7. p \in Seq(Notifications) /\ Leads(NoNodes, p, saved)  BY <1>6
<1> HIDE DEF p
<1>8. p \o BitNotes \in Seq(Notifications)  BY <1>5, <1>7
<1>9. Leads(NoNodes, p \o BitNotes, Found)  BY <1>5, <1>7, LeadsConcat
<1> QED  BY <1>8, <1>9 DEF p, d

-----------------------------------------------------------------------------
(* The lists of values of idealoz. *)

NoneTwice(s) == \A i, j \in 1..Len(s) : s[i] = s[j] => i = j

LEMMA SeqSet ==
  ASSUME NEW X, NEW s \in Seq(X)
  PROVE  /\ ToSet(s) \subseteq X
         /\ ToSet(s) = {s[i] : i \in 1..Len(s)}
         /\ Len(s) \in Nat
<1>1. DOMAIN s = 1..Len(s) /\ Len(s) \in Nat  BY LenProperties
<1>2. \A i \in 1..Len(s) : s[i] \in X  BY ElementOfSeq
<1> QED  BY <1>1, <1>2 DEF ToSet

LEMMA LengthOfList ==
  ASSUME NEW s \in Seq(Values), NoneTwice(s)
  PROVE  Len(s) = Cardinality(ToSet(s))
<1> DEFINE N == 1..Len(s)
           S == ToSet(s)
           f == [i \in N |-> s[i]]
<1>1. S = {s[i] : i \in N} /\ Len(s) \in Nat  BY SeqSet
<1>2. IsFiniteSet(N) /\ Cardinality(N) = Len(s)
  BY <1>1, FS_Interval
<1> HIDE DEF S
<1>3. f \in Bijection(N, S)
  <2>1. f \in [N -> S]  BY <1>1
  <2>2. \A i, j \in N : f[i] = f[j] => i = j  BY DEF NoneTwice
  <2>3. \A x \in S : \E i \in N : f[i] = x  BY <1>1
  <2> HIDE DEF f
  <2> QED  BY <2>1, <2>2, <2>3 DEF Bijection, Injection, Surjection, IsInjective
<1>4. ExistsBijection(N, S)  BY <1>3 DEF ExistsBijection
<1>5. Cardinality(S) = Cardinality(N)  BY <1>2, <1>4, FS_Bijection
<1> QED  BY <1>2, <1>5 DEF S

LEMMA AppendValue ==
  ASSUME NEW s \in Seq(Values), NEW v \in Values
  PROVE  /\ Append(s, v) \in Seq(Values)
         /\ ToSet(Append(s, v)) = ToSet(s) \cup {v}
         /\ NoneTwice(s) /\ v \notin ToSet(s) => NoneTwice(Append(s, v))
<1> DEFINE t == Append(s, v)
<1>1. /\ t \in Seq(Values) /\ Len(t) = Len(s) + 1 /\ t[Len(s) + 1] = v
      /\ \A i \in 1..Len(s) : t[i] = s[i]
  BY AppendProperties
<1>2. ToSet(s) = {s[i] : i \in 1..Len(s)} /\ Len(s) \in Nat  BY SeqSet
<1>3. ToSet(t) = {t[i] : i \in 1..Len(s) + 1}  BY <1>1, SeqSet
<1> HIDE DEF t
<1>4. \A i \in 1..Len(s) + 1 : i \in 1..Len(s) \/ i = Len(s) + 1  BY <1>2
<1>5. \A i \in 1..Len(s) : i \in 1..Len(s) + 1  BY <1>2
<1>6. Len(s) + 1 \in 1..Len(s) + 1  BY <1>2
<1>7. ToSet(t) \subseteq ToSet(s) \cup {v}  BY <1>1, <1>2, <1>3, <1>4
<1>8. ToSet(s) \cup {v} \subseteq ToSet(t)  BY <1>1, <1>2, <1>3, <1>5, <1>6
<1>9. ASSUME NoneTwice(s), v \notin ToSet(s)
      PROVE  NoneTwice(t)
  <2> SUFFICES ASSUME NEW i \in 1..Len(s) + 1, NEW j \in 1..Len(s) + 1, t[i] = t[j]
               PROVE  i = j
    BY <1>1 DEF NoneTwice
  <2>1. \A l \in 1..Len(s) : s[l] # v  BY <1>2, <1>9
  <2>2. CASE i \in 1..Len(s) /\ j \in 1..Len(s)
    BY <1>1, <1>9, <2>2 DEF NoneTwice
  <2>3. CASE i \in 1..Len(s) /\ j = Len(s) + 1
    BY <1>1, <2>1, <2>3
  <2>4. CASE i = Len(s) + 1 /\ j \in 1..Len(s)
    BY <1>1, <2>1, <2>4
  <2> QED  BY <1>4, <2>2, <2>3, <2>4
<1> QED  BY <1>1, <1>7, <1>8, <1>9 DEF t

LEMMA RemoveValueFromList ==
  ASSUME NEW s \in Seq(Values), NEW v
  PROVE  /\ removeValue(s, v) \in Seq(Values)
         /\ NoneTwice(s) => /\ NoneTwice(removeValue(s, v))
                            /\ ToSet(removeValue(s, v)) = ToSet(s) \ {v}
<1> DEFINE I == {i \in 1..Len(s) : s[i] = v}
           t == removeValue(s, v)
<1>1. ToSet(s) = {s[i] : i \in 1..Len(s)} /\ Len(s) \in Nat  BY SeqSet
<1>2. CASE I = {}
  <2>1. t = s  BY <1>2 DEF removeValue, RemoveFirst
  <2>2. v \notin ToSet(s)  BY <1>1, <1>2
  <2> HIDE DEF t
  <2>3. ToSet(s) = ToSet(s) \ {v}  BY <2>2
  <2> QED  BY <2>1, <2>3 DEF t
<1>3. CASE I # {}
  <2> DEFINE m == Min(I)
  <2>1. m \in I
    <3>1. I \subseteq Nat  BY <1>1
    <3> HIDE DEF I
    <3> QED  BY <1>3, <3>1, LeastNumber DEF Min
  <2>2. t = SubSeq(s, 1, m - 1) \o SubSeq(s, m + 1, Len(s))
    BY <1>3 DEF removeValue, RemoveFirst, RemoveAt, SelectInSeq
  <2> HIDE DEF m, t
  <2>3. m \in 1..Len(s) /\ s[m] = v  BY <2>1
  <2> DEFINE a == SubSeq(s, 1, m - 1)
             b == SubSeq(s, m + 1, Len(s))
  <2>4. \A i \in 1..Len(s) : s[i] \in Values  BY ElementOfSeq
  <2>5. /\ a \in Seq(Values) /\ Len(a) = m - 1
        /\ \A i \in 1..m - 1 : a[i] = s[i]
    <3>1. 1 \in Int /\ m - 1 \in Int /\ \A i \in 1..m - 1 : s[i] \in Values
      BY <1>1, <2>3, <2>4
    <3>2. /\ a \in Seq(Values) /\ Len(a) = IF 1 <= m - 1 THEN (m - 1) - 1 + 1 ELSE 0
          /\ \A i \in 1..(m - 1) - 1 + 1 : a[i] = s[1 + i - 1]
      BY <3>1, SubSeqProperties
    <3> HIDE DEF a
    <3> QED  BY <1>1, <2>3, <3>2
  <2>6. /\ b \in Seq(Values) /\ Len(b) = Len(s) - m
        /\ \A i \in 1..Len(s) - m : b[i] = s[m + i]
    <3>1. m + 1 \in Int /\ Len(s) \in Int /\ \A i \in m + 1..Len(s) : s[i] \in Values
      BY <1>1, <2>3, <2>4
    <3>2. /\ b \in Seq(Values)
          /\ Len(b) = IF m + 1 <= Len(s) THEN Len(s) - (m + 1) + 1 ELSE 0
          /\ \A i \in 1..Len(s) - (m + 1) + 1 : b[i] = s[(m + 1) + i - 1]
      BY <3>1, SubSeqProperties
    <3> HIDE DEF b
    <3> QED  BY <1>1, <2>3, <3>2
  <2>7. t = a \o b  BY <2>2
  <2> HIDE DEF a, b
  <2>8. /\ t \in Seq(Values) /\ Len(t) = Len(s) - 1
        /\ \A i \in 1..Len(s) - 1 : t[i] = IF i < m THEN s[i] ELSE s[i + 1]
    <3>1. /\ t \in Seq(Values) /\ Len(t) = Len(a) + Len(b)
          /\ \A i \in 1..Len(a) + Len(b) :
               t[i] = IF i <= Len(a) THEN a[i] ELSE b[i - Len(a)]
      BY <2>5, <2>6, <2>7, ConcatProperties
    <3>2. Len(a) + Len(b) = Len(s) - 1  BY <1>1, <2>3, <2>5, <2>6
    <3>3. ASSUME NEW i \in 1..Len(s) - 1
          PROVE  t[i] = IF i < m THEN s[i] ELSE s[i + 1]
      <4>1. t[i] = IF i <= m - 1 THEN a[i] ELSE b[i - (m - 1)]
        BY <2>5, <3>1, <3>2
      <4>2. CASE i < m
        <5>1. i <= m - 1 /\ i \in 1..m - 1  BY <1>1, <2>3, <4>2
        <5> QED  BY <2>5, <4>1, <4>2, <5>1
      <4>3. CASE ~(i < m)
        <5>1. ~(i <= m - 1) /\ i - (m - 1) \in 1..Len(s) - m /\ m + (i - (m - 1)) = i + 1
          BY <1>1, <2>3, <4>3
        <5>2. b[i - (m - 1)] = s[m + (i - (m - 1))]  BY <2>6, <5>1
        <5> QED  BY <4>1, <4>3, <5>1, <5>2
      <4> QED  BY <4>2, <4>3
    <3> QED  BY <3>1, <3>2, <3>3
  <2>9. ASSUME NoneTwice(s)
        PROVE  NoneTwice(t) /\ ToSet(t) = ToSet(s) \ {v}
    <3> DEFINE at(i) == IF i < m THEN i ELSE i + 1
    <3>1. \A i \in 1..Len(s) - 1 : at(i) \in 1..Len(s) /\ at(i) # m /\ t[i] = s[at(i)]
      BY <1>1, <2>3, <2>8
    <3>2. \A i, j \in 1..Len(s) - 1 : at(i) = at(j) => i = j
      BY <1>1, <2>3
    <3>3. \A i \in 1..Len(s) : i # m => \E j \in 1..Len(s) - 1 : at(j) = i
      <4> TAKE i \in 1..Len(s)
      <4>1. CASE i < m
        <5>1. i \in 1..Len(s) - 1 /\ at(i) = i  BY <1>1, <2>3, <4>1
        <5> QED  BY <5>1
      <4>2. CASE i > m
        <5>1. i - 1 \in 1..Len(s) - 1 /\ at(i - 1) = i  BY <1>1, <2>3, <4>2
        <5> QED  BY <5>1
      <4> QED  BY <1>1, <2>3, <4>1, <4>2
    <3> HIDE DEF at
    <3>4. \A i \in 1..Len(s) : s[i] = v => i = m  BY <2>3, <2>9 DEF NoneTwice
    <3>5. NoneTwice(t)
      <4> SUFFICES ASSUME NEW i \in 1..Len(s) - 1, NEW j \in 1..Len(s) - 1, t[i] = t[j]
                   PROVE  i = j
        BY <2>8 DEF NoneTwice
      <4>1. s[at(i)] = s[at(j)] /\ at(i) \in 1..Len(s) /\ at(j) \in 1..Len(s)  BY <3>1
      <4>2. at(i) = at(j)  BY <2>9, <4>1 DEF NoneTwice
      <4> QED  BY <3>2, <4>2
    <3>6. ToSet(t) = {t[i] : i \in 1..Len(s) - 1}  BY <2>8, SeqSet
    <3>7. ToSet(t) \subseteq ToSet(s) \ {v}
      <4> SUFFICES ASSUME NEW i \in 1..Len(s) - 1 PROVE t[i] \in ToSet(s) \ {v}
        BY <3>6
      <4>1. at(i) \in 1..Len(s) /\ at(i) # m /\ t[i] = s[at(i)]  BY <3>1
      <4> QED  BY <1>1, <3>4, <4>1
    <3>8. ToSet(s) \ {v} \subseteq ToSet(t)
      <4> SUFFICES ASSUME NEW i \in 1..Len(s), s[i] # v PROVE s[i] \in ToSet(t)
        BY <1>1
      <4>1. PICK j \in 1..Len(s) - 1 : at(j) = i  BY <2>3, <3>3
      <4>2. t[j] = s[i]  BY <3>1, <4>1
      <4> QED  BY <3>6, <4>2
    <3> QED  BY <3>5, <3>7, <3>8
  <2> QED  BY <2>8, <2>9 DEF t
<1> QED  BY <1>2, <1>3

LEMMA SortedList ==
  ASSUME NEW s \in Seq(Values)
  PROVE  /\ sortValues(s) \in Seq(Values)
         /\ NoneTwice(s) => NoneTwice(sortValues(s)) /\ ToSet(sortValues(s)) = ToSet(s)
<1> DEFINE S == ToSet(s)
           At(v) == {j \in DOMAIN s : s[j] = v}
           lists == [v \in S |-> [i \in 1..Cardinality(At(v)) |-> v]]
<1>1. S \subseteq Values /\ S = {s[i] : i \in 1..Len(s)} /\ Len(s) \in Nat
      /\ DOMAIN s = 1..Len(s)
  BY SeqSet, LenProperties
<1>2. MaxId \in Nat /\ Values \subseteq 1..MaxId  BY IdealozAssumption
<1>3. sortValues(s) = InOrder(lists)  BY DEF sortValues
<1>4. /\ DOMAIN lists = S
      /\ \A v \in S : lists[v] = [i \in 1..Cardinality(At(v)) |-> v]
  OBVIOUS
<1> HIDE DEF lists, S
<1>5. \A v \in S : lists[v] \in Seq(Values)
  <2> TAKE v \in S
  <2>1. At(v) \subseteq 1..Len(s)  BY <1>1
  <2>2. IsFiniteSet(1..Len(s))  BY <1>1, FS_Interval
  <2> HIDE DEF At
  <2>3. Cardinality(At(v)) \in Nat  BY <2>1, <2>2, FS_Subset, FS_CardinalityType
  <2>4. v \in Values  BY <1>1
  <2> DEFINE c == Cardinality(At(v))
  <2> HIDE DEF c
  <2>5. [i \in 1..c |-> v] \in Seq(Values)  BY <2>3, <2>4 DEF c
  <2> QED  BY <1>4, <2>5 DEF c
<1>6. InOrder(lists) \in Seq(Values)  BY <1>4, <1>5, InOrderSeq
<1>7. ASSUME NoneTwice(s)
      PROVE  NoneTwice(InOrder(lists)) /\ ToSet(InOrder(lists)) = S
  <2>1. \A v \in S : lists[v] = <<v>>
    <3> TAKE v \in S
    <3>1. PICK m \in 1..Len(s) : s[m] = v  BY <1>1
    <3>2. At(v) = {m}  BY <1>1, <1>7, <3>1 DEF NoneTwice
    <3>3. Cardinality(At(v)) = 1
      <4> HIDE DEF At
      <4> QED  BY <3>2, FS_Singleton
    <3>4. [i \in 1..1 |-> v] = <<v>>  OBVIOUS
    <3> HIDE DEF At
    <3> QED  BY <1>4, <3>3, <3>4
  <2>2. \A k : Round(lists, k) = IF k \in S THEN <<k>> ELSE <<>>
    BY <1>4, <2>1 DEF Round
  <2> DEFINE Upto(k) == {v \in S : v <= k}
             G == [k \in 0..MaxId |-> {q \in Seq(Values) : NoneTwice(q) /\ ToSet(q) = Upto(k)}]
  <2>3. \A k \in 0..MaxId : \A q : q \in G[k] <=> q \in Seq(Values) /\ NoneTwice(q) /\ ToSet(q) = Upto(k)
    OBVIOUS
  <2> HIDE DEF G
  <2>4. <<>> \in G[0]
    <3> DEFINE e == <<>>
    <3>1. e \in Seq(Values) /\ Len(e) = 0  BY EmptySeq
    <3> HIDE DEF e
    <3>2. \A i \in 1..Len(e) : FALSE  BY <3>1
    <3>3. NoneTwice(e)  BY <3>2 DEF NoneTwice
    <3>4. ToSet(e) = {}
      <4>1. ToSet(e) = {e[i] : i \in 1..Len(e)}  BY <3>1, SeqSet
      <4> QED  BY <3>2, <4>1
    <3>5. \A v \in S : ~(v <= 0)  BY <1>1, <1>2
    <3>6. Upto(0) = {}  BY <3>5
    <3> HIDE DEF Upto
    <3>7. 0 \in 0..MaxId  BY <1>2
    <3>8. e \in G[0]  BY <2>3, <3>1, <3>3, <3>4, <3>6, <3>7
    <3> QED  BY <3>8 DEF e
  <2>5. ASSUME NEW k \in 1..MaxId, NEW q \in G[k - 1]
        PROVE  q \o Round(lists, k) \in G[k]
    <3>1. k \in 0..MaxId /\ k - 1 \in 0..MaxId  BY <1>2
    <3>2. q \in Seq(Values) /\ NoneTwice(q) /\ ToSet(q) = Upto(k - 1)  BY <2>3, <3>1
    <3>3. \A v \in S : v <= k <=> v <= k - 1 \/ v = k  BY <1>1, <1>2
    <3>4. CASE k \in S
      <4>1. Upto(k) = Upto(k - 1) \cup {k}  BY <3>3, <3>4
      <4>2. k \notin Upto(k - 1) /\ k \in Values  BY <1>1, <3>4
      <4> HIDE DEF Upto
      <4>3. Append(q, k) \in G[k]  BY <2>3, <3>1, <3>2, <4>1, <4>2, AppendValue
      <4>4. q \o <<k>> = Append(q, k)  BY <3>2, <4>2, AppendIsConcat
      <4> QED  BY <2>2, <3>4, <4>3, <4>4
    <3>5. CASE k \notin S
      <4>1. Upto(k) = Upto(k - 1)  BY <3>3, <3>5
      <4> HIDE DEF Upto
      <4>2. q \o <<>> = q  BY <3>2, ConcatEmptySeq
      <4>3. q \in G[k]  BY <2>3, <3>1, <3>2, <4>1
      <4> QED  BY <2>2, <3>5, <4>2, <4>3
    <3> QED  BY <3>4, <3>5
  <2>6. InOrder(lists) \in G[MaxId]  BY <2>4, <2>5, InOrderInduction
  <2>7. \A v \in S : v <= MaxId  BY <1>1, <1>2
  <2>8. Upto(MaxId) = S  BY <2>7
  <2> HIDE DEF Upto
  <2> QED  BY <1>2, <2>3, <2>6, <2>8
<1> QED  BY <1>3, <1>6, <1>7 DEF S

-----------------------------------------------------------------------------
(* Types. *)

\* What the driver has read of the values of a node.
Readings == UNION {[S -> Data \cup {Unset}] : S \in SUBSET Values}

LEMMA ReadingsAre ==
  ASSUME NEW x
  PROVE  x \in Readings <=> /\ DOMAIN x \subseteq Values
                            /\ x = [v \in DOMAIN x |-> x[v]]
                            /\ \A v \in DOMAIN x : x[v] \in Data \cup {Unset}
<1>1. ASSUME x \in Readings
      PROVE  /\ DOMAIN x \subseteq Values /\ x = [v \in DOMAIN x |-> x[v]]
             /\ \A v \in DOMAIN x : x[v] \in Data \cup {Unset}
  <2>1. PICK S \in SUBSET Values : x \in [S -> Data \cup {Unset}]
    BY <1>1 DEF Readings
  <2> QED  BY <2>1
<1>2. ASSUME DOMAIN x \subseteq Values, x = [v \in DOMAIN x |-> x[v]],
             \A v \in DOMAIN x : x[v] \in Data \cup {Unset}
      PROVE  x \in Readings
  <2>1. x \in [DOMAIN x -> Data \cup {Unset}]  BY <1>2
  <2> QED  BY <1>2, <2>1 DEF Readings
<1> QED  BY <1>1, <1>2

LEMMA NoReadings == <<>> \in Readings /\ DOMAIN <<>> = {}
<1> DEFINE x == <<>>
<1>1. DOMAIN x = {}  OBVIOUS
<1>2. x = [v \in DOMAIN x |-> x[v]]  OBVIOUS
<1> HIDE DEF x
<1>3. x \in Readings  BY <1>1, <1>2, ReadingsAre
<1> QED  BY <1>1, <1>3 DEF x

LEMMA WithReading ==
  ASSUME NEW x \in Readings, NEW v \in Values, NEW d \in Data \cup {Unset}
  PROVE  With(x, v, d) \in Readings /\ DOMAIN With(x, v, d) = DOMAIN x \cup {v}
<1> DEFINE y == With(x, v, d)
<1>1. DOMAIN y = DOMAIN x \cup {v} /\ y = [w \in DOMAIN y |-> y[w]]
      /\ \A w \in DOMAIN y : y[w] = IF w = v THEN d ELSE x[w]
  BY DEF With
<1>2. DOMAIN x \subseteq Values /\ \A w \in DOMAIN x : x[w] \in Data \cup {Unset}
  BY ReadingsAre
<1> HIDE DEF y
<1>3. DOMAIN y \subseteq Values /\ \A w \in DOMAIN y : y[w] \in Data \cup {Unset}
  BY <1>1, <1>2
<1>4. y \in Readings  BY <1>1, <1>3, ReadingsAre
<1> QED  BY <1>1, <1>4 DEF y

LEMMA WithoutReading ==
  ASSUME NEW x \in Readings, NEW v
  PROVE  Without(x, v) \in Readings /\ DOMAIN Without(x, v) = DOMAIN x \ {v}
<1> DEFINE y == Without(x, v)
<1>1. DOMAIN y = DOMAIN x \ {v} /\ y = [w \in DOMAIN y |-> y[w]]
      /\ \A w \in DOMAIN y : y[w] = x[w]
  BY DEF Without
<1>2. DOMAIN x \subseteq Values /\ \A w \in DOMAIN x : x[w] \in Data \cup {Unset}
  BY ReadingsAre
<1> HIDE DEF y
<1>3. DOMAIN y \subseteq Values /\ \A w \in DOMAIN y : y[w] \in Data \cup {Unset}
  BY <1>1, <1>2
<1>4. y \in Readings  BY <1>1, <1>3, ReadingsAre
<1> QED  BY <1>1, <1>4 DEF y

LEMMA NewReading ==
  ASSUME NEW x \in Readings, NEW v, NEW d \in Data
  PROVE  [x EXCEPT ![v] = d] \in Readings /\ DOMAIN [x EXCEPT ![v] = d] = DOMAIN x
<1> DEFINE y == [x EXCEPT ![v] = d]
<1>1. DOMAIN y = DOMAIN x /\ y = [w \in DOMAIN y |-> y[w]]
      /\ \A w \in DOMAIN y : y[w] = IF w = v THEN d ELSE x[w]
  OBVIOUS
<1>2. DOMAIN x \subseteq Values /\ \A w \in DOMAIN x : x[w] \in Data \cup {Unset}
  BY ReadingsAre
<1> HIDE DEF y
<1>3. DOMAIN y \subseteq Values /\ \A w \in DOMAIN y : y[w] \in Data \cup {Unset}
  BY <1>1, <1>2
<1>4. y \in Readings  BY <1>1, <1>3, ReadingsAre
<1> QED  BY <1>1, <1>4 DEF y

NodesTyped == DOMAIN m_nodes \subseteq NodeIds /\ \A n \in DOMAIN m_nodes : m_nodes[n] \in Readings
QueueTyped == m_notifications \in Seq(Notifications)
NetworkTyped == IsTable(saved) /\ network \subseteq NodeIds /\ resends \in Nat /\ asked \in Nat
ListsTyped ==
  /\ DOMAIN nodes \subseteq NodeIds
  /\ \A n \in DOMAIN nodes : nodes[n] \in Seq(Values)
  /\ nodecount \in Nat /\ nodecount >= Cardinality(DOMAIN nodes)
PostedTyped == posted \in [NodeIds \X Values -> Data \cup {Unset}]
Typed == NodesTyped /\ QueueTyped /\ NetworkTyped /\ ListsTyped /\ PostedTyped

LEMMA TypedIsTypeOK == Typed => TypeOK
BY DEF Typed, NodesTyped, NetworkTyped, ListsTyped, PostedTyped, TypeOK, Readings

LEMMA SavedIsTable ==
  ASSUME Init
  PROVE  IsTable(saved)
<1>1. PICK S \in SUBSET NodeIds : saved \in [S -> SUBSET Values]
  BY DEF Init
<1> QED  BY <1>1 DEF IsTable

LEMMA InitTyped == Init => Typed
<1> SUFFICES ASSUME Init PROVE Typed
  OBVIOUS
<1>1. NodesTyped  BY NoReadings DEF Init, NodesTyped
<1>2. QueueTyped  BY EmptySeq DEF Init, QueueTyped
<1>3. NetworkTyped  BY SavedIsTable DEF Init, NetworkTyped
<1>4. ListsTyped  BY NoReadings, FS_EmptySet DEF Init, ListsTyped
<1>5. PostedTyped  BY DEF Init, PostedTyped
<1> QED  BY <1>1, <1>2, <1>3, <1>4, <1>5 DEF Typed

-----------------------------------------------------------------------------
(* What the watcher does to its table. *)

\* The table of idealoz, and what is right about it at all times.
Shown == [n \in DOMAIN nodes |-> ToSet(nodes[n])]
Matches ==
  /\ ~crashed
  /\ \A n \in DOMAIN nodes : NoneTwice(nodes[n])
  /\ nodecount = Cardinality(DOMAIN nodes)

\* A handler of e keeps the lists typed, and a table that was right becomes the
\* one the delivery of e leads to.
Shows(e) ==
  /\ ListsTyped'
  /\ \A w : Matches /\ Delivers(Shown, e, w) => Matches' /\ Shown' = w

LEMMA NodesFinite ==
  ASSUME NEW S, S \subseteq NodeIds
  PROVE  IsFiniteSet(S) /\ Cardinality(S) \in Nat
<1> DEFINE max == 254
<1>1. max \in Int /\ S \subseteq 1..max  BY IdealozAssumption
<1> HIDE DEF max
<1>2. IsFiniteSet(1..max)  BY <1>1, FS_Interval
<1>3. IsFiniteSet(S)  BY <1>1, <1>2, FS_Subset
<1> QED  BY <1>3, FS_CardinalityType

LEMMA FollowShown ==
  ASSUME NEW e, NEW x \in Seq(Values), ListsTyped, Follow(e, x)
  PROVE  /\ ListsTyped'
         /\ Matches /\ e.node \in DOMAIN nodes /\ NoneTwice(x) =>
              Matches' /\ Shown' = With(Shown, e.node, ToSet(x))
<1> DEFINE n == e.node
<1>1. CASE n \notin DOMAIN nodes
  <2>1. nodes' = nodes /\ nodecount' = nodecount  BY <1>1 DEF Follow
  <2> QED  BY <1>1, <2>1 DEF ListsTyped
<1>2. CASE n \in DOMAIN nodes
  <2>1. /\ nodes' = [nodes EXCEPT ![n] = x] /\ nodecount' = nodecount
        /\ crashed' = crashed
    BY <1>2 DEF Follow
  <2> HIDE DEF n
  <2>2. /\ DOMAIN nodes' = DOMAIN nodes
        /\ \A m \in DOMAIN nodes : nodes'[m] = IF m = n THEN x ELSE nodes[m]
    BY <2>1
  <2>3. ListsTyped'  BY <2>1, <2>2 DEF ListsTyped
  <2>4. ASSUME Matches, NoneTwice(x)
        PROVE  Matches' /\ Shown' = With(Shown, n, ToSet(x))
    <3>1. \A m \in DOMAIN nodes' : NoneTwice(nodes'[m])  BY <2>2, <2>4 DEF Matches
    <3>2. nodecount' = Cardinality(DOMAIN nodes')  BY <2>1, <2>2, <2>4 DEF Matches
    <3>3. Matches'  BY <2>1, <2>4, <3>1, <3>2 DEF Matches
    <3>4. Shown' = [m \in DOMAIN nodes |-> IF m = n THEN ToSet(x) ELSE ToSet(nodes[m])]
      BY <2>2 DEF Shown
    <3>5. With(Shown, n, ToSet(x)) =
            [m \in DOMAIN nodes |-> IF m = n THEN ToSet(x) ELSE ToSet(nodes[m])]
      BY <1>2 DEF Shown, With, n
    <3> QED  BY <3>3, <3>4, <3>5
  <2> QED  BY <2>3, <2>4 DEF n
<1> QED  BY <1>1, <1>2

LEMMA EntryTyped ==
  ASSUME NEW e, ListsTyped
  PROVE  /\ Entry(e) \in Seq(Values)
         /\ e.node \in DOMAIN nodes => Entry(e) = nodes[e.node]
         /\ Matches => NoneTwice(Entry(e)) \/ e.node \notin DOMAIN nodes
<1>1. CASE e.node \in DOMAIN nodes
  <2>1. Entry(e) = nodes[e.node]  BY <1>1 DEF Entry
  <2> QED  BY <1>1, <2>1 DEF ListsTyped, Matches
<1>2. CASE e.node \notin DOMAIN nodes
  <2>1. Entry(e) = <<>>  BY <1>2 DEF Entry
  <2> QED  BY <1>2, <2>1, EmptySeq
<1> QED  BY <1>1, <1>2

LEMMA ShownIs ==
  /\ DOMAIN Shown = DOMAIN nodes
  /\ \A n \in DOMAIN nodes : Shown[n] = ToSet(nodes[n])
  /\ \A n \in DOMAIN nodes : With(Shown, n, Shown[n]) = Shown
<1>1. DOMAIN Shown = DOMAIN nodes /\ \A n \in DOMAIN nodes : Shown[n] = ToSet(nodes[n])
  BY DEF Shown
<1>2. Shown = [m \in DOMAIN Shown |-> Shown[m]]  BY DEF Shown
<1>3. \A n \in DOMAIN Shown : With(Shown, n, Shown[n]) = [m \in DOMAIN Shown |-> Shown[m]]
  BY DEF With
<1> QED  BY <1>1, <1>2, <1>3

IsEmpty(t) == t = NoNodes

\* What a notification of each kind makes of a table.
LEMMA DeliversIs ==
  ASSUME NEW t, NEW e, NEW w, Delivers(t, e, w)
  PROVE  /\ e.type = "NodeAdded" => e.node \notin DOMAIN t /\ w = With(t, e.node, {})
         /\ e.type = "NodeRemoved" => w = Without(t, e.node)
         /\ e.type = "ValueAdded" =>
              /\ e.node \in DOMAIN t /\ e.value \notin t[e.node]
              /\ w = With(t, e.node, t[e.node] \cup {e.value})
         /\ e.type = "ValueRemoved" =>
              e.node \in DOMAIN t /\ w = With(t, e.node, t[e.node] \ {e.value})
         /\ e.type \in Marks => e.node \in DOMAIN t /\ w = t
         /\ e.type \in {"DriverReady", "NodeNew"} => w = t
         /\ e.type = "DriverFailed" => IsEmpty(w)
         /\ e.type # "DriverReset"
<1> DEFINE Added == e.node \notin DOMAIN t /\ w = With(t, e.node, {})
           Removed == w = Without(t, e.node)
           ValueIn == /\ e.node \in DOMAIN t /\ e.value \notin t[e.node]
                      /\ w = With(t, e.node, t[e.node] \cup {e.value})
           ValueOut == e.node \in DOMAIN t /\ w = With(t, e.node, t[e.node] \ {e.value})
           Marked == e.node \in DOMAIN t /\ w = t
           Same == w = t
           Empty == IsEmpty(w)
<1>1. \/ e.type = "NodeAdded" /\ Added
      \/ e.type = "NodeRemoved" /\ Removed
      \/ e.type = "ValueAdded" /\ ValueIn
      \/ e.type = "ValueRemoved" /\ ValueOut
      \/ e.type \in Marks /\ Marked
      \/ e.type \in {"DriverReady", "NodeNew"} /\ Same
      \/ e.type = "DriverFailed" /\ Empty
  BY DEF Delivers, NoNodes, IsEmpty
<1>2. Marks \cap {"NodeAdded", "NodeRemoved", "ValueAdded", "ValueRemoved", "DriverReady",
                  "NodeNew", "DriverFailed", "DriverReset"} = {}
  BY IdealozAssumption DEF Marks
<1> HIDE DEF Added, Removed, ValueIn, ValueOut, Marked, Same, Empty
<1>3. /\ e.type = "NodeAdded" => Added
      /\ e.type = "NodeRemoved" => Removed
      /\ e.type = "ValueAdded" => ValueIn
      /\ e.type = "ValueRemoved" => ValueOut
      /\ e.type \in Marks => Marked
      /\ e.type \in {"DriverReady", "NodeNew"} => Same
      /\ e.type = "DriverFailed" => Empty
      /\ e.type # "DriverReset"
  BY <1>1, <1>2
<1> QED  BY <1>3 DEF Added, Removed, ValueIn, ValueOut, Marked, Same, Empty

LEMMA OnValueAddedShows ==
  ASSUME NEW e \in Notifications, ListsTyped, OnValueAdded(e)
  PROVE  Shows(e)
<1> DEFINE x == Append(Entry(e), e.value)
<1>1. e.value \in Values
  BY IdealozAssumption
     DEF OnValueAdded, Notifications, NodeNotes, NodeTypes, ValueNotes, DriverNotes
<1>2. /\ x \in Seq(Values) /\ ToSet(x) = ToSet(Entry(e)) \cup {e.value}
      /\ NoneTwice(Entry(e)) /\ e.value \notin ToSet(Entry(e)) => NoneTwice(x)
  BY <1>1, EntryTyped, AppendValue
<1>3. Follow(e, x) /\ e.type = "ValueAdded"  BY DEF OnValueAdded
<1> HIDE DEF x
<1>4. ListsTyped'  BY <1>2, <1>3, FollowShown
<1>5. ASSUME NEW w, Matches, Delivers(Shown, e, w)
      PROVE  Matches' /\ Shown' = w
  <2>1. /\ e.node \in DOMAIN Shown /\ e.value \notin Shown[e.node]
        /\ w = With(Shown, e.node, Shown[e.node] \cup {e.value})
    BY <1>3, <1>5, DeliversIs
  <2>2. e.node \in DOMAIN nodes /\ Shown[e.node] = ToSet(Entry(e)) /\ NoneTwice(Entry(e))
    BY <1>5, <2>1, ShownIs, EntryTyped
  <2>3. NoneTwice(x) /\ ToSet(x) = Shown[e.node] \cup {e.value}  BY <1>2, <2>1, <2>2
  <2>4. Matches' /\ Shown' = With(Shown, e.node, ToSet(x))
    BY <1>2, <1>3, <1>5, <2>2, <2>3, FollowShown
  <2> QED  BY <2>1, <2>3, <2>4
<1> QED  BY <1>4, <1>5 DEF Shows

LEMMA OnValueRemovedShows ==
  ASSUME NEW e, ListsTyped, OnValueRemoved(e)
  PROVE  Shows(e)
<1> DEFINE x == removeValue(Entry(e), e.value)
<1>1. /\ x \in Seq(Values)
      /\ NoneTwice(Entry(e)) => NoneTwice(x) /\ ToSet(x) = ToSet(Entry(e)) \ {e.value}
  BY EntryTyped, RemoveValueFromList
<1>2. Follow(e, x) /\ e.type = "ValueRemoved"  BY DEF OnValueRemoved
<1> HIDE DEF x
<1>3. ListsTyped'  BY <1>1, <1>2, FollowShown
<1>4. ASSUME NEW w, Matches, Delivers(Shown, e, w)
      PROVE  Matches' /\ Shown' = w
  <2>1. /\ e.node \in DOMAIN Shown
        /\ w = With(Shown, e.node, Shown[e.node] \ {e.value})
    BY <1>2, <1>4, DeliversIs
  <2>2. e.node \in DOMAIN nodes /\ Shown[e.node] = ToSet(Entry(e)) /\ NoneTwice(Entry(e))
    BY <1>4, <2>1, ShownIs, EntryTyped
  <2>3. NoneTwice(x) /\ ToSet(x) = Shown[e.node] \ {e.value}  BY <1>1, <2>2
  <2>4. Matches' /\ Shown' = With(Shown, e.node, ToSet(x))
    BY <1>1, <1>2, <1>4, <2>2, <2>3, FollowShown
  <2> QED  BY <2>1, <2>3, <2>4
<1> QED  BY <1>3, <1>4 DEF Shows

\* An entry that is sorted, or only looked at, keeps its values.
LEMMA SameEntryShows ==
  ASSUME NEW e, ListsTyped, e.type \in Marks, NEW x \in Seq(Values), Follow(e, x),
         NoneTwice(Entry(e)) => NoneTwice(x) /\ ToSet(x) = ToSet(Entry(e))
  PROVE  Shows(e)
<1>1. ListsTyped'  BY FollowShown
<1>2. ASSUME NEW w, Matches, Delivers(Shown, e, w)
      PROVE  Matches' /\ Shown' = w
  <2>1. e.node \in DOMAIN Shown /\ w = Shown  BY <1>2, DeliversIs
  <2>2. e.node \in DOMAIN nodes /\ Shown[e.node] = ToSet(Entry(e)) /\ NoneTwice(Entry(e))
    BY <1>2, <2>1, ShownIs, EntryTyped
  <2>3. NoneTwice(x) /\ ToSet(x) = Shown[e.node]  BY <2>2
  <2>4. Matches' /\ Shown' = With(Shown, e.node, ToSet(x))
    BY <1>2, <2>2, <2>3, FollowShown
  <2> QED  BY <2>1, <2>2, <2>3, <2>4, ShownIs
<1> QED  BY <1>1, <1>2 DEF Shows

LEMMA OnMarkShows ==
  ASSUME NEW e, ListsTyped, OnValueChanged(e) \/ OnNodeQueriesComplete(e) \/ OnNotice(e)
  PROVE  Shows(e)
<1>1. CASE OnValueChanged(e) \/ OnNotice(e)
  <2>1. Follow(e, Entry(e)) /\ e.type \in Marks
    BY <1>1 DEF OnValueChanged, OnNotice, Marks
  <2> QED  BY <2>1, EntryTyped, SameEntryShows
<1>2. CASE OnNodeQueriesComplete(e)
  <2>1. Follow(e, sortValues(Entry(e))) /\ e.type \in Marks
    BY <1>2 DEF OnNodeQueriesComplete, Marks
  <2>2. /\ sortValues(Entry(e)) \in Seq(Values)
        /\ NoneTwice(Entry(e)) => /\ NoneTwice(sortValues(Entry(e)))
                                  /\ ToSet(sortValues(Entry(e))) = ToSet(Entry(e))
    BY EntryTyped, SortedList
  <2> QED  BY <2>1, <2>2, SameEntryShows
<1> QED  BY <1>1, <1>2

LEMMA OnNodeAddedShows ==
  ASSUME NEW e \in Notifications, ListsTyped, OnNodeAdded(e)
  PROVE  Shows(e)
<1> DEFINE n == e.node
<1>1. /\ e.type = "NodeAdded" /\ nodes' = With(nodes, n, <<>>)
      /\ nodecount' = nodecount + 1 /\ crashed' = crashed
  BY DEF OnNodeAdded
<1>2. n \in NodeIds
  BY <1>1, IdealozAssumption DEF Notifications, NodeNotes, NodeTypes, ValueNotes, DriverNotes
<1> HIDE DEF n
<1>3. /\ DOMAIN nodes' = DOMAIN nodes \cup {n}
      /\ \A m \in DOMAIN nodes' : nodes'[m] = IF m = n THEN <<>> ELSE nodes[m]
  BY <1>1 DEF With
<1>4. Cardinality(DOMAIN nodes') =
        IF n \in DOMAIN nodes THEN Cardinality(DOMAIN nodes) ELSE Cardinality(DOMAIN nodes) + 1
  BY <1>3, NodesFinite, FS_AddElement DEF ListsTyped
<1>5. Cardinality(DOMAIN nodes) \in Nat  BY NodesFinite DEF ListsTyped
<1> DEFINE empty == <<>>
<1>6. empty \in Seq(Values) /\ Len(empty) = 0  BY EmptySeq
<1>7. \A m \in DOMAIN nodes' : nodes'[m] = IF m = n THEN empty ELSE nodes[m]  BY <1>3
<1> HIDE DEF empty
<1>8. NoneTwice(empty) /\ ToSet(empty) = {}
  <2>1. \A i \in 1..Len(empty) : FALSE  BY <1>6
  <2>2. ToSet(empty) = {empty[i] : i \in 1..Len(empty)}  BY <1>6, SeqSet
  <2> QED  BY <2>1, <2>2 DEF NoneTwice
<1>9. ListsTyped'
  <2>1. nodecount' \in Nat /\ nodecount' >= Cardinality(DOMAIN nodes')
    BY <1>1, <1>4, <1>5 DEF ListsTyped
  <2> QED  BY <1>2, <1>3, <1>6, <1>7, <2>1 DEF ListsTyped
<1>10. ASSUME NEW w, Matches, Delivers(Shown, e, w)
       PROVE  Matches' /\ Shown' = w
  <2>1. n \notin DOMAIN nodes /\ w = With(Shown, n, {})
    BY <1>1, <1>10, DeliversIs, ShownIs DEF n
  <2>2. nodecount' = Cardinality(DOMAIN nodes')  BY <1>1, <1>4, <1>10, <2>1 DEF Matches
  <2>3. \A m \in DOMAIN nodes' : NoneTwice(nodes'[m])
    BY <1>3, <1>7, <1>8, <1>10 DEF Matches
  <2>4. Matches'  BY <1>1, <1>10, <2>2, <2>3 DEF Matches
  <2>5. Shown' = [m \in DOMAIN nodes \cup {n} |-> IF m = n THEN {} ELSE ToSet(nodes[m])]
    BY <1>3, <1>7, <1>8 DEF Shown
  <2>6. With(Shown, n, {}) =
          [m \in DOMAIN nodes \cup {n} |-> IF m = n THEN {} ELSE ToSet(nodes[m])]
    BY DEF Shown, With
  <2> QED  BY <2>1, <2>4, <2>5, <2>6
<1> QED  BY <1>9, <1>10 DEF Shows

LEMMA NodesRemovedShown ==
  ASSUME NEW S, ListsTyped, MyNodeRemove(S), UNCHANGED crashed
  PROVE  /\ ListsTyped'
         /\ Matches => Matches' /\ Shown' = [m \in DOMAIN Shown \ S |-> Shown[m]]
<1>1. /\ DOMAIN nodes' = DOMAIN nodes \ S
      /\ \A m \in DOMAIN nodes' : nodes'[m] = nodes[m]
      /\ nodecount' = nodecount - Cardinality(DOMAIN nodes \cap S)
  BY DEF MyNodeRemove
<1>2. /\ Cardinality(DOMAIN nodes') =
           Cardinality(DOMAIN nodes) - Cardinality(DOMAIN nodes \cap S)
  BY <1>1, NodesFinite, FS_Difference DEF ListsTyped
<1>3. /\ Cardinality(DOMAIN nodes) \in Nat /\ Cardinality(DOMAIN nodes \cap S) \in Nat
      /\ Cardinality(DOMAIN nodes') \in Nat
  BY <1>1, NodesFinite DEF ListsTyped
<1>4. nodecount' \in Nat /\ nodecount' >= Cardinality(DOMAIN nodes')
  BY <1>1, <1>2, <1>3 DEF ListsTyped
<1>5. ListsTyped'  BY <1>1, <1>4 DEF ListsTyped
<1>6. ASSUME Matches
      PROVE  Matches' /\ Shown' = [m \in DOMAIN Shown \ S |-> Shown[m]]
  <2>1. nodecount' = Cardinality(DOMAIN nodes')  BY <1>1, <1>2, <1>6 DEF Matches
  <2>2. Matches'  BY <1>1, <1>6, <2>1 DEF Matches
  <2>3. Shown' = [m \in DOMAIN nodes \ S |-> ToSet(nodes[m])]  BY <1>1 DEF Shown
  <2>4. [m \in DOMAIN Shown \ S |-> Shown[m]] = [m \in DOMAIN nodes \ S |-> ToSet(nodes[m])]
    BY DEF Shown
  <2> QED  BY <2>2, <2>3, <2>4
<1> QED  BY <1>5, <1>6

LEMMA OnNodeRemovedShows ==
  ASSUME NEW e, ListsTyped, OnNodeRemoved(e)
  PROVE  Shows(e)
<1>1. e.type = "NodeRemoved" /\ MyNodeRemove({e.node}) /\ UNCHANGED crashed
  BY DEF OnNodeRemoved
<1>2. /\ ListsTyped'
      /\ Matches => Matches' /\ Shown' = [m \in DOMAIN Shown \ {e.node} |-> Shown[m]]
  BY <1>1, NodesRemovedShown
<1>3. ASSUME NEW w, Matches, Delivers(Shown, e, w)
      PROVE  Matches' /\ Shown' = w
  <2>1. w = Without(Shown, e.node)  BY <1>1, <1>3, DeliversIs
  <2>2. w = [m \in DOMAIN Shown \ {e.node} |-> Shown[m]]  BY <2>1 DEF Without
  <2> QED  BY <1>2, <1>3, <2>2
<1> QED  BY <1>2, <1>3 DEF Shows

LEMMA OnDriverGoneShows ==
  ASSUME NEW e, ListsTyped, OnDriverGone(e)
  PROVE  Shows(e)
<1>1. /\ e.type \in {"DriverFailed", "DriverReset"} /\ MyNodeRemove(NodeIds)
      /\ UNCHANGED crashed
  BY DEF OnDriverGone
<1>2. /\ ListsTyped'
      /\ Matches => Matches' /\ Shown' = [m \in DOMAIN Shown \ NodeIds |-> Shown[m]]
  BY <1>1, NodesRemovedShown
<1>3. ASSUME NEW w, Matches, Delivers(Shown, e, w)
      PROVE  Matches' /\ Shown' = w
  <2>1. /\ e.type = "DriverFailed" => IsEmpty(w)
        /\ e.type # "DriverReset"
    BY <1>3, DeliversIs
  <2>2. DOMAIN Shown \ NodeIds = {}  BY ShownIs DEF ListsTyped
  <2>3. [m \in DOMAIN Shown \ NodeIds |-> Shown[m]] = NoNodes  BY <2>2 DEF NoNodes
  <2>4. IsEmpty(w)  BY <1>1, <2>1
  <2> QED  BY <1>2, <1>3, <2>3, <2>4 DEF IsEmpty
<1> QED  BY <1>2, <1>3 DEF Shows

LEMMA NoChangeShows ==
  ASSUME NEW e, ListsTyped, UNCHANGED tableVars,
         e.type \in Marks \cup {"DriverReady", "NodeNew"}
  PROVE  Shows(e)
<1>1. nodes' = nodes /\ nodecount' = nodecount /\ crashed' = crashed  BY DEF tableVars
<1>2. ListsTyped' /\ Shown' = Shown /\ (Matches => Matches')
  BY <1>1 DEF ListsTyped, Shown, Matches
<1>3. \A w : Delivers(Shown, e, w) => w = Shown  BY DeliversIs
<1> QED  BY <1>2, <1>3 DEF Shows

LEMMA OnNotificationShows ==
  ASSUME NEW e \in Notifications, ListsTyped, OnNotification(e)
  PROVE  Shows(e)
<1>1. CASE OnValueAdded(e)  BY <1>1, OnValueAddedShows
<1>2. CASE OnValueRemoved(e)  BY <1>2, OnValueRemovedShows
<1>3. CASE OnValueChanged(e) \/ OnNodeQueriesComplete(e) \/ OnNotice(e)
  BY <1>3, OnMarkShows
<1>4. CASE OnNodeAdded(e)  BY <1>4, OnNodeAddedShows
<1>5. CASE OnNodeRemoved(e)  BY <1>5, OnNodeRemovedShows
<1>6. CASE OnDriverGone(e)  BY <1>6, OnDriverGoneShows
<1>7. CASE OnDriverReady(e) \/ OnNodeNew(e)
  BY <1>7, NoChangeShows DEF OnDriverReady, OnNodeNew
<1> QED  BY <1>1, <1>2, <1>3, <1>4, <1>5, <1>6, <1>7 DEF OnNotification

-----------------------------------------------------------------------------
(* The invariant. *)

\* The driver's nodes as a table.
Held == [n \in DOMAIN m_nodes |-> DOMAIN m_nodes[n]]

\* The init data is asked for once, and there is nothing before its answer.
Started ==
  /\ asked \in {0, 1} /\ (m_init => asked = 0)
  /\ ~m_init => DOMAIN m_nodes = {}
  /\ phase = "opening" => ~m_init /\ asked = 0

\* A value that was read is posted or will be: its change is in the queue.
Change(n, v) == [type |-> "ValueChanged", node |-> n, value |-> v]
Posts ==
  \A n \in DOMAIN m_nodes : \A v \in DOMAIN m_nodes[n] :
    m_nodes[n][v] # Unset =>
      posted[<<n, v>>] = m_nodes[n][v] \/ Change(n, v) \in ToSet(m_notifications)

\* What is in the queue leads from the table of idealoz to that of the driver.
Follows == Started /\ Matches /\ Leads(Shown, m_notifications, Held) /\ Posts

IInv == Typed /\ (Undisturbed => Follows)

LEMMA ConcatSet ==
  ASSUME NEW X, NEW s \in Seq(X), NEW t \in Seq(X)
  PROVE  s \o t \in Seq(X) /\ ToSet(s \o t) = ToSet(s) \cup ToSet(t)
<1>1. s \o t \in Seq(X)  OBVIOUS
<1>2. Range(s \o t) = Range(s) \cup Range(t)  BY RangeConcatenation
<1> QED  BY <1>1, <1>2 DEF Range, ToSet

LEMMA HeldIs ==
  ASSUME NodesTyped
  PROVE  /\ IsTable(Held) /\ DOMAIN Held = DOMAIN m_nodes
         /\ \A n \in DOMAIN m_nodes : Held[n] = DOMAIN m_nodes[n]
         /\ \A n : ValuesOf(n) = IF n \in DOMAIN Held THEN Held[n] ELSE {}
<1>1. /\ DOMAIN Held = DOMAIN m_nodes
      /\ \A n \in DOMAIN m_nodes : Held[n] = DOMAIN m_nodes[n]
      /\ Held = [n \in DOMAIN Held |-> Held[n]]
  BY DEF Held
<1>2. \A n \in DOMAIN m_nodes : DOMAIN m_nodes[n] \subseteq Values
  BY ReadingsAre DEF NodesTyped
<1>3. IsTable(Held)  BY <1>1, <1>2 DEF IsTable, NodesTyped
<1>4. \A n : ValuesOf(n) = IF n \in DOMAIN Held THEN Held[n] ELSE {}
  BY <1>1 DEF ValuesOf
<1> QED  BY <1>1, <1>3, <1>4

\* Leads on an empty queue.
LEMMA LeadsNowhere ==
  ASSUME NEW t, NEW u, Leads(t, <<>>, u)
  PROVE  t = u
<1>1. Len(<<>>) = 0  OBVIOUS
<1> QED  BY <1>1 DEF Leads

\* The notifications of part announce every value that is read.
Announces(part) ==
  \A m \in DOMAIN m_nodes' : \A v \in DOMAIN m_nodes'[m] :
    m_nodes'[m][v] # Unset =>
      \/ m \in DOMAIN m_nodes /\ v \in DOMAIN m_nodes[m] /\ m_nodes'[m][v] = m_nodes[m][v]
      \/ Change(m, v) \in ToSet(part)

\* A turn whose notifications lead from the driver's table to its next one, and
\* announce what was read.
LEMMA TurnFollows ==
  ASSUME IInv, NEW n, Turn(n), NEW part \in Seq(Notifications),
         m_notifications' = m_notifications \o part,
         NodesTyped', network' \subseteq NodeIds,
         Leads(Held, part, Held'),
         Announces(part)
  PROVE  IInv'
<1>1. /\ m_init /\ UNCHANGED <<saved, phase, m_init, asked, resends, missed>>
      /\ UNCHANGED <<nodes, nodecount, posted, crashed>>
  BY DEF Turn, tableVars
<1>2. Typed  BY DEF IInv
<1>3. QueueTyped'  BY <1>2 DEF Typed, QueueTyped
<1>4. NetworkTyped' /\ ListsTyped' /\ PostedTyped'
  BY <1>1, <1>2 DEF Typed, NetworkTyped, ListsTyped, PostedTyped
<1>5. Typed'  BY <1>3, <1>4 DEF Typed
<1>6. ASSUME Undisturbed' PROVE Follows'
  <2>1. Follows  BY <1>1, <1>6 DEF IInv, Undisturbed
  <2>2. Started' /\ Matches' /\ Shown' = Shown
    BY <1>1, <2>1 DEF Follows, Started, Matches, Shown
  <2>3. m_notifications \in Seq(Notifications)  BY <1>2 DEF Typed, QueueTyped
  <2>4. Leads(Shown, m_notifications \o part, Held')
    BY <2>1, <2>3, LeadsConcat DEF Follows
  <2>5. Leads(Shown', m_notifications', Held')  BY <2>2, <2>4
  <2>6. ToSet(m_notifications') = ToSet(m_notifications) \cup ToSet(part)
    BY <2>3, ConcatSet
  <2>7. Posts  BY <2>1 DEF Follows
  <2>8. Posts'
    <3> SUFFICES ASSUME NEW m \in DOMAIN m_nodes', NEW v \in DOMAIN m_nodes'[m],
                        m_nodes'[m][v] # Unset
                 PROVE  \/ posted'[<<m, v>>] = m_nodes'[m][v]
                        \/ Change(m, v) \in ToSet(m_notifications')
      BY DEF Posts, Change
    <3>1. CASE Change(m, v) \in ToSet(part)  BY <2>6, <3>1
    <3>2. CASE /\ m \in DOMAIN m_nodes /\ v \in DOMAIN m_nodes[m]
               /\ m_nodes'[m][v] = m_nodes[m][v]
      <4>1. posted[<<m, v>>] = m_nodes[m][v] \/ Change(m, v) \in ToSet(m_notifications)
        BY <2>7, <3>2 DEF Posts
      <4> QED  BY <1>1, <2>6, <3>2, <4>1
    <3> QED  BY <3>1, <3>2 DEF Announces
  <2> QED  BY <2>2, <2>5, <2>8 DEF Follows
<1> QED  BY <1>5, <1>6 DEF IInv

LEMMA NewIdAssignedFollows ==
  ASSUME IInv, NEW n \in NodeIds, NewIdAssigned(n)
  PROVE  IInv'
<1> DEFINE gone == IF n \in DOMAIN m_nodes THEN Deletion(n, ValuesOf(n)) ELSE <<>>
           part == gone \o Note("NodeAdded", n)
<1>1. Typed /\ NodesTyped /\ network \subseteq NodeIds
  BY DEF IInv, Typed, NetworkTyped
<1>2. /\ Turn(n) /\ network' = network \cup {n} /\ m_nodes' = With(m_nodes, n, <<>>)
      /\ m_notifications' = (m_notifications \o gone) \o Note("NodeAdded", n)
  BY DEF NewIdAssigned
<1>3. /\ DOMAIN m_nodes' = DOMAIN m_nodes \cup {n}
      /\ \A m \in DOMAIN m_nodes' : m_nodes'[m] = IF m = n THEN <<>> ELSE m_nodes[m]
  BY <1>2 DEF With
<1>4. NodesTyped'  BY <1>1, <1>3, NoReadings DEF NodesTyped
<1>5. gone \in Seq(Notifications) /\ Leads(Held, gone, Without(Held, n))
  <2>1. CASE n \in DOMAIN m_nodes
    <3>1. gone = Deletion(n, ValuesOf(n))  BY <2>1
    <3>2. ValuesOf(n) = (IF n \in DOMAIN Held THEN Held[n] ELSE {}) /\ IsTable(Held)
      BY <1>1, HeldIs
    <3> HIDE DEF gone
    <3>3. Leads(Held, gone, Without(Held, n))  BY <3>1, <3>2, DeletionLeads
    <3>4. ValuesOf(n) \in SUBSET Values  BY <3>2 DEF IsTable
    <3> QED  BY <3>1, <3>3, <3>4, DeletionType
  <2>2. CASE n \notin DOMAIN m_nodes
    <3>1. gone = <<>>  BY <2>2
    <3>2. Without(Held, n) = Held
      <4>1. n \notin DOMAIN Held /\ Held = [m \in DOMAIN Held |-> Held[m]]
        BY <1>1, <2>2, HeldIs DEF IsTable
      <4>2. DOMAIN Held \ {n} = DOMAIN Held  BY <4>1
      <4>3. Without(Held, n) = [m \in DOMAIN Held |-> Held[m]]  BY <4>2 DEF Without
      <4> QED  BY <4>1, <4>3
    <3> HIDE DEF gone
    <3> QED  BY <3>1, <3>2, LeadsNone, EmptySeq
  <2> QED  BY <2>1, <2>2
<1> HIDE DEF gone
<1>6. Held' = With(Without(Held, n), n, {})
  <2>1. Held' = [m \in DOMAIN m_nodes \cup {n} |-> IF m = n THEN {} ELSE DOMAIN m_nodes[m]]
    BY <1>3, NoReadings DEF Held
  <2>2. With(Without(Held, n), n, {})
          = [m \in DOMAIN m_nodes \cup {n} |-> IF m = n THEN {} ELSE DOMAIN m_nodes[m]]
    BY DEF With, Without, Held
  <2> QED  BY <2>1, <2>2
<1>7. n \notin DOMAIN Without(Held, n)  BY DEF Without
<1>8. Note("NodeAdded", n) \in Seq(Notifications)  BY NoteType DEF NodeTypes
<1>9. Leads(Without(Held, n), Note("NodeAdded", n), Held')  BY <1>6, <1>7, NodeAddedLeads
<1>10. part \in Seq(Notifications) /\ Leads(Held, part, Held')
  BY <1>5, <1>8, <1>9, LeadsConcat
<1>11. m_notifications' = m_notifications \o part
  <2>1. m_notifications \in Seq(Notifications)  BY <1>1 DEF Typed, QueueTyped
  <2> QED  BY <1>2, <1>5, <1>8, <2>1, ConcatAssociative
<1> HIDE DEF part
<1>12. network' \subseteq NodeIds  BY <1>1, <1>2
<1>13. \A m \in DOMAIN m_nodes' : \A v \in DOMAIN m_nodes'[m] :
         m \in DOMAIN m_nodes /\ v \in DOMAIN m_nodes[m] /\ m_nodes'[m][v] = m_nodes[m][v]
  BY <1>3, NoReadings
<1>14. Announces(part)  BY <1>13 DEF Announces
<1> QED  BY <1>2, <1>4, <1>10, <1>11, <1>12, <1>14, TurnFollows

LEMMA DeleteDoneFollows ==
  ASSUME IInv, NEW n \in NodeIds, DeleteDone(n)
  PROVE  IInv'
<1> DEFINE part == Deletion(n, ValuesOf(n))
<1>1. Typed /\ NodesTyped /\ network \subseteq NodeIds
  BY DEF IInv, Typed, NetworkTyped
<1>2. /\ Turn(n) /\ network' = network \ {n} /\ m_nodes' = Without(m_nodes, n)
      /\ m_notifications' = m_notifications \o part
  BY DEF DeleteDone
<1>3. /\ DOMAIN m_nodes' = DOMAIN m_nodes \ {n}
      /\ \A m \in DOMAIN m_nodes' : m_nodes'[m] = m_nodes[m]
  BY <1>2 DEF Without
<1>4. NodesTyped'  BY <1>1, <1>3 DEF NodesTyped
<1>5. ValuesOf(n) = (IF n \in DOMAIN Held THEN Held[n] ELSE {}) /\ IsTable(Held)
  BY <1>1, HeldIs
<1>6. Leads(Held, part, Without(Held, n))  BY <1>5, DeletionLeads
<1>7. ValuesOf(n) \in SUBSET Values  BY <1>5 DEF IsTable
<1>8. part \in Seq(Notifications)  BY <1>7, DeletionType
<1> HIDE DEF part
<1>9. Held' = Without(Held, n)
  <2>1. Held' = [m \in DOMAIN m_nodes \ {n} |-> DOMAIN m_nodes[m]]
    BY <1>3 DEF Held
  <2>2. Without(Held, n) = [m \in DOMAIN m_nodes \ {n} |-> DOMAIN m_nodes[m]]
    BY DEF Without, Held
  <2> QED  BY <2>1, <2>2
<1>10. network' \subseteq NodeIds  BY <1>1, <1>2
<1>11. Announces(part)  BY <1>3 DEF Announces
<1> QED  BY <1>2, <1>4, <1>6, <1>8, <1>9, <1>10, <1>11, TurnFollows

LEMMA AddValueFollows ==
  ASSUME IInv, NEW n \in NodeIds, NEW v \in Values, AddValue(n, v)
  PROVE  IInv'
<1> DEFINE part == ValueNote("ValueAdded", n, v)
           x == With(m_nodes[n], v, Unset)
<1>1. Typed /\ NodesTyped /\ network \subseteq NodeIds
  BY DEF IInv, Typed, NetworkTyped
<1>2. /\ Turn(n) /\ network' = network /\ m_nodes' = [m_nodes EXCEPT ![n] = x]
      /\ n \in DOMAIN m_nodes /\ v \notin ValuesOf(n)
      /\ m_notifications' = m_notifications \o part
  BY DEF AddValue
<1>3. x \in Readings /\ DOMAIN x = DOMAIN m_nodes[n] \cup {v}
  BY <1>1, <1>2, WithReading DEF NodesTyped
<1>4. \A w \in DOMAIN x : x[w] = IF w = v THEN Unset ELSE m_nodes[n][w]  BY DEF With
<1>5. part \in Seq(Notifications)  BY ValueNoteType
<1> HIDE DEF x, part
<1>6. /\ DOMAIN m_nodes' = DOMAIN m_nodes
      /\ \A m \in DOMAIN m_nodes : m_nodes'[m] = IF m = n THEN x ELSE m_nodes[m]
  BY <1>2
<1>7. NodesTyped'  BY <1>1, <1>3, <1>6 DEF NodesTyped
<1>8. n \in DOMAIN Held /\ Held[n] = DOMAIN m_nodes[n] /\ v \notin Held[n]
  BY <1>1, <1>2, HeldIs
<1>9. Held' = With(Held, n, Held[n] \cup {v})
  <2>1. Held' = [m \in DOMAIN m_nodes |->
                   IF m = n THEN DOMAIN m_nodes[n] \cup {v} ELSE DOMAIN m_nodes[m]]
    BY <1>3, <1>6 DEF Held
  <2>2. With(Held, n, Held[n] \cup {v}) =
          [m \in DOMAIN m_nodes |-> IF m = n THEN DOMAIN m_nodes[n] \cup {v} ELSE DOMAIN m_nodes[m]]
    BY <1>2 DEF With, Held
  <2> QED  BY <2>1, <2>2
<1>10. Leads(Held, part, Held')  BY <1>8, <1>9, ValueAddedLeads DEF part
<1>11. network' \subseteq NodeIds  BY <1>1, <1>2
<1>12. \A m \in DOMAIN m_nodes' : \A w \in DOMAIN m_nodes'[m] :
         m_nodes'[m][w] # Unset =>
           m \in DOMAIN m_nodes /\ w \in DOMAIN m_nodes[m] /\ m_nodes'[m][w] = m_nodes[m][w]
  BY <1>3, <1>4, <1>6
<1>13. Announces(part)  BY <1>12 DEF Announces
<1> QED  BY <1>2, <1>5, <1>7, <1>10, <1>11, <1>13, TurnFollows

LEMMA RemoveValueFollows ==
  ASSUME IInv, NEW n \in NodeIds, NEW v \in Values, RemoveValue(n, v)
  PROVE  IInv'
<1> DEFINE part == ValueNote("ValueRemoved", n, v)
           x == Without(m_nodes[n], v)
<1>1. Typed /\ NodesTyped /\ network \subseteq NodeIds
  BY DEF IInv, Typed, NetworkTyped
<1>2. /\ Turn(n) /\ network' = network /\ m_nodes' = [m_nodes EXCEPT ![n] = x]
      /\ n \in DOMAIN m_nodes
      /\ m_notifications' = m_notifications \o part
  BY DEF RemoveValue, ValuesOf
<1>3. x \in Readings /\ DOMAIN x = DOMAIN m_nodes[n] \ {v}
  BY <1>1, <1>2, WithoutReading DEF NodesTyped
<1>4. \A w \in DOMAIN x : x[w] = m_nodes[n][w]  BY DEF Without
<1>5. part \in Seq(Notifications)  BY ValueNoteType
<1> HIDE DEF x, part
<1>6. /\ DOMAIN m_nodes' = DOMAIN m_nodes
      /\ \A m \in DOMAIN m_nodes : m_nodes'[m] = IF m = n THEN x ELSE m_nodes[m]
  BY <1>2
<1>7. NodesTyped'  BY <1>1, <1>3, <1>6 DEF NodesTyped
<1>8. n \in DOMAIN Held /\ Held[n] = DOMAIN m_nodes[n]  BY <1>1, <1>2, HeldIs
<1>9. Held' = With(Held, n, Held[n] \ {v})
  <2>1. Held' = [m \in DOMAIN m_nodes |->
                   IF m = n THEN DOMAIN m_nodes[n] \ {v} ELSE DOMAIN m_nodes[m]]
    BY <1>3, <1>6 DEF Held
  <2>2. With(Held, n, Held[n] \ {v}) =
          [m \in DOMAIN m_nodes |-> IF m = n THEN DOMAIN m_nodes[n] \ {v} ELSE DOMAIN m_nodes[m]]
    BY <1>2 DEF With, Held
  <2> QED  BY <2>1, <2>2
<1>10. Leads(Held, part, Held')  BY <1>8, <1>9, ValueRemovedLeads DEF part
<1>11. network' \subseteq NodeIds  BY <1>1, <1>2
<1>12. \A m \in DOMAIN m_nodes' : \A w \in DOMAIN m_nodes'[m] :
         m \in DOMAIN m_nodes /\ w \in DOMAIN m_nodes[m] /\ m_nodes'[m][w] = m_nodes[m][w]
  BY <1>3, <1>4, <1>6
<1>13. Announces(part)  BY <1>12 DEF Announces
<1> QED  BY <1>2, <1>5, <1>7, <1>10, <1>11, <1>13, TurnFollows

LEMMA RefreshValueFollows ==
  ASSUME IInv, NEW n \in NodeIds, NEW v \in Values, NEW d \in Data, RefreshValue(n, v, d)
  PROVE  IInv'
<1> DEFINE x == [m_nodes[n] EXCEPT ![v] = d]
<1>1. Typed /\ NodesTyped /\ network \subseteq NodeIds
  BY DEF IInv, Typed, NetworkTyped
<1>2. PICK type \in {"ValueChanged"} \cup (IF d = m_nodes[n][v] THEN {"ValueRefreshed"} ELSE {}) :
        m_notifications' = m_notifications \o ValueNote(type, n, v)
  BY DEF RefreshValue
<1> DEFINE part == ValueNote(type, n, v)
<1>3. /\ Turn(n) /\ network' = network /\ m_nodes' = [m_nodes EXCEPT ![n] = x]
      /\ n \in DOMAIN m_nodes /\ v \in DOMAIN m_nodes[n]
  BY DEF RefreshValue, ValuesOf
<1>4. x \in Readings /\ DOMAIN x = DOMAIN m_nodes[n]
  BY <1>1, <1>3, NewReading DEF NodesTyped
<1>5. \A w \in DOMAIN x : x[w] = IF w = v THEN d ELSE m_nodes[n][w]  OBVIOUS
<1>6. part \in Seq(Notifications)  BY ValueNoteType
<1>7. type = "ValueChanged" \/ d = m_nodes[n][v]  OBVIOUS
<1>8. type = "ValueChanged" => Change(n, v) \in ToSet(part)
  <2> SUFFICES ASSUME type = "ValueChanged" PROVE Change(n, v) \in ToSet(part)
    OBVIOUS
  <2> DEFINE e == Change(n, v)
  <2>1. part = <<e>>  BY DEF ValueNote, Change
  <2> HIDE DEF e, part
  <2>2. e \in ToSet(<<e>>)  BY DEF ToSet
  <2> QED  BY <2>1, <2>2 DEF e
<1> HIDE DEF x, part
<1>9. /\ DOMAIN m_nodes' = DOMAIN m_nodes
      /\ \A m \in DOMAIN m_nodes : m_nodes'[m] = IF m = n THEN x ELSE m_nodes[m]
  BY <1>3
<1>10. NodesTyped'  BY <1>1, <1>4, <1>9 DEF NodesTyped
<1>11. Held' = Held  BY <1>4, <1>9 DEF Held
<1>12. n \in DOMAIN Held  BY <1>1, <1>3, HeldIs
<1>13. Leads(Held, part, Held')  BY <1>11, <1>12, ValueMarkLeads DEF part
<1>14. network' \subseteq NodeIds  BY <1>1, <1>3
<1>15. \A m \in DOMAIN m_nodes' : \A w \in DOMAIN m_nodes'[m] :
         \/ m \in DOMAIN m_nodes /\ w \in DOMAIN m_nodes[m] /\ m_nodes'[m][w] = m_nodes[m][w]
         \/ Change(m, w) \in ToSet(part)
  <2> TAKE m \in DOMAIN m_nodes'
  <2> TAKE w \in DOMAIN m_nodes'[m]
  <2>1. CASE m = n /\ w = v
    BY <1>3, <1>4, <1>5, <1>7, <1>8, <1>9, <2>1
  <2>2. CASE ~(m = n /\ w = v)
    BY <1>4, <1>5, <1>9, <2>2
  <2> QED  BY <2>1, <2>2
<1>16. m_notifications' = m_notifications \o part  BY <1>2 DEF part
<1>17. Announces(part)  BY <1>15 DEF Announces
<1> QED  BY <1>3, <1>6, <1>10, <1>13, <1>14, <1>16, <1>17, TurnFollows

LEMMA NoticeFollows ==
  ASSUME IInv, NEW n \in NodeIds, NEW t \in Notices, Notice(n, t)
  PROVE  IInv'
<1> DEFINE part == Note(t, n)
<1>1. Typed /\ NodesTyped /\ network \subseteq NodeIds
  BY DEF IInv, Typed, NetworkTyped
<1>2. /\ Turn(n) /\ network' = network /\ m_nodes' = m_nodes /\ n \in DOMAIN m_nodes
      /\ m_notifications' = m_notifications \o part
  BY DEF Notice
<1>3. part \in Seq(Notifications)  BY NoteType DEF NodeTypes
<1>4. n \in DOMAIN Held /\ Held' = Held  BY <1>1, <1>2, HeldIs DEF Held
<1>5. Leads(Held, part, Held')  BY <1>4, NoticeLeads
<1> HIDE DEF part
<1>6. NodesTyped' /\ network' \subseteq NodeIds  BY <1>1, <1>2 DEF NodesTyped
<1>7. Announces(part)  BY <1>2 DEF Announces
<1> QED  BY <1>2, <1>3, <1>5, <1>6, <1>7, TurnFollows

\* The answer to the request: the first one, or a late one that was answered
\* again.
LEMMA InitDataFollows ==
  ASSUME IInv, HandleSerialAPIGetInitDataResponse
  PROVE  IInv'
<1>1. /\ Typed /\ NodesTyped /\ NetworkTyped /\ network \subseteq NodeIds /\ IsTable(saved)
      /\ asked \in Nat
  BY DEF IInv, Typed, NetworkTyped
<1>2. /\ asked > 0 /\ m_notifications = <<>> /\ asked' = asked - 1 /\ m_init' = TRUE
      /\ UNCHANGED <<saved, network, phase, resends, missed>>
      /\ UNCHANGED <<nodes, nodecount, posted, crashed>>
      /\ m_nodes' = [n \in network |-> IF n \in DOMAIN Known THEN Known[n] ELSE <<>>]
      /\ m_notifications' =
           (IF m_init THEN Driver("DriverReset") ELSE Driver("DriverReady") \o ReadConfig)
           \o BitNotes
  BY DEF HandleSerialAPIGetInitDataResponse, tableVars, BitNotes
<1>3. DOMAIN Known \subseteq NodeIds /\ \A n \in DOMAIN Known : Known[n] \in Readings
  <2>1. CASE m_init
    <3>1. Known = m_nodes  BY <2>1 DEF Known
    <3> QED  BY <1>1, <3>1 DEF NodesTyped
  <2>2. CASE ~m_init
    <3>1. DOMAIN Known = DOMAIN saved
          /\ \A n \in DOMAIN Known : Known[n] = [v \in saved[n] |-> Unset]
      BY <2>2 DEF Known
    <3>2. \A n \in DOMAIN saved : saved[n] \in SUBSET Values  BY <1>1 DEF IsTable
    <3>3. \A n \in DOMAIN saved : [v \in saved[n] |-> Unset] \in Readings
      BY <3>2 DEF Readings
    <3> QED  BY <1>1, <3>1, <3>3 DEF IsTable
  <2> QED  BY <2>1, <2>2
<1>4. /\ DOMAIN m_nodes' = network
      /\ \A n \in network : m_nodes'[n] = IF n \in DOMAIN Known THEN Known[n] ELSE <<>>
  BY <1>2
<1>5. NodesTyped'  BY <1>1, <1>3, <1>4, NoReadings DEF NodesTyped
<1>6. QueueTyped'
  <2>1. \A n \in DOMAIN Known : DOMAIN Known[n] \subseteq Values  BY <1>3, ReadingsAre
  <2>2. BitNotes \in Seq(Notifications)  BY <1>1, <1>3, <2>1, BitNotesType
  <2>3. Driver("DriverReset") \in Seq(Notifications)  BY DriverType
  <2>4. Driver("DriverReady") \o ReadConfig \in Seq(Notifications)
    <3>1. Driver("DriverReady") \in Seq(Notifications)  BY DriverType
    <3>2. ReadConfig \in Seq(Notifications)  BY <1>1, ReadConfigLeads
    <3> QED  BY <3>1, <3>2
  <2> DEFINE first == IF m_init THEN Driver("DriverReset") ELSE Driver("DriverReady") \o ReadConfig
  <2>5. first \in Seq(Notifications)  BY <2>3, <2>4
  <2>6. m_notifications' = first \o BitNotes  BY <1>2
  <2> HIDE DEF first
  <2> QED  BY <2>2, <2>5, <2>6 DEF QueueTyped
<1>7. NetworkTyped'  BY <1>1, <1>2 DEF NetworkTyped
<1>8. ListsTyped' /\ PostedTyped'
  BY <1>1, <1>2 DEF Typed, ListsTyped, PostedTyped
<1>9. Typed'  BY <1>5, <1>6, <1>7, <1>8 DEF Typed
<1>10. ASSUME Undisturbed' PROVE Follows'
  <2>1. Follows  BY <1>2, <1>10 DEF IInv, Undisturbed
  <2>2. ~m_init /\ asked = 1 /\ phase # "opening" /\ DOMAIN m_nodes = {}
    BY <1>2, <2>1 DEF Follows, Started
  <2>3. Started'  BY <1>2, <2>2 DEF Started
  <2>4. Matches' /\ Shown' = Shown  BY <1>2, <2>1 DEF Follows, Matches, Shown
  <2>5. Shown = NoNodes
    <3>1. Leads(Shown, <<>>, Held)  BY <1>2, <2>1 DEF Follows
    <3>2. Shown = Held  BY <3>1, LeadsNowhere
    <3> QED  BY <2>2, <3>2 DEF Held, NoNodes
  <2>6. m_notifications' = (Driver("DriverReady") \o ReadConfig) \o BitNotes
    BY <1>2, <2>2
  <2>7. Leads(NoNodes, m_notifications', Found)
    BY <1>1, <2>2, <2>6, InitDataLeads
  <2>8. DOMAIN Known = DOMAIN saved
        /\ \A n \in DOMAIN saved : Known[n] = [v \in saved[n] |-> Unset]
    BY <2>2 DEF Known
  <2>9. \A n \in network : DOMAIN m_nodes'[n] = IF n \in DOMAIN saved THEN saved[n] ELSE {}
    BY <1>4, <2>8, NoReadings
  <2>10. Held' = Found  BY <1>4, <2>9 DEF Held, Found
  <2>11. \A n \in network : \A v \in DOMAIN m_nodes'[n] : m_nodes'[n][v] = Unset
    BY <1>4, <2>8, NoReadings
  <2>12. Posts'  BY <1>4, <2>11 DEF Posts
  <2>13. Leads(Shown', m_notifications', Held')  BY <2>4, <2>5, <2>7, <2>10
  <2> QED  BY <2>3, <2>4, <2>12, <2>13 DEF Follows
<1> QED  BY <1>9, <1>10 DEF IInv

LEMMA OpenControllerFollows ==
  ASSUME IInv, OpenController
  PROVE  IInv'
<1>1. /\ phase = "opening"
      /\ UNCHANGED <<saved, network, m_init, m_nodes, resends, missed>>
      /\ UNCHANGED <<nodes, nodecount, posted, crashed>>
  BY DEF OpenController, tableVars
<1>2. Typed /\ m_notifications \in Seq(Notifications)  BY DEF IInv, Typed, QueueTyped
<1>3. NodesTyped' /\ ListsTyped' /\ PostedTyped'
  BY <1>1, <1>2 DEF Typed, NodesTyped, ListsTyped, PostedTyped
<1>4. Matches => Matches'  BY <1>1 DEF Matches
<1>5. Shown' = Shown /\ Held' = Held  BY <1>1 DEF Shown, Held
<1>6. Undisturbed' => Follows  BY <1>1 DEF IInv, Undisturbed
<1>7. CASE phase' = "open" /\ asked' = 1 /\ UNCHANGED m_notifications
  <2>1. Typed'
    BY <1>1, <1>2, <1>3, <1>7 DEF Typed, NetworkTyped, QueueTyped
  <2>2. ASSUME Undisturbed' PROVE Follows'
    <3>1. Started'  BY <1>1, <1>6, <1>7, <2>2 DEF Follows, Started
    <3>2. Posts'  BY <1>1, <1>6, <1>7, <2>2 DEF Follows, Posts, Change
    <3>3. Leads(Shown', m_notifications', Held')
      BY <1>5, <1>6, <1>7, <2>2 DEF Follows
    <3> QED  BY <1>4, <1>6, <2>2, <3>1, <3>2, <3>3 DEF Follows
  <2> QED  BY <2>1, <2>2 DEF IInv
<1>8. CASE /\ phase' = "failed" /\ UNCHANGED asked
           /\ m_notifications' = m_notifications \o Driver("DriverFailed")
  <2> DEFINE part == Driver("DriverFailed")
             e == [type |-> "DriverFailed"]
  <2>1. part \in Seq(Notifications)  BY DriverType
  <2>2. Leads(Held, part, NoNodes)
    <3>1. part = <<e>> /\ e.type = "DriverFailed"  BY DEF Driver
    <3> HIDE DEF e, part
    <3>2. Delivers(Held, e, NoNodes)  BY <3>1 DEF Delivers, NoNodes
    <3> QED  BY <3>1, <3>2, LeadsOne
  <2>3. m_notifications' = m_notifications \o part  BY <1>8
  <2> HIDE DEF part
  <2>4. Typed'
    <3>1. QueueTyped'  BY <1>2, <2>1, <2>3 DEF QueueTyped
    <3>2. NetworkTyped'  BY <1>1, <1>2, <1>8 DEF Typed, NetworkTyped
    <3> QED  BY <1>3, <3>1, <3>2 DEF Typed
  <2>5. ASSUME Undisturbed' PROVE Follows'
    <3>1. Started'  BY <1>1, <1>6, <1>8, <2>5 DEF Follows, Started
    <3>2. DOMAIN m_nodes = {}  BY <1>1, <1>6, <2>5 DEF Follows, Started
    <3>3. Posts'  BY <1>1, <3>2 DEF Posts
    <3>4. Held = NoNodes  BY <3>2 DEF Held, NoNodes
    <3>5. Leads(Shown, m_notifications, Held)  BY <1>6, <2>5 DEF Follows
    <3>6. Leads(Shown', m_notifications', Held')
      BY <1>2, <1>5, <2>1, <2>2, <2>3, <3>4, <3>5, LeadsConcat
    <3> QED  BY <1>4, <1>6, <2>5, <3>1, <3>3, <3>6 DEF Follows
  <2> QED  BY <2>4, <2>5 DEF IInv
<1> QED  BY <1>7, <1>8 DEF OpenController

LEMMA ResendFollows ==
  ASSUME IInv, Resend
  PROVE  IInv'
<1>1. /\ asked' = asked + 1 /\ resends' = resends + 1
      /\ UNCHANGED <<saved, network, m_nodes, m_notifications>>
      /\ UNCHANGED <<nodes, nodecount, posted>>
  BY DEF Resend, tableVars
<1>2. Typed  BY DEF IInv
<1>3. Typed'
  BY <1>1, <1>2 DEF Typed, NodesTyped, QueueTyped, NetworkTyped, ListsTyped, PostedTyped
<1>4. ~Undisturbed'  BY <1>1, <1>2 DEF Typed, NetworkTyped, Undisturbed
<1> QED  BY <1>3, <1>4 DEF IInv

LEMMA QuietFollows ==
  ASSUME IInv, UNCHANGED <<saved, network, phase, m_init, asked, m_nodes, resends>>,
         UNCHANGED <<m_notifications, missed, nodes, nodecount, posted, crashed>>
  PROVE  IInv'
<1>1. Typed'
  BY DEF IInv, Typed, NodesTyped, QueueTyped, NetworkTyped, ListsTyped, PostedTyped
<1>2. ASSUME Undisturbed' PROVE Follows'
  <2>1. Follows  BY <1>2 DEF IInv, Undisturbed
  <2>2. Started' /\ Matches' /\ Posts'
    BY <2>1 DEF Follows, Started, Matches, Posts, Change
  <2>3. Shown' = Shown /\ Held' = Held  BY DEF Shown, Held
  <2> QED  BY <2>1, <2>2, <2>3 DEF Follows
<1> QED  BY <1>1, <1>2 DEF IInv

\* Only a change is posted, and it is posted.
LEMMA OnNotificationPosts ==
  ASSUME NEW e, OnNotification(e)
  PROVE  \/ e.type = "ValueChanged" /\ Post(e.node, e.value)
         \/ e.type # "ValueChanged" /\ posted' = posted
<1>1. CASE OnValueChanged(e)  BY <1>1 DEF OnValueChanged
<1>2. CASE OnNotice(e)
  <2>1. "ValueChanged" \notin Notices  BY IdealozAssumption
  <2> QED  BY <1>2, <2>1 DEF OnNotice
<1>3. CASE OnValueAdded(e) \/ OnValueRemoved(e) \/ OnNodeQueriesComplete(e)
  BY <1>3 DEF OnValueAdded, OnValueRemoved, OnNodeQueriesComplete
<1>4. CASE OnNodeAdded(e) \/ OnNodeRemoved(e) \/ OnDriverGone(e)
  BY <1>4 DEF OnNodeAdded, OnNodeRemoved, OnDriverGone
<1>5. CASE OnDriverReady(e) \/ OnNodeNew(e)
  BY <1>5 DEF OnDriverReady, OnNodeNew, tableVars
<1> QED  BY <1>1, <1>2, <1>3, <1>4, <1>5 DEF OnNotification

LEMMA DeliveryPosts ==
  ASSUME Typed, NEW e, IF watching /\ ~Stale(e) THEN OnNotification(e) ELSE UNCHANGED tableVars
  PROVE  /\ PostedTyped'
         /\ \A n \in DOMAIN m_nodes : \A v \in DOMAIN m_nodes[n] :
              /\ posted'[<<n, v>>] \in {posted[<<n, v>>], m_nodes[n][v]}
              /\ watching /\ e = Change(n, v) => posted'[<<n, v>>] = m_nodes[n][v]
<1>1. NodesTyped /\ PostedTyped  BY DEF Typed
<1>2. \A n \in DOMAIN m_nodes : \A v \in DOMAIN m_nodes[n] :
        <<n, v>> \in NodeIds \X Values /\ m_nodes[n][v] \in Data \cup {Unset}
  BY <1>1, ReadingsAre DEF NodesTyped
<1>3. CASE posted' = posted /\ ~(watching /\ e.type = "ValueChanged" /\ ~Stale(e))
  <2>1. PostedTyped'  BY <1>1, <1>3 DEF PostedTyped
  <2>2. ASSUME NEW n \in DOMAIN m_nodes, NEW v \in DOMAIN m_nodes[n], e = Change(n, v)
        PROVE  e.type = "ValueChanged" /\ ~Stale(e)
    <3>1. e.type = "ValueChanged" /\ e.node = n /\ e.value = v  BY <2>2 DEF Change
    <3>2. v \in ValuesOf(n)  BY DEF ValuesOf
    <3> QED  BY <3>1, <3>2 DEF Stale
  <2> QED  BY <1>3, <2>1, <2>2
<1>4. CASE e.type = "ValueChanged" /\ Post(e.node, e.value) /\ ~Stale(e)
  <2>1. e.value \in ValuesOf(e.node)  BY <1>4 DEF Stale
  <2>2. e.node \in DOMAIN m_nodes /\ e.value \in DOMAIN m_nodes[e.node]
    BY <2>1 DEF ValuesOf
  <2> DEFINE x == <<e.node, e.value>>
             d == m_nodes[e.node][e.value]
  <2>3. x \in NodeIds \X Values /\ d \in Data \cup {Unset}  BY <1>2, <2>2
  <2>4. posted' = [posted EXCEPT ![x] = d]  BY <1>4 DEF Post
  <2>5. \A n, v : <<n, v>> = x => n = e.node /\ v = e.value  OBVIOUS
  <2>6. \A n \in DOMAIN m_nodes : \A v \in DOMAIN m_nodes[n] : <<n, v>> = x => d = m_nodes[n][v]
    BY <2>5
  <2>7. \A n, v : e = Change(n, v) => <<n, v>> = x  BY DEF Change
  <2> HIDE DEF x, d
  <2>8. PostedTyped'  BY <1>1, <2>3, <2>4 DEF PostedTyped
  <2>9. \A y \in NodeIds \X Values : posted'[y] = IF y = x THEN d ELSE posted[y]
    BY <1>1, <2>3, <2>4 DEF PostedTyped
  <2>10. ASSUME NEW n \in DOMAIN m_nodes, NEW v \in DOMAIN m_nodes[n]
         PROVE  /\ posted'[<<n, v>>] \in {posted[<<n, v>>], m_nodes[n][v]}
                /\ e = Change(n, v) => posted'[<<n, v>>] = m_nodes[n][v]
    <3>1. <<n, v>> \in NodeIds \X Values  BY <1>2
    <3>2. posted'[<<n, v>>] = IF <<n, v>> = x THEN d ELSE posted[<<n, v>>]  BY <2>9, <3>1
    <3>3. <<n, v>> = x => d = m_nodes[n][v]  BY <2>6
    <3>4. e = Change(n, v) => <<n, v>> = x  BY <2>7
    <3> QED  BY <3>2, <3>3, <3>4
  <2> QED  BY <2>8, <2>10
<1>5. CASE watching /\ ~Stale(e)
  <2>1. OnNotification(e)  BY <1>5
  <2>2. \/ e.type = "ValueChanged" /\ Post(e.node, e.value)
        \/ e.type # "ValueChanged" /\ posted' = posted
    BY <2>1, OnNotificationPosts
  <2> QED  BY <1>3, <1>4, <1>5, <2>2
<1>6. CASE ~(watching /\ ~Stale(e))
  <2>1. posted' = posted  BY <1>6 DEF tableVars
  <2> QED  BY <1>3, <1>6, <2>1
<1> QED  BY <1>5, <1>6

LEMMA HeadOfQueue ==
  ASSUME NEW X, NEW s \in Seq(X), s # <<>>
  PROVE  /\ Head(s) \in X /\ Tail(s) \in Seq(X)
         /\ ToSet(s) = ToSet(Tail(s)) \cup {Head(s)}
<1> DEFINE h == <<Head(s)>>
           t == Tail(s)
<1>1. Head(s) \in X /\ t \in Seq(X) /\ s = h \o t
  OBVIOUS
<1>2. h \in Seq(X) /\ ToSet(h) = {Head(s)}
  BY <1>1 DEF ToSet
<1> HIDE DEF h, t
<1>3. ToSet(h \o t) = ToSet(h) \cup ToSet(t)
  BY <1>1, <1>2, ConcatSet
<1> QED  BY <1>1, <1>2, <1>3 DEF t

LEMMA NotifyWatchersFollows ==
  ASSUME IInv, NotifyWatchers
  PROVE  IInv'
<1> DEFINE e == Head(m_notifications)
           z == Tail(m_notifications)
<1>1. /\ m_notifications # <<>>
      /\ IF watching /\ ~Stale(e) THEN OnNotification(e) ELSE UNCHANGED tableVars
      /\ missed' = (missed \/ ~watching)
      /\ UNCHANGED <<saved, network, phase, m_init, asked, m_nodes, resends>>
  BY DEF NotifyWatchers
<1>2. PICK part :
        /\ m_notifications' = z \o part
        /\ \/ part = <<>>
           \/ part = Note("NodeQueriesComplete", e.node) /\ e.node \in DOMAIN m_nodes
  <2>1. CASE m_notifications' = z
    <3>1. z \in Seq(Notifications)
      BY <1>1, HeadOfQueue DEF IInv, Typed, QueueTyped
    <3> HIDE DEF z
    <3>2. z = z \o <<>>  BY <3>1, ConcatEmptySeq
    <3> QED  BY <2>1, <3>2
  <2>2. CASE /\ e.node \in DOMAIN m_nodes
             /\ m_notifications' = z \o Note("NodeQueriesComplete", e.node)
    BY <2>2
  <2> QED  BY <2>1, <2>2 DEF NotifyWatchers
<1>3. Typed /\ NodesTyped /\ ListsTyped /\ m_notifications \in Seq(Notifications)
  BY DEF IInv, Typed, QueueTyped
<1>4. /\ e \in Notifications /\ z \in Seq(Notifications)
      /\ ToSet(m_notifications) = ToSet(z) \cup {e}
  BY <1>1, <1>3, HeadOfQueue
<1>5. part \in Seq(Notifications) /\ Leads(Held, part, Held)
  <2>1. CASE part = <<>>
    BY <2>1, EmptySeq, LeadsNone
  <2>2. CASE part = Note("NodeQueriesComplete", e.node) /\ e.node \in DOMAIN m_nodes
    <3>1. e.node \in NodeIds /\ e.node \in DOMAIN Held
      BY <1>3, <2>2, HeldIs DEF NodesTyped
    <3> HIDE DEF e
    <3>2. part \in Seq(Notifications)  BY <2>2, <3>1, NoteType DEF NodeTypes
    <3>3. Leads(Held, part, Held)  BY <2>2, <3>1, NoticeLeads
    <3> QED  BY <3>2, <3>3
  <2> QED  BY <1>2, <2>1, <2>2
<1> HIDE DEF e, z
<1>6. m_notifications' \in Seq(Notifications)
      /\ ToSet(m_notifications') = ToSet(z) \cup ToSet(part)
  BY <1>2, <1>4, <1>5, ConcatSet
<1>7. Held' = Held  BY <1>1 DEF Held
<1>8. /\ PostedTyped'
      /\ \A n \in DOMAIN m_nodes : \A v \in DOMAIN m_nodes[n] :
           /\ posted'[<<n, v>>] \in {posted[<<n, v>>], m_nodes[n][v]}
           /\ watching /\ e = Change(n, v) => posted'[<<n, v>>] = m_nodes[n][v]
  BY <1>1, <1>3, DeliveryPosts
<1>9. ListsTyped'
  <2>1. CASE watching /\ ~Stale(e)
    BY <1>1, <1>3, <1>4, <2>1, OnNotificationShows DEF Shows
  <2>2. CASE ~(watching /\ ~Stale(e))
    BY <1>1, <1>3, <2>2 DEF ListsTyped, tableVars
  <2> QED  BY <2>1, <2>2
<1>10. Typed'
  <2>1. NodesTyped' /\ NetworkTyped'  BY <1>1, <1>3 DEF Typed, NodesTyped, NetworkTyped
  <2>2. QueueTyped'  BY <1>6 DEF QueueTyped
  <2> QED  BY <1>8, <1>9, <2>1, <2>2 DEF Typed
<1>11. ASSUME Undisturbed' PROVE Follows'
  <2>1. Follows /\ watching  BY <1>1, <1>11 DEF IInv, Undisturbed
  <2>2. PICK w : Delivers(Shown, e, w) /\ Leads(w, z, Held)
    <3>1. Leads(Shown, m_notifications, Held)  BY <2>1 DEF Follows
    <3> QED  BY <1>1, <1>3, <3>1, LeadsHead DEF e, z
  <2>3. Shows(e)
    <3>1. CASE ~Stale(e)
      BY <1>1, <1>3, <1>4, <2>1, <3>1, OnNotificationShows
    <3>2. CASE Stale(e)
      <4>1. UNCHANGED tableVars  BY <1>1, <3>2
      <4>2. e.type \in Marks  BY <3>2 DEF Stale, Marks
      <4> QED  BY <1>3, <4>1, <4>2, NoChangeShows
    <3> QED  BY <3>1, <3>2
  <2>4. Matches' /\ Shown' = w  BY <2>1, <2>2, <2>3 DEF Follows, Shows
  <2>5. Leads(w, z \o part, Held)  BY <1>4, <1>5, <2>2, LeadsConcat
  <2>6. Leads(Shown', m_notifications', Held')  BY <1>2, <1>7, <2>4, <2>5
  <2>7. Started'  BY <1>1, <2>1 DEF Follows, Started
  <2>8. Posts'
    <3> SUFFICES ASSUME NEW n \in DOMAIN m_nodes, NEW v \in DOMAIN m_nodes[n],
                        m_nodes[n][v] # Unset
                 PROVE  \/ posted'[<<n, v>>] = m_nodes[n][v]
                        \/ Change(n, v) \in ToSet(m_notifications')
      BY <1>1 DEF Posts, Change
    <3>1. posted[<<n, v>>] = m_nodes[n][v] \/ Change(n, v) \in ToSet(m_notifications)
      BY <2>1 DEF Follows, Posts
    <3>2. /\ posted'[<<n, v>>] \in {posted[<<n, v>>], m_nodes[n][v]}
          /\ e = Change(n, v) => posted'[<<n, v>>] = m_nodes[n][v]
      BY <1>8, <2>1
    <3> QED  BY <1>4, <1>6, <3>1, <3>2
  <2> QED  BY <2>4, <2>6, <2>7, <2>8 DEF Follows
<1> QED  BY <1>10, <1>11 DEF IInv

LEMMA InitFollows == Init => IInv
<1> SUFFICES ASSUME Init PROVE IInv
  OBVIOUS
<1>1. /\ m_nodes = <<>> /\ nodes = <<>> /\ m_notifications = <<>> /\ nodecount = 0
      /\ asked = 0 /\ m_init = FALSE /\ crashed = FALSE
  BY DEF Init
<1>2. DOMAIN m_nodes = {} /\ DOMAIN nodes = {}  BY <1>1, NoReadings
<1>3. Started  BY <1>1, <1>2 DEF Started
<1>4. Matches  BY <1>1, <1>2, FS_EmptySet DEF Matches
<1>5. Shown = NoNodes /\ Held = NoNodes  BY <1>2 DEF Shown, Held, NoNodes
<1>6. Leads(Shown, m_notifications, Held)  BY <1>1, <1>5, LeadsNone
<1>7. Posts  BY <1>2 DEF Posts
<1> QED  BY <1>3, <1>4, <1>6, <1>7, InitTyped DEF IInv, Follows

LEMMA NextFollows == IInv /\ [Next]_vars => IInv'
<1> SUFFICES ASSUME IInv, [Next]_vars PROVE IInv'
  OBVIOUS
<1>1. CASE OpenController  BY <1>1, OpenControllerFollows
<1>2. CASE Resend  BY <1>2, ResendFollows
<1>3. CASE HandleSerialAPIGetInitDataResponse  BY <1>3, InitDataFollows
<1>4. ASSUME NEW n \in NodeIds, NewIdAssigned(n) \/ DeleteDone(n)
      PROVE  IInv'
  BY <1>4, NewIdAssignedFollows, DeleteDoneFollows
<1>5. ASSUME NEW n \in NodeIds, NEW v \in Values, AddValue(n, v) \/ RemoveValue(n, v)
      PROVE  IInv'
  BY <1>5, AddValueFollows, RemoveValueFollows
<1>6. ASSUME NEW n \in NodeIds, NEW v \in Values, NEW d \in Data, RefreshValue(n, v, d)
      PROVE  IInv'
  BY <1>6, RefreshValueFollows
<1>7. ASSUME NEW n \in NodeIds, NEW t \in Notices, Notice(n, t)
      PROVE  IInv'
  BY <1>7, NoticeFollows
<1>8. CASE NotifyWatchers  BY <1>8, NotifyWatchersFollows
<1>9. CASE AddWatcher \/ UNCHANGED vars
  <2>1. /\ UNCHANGED <<saved, network, phase, m_init, asked, m_nodes, resends>>
        /\ UNCHANGED <<m_notifications, missed, nodes, nodecount, posted, crashed>>
    BY <1>9 DEF AddWatcher, vars, driverVars, tableVars
  <2> QED  BY <2>1, QuietFollows
<1> QED  BY <1>1, <1>2, <1>3, <1>4, <1>5, <1>6, <1>7, <1>8, <1>9 DEF Next

LEMMA Invariance == Spec => []IInv
<1> QED  BY InitFollows, NextFollows, PTL DEF Spec

-----------------------------------------------------------------------------
(* The theorems. *)

\* What the driver sends and what the listener keeps always has its type: only
\* nodes of the network, lists of their values, a count that is not negative.
THEOREM TypeCorrect == Spec => []TypeOK
<1>1. IInv => TypeOK  BY TypedIsTypeOK DEF IInv
<1> QED  BY <1>1, Invariance, PTL

\* OnNotification never follows the NULL entry of a node, whatever the driver
\* does, when the watcher heard everything and the init data came once.
THEOREM NullNeverFollowed == Spec => []NeverFollowsNull
<1>1. IInv => NeverFollowsNull  BY DEF IInv, Follows, Matches, NeverFollowsNull
<1> QED  BY <1>1, Invariance, PTL

\* When nothing is left to be delivered, the entries idealoz keeps are the nodes
\* of the driver, with the same values, and counted right.
THEOREM TableFollowsDriver == Spec => []TableMirrorsDriver
<1>1. IInv => TableMirrorsDriver
  <2> SUFFICES ASSUME IInv, Undisturbed, m_notifications = <<>>
               PROVE  /\ DOMAIN nodes = DOMAIN m_nodes
                      /\ nodecount = Cardinality(DOMAIN nodes)
                      /\ \A n \in DOMAIN nodes :
                           /\ ToSet(nodes[n]) = DOMAIN m_nodes[n]
                           /\ Len(nodes[n]) = Cardinality(DOMAIN m_nodes[n])
    BY DEF TableMirrorsDriver
  <2>1. Typed /\ Matches /\ Leads(Shown, <<>>, Held)  BY DEF IInv, Follows
  <2>2. Shown = Held  BY <2>1, LeadsNowhere
  <2>3. /\ DOMAIN Held = DOMAIN m_nodes
        /\ \A n \in DOMAIN m_nodes : Held[n] = DOMAIN m_nodes[n]
    BY <2>1, HeldIs DEF Typed
  <2>4. /\ DOMAIN nodes = DOMAIN m_nodes
        /\ \A n \in DOMAIN nodes : ToSet(nodes[n]) = DOMAIN m_nodes[n]
    BY <2>2, <2>3, ShownIs
  <2>5. \A n \in DOMAIN nodes : Len(nodes[n]) = Cardinality(ToSet(nodes[n]))
    BY <2>1, LengthOfList DEF Typed, ListsTyped, Matches
  <2> QED  BY <2>1, <2>4, <2>5 DEF Matches
<1> QED  BY <1>1, Invariance, PTL

\* When nothing is left to be delivered, what was last posted for a value is
\* what the driver has read of it last.
THEOREM PostsArePresent == Spec => []PostedIsPresent
<1>1. IInv => PostedIsPresent
  <2> SUFFICES ASSUME IInv, Undisturbed, m_notifications = <<>>,
                      NEW n \in DOMAIN m_nodes, NEW v \in DOMAIN m_nodes[n],
                      m_nodes[n][v] # Unset
               PROVE  posted[<<n, v>>] = m_nodes[n][v]
    BY DEF PostedIsPresent
  <2>1. posted[<<n, v>>] = m_nodes[n][v] \/ Change(n, v) \in ToSet(m_notifications)
    BY DEF IInv, Follows, Posts
  <2>2. ToSet(m_notifications) = {}
    <3>1. ToSet(<<>>) = {}  BY DEF ToSet
    <3> QED  BY <3>1
  <2> QED  BY <2>1, <2>2
<1> QED  BY <1>1, Invariance, PTL
=============================================================================
