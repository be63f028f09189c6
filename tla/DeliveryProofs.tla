--------------------------- MODULE DeliveryProofs ---------------------------
(***************************************************************************)
(* Theorems about Delivery, for any limits, any number of packets, pieces, *)
(* sessions and key exchanges, with and without soft errors.               *)
(***************************************************************************)
EXTENDS Delivery, FiniteSetTheorems, SequenceTheorems, TLAPS

-----------------------------------------------------------------------------
\* A part of a finite set is finite, and no larger.
LEMMA PartFinite ==
    ASSUME NEW S, NEW T, IsFiniteSet(S), T \subseteq S
    PROVE  IsFiniteSet(T) /\ Cardinality(T) <= Cardinality(S) /\ Cardinality(T) \in Nat
<1>1. T \in SUBSET S OBVIOUS
<1>2. IsFiniteSet(T) /\ Cardinality(T) <= Cardinality(S) BY <1>1, FS_Subset
<1> QED BY <1>2, FS_CardinalityType

\* What is not of size zero has an element.
LEMMA NonEmpty ==
    ASSUME NEW S, Cardinality(S) # 0
    PROVE  \E x : x \in S
<1>1. SUFFICES ASSUME S = {} PROVE FALSE OBVIOUS
<1>2. Cardinality(S) = Cardinality({}) BY <1>1
<1> QED BY <1>2, FS_EmptySet

-----------------------------------------------------------------------------
(***************************************************************************)
(* Lines: packets a[x] at places x of P, in the order Before.              *)
(***************************************************************************)
Place == Nat \X Nat

Line(P, a) == P \subseteq Place /\ IsFiniteSet(P) /\ a \in [P -> Packet]

Once(P, a) == \A x, y \in P : x # y /\ a[x].id = a[y].id => a[x].id = PublicKey

Ordered(P, a) == \A x, y \in P : Before(x, y) => MayPrecede(a[x], a[y])

Keys(P, a) == {x \in P : a[x].id = PublicKey}

KeyFirst(P, a, k) ==
    /\ Cardinality(Keys(P, a)) <= k
    /\ Cardinality(Keys(P, a)) = k =>
          \A y \in P : a[y].enc => \E x \in Keys(P, a) : Before(x, y)

\* Every place y of the line (Q, b) comes from a place e[y] of (P, a), in order.
Thins(P, a, Q, b, e) ==
    /\ e \in [Q -> P]
    /\ \A y \in Q : b[y] = a[e[y]]
    /\ \A x, y \in Q : Before(x, y) => Before(e[x], e[y])

\* Of two places one is before the other.
LEMMA BeforeTotal ==
    ASSUME NEW x \in Place, NEW y \in Place
    PROVE  /\ x = y \/ Before(x, y) \/ Before(y, x)
           /\ ~(Before(x, y) /\ Before(y, x)) /\ ~Before(x, x)
BY DEF Place, Before

\* A line that loses packets keeps order, uniqueness and the keys' place.
LEMMA ThinKeeps ==
    ASSUME NEW P, NEW a, NEW Q, NEW b, NEW e, NEW k \in Nat,
           Line(P, a), Line(Q, b), Thins(P, a, Q, b, e)
    PROVE  /\ Once(P, a) => Once(Q, b)
           /\ Ordered(P, a) => Ordered(Q, b)
           /\ KeyFirst(P, a, k) => KeyFirst(Q, b, k)
<1>1. ASSUME NEW x \in Q, NEW y \in Q, x # y
      PROVE  e[x] # e[y] /\ e[x] \in P /\ e[y] \in P
  <2>1. x \in Place /\ y \in Place /\ e[x] \in Place /\ e[y] \in Place /\ e[x] \in P /\ e[y] \in P
    BY DEF Line, Thins
  <2>2. Before(x, y) \/ Before(y, x)
    BY <1>1, <2>1, BeforeTotal
  <2>3. Before(e[x], e[y]) \/ Before(e[y], e[x])
    BY <2>2 DEF Thins
  <2> QED BY <2>1, <2>3, BeforeTotal
<1>2. Once(P, a) => Once(Q, b)
  BY <1>1 DEF Once, Thins
<1>3. Ordered(P, a) => Ordered(Q, b)
  BY DEF Ordered, Thins
<1>4. ASSUME KeyFirst(P, a, k)
      PROVE  KeyFirst(Q, b, k)
  <2> DEFINE S == Keys(Q, b)  T == Keys(P, a)  f == [x \in S |-> e[x]]
  <2>1. IsFiniteSet(T)
    <3>1. T \subseteq P BY DEF Keys
    <3>2. IsFiniteSet(P) BY DEF Line
    <3> HIDE DEF T
    <3> QED BY <3>1, <3>2, PartFinite
  <2>2. f \in Injection(S, T)
    <3>1. f \in [S -> T] BY DEF Keys, Thins
    <3>2. \A x, y \in S : f[x] = f[y] => x = y BY <1>1 DEF Keys
    <3> QED BY <3>1, <3>2 DEF Injection, IsInjective
  <2>3. /\ IsFiniteSet(S) /\ Cardinality(S) <= Cardinality(T)
        /\ Cardinality(S) = Cardinality(T) => f \in Surjection(S, T)
    BY <2>1, <2>2, FS_Injection
  <2>4. Cardinality(S) \in Nat /\ Cardinality(T) \in Nat
    BY <2>1, <2>3, FS_CardinalityType
  <2>5. Cardinality(S) <= k
    BY <1>4, <2>3, <2>4 DEF KeyFirst
  <2>6. ASSUME Cardinality(S) = k, NEW y \in Q, b[y].enc
        PROVE  \E x \in S : Before(x, y)
    <3>1. Cardinality(T) = k /\ Cardinality(S) = Cardinality(T)
      BY <1>4, <2>3, <2>4, <2>6 DEF KeyFirst
    <3>2. e[y] \in P /\ a[e[y]].enc
      BY <2>6 DEF Thins
    <3>3. PICK t \in T : Before(t, e[y])
      BY <1>4, <3>1, <3>2 DEF KeyFirst
    <3>4. PICK x \in S : f[x] = t
      BY <2>3, <3>1, <3>3 DEF Surjection
    <3>5. x \in Q /\ e[x] = t /\ x \in Place /\ y \in Place /\ e[x] \in Place /\ e[y] \in Place
      BY <3>2, <3>4 DEF Keys, Line
    <3>6. ~Before(y, x)
      <4>1. SUFFICES ASSUME Before(y, x) PROVE FALSE OBVIOUS
      <4>2. Before(e[y], e[x]) BY <3>5, <4>1 DEF Thins
      <4> QED BY <3>3, <3>5, <4>2, BeforeTotal
    <3>7. y # x
      BY <3>3, <3>5, BeforeTotal
    <3> QED BY <3>4, <3>5, <3>6, <3>7, BeforeTotal
  <2> QED BY <2>5, <2>6 DEF KeyFirst
<1> QED BY <1>2, <1>3, <1>4

-----------------------------------------------------------------------------
\* The line (P, a) with the packets s after its end, at places <<4, i>>.
Longer(P, s) == P \cup ({4} \X (1..Len(s)))
LongerAt(P, a, s) == [x \in Longer(P, s) |-> IF x \in P THEN a[x] ELSE s[x[2]]]

\* The places of a line, before any new packet.
Near(P) == \A x \in P : x[1] \in 1..3

\* It is a line.
LEMMA LongerLine ==
    ASSUME NEW P, NEW a, NEW s \in Seq(Packet), Line(P, a), Near(P)
    PROVE  /\ Line(Longer(P, s), LongerAt(P, a, s))
           /\ \A x \in P : LongerAt(P, a, s)[x] = a[x]
           /\ \A i \in 1..Len(s) : LongerAt(P, a, s)[<<4, i>>] = s[i] /\ <<4, i>> \notin P
           /\ \A x \in P, i \in 1..Len(s) : Before(x, <<4, i>>) /\ ~Before(<<4, i>>, x)
<1> DEFINE New == {4} \X (1..Len(s))
<1>1. Len(s) \in Nat OBVIOUS
<1>2. IsFiniteSet(New)
  <2> DEFINE A == {4}  B == 1..Len(s)
  <2>1. IsFiniteSet(A) BY FS_Singleton
  <2>2. IsFiniteSet(B) BY <1>1, FS_Interval
  <2> HIDE DEF A, B
  <2>3. IsFiniteSet(A \X B) BY <2>1, <2>2, FS_Product
  <2> QED BY <2>3 DEF A, B
<1>3. IsFiniteSet(Longer(P, s))
  BY <1>2, FS_Union DEF Longer, Line
<1>4. \A x \in P : x[1] \in 1..3 /\ x \in Nat \X Nat
  BY DEF Near, Line, Place
<1>5. \A i \in 1..Len(s) : <<4, i>> \notin P
  BY <1>4
<1>6. Longer(P, s) \subseteq Place
  BY <1>1 DEF Longer, Line, Place
<1>7. LongerAt(P, a, s) \in [Longer(P, s) -> Packet]
  BY <1>1 DEF LongerAt, Longer, Line
<1>8. \A i \in 1..Len(s) : LongerAt(P, a, s)[<<4, i>>] = s[i]
  BY <1>5 DEF LongerAt, Longer
<1>9. \A x \in P : LongerAt(P, a, s)[x] = a[x]
  BY DEF LongerAt, Longer
<1>10. \A x \in P, i \in 1..Len(s) : Before(x, <<4, i>>) /\ ~Before(<<4, i>>, x)
  BY <1>4 DEF Before
<1> QED BY <1>3, <1>5, <1>6, <1>7, <1>8, <1>9, <1>10 DEF Line

\* New packets that are new keep every packet unique.
LEMMA LongerOnce ==
    ASSUME NEW P, NEW a, NEW s \in Seq(Packet), Line(P, a), Near(P), Once(P, a),
           \A i, j \in 1..Len(s) : i # j /\ s[i].id = s[j].id => s[i].id = PublicKey,
           \A i \in 1..Len(s), x \in P : a[x].id = s[i].id => s[i].id = PublicKey
    PROVE  Once(Longer(P, s), LongerAt(P, a, s))
<1> DEFINE L == Longer(P, s)  b == LongerAt(P, a, s)
<1>1. \A x \in L : x \in P \/ \E i \in 1..Len(s) : x = <<4, i>>
  BY DEF Longer
<1>2. /\ \A x \in P : b[x] = a[x]
      /\ \A i \in 1..Len(s) : b[<<4, i>>] = s[i]
  BY LongerLine
<1> HIDE DEF L, b
<1>3. ASSUME NEW x \in L, NEW y \in L, x # y, b[x].id = b[y].id
      PROVE  b[x].id = PublicKey
  <2>1. CASE x \in P /\ y \in P
    BY <1>2, <1>3, <2>1 DEF Once
  <2>2. ASSUME x \in P, NEW i \in 1..Len(s), y = <<4, i>>
        PROVE  b[x].id = PublicKey
    BY <1>2, <1>3, <2>2
  <2>3. ASSUME NEW i \in 1..Len(s), x = <<4, i>>, y \in P
        PROVE  b[x].id = PublicKey
    BY <1>2, <1>3, <2>3
  <2>4. ASSUME NEW i \in 1..Len(s), x = <<4, i>>, NEW j \in 1..Len(s), y = <<4, j>>
        PROVE  b[x].id = PublicKey
    <3>1. i # j /\ b[x] = s[i] /\ b[y] = s[j] BY <1>2, <1>3, <2>4
    <3> QED BY <1>3, <3>1
  <2> QED BY <1>1, <2>1, <2>2, <2>3, <2>4
<1> QED BY <1>3 DEF Once, L, b

\* New packets that are in order, and may follow all there is, keep the order.
LEMMA LongerOrdered ==
    ASSUME NEW P, NEW a, NEW s \in Seq(Packet), Line(P, a), Near(P), Ordered(P, a),
           \A i, j \in 1..Len(s) : i < j => MayPrecede(s[i], s[j]),
           \A i \in 1..Len(s), x \in P : MayPrecede(a[x], s[i])
    PROVE  Ordered(Longer(P, s), LongerAt(P, a, s))
<1> DEFINE L == Longer(P, s)  b == LongerAt(P, a, s)
<1>1. \A x \in L : x \in P \/ \E i \in 1..Len(s) : x = <<4, i>>
  BY DEF Longer
<1>2. /\ \A x \in P : b[x] = a[x]
      /\ \A i \in 1..Len(s) : b[<<4, i>>] = s[i]
  BY LongerLine
<1> HIDE DEF L, b
<1>3. ASSUME NEW x \in L, NEW y \in L, Before(x, y)
      PROVE  MayPrecede(b[x], b[y])
  <2>1. CASE x \in P /\ y \in P
    BY <1>2, <1>3, <2>1 DEF Ordered
  <2>2. ASSUME x \in P, NEW i \in 1..Len(s), y = <<4, i>>
        PROVE  MayPrecede(b[x], b[y])
    BY <1>2, <1>3, <2>2
  <2>3. ASSUME NEW i \in 1..Len(s), x = <<4, i>>, y \in P
        PROVE  FALSE
    <3>1. y[1] \in 1..3 BY <2>3 DEF Near
    <3>2. x[1] = 4 BY <2>3
    <3>3. x[1] < y[1] \/ x[1] = y[1] BY <1>3 DEF Before
    <3> QED BY <3>1, <3>2, <3>3
  <2>4. ASSUME NEW i \in 1..Len(s), x = <<4, i>>, NEW j \in 1..Len(s), y = <<4, j>>
        PROVE  MayPrecede(b[x], b[y])
    <3>1. b[x] = s[i] /\ b[y] = s[j] BY <1>2, <2>4
    <3>2. i < j BY <1>3, <2>4 DEF Before
    <3> QED BY <1>3, <3>1, <3>2
  <2> QED BY <1>1, <2>1, <2>2, <2>3, <2>4
<1> QED BY <1>3 DEF Ordered, L, b

\* New packets that are no keys, encrypted only if a key was sent.
LEMMA LongerNoKey ==
    ASSUME NEW P, NEW a, NEW s \in Seq(Packet), NEW k \in Nat,
           Line(P, a), Near(P), KeyFirst(P, a, k),
           \A i \in 1..Len(s) : s[i].id # PublicKey /\ (s[i].enc => k > 0)
    PROVE  KeyFirst(Longer(P, s), LongerAt(P, a, s), k)
<1> DEFINE L == Longer(P, s)  b == LongerAt(P, a, s)
<1>1. \A x \in L : x \in P \/ \E i \in 1..Len(s) : x = <<4, i>>
  BY DEF Longer
<1>2. /\ \A x \in P : b[x] = a[x]
      /\ \A i \in 1..Len(s) : b[<<4, i>>] = s[i]
      /\ \A x \in P, i \in 1..Len(s) : Before(x, <<4, i>>)
  BY LongerLine
<1>3. P \subseteq L BY DEF Longer
<1> HIDE DEF L, b
<1>4. Keys(L, b) = Keys(P, a)
  BY <1>1, <1>2, <1>3 DEF Keys
<1>5. ASSUME Cardinality(Keys(P, a)) = k, NEW y \in L, b[y].enc
      PROVE  \E x \in Keys(P, a) : Before(x, y)
  <2>1. CASE y \in P
    BY <1>2, <1>5, <2>1 DEF KeyFirst
  <2>2. ASSUME NEW i \in 1..Len(s), y = <<4, i>>
        PROVE  \E x \in Keys(P, a) : Before(x, y)
    <3>1. k > 0 BY <1>2, <1>5, <2>2
    <3>3. PICK x : x \in Keys(P, a) BY <1>5, <3>1, NonEmpty
    <3> QED BY <1>2, <2>2, <3>3 DEF Keys
  <2> QED BY <1>1, <2>1, <2>2
<1> QED BY <1>4, <1>5 DEF KeyFirst, L, b

\* A new key, and packets after it.
LEMMA LongerKey ==
    ASSUME NEW P, NEW a, NEW s \in Seq(Packet), NEW k \in Nat,
           Line(P, a), Near(P), KeyFirst(P, a, k),
           Len(s) >= 1, s[1].id = PublicKey, ~s[1].enc,
           \A i \in 1..Len(s) : i # 1 => s[i].id # PublicKey
    PROVE  KeyFirst(Longer(P, s), LongerAt(P, a, s), k + 1)
<1> DEFINE L == Longer(P, s)  b == LongerAt(P, a, s)
<1>0. Len(s) \in Nat /\ 1 \in 1..Len(s) OBVIOUS
<1>1. \A x \in L : x \in P \/ \E i \in 1..Len(s) : x = <<4, i>>
  BY DEF Longer
<1>2. /\ \A x \in P : b[x] = a[x]
      /\ \A i \in 1..Len(s) : b[<<4, i>>] = s[i] /\ <<4, i>> \notin P
      /\ \A x \in P, i \in 1..Len(s) : Before(x, <<4, i>>)
  BY LongerLine
<1>3. P \subseteq L /\ <<4, 1>> \in L BY <1>0 DEF Longer
<1> HIDE DEF L, b
<1>4. Keys(L, b) = Keys(P, a) \cup {<<4, 1>>} /\ <<4, 1>> \notin Keys(P, a)
  BY <1>0, <1>1, <1>2, <1>3 DEF Keys
<1>5. IsFiniteSet(Keys(P, a)) /\ Cardinality(Keys(P, a)) \in Nat
  <2>1. Keys(P, a) \subseteq P /\ IsFiniteSet(P) BY DEF Keys, Line
  <2> QED BY <2>1, PartFinite
<1>6. Cardinality(Keys(L, b)) = Cardinality(Keys(P, a)) + 1
  BY <1>4, <1>5, FS_AddElement
<1>7. ASSUME Cardinality(Keys(L, b)) = k + 1, NEW y \in L, b[y].enc
      PROVE  \E x \in Keys(L, b) : Before(x, y)
  <2>1. CASE y \in P
    BY <1>2, <1>4, <1>5, <1>6, <1>7, <2>1 DEF KeyFirst
  <2>2. ASSUME NEW i \in 1..Len(s), y = <<4, i>>
        PROVE  \E x \in Keys(L, b) : Before(x, y)
    <3>1. i # 1 BY <1>2, <1>7, <2>2
    <3>2. Before(<<4, 1>>, y) BY <1>0, <2>2, <3>1 DEF Before
    <3> QED BY <1>4, <3>2
  <2> QED BY <1>1, <2>1, <2>2
<1> QED BY <1>5, <1>6, <1>7 DEF KeyFirst, L, b

-----------------------------------------------------------------------------
(***************************************************************************)
(* The queues.                                                             *)
(***************************************************************************)
IsRead(h) == h = <<"task", "read">> \/ h[1] = "received"

\* A queue of handlers within the limit of tasks.
Bounded(r) == r \in Seq(Handler) /\ PendingTasks(r) <= MaxTasks

\* Something in the queue r looks, or leads to a look, at write_queue.
Serves(r) ==
    \E i \in 1..Len(r) : r[i] = <<"task", "write">> \/ r[i][1] \in {"written", "failed"}

Alone(r) == \A i, j \in 1..Len(r) : IsRead(r[i]) /\ IsRead(r[j]) => i = j
NoRead(r) == \A i \in 1..Len(r) : ~IsRead(r[i])

\* One sequence after another.
LEMMA Joined ==
    ASSUME NEW S, NEW s \in Seq(S), NEW t \in Seq(S)
    PROVE  /\ s \o t \in Seq(S) /\ Len(s \o t) = Len(s) + Len(t) /\ Len(s) \in Nat /\ Len(t) \in Nat
           /\ \A i \in 1..Len(s) : (s \o t)[i] = s[i]
           /\ \A i \in (Len(s) + 1)..(Len(s) + Len(t)) : (s \o t)[i] = t[i - Len(s)]
<1>1. /\ s \o t \in Seq(S) /\ Len(s \o t) = Len(s) + Len(t) /\ Len(s) \in Nat /\ Len(t) \in Nat
      /\ \A i \in 1..(Len(s) + Len(t)) : (s \o t)[i] = IF i <= Len(s) THEN s[i] ELSE t[i - Len(s)]
  BY ConcatProperties
<1>2. ASSUME NEW i \in 1..Len(s) PROVE (s \o t)[i] = s[i]
  BY <1>1
<1>3. ASSUME NEW i \in (Len(s) + 1)..(Len(s) + Len(t)) PROVE (s \o t)[i] = t[i - Len(s)]
  BY <1>1
<1> QED BY <1>1, <1>2, <1>3

\* The tasks can be counted.
LEMMA TasksFinite ==
    ASSUME NEW r \in Seq(Handler)
    PROVE  /\ IsFiniteSet({i \in 1..Len(r) : IsTask(r[i])})
           /\ PendingTasks(r) \in Nat
<1> DEFINE T == {i \in 1..Len(r) : IsTask(r[i])}
<1>1. Len(r) \in Nat OBVIOUS
<1>2. IsFiniteSet(1..Len(r)) BY <1>1, FS_Interval
<1>3. T \subseteq 1..Len(r) OBVIOUS
<1> HIDE DEF T
<1>4. IsFiniteSet(T) /\ Cardinality(T) \in Nat BY <1>2, <1>3, PartFinite
<1> QED BY <1>4 DEF T, PendingTasks

\* A queue whose tasks come from places of another has no more of them.
LEMMA FewerTasks ==
    ASSUME NEW r \in Seq(Handler), NEW q \in Seq(Handler), NEW e,
           \A i \in 1..Len(q) : IsTask(q[i]) => e[i] \in 1..Len(r) /\ IsTask(r[e[i]]),
           \A i, j \in 1..Len(q) : IsTask(q[i]) /\ IsTask(q[j]) /\ e[i] = e[j] => i = j
    PROVE  PendingTasks(q) <= PendingTasks(r)
<1> DEFINE S == {i \in 1..Len(q) : IsTask(q[i])}
           T == {i \in 1..Len(r) : IsTask(r[i])}
           f == [i \in S |-> e[i]]
<1>1. f \in [S -> T] /\ \A i, j \in S : f[i] = f[j] => i = j
  OBVIOUS
<1>2. IsFiniteSet(T) BY TasksFinite
<1> HIDE DEF S, T, f
<1>3. f \in Injection(S, T)
  BY <1>1 DEF Injection, IsInjective
<1>4. Cardinality(S) <= Cardinality(T)
  BY <1>2, <1>3, FS_Injection
<1> QED BY <1>4 DEF PendingTasks, S, T

\* The rest of a queue.
LEMMA TailBounded ==
    ASSUME NEW r, Bounded(r), r # <<>>
    PROVE  /\ Bounded(Tail(r)) /\ Head(r) \in Handler /\ Head(r) = r[1]
           /\ Len(Tail(r)) = Len(r) - 1 /\ Len(r) \in Nat \ {0}
           /\ \A i \in 1..Len(Tail(r)) : Tail(r)[i] = r[i + 1]
<1>1. r \in Seq(Handler) /\ PendingTasks(r) \in Nat
  BY TasksFinite DEF Bounded
<1>2. /\ Tail(r) \in Seq(Handler) /\ Head(r) \in Handler /\ Head(r) = r[1]
      /\ Len(Tail(r)) = Len(r) - 1 /\ Len(r) \in Nat \ {0}
      /\ \A i \in 1..Len(Tail(r)) : Tail(r)[i] = r[i + 1]
  BY <1>1
<1>3. PendingTasks(Tail(r)) <= PendingTasks(r)
  <2> DEFINE e == [i \in 1..Len(Tail(r)) |-> i + 1]
  <2>1. \A i \in 1..Len(Tail(r)) : e[i] = i + 1 /\ e[i] \in 1..Len(r) /\ Tail(r)[i] = r[e[i]]
    BY <1>2
  <2>2. \A i, j \in 1..Len(Tail(r)) : e[i] = e[j] => i = j
    BY <1>2
  <2> HIDE DEF e
  <2>3. \A i \in 1..Len(Tail(r)) : IsTask(Tail(r)[i]) => e[i] \in 1..Len(r) /\ IsTask(r[e[i]])
    BY <2>1
  <2>4. Tail(r) \in Seq(Handler) BY <1>2
  <2> QED BY <1>1, <2>2, <2>3, <2>4, FewerTasks
<1>4. PendingTasks(Tail(r)) \in Nat BY <1>2, TasksFinite
<1> QED BY <1>1, <1>2, <1>3, <1>4, LimitsAssumption DEF Bounded

\* A handler that is no task.
LEMMA AppendBounded ==
    ASSUME NEW r, Bounded(r), NEW h \in Handler, ~IsTask(h)
    PROVE  /\ Bounded(Append(r, h)) /\ Len(Append(r, h)) = Len(r) + 1 /\ Len(r) \in Nat
           /\ Append(r, h)[Len(r) + 1] = h
           /\ \A i \in 1..Len(r) : Append(r, h)[i] = r[i]
<1> DEFINE q == Append(r, h)
<1>1. r \in Seq(Handler) /\ PendingTasks(r) \in Nat
  BY TasksFinite DEF Bounded
<1>2. /\ q \in Seq(Handler) /\ Len(q) = Len(r) + 1 /\ Len(r) \in Nat
      /\ q[Len(r) + 1] = h
      /\ \A i \in 1..Len(r) : q[i] = r[i]
  BY <1>1
<1> HIDE DEF q
<1>3. PendingTasks(q) <= PendingTasks(r)
  <2> DEFINE e == [i \in 1..Len(q) |-> i]
  <2>1. \A i \in 1..Len(q) : e[i] = i OBVIOUS
  <2>2. ASSUME NEW i \in 1..Len(q), IsTask(q[i])
        PROVE  e[i] \in 1..Len(r) /\ IsTask(r[e[i]])
    <3>1. i # Len(r) + 1 BY <1>2, <2>2
    <3>2. i \in 1..Len(r) BY <1>2, <3>1
    <3> QED BY <1>2, <2>1, <2>2, <3>2
  <2>3. \A i, j \in 1..Len(q) : e[i] = e[j] => i = j BY <2>1
  <2> HIDE DEF e
  <2> QED BY <1>1, <1>2, <2>2, <2>3, FewerTasks
<1>4. PendingTasks(q) \in Nat BY <1>2, TasksFinite
<1>5. Bounded(q) BY <1>1, <1>2, <1>3, <1>4, LimitsAssumption DEF Bounded
<1> QED BY <1>2, <1>5 DEF q

\* PostTask adds tasks at the end: as many as fit, and one at least unless the limit
\* is reached.
LEMMA Posts ==
    ASSUME NEW r, Bounded(r), NEW kind \in {"write", "read"}, NEW n \in Nat
    PROVE  LET p == PostTask(r, kind, n)
           IN  /\ Bounded(p) /\ Len(r) \in Nat
               /\ Len(p) \in Len(r)..(Len(r) + n)
               /\ \A i \in 1..Len(r) : p[i] = r[i]
               /\ \A i \in (Len(r) + 1)..Len(p) : p[i] = <<"task", kind>>
               /\ n >= 1 => Len(p) > Len(r) \/ PendingTasks(r) = MaxTasks
<1> DEFINE free == MaxTasks - PendingTasks(r)
           m == IF n <= free THEN n ELSE free
           new == [i \in 1..m |-> <<"task", kind>>]
           p == PostTask(r, kind, n)
<1>1. r \in Seq(Handler) /\ PendingTasks(r) \in Nat /\ PendingTasks(r) <= MaxTasks /\ MaxTasks \in Nat
  BY TasksFinite, LimitsAssumption DEF Bounded
<1>2. m \in Nat /\ m <= n /\ m <= free /\ (n >= 1 => m >= 1 \/ PendingTasks(r) = MaxTasks)
  BY <1>1
<1>3. <<"task", kind>> \in Handler
  BY DEF Handler
<1>4. p = r \o new
  BY DEF PostTask
<1> HIDE DEF m, free
<1>5. new \in Seq(Handler) /\ Len(new) = m /\ \A i \in 1..m : new[i] = <<"task", kind>>
  BY <1>2, <1>3
<1> HIDE DEF new, p
<1>6. /\ p \in Seq(Handler) /\ Len(p) = Len(r) + m /\ Len(r) \in Nat
      /\ \A i \in 1..Len(r) : p[i] = r[i]
      /\ \A i \in (Len(r) + 1)..Len(p) : p[i] = new[i - Len(r)]
  <2>1. r \in Seq(Handler) /\ new \in Seq(Handler) BY <1>1, <1>5
  <2>2. /\ p \in Seq(Handler) /\ Len(p) = Len(r) + Len(new) /\ Len(r) \in Nat
        /\ \A i \in 1..Len(r) : p[i] = r[i]
        /\ \A i \in (Len(r) + 1)..(Len(r) + Len(new)) : p[i] = new[i - Len(r)]
    BY <1>4, <2>1, Joined
  <2>3. Len(p) = Len(r) + m BY <1>5, <2>2
  <2> QED BY <2>2, <2>3
<1>7. \A i \in (Len(r) + 1)..Len(p) : p[i] = <<"task", kind>>
  BY <1>2, <1>5, <1>6
<1>8. PendingTasks(p) <= MaxTasks
  <2> DEFINE S == {i \in 1..Len(r) : IsTask(r[i])}
             T == (Len(r) + 1)..Len(p)
             U == {i \in 1..Len(p) : IsTask(p[i])}
  <2>1. U \subseteq S \cup T
    BY <1>2, <1>6
  <2>2. IsFiniteSet(S) /\ Cardinality(S) = PendingTasks(r)
    BY <1>1, TasksFinite DEF PendingTasks
  <2>3. IsFiniteSet(T) /\ Cardinality(T) = m
    BY <1>2, <1>6, FS_Interval
  <2> HIDE DEF S, T
  <2>4. /\ IsFiniteSet(S \cup T)
        /\ Cardinality(S \cup T) = Cardinality(S) + Cardinality(T) - Cardinality(S \cap T)
    BY <2>2, <2>3, FS_Union
  <2>5. Cardinality(S \cap T) \in Nat
    <3>1. S \cap T \subseteq S OBVIOUS
    <3> QED BY <2>2, <3>1, PartFinite
  <2>6. Cardinality(S \cup T) \in Nat BY <2>4, FS_CardinalityType
  <2>7. Cardinality(S \cup T) <= MaxTasks
    BY <1>1, <1>2, <2>2, <2>3, <2>4, <2>5 DEF free
  <2>8. Cardinality(U) <= Cardinality(S \cup T) /\ Cardinality(U) \in Nat
    <3> HIDE DEF U
    <3> QED BY <2>1, <2>4, PartFinite
  <2>9. Cardinality(U) <= MaxTasks
    BY <1>1, <2>6, <2>7, <2>8
  <2> QED BY <2>9 DEF PendingTasks
<1>9. Len(p) \in Len(r)..(Len(r) + n) /\ (n >= 1 => Len(p) > Len(r) \/ PendingTasks(r) = MaxTasks)
  BY <1>1, <1>2, <1>6
<1> QED BY <1>6, <1>7, <1>8, <1>9 DEF Bounded, p

\* When no more tasks fit, one of them is a write, because at most one is a read.
LEMMA FullServes ==
    ASSUME NEW r, Bounded(r), Alone(r), PendingTasks(r) = MaxTasks
    PROVE  Serves(r)
<1> DEFINE T == {i \in 1..Len(r) : IsTask(r[i])}
<1>1. r \in Seq(Handler) /\ IsFiniteSet(T) /\ Cardinality(T) \in Nat /\ Cardinality(T) >= 2
  BY TasksFinite, LimitsAssumption DEF Bounded, PendingTasks
<1>2. PICK i : i \in T
  <2> HIDE DEF T
  <2> QED BY <1>1, NonEmpty
<1>3. Cardinality(T \ {i}) = Cardinality(T) - 1
  <2> HIDE DEF T
  <2> QED BY <1>1, <1>2, FS_RemoveElement
<1>4. PICK j : j \in T \ {i}
  <2> HIDE DEF T
  <2>1. Cardinality(T \ {i}) # 0 BY <1>1, <1>3
  <2> QED BY <2>1, NonEmpty
<1>5. \A k \in T : r[k] = <<"task", "write">> \/ r[k] = <<"task", "read">>
  BY <1>1 DEF Handler, IsTask
<1>6. r[i] = <<"task", "write">> \/ r[j] = <<"task", "write">>
  BY <1>2, <1>4, <1>5 DEF Alone, IsRead
<1> QED BY <1>2, <1>4, <1>6 DEF Serves

\* The last elements of a sequence.
LEMMA LastOfFacts ==
    ASSUME NEW S, NEW s \in Seq(S), NEW n \in Nat
    PROVE  /\ LastOf(s, n) \in Seq(S) /\ Len(LastOf(s, n)) <= n /\ Len(LastOf(s, n)) \in Nat
           /\ Len(s) - Len(LastOf(s, n)) \in Nat
           /\ \A i \in 1..Len(LastOf(s, n)) : LastOf(s, n)[i] = s[i + (Len(s) - Len(LastOf(s, n)))]
<1>1. CASE Len(s) <= n
  BY <1>1 DEF LastOf
<1>2. CASE Len(s) > n
  <2>1. LastOf(s, n) = SubSeq(s, Len(s) - n + 1, Len(s)) BY <1>2 DEF LastOf
  <2>2. /\ SubSeq(s, Len(s) - n + 1, Len(s)) \in Seq(S)
        /\ Len(SubSeq(s, Len(s) - n + 1, Len(s))) = n
        /\ \A i \in 1..n : SubSeq(s, Len(s) - n + 1, Len(s))[i] = s[Len(s) - n + i]
    BY <1>2
  <2> QED BY <1>2, <2>1, <2>2
<1> QED BY <1>1, <1>2

-----------------------------------------------------------------------------
(***************************************************************************)
(* The queue of handlers.                                                  *)
(***************************************************************************)
KeyRoom(r, k) == \A i \in 1..Len(r) : r[i] = <<"received", "key_exchange">> => k < MaxKeys
NoWritten(r) == \A i \in 1..Len(r) : r[i][1] # "written"

\* There is one read loop, in a session only; it may answer a key exchange while
\* there is room for one; and no write outlives a session.
OneReader ==
    /\ Alone(ready) /\ KeyRoom(ready, keys)
    /\ reading \/ ~connected => NoRead(ready)
    /\ reading => connected
    /\ ~connected => /\ wire = <<>> /\ pending = <<>> /\ write_queue = <<>> /\ NoWritten(ready)
                      /\ keys = 0 /\ ~is_encrypted

Traffic == TypeOK /\ OneReader /\ QueueServed

\* The queue r is q with handlers of no reads after it.
Adds(q, r) ==
    /\ Bounded(q) /\ Bounded(r) /\ Len(q) <= Len(r)
    /\ \A i \in 1..Len(q) : r[i] = q[i]
    /\ \A i \in (Len(q) + 1)..Len(r) : ~IsRead(r[i])

\* What is not a read does not disturb the reads, and serves whom it served.
LEMMA AddsKeep ==
    ASSUME NEW q, NEW r, NEW k, Adds(q, r)
    PROVE  /\ Alone(q) => Alone(r)
           /\ NoRead(q) => NoRead(r)
           /\ KeyRoom(q, k) => KeyRoom(r, k)
           /\ Serves(q) => Serves(r)
<1>1. Len(q) \in Nat /\ Len(r) \in Nat /\ Len(q) <= Len(r)
  BY DEF Adds, Bounded
<1>2. \A i \in 1..Len(r) : IsRead(r[i]) => i \in 1..Len(q) /\ r[i] = q[i]
  BY <1>1 DEF Adds
<1>3. \A i \in 1..Len(q) : i \in 1..Len(r) /\ r[i] = q[i]
  BY <1>1 DEF Adds
<1>4. Alone(q) => Alone(r) BY <1>2 DEF Alone
<1>5. NoRead(q) => NoRead(r) BY <1>2 DEF NoRead
<1>6. KeyRoom(q, k) => KeyRoom(r, k)
  <2>1. \A i \in 1..Len(r) : r[i] = <<"received", "key_exchange">> => IsRead(r[i]) BY DEF IsRead
  <2> QED BY <1>2, <2>1 DEF KeyRoom
<1>7. Serves(q) => Serves(r) BY <1>3 DEF Serves
<1> QED BY <1>4, <1>5, <1>6, <1>7

\* What is left when the first handler has run.
LEMMA TailKeeps ==
    ASSUME NEW r, NEW k, Bounded(r), r # <<>>
    PROVE  /\ Alone(r) => Alone(Tail(r))
           /\ Alone(r) /\ IsRead(Head(r)) => NoRead(Tail(r))
           /\ NoRead(r) => NoRead(Tail(r)) /\ ~IsRead(Head(r))
           /\ KeyRoom(r, k) => KeyRoom(Tail(r), k)
           /\ NoWritten(r) => NoWritten(Tail(r)) /\ Head(r)[1] # "written"
           /\ IsRead(Head(r)) /\ Serves(r) => Serves(Tail(r))
<1>1. /\ Head(r) = r[1] /\ Len(Tail(r)) = Len(r) - 1 /\ Len(r) \in Nat \ {0}
      /\ \A i \in 1..Len(Tail(r)) : Tail(r)[i] = r[i + 1]
  BY TailBounded
<1>2. \A i \in 1..Len(Tail(r)) : i + 1 \in 1..Len(r) /\ Tail(r)[i] = r[i + 1]
  BY <1>1
<1>3. Alone(r) => Alone(Tail(r))
  <2> SUFFICES ASSUME Alone(r), NEW i \in 1..Len(Tail(r)), NEW j \in 1..Len(Tail(r)),
                      IsRead(Tail(r)[i]), IsRead(Tail(r)[j])
               PROVE  i = j
    BY DEF Alone
  <2>1. i + 1 = j + 1 BY <1>2 DEF Alone
  <2> QED BY <1>1, <2>1
<1>4. Alone(r) /\ IsRead(Head(r)) => NoRead(Tail(r))
  <2> SUFFICES ASSUME Alone(r), IsRead(Head(r)), NEW i \in 1..Len(Tail(r)), IsRead(Tail(r)[i])
               PROVE  FALSE
    BY DEF NoRead
  <2>1. i + 1 = 1 BY <1>1, <1>2 DEF Alone
  <2> QED BY <1>1, <2>1
<1>5. NoRead(r) => NoRead(Tail(r)) /\ ~IsRead(Head(r))
  BY <1>1, <1>2 DEF NoRead
<1>6. KeyRoom(r, k) => KeyRoom(Tail(r), k)
  BY <1>2 DEF KeyRoom
<1>7. NoWritten(r) => NoWritten(Tail(r)) /\ Head(r)[1] # "written"
  BY <1>1, <1>2 DEF NoWritten
<1>8. IsRead(Head(r)) /\ Serves(r) => Serves(Tail(r))
  <2> SUFFICES ASSUME IsRead(Head(r)), NEW i \in 1..Len(r),
                      r[i] = <<"task", "write">> \/ r[i][1] \in {"written", "failed"}
               PROVE  Serves(Tail(r))
    BY DEF Serves
  <2>1. i # 1 BY <1>1 DEF IsRead
  <2>2. i - 1 \in 1..Len(Tail(r)) /\ Tail(r)[i - 1] = r[i] BY <1>1, <2>1
  <2> QED BY <2>2 DEF Serves
<1> QED BY <1>3, <1>4, <1>5, <1>6, <1>7, <1>8

\* A posted write is no read, and the queue is served afterwards.
LEMMA PostWrite ==
    ASSUME NEW q, Bounded(q), NEW n \in Nat, NEW r, r = PostTask(q, "write", n)
    PROVE  /\ Adds(q, r)
           /\ NoWritten(q) => NoWritten(r)
           /\ n >= 1 /\ Alone(q) => Serves(r)
<1>1. /\ Bounded(r) /\ Len(q) \in Nat /\ Len(r) \in Len(q)..(Len(q) + n)
      /\ \A i \in 1..Len(q) : r[i] = q[i]
      /\ \A i \in (Len(q) + 1)..Len(r) : r[i] = <<"task", "write">>
      /\ n >= 1 => Len(r) > Len(q) \/ PendingTasks(q) = MaxTasks
  BY Posts
<1>2. Adds(q, r)
  BY <1>1 DEF Adds, IsRead
<1>3. NoWritten(q) => NoWritten(r)
  BY <1>1 DEF NoWritten
<1>4. ASSUME n >= 1, Alone(q) PROVE Serves(r)
  <2>1. CASE PendingTasks(q) = MaxTasks
    BY <1>2, <1>4, <2>1, FullServes, AddsKeep
  <2>2. CASE Len(r) > Len(q)
    <3>1. Len(q) + 1 \in 1..Len(r) /\ r[Len(q) + 1] = <<"task", "write">> BY <1>1, <2>2
    <3> QED BY <3>1 DEF Serves
  <2> QED BY <1>1, <1>4, <2>1, <2>2
<1> QED BY <1>2, <1>3, <1>4

\* A posted read is the only one if there was none.
LEMMA PostRead ==
    ASSUME NEW q, Bounded(q), NoRead(q), NEW r, r = PostTask(q, "read", 1), NEW k
    PROVE  /\ Bounded(r) /\ Alone(r) /\ KeyRoom(r, k)
           /\ Serves(q) => Serves(r)
<1>0. PICK n \in Nat : n = 1 OBVIOUS
<1>1. /\ Bounded(r) /\ Len(q) \in Nat /\ Len(r) \in Len(q)..(Len(q) + n)
      /\ \A i \in 1..Len(q) : r[i] = q[i]
      /\ \A i \in (Len(q) + 1)..Len(r) : r[i] = <<"task", "read">>
  <2>1. "read" \in {"write", "read"} /\ r = PostTask(q, "read", n) BY <1>0
  <2> QED BY <2>1, Posts
<1>2. \A i \in 1..Len(r) : i \in 1..Len(q) \/ i = Len(q) + 1
  BY <1>0, <1>1
<1>3. Alone(r) BY <1>1, <1>2 DEF NoRead, Alone
<1>4. KeyRoom(r, k)
  <2> SUFFICES ASSUME NEW i \in 1..Len(r), r[i] = <<"received", "key_exchange">> PROVE FALSE
    BY DEF KeyRoom
  <2>1. IsRead(r[i]) /\ r[i] # <<"task", "read">> BY DEF IsRead
  <2> QED BY <1>1, <1>2, <2>1 DEF NoRead
<1>5. Serves(q) => Serves(r)
  <2>1. \A i \in 1..Len(q) : i \in 1..Len(r) /\ r[i] = q[i] BY <1>1
  <2> QED BY <2>1 DEF Serves
<1> QED BY <1>1, <1>3, <1>4, <1>5

Piece == [pkt : Packet, part : 1..Parts]

\* k pieces of w on the wire, and the handler that follows.
LEMMA PiecesType ==
    ASSUME wire \in Seq(Piece), NEW w \in Write, NEW k \in 1..(Parts - w.done)
    PROVE  /\ wire \o [i \in 1..k |-> [pkt |-> w.pkt, part |-> w.done + i]] \in Seq(Piece)
           /\ [w EXCEPT !.done = @ + k] \in Write
           /\ <<"written", [w EXCEPT !.done = @ + k]>> \in Handler
           /\ w.pkt \in Packet /\ w.done \in 0..Parts
<1>1. w.pkt \in Packet /\ w.done \in 0..Parts /\ Parts \in Nat BY LimitsAssumption DEF Write
<1>2. k \in Nat /\ w.done \in Nat /\ w.done + k <= Parts /\ k >= 1 BY <1>1
<1>3. [i \in 1..k |-> [pkt |-> w.pkt, part |-> w.done + i]] \in Seq(Piece)
  <2>1. \A i \in 1..k : w.done + i \in 1..Parts BY <1>1, <1>2
  <2>2. \A i \in 1..k : [pkt |-> w.pkt, part |-> w.done + i] \in Piece BY <1>1, <2>1 DEF Piece
  <2> QED BY <1>2, <2>2
<1>4. [w EXCEPT !.done = @ + k] \in Write
  BY <1>1, <1>2 DEF Write
<1>5. <<"written", [w EXCEPT !.done = @ + k]>> \in Handler
  BY <1>4 DEF Handler
<1> QED BY <1>1, <1>3, <1>4, <1>5, Joined

\* WriteSome leaves something that will look at the queue.
LEMMA WriteSomeServes ==
    ASSUME TypeOK, NEW q, Bounded(q), NEW w \in Write, WriteSome(w, q)
    PROVE  /\ Adds(q, ready')
           /\ wire' \in Seq(Piece) /\ pending' \in Seq(Write)
           /\ pending' # <<>> \/ Serves(ready')
<1>1. wire \in Seq(Piece) /\ pending \in Seq(Write) BY DEF TypeOK, Piece
<1>2. ASSUME NEW k \in 1..(Parts - w.done),
             wire' = wire \o [i \in 1..k |-> [pkt |-> w.pkt, part |-> w.done + i]],
             ready' = Append(q, <<"written", [w EXCEPT !.done = @ + k]>>),
             pending' = pending
      PROVE  /\ Adds(q, ready')
             /\ wire' \in Seq(Piece) /\ pending' \in Seq(Write)
             /\ pending' # <<>> \/ Serves(ready')
  <2> DEFINE h == <<"written", [w EXCEPT !.done = @ + k]>>
  <2>1. wire' \in Seq(Piece) /\ h \in Handler BY <1>1, <1>2, PiecesType
  <2>2. ~IsTask(h) /\ ~IsRead(h) /\ h[1] = "written" BY DEF IsTask, IsRead
  <2>3. ready' = Append(q, h) BY <1>2
  <2> HIDE DEF h
  <2>4. /\ Bounded(ready') /\ Len(ready') = Len(q) + 1 /\ Len(q) \in Nat
        /\ ready'[Len(q) + 1] = h /\ \A i \in 1..Len(q) : ready'[i] = q[i]
    BY <2>1, <2>2, <2>3, AppendBounded
  <2>5. Adds(q, ready') BY <2>2, <2>4 DEF Adds
  <2>6. Serves(ready')
    <3>1. Len(q) + 1 \in 1..Len(ready') BY <2>4
    <3> QED BY <2>2, <2>4, <3>1 DEF Serves
  <2> QED BY <1>1, <1>2, <2>1, <2>5, <2>6
<1>3. ASSUME pending' = Append(pending, w), ready' = q, wire' = wire
      PROVE  /\ Adds(q, ready')
             /\ wire' \in Seq(Piece) /\ pending' \in Seq(Write)
             /\ pending' # <<>> \/ Serves(ready')
  <2>1. Adds(q, ready')
    <3>1. Len(q) \in Nat BY DEF Bounded
    <3> QED BY <1>3, <3>1 DEF Adds
  <2>2. pending' \in Seq(Write) /\ pending' # <<>>
    BY <1>1, <1>3
  <2> QED BY <1>1, <1>3, <2>1, <2>2
<1> QED BY <1>2, <1>3 DEF WriteSome

-----------------------------------------------------------------------------
\* At the beginning nothing is queued.
LEMMA InitTraffic == Init => Traffic
<1> SUFFICES ASSUME Init PROVE Traffic OBVIOUS
<1>1. Bounded(<<>>)
  <2>1. {i \in 1..Len(<<>>) : IsTask(<<>>[i])} = {} OBVIOUS
  <2>2. PendingTasks(<<>>) = 0 BY <2>1, FS_EmptySet DEF PendingTasks
  <2> QED BY <2>2, LimitsAssumption DEF Bounded
<1>2. TypeOK
  <2>1. ready \in Seq(Handler) /\ PendingTasks(ready) <= MaxTasks BY <1>1 DEF Init, Bounded
  <2>2. sessions \in 0..MaxSessions /\ keys \in 0..MaxKeys /\ sent \in 0..MaxSent
    BY LimitsAssumption DEF Init
  <2>3. Len(write_queue) <= MaxQueue /\ Len(unp_packets) <= MaxUnprocessed
    BY LimitsAssumption DEF Init
  <2>4. /\ write_queue \in Seq(Packet) /\ pending \in Seq(Write) /\ unp_packets \in Seq(Entry)
        /\ wire \in Seq([pkt : Packet, part : 1..Parts])
    BY DEF Init
  <2> QED BY <2>1, <2>2, <2>3, <2>4 DEF Init, TypeOK
<1>3. OneReader BY DEF Init, OneReader, Alone, KeyRoom, NoRead, NoWritten
<1>4. QueueServed BY DEF Init, QueueServed
<1> QED BY <1>2, <1>3, <1>4 DEF Traffic

\* The type of the queue, and what the properties say of it.
LEMMA TrafficFacts ==
    ASSUME Traffic
    PROVE  /\ Bounded(ready) /\ wire \in Seq(Piece) /\ pending \in Seq(Write)
           /\ write_queue \in Seq(Packet) /\ unp_packets \in Seq(Entry)
           /\ write_queue # <<>> => pending # <<>> \/ Serves(ready)
           /\ Len(write_queue) <= MaxQueue /\ Len(unp_packets) <= MaxUnprocessed
BY DEF Traffic, TypeOK, Bounded, Piece, QueueServed, Serves

\* The parts from which Traffic is put together again.
LEMMA TrafficAgain ==
    ASSUME Bounded(ready'), wire' \in Seq(Piece), pending' \in Seq(Write),
           write_queue' \in Seq(Packet), Len(write_queue') <= MaxQueue,
           unp_packets' \in Seq(Entry), Len(unp_packets') <= MaxUnprocessed,
           connected' \in BOOLEAN, is_encrypted' \in BOOLEAN, reading' \in BOOLEAN,
           sessions' \in 0..MaxSessions, keys' \in 0..MaxKeys, sent' \in 0..MaxSent,
           past' \subseteq 1..MaxSent, OneReader',
           write_queue' # <<>> => pending' # <<>> \/ Serves(ready')
    PROVE  Traffic'
<1>1. TypeOK' BY DEF TypeOK, Bounded, Piece, PendingTasks, IsTask
<1>2. QueueServed' BY DEF QueueServed, Serves
<1> QED BY <1>1, <1>2 DEF Traffic

-----------------------------------------------------------------------------
(***************************************************************************)
(* The buffer of unprocessed packets.                                      *)
(***************************************************************************)
\* An ascending choice of positions is a sequence of them.
LEMMA AscendingFacts ==
    ASSUME NEW n \in Nat, NEW keep, keep \subseteq 1..n, NEW pos \in Ascending(keep)
    PROVE  /\ Cardinality(keep) \in Nat /\ Cardinality(keep) <= n
           /\ pos \in [1..Cardinality(keep) -> keep] /\ DOMAIN pos = 1..Cardinality(keep)
           /\ \A i, j \in 1..Cardinality(keep) : i < j => pos[i] < pos[j]
<1>1. IsFiniteSet(1..n) /\ Cardinality(1..n) = n BY FS_Interval
<1>2. Cardinality(keep) \in Nat /\ Cardinality(keep) <= n BY <1>1, PartFinite
<1>3. pos \in [1..Cardinality(keep) -> keep] /\ DOMAIN pos = 1..Cardinality(keep)
  BY DEF Ascending
<1>4. \A i, j \in 1..Cardinality(keep) : i < j => pos[i] < pos[j]
  BY <1>3 DEF Ascending
<1> QED BY <1>2, <1>3, <1>4

\* The buffer v holds entries of u, in the same order.
Picked(u, v) ==
    /\ v \in Seq(Entry) /\ Len(v) <= Len(u)
    /\ \E pos \in [1..Len(v) -> 1..Len(u)] :
          /\ \A i, j \in 1..Len(v) : i < j => pos[i] < pos[j]
          /\ \A i \in 1..Len(v) : v[i] = u[pos[i]]

\* A cleanup keeps some entries.
LEMMA CleanedPicked ==
    ASSUME NEW u \in Seq(Entry), NEW v \in CleanedUp(u)
    PROVE  Picked(u, v)
<1>1. CASE v = u
  <2> DEFINE pos == [i \in 1..Len(u) |-> i]
  <2>1. pos \in [1..Len(v) -> 1..Len(u)] BY <1>1
  <2>2. \A i \in 1..Len(v) : pos[i] = i BY <1>1
  <2>3. Len(u) \in Nat OBVIOUS
  <2> HIDE DEF pos
  <2> QED BY <1>1, <2>1, <2>2, <2>3 DEF Picked
<1>2. ASSUME NEW k \in 0..Len(u), v \in Cleanup(u, k)
      PROVE  Picked(u, v)
  <2> DEFINE keep == {i \in (k + 1)..Len(u) : ~u[i].bUsed}
  <2>1. Len(u) \in Nat /\ keep \subseteq 1..Len(u) OBVIOUS
  <2>2. PICK pos \in Ascending(keep) : v = [n \in DOMAIN pos |-> u[pos[n]]]
    BY <1>2 DEF Cleanup
  <2> HIDE DEF keep
  <2> DEFINE c == Cardinality(keep)
  <2>3. /\ c \in Nat /\ c <= Len(u) /\ pos \in [1..c -> keep] /\ DOMAIN pos = 1..c
        /\ \A i, j \in 1..c : i < j => pos[i] < pos[j]
    BY <2>1, AscendingFacts
  <2> HIDE DEF c
  <2>4. v = [n \in 1..c |-> u[pos[n]]] /\ pos \in [1..c -> 1..Len(u)]
    BY <2>1, <2>2, <2>3
  <2>5. \A n \in 1..c : u[pos[n]] \in Entry BY <2>4
  <2>6. v \in Seq(Entry) /\ Len(v) = c BY <2>3, <2>4, <2>5
  <2>7. \A i \in 1..Len(v) : v[i] = u[pos[i]] BY <2>4, <2>6
  <2>8. pos \in [1..Len(v) -> 1..Len(u)] BY <2>4, <2>6
  <2> QED BY <2>3, <2>6, <2>7, <2>8 DEF Picked
<1> QED BY <1>1, <1>2 DEF CleanedUp

\* What unprocessed_process replays: the live entries, in order.
LEMMA ReplayedFacts ==
    ASSUME unp_packets \in Seq(Entry), NEW failed, NEW replay \in Replayed(failed)
    PROVE  /\ replay \in Seq(Packet) /\ Len(replay) \in Nat
           /\ \E pos \in [1..Len(replay) -> Live(failed)] :
                 /\ \A i, j \in 1..Len(replay) : i < j => pos[i] < pos[j]
                 /\ \A i \in 1..Len(replay) : replay[i] = [id |-> unp_packets[pos[i]].id, enc |-> TRUE]
<1> DEFINE keep == Live(failed)
<1>1. Len(unp_packets) \in Nat /\ keep \subseteq 1..Len(unp_packets) BY DEF Live
<1>2. PICK pos \in Ascending(keep) :
        replay = [i \in DOMAIN pos |-> [id |-> unp_packets[pos[i]].id, enc |-> TRUE]]
  BY DEF Replayed
<1> HIDE DEF keep
<1> DEFINE c == Cardinality(keep)
<1>3. /\ c \in Nat /\ pos \in [1..c -> keep] /\ DOMAIN pos = 1..c
      /\ \A i, j \in 1..c : i < j => pos[i] < pos[j]
  BY <1>1, AscendingFacts
<1> HIDE DEF c
<1>4. \A i \in 1..c : [id |-> unp_packets[pos[i]].id, enc |-> TRUE] \in Packet
  <2> SUFFICES ASSUME NEW i \in 1..c PROVE [id |-> unp_packets[pos[i]].id, enc |-> TRUE] \in Packet
    OBVIOUS
  <2>0. pos[i] \in 1..Len(unp_packets) BY <1>1, <1>3
  <2>1. unp_packets[pos[i]] \in Entry BY <2>0
  <2>2. unp_packets[pos[i]].id \in Ids BY <2>1, LimitsAssumption DEF Entry, Ids
  <2> QED BY <2>2 DEF Packet
<1>5. replay \in Seq(Packet) /\ Len(replay) = c
  BY <1>2, <1>3, <1>4
<1>6. \A i \in 1..Len(replay) : replay[i] = [id |-> unp_packets[pos[i]].id, enc |-> TRUE]
  BY <1>2, <1>3, <1>5
<1>7. pos \in [1..Len(replay) -> Live(failed)] BY <1>3, <1>5 DEF keep
<1> QED BY <1>3, <1>5, <1>6, <1>7

\* What is left in the buffer: of each entry whether it still holds its packet.
LEMMA AfterReplayFacts ==
    ASSUME unp_packets \in Seq(Entry), NEW failed
    PROVE  LET u == AfterReplay(failed)
           IN  /\ u \in Seq(Entry) /\ Len(u) = Len(unp_packets)
               /\ \A i \in 1..Len(unp_packets) :
                     /\ u[i].id = unp_packets[i].id
                     /\ ~u[i].empty => ~unp_packets[i].empty /\ i \notin Live(failed)
<1> DEFINE u == AfterReplay(failed)
           new(i) == IF unp_packets[i].empty \/ unp_packets[i].id \in failed
                     THEN unp_packets[i]
                     ELSE [unp_packets[i] EXCEPT !.empty = TRUE, !.bUsed = TRUE]
<1>1. \A i \in 1..Len(unp_packets) : unp_packets[i] \in Entry OBVIOUS
<1>2. ASSUME NEW i \in 1..Len(unp_packets)
      PROVE  /\ new(i) \in Entry /\ new(i).id = unp_packets[i].id
             /\ ~new(i).empty => ~unp_packets[i].empty /\ i \notin Live(failed)
  BY <1>1 DEF Entry, Live
<1>3. u = [i \in 1..Len(unp_packets) |-> new(i)] /\ Len(unp_packets) \in Nat
  BY DEF AfterReplay
<1> HIDE DEF new, u
<1>4. u \in Seq(Entry) /\ Len(u) = Len(unp_packets) /\ \A i \in 1..Len(unp_packets) : u[i] = new(i)
  BY <1>2, <1>3
<1> QED BY <1>2, <1>4 DEF u

-----------------------------------------------------------------------------
(***************************************************************************)
(* Every step keeps Traffic.                                               *)
(***************************************************************************)
\* The write queue stays within its limit.
LEMMA EnqueueType ==
    ASSUME write_queue \in Seq(Packet), NEW s \in Seq(Packet)
    PROVE  Enqueue(s) \in Seq(Packet) /\ Len(Enqueue(s)) <= MaxQueue
<1>1. write_queue \o s \in Seq(Packet) /\ MaxQueue \in Nat BY LimitsAssumption
<1> QED BY <1>1, LastOfFacts DEF Enqueue

\* One posted write.
LEMMA PostOne ==
    ASSUME NEW q, Bounded(q), NEW r, r = PostTask(q, "write", 1)
    PROVE  Adds(q, r) /\ (NoWritten(q) => NoWritten(r)) /\ (Alone(q) => Serves(r))
<1>1. PICK n \in Nat : n = 1 OBVIOUS
<1>2. r = PostTask(q, "write", n) /\ n >= 1 BY <1>1
<1> QED BY <1>2, PostWrite

\* The reader is not concerned by handlers of no reads.
LEMMA ReaderKept ==
    ASSUME OneReader, connected, Adds(ready, ready'),
           UNCHANGED <<connected, reading, keys>>
    PROVE  OneReader'
<1>1. Alone(ready') /\ KeyRoom(ready', keys') BY AddsKeep DEF OneReader
<1>2. NoRead(ready) => NoRead(ready') BY AddsKeep
<1> QED BY <1>1, <1>2 DEF OneReader, Alone, KeyRoom, NoRead

\* Nor by the run of one.
LEMMA ReaderRuns ==
    ASSUME OneReader, Bounded(ready), ready # <<>>, Adds(Tail(ready), ready'),
           UNCHANGED <<connected, is_encrypted, reading, keys>>,
           ~connected => ready' = Tail(ready) /\ UNCHANGED <<wire, pending, write_queue>>
    PROVE  OneReader'
<1>1. Alone(Tail(ready)) /\ KeyRoom(Tail(ready), keys) BY TailKeeps DEF OneReader
<1>2. NoRead(ready) => NoRead(Tail(ready)) BY TailKeeps
<1>3. NoWritten(ready) => NoWritten(Tail(ready)) BY TailKeeps
<1>4. Alone(ready') /\ KeyRoom(ready', keys') BY <1>1, AddsKeep
<1>5. NoRead(ready) => NoRead(ready') BY <1>2, AddsKeep
<1> QED BY <1>3, <1>4, <1>5 DEF OneReader, Alone, KeyRoom, NoRead, NoWritten

\* SendPacket posts a write for what it enqueues.
LEMMA SendPacketTraffic == Traffic /\ SendPacket => Traffic'
<1> SUFFICES ASSUME Traffic, SendPacket PROVE Traffic' OBVIOUS
<1> USE TrafficFacts
<1>1. /\ TypeOK /\ OneReader
      /\ sent' \in 1..MaxSent
      /\ UNCHANGED <<sessionVars, socketVars, reading>>
  BY LimitsAssumption DEF Traffic, TypeOK, SendPacket, NextPacket
<1>2. CASE /\ connected /\ UNCHANGED unp_packets
           /\ write_queue' = Enqueue(<<[id |-> sent', enc |-> is_encrypted]>>)
           /\ ready' = PostTask(ready, "write", 1)
  <2>1. <<[id |-> sent', enc |-> is_encrypted]>> \in Seq(Packet)
    BY <1>1 DEF TypeOK, Packet, Ids
  <2>2. write_queue' \in Seq(Packet) /\ Len(write_queue') <= MaxQueue
    BY <1>2, <2>1, EnqueueType
  <2>3. Adds(ready, ready') /\ Serves(ready')
    BY <1>1, <1>2, PostOne DEF OneReader
  <2>4. OneReader' BY <1>1, <1>2, <2>3, ReaderKept DEF sessionVars
  <2> QED BY <1>1, <1>2, <2>2, <2>3, <2>4, TrafficAgain DEF TypeOK, Adds, sessionVars, socketVars
<1>3. CASE UNCHANGED <<write_queue, ready, unp_packets>>
  <2>1. OneReader' BY <1>1, <1>3 DEF OneReader, Alone, KeyRoom, NoRead, NoWritten, sessionVars, socketVars
  <2> QED BY <1>1, <1>3, <2>1, TrafficAgain DEF TypeOK, sessionVars, socketVars, Serves
<1>4. CASE ~connected /\ unprocessed_add(sent') /\ UNCHANGED <<write_queue, ready>>
  <2>1. OneReader' BY <1>1, <1>4 DEF OneReader, Alone, KeyRoom, NoRead, NoWritten, sessionVars, socketVars
  <2>2. [id |-> sent', empty |-> FALSE, bUsed |-> FALSE] \in Entry BY <1>1 DEF Entry
  <2>3. Append(unp_packets, [id |-> sent', empty |-> FALSE, bUsed |-> FALSE]) \in Seq(Entry)
    BY <2>2
  <2>4. unp_packets' \in Seq(Entry) /\ Len(unp_packets') <= MaxUnprocessed
    <3>1. CASE sent' \in SyncPackets
      BY <1>4, <2>3, <3>1, LastOfFacts, LimitsAssumption DEF unprocessed_add
    <3>2. CASE sent' \notin SyncPackets
      BY <1>4, <3>2 DEF unprocessed_add
    <3> QED BY <3>1, <3>2
  <2> QED BY <1>1, <1>4, <2>1, <2>4, TrafficAgain DEF TypeOK, sessionVars, socketVars, Serves
<1> QED BY <1>2, <1>3, <1>4 DEF SendPacket

\* A session begins with the posting of its first read.
LEMMA SessionStartTraffic == Traffic /\ SessionStart => Traffic'
<1> SUFFICES ASSUME Traffic, SessionStart PROVE Traffic' OBVIOUS
<1> USE TrafficFacts
<1>1. /\ TypeOK /\ OneReader /\ ~connected /\ connected' /\ ready' = PostTask(ready, "read", 1)
      /\ UNCHANGED <<is_encrypted, keys, write_queue, wire, pending, past, reading, unp_packets, sent>>
  BY DEF Traffic, SessionStart, socketVars
<1>2. NoRead(ready) /\ ~reading /\ write_queue = <<>> BY <1>1 DEF OneReader, TypeOK
<1>3. Bounded(ready') /\ Alone(ready') /\ KeyRoom(ready', keys)
  BY <1>1, <1>2, PostRead
<1>4. OneReader' BY <1>1, <1>2, <1>3 DEF OneReader, Alone, KeyRoom
<1>5. sessions' \in 0..MaxSessions /\ connected' \in BOOLEAN
  BY <1>1, LimitsAssumption DEF SessionStart, TypeOK
<1> QED BY <1>1, <1>2, <1>3, <1>4, <1>5, TrafficAgain DEF TypeOK

\* The end of a session leaves its write tasks.
LEMMA SessionLostTraffic == Traffic /\ SessionLost => Traffic'
<1> SUFFICES ASSUME Traffic, SessionLost PROVE Traffic' OBVIOUS
<1> USE TrafficFacts
<1> DEFINE W == {i \in 1..Len(ready) : ready[i] = <<"task", "write">>}
           T == {i \in 1..Len(ready) : IsTask(ready[i])}
           n == Cardinality(W)
<1>1. n \in Nat /\ n <= MaxTasks
  <2>1. W \subseteq T BY DEF IsTask
  <2>2. IsFiniteSet(T) /\ Cardinality(T) \in Nat /\ Cardinality(T) <= MaxTasks
    BY TasksFinite DEF Bounded, PendingTasks
  <2> HIDE DEF W, T
  <2>3. n \in Nat /\ n <= Cardinality(T) BY <2>1, <2>2, PartFinite
  <2> QED BY <2>2, <2>3, LimitsAssumption
<1>2. ready' = [i \in 1..n |-> <<"task", "write">>]
  BY DEF SessionLost
<1> HIDE DEF n
<1>3. <<"task", "write">> \in Handler BY DEF Handler
<1>4. ready' \in Seq(Handler) /\ Len(ready') = n /\ \A i \in 1..n : ready'[i] = <<"task", "write">>
  BY <1>1, <1>2, <1>3
<1>5. Bounded(ready')
  <2> DEFINE U == {i \in 1..Len(ready') : IsTask(ready'[i])}
  <2>1. U \subseteq 1..n BY <1>4
  <2>2. IsFiniteSet(1..n) /\ Cardinality(1..n) = n BY <1>1, FS_Interval
  <2>3. Cardinality(U) <= n /\ Cardinality(U) \in Nat
    <3> HIDE DEF U
    <3> QED BY <2>1, <2>2, PartFinite
  <2>4. PendingTasks(ready') <= MaxTasks BY <1>1, <2>3, LimitsAssumption DEF PendingTasks
  <2> QED BY <1>4, <2>4 DEF Bounded
<1>6. NoRead(ready') /\ NoWritten(ready')
  BY <1>4 DEF NoRead, NoWritten, IsRead
<1>7. Alone(ready') BY <1>6 DEF NoRead, Alone
<1>8. KeyRoom(ready', 0) BY <1>4 DEF KeyRoom
<1>9. OneReader'
  BY <1>6, <1>7, <1>8 DEF SessionLost, OneReader, NoRead, Alone, KeyRoom, NoWritten
<1>10. past' \subseteq 1..MaxSent
  <2>1. \A i \in 1..Len(wire) : wire[i].pkt.id \in 0..MaxSent
    <3>1. \A i \in 1..Len(wire) : wire[i] \in Piece OBVIOUS
    <3> QED BY <3>1 DEF Piece, Packet, Ids
  <2>2. past \subseteq 1..MaxSent BY DEF Traffic, TypeOK
  <2>3. past' = (past \cup {wire[i].pkt.id : i \in 1..Len(wire)}) \ {0}
    BY DEF SessionLost, PublicKey
  <2>4. \A n1 \in (0..MaxSent) \ {0} : n1 \in 1..MaxSent BY LimitsAssumption
  <2> QED BY <2>1, <2>2, <2>3, <2>4
<1>11. /\ connected' \in BOOLEAN /\ is_encrypted' \in BOOLEAN /\ reading' \in BOOLEAN
       /\ keys' \in 0..MaxKeys /\ sessions' \in 0..MaxSessions /\ sent' \in 0..MaxSent
       /\ write_queue' = <<>> /\ pending' = <<>> /\ wire' = <<>> /\ unp_packets' = unp_packets
       /\ Len(write_queue') <= MaxQueue
  <2>1. Len(<<>>) <= MaxQueue /\ 0 \in 0..MaxKeys BY LimitsAssumption
  <2> QED BY <2>1 DEF SessionLost, Traffic, TypeOK
<1>12. write_queue' \in Seq(Packet) /\ pending' \in Seq(Write) /\ wire' \in Seq(Piece)
  BY <1>11
<1> QED BY <1>5, <1>9, <1>10, <1>11, <1>12, TrafficAgain

\* A write task takes a packet and leads to another look at the queue, or finds none.
LEMMA RunWriteTaskTraffic == Traffic /\ RunWriteTask => Traffic'
<1> SUFFICES ASSUME Traffic, RunWriteTask PROVE Traffic' OBVIOUS
<1> USE TrafficFacts
<1> DEFINE q == Tail(ready)
<1>1. /\ TypeOK /\ OneReader /\ ready # <<>> /\ session_write(q)
      /\ UNCHANGED <<sessionVars, past, reading, unp_packets, sent>>
  BY DEF Traffic, RunWriteTask
<1>2. Bounded(q) BY <1>1, TailBounded
<1>3. Adds(q, q)
  <2>1. Len(q) \in Nat BY <1>2 DEF Bounded
  <2> QED BY <1>2, <2>1 DEF Adds
<1> HIDE DEF q
<1>4. CASE write_queue = <<>> /\ ready' = q /\ UNCHANGED <<write_queue, pending, wire>>
  <2>1. OneReader' BY <1>1, <1>3, <1>4, ReaderRuns DEF q, sessionVars
  <2> QED BY <1>1, <1>2, <1>4, <2>1, TrafficAgain DEF TypeOK, sessionVars
<1>5. CASE /\ write_queue # <<>> /\ write_queue' = Tail(write_queue)
           /\ WriteSome([pkt |-> Head(write_queue), done |-> 0], q)
  <2>1. Head(write_queue) \in Packet /\ write_queue' \in Seq(Packet) /\ Len(write_queue') <= MaxQueue
    BY <1>5, LimitsAssumption
  <2>2. [pkt |-> Head(write_queue), done |-> 0] \in Write
    BY <2>1, LimitsAssumption DEF Write
  <2>3. /\ Adds(q, ready') /\ wire' \in Seq(Piece) /\ pending' \in Seq(Write)
        /\ pending' # <<>> \/ Serves(ready')
    BY <1>1, <1>2, <1>5, <2>2, WriteSomeServes
  <2>4. connected BY <1>1, <1>5 DEF OneReader
  <2>5. OneReader' BY <1>1, <2>3, <2>4, ReaderRuns DEF q, sessionVars
  <2> QED BY <1>1, <2>1, <2>3, <2>5, TrafficAgain DEF TypeOK, sessionVars, Adds
<1> QED BY <1>1, <1>4, <1>5 DEF session_write

\* The end of a write looks at the queue.
LEMMA WriteDoneServes ==
    ASSUME OneReader, NEW q, Bounded(q), Alone(q), WriteDone(q)
    PROVE  /\ Adds(q, ready') /\ (~connected => ready' = q)
           /\ connected /\ write_queue # <<>> => Serves(ready')
<1>1. CASE connected /\ write_queue # <<>>
  <2>1. ready' = PostTask(q, "write", 1) BY <1>1 DEF WriteDone
  <2> QED BY <1>1, <2>1, PostOne
<1>2. CASE ~(connected /\ write_queue # <<>>)
  <2>1. ready' = q BY <1>2 DEF WriteDone
  <2>2. Len(q) \in Nat BY DEF Bounded
  <2> QED BY <1>2, <2>1, <2>2 DEF Adds
<1> QED BY <1>1, <1>2

\* A write goes on, or ends.
LEMMA RunWrittenTraffic == Traffic /\ RunWritten => Traffic'
<1> SUFFICES ASSUME Traffic, RunWritten PROVE Traffic' OBVIOUS
<1> USE TrafficFacts
<1> DEFINE q == Tail(ready)  w == Head(ready)[2]
<1>1. /\ TypeOK /\ OneReader /\ ready # <<>> /\ Head(ready)[1] = "written"
      /\ UNCHANGED <<sessionVars, write_queue, past, reading, unp_packets, sent>>
  BY DEF Traffic, RunWritten
<1>2. /\ Bounded(q) /\ Head(ready) \in Handler /\ Head(ready) = ready[1]
      /\ 1 \in 1..Len(ready)
  BY <1>1, TailBounded
<1>3. w \in Write BY <1>1, <1>2 DEF Handler
<1>4. connected BY <1>1, <1>2 DEF OneReader, NoWritten
<1>5. Alone(q) BY <1>1, TailKeeps DEF OneReader
<1>6. CASE WriteSome(w, q)
  <2> HIDE DEF q, w
  <2>1. /\ Adds(q, ready') /\ wire' \in Seq(Piece) /\ pending' \in Seq(Write)
        /\ pending' # <<>> \/ Serves(ready')
    BY <1>1, <1>2, <1>3, <1>6, WriteSomeServes
  <2>2. OneReader' BY <1>1, <1>4, <2>1, ReaderRuns DEF q, sessionVars
  <2> QED BY <1>1, <2>1, <2>2, TrafficAgain DEF TypeOK, sessionVars, Adds
<1>7. CASE WriteDone(q) /\ UNCHANGED <<pending, wire>>
  <2> HIDE DEF q, w
  <2>1. Adds(q, ready') /\ (write_queue # <<>> => Serves(ready'))
    BY <1>1, <1>2, <1>4, <1>5, <1>7, WriteDoneServes
  <2>2. OneReader' BY <1>1, <1>4, <2>1, ReaderRuns DEF q, sessionVars
  <2> QED BY <1>1, <1>7, <2>1, <2>2, TrafficAgain DEF TypeOK, sessionVars, Adds
<1> QED BY <1>6, <1>7 DEF RunWritten

\* A write has failed.
LEMMA RunFailedTraffic == Traffic /\ RunFailed => Traffic'
<1> SUFFICES ASSUME Traffic, RunFailed PROVE Traffic' OBVIOUS
<1> USE TrafficFacts
<1> DEFINE q == Tail(ready)
<1>1. /\ TypeOK /\ OneReader /\ ready # <<>> /\ WriteDone(q)
      /\ UNCHANGED <<sessionVars, write_queue, socketVars, reading, unp_packets, sent>>
  BY DEF Traffic, RunFailed
<1>2. Bounded(q) /\ Alone(q) BY <1>1, TailBounded, TailKeeps DEF OneReader
<1> HIDE DEF q
<1>3. /\ Adds(q, ready') /\ (~connected => ready' = q)
      /\ connected /\ write_queue # <<>> => Serves(ready')
  BY <1>1, <1>2, WriteDoneServes
<1>4. write_queue # <<>> => connected BY <1>1 DEF OneReader
<1>5. OneReader' BY <1>1, <1>3, ReaderRuns DEF q, sessionVars, socketVars
<1> QED BY <1>1, <1>3, <1>4, <1>5, TrafficAgain DEF TypeOK, sessionVars, socketVars, Adds

\* A read begins.
LEMMA RunReadTaskTraffic == Traffic /\ RunReadTask => Traffic'
<1> SUFFICES ASSUME Traffic, RunReadTask PROVE Traffic' OBVIOUS
<1> USE TrafficFacts
<1>1. /\ TypeOK /\ OneReader /\ ready # <<>> /\ ready' = Tail(ready) /\ reading' = TRUE
      /\ UNCHANGED <<sessionVars, write_queue, socketVars, unp_packets, sent>>
  BY DEF Traffic, RunReadTask
<1>2. IsRead(Head(ready)) BY DEF RunReadTask, IsRead
<1>3. /\ Bounded(ready') /\ NoRead(ready') /\ Alone(ready') /\ KeyRoom(ready', keys)
      /\ Serves(ready) => Serves(ready')
  BY <1>1, <1>2, TailBounded, TailKeeps DEF OneReader
<1>4. connected BY <1>1, <1>2, TailKeeps DEF OneReader
<1>5. OneReader'
  BY <1>1, <1>3, <1>4 DEF OneReader, Alone, KeyRoom, NoRead, sessionVars
<1> QED BY <1>1, <1>3, <1>5, TrafficAgain DEF TypeOK, sessionVars, socketVars

\* The end of a read, after which another is posted.
LEMMA RunReceivedTraffic == Traffic /\ RunReceived => Traffic'
<1> SUFFICES ASSUME Traffic, RunReceived PROVE Traffic' OBVIOUS
<1> USE TrafficFacts
<1> DEFINE q == Tail(ready)
           key == [id |-> PublicKey, enc |-> FALSE]
<1>1. /\ TypeOK /\ OneReader /\ ready # <<>> /\ Head(ready)[1] = "received"
      /\ UNCHANGED <<connected, sessions, socketVars, reading, sent>>
  BY DEF Traffic, RunReceived
<1>2. IsRead(Head(ready)) BY <1>1 DEF IsRead
<1>3. Bounded(q) /\ NoRead(q) /\ Alone(q) /\ (Serves(ready) => Serves(q))
  BY <1>1, <1>2, TailBounded, TailKeeps DEF OneReader
<1>4. connected /\ ~reading
  <2>1. ~NoRead(ready) BY <1>1, <1>2, TailKeeps
  <2> QED BY <1>1, <2>1 DEF OneReader
<1> HIDE DEF q
<1>5. ASSUME Bounded(ready'), Alone(ready'), KeyRoom(ready', keys')
      PROVE  OneReader'
  BY <1>1, <1>4, <1>5 DEF OneReader, Alone, KeyRoom
<1>6. CASE ready' = PostTask(q, "read", 1) /\ UNCHANGED <<is_encrypted, keys, write_queue, unp_packets>>
  <2>1. /\ Bounded(ready') /\ Alone(ready') /\ KeyRoom(ready', keys')
        /\ Serves(ready) => Serves(ready')
    BY <1>3, <1>6, PostRead
  <2> QED BY <1>1, <1>5, <1>6, <2>1, TrafficAgain DEF TypeOK, socketVars
<1>7. ASSUME Head(ready)[2] = "key_exchange", HandleKeyExchange(q), keys' = keys + 1
      PROVE  Traffic'
  <2>1. keys' \in 0..MaxKeys
    <3>1. Head(ready) = ready[1] /\ 1 \in 1..Len(ready) /\ Head(ready) \in Handler BY <1>1, TailBounded
    <3>2. Head(ready) = <<"received", "key_exchange">> BY <1>1, <1>7, <3>1 DEF Handler
    <3>3. keys < MaxKeys BY <1>1, <3>1, <3>2 DEF OneReader, KeyRoom
    <3> QED BY <1>1, <1>7, <3>3, LimitsAssumption DEF TypeOK
  <2>2. key \in Packet BY LimitsAssumption DEF Packet, Ids, PublicKey
  <2>3. ASSUME NEW s \in Seq(Packet), NEW n \in Nat, n >= 1,
               write_queue' = Enqueue(s),
               ready' = PostTask(PostTask(q, "write", n), "read", 1),
               unp_packets' \in Seq(Entry), Len(unp_packets') <= MaxUnprocessed,
               is_encrypted' \in BOOLEAN
        PROVE  Traffic'
    <3> DEFINE r == PostTask(q, "write", n)
    <3>1. Adds(q, r) /\ Serves(r) BY <1>3, <2>3, PostWrite
    <3>2. Bounded(r) /\ NoRead(r) BY <1>3, <3>1, AddsKeep DEF Adds
    <3>3. ready' = PostTask(r, "read", 1) BY <2>3
    <3> HIDE DEF r
    <3>4. Bounded(ready') /\ Alone(ready') /\ KeyRoom(ready', keys') /\ Serves(ready')
      BY <3>1, <3>2, <3>3, PostRead
    <3>5. write_queue' \in Seq(Packet) /\ Len(write_queue') <= MaxQueue BY <2>3, EnqueueType
    <3> QED BY <1>1, <1>5, <2>1, <2>3, <3>4, <3>5, TrafficAgain DEF TypeOK, socketVars
  <2>4. CASE /\ write_queue' = Enqueue(<<key>>)
             /\ ready' = PostTask(PostTask(q, "write", 1), "read", 1)
             /\ UNCHANGED <<is_encrypted, unp_packets>>
    <3>1. <<key>> \in Seq(Packet) BY <2>2
    <3>2. PICK n \in Nat : n = 1 OBVIOUS
    <3>3. ready' = PostTask(PostTask(q, "write", n), "read", 1) /\ n >= 1 BY <2>4, <3>2
    <3>4. unp_packets' \in Seq(Entry) /\ Len(unp_packets') <= MaxUnprocessed /\ is_encrypted' \in BOOLEAN
      BY <1>1, <2>4 DEF TypeOK
    <3> HIDE DEF key
    <3> QED BY <2>3, <2>4, <3>1, <3>3, <3>4
  <2>5. ASSUME is_encrypted' = TRUE, NEW failed, NEW replay \in Replayed(failed),
               write_queue' = Enqueue(<<key>> \o replay),
               ready' = PostTask(PostTask(q, "write", 1 + Len(replay)), "read", 1),
               unp_packets' \in CleanedUp(AfterReplay(failed))
        PROVE  Traffic'
    <3>1. replay \in Seq(Packet) /\ Len(replay) \in Nat BY ReplayedFacts
    <3>2. <<key>> \o replay \in Seq(Packet) BY <2>2, <3>1
    <3>3. 1 + Len(replay) \in Nat /\ 1 + Len(replay) >= 1 BY <3>1
    <3>4. AfterReplay(failed) \in Seq(Entry) /\ Len(AfterReplay(failed)) = Len(unp_packets)
      BY AfterReplayFacts
    <3>5. unp_packets' \in Seq(Entry) /\ Len(unp_packets') <= MaxUnprocessed
      <4>1. Picked(AfterReplay(failed), unp_packets') BY <2>5, <3>4, CleanedPicked
      <4> QED BY <3>4, <4>1, LimitsAssumption DEF Picked
    <3>6. is_encrypted' \in BOOLEAN BY <2>5
    <3> HIDE DEF key
    <3> QED BY <2>3, <2>5, <3>2, <3>3, <3>5, <3>6
  <2> QED BY <1>7, <2>4, <2>5 DEF HandleKeyExchange
<1> QED BY <1>6, <1>7 DEF RunReceived, q

\* A cleanup of the buffer.
LEMMA CleanupTraffic == Traffic /\ unprocessed_cleanup_expired => Traffic'
<1> SUFFICES ASSUME Traffic, unprocessed_cleanup_expired PROVE Traffic' OBVIOUS
<1> USE TrafficFacts
<1>1. /\ TypeOK /\ OneReader /\ unp_packets' \in CleanedUp(unp_packets)
      /\ UNCHANGED <<sessionVars, write_queue, ready, socketVars, reading, sent>>
  BY DEF Traffic, unprocessed_cleanup_expired
<1>2. unp_packets' \in Seq(Entry) /\ Len(unp_packets') <= MaxUnprocessed
  <2>1. Picked(unp_packets, unp_packets') BY <1>1, CleanedPicked
  <2> QED BY <2>1, LimitsAssumption DEF Picked
<1>3. OneReader'
  BY <1>1 DEF OneReader, Alone, KeyRoom, NoRead, NoWritten, sessionVars, socketVars
<1> QED BY <1>1, <1>2, <1>3, TrafficAgain DEF TypeOK, sessionVars, socketVars, Serves

\* The socket takes pieces of the write at its front.
LEMMA WritableTraffic == Traffic /\ Writable => Traffic'
<1> SUFFICES ASSUME Traffic, Writable PROVE Traffic' OBVIOUS
<1> USE TrafficFacts
<1> DEFINE w == Head(pending)
<1>1. /\ TypeOK /\ OneReader /\ pending # <<>> /\ pending' = Tail(pending)
      /\ UNCHANGED <<sessionVars, write_queue, past, reading, unp_packets, sent>>
  BY DEF Traffic, Writable
<1>2. PICK k \in 1..(Parts - w.done) :
        /\ wire' = wire \o [i \in 1..k |-> [pkt |-> w.pkt, part |-> w.done + i]]
        /\ ready' = Append(ready, <<"written", [w EXCEPT !.done = @ + k]>>)
  BY DEF Writable
<1>3. w \in Write /\ pending' \in Seq(Write) BY <1>1
<1> HIDE DEF w
<1> DEFINE h == <<"written", [w EXCEPT !.done = @ + k]>>
<1>4. wire' \in Seq(Piece) /\ h \in Handler BY <1>2, <1>3, PiecesType
<1>5. ~IsTask(h) /\ ~IsRead(h) /\ h[1] = "written" BY DEF IsTask, IsRead
<1>6. ready' = Append(ready, h) BY <1>2
<1> HIDE DEF h
<1>7. /\ Bounded(ready') /\ Len(ready') = Len(ready) + 1 /\ Len(ready) \in Nat
      /\ ready'[Len(ready) + 1] = h /\ \A i \in 1..Len(ready) : ready'[i] = ready[i]
  BY <1>4, <1>5, <1>6, AppendBounded
<1>8. Adds(ready, ready') BY <1>5, <1>7 DEF Adds
<1>9. Serves(ready')
  <2>1. Len(ready) + 1 \in 1..Len(ready') BY <1>7
  <2> QED BY <1>5, <1>7, <2>1 DEF Serves
<1>10. connected BY <1>1 DEF OneReader
<1>11. OneReader' BY <1>1, <1>8, <1>10, ReaderKept DEF sessionVars
<1> QED BY <1>1, <1>3, <1>4, <1>7, <1>9, <1>11, TrafficAgain DEF TypeOK, sessionVars

\* A write fails and the session goes on.
LEMMA WriteFailsTraffic == Traffic /\ WriteFails => Traffic'
<1> SUFFICES ASSUME Traffic, WriteFails PROVE Traffic' OBVIOUS
<1> USE TrafficFacts
<1> DEFINE h == <<"failed", "soft">>
<1>1. /\ TypeOK /\ OneReader /\ pending # <<>> /\ pending' = Tail(pending)
      /\ ready' = Append(ready, h)
      /\ UNCHANGED <<sessionVars, write_queue, wire, past, reading, unp_packets, sent>>
  BY DEF Traffic, WriteFails
<1>2. h \in Handler /\ ~IsTask(h) /\ ~IsRead(h) /\ h[1] = "failed" BY DEF Handler, IsTask, IsRead
<1>3. pending' \in Seq(Write) BY <1>1
<1> HIDE DEF h
<1>4. /\ Bounded(ready') /\ Len(ready') = Len(ready) + 1 /\ Len(ready) \in Nat
      /\ ready'[Len(ready) + 1] = h /\ \A i \in 1..Len(ready) : ready'[i] = ready[i]
  BY <1>1, <1>2, AppendBounded
<1>5. Adds(ready, ready') BY <1>2, <1>4 DEF Adds
<1>6. Serves(ready')
  <2>1. Len(ready) + 1 \in 1..Len(ready') BY <1>4
  <2> QED BY <1>2, <1>4, <2>1 DEF Serves
<1>7. connected BY <1>1 DEF OneReader
<1>8. OneReader' BY <1>1, <1>5, <1>7, ReaderKept DEF sessionVars
<1> QED BY <1>1, <1>3, <1>4, <1>6, <1>8, TrafficAgain DEF TypeOK, sessionVars

\* A read ends.
LEMMA ReceivesTraffic ==
    ASSUME Traffic, NEW what \in {"key_exchange", "other"}, Receives(what)
    PROVE  Traffic'
<1> USE TrafficFacts
<1> DEFINE h == <<"received", what>>
<1>1. /\ TypeOK /\ OneReader /\ reading /\ reading' = FALSE
      /\ (what = "key_exchange" => keys < MaxKeys) /\ ready' = Append(ready, h)
      /\ UNCHANGED <<sessionVars, write_queue, socketVars, unp_packets, sent>>
  BY DEF Traffic, Receives
<1>2. h \in Handler /\ ~IsTask(h) /\ (h = <<"received", "key_exchange">> => what = "key_exchange")
  BY DEF Handler, IsTask
<1> HIDE DEF h
<1>3. /\ Bounded(ready') /\ Len(ready') = Len(ready) + 1 /\ Len(ready) \in Nat
      /\ ready'[Len(ready) + 1] = h /\ \A i \in 1..Len(ready) : ready'[i] = ready[i]
  BY <1>1, <1>2, AppendBounded
<1>4. connected /\ NoRead(ready) BY <1>1 DEF OneReader
<1>5. \A i \in 1..Len(ready') : i \in 1..Len(ready) \/ i = Len(ready) + 1 BY <1>3
<1>6. Alone(ready') BY <1>3, <1>4, <1>5 DEF Alone, NoRead
<1>7. KeyRoom(ready', keys')
  <2> SUFFICES ASSUME NEW i \in 1..Len(ready'), ready'[i] = <<"received", "key_exchange">>
               PROVE  keys' < MaxKeys
    BY DEF KeyRoom
  <2>1. i = Len(ready) + 1
    <3>1. IsRead(ready'[i]) BY DEF IsRead
    <3> QED BY <1>3, <1>4, <1>5, <3>1 DEF NoRead
  <2> QED BY <1>1, <1>2, <1>3, <2>1 DEF sessionVars
<1>8. OneReader' BY <1>1, <1>4, <1>6, <1>7 DEF OneReader, Alone, KeyRoom, sessionVars
<1>9. Serves(ready) => Serves(ready')
  <2>1. \A i \in 1..Len(ready) : i \in 1..Len(ready') /\ ready'[i] = ready[i] BY <1>3
  <2> QED BY <2>1 DEF Serves
<1> QED BY <1>1, <1>3, <1>8, <1>9, TrafficAgain DEF TypeOK, sessionVars, socketVars

\* Every step, and none.
LEMMA NextTraffic == Traffic /\ [Next]_vars => Traffic'
<1> SUFFICES ASSUME Traffic, [Next]_vars PROVE Traffic' OBVIOUS
<1>1. CASE UNCHANGED vars
  BY <1>1 DEF vars, sessionVars, socketVars, Traffic, TypeOK, OneReader, QueueServed, PendingTasks,
              IsTask, Alone, KeyRoom, NoRead, NoWritten
<1>2. CASE Next
  BY <1>2, SendPacketTraffic, SessionStartTraffic, SessionLostTraffic, RunWriteTaskTraffic,
     RunWrittenTraffic, RunFailedTraffic, RunReadTaskTraffic, RunReceivedTraffic, CleanupTraffic,
     WritableTraffic, WriteFailsTraffic, ReceivesTraffic DEF Next, DoWork
<1> QED BY <1>1, <1>2

\* Every reachable state has its type, and no queue grows past its limit
\* (write_queue_, pending_tasks_count_, unp_packets_).
THEOREM TypeCorrect == Spec => []TypeOK
<1>1. Init => Traffic BY InitTraffic
<1>2. Traffic /\ [Next]_vars => Traffic' BY NextTraffic
<1>3. Traffic => TypeOK BY DEF Traffic
<1> QED BY <1>1, <1>2, <1>3, PTL DEF Spec

\* No packet is stranded in the write queue, whatever is dropped at the limit of
\* tasks, for any limits of which that of tasks leaves room for a write beside the
\* read loop (PostTask, session_write, session_handle_error).
THEOREM NothingStranded == Spec => []QueueServed
<1>1. Init => Traffic BY InitTraffic
<1>2. Traffic /\ [Next]_vars => Traffic' BY NextTraffic
<1>3. Traffic => QueueServed BY DEF Traffic
<1> QED BY <1>1, <1>2, <1>3, PTL DEF Spec

-----------------------------------------------------------------------------
(***************************************************************************)
(* The packets of a session as a line.                                     *)
(***************************************************************************)
Carried == [x \in Path |-> At(x)]

Begun(wr, p) == \E j \in 1..Len(wr) : wr[j].part = 1 /\ wr[j].pkt = p

\* Whatever is partly written has its first piece on the wire.
FirstPiece ==
    /\ \A i \in 1..Len(wire) : Begun(wire, wire[i].pkt)
    /\ \A i \in 1..Len(pending) : pending[i].done # 0 => Begun(wire, pending[i].pkt)
    /\ \A i \in 1..Len(ready) :
          ready[i][1] = "written" => ready[i][2].done # 0 /\ Begun(wire, ready[i][2].pkt)

\* Packets are numbered as they are sent, and the buffer keeps their order: u when n
\* were sent and those of old went in earlier sessions.
Kept(u, n, old) ==
    /\ \A i \in 1..Len(u) : u[i].id <= n /\ (~u[i].empty => u[i].id \notin old)
    /\ \A i, j \in 1..Len(u) : i < j => u[i].id < u[j].id

Numbered == past \subseteq 1..sent /\ Kept(unp_packets, sent, past)

\* What a packet on its way may be, when n packets were sent, those of old went in
\* earlier sessions, u is the buffer, and on tells whether encryption is on.
Fits(p, n, old, on, u) ==
    /\ p.id <= n /\ p.id \notin old
    /\ p.enc => on
    /\ \A i \in 1..Len(u) : ~u[i].empty => p.id # u[i].id

LineInv ==
    /\ Once(Path, Carried) /\ Ordered(Path, Carried) /\ KeyFirst(Path, Carried, keys)
    /\ \A x \in Path : Fits(At(x), sent, past, is_encrypted, unp_packets)
    /\ is_encrypted => keys > 0
    /\ Numbered /\ FirstPiece

\* The places of the three parts.
PathFacts ==
    /\ \A x \in Path :
          /\ x = <<x[1], x[2]>> /\ x[1] \in 1..3 /\ x[2] \in Nat \ {0}
          /\ x[1] = 1 => x[2] \in 1..Len(wire) /\ wire[x[2]].part = 1 /\ At(x) = wire[x[2]].pkt
          /\ x[1] = 2 => /\ x[2] \in 1..Len(pending) /\ pending[x[2]].done = 0
                         /\ At(x) = pending[x[2]].pkt
          /\ x[1] = 3 => x[2] \in 1..Len(write_queue) /\ At(x) = write_queue[x[2]]
    /\ \A i \in 1..Len(wire) : wire[i].part = 1 => <<1, i>> \in Path
    /\ \A i \in 1..Len(pending) : pending[i].done = 0 => <<2, i>> \in Path
    /\ \A i \in 1..Len(write_queue) : <<3, i>> \in Path
    /\ \A i : /\ At(<<1, i>>) = wire[i].pkt /\ At(<<2, i>>) = pending[i].pkt
              /\ At(<<3, i>>) = write_queue[i]

LineFacts ==
    /\ Line(Path, Carried) /\ Near(Path)
    /\ \A x \in Path : Carried[x] = At(x) /\ At(x) \in Packet

\* What a place of each part is.
LEMMA InPath == Traffic => PathFacts
<1> SUFFICES ASSUME Traffic PROVE PathFacts OBVIOUS
<1>1. Len(wire) \in Nat /\ Len(pending) \in Nat /\ Len(write_queue) \in Nat BY TrafficFacts
<1>2. \A i : /\ At(<<1, i>>) = wire[i].pkt /\ At(<<2, i>>) = pending[i].pkt
             /\ At(<<3, i>>) = write_queue[i]
  BY DEF At
<1>3. /\ \A i \in 1..Len(wire) : wire[i].part = 1 => <<1, i>> \in Path
      /\ \A i \in 1..Len(pending) : pending[i].done = 0 => <<2, i>> \in Path
      /\ \A i \in 1..Len(write_queue) : <<3, i>> \in Path
  BY DEF Path
<1>4. ASSUME NEW x \in Path
      PROVE  /\ x = <<x[1], x[2]>> /\ x[1] \in 1..3 /\ x[2] \in Nat \ {0}
             /\ x[1] = 1 => x[2] \in 1..Len(wire) /\ wire[x[2]].part = 1 /\ At(x) = wire[x[2]].pkt
             /\ x[1] = 2 => /\ x[2] \in 1..Len(pending) /\ pending[x[2]].done = 0
                            /\ At(x) = pending[x[2]].pkt
             /\ x[1] = 3 => x[2] \in 1..Len(write_queue) /\ At(x) = write_queue[x[2]]
  <2>1. \/ \E i \in 1..Len(wire) : wire[i].part = 1 /\ x = <<1, i>>
        \/ \E i \in 1..Len(pending) : pending[i].done = 0 /\ x = <<2, i>>
        \/ \E i \in 1..Len(write_queue) : x = <<3, i>>
    BY DEF Path
  <2>2. CASE \E i \in 1..Len(wire) : wire[i].part = 1 /\ x = <<1, i>>
    BY <1>1, <1>2, <2>2
  <2>3. CASE \E i \in 1..Len(pending) : pending[i].done = 0 /\ x = <<2, i>>
    BY <1>1, <1>2, <2>3
  <2>4. CASE \E i \in 1..Len(write_queue) : x = <<3, i>>
    BY <1>1, <1>2, <2>4
  <2> QED BY <2>1, <2>2, <2>3, <2>4
<1> QED BY <1>2, <1>3, <1>4 DEF PathFacts

\* They make a line.
LEMMA PathLine == Traffic => LineFacts
<1> SUFFICES ASSUME Traffic PROVE LineFacts OBVIOUS
<1> USE TrafficFacts
<1>1. Len(wire) \in Nat /\ Len(pending) \in Nat /\ Len(write_queue) \in Nat OBVIOUS
<1>2. IsFiniteSet(Path)
  <2> DEFINE n == Len(wire) + Len(pending) + Len(write_queue)
             U == 1..3
             V == 1..n
  <2>1. n \in Nat BY <1>1
  <2>2. IsFiniteSet(U)
    <3>1. PICK a \in Int, b \in Int : a = 1 /\ b = 3 OBVIOUS
    <3>2. IsFiniteSet(a..b) BY FS_Interval
    <3> QED BY <3>1, <3>2
  <2>3. IsFiniteSet(V) BY <2>1, FS_Interval
  <2>4. Path \subseteq U \X V BY <1>1 DEF Path
  <2> HIDE DEF U, V
  <2>5. IsFiniteSet(U \X V) BY <2>2, <2>3, FS_Product
  <2> QED BY <2>4, <2>5, PartFinite
<1>3. \A x \in Path : x = <<x[1], x[2]>> /\ x[1] \in 1..3 /\ x[2] \in Nat \ {0} BY InPath DEF PathFacts
<1>4. Path \subseteq Place /\ Near(Path)
  <2>1. \A x \in Path : x \in Place /\ x[1] \in 1..3
    <3> SUFFICES ASSUME NEW x \in Path PROVE x \in Place /\ x[1] \in 1..3 OBVIOUS
    <3>1. x = <<x[1], x[2]>> /\ x[1] \in Nat /\ x[2] \in Nat /\ x[1] \in 1..3 BY <1>3
    <3>2. <<x[1], x[2]>> \in Place BY <3>1 DEF Place
    <3> QED BY <3>1, <3>2
  <2> QED BY <2>1 DEF Near
<1>5. \A x \in Path : At(x) \in Packet
  <2> SUFFICES ASSUME NEW x \in Path PROVE At(x) \in Packet OBVIOUS
  <2>1. CASE x[1] = 1
    <3>1. x[2] \in 1..Len(wire) /\ At(x) = wire[x[2]].pkt BY <2>1, InPath DEF PathFacts
    <3>2. wire[x[2]] \in Piece BY <3>1
    <3> QED BY <3>1, <3>2 DEF Piece
  <2>2. CASE x[1] = 2
    <3>1. x[2] \in 1..Len(pending) /\ At(x) = pending[x[2]].pkt BY <2>2, InPath DEF PathFacts
    <3>2. pending[x[2]] \in Write BY <3>1
    <3> QED BY <3>1, <3>2 DEF Write
  <2>3. CASE x[1] = 3
    <3>1. x[2] \in 1..Len(write_queue) /\ At(x) = write_queue[x[2]] BY <2>3, InPath DEF PathFacts
    <3> QED BY <3>1
  <2> QED BY <1>3, <2>1, <2>2, <2>3
<1> QED BY <1>2, <1>4, <1>5 DEF LineFacts, Line, Carried

\* Both hold in the next state as well.
LEMMA PathNext == Traffic' => PathFacts' /\ LineFacts'
BY InPath, PathLine, PTL

\* A step after which every packet on its way was on its way, in the same order.
Thinned == \E e : Thins(Path, Carried, Path', Carried', e)

\* Such a step keeps what the line promises.
LEMMA ThinnedKeeps ==
    ASSUME Traffic, Traffic', LineInv, Thinned, FirstPiece',
           UNCHANGED <<sent, past, is_encrypted, unp_packets, keys>>
    PROVE  LineInv'
<1>1. PICK e : Thins(Path, Carried, Path', Carried', e) BY DEF Thinned
<1>2. LineFacts /\ LineFacts' BY PathLine, PathNext
<1>3. keys \in Nat BY LimitsAssumption DEF Traffic, TypeOK
<1>4. Line(Path, Carried) /\ Line(Path', Carried') BY <1>2 DEF LineFacts
<1>5. Once(Path', Carried') /\ Ordered(Path', Carried') /\ KeyFirst(Path', Carried', keys)
  BY <1>1, <1>3, <1>4, ThinKeeps DEF LineInv
<1>6. \A x \in Path' : Fits(At(x)', sent, past, is_encrypted, unp_packets)
  <2> SUFFICES ASSUME NEW x \in Path' PROVE Fits(At(x)', sent, past, is_encrypted, unp_packets)
    OBVIOUS
  <2>1. e[x] \in Path /\ Carried'[x] = Carried[e[x]] BY <1>1 DEF Thins
  <2>2. Carried'[x] = At(x)' /\ Carried[e[x]] = At(e[x]) BY <1>2, <2>1 DEF LineFacts
  <2>3. Fits(At(e[x]), sent, past, is_encrypted, unp_packets) BY <2>1 DEF LineInv
  <2> QED BY <2>1, <2>2, <2>3
<1>7. Numbered' BY DEF LineInv, Numbered, Kept
<1>8. \A x \in Path' : Fits(At(x), sent, past, is_encrypted, unp_packets)'
  BY <1>6 DEF Fits
<1> QED BY <1>5, <1>7, <1>8 DEF LineInv, Once, Ordered, KeyFirst, Keys, Before

\* k pieces of w on the wire: the first of them is a first piece or has one before it.
LEMMA PiecesOn ==
    ASSUME wire \in Seq(Piece), NEW w \in Write, NEW k \in 1..(Parts - w.done),
           wire' = wire \o [i \in 1..k |-> [pkt |-> w.pkt, part |-> w.done + i]],
           w.done = 0 \/ Begun(wire, w.pkt),
           \A i \in 1..Len(wire) : Begun(wire, wire[i].pkt)
    PROVE  /\ Len(wire) \in Nat /\ Len(wire') \in Nat
           /\ \A i \in 1..Len(wire') : wire'[i].part = 1 =>
                 \/ i \in 1..Len(wire) /\ wire'[i] = wire[i]
                 \/ w.done = 0 /\ i = Len(wire) + 1 /\ wire'[i].pkt = w.pkt
           /\ \A p : Begun(wire, p) => Begun(wire', p)
           /\ Begun(wire', w.pkt)
           /\ \A i \in 1..Len(wire') : Begun(wire', wire'[i].pkt)
<1> DEFINE new == [i \in 1..k |-> [pkt |-> w.pkt, part |-> w.done + i]]
<1>1. k \in Nat /\ k >= 1 /\ w.done \in Nat BY LimitsAssumption DEF Write
<1>2. new \in Seq(Piece)
  <2>1. w.pkt \in Packet /\ w.done \in 0..Parts /\ Parts \in Nat BY LimitsAssumption DEF Write
  <2>2. \A i \in 1..k : w.done + i \in 1..Parts BY <1>1, <2>1
  <2>3. \A i \in 1..k : [pkt |-> w.pkt, part |-> w.done + i] \in Piece BY <2>1, <2>2 DEF Piece
  <2> QED BY <1>1, <2>3
<1>3. Len(new) = k /\ \A i \in 1..k : new[i] = [pkt |-> w.pkt, part |-> w.done + i]
  BY <1>1
<1>4. wire' = wire \o new OBVIOUS
<1> HIDE DEF new
<1>5. /\ Len(wire') = Len(wire) + Len(new) /\ Len(wire) \in Nat
      /\ \A i \in 1..Len(wire) : wire'[i] = wire[i]
      /\ \A i \in (Len(wire) + 1)..(Len(wire) + Len(new)) : wire'[i] = new[i - Len(wire)]
  <2>1. /\ Len(wire \o new) = Len(wire) + Len(new) /\ Len(wire) \in Nat
        /\ \A i \in 1..Len(wire) : (wire \o new)[i] = wire[i]
        /\ \A i \in (Len(wire) + 1)..(Len(wire) + Len(new)) : (wire \o new)[i] = new[i - Len(wire)]
    BY <1>2, Joined
  <2> QED BY <1>4, <2>1
<1>6. ASSUME NEW i \in (Len(wire) + 1)..(Len(wire) + k)
      PROVE  wire'[i].pkt = w.pkt /\ wire'[i].part = w.done + (i - Len(wire))
  <2>1. i - Len(wire) \in 1..k BY <1>1, <1>5
  <2>2. wire'[i] = [pkt |-> w.pkt, part |-> w.done + (i - Len(wire))] BY <1>3, <1>5, <2>1
  <2> QED BY <2>2
<1>7. Len(wire') = Len(wire) + k /\ Len(wire) \in Nat BY <1>3, <1>5
<1>8. \A i \in 1..Len(wire') : i \in 1..Len(wire) \/ i \in (Len(wire) + 1)..(Len(wire) + k)
  BY <1>1, <1>7
<1>9. ASSUME NEW i \in 1..Len(wire'), wire'[i].part = 1
      PROVE  \/ i \in 1..Len(wire) /\ wire'[i] = wire[i]
             \/ w.done = 0 /\ i = Len(wire) + 1 /\ wire'[i].pkt = w.pkt
  <2>1. CASE i \in 1..Len(wire) BY <1>5, <2>1
  <2>2. CASE i \in (Len(wire) + 1)..(Len(wire) + k) BY <1>1, <1>6, <1>7, <1>9, <2>2
  <2> QED BY <1>8, <2>1, <2>2
<1>10. \A p : Begun(wire, p) => Begun(wire', p)
  <2>1. \A j \in 1..Len(wire) : j \in 1..Len(wire') /\ wire'[j] = wire[j] BY <1>1, <1>5, <1>7
  <2> QED BY <2>1 DEF Begun
<1>11. Begun(wire', w.pkt)
  <2>1. CASE w.done = 0
    <3>1. Len(wire) + 1 \in (Len(wire) + 1)..(Len(wire) + k) BY <1>1, <1>7
    <3>2. wire'[Len(wire) + 1].pkt = w.pkt /\ wire'[Len(wire) + 1].part = 1
      BY <1>6, <1>7, <2>1, <3>1
    <3>3. Len(wire) + 1 \in 1..Len(wire') BY <1>1, <1>7
    <3> QED BY <3>2, <3>3 DEF Begun
  <2> QED BY <1>10, <2>1
<1>12. ASSUME NEW i \in 1..Len(wire') PROVE Begun(wire', wire'[i].pkt)
  <2>1. CASE i \in 1..Len(wire) BY <1>5, <1>10, <2>1
  <2>2. CASE i \in (Len(wire) + 1)..(Len(wire) + k) BY <1>6, <1>11, <2>2
  <2> QED BY <1>8, <2>1, <2>2
<1>13. Len(wire') \in Nat BY <1>1, <1>7
<1> QED BY <1>7, <1>9, <1>10, <1>11, <1>12, <1>13

-----------------------------------------------------------------------------
\* Nothing moves.
LEMMA StillThinned ==
    ASSUME Traffic, UNCHANGED <<wire, pending, write_queue>>
    PROVE  Thinned /\ Path' = Path /\ Carried' = Carried
<1>1. Path' = Path /\ Carried' = Carried BY DEF Path, Carried, At
<1> DEFINE e == [x \in Path |-> x]
<1>2. e \in [Path -> Path] /\ \A x \in Path : e[x] = x OBVIOUS
<1> HIDE DEF e
<1>3. Thins(Path, Carried, Path', Carried', e) BY <1>1, <1>2 DEF Thins
<1> QED BY <1>1, <1>3 DEF Thinned

\* The pieces that go on the wire, or the write that waits again, belong to a packet
\* whose first piece is there already.
LEMMA RestThinned ==
    ASSUME Traffic, Traffic', write_queue' = write_queue,
           \/ /\ pending' = pending
              /\ \A i \in 1..Len(wire') : wire'[i].part = 1 => i \in 1..Len(wire) /\ wire'[i] = wire[i]
           \/ wire' = wire /\ \E w \in Write : w.done # 0 /\ pending' = Append(pending, w)
    PROVE  Thinned
<1> DEFINE e == [x \in Path' |-> x]
<1> USE TrafficFacts
<1>1. PathFacts /\ PathFacts' /\ LineFacts /\ LineFacts' BY InPath, PathLine, PathNext
<1>2. ASSUME NEW x \in Path'
      PROVE  x \in Path /\ At(x)' = At(x)
  <2>0. /\ x = <<x[1], x[2]>> /\ x[1] \in 1..3
        /\ x[1] = 1 => x[2] \in 1..Len(wire') /\ wire'[x[2]].part = 1 /\ At(x)' = wire'[x[2]].pkt
        /\ x[1] = 2 => /\ x[2] \in 1..Len(pending') /\ pending'[x[2]].done = 0
                       /\ At(x)' = pending'[x[2]].pkt
        /\ x[1] = 3 => x[2] \in 1..Len(write_queue') /\ At(x)' = write_queue'[x[2]]
    BY <1>1 DEF PathFacts
  <2>1. CASE x[1] = 1
    <3>1. x[2] \in 1..Len(wire) /\ wire'[x[2]] = wire[x[2]] BY <2>0, <2>1
    <3> QED BY <1>1, <2>0, <2>1, <3>1 DEF PathFacts
  <2>2. CASE x[1] = 2
    <3>1. x[2] \in 1..Len(pending) /\ pending'[x[2]] = pending[x[2]]
      <4>1. CASE pending' = pending BY <2>0, <2>2, <4>1
      <4>2. ASSUME NEW w \in Write, w.done # 0, pending' = Append(pending, w)
            PROVE  x[2] \in 1..Len(pending) /\ pending'[x[2]] = pending[x[2]]
        <5>1. Len(pending) \in Nat /\ Len(pending') = Len(pending) + 1 /\ pending'[Len(pending) + 1] = w
          BY <4>2
        <5>2. x[2] # Len(pending) + 1 BY <2>0, <2>2, <4>2, <5>1
        <5> QED BY <2>0, <2>2, <4>2, <5>1, <5>2
      <4> QED BY <4>1, <4>2
    <3> QED BY <1>1, <2>0, <2>2, <3>1 DEF PathFacts
  <2>3. CASE x[1] = 3
    BY <1>1, <2>0, <2>3 DEF PathFacts
  <2> QED BY <2>0, <2>1, <2>2, <2>3
<1>3. e \in [Path' -> Path] /\ \A x \in Path' : e[x] = x BY <1>2
<1> HIDE DEF e
<1>4. \A x \in Path' : Carried'[x] = Carried[e[x]] BY <1>1, <1>2, <1>3 DEF LineFacts
<1>5. Thins(Path, Carried, Path', Carried', e) BY <1>3, <1>4 DEF Thins
<1> QED BY <1>5 DEF Thinned

\* The first packet of the queue goes to the wire or to the end of the writes that wait.
LEMMA TakenThinned ==
    ASSUME Traffic, Traffic', write_queue # <<>>, write_queue' = Tail(write_queue),
           \/ /\ pending = <<>> /\ pending' = <<>>
              /\ \A i \in 1..Len(wire') : wire'[i].part = 1 =>
                    \/ i \in 1..Len(wire) /\ wire'[i] = wire[i]
                    \/ i = Len(wire) + 1 /\ wire'[i].pkt = Head(write_queue)
           \/ /\ wire' = wire
              /\ \E w \in Write : w.pkt = Head(write_queue) /\ pending' = Append(pending, w)
    PROVE  Thinned
<1> DEFINE Old(x) == (x[1] = 1 /\ x[2] <= Len(wire)) \/ (x[1] = 2 /\ x[2] <= Len(pending))
           New(x) == \/ x[1] = 1 /\ x[2] = Len(wire) + 1 /\ pending' = <<>>
                     \/ x[1] = 2 /\ x[2] = Len(pending) + 1 /\ wire' = wire
           e == [x \in Path' |-> IF x[1] = 3 THEN <<3, x[2] + 1>> ELSE IF Old(x) THEN x ELSE <<3, 1>>]
<1> USE TrafficFacts
<1>1. PathFacts /\ PathFacts' /\ LineFacts /\ LineFacts' BY InPath, PathLine, PathNext
<1>a. Len(wire) \in Nat /\ Len(pending) \in Nat /\ Len(write_queue) \in Nat OBVIOUS
<1>2. /\ Len(write_queue') = Len(write_queue) - 1 /\ Len(write_queue) >= 1
      /\ Head(write_queue) = write_queue[1]
      /\ \A i \in 1..Len(write_queue') : write_queue'[i] = write_queue[i + 1] /\ i + 1 \in 1..Len(write_queue)
  OBVIOUS
<1>3. <<3, 1>> \in Path /\ At(<<3, 1>>) = Head(write_queue)
  BY <1>1, <1>2, <1>a DEF PathFacts
<1>4. ASSUME NEW x \in Path'
      PROVE  /\ x[1] \in 1..3 /\ x[2] \in Nat \ {0}
             /\ x[1] # 3 => Old(x) \/ New(x)
             /\ e[x] \in Path /\ At(x)' = At(e[x])
             /\ x[1] = 3 => e[x] = <<3, x[2] + 1>>
             /\ x[1] # 3 /\ Old(x) => e[x] = x
             /\ x[1] # 3 /\ ~Old(x) => e[x] = <<3, 1>>
             /\ x[1] = 2 => pending' # <<>>
  <2>0. /\ x = <<x[1], x[2]>> /\ x[1] \in 1..3 /\ x[2] \in Nat \ {0}
        /\ x[1] = 1 => x[2] \in 1..Len(wire') /\ wire'[x[2]].part = 1 /\ At(x)' = wire'[x[2]].pkt
        /\ x[1] = 2 => /\ x[2] \in 1..Len(pending') /\ pending'[x[2]].done = 0
                       /\ At(x)' = pending'[x[2]].pkt
        /\ x[1] = 3 => x[2] \in 1..Len(write_queue') /\ At(x)' = write_queue'[x[2]]
    BY <1>1 DEF PathFacts
  <2>e. /\ x[1] = 3 => e[x] = <<3, x[2] + 1>>
        /\ x[1] # 3 /\ Old(x) => e[x] = x
        /\ x[1] # 3 /\ ~Old(x) => e[x] = <<3, 1>>
        /\ x[1] = 2 => pending' # <<>>
    BY <2>0
  <2>1. CASE x[1] = 1
    <3>1. \/ x[2] \in 1..Len(wire) /\ wire'[x[2]] = wire[x[2]]
          \/ x[2] = Len(wire) + 1 /\ wire'[x[2]].pkt = Head(write_queue) /\ pending' = <<>>
      BY <2>0, <2>1
    <3>2. CASE x[2] \in 1..Len(wire) /\ wire'[x[2]] = wire[x[2]]
      <4>1. Old(x) BY <2>1, <3>2
      <4>2. x \in Path /\ At(x) = wire[x[2]].pkt BY <1>1, <2>0, <2>1, <3>2 DEF PathFacts
      <4> QED BY <2>0, <2>1, <2>e, <3>2, <4>1, <4>2
    <3>3. CASE x[2] = Len(wire) + 1 /\ wire'[x[2]].pkt = Head(write_queue) /\ pending' = <<>>
      <4>1. ~Old(x) /\ New(x) BY <1>a, <2>1, <3>3
      <4> QED BY <1>3, <2>0, <2>1, <2>e, <3>3, <4>1
    <3> QED BY <3>1, <3>2, <3>3
  <2>2. CASE x[1] = 2
    <3>1. PICK w \in Write : w.pkt = Head(write_queue) /\ pending' = Append(pending, w) /\ wire' = wire
      BY <2>e, <2>2
    <3>2. /\ Len(pending') = Len(pending) + 1 /\ pending'[Len(pending) + 1] = w
          /\ \A i \in 1..Len(pending) : pending'[i] = pending[i]
      BY <3>1
    <3>3. CASE x[2] \in 1..Len(pending)
      <4>1. Old(x) BY <2>2, <3>3
      <4>2. x \in Path /\ At(x) = pending[x[2]].pkt BY <1>1, <2>0, <2>2, <3>2, <3>3 DEF PathFacts
      <4> QED BY <2>0, <2>2, <2>e, <3>2, <3>3, <4>1, <4>2
    <3>4. CASE x[2] = Len(pending) + 1
      <4>1. ~Old(x) /\ New(x) BY <1>a, <2>2, <3>1, <3>4
      <4> QED BY <1>3, <2>0, <2>2, <2>e, <3>1, <3>2, <3>4, <4>1
    <3> QED BY <1>a, <2>0, <2>2, <3>2, <3>3, <3>4
  <2>3. CASE x[1] = 3
    <3>1. write_queue'[x[2]] = write_queue[x[2] + 1] /\ x[2] + 1 \in 1..Len(write_queue)
      BY <1>2, <2>0, <2>3
    <3>2. <<3, x[2] + 1>> \in Path /\ At(<<3, x[2] + 1>>) = write_queue[x[2] + 1]
      BY <1>1, <3>1 DEF PathFacts
    <3> QED BY <2>0, <2>3, <2>e, <3>1, <3>2
  <2> QED BY <2>0, <2>1, <2>2, <2>3
<1>5. e \in [Path' -> Path] BY <1>4
<1>6. \A x \in Path' : Carried'[x] = Carried[e[x]] BY <1>1, <1>4 DEF LineFacts
<1>7. ASSUME NEW x \in Path', NEW y \in Path', Before(x, y)
      PROVE  Before(e[x], e[y])
  <2> HIDE DEF e
  <2>x. /\ x[1] \in 1..3 /\ x[2] \in Nat \ {0}
        /\ x[1] # 3 => Old(x) \/ New(x)
        /\ x[1] = 3 => e[x] = <<3, x[2] + 1>>
        /\ x[1] # 3 /\ Old(x) => e[x] = x
        /\ x[1] # 3 /\ ~Old(x) => e[x] = <<3, 1>>
    BY <1>4
  <2>y. /\ y[1] \in 1..3 /\ y[2] \in Nat \ {0}
        /\ y[1] # 3 => Old(y) \/ New(y)
        /\ y[1] = 3 => e[y] = <<3, y[2] + 1>>
        /\ y[1] # 3 /\ Old(y) => e[y] = y
        /\ y[1] # 3 /\ ~Old(y) => e[y] = <<3, 1>>
        /\ y[1] = 2 => pending' # <<>>
    BY <1>4
  <2>1. x[1] < y[1] \/ (x[1] = y[1] /\ x[2] < y[2]) BY <1>7 DEF Before
  <2>2. CASE x[1] = 3
    <3>1. y[1] = 3 /\ x[2] < y[2] BY <2>x, <2>y, <2>1, <2>2
    <3> QED BY <2>x, <2>y, <2>2, <3>1 DEF Before
  <2>3. CASE x[1] # 3 /\ Old(x)
    <3>1. e[x] = x /\ x[1] < 3 BY <2>x, <2>3
    <3>2. CASE y[1] # 3 /\ Old(y) BY <1>7, <2>y, <3>1, <3>2
    <3>3. CASE y[1] = 3 BY <2>x, <2>y, <3>1, <3>3 DEF Before
    <3>4. CASE y[1] # 3 /\ ~Old(y) BY <2>x, <2>y, <3>1, <3>4 DEF Before
    <3> QED BY <3>2, <3>3, <3>4
  <2>4. CASE x[1] # 3 /\ ~Old(x)
    <3>1. New(x) /\ e[x] = <<3, 1>> BY <2>x, <2>4
    <3>2. y[1] = 3
      <4>1. CASE x[1] = 1
        <5>1. x[2] = Len(wire) + 1 /\ pending' = <<>> BY <3>1, <4>1
        <5>2. y[1] # 2 BY <2>y, <5>1
        <5>3. y[1] # 1
          <6>1. SUFFICES ASSUME y[1] = 1 PROVE FALSE OBVIOUS
          <6>2. y[2] > Len(wire) + 1 BY <2>1, <4>1, <5>1, <6>1
          <6>3. y[2] <= Len(wire) + 1 BY <1>a, <2>y, <6>1
          <6> QED BY <1>a, <2>y, <6>2, <6>3
        <5> QED BY <2>y, <5>2, <5>3
      <4>2. CASE x[1] = 2
        <5>1. x[2] = Len(pending) + 1 BY <3>1, <4>2
        <5>2. y[1] # 1 BY <2>x, <2>y, <2>1, <4>2
        <5>3. y[1] # 2
          <6>1. SUFFICES ASSUME y[1] = 2 PROVE FALSE OBVIOUS
          <6>2. y[2] > Len(pending) + 1 BY <2>1, <4>2, <5>1, <6>1
          <6>3. y[2] <= Len(pending) + 1 BY <1>a, <2>y, <6>1
          <6> QED BY <1>a, <2>y, <6>2, <6>3
        <5> QED BY <2>y, <5>2, <5>3
      <4> QED BY <2>x, <2>4, <4>1, <4>2
    <3> QED BY <2>y, <3>1, <3>2 DEF Before
  <2> QED BY <2>2, <2>3, <2>4
<1> HIDE DEF e
<1>8. Thins(Path, Carried, Path', Carried', e) BY <1>5, <1>6, <1>7 DEF Thins
<1> QED BY <1>8 DEF Thinned

\* The first write that waits goes to the wire, or fails.
LEMMA SentThinned ==
    ASSUME Traffic, Traffic', pending # <<>>, pending' = Tail(pending), write_queue' = write_queue,
           \A i \in 1..Len(wire') : wire'[i].part = 1 =>
              \/ i \in 1..Len(wire) /\ wire'[i] = wire[i]
              \/ Head(pending).done = 0 /\ i = Len(wire) + 1 /\ wire'[i].pkt = Head(pending).pkt
    PROVE  Thinned
<1> DEFINE e == [x \in Path' |-> IF x[1] = 2 THEN <<2, x[2] + 1>>
                                 ELSE IF x[1] = 1 /\ x[2] > Len(wire) THEN <<2, 1>> ELSE x]
<1> USE TrafficFacts
<1>1. PathFacts /\ PathFacts' /\ LineFacts /\ LineFacts' BY InPath, PathLine, PathNext
<1>a. Len(wire) \in Nat /\ Len(pending) \in Nat /\ Len(write_queue) \in Nat OBVIOUS
<1>2. /\ Len(pending') = Len(pending) - 1 /\ Len(pending) >= 1 /\ Head(pending) = pending[1]
      /\ \A i \in 1..Len(pending') : pending'[i] = pending[i + 1] /\ i + 1 \in 1..Len(pending)
  OBVIOUS
<1>3. Head(pending).done = 0 => <<2, 1>> \in Path /\ At(<<2, 1>>) = Head(pending).pkt
  BY <1>1, <1>2, <1>a DEF PathFacts
<1>4. ASSUME NEW x \in Path'
      PROVE  /\ x[1] \in 1..3 /\ x[2] \in Nat \ {0}
             /\ x[1] = 1 => x[2] <= Len(wire) + 1
             /\ e[x] \in Path /\ At(x)' = At(e[x])
             /\ x[1] = 2 => e[x] = <<2, x[2] + 1>>
             /\ x[1] = 1 /\ x[2] > Len(wire) => e[x] = <<2, 1>>
             /\ x[1] = 1 /\ ~(x[2] > Len(wire)) => e[x] = x
             /\ x[1] = 3 => e[x] = x
  <2>0. /\ x = <<x[1], x[2]>> /\ x[1] \in 1..3 /\ x[2] \in Nat \ {0}
        /\ x[1] = 1 => x[2] \in 1..Len(wire') /\ wire'[x[2]].part = 1 /\ At(x)' = wire'[x[2]].pkt
        /\ x[1] = 2 => /\ x[2] \in 1..Len(pending') /\ pending'[x[2]].done = 0
                       /\ At(x)' = pending'[x[2]].pkt
        /\ x[1] = 3 => x[2] \in 1..Len(write_queue') /\ At(x)' = write_queue'[x[2]]
    BY <1>1 DEF PathFacts
  <2>e. /\ x[1] = 2 => e[x] = <<2, x[2] + 1>>
        /\ x[1] = 1 /\ x[2] > Len(wire) => e[x] = <<2, 1>>
        /\ x[1] = 1 /\ ~(x[2] > Len(wire)) => e[x] = x
        /\ x[1] = 3 => e[x] = x
    OBVIOUS
  <2> HIDE DEF e
  <2>1. CASE x[1] = 1
    <3>1. \/ x[2] \in 1..Len(wire) /\ wire'[x[2]] = wire[x[2]]
          \/ Head(pending).done = 0 /\ x[2] = Len(wire) + 1 /\ wire'[x[2]].pkt = Head(pending).pkt
      BY <2>0, <2>1
    <3>2. CASE x[2] \in 1..Len(wire) /\ wire'[x[2]] = wire[x[2]]
      <4>1. ~(x[2] > Len(wire)) /\ x[2] <= Len(wire) + 1 BY <1>a, <3>2
      <4>2. x \in Path /\ At(x) = wire[x[2]].pkt BY <1>1, <2>0, <2>1, <3>2 DEF PathFacts
      <4> QED BY <2>0, <2>1, <2>e, <3>2, <4>1, <4>2
    <3>3. CASE Head(pending).done = 0 /\ x[2] = Len(wire) + 1 /\ wire'[x[2]].pkt = Head(pending).pkt
      <4>1. x[2] > Len(wire) /\ x[2] <= Len(wire) + 1 BY <1>a, <3>3
      <4> QED BY <1>3, <2>0, <2>1, <2>e, <3>3, <4>1
    <3> QED BY <3>1, <3>2, <3>3
  <2>2. CASE x[1] = 2
    <3>1. pending'[x[2]] = pending[x[2] + 1] /\ x[2] + 1 \in 1..Len(pending)
      BY <1>2, <2>0, <2>2
    <3>2. <<2, x[2] + 1>> \in Path /\ At(<<2, x[2] + 1>>) = pending[x[2] + 1].pkt
      BY <1>1, <2>0, <2>2, <3>1 DEF PathFacts
    <3>3. At(x)' = At(<<2, x[2] + 1>>) BY <2>0, <2>2, <3>1, <3>2
    <3>4. e[x] = <<2, x[2] + 1>> BY <2>2, <2>e
    <3> QED BY <2>0, <2>2, <3>2, <3>3, <3>4
  <2>3. CASE x[1] = 3
    <3>1. x \in Path /\ At(x) = write_queue[x[2]] BY <1>1, <2>0, <2>3 DEF PathFacts
    <3> QED BY <2>0, <2>3, <2>e, <3>1
  <2> QED BY <2>0, <2>1, <2>2, <2>3
<1>5. e \in [Path' -> Path] BY <1>4
<1>6. ASSUME NEW x \in Path' PROVE Carried'[x] = Carried[e[x]]
  <2>1. e[x] \in Path /\ At(x)' = At(e[x]) BY <1>4
  <2> HIDE DEF e
  <2>2. Carried'[x] = At(x)' /\ Carried[e[x]] = At(e[x]) BY <1>1, <2>1 DEF LineFacts
  <2> QED BY <2>1, <2>2
<1>7. ASSUME NEW x \in Path', NEW y \in Path', Before(x, y)
      PROVE  Before(e[x], e[y])
  <2> HIDE DEF e
  <2>x. /\ x[1] \in 1..3 /\ x[2] \in Nat \ {0}
        /\ x[1] = 1 => x[2] <= Len(wire) + 1
        /\ x[1] = 2 => e[x] = <<2, x[2] + 1>>
        /\ x[1] = 1 /\ x[2] > Len(wire) => e[x] = <<2, 1>>
        /\ x[1] = 1 /\ ~(x[2] > Len(wire)) => e[x] = x
        /\ x[1] = 3 => e[x] = x
    BY <1>4
  <2>y. /\ y[1] \in 1..3 /\ y[2] \in Nat \ {0}
        /\ y[1] = 1 => y[2] <= Len(wire) + 1
        /\ y[1] = 2 => e[y] = <<2, y[2] + 1>>
        /\ y[1] = 1 /\ y[2] > Len(wire) => e[y] = <<2, 1>>
        /\ y[1] = 1 /\ ~(y[2] > Len(wire)) => e[y] = y
        /\ y[1] = 3 => e[y] = y
    BY <1>4
  <2>1. x[1] < y[1] \/ (x[1] = y[1] /\ x[2] < y[2]) BY <1>7 DEF Before
  <2>2. CASE x[1] = 3
    <3>1. y[1] = 3 BY <2>x, <2>y, <2>1, <2>2
    <3> QED BY <1>7, <2>x, <2>y, <2>2, <3>1
  <2>3. CASE x[1] = 2
    <3>1. CASE y[1] = 3 BY <2>x, <2>y, <2>3, <3>1 DEF Before
    <3>2. CASE y[1] = 2 BY <2>x, <2>y, <2>1, <2>3, <3>2 DEF Before
    <3> QED BY <2>x, <2>y, <2>1, <2>3, <3>1, <3>2
  <2>4. CASE x[1] = 1 /\ x[2] > Len(wire)
    <3>1. e[x] = <<2, 1>> BY <2>x, <2>4
    <3>2. y[1] # 1 BY <1>a, <2>x, <2>y, <2>1, <2>4
    <3>3. CASE y[1] = 2 BY <2>y, <3>1, <3>3 DEF Before
    <3>4. CASE y[1] = 3 BY <2>y, <3>1, <3>4 DEF Before
    <3> QED BY <2>y, <3>2, <3>3, <3>4
  <2>5. CASE x[1] = 1 /\ ~(x[2] > Len(wire))
    <3>1. e[x] = x BY <2>x, <2>5
    <3>2. CASE y[1] = 2 \/ (y[1] = 1 /\ y[2] > Len(wire)) BY <2>y, <2>5, <3>1, <3>2 DEF Before
    <3>3. CASE y[1] = 3 \/ (y[1] = 1 /\ ~(y[2] > Len(wire))) BY <1>7, <2>y, <3>1, <3>3
    <3> QED BY <2>y, <3>2, <3>3
  <2> QED BY <2>x, <2>2, <2>3, <2>4, <2>5
<1> HIDE DEF e
<1>8. Thins(Path, Carried, Path', Carried', e) BY <1>5, <1>6, <1>7 DEF Thins
<1> QED BY <1>8 DEF Thinned

\* New packets join the queue, and the oldest give way: what is on its way afterwards
\* is what was, and the new ones after it, less some of them.
LEMMA EnqueueThins ==
    ASSUME Traffic, Traffic', UNCHANGED <<wire, pending>>, NEW s \in Seq(Packet),
           write_queue' = Enqueue(s)
    PROVE  \E e : Thins(Longer(Path, s), LongerAt(Path, Carried, s), Path', Carried', e)
<1> DEFINE all == write_queue \o s
           d == Len(all) - Len(write_queue')
           e == [x \in Path' |-> IF x[1] # 3 THEN x
                                 ELSE IF x[2] + d <= Len(write_queue) THEN <<3, x[2] + d>>
                                 ELSE <<4, x[2] + d - Len(write_queue)>>]
           L == Longer(Path, s)
           b == LongerAt(Path, Carried, s)
<1> USE TrafficFacts
<1>1. PathFacts /\ PathFacts' /\ LineFacts /\ LineFacts' BY InPath, PathLine, PathNext
<1>2. /\ all \in Seq(Packet) /\ Len(all) = Len(write_queue) + Len(s) /\ Len(write_queue) \in Nat /\ Len(s) \in Nat
      /\ \A i \in 1..Len(write_queue) : all[i] = write_queue[i]
      /\ \A i \in (Len(write_queue) + 1)..(Len(write_queue) + Len(s)) : all[i] = s[i - Len(write_queue)]
  BY Joined
<1>3. write_queue' = LastOf(all, MaxQueue) /\ MaxQueue \in Nat BY LimitsAssumption DEF Enqueue
<1> HIDE DEF all
<1>4. /\ Len(write_queue') \in Nat /\ Len(all) - Len(write_queue') \in Nat
      /\ \A i \in 1..Len(write_queue') : write_queue'[i] = all[i + (Len(all) - Len(write_queue'))]
  <2>1. all \in Seq(Packet) /\ MaxQueue \in Nat BY <1>2, <1>3
  <2>2. /\ Len(LastOf(all, MaxQueue)) \in Nat /\ Len(all) - Len(LastOf(all, MaxQueue)) \in Nat
        /\ \A i \in 1..Len(LastOf(all, MaxQueue)) :
              LastOf(all, MaxQueue)[i] = all[i + (Len(all) - Len(LastOf(all, MaxQueue)))]
    BY <2>1, LastOfFacts
  <2> QED BY <1>3, <2>2
<1>5. /\ d \in Nat /\ Len(write_queue') + d = Len(write_queue) + Len(s)
      /\ \A i \in 1..Len(write_queue') : write_queue'[i] = all[i + d]
  BY <1>2, <1>4
<1> HIDE DEF d
<1>6. /\ \A x \in Path : x \in L /\ b[x] = At(x)
      /\ \A i \in 1..Len(s) : <<4, i>> \in L /\ b[<<4, i>>] = s[i]
  <2>1. Line(Path, Carried) /\ Near(Path) /\ \A x \in Path : Carried[x] = At(x) BY <1>1 DEF LineFacts
  <2>2. /\ \A x \in Path : b[x] = Carried[x]
        /\ \A i \in 1..Len(s) : b[<<4, i>>] = s[i]
    BY <2>1, LongerLine
  <2>3. \A x \in Path : x \in L BY DEF Longer
  <2>4. \A i \in 1..Len(s) : <<4, i>> \in L BY DEF Longer
  <2> QED BY <2>1, <2>2, <2>3, <2>4
<1> HIDE DEF L, b
<1>7. ASSUME NEW x \in Path'
      PROVE  /\ x[1] \in 1..3 /\ x[2] \in Nat \ {0}
             /\ e[x] \in L /\ Carried'[x] = b[e[x]]
             /\ x[1] # 3 => e[x] = x
             /\ x[1] = 3 /\ x[2] + d <= Len(write_queue) => e[x] = <<3, x[2] + d>>
             /\ x[1] = 3 /\ ~(x[2] + d <= Len(write_queue)) => e[x] = <<4, x[2] + d - Len(write_queue)>>
  <2>0. /\ x = <<x[1], x[2]>> /\ x[1] \in 1..3 /\ x[2] \in Nat \ {0}
        /\ x[1] = 1 => x[2] \in 1..Len(wire') /\ wire'[x[2]].part = 1 /\ At(x)' = wire'[x[2]].pkt
        /\ x[1] = 2 => /\ x[2] \in 1..Len(pending') /\ pending'[x[2]].done = 0
                       /\ At(x)' = pending'[x[2]].pkt
        /\ x[1] = 3 => x[2] \in 1..Len(write_queue') /\ At(x)' = write_queue'[x[2]]
        /\ Carried'[x] = At(x)'
    BY <1>1 DEF PathFacts, LineFacts
  <2>e. /\ x[1] # 3 => e[x] = x
        /\ x[1] = 3 /\ x[2] + d <= Len(write_queue) => e[x] = <<3, x[2] + d>>
        /\ x[1] = 3 /\ ~(x[2] + d <= Len(write_queue)) => e[x] = <<4, x[2] + d - Len(write_queue)>>
    OBVIOUS
  <2> HIDE DEF e
  <2>1. CASE x[1] # 3
    <3>1. x \in Path /\ At(x)' = At(x) BY <1>1, <2>0, <2>1 DEF PathFacts
    <3> QED BY <1>6, <2>0, <2>1, <2>e, <3>1
  <2>2. CASE x[1] = 3 /\ x[2] + d <= Len(write_queue)
    <3>1. x[2] + d \in 1..Len(write_queue) BY <1>2, <1>5, <2>0, <2>2
    <3>2. At(x)' = write_queue[x[2] + d] BY <1>2, <1>5, <2>0, <2>2, <3>1
    <3>3. <<3, x[2] + d>> \in Path /\ At(<<3, x[2] + d>>) = write_queue[x[2] + d]
      BY <1>1, <3>1 DEF PathFacts
    <3> QED BY <1>6, <2>0, <2>2, <2>e, <3>2, <3>3
  <2>3. CASE x[1] = 3 /\ ~(x[2] + d <= Len(write_queue))
    <3>1. /\ x[2] + d \in (Len(write_queue) + 1)..(Len(write_queue) + Len(s))
          /\ x[2] + d - Len(write_queue) \in 1..Len(s)
      <4>1. x[2] \in 1..Len(write_queue') BY <2>0, <2>3
      <4>2. /\ x[2] \in Nat /\ Len(write_queue) \in Nat /\ Len(s) \in Nat /\ d \in Nat
            /\ Len(write_queue') \in Nat /\ Len(write_queue') + d = Len(write_queue) + Len(s)
        BY <1>2, <1>4, <1>5, <2>0
      <4>3. ~(x[2] + d <= Len(write_queue)) BY <2>3
      <4> HIDE TrafficFacts
      <4> QED BY <4>1, <4>2, <4>3
    <3>2. At(x)' = s[x[2] + d - Len(write_queue)]
      <4>1. At(x)' = all[x[2] + d] BY <1>5, <2>0, <2>3
      <4>2. all[x[2] + d] = s[(x[2] + d) - Len(write_queue)] BY <1>2, <3>1
      <4>3. (x[2] + d) - Len(write_queue) = x[2] + d - Len(write_queue) BY <1>2, <1>5, <2>0
      <4> QED BY <4>1, <4>2, <4>3
    <3> QED BY <1>6, <2>0, <2>3, <2>e, <3>1, <3>2
  <2> QED BY <2>1, <2>2, <2>3
<1>8. e \in [Path' -> L] BY <1>7
<1>9. ASSUME NEW x \in Path', NEW y \in Path', Before(x, y)
      PROVE  Before(e[x], e[y])
  <2> HIDE DEF e
  <2>x. /\ x[1] \in 1..3 /\ x[2] \in Nat \ {0}
        /\ x[1] # 3 => e[x] = x
        /\ x[1] = 3 /\ x[2] + d <= Len(write_queue) => e[x] = <<3, x[2] + d>>
        /\ x[1] = 3 /\ ~(x[2] + d <= Len(write_queue)) => e[x] = <<4, x[2] + d - Len(write_queue)>>
    BY <1>7
  <2>y. /\ y[1] \in 1..3 /\ y[2] \in Nat \ {0}
        /\ y[1] # 3 => e[y] = y
        /\ y[1] = 3 /\ y[2] + d <= Len(write_queue) => e[y] = <<3, y[2] + d>>
        /\ y[1] = 3 /\ ~(y[2] + d <= Len(write_queue)) => e[y] = <<4, y[2] + d - Len(write_queue)>>
    BY <1>7
  <2>1. x[1] < y[1] \/ (x[1] = y[1] /\ x[2] < y[2]) BY <1>9 DEF Before
  <2>2. CASE x[1] # 3 /\ y[1] # 3 BY <1>9, <2>x, <2>y, <2>2
  <2>3. CASE x[1] # 3 /\ y[1] = 3
    <3>1. e[x] = x /\ x[1] < 3 BY <2>x, <2>3
    <3>2. e[y][1] = 3 \/ e[y][1] = 4 BY <2>y, <2>3
    <3> QED BY <2>x, <3>1, <3>2 DEF Before
  <2>4. CASE x[1] = 3
    <3>1. y[1] = 3 /\ x[2] < y[2] BY <2>x, <2>y, <2>1, <2>4
    <3>a. d \in Nat /\ Len(write_queue) \in Nat BY <1>2, <1>5
    <3>2. CASE x[2] + d <= Len(write_queue) /\ y[2] + d <= Len(write_queue)
      <4>1. e[x] = <<3, x[2] + d>> /\ e[y] = <<3, y[2] + d>> BY <2>x, <2>y, <2>4, <3>1, <3>2
      <4>2. x[2] + d < y[2] + d BY <2>x, <2>y, <3>a, <3>1
      <4> QED BY <4>1, <4>2 DEF Before
    <3>3. CASE x[2] + d <= Len(write_queue) /\ ~(y[2] + d <= Len(write_queue))
      BY <1>2, <1>5, <2>x, <2>y, <2>4, <3>1, <3>3 DEF Before
    <3>4. CASE ~(x[2] + d <= Len(write_queue))
      <4>1. ~(y[2] + d <= Len(write_queue)) BY <2>x, <2>y, <3>a, <3>1, <3>4
      <4>2. e[x] = <<4, x[2] + d - Len(write_queue)>> /\ e[y] = <<4, y[2] + d - Len(write_queue)>>
        BY <2>x, <2>y, <2>4, <3>1, <3>4, <4>1
      <4>3. x[2] + d - Len(write_queue) < y[2] + d - Len(write_queue) BY <2>x, <2>y, <3>a, <3>1
      <4> QED BY <4>2, <4>3 DEF Before
    <3> QED BY <3>2, <3>3, <3>4
  <2> QED BY <2>2, <2>3, <2>4
<1> HIDE DEF e
<1>10. Thins(L, b, Path', Carried', e) BY <1>7, <1>8, <1>9 DEF Thins
<1> QED BY <1>10 DEF L, b

-----------------------------------------------------------------------------
(***************************************************************************)
(* What the steps share.                                                   *)
(***************************************************************************)
\* The ends of writes in r are those of q, or some of them.
SameWrites(q, r) ==
    \A i \in 1..Len(r) : r[i][1] = "written" => \E j \in 1..Len(q) : q[j] = r[i]

\* Tasks, and handlers of other kinds, are no ends of writes.
LEMMA SameWritesFacts ==
    ASSUME NEW q, Bounded(q)
    PROVE  /\ SameWrites(q, q)
           /\ q # <<>> => SameWrites(q, Tail(q))
           /\ \A n \in Nat, kind \in {"write", "read"} : SameWrites(q, PostTask(q, kind, n))
           /\ \A h \in Handler : h[1] # "written" => SameWrites(q, Append(q, h))
<1>0. q \in Seq(Handler) /\ Len(q) \in Nat BY DEF Bounded
<1>1. SameWrites(q, q) BY DEF SameWrites
<1>2. ASSUME q # <<>> PROVE SameWrites(q, Tail(q))
  <2>1. \A i \in 1..Len(Tail(q)) : i + 1 \in 1..Len(q) /\ Tail(q)[i] = q[i + 1]
    BY <1>0, <1>2
  <2> QED BY <2>1 DEF SameWrites
<1>3. ASSUME NEW n \in Nat, NEW kind \in {"write", "read"} PROVE SameWrites(q, PostTask(q, kind, n))
  <2> DEFINE p == PostTask(q, kind, n)
  <2>1. /\ Bounded(p) /\ Len(p) \in Len(q)..(Len(q) + n)
        /\ \A i \in 1..Len(q) : p[i] = q[i]
        /\ \A i \in (Len(q) + 1)..Len(p) : p[i] = <<"task", kind>>
    BY Posts
  <2> HIDE DEF p
  <2>2. \A i \in 1..Len(p) : i \in 1..Len(q) \/ i \in (Len(q) + 1)..Len(p) BY <1>0, <2>1
  <2>3. SameWrites(q, p) BY <2>1, <2>2 DEF SameWrites
  <2> QED BY <2>3 DEF p
<1>4. ASSUME NEW h \in Handler, h[1] # "written" PROVE SameWrites(q, Append(q, h))
  <2>1. /\ Len(Append(q, h)) = Len(q) + 1 /\ Append(q, h)[Len(q) + 1] = h
        /\ \A i \in 1..Len(q) : Append(q, h)[i] = q[i]
    BY <1>0
  <2>2. \A i \in 1..Len(Append(q, h)) : i \in 1..Len(q) \/ i = Len(q) + 1 BY <1>0, <2>1
  <2> QED BY <1>4, <2>1, <2>2 DEF SameWrites
<1> QED BY <1>1, <1>2, <1>3, <1>4

\* One after another.
LEMMA SameWritesTwice ==
    ASSUME NEW q, NEW r, NEW t, SameWrites(q, r), SameWrites(r, t)
    PROVE  SameWrites(q, t)
BY DEF SameWrites

\* A step that moves no packet and ends no write.
LEMMA FirstPieceKept ==
    ASSUME FirstPiece, SameWrites(ready, ready'), UNCHANGED <<wire, pending>>
    PROVE  FirstPiece'
<1>1. ASSUME NEW i \in 1..Len(ready'), ready'[i][1] = "written"
      PROVE  ready'[i][2].done # 0 /\ Begun(wire, ready'[i][2].pkt)
  <2>1. PICK j \in 1..Len(ready) : ready[j] = ready'[i] BY <1>1 DEF SameWrites
  <2> QED BY <1>1, <2>1 DEF FirstPiece
<1> QED BY <1>1 DEF FirstPiece, Begun

\* The parts from which LineInv is put together again.
LEMMA LineAgain ==
    ASSUME Once(Path', Carried'), Ordered(Path', Carried'), KeyFirst(Path', Carried', keys'),
           \A x \in Path' : Fits(At(x)', sent', past', is_encrypted', unp_packets'),
           is_encrypted' => keys' > 0, Numbered', FirstPiece'
    PROVE  LineInv'
<1>1. \A x \in Path' : Fits(At(x), sent, past, is_encrypted, unp_packets)'
  BY DEF Fits
<1> QED BY <1>1 DEF LineInv, Once, Ordered, KeyFirst, Keys, Before

\* New packets in the queue: they are new, in order and after what is encrypted, and
\* each is no key, or the first is one and follows the k - 1 before it.
LEMMA EnqueueKeeps ==
    ASSUME Traffic, Traffic', LineInv, UNCHANGED <<wire, pending>>, NEW s \in Seq(Packet),
           write_queue' = Enqueue(s), NEW k \in Nat,
           \A i, j \in 1..Len(s) : i # j /\ s[i].id = s[j].id => s[i].id = PublicKey,
           \A i \in 1..Len(s), x \in Path : At(x).id = s[i].id => s[i].id = PublicKey,
           \A i, j \in 1..Len(s) : i < j => MayPrecede(s[i], s[j]),
           \A i \in 1..Len(s), x \in Path : MayPrecede(At(x), s[i]),
           \/ k = keys /\ \A i \in 1..Len(s) : s[i].id # PublicKey /\ (s[i].enc => k > 0)
           \/ /\ k = keys + 1 /\ Len(s) >= 1 /\ s[1].id = PublicKey /\ ~s[1].enc
              /\ \A i \in 1..Len(s) : i # 1 => s[i].id # PublicKey
    PROVE  /\ Once(Path', Carried') /\ Ordered(Path', Carried') /\ KeyFirst(Path', Carried', k)
           /\ \A x \in Path' : \/ \E y \in Path : At(x)' = At(y)
                               \/ \E i \in 1..Len(s) : At(x)' = s[i]
<1> DEFINE L == Longer(Path, s)
           b == LongerAt(Path, Carried, s)
<1>1. LineFacts /\ LineFacts' BY PathLine, PathNext
<1>2. Line(Path, Carried) /\ Near(Path) /\ Line(Path', Carried') /\ \A x \in Path : Carried[x] = At(x)
  BY <1>1 DEF LineFacts
<1>3. PICK e : Thins(L, b, Path', Carried', e) BY EnqueueThins
<1>4. /\ Line(L, b)
      /\ \A x \in Path : b[x] = Carried[x]
      /\ \A i \in 1..Len(s) : b[<<4, i>>] = s[i]
  BY <1>2, LongerLine
<1>5. Once(L, b)
  <2>1. Once(Path, Carried) BY DEF LineInv
  <2>2. \A i \in 1..Len(s), x \in Path : Carried[x].id = s[i].id => s[i].id = PublicKey BY <1>2
  <2> QED BY <1>2, <2>1, <2>2, LongerOnce
<1>6. Ordered(L, b)
  <2>1. Ordered(Path, Carried) BY DEF LineInv
  <2>2. \A i \in 1..Len(s), x \in Path : MayPrecede(Carried[x], s[i]) BY <1>2
  <2> QED BY <1>2, <2>1, <2>2, LongerOrdered
<1>7. KeyFirst(L, b, k)
  <2>1. KeyFirst(Path, Carried, keys) /\ keys \in Nat
    BY LimitsAssumption DEF LineInv, Traffic, TypeOK
  <2>2. CASE k = keys /\ \A i \in 1..Len(s) : s[i].id # PublicKey /\ (s[i].enc => k > 0)
    BY <1>2, <2>1, <2>2, LongerNoKey
  <2>3. CASE /\ k = keys + 1 /\ Len(s) >= 1 /\ s[1].id = PublicKey /\ ~s[1].enc
             /\ \A i \in 1..Len(s) : i # 1 => s[i].id # PublicKey
    BY <1>2, <2>1, <2>3, LongerKey
  <2> QED BY <2>2, <2>3
<1>8. \A x \in L : x \in Path \/ \E i \in 1..Len(s) : x = <<4, i>> BY DEF Longer
<1> HIDE DEF L, b
<1>9. Once(Path', Carried') /\ Ordered(Path', Carried') /\ KeyFirst(Path', Carried', k)
  BY <1>2, <1>3, <1>4, <1>5, <1>6, <1>7, ThinKeeps
<1>10. ASSUME NEW x \in Path'
       PROVE  (\E y \in Path : At(x)' = At(y)) \/ (\E i \in 1..Len(s) : At(x)' = s[i])
  <2>1. e[x] \in L /\ Carried'[x] = b[e[x]] BY <1>3 DEF Thins
  <2>2. Carried'[x] = At(x)' BY <1>1 DEF LineFacts
  <2>3. CASE e[x] \in Path
    <3>1. At(x)' = At(e[x]) BY <1>2, <1>4, <2>1, <2>2, <2>3
    <3> QED BY <2>3, <3>1
  <2>4. ASSUME NEW i \in 1..Len(s), e[x] = <<4, i>> PROVE At(x)' = s[i]
    BY <1>4, <2>1, <2>2, <2>4
  <2> QED BY <1>8, <2>1, <2>3, <2>4
<1> QED BY <1>9, <1>10

\* A buffer that loses entries, or whose entries lose their packets.
LEMMA PickedKeeps ==
    ASSUME NEW u, NEW v, NEW t, Picked(v, t), Len(u) \in Nat, Len(v) = Len(u),
           \A i \in 1..Len(u) : v[i].id = u[i].id /\ (~v[i].empty => ~u[i].empty),
           NEW n, NEW old
    PROVE  /\ Kept(u, n, old) => Kept(t, n, old)
           /\ \A p, on : Fits(p, n, old, on, u) => Fits(p, n, old, on, t)
<1>1. PICK pos \in [1..Len(t) -> 1..Len(v)] :
        /\ \A i, j \in 1..Len(t) : i < j => pos[i] < pos[j]
        /\ \A i \in 1..Len(t) : t[i] = v[pos[i]]
  BY DEF Picked
<1>2. \A i \in 1..Len(t) : /\ pos[i] \in 1..Len(v) /\ pos[i] \in 1..Len(u)
                           /\ t[i].id = u[pos[i]].id /\ (~t[i].empty => ~u[pos[i]].empty)
                           /\ t[i] = v[pos[i]]
  BY <1>1
<1>3. ASSUME Kept(u, n, old) PROVE Kept(t, n, old)
  <2>1. \A i \in 1..Len(t) : t[i].id <= n /\ (~t[i].empty => t[i].id \notin old)
    BY <1>2, <1>3 DEF Kept
  <2>2. ASSUME NEW i \in 1..Len(t), NEW j \in 1..Len(t), i < j PROVE t[i].id < t[j].id
    <3>1. pos[i] < pos[j] BY <1>1, <2>2
    <3>2. u[pos[i]].id < u[pos[j]].id BY <1>2, <1>3, <3>1 DEF Kept
    <3> QED BY <1>2, <3>2
  <2> QED BY <2>1, <2>2 DEF Kept
<1>4. ASSUME NEW p, NEW on, Fits(p, n, old, on, u) PROVE Fits(p, n, old, on, t)
  BY <1>2, <1>4 DEF Fits
<1> QED BY <1>3, <1>4

\* A step that moves no packet.
LEMMA StillLine ==
    ASSUME Traffic, Traffic', LineInv, UNCHANGED <<wire, pending, write_queue, keys, is_encrypted>>,
           FirstPiece', Numbered',
           \A p \in Packet : Fits(p, sent, past, is_encrypted, unp_packets)
                                => Fits(p, sent', past', is_encrypted, unp_packets')
    PROVE  LineInv'
<1>1. Path' = Path /\ Carried' = Carried BY StillThinned
<1>2. LineFacts /\ LineFacts' BY PathLine, PathNext
<1>3. ASSUME NEW x \in Path' PROVE Fits(At(x)', sent', past', is_encrypted', unp_packets')
  <2>1. x \in Path /\ At(x)' = At(x) /\ At(x) \in Packet BY <1>1, <1>2 DEF LineFacts
  <2>2. Fits(At(x), sent, past, is_encrypted, unp_packets) BY <2>1 DEF LineInv
  <2> QED BY <2>1, <2>2
<1>4. Once(Path', Carried') /\ Ordered(Path', Carried') /\ KeyFirst(Path', Carried', keys')
  BY <1>1 DEF LineInv
<1> QED BY <1>3, <1>4, LineAgain DEF LineInv

\* Nor one that changes only the queue of handlers and the reads.
LEMMA IdleLine ==
    ASSUME Traffic, Traffic', LineInv, SameWrites(ready, ready'),
           UNCHANGED <<wire, pending, write_queue, keys, is_encrypted, sent, past, unp_packets>>
    PROVE  LineInv'
<1>1. FirstPiece' BY FirstPieceKept DEF LineInv
<1>2. Numbered' BY DEF LineInv, Numbered, Kept
<1> QED BY <1>1, <1>2, StillLine

\* SendPacket numbers the packet above all others.
LEMMA SendPacketLine == Traffic /\ LineInv /\ SendPacket => LineInv'
<1> SUFFICES ASSUME Traffic, LineInv, SendPacket PROVE LineInv' OBVIOUS
<1> USE TrafficFacts
<1>1. /\ TypeOK /\ Traffic' /\ sent' = sent + 1 /\ sent \in Nat /\ sent' \in 1..MaxSent
      /\ UNCHANGED <<wire, pending, keys, is_encrypted, past>>
  BY SendPacketTraffic, LimitsAssumption
     DEF Traffic, TypeOK, SendPacket, NextPacket, sessionVars, socketVars
<1>2. /\ past \subseteq 1..sent /\ Kept(unp_packets, sent, past) /\ FirstPiece
      /\ \A x \in Path : Fits(At(x), sent, past, is_encrypted, unp_packets)
  BY DEF LineInv, Numbered
<1>3. past' \subseteq 1..sent' BY <1>1, <1>2
<1>a. \A i \in 1..Len(unp_packets) : unp_packets[i].id \in Nat
  <2>1. \A i \in 1..Len(unp_packets) : unp_packets[i] \in Entry OBVIOUS
  <2> QED BY <2>1, LimitsAssumption DEF Entry
<1>4. Kept(unp_packets, sent', past)
  <2>1. \A i \in 1..Len(unp_packets) : unp_packets[i].id <= sent BY <1>2 DEF Kept
  <2>2. \A i \in 1..Len(unp_packets) : unp_packets[i].id <= sent' BY <1>1, <1>a, <2>1
  <2> QED BY <1>2, <2>2 DEF Kept
<1>5. CASE /\ connected /\ UNCHANGED unp_packets
           /\ write_queue' = Enqueue(<<[id |-> sent', enc |-> is_encrypted]>>)
           /\ ready' = PostTask(ready, "write", 1)
  <2> DEFINE new == [id |-> sent', enc |-> is_encrypted]
             s == <<new>>
  <2>1. new \in Packet /\ new.id = sent' /\ new.enc = is_encrypted BY <1>1 DEF TypeOK, Packet, Ids
  <2>2. s \in Seq(Packet) /\ Len(s) = 1 /\ s[1] = new BY <2>1
  <2>3. write_queue' = Enqueue(s) BY <1>5
  <2> HIDE DEF new, s
  <2>4. \A i \in 1..Len(s) : i = 1 /\ s[i] = new BY <2>2
  <2>5. keys \in Nat /\ (is_encrypted => keys > 0) BY LimitsAssumption, <1>1 DEF TypeOK, LineInv
  <2>6. ASSUME NEW x \in Path PROVE At(x).id < sent' /\ At(x).id \in Nat
    <3>1. At(x) \in Packet BY PathLine DEF LineFacts
    <3>2. At(x).id \in Nat BY <3>1, LimitsAssumption DEF Packet, Ids
    <3> QED BY <1>1, <1>2, <3>2 DEF Fits
  <2>7. \A i \in 1..Len(s) : s[i].id # PublicKey /\ (s[i].enc => keys > 0)
    BY <1>1, <2>1, <2>4, <2>5 DEF PublicKey
  <2>8. \A i \in 1..Len(s), x \in Path : At(x).id # s[i].id /\ MayPrecede(At(x), s[i])
    BY <1>1, <2>1, <2>4, <2>6 DEF MayPrecede
  <2>9. \A i, j \in 1..Len(s) : i = j /\ ~(i < j) BY <2>4
  <2>10. /\ Once(Path', Carried') /\ Ordered(Path', Carried') /\ KeyFirst(Path', Carried', keys)
         /\ \A x \in Path' : \/ \E y \in Path : At(x)' = At(y)
                             \/ \E i \in 1..Len(s) : At(x)' = s[i]
    <3>1. /\ \A i, j \in 1..Len(s) : i # j /\ s[i].id = s[j].id => s[i].id = PublicKey
          /\ \A i, j \in 1..Len(s) : i < j => MayPrecede(s[i], s[j])
      BY <2>9
    <3>2. /\ \A i \in 1..Len(s), x \in Path : At(x).id = s[i].id => s[i].id = PublicKey
          /\ \A i \in 1..Len(s), x \in Path : MayPrecede(At(x), s[i])
      BY <2>8
    <3> QED BY <1>1, <2>2, <2>3, <2>5, <2>7, <3>1, <3>2, EnqueueKeeps
  <2>11. Fits(new, sent', past, is_encrypted, unp_packets)
    <3>1. new.id <= sent' BY <1>1, <2>1
    <3>2. new.id \notin past BY <1>1, <1>2, <2>1
    <3>3. \A i \in 1..Len(unp_packets) : unp_packets[i].id <= sent BY <1>2 DEF Kept
    <3>4. \A i \in 1..Len(unp_packets) : new.id # unp_packets[i].id BY <1>1, <1>a, <2>1, <3>3
    <3>5. new.enc => is_encrypted BY <2>1
    <3> QED BY <3>1, <3>2, <3>4, <3>5 DEF Fits
  <2>12. ASSUME NEW x \in Path PROVE Fits(At(x), sent', past, is_encrypted, unp_packets)
    BY <1>1, <1>2, <2>6 DEF Fits
  <2>13. \A x \in Path' : Fits(At(x)', sent', past', is_encrypted', unp_packets')
    <3> SUFFICES ASSUME NEW x \in Path' PROVE Fits(At(x)', sent', past, is_encrypted, unp_packets)
      BY <1>1, <1>5
    <3> QED BY <2>4, <2>10, <2>11, <2>12
  <2>14. Numbered' BY <1>1, <1>3, <1>4, <1>5 DEF Numbered, Kept
  <2>15. FirstPiece'
    <3>1. PICK n \in Nat : n = 1 OBVIOUS
    <3>2. SameWrites(ready, PostTask(ready, "write", n)) BY SameWritesFacts
    <3> QED BY <1>1, <1>2, <1>5, <3>1, <3>2, FirstPieceKept
  <2> QED BY <1>1, <2>5, <2>10, <2>13, <2>14, <2>15, LineAgain
<1>6. CASE UNCHANGED <<write_queue, ready, unp_packets>>
  <2>1. FirstPiece' BY <1>1, <1>2, <1>6, SameWritesFacts, FirstPieceKept
  <2>2. Numbered' BY <1>1, <1>3, <1>4, <1>6 DEF Numbered, Kept
  <2>3. \A p \in Packet : Fits(p, sent, past, is_encrypted, unp_packets)
                             => Fits(p, sent', past', is_encrypted, unp_packets')
    <3>1. \A p \in Packet : p.id \in Nat BY LimitsAssumption DEF Packet, Ids
    <3> QED BY <1>1, <1>6, <3>1 DEF Fits
  <2> QED BY <1>1, <1>6, <2>1, <2>2, <2>3, StillLine
<1>7. CASE unprocessed_add(sent') /\ UNCHANGED <<write_queue, ready>>
  <2> DEFINE entry == [id |-> sent', empty |-> FALSE, bUsed |-> FALSE]
             all == Append(unp_packets, entry)
  <2>0. CASE sent' \notin SyncPackets
    BY <1>6, <1>7, <2>0 DEF unprocessed_add
  <2>a. CASE sent' \in SyncPackets
    <3>1. entry \in Entry /\ entry.id = sent' /\ ~entry.empty BY <1>1 DEF Entry
    <3>2. unp_packets' = LastOf(all, MaxUnprocessed) BY <1>7, <2>a DEF unprocessed_add
    <3> HIDE DEF entry
    <3>3. /\ all \in Seq(Entry) /\ Len(all) = Len(unp_packets) + 1 /\ Len(unp_packets) \in Nat
          /\ all[Len(unp_packets) + 1] = entry /\ \A i \in 1..Len(unp_packets) : all[i] = unp_packets[i]
      BY <3>1
    <3> HIDE DEF all
    <3>4. /\ Len(unp_packets') \in Nat /\ Len(all) - Len(unp_packets') \in Nat
          /\ \A i \in 1..Len(unp_packets') : unp_packets'[i] = all[i + (Len(all) - Len(unp_packets'))]
      <4>1. MaxUnprocessed \in Nat BY LimitsAssumption
      <4>2. /\ Len(LastOf(all, MaxUnprocessed)) \in Nat /\ Len(all) - Len(LastOf(all, MaxUnprocessed)) \in Nat
            /\ \A i \in 1..Len(LastOf(all, MaxUnprocessed)) :
                  LastOf(all, MaxUnprocessed)[i] = all[i + (Len(all) - Len(LastOf(all, MaxUnprocessed)))]
        BY <3>3, <4>1, LastOfFacts
      <4> QED BY <3>2, <4>2
    <3> DEFINE d == Len(all) - Len(unp_packets')
    <3>5. /\ d \in Nat
          /\ \A i \in 1..Len(unp_packets') : i + d \in 1..Len(all) /\ unp_packets'[i] = all[i + d]
      BY <3>3, <3>4
    <3> HIDE DEF d
    <3>6. \A i \in 1..Len(all) : i \in 1..Len(unp_packets) \/ i = Len(unp_packets) + 1 BY <3>3
    <3>7. Kept(all, sent', past)
      <4>1. ASSUME NEW i \in 1..Len(all)
            PROVE  all[i].id <= sent' /\ (~all[i].empty => all[i].id \notin past)
        <5>1. CASE i \in 1..Len(unp_packets) BY <1>4, <3>3, <5>1 DEF Kept
        <5>2. CASE i = Len(unp_packets) + 1 BY <1>1, <1>2, <3>1, <3>3, <5>2
        <5> QED BY <3>6, <5>1, <5>2
      <4>2. ASSUME NEW i \in 1..Len(all), NEW j \in 1..Len(all), i < j
            PROVE  all[i].id < all[j].id
        <5>1. i \in 1..Len(unp_packets) BY <3>3, <3>6, <4>2
        <5>2. CASE j \in 1..Len(unp_packets) BY <1>2, <3>3, <4>2, <5>1, <5>2 DEF Kept
        <5>3. CASE j = Len(unp_packets) + 1
          <6>1. all[i].id = unp_packets[i].id /\ unp_packets[i].id <= sent /\ unp_packets[i].id \in Nat
            BY <1>2, <1>a, <3>3, <5>1 DEF Kept
          <6>2. all[j].id = sent' BY <3>1, <3>3, <5>3
          <6> QED BY <1>1, <6>1, <6>2
        <5> QED BY <3>6, <5>2, <5>3
      <4> QED BY <4>1, <4>2 DEF Kept
    <3>8. Kept(unp_packets', sent', past)
      <4>1. \A i \in 1..Len(unp_packets') :
              unp_packets'[i].id <= sent' /\ (~unp_packets'[i].empty => unp_packets'[i].id \notin past)
        BY <3>5, <3>7 DEF Kept
      <4>2. ASSUME NEW i \in 1..Len(unp_packets'), NEW j \in 1..Len(unp_packets'), i < j
            PROVE  unp_packets'[i].id < unp_packets'[j].id
        <5>1. i + d < j + d BY <3>4, <3>5, <4>2
        <5>2. all[i + d].id < all[j + d].id BY <3>5, <3>7, <5>1 DEF Kept
        <5> QED BY <3>5, <5>2
      <4> QED BY <4>1, <4>2 DEF Kept
    <3>9. Numbered' BY <1>1, <1>3, <3>8 DEF Numbered, Kept
    <3>10. FirstPiece' BY <1>1, <1>2, <1>7, SameWritesFacts, FirstPieceKept
    <3>11. ASSUME NEW p \in Packet, Fits(p, sent, past, is_encrypted, unp_packets)
           PROVE  Fits(p, sent', past', is_encrypted, unp_packets')
      <4>1. p.id \in Nat /\ p.id <= sent /\ p.id < sent' BY <1>1, <3>11, LimitsAssumption DEF Fits, Packet, Ids
      <4>2. \A i \in 1..Len(all) : ~all[i].empty => p.id # all[i].id
        BY <1>1, <3>1, <3>3, <3>6, <3>11, <4>1 DEF Fits
      <4>3. \A i \in 1..Len(unp_packets') : ~unp_packets'[i].empty => p.id # unp_packets'[i].id
        BY <3>5, <4>2
      <4> QED BY <1>1, <3>11, <4>1, <4>3 DEF Fits
    <3> QED BY <1>1, <1>7, <3>9, <3>10, <3>11, StillLine
  <2> QED BY <2>0, <2>a
<1> QED BY <1>5, <1>6, <1>7 DEF SendPacket

\* A session begins.
LEMMA SessionStartLine == Traffic /\ LineInv /\ SessionStart => LineInv'
<1> SUFFICES ASSUME Traffic, LineInv, SessionStart PROVE LineInv' OBVIOUS
<1>1. Traffic' BY SessionStartTraffic
<1>2. PICK n \in Nat : n = 1 OBVIOUS
<1>3. SameWrites(ready, PostTask(ready, "read", n)) BY TrafficFacts, SameWritesFacts
<1>4. SameWrites(ready, ready') BY <1>2, <1>3 DEF SessionStart
<1> QED BY <1>1, <1>4, IdleLine DEF SessionStart, socketVars

\* A session ends: what it has begun to write is past, and was not in the buffer.
LEMMA SessionLostLine == Traffic /\ LineInv /\ SessionLost => LineInv'
<1> SUFFICES ASSUME Traffic, LineInv, SessionLost PROVE LineInv' OBVIOUS
<1> USE TrafficFacts
<1>1. /\ Traffic' /\ connected' = FALSE /\ is_encrypted' = FALSE /\ keys' = 0
      /\ wire' = <<>> /\ pending' = <<>> /\ write_queue' = <<>>
      /\ past' = (past \cup {wire[i].pkt.id : i \in 1..Len(wire)}) \ {0}
      /\ UNCHANGED <<unp_packets, sent>>
  BY SessionLostTraffic DEF SessionLost, PublicKey
<1>2. Path' = {} BY <1>1 DEF Path
<1>3. NoWritten(ready')
  <2>1. OneReader' BY <1>1 DEF Traffic
  <2> QED BY <1>1, <2>1 DEF OneReader, NoWritten
<1>4. FirstPiece'
  <2>1. Len(wire') = 0 /\ Len(pending') = 0 BY <1>1
  <2>2. 1..Len(wire') = {} /\ 1..Len(pending') = {} BY <2>1
  <2> QED BY <1>3, <2>2 DEF FirstPiece, NoWritten
<1>5. ASSUME NEW i \in 1..Len(wire)
      PROVE  /\ wire[i].pkt.id \in Nat /\ wire[i].pkt.id <= sent
             /\ \A j \in 1..Len(unp_packets) : ~unp_packets[j].empty => wire[i].pkt.id # unp_packets[j].id
  <2>1. PICK j \in 1..Len(wire) : wire[j].part = 1 /\ wire[j].pkt = wire[i].pkt
    BY DEF LineInv, FirstPiece, Begun
  <2>2. <<1, j>> \in Path /\ At(<<1, j>>) = wire[i].pkt BY <2>1, InPath DEF PathFacts
  <2>3. Fits(wire[i].pkt, sent, past, is_encrypted, unp_packets) BY <2>2 DEF LineInv
  <2>4. wire[i].pkt \in Packet BY <2>2, PathLine DEF LineFacts
  <2>5. wire[i].pkt.id \in Nat BY <2>4, LimitsAssumption DEF Packet, Ids
  <2> QED BY <2>3, <2>5 DEF Fits
<1>6. past \subseteq 1..sent /\ Kept(unp_packets, sent, past) /\ sent \in Nat
  BY LimitsAssumption DEF LineInv, Numbered, Traffic, TypeOK
<1>7. past' \subseteq 1..sent
  <2>1. \A i \in 1..Len(wire) : wire[i].pkt.id \in 0..sent BY <1>5, <1>6
  <2>2. \A n \in (0..sent) \ {0} : n \in 1..sent BY <1>6
  <2> QED BY <1>1, <1>6, <2>1, <2>2
<1>8. Kept(unp_packets, sent, past')
  <2>1. ASSUME NEW j \in 1..Len(unp_packets), ~unp_packets[j].empty
        PROVE  unp_packets[j].id \notin past'
    <3>1. unp_packets[j].id \notin past BY <1>6, <2>1 DEF Kept
    <3>2. unp_packets[j].id \notin {wire[i].pkt.id : i \in 1..Len(wire)} BY <1>5, <2>1
    <3> QED BY <1>1, <3>1, <3>2
  <2> QED BY <1>6, <2>1 DEF Kept
<1>9. Numbered' BY <1>1, <1>7, <1>8 DEF Numbered, Kept
<1>10. KeyFirst(Path', Carried', keys')
  <2>1. Keys(Path', Carried') = {} BY <1>2 DEF Keys
  <2>2. Cardinality(Keys(Path', Carried')) = 0 BY <2>1, FS_EmptySet
  <2> QED BY <1>1, <1>2, <2>2 DEF KeyFirst
<1>11. Once(Path', Carried') /\ Ordered(Path', Carried') BY <1>2 DEF Once, Ordered
<1>12. \A x \in Path' : Fits(At(x)', sent', past', is_encrypted', unp_packets') BY <1>2
<1> QED BY <1>1, <1>4, <1>9, <1>10, <1>11, <1>12, LineAgain

\* Pieces of w on the wire, and the end of that write in the queue q of handlers.
LEMMA PiecesFirst ==
    ASSUME Traffic, FirstPiece, NEW q, Bounded(q), SameWrites(ready, q), NEW w \in Write,
           w.done = 0 \/ Begun(wire, w.pkt), NEW k \in 1..(Parts - w.done),
           wire' = wire \o [i \in 1..k |-> [pkt |-> w.pkt, part |-> w.done + i]],
           ready' = Append(q, <<"written", [w EXCEPT !.done = @ + k]>>),
           \A i \in 1..Len(pending') : pending'[i].done # 0 => Begun(wire, pending'[i].pkt)
    PROVE  /\ FirstPiece'
           /\ \A i \in 1..Len(wire') : wire'[i].part = 1 =>
                 \/ i \in 1..Len(wire) /\ wire'[i] = wire[i]
                 \/ w.done = 0 /\ i = Len(wire) + 1 /\ wire'[i].pkt = w.pkt
<1>1. /\ \A i \in 1..Len(wire') : wire'[i].part = 1 =>
            \/ i \in 1..Len(wire) /\ wire'[i] = wire[i]
            \/ w.done = 0 /\ i = Len(wire) + 1 /\ wire'[i].pkt = w.pkt
      /\ \A p : Begun(wire, p) => Begun(wire', p)
      /\ Begun(wire', w.pkt)
      /\ \A i \in 1..Len(wire') : Begun(wire', wire'[i].pkt)
  <2>1. wire \in Seq(Piece) /\ \A i \in 1..Len(wire) : Begun(wire, wire[i].pkt)
    BY TrafficFacts DEF FirstPiece
  <2> QED BY <2>1, PiecesOn
<1> DEFINE v == [w EXCEPT !.done = @ + k]
           h == <<"written", v>>
<1>2. v.pkt = w.pkt /\ v.done # 0 /\ h \in Handler
  <2>1. h \in Handler BY TrafficFacts, PiecesType
  <2>2. w.done \in Nat /\ k \in Nat /\ k >= 1 BY LimitsAssumption DEF Write
  <2>3. v.pkt = w.pkt /\ v.done = w.done + k BY DEF Write
  <2> QED BY <2>1, <2>2, <2>3
<1>3. h[1] = "written" /\ h[2] = v OBVIOUS
<1>4. ready' = Append(q, h) OBVIOUS
<1> HIDE DEF v, h
<1>5. /\ Len(ready') = Len(q) + 1 /\ ready'[Len(q) + 1] = h /\ Len(q) \in Nat
      /\ \A i \in 1..Len(q) : ready'[i] = q[i]
  <2>1. q \in Seq(Handler) BY DEF Bounded
  <2>2. /\ Len(Append(q, h)) = Len(q) + 1 /\ Append(q, h)[Len(q) + 1] = h /\ Len(q) \in Nat
        /\ \A i \in 1..Len(q) : Append(q, h)[i] = q[i]
    BY <1>2, <2>1
  <2> QED BY <1>4, <2>2
<1>6. ASSUME NEW i \in 1..Len(ready'), ready'[i][1] = "written"
      PROVE  ready'[i][2].done # 0 /\ Begun(wire', ready'[i][2].pkt)
  <2>1. CASE i = Len(q) + 1
    <3>1. ready'[i][2] = v BY <1>3, <1>5, <2>1
    <3> QED BY <1>1, <1>2, <3>1
  <2>2. CASE i \in 1..Len(q)
    <3>1. PICK j \in 1..Len(ready) : ready[j] = ready'[i] BY <1>5, <1>6, <2>2 DEF SameWrites
    <3>2. ready[j][2].done # 0 /\ Begun(wire, ready[j][2].pkt) BY <1>6, <3>1 DEF FirstPiece
    <3>3. Begun(wire', ready[j][2].pkt) BY <1>1, <3>2
    <3> QED BY <3>1, <3>2, <3>3
  <2> QED BY <1>5, <2>1, <2>2
<1>7. \A i \in 1..Len(pending') : pending'[i].done # 0 => Begun(wire', pending'[i].pkt)
  BY <1>1
<1>8. FirstPiece' BY <1>1, <1>6, <1>7 DEF FirstPiece, Begun
<1> QED BY <1>1, <1>8

\* The same for WriteSome, which may also let w wait.
LEMMA WriteSomeFirst ==
    ASSUME Traffic, FirstPiece, NEW q, Bounded(q), SameWrites(ready, q), NEW w \in Write,
           w.done = 0 \/ Begun(wire, w.pkt), WriteSome(w, q)
    PROVE  /\ FirstPiece'
           /\ \/ /\ pending = <<>> /\ pending' = pending
                 /\ \A i \in 1..Len(wire') : wire'[i].part = 1 =>
                       \/ i \in 1..Len(wire) /\ wire'[i] = wire[i]
                       \/ w.done = 0 /\ i = Len(wire) + 1 /\ wire'[i].pkt = w.pkt
              \/ wire' = wire /\ pending' = Append(pending, w)
<1>1. ASSUME pending = <<>>, pending' = pending, NEW k \in 1..(Parts - w.done),
             wire' = wire \o [i \in 1..k |-> [pkt |-> w.pkt, part |-> w.done + i]],
             ready' = Append(q, <<"written", [w EXCEPT !.done = @ + k]>>)
      PROVE  /\ FirstPiece'
             /\ \A i \in 1..Len(wire') : wire'[i].part = 1 =>
                   \/ i \in 1..Len(wire) /\ wire'[i] = wire[i]
                   \/ w.done = 0 /\ i = Len(wire) + 1 /\ wire'[i].pkt = w.pkt
  <2>1. \A i \in 1..Len(pending') : pending'[i].done # 0 => Begun(wire, pending'[i].pkt)
    BY <1>1 DEF FirstPiece
  <2> QED BY <1>1, <2>1, PiecesFirst
<1>2. ASSUME pending' = Append(pending, w), ready' = q, wire' = wire
      PROVE  FirstPiece'
  <2>1. /\ Len(pending') = Len(pending) + 1 /\ pending'[Len(pending) + 1] = w /\ Len(pending) \in Nat
        /\ \A i \in 1..Len(pending) : pending'[i] = pending[i]
    BY <1>2, TrafficFacts
  <2>2. ASSUME NEW i \in 1..Len(pending'), pending'[i].done # 0 PROVE Begun(wire, pending'[i].pkt)
    <3>1. CASE i \in 1..Len(pending) BY <2>1, <2>2, <3>1 DEF FirstPiece
    <3>2. CASE i = Len(pending) + 1 BY <2>1, <2>2, <3>2
    <3> QED BY <2>1, <3>1, <3>2
  <2>3. ASSUME NEW i \in 1..Len(ready'), ready'[i][1] = "written"
        PROVE  ready'[i][2].done # 0 /\ Begun(wire, ready'[i][2].pkt)
    <3>1. PICK j \in 1..Len(ready) : ready[j] = ready'[i] BY <1>2, <2>3 DEF SameWrites
    <3> QED BY <2>3, <3>1 DEF FirstPiece
  <2> QED BY <1>2, <2>2, <2>3 DEF FirstPiece, Begun
<1> QED BY <1>1, <1>2 DEF WriteSome

\* A write task moves the first packet of the queue to the end of what is under way.
LEMMA RunWriteTaskLine == Traffic /\ LineInv /\ RunWriteTask => LineInv'
<1> SUFFICES ASSUME Traffic, LineInv, RunWriteTask PROVE LineInv' OBVIOUS
<1> USE TrafficFacts
<1> DEFINE q == Tail(ready)
<1>1. /\ Traffic' /\ FirstPiece /\ ready # <<>> /\ session_write(q)
      /\ UNCHANGED <<keys, is_encrypted, sent, past, unp_packets>>
  BY RunWriteTaskTraffic DEF RunWriteTask, LineInv, sessionVars
<1>2. Bounded(q) /\ SameWrites(ready, q) BY <1>1, TailBounded, SameWritesFacts
<1> HIDE DEF q
<1>3. CASE ready' = q /\ UNCHANGED <<write_queue, pending, wire>>
  BY <1>1, <1>2, <1>3, IdleLine
<1>4. CASE /\ write_queue # <<>> /\ write_queue' = Tail(write_queue)
           /\ WriteSome([pkt |-> Head(write_queue), done |-> 0], q)
  <2> DEFINE w == [pkt |-> Head(write_queue), done |-> 0]
  <2>1. Head(write_queue) \in Packet BY <1>4
  <2>2. w \in Write /\ w.done = 0 /\ w.pkt = Head(write_queue) BY <2>1, LimitsAssumption DEF Write
  <2>3. WriteSome(w, q) BY <1>4
  <2> HIDE DEF w
  <2>4. /\ FirstPiece'
        /\ \/ /\ pending = <<>> /\ pending' = pending
              /\ \A i \in 1..Len(wire') : wire'[i].part = 1 =>
                    \/ i \in 1..Len(wire) /\ wire'[i] = wire[i]
                    \/ w.done = 0 /\ i = Len(wire) + 1 /\ wire'[i].pkt = w.pkt
           \/ wire' = wire /\ pending' = Append(pending, w)
    BY <1>1, <1>2, <2>2, <2>3, WriteSomeFirst
  <2>5. Thinned BY <1>1, <1>4, <2>2, <2>4, TakenThinned
  <2> QED BY <1>1, <2>4, <2>5, ThinnedKeeps
<1> QED BY <1>1, <1>3, <1>4 DEF session_write

\* The rest of a write, or its end.
LEMMA RunWrittenLine == Traffic /\ LineInv /\ RunWritten => LineInv'
<1> SUFFICES ASSUME Traffic, LineInv, RunWritten PROVE LineInv' OBVIOUS
<1> USE TrafficFacts
<1> DEFINE q == Tail(ready)  w == Head(ready)[2]
<1>1. /\ Traffic' /\ FirstPiece /\ ready # <<>> /\ Head(ready)[1] = "written"
      /\ UNCHANGED <<write_queue, keys, is_encrypted, sent, past, unp_packets>>
  BY RunWrittenTraffic DEF RunWritten, LineInv, sessionVars
<1>2. Bounded(q) /\ SameWrites(ready, q) BY <1>1, TailBounded, SameWritesFacts
<1>3. Head(ready) \in Handler /\ Head(ready) = ready[1] /\ 1 \in 1..Len(ready)
  BY <1>1, TailBounded
<1>4. w \in Write BY <1>1, <1>3 DEF Handler
<1>5. w.done # 0 /\ Begun(wire, w.pkt) BY <1>1, <1>3 DEF FirstPiece
<1>6. CASE WriteSome(w, q)
  <2> HIDE DEF q, w
  <2>1. /\ FirstPiece'
        /\ \/ /\ pending = <<>> /\ pending' = pending
              /\ \A i \in 1..Len(wire') : wire'[i].part = 1 =>
                    \/ i \in 1..Len(wire) /\ wire'[i] = wire[i]
                    \/ w.done = 0 /\ i = Len(wire) + 1 /\ wire'[i].pkt = w.pkt
           \/ wire' = wire /\ pending' = Append(pending, w)
    BY <1>1, <1>2, <1>4, <1>5, <1>6, WriteSomeFirst
  <2>2. Thinned
    <3>1. CASE /\ pending' = pending
               /\ \A i \in 1..Len(wire') : wire'[i].part = 1 => i \in 1..Len(wire) /\ wire'[i] = wire[i]
      BY <1>1, <3>1, RestThinned
    <3>2. CASE wire' = wire /\ pending' = Append(pending, w)
      BY <1>1, <1>4, <1>5, <3>2, RestThinned
    <3> QED BY <1>5, <2>1, <3>1, <3>2
  <2> QED BY <1>1, <2>1, <2>2, ThinnedKeeps
<1>7. CASE WriteDone(q) /\ UNCHANGED <<pending, wire>>
  <2> HIDE DEF q, w
  <2>1. PICK n \in Nat : n = 1 OBVIOUS
  <2>2. SameWrites(q, PostTask(q, "write", n)) /\ SameWrites(q, q) BY <1>2, SameWritesFacts
  <2>3. SameWrites(q, ready') BY <1>7, <2>1, <2>2 DEF WriteDone
  <2>4. SameWrites(ready, ready') BY <1>2, <2>3, SameWritesTwice
  <2> QED BY <1>1, <1>7, <2>4, IdleLine
<1> QED BY <1>6, <1>7 DEF RunWritten

\* After a failed write.
LEMMA RunFailedLine == Traffic /\ LineInv /\ RunFailed => LineInv'
<1> SUFFICES ASSUME Traffic, LineInv, RunFailed PROVE LineInv' OBVIOUS
<1> USE TrafficFacts
<1> DEFINE q == Tail(ready)
<1>1. /\ Traffic' /\ ready # <<>> /\ WriteDone(q)
      /\ UNCHANGED <<wire, pending, write_queue, keys, is_encrypted, sent, past, unp_packets>>
  BY RunFailedTraffic DEF RunFailed, sessionVars, socketVars
<1>2. Bounded(q) /\ SameWrites(ready, q) BY <1>1, TailBounded, SameWritesFacts
<1> HIDE DEF q
<1>3. PICK n \in Nat : n = 1 OBVIOUS
<1>4. SameWrites(q, PostTask(q, "write", n)) /\ SameWrites(q, q) BY <1>2, SameWritesFacts
<1>5. SameWrites(q, ready') BY <1>1, <1>3, <1>4 DEF WriteDone
<1>6. SameWrites(ready, ready') BY <1>2, <1>5, SameWritesTwice
<1> QED BY <1>1, <1>6, IdleLine

\* A read begins.
LEMMA RunReadTaskLine == Traffic /\ LineInv /\ RunReadTask => LineInv'
<1> SUFFICES ASSUME Traffic, LineInv, RunReadTask PROVE LineInv' OBVIOUS
<1>1. /\ Traffic' /\ ready # <<>> /\ ready' = Tail(ready)
      /\ UNCHANGED <<wire, pending, write_queue, keys, is_encrypted, sent, past, unp_packets>>
  BY RunReadTaskTraffic DEF RunReadTask, sessionVars, socketVars
<1>2. SameWrites(ready, ready') BY <1>1, TrafficFacts, SameWritesFacts
<1> QED BY <1>1, <1>2, IdleLine

\* A packet arrives.
LEMMA ReceivesLine ==
    ASSUME Traffic, LineInv, NEW what \in {"key_exchange", "other"}, Receives(what)
    PROVE  LineInv'
<1> DEFINE h == <<"received", what>>
<1>1. /\ Traffic' /\ ready' = Append(ready, h)
      /\ UNCHANGED <<wire, pending, write_queue, keys, is_encrypted, sent, past, unp_packets>>
  BY ReceivesTraffic DEF Receives, sessionVars, socketVars
<1>2. h \in Handler /\ h[1] # "written" BY DEF Handler
<1> HIDE DEF h
<1>3. SameWrites(ready, ready') BY <1>1, <1>2, TrafficFacts, SameWritesFacts
<1> QED BY <1>1, <1>3, IdleLine

\* A cleanup of the buffer.
LEMMA CleanupLine == Traffic /\ LineInv /\ unprocessed_cleanup_expired => LineInv'
<1> SUFFICES ASSUME Traffic, LineInv, unprocessed_cleanup_expired PROVE LineInv' OBVIOUS
<1> USE TrafficFacts
<1>1. /\ Traffic' /\ unp_packets' \in CleanedUp(unp_packets)
      /\ UNCHANGED <<ready, wire, pending, write_queue, keys, is_encrypted, sent, past>>
  BY CleanupTraffic DEF unprocessed_cleanup_expired, sessionVars, socketVars
<1>2. Picked(unp_packets, unp_packets') BY <1>1, CleanedPicked
<1>3. Len(unp_packets) \in Nat OBVIOUS
<1>4. /\ Kept(unp_packets, sent, past) => Kept(unp_packets', sent, past)
      /\ \A p, on : Fits(p, sent, past, on, unp_packets) => Fits(p, sent, past, on, unp_packets')
  BY <1>2, <1>3, PickedKeeps
<1>5. Numbered' BY <1>1, <1>4 DEF LineInv, Numbered, Kept
<1>6. FirstPiece' BY <1>1, SameWritesFacts, FirstPieceKept DEF LineInv
<1> QED BY <1>1, <1>4, <1>5, <1>6, StillLine

\* The first write that waits goes on.
LEMMA WritableLine == Traffic /\ LineInv /\ Writable => LineInv'
<1> SUFFICES ASSUME Traffic, LineInv, Writable PROVE LineInv' OBVIOUS
<1> USE TrafficFacts
<1> DEFINE w == Head(pending)
<1>1. /\ Traffic' /\ FirstPiece /\ pending # <<>> /\ pending' = Tail(pending)
      /\ UNCHANGED <<write_queue, keys, is_encrypted, sent, past, unp_packets>>
  BY WritableTraffic DEF Writable, LineInv, sessionVars
<1>2. PICK k \in 1..(Parts - w.done) :
        /\ wire' = wire \o [i \in 1..k |-> [pkt |-> w.pkt, part |-> w.done + i]]
        /\ ready' = Append(ready, <<"written", [w EXCEPT !.done = @ + k]>>)
  BY DEF Writable
<1>3. /\ w \in Write /\ w = pending[1] /\ 1 \in 1..Len(pending)
      /\ \A i \in 1..Len(pending') : i + 1 \in 1..Len(pending) /\ pending'[i] = pending[i + 1]
  BY <1>1
<1>4. w.done = 0 \/ Begun(wire, w.pkt) BY <1>1, <1>3 DEF FirstPiece
<1>5. \A i \in 1..Len(pending') : pending'[i].done # 0 => Begun(wire, pending'[i].pkt)
  BY <1>1, <1>3 DEF FirstPiece
<1>6. SameWrites(ready, ready) BY SameWritesFacts
<1> HIDE DEF w
<1>7. /\ FirstPiece'
      /\ \A i \in 1..Len(wire') : wire'[i].part = 1 =>
            \/ i \in 1..Len(wire) /\ wire'[i] = wire[i]
            \/ w.done = 0 /\ i = Len(wire) + 1 /\ wire'[i].pkt = w.pkt
  BY <1>1, <1>2, <1>3, <1>4, <1>5, <1>6, PiecesFirst
<1>8. Thinned BY <1>1, <1>7, SentThinned DEF w
<1> QED BY <1>1, <1>7, <1>8, ThinnedKeeps

\* It fails.
LEMMA WriteFailsLine == Traffic /\ LineInv /\ WriteFails => LineInv'
<1> SUFFICES ASSUME Traffic, LineInv, WriteFails PROVE LineInv' OBVIOUS
<1> USE TrafficFacts
<1> DEFINE h == <<"failed", "soft">>
<1>1. /\ Traffic' /\ FirstPiece /\ pending # <<>> /\ pending' = Tail(pending)
      /\ ready' = Append(ready, h) /\ wire' = wire
      /\ UNCHANGED <<write_queue, keys, is_encrypted, sent, past, unp_packets>>
  BY WriteFailsTraffic DEF WriteFails, LineInv, sessionVars
<1>2. h \in Handler /\ h[1] # "written" BY DEF Handler
<1> HIDE DEF h
<1>3. SameWrites(ready, ready') BY <1>1, <1>2, SameWritesFacts
<1>4. \A i \in 1..Len(pending') : i + 1 \in 1..Len(pending) /\ pending'[i] = pending[i + 1] BY <1>1
<1>5. \A i \in 1..Len(pending') : pending'[i].done # 0 => Begun(wire, pending'[i].pkt)
  BY <1>1, <1>4 DEF FirstPiece
<1>6. ASSUME NEW i \in 1..Len(ready'), ready'[i][1] = "written"
      PROVE  ready'[i][2].done # 0 /\ Begun(wire, ready'[i][2].pkt)
  <2>1. PICK j \in 1..Len(ready) : ready[j] = ready'[i] BY <1>3, <1>6 DEF SameWrites
  <2>2. ready[j][2].done # 0 /\ Begun(wire, ready[j][2].pkt) BY <1>1, <1>6, <2>1 DEF FirstPiece
  <2> QED BY <2>1, <2>2
<1>7. FirstPiece' BY <1>1, <1>5, <1>6 DEF FirstPiece, Begun
<1>8. \A i \in 1..Len(wire') : i \in 1..Len(wire) /\ wire'[i] = wire[i] BY <1>1
<1>9. Thinned BY <1>1, <1>8, SentThinned
<1> QED BY <1>1, <1>7, <1>9, ThinnedKeeps

\* What was replayed is no longer in the buffer, and was on its way nowhere.
LEMMA ReplayedNew ==
    ASSUME Traffic, LineInv, NEW failed, NEW replay \in Replayed(failed)
    PROVE  /\ replay \in Seq(Packet) /\ Len(replay) \in Nat
           /\ \A i, j \in 1..Len(replay) : i < j => replay[i].id < replay[j].id
           /\ \A i \in 1..Len(replay) :
                 /\ replay[i].enc
                 /\ replay[i].id \in Nat \ {0} /\ replay[i].id <= sent /\ replay[i].id \notin past
                 /\ \A x \in Path : At(x).id # replay[i].id
                 /\ \A j \in 1..Len(unp_packets) :
                       ~AfterReplay(failed)[j].empty => replay[i].id # AfterReplay(failed)[j].id
<1> USE TrafficFacts
<1>1. /\ replay \in Seq(Packet) /\ Len(replay) \in Nat
      /\ \E pos \in [1..Len(replay) -> Live(failed)] :
            /\ \A i, j \in 1..Len(replay) : i < j => pos[i] < pos[j]
            /\ \A i \in 1..Len(replay) : replay[i] = [id |-> unp_packets[pos[i]].id, enc |-> TRUE]
  <2>1. unp_packets \in Seq(Entry) OBVIOUS
  <2> QED BY <2>1, ReplayedFacts
<1>2. PICK pos \in [1..Len(replay) -> Live(failed)] :
        /\ \A i, j \in 1..Len(replay) : i < j => pos[i] < pos[j]
        /\ \A i \in 1..Len(replay) : replay[i] = [id |-> unp_packets[pos[i]].id, enc |-> TRUE]
  BY <1>1
<1>3. \A i \in 1..Len(replay) :
         /\ pos[i] \in Live(failed) /\ pos[i] \in 1..Len(unp_packets) /\ ~unp_packets[pos[i]].empty
         /\ replay[i].id = unp_packets[pos[i]].id /\ replay[i].enc
  <2> SUFFICES ASSUME NEW i \in 1..Len(replay)
               PROVE  /\ pos[i] \in Live(failed) /\ pos[i] \in 1..Len(unp_packets)
                      /\ ~unp_packets[pos[i]].empty /\ replay[i].id = unp_packets[pos[i]].id
                      /\ replay[i].enc
    OBVIOUS
  <2>1. pos[i] \in Live(failed) BY <1>2
  <2>2. pos[i] \in 1..Len(unp_packets) /\ ~unp_packets[pos[i]].empty BY <2>1 DEF Live
  <2>3. replay[i] = [id |-> unp_packets[pos[i]].id, enc |-> TRUE] BY <1>2
  <2> QED BY <2>1, <2>2, <2>3
<1>4. Kept(unp_packets, sent, past) BY DEF LineInv, Numbered
<1>5. \A i \in 1..Len(unp_packets) : unp_packets[i].id \in Nat \ {0}
  <2>1. \A i \in 1..Len(unp_packets) : unp_packets[i] \in Entry OBVIOUS
  <2> QED BY <2>1, LimitsAssumption DEF Entry
<1>6. ASSUME NEW i \in 1..Len(replay), NEW j \in 1..Len(replay), i < j
      PROVE  replay[i].id < replay[j].id
  <2>1. pos[i] < pos[j] BY <1>2, <1>6
  <2>2. unp_packets[pos[i]].id < unp_packets[pos[j]].id BY <1>3, <1>4, <2>1 DEF Kept
  <2> QED BY <1>3, <2>2
<1>7. ASSUME NEW i \in 1..Len(replay)
      PROVE  /\ replay[i].id \in Nat \ {0} /\ replay[i].id <= sent /\ replay[i].id \notin past
             /\ \A x \in Path : At(x).id # replay[i].id
  <2>1. replay[i].id \in Nat \ {0} BY <1>3, <1>5
  <2>2. replay[i].id <= sent /\ replay[i].id \notin past BY <1>3, <1>4 DEF Kept
  <2>3. ASSUME NEW x \in Path PROVE At(x).id # replay[i].id
    <3>1. Fits(At(x), sent, past, is_encrypted, unp_packets) BY DEF LineInv
    <3> QED BY <1>3, <3>1 DEF Fits
  <2> QED BY <2>1, <2>2, <2>3
<1>8. ASSUME NEW i \in 1..Len(replay), NEW j \in 1..Len(unp_packets), ~AfterReplay(failed)[j].empty
      PROVE  replay[i].id # AfterReplay(failed)[j].id
  <2>1. AfterReplay(failed)[j].id = unp_packets[j].id /\ j \notin Live(failed)
    BY <1>8, AfterReplayFacts
  <2>2. pos[i] \in Int /\ j \in Int /\ pos[i] # j BY <1>3, <2>1
  <2>3. pos[i] < j \/ j < pos[i] BY <2>2
  <2>4. unp_packets[pos[i]].id < unp_packets[j].id \/ unp_packets[j].id < unp_packets[pos[i]].id
    BY <1>3, <1>4, <2>3 DEF Kept
  <2> QED BY <1>3, <1>5, <2>1, <2>4
<1>9. \A i \in 1..Len(replay) : replay[i].enc BY <1>3
<1> QED BY <1>1, <1>6, <1>7, <1>8, <1>9

\* The key exchange sends the key, in the clear, and after it what was kept.
LEMMA RunReceivedLine == Traffic /\ LineInv /\ RunReceived => LineInv'
<1> SUFFICES ASSUME Traffic, LineInv, RunReceived PROVE LineInv' OBVIOUS
<1> USE TrafficFacts
<1> DEFINE q == Tail(ready)
           key == [id |-> PublicKey, enc |-> FALSE]
<1>1. /\ Traffic' /\ TypeOK /\ ready # <<>> /\ FirstPiece
      /\ UNCHANGED <<wire, pending, sent, past>>
  BY RunReceivedTraffic DEF RunReceived, Traffic, LineInv, socketVars
<1>2. Bounded(q) /\ SameWrites(ready, q) BY <1>1, TailBounded, SameWritesFacts
<1>3. key \in Packet /\ key.id = PublicKey /\ key.enc = FALSE
  BY LimitsAssumption DEF Packet, Ids, PublicKey
<1> HIDE DEF q, key
<1>4. /\ past \subseteq 1..sent /\ Kept(unp_packets, sent, past) /\ sent \in Nat /\ keys \in Nat
      /\ \A x \in Path : Fits(At(x), sent, past, is_encrypted, unp_packets)
  BY <1>1, LimitsAssumption DEF LineInv, Numbered, TypeOK
<1>5. CASE ready' = PostTask(q, "read", 1) /\ UNCHANGED <<is_encrypted, keys, write_queue, unp_packets>>
  <2>1. PICK n \in Nat : n = 1 OBVIOUS
  <2>2. SameWrites(q, PostTask(q, "read", n)) BY <1>2, SameWritesFacts
  <2>3. SameWrites(ready, ready') BY <1>2, <1>5, <2>1, <2>2, SameWritesTwice
  <2> QED BY <1>1, <1>5, <2>3, IdleLine
<1>6. ASSUME NEW n \in Nat, ready' = PostTask(PostTask(q, "write", n), "read", 1) PROVE FirstPiece'
  <2> DEFINE r == PostTask(q, "write", n)
  <2>1. SameWrites(q, r) BY <1>2, SameWritesFacts
  <2>2. Bounded(r) BY <1>2, Posts
  <2>3. ready' = PostTask(r, "read", 1) BY <1>6
  <2> HIDE DEF r
  <2>4. PICK m \in Nat : m = 1 OBVIOUS
  <2>5. SameWrites(r, PostTask(r, "read", m)) BY <2>2, SameWritesFacts
  <2>6. SameWrites(ready, r) BY <1>2, <2>1, SameWritesTwice
  <2>7. SameWrites(ready, ready') BY <2>3, <2>4, <2>5, <2>6, SameWritesTwice
  <2> QED BY <1>1, <2>7, FirstPieceKept
<1>7. \A i \in 1..Len(unp_packets) : unp_packets[i].id \in Nat \ {0}
  <2>1. \A i \in 1..Len(unp_packets) : unp_packets[i] \in Entry OBVIOUS
  <2> QED BY <2>1, LimitsAssumption DEF Entry
<1>8. \A on : Fits(key, sent, past, on, unp_packets)
  BY <1>3, <1>4, <1>7 DEF Fits, PublicKey
<1>9. CASE /\ keys' = keys + 1 /\ write_queue' = Enqueue(<<key>>)
           /\ ready' = PostTask(PostTask(q, "write", 1), "read", 1)
           /\ UNCHANGED <<is_encrypted, unp_packets>>
  <2> DEFINE s == <<key>>
  <2>1. s \in Seq(Packet) /\ Len(s) = 1 /\ s[1] = key BY <1>3
  <2>2. write_queue' = Enqueue(s) BY <1>9
  <2> HIDE DEF s
  <2>3. \A i \in 1..Len(s) : i = 1 /\ s[i] = key BY <2>1
  <2>4. \A i, j \in 1..Len(s) : i = j /\ ~(i < j) BY <2>3
  <2>5. \A i \in 1..Len(s) : /\ s[i].id = PublicKey /\ ~s[i].enc
                              /\ \A x \in Path : MayPrecede(At(x), s[i])
    BY <1>3, <2>3 DEF MayPrecede
  <2>6. keys' \in Nat /\ keys' > 0 BY <1>4, <1>9
  <2>7. keys' = keys + 1 /\ Len(s) >= 1 /\ s[1].id = PublicKey /\ ~s[1].enc
    BY <1>3, <1>9, <2>1
  <2>8. /\ Once(Path', Carried') /\ Ordered(Path', Carried') /\ KeyFirst(Path', Carried', keys')
        /\ \A x \in Path' : \/ \E y \in Path : At(x)' = At(y)
                            \/ \E i \in 1..Len(s) : At(x)' = s[i]
    BY <1>1, <2>1, <2>2, <2>3, <2>4, <2>5, <2>6, <2>7, EnqueueKeeps
  <2>9. \A x \in Path' : Fits(At(x)', sent', past', is_encrypted', unp_packets')
    BY <1>1, <1>4, <1>8, <1>9, <2>3, <2>8
  <2>10. Numbered' BY <1>1, <1>4, <1>9 DEF Numbered, Kept
  <2>11. FirstPiece'
    <3>1. PICK n \in Nat : n = 1 OBVIOUS
    <3> QED BY <1>6, <1>9, <3>1
  <2> QED BY <2>6, <2>8, <2>9, <2>10, <2>11, LineAgain
<1>10. ASSUME ~is_encrypted, is_encrypted' = TRUE, keys' = keys + 1,
              NEW failed, NEW replay \in Replayed(failed),
              write_queue' = Enqueue(<<key>> \o replay),
              ready' = PostTask(PostTask(q, "write", 1 + Len(replay)), "read", 1),
              unp_packets' \in CleanedUp(AfterReplay(failed))
       PROVE  LineInv'
  <2> DEFINE s == <<key>> \o replay
             u == AfterReplay(failed)
  <2>1. /\ replay \in Seq(Packet) /\ Len(replay) \in Nat
        /\ \A i, j \in 1..Len(replay) : i < j => replay[i].id < replay[j].id
        /\ \A i \in 1..Len(replay) :
              /\ replay[i].enc
              /\ replay[i].id \in Nat \ {0} /\ replay[i].id <= sent /\ replay[i].id \notin past
              /\ \A x \in Path : At(x).id # replay[i].id
              /\ \A j \in 1..Len(unp_packets) : ~u[j].empty => replay[i].id # u[j].id
    BY ReplayedNew
  <2>2. /\ s \in Seq(Packet) /\ Len(s) = Len(replay) + 1 /\ s[1] = key
        /\ \A i \in 2..Len(s) : s[i] = replay[i - 1] /\ i - 1 \in 1..Len(replay)
    <3>1. <<key>> \in Seq(Packet) /\ Len(<<key>>) = 1 /\ <<key>>[1] = key BY <1>3
    <3>2. /\ s \in Seq(Packet) /\ Len(s) = Len(<<key>>) + Len(replay)
          /\ \A i \in 1..Len(<<key>>) : s[i] = <<key>>[i]
          /\ \A i \in (Len(<<key>>) + 1)..(Len(<<key>>) + Len(replay)) : s[i] = replay[i - Len(<<key>>)]
      BY <2>1, <3>1, Joined
    <3> HIDE DEF s
    <3>3. s[1] = key BY <3>1, <3>2
    <3>4. Len(s) = Len(replay) + 1 BY <2>1, <3>1, <3>2
    <3>5. \A i \in 2..Len(s) : i \in 2..(1 + Len(replay)) /\ i - 1 \in 1..Len(replay) BY <2>1, <3>4
    <3>6. \A i \in 2..(1 + Len(replay)) : s[i] = replay[i - 1] BY <3>1, <3>2
    <3> QED BY <3>2, <3>3, <3>4, <3>5, <3>6
  <2>3. write_queue' = Enqueue(s) BY <1>10
  <2>4. /\ u \in Seq(Entry) /\ Len(u) = Len(unp_packets)
        /\ \A i \in 1..Len(unp_packets) :
              u[i].id = unp_packets[i].id /\ (~u[i].empty => ~unp_packets[i].empty)
    BY AfterReplayFacts
  <2>5. unp_packets' \in CleanedUp(u) BY <1>10
  <2> HIDE DEF s, u
  <2>6. Picked(u, unp_packets') BY <2>4, <2>5, CleanedPicked
  <2>7. /\ Kept(unp_packets, sent, past) => Kept(unp_packets', sent, past)
        /\ \A p, on : Fits(p, sent, past, on, unp_packets) => Fits(p, sent, past, on, unp_packets')
    <3>1. Len(unp_packets) \in Nat OBVIOUS
    <3>2. /\ Len(u) = Len(unp_packets)
          /\ \A i \in 1..Len(unp_packets) :
                u[i].id = unp_packets[i].id /\ (~u[i].empty => ~unp_packets[i].empty)
      BY <2>4
    <3> QED BY ONLY <2>6, <3>1, <3>2, PickedKeeps
  <2>8. \A i \in 1..Len(s) : i = 1 \/ i \in 2..Len(s) BY <2>1, <2>2
  <2>9. \A i \in 1..Len(s) : i # 1 => s[i].id # PublicKey
    BY <2>1, <2>2, <2>8 DEF PublicKey
  <2>10. ASSUME NEW i \in 1..Len(s), NEW j \in 1..Len(s), i < j, i # 1
         PROVE  s[i].id < s[j].id /\ s[i].id \in Nat /\ s[j].id \in Nat
    <3>1. i \in 2..Len(s) /\ j \in 2..Len(s) BY <2>2, <2>8, <2>10
    <3>2. s[i] = replay[i - 1] /\ s[j] = replay[j - 1] /\ i - 1 < j - 1
      BY <2>2, <2>10, <3>1
    <3>3. i - 1 \in 1..Len(replay) /\ j - 1 \in 1..Len(replay) BY <2>2, <3>1
    <3>4. replay[i - 1].id < replay[j - 1].id BY <2>1, <3>2, <3>3
    <3>5. replay[i - 1].id \in Nat /\ replay[j - 1].id \in Nat BY <2>1, <3>3
    <3> QED BY <3>2, <3>4, <3>5
  <2>11. \A i, j \in 1..Len(s) : i # j /\ s[i].id = s[j].id => s[i].id = PublicKey
    <3> SUFFICES ASSUME NEW i \in 1..Len(s), NEW j \in 1..Len(s), i # j, s[i].id = s[j].id,
                        s[i].id # PublicKey
                 PROVE  FALSE
      OBVIOUS
    <3>1. i # 1 /\ j # 1 BY <1>3, <2>2
    <3>2. i < j \/ j < i OBVIOUS
    <3>3. CASE i < j BY <2>10, <3>1, <3>3
    <3>4. CASE j < i BY <2>10, <3>1, <3>4
    <3> QED BY <3>2, <3>3, <3>4
  <2>12. ASSUME NEW i \in 1..Len(s), NEW j \in 1..Len(s), i < j PROVE MayPrecede(s[i], s[j])
    <3>1. CASE i = 1
      <4>1. s[i].id = PublicKey BY <1>3, <2>2, <3>1
      <4> QED BY <4>1 DEF MayPrecede
    <3>2. CASE i # 1 BY <2>10, <2>12, <3>2 DEF MayPrecede
    <3> QED BY <3>1, <3>2
  <2>13. \A i \in 1..Len(s), x \in Path : At(x).id = s[i].id => s[i].id = PublicKey
    <3>1. s[1].id = PublicKey BY <1>3, <2>2
    <3>2. \A i \in 2..Len(s), x \in Path : At(x).id # s[i].id BY <2>1, <2>2
    <3> QED BY <2>8, <3>1, <3>2
  <2>14. \A i \in 1..Len(s), x \in Path : MayPrecede(At(x), s[i])
    <3>1. \A x \in Path : ~At(x).enc BY <1>4, <1>10 DEF Fits
    <3>2. s[1].id = PublicKey BY <1>3, <2>2
    <3>3. \A i \in 2..Len(s) : s[i].enc BY <2>1, <2>2
    <3>4. \A i \in 1..Len(s) : s[i].id = PublicKey \/ s[i].enc BY <2>8, <3>2, <3>3
    <3> QED BY <3>1, <3>4 DEF MayPrecede
  <2>15. keys' \in Nat /\ keys' > 0 BY <1>4, <1>10
  <2>16. keys' = keys + 1 /\ Len(s) >= 1 /\ s[1].id = PublicKey /\ ~s[1].enc
    BY <1>3, <1>10, <2>1, <2>2
  <2>17. /\ Once(Path', Carried') /\ Ordered(Path', Carried') /\ KeyFirst(Path', Carried', keys')
         /\ \A x \in Path' : \/ \E y \in Path : At(x)' = At(y)
                             \/ \E i \in 1..Len(s) : At(x)' = s[i]
    BY <1>1, <2>2, <2>3, <2>9, <2>11, <2>12, <2>13, <2>14, <2>15, <2>16, EnqueueKeeps
  <2>18. ASSUME NEW y \in Path PROVE Fits(At(y), sent, past, TRUE, unp_packets')
    <3>1. Fits(At(y), sent, past, TRUE, unp_packets) BY <1>4 DEF Fits
    <3> QED BY <2>7, <3>1
  <2>19. ASSUME NEW i \in 1..Len(s) PROVE Fits(s[i], sent, past, TRUE, unp_packets')
    <3>1. CASE i = 1 BY <1>8, <2>2, <2>7, <3>1
    <3>2. CASE i \in 2..Len(s)
      <4>1. s[i] = replay[i - 1] /\ i - 1 \in 1..Len(replay) BY <2>2, <3>2
      <4>2. /\ s[i].id <= sent /\ s[i].id \notin past
            /\ \A j \in 1..Len(u) : ~u[j].empty => s[i].id # u[j].id
        BY <2>1, <2>4, <4>1
      <4>3. \A j \in 1..Len(unp_packets') : ~unp_packets'[j].empty => s[i].id # unp_packets'[j].id
        BY <2>6, <4>2 DEF Picked
      <4> QED BY <4>2, <4>3 DEF Fits
    <3> QED BY <2>8, <3>1, <3>2
  <2>20. \A x \in Path' : Fits(At(x)', sent', past', is_encrypted', unp_packets')
    <3> SUFFICES ASSUME NEW x \in Path' PROVE Fits(At(x)', sent, past, TRUE, unp_packets')
      BY <1>1, <1>10
    <3> QED BY <2>17, <2>18, <2>19
  <2>21. Numbered' BY <1>1, <1>4, <2>7 DEF Numbered, Kept
  <2>22. FirstPiece'
    <3>1. 1 + Len(replay) \in Nat BY <2>1
    <3> QED BY <1>6, <1>10, <3>1
  <2> QED BY <2>15, <2>17, <2>20, <2>21, <2>22, LineAgain
<1> QED BY <1>5, <1>9, <1>10 DEF RunReceived, HandleKeyExchange, q, key

\* Every step, and none.
LEMMA NextLine == Traffic /\ LineInv /\ [Next]_vars => LineInv'
<1> SUFFICES ASSUME Traffic, LineInv, [Next]_vars PROVE LineInv' OBVIOUS
<1>1. CASE UNCHANGED vars
  <2>1. Traffic' BY NextTraffic
  <2>2. UNCHANGED <<ready, wire, pending, write_queue, keys, is_encrypted, sent, past, unp_packets>>
    BY <1>1 DEF vars, sessionVars, socketVars
  <2>3. SameWrites(ready, ready') BY <2>2, TrafficFacts, SameWritesFacts
  <2> QED BY <2>1, <2>2, <2>3, IdleLine
<1>2. CASE Next
  BY <1>2, SendPacketLine, SessionStartLine, SessionLostLine, RunWriteTaskLine, RunWrittenLine,
     RunFailedLine, RunReadTaskLine, RunReceivedLine, CleanupLine, WritableLine, WriteFailsLine,
     ReceivesLine DEF Next, DoWork
<1> QED BY <1>1, <1>2

\* At the beginning there is no packet.
LEMMA InitLine == Init => LineInv
<1> SUFFICES ASSUME Init PROVE LineInv OBVIOUS
<1>1. Path = {} BY DEF Init, Path
<1>2. Keys(Path, Carried) = {} BY <1>1 DEF Keys
<1>3. Cardinality(Keys(Path, Carried)) = 0 BY <1>2, FS_EmptySet
<1>4. KeyFirst(Path, Carried, keys) BY <1>1, <1>3 DEF Init, KeyFirst
<1>5. Once(Path, Carried) /\ Ordered(Path, Carried) BY <1>1 DEF Once, Ordered
<1>6. Numbered BY DEF Init, Numbered, Kept
<1>7. FirstPiece BY DEF Init, FirstPiece
<1> QED BY <1>1, <1>4, <1>5, <1>6, <1>7 DEF Init, LineInv

\* What the line says of the packets under way.
LEMMA LineSays == Traffic /\ LineInv => AtMostOnce /\ SentInOrder /\ KeyScheduledFirst
<1> SUFFICES ASSUME Traffic, LineInv PROVE AtMostOnce /\ SentInOrder /\ KeyScheduledFirst OBVIOUS
<1>1. \A x \in Path : Carried[x] = At(x) BY PathLine DEF LineFacts
<1>2. AtMostOnce BY <1>1 DEF LineInv, Once, Fits, Numbered, Kept, AtMostOnce
<1>3. SentInOrder BY <1>1 DEF LineInv, Ordered, SentInOrder
<1>4. {x \in Path : At(x).id = PublicKey} = Keys(Path, Carried) BY <1>1 DEF Keys
<1>5. KeyScheduledFirst BY <1>1, <1>4 DEF LineInv, KeyFirst, KeyScheduledFirst
<1> QED BY <1>2, <1>3, <1>5

\* No packet is sent twice, in one session or in two, whatever is lost, expires or is
\* replayed (SendPacket, unprocessed_process, session_write).
THEOREM NeverTwice == Spec => []AtMostOnce
<1>1. Init => Traffic /\ LineInv BY InitTraffic, InitLine
<1>2. Traffic /\ LineInv /\ [Next]_vars => (Traffic /\ LineInv)' BY NextTraffic, NextLine
<1>3. Traffic /\ LineInv => AtMostOnce BY LineSays
<1> QED BY <1>1, <1>2, <1>3, PTL DEF Spec

\* Packets of a session keep the order in which they were sent, but for those in the
\* clear that overtake the buffer, through the write queue, its limit, writes that
\* wait, fail or go in pieces, and the replay of the buffer.
THEOREM OrderKept == Spec => []SentInOrder
<1>1. Init => Traffic /\ LineInv BY InitTraffic, InitLine
<1>2. Traffic /\ LineInv /\ [Next]_vars => (Traffic /\ LineInv)' BY NextTraffic, NextLine
<1>3. Traffic /\ LineInv => SentInOrder BY LineSays
<1> QED BY <1>1, <1>2, <1>3, PTL DEF Spec

\* Nothing encrypted precedes the public key it needs, unless a key was lost
\* (HandleKeyExchange), for any number of key exchanges in a session.
THEOREM KeyBeforeUse == Spec => []KeyScheduledFirst
<1>1. Init => Traffic /\ LineInv BY InitTraffic, InitLine
<1>2. Traffic /\ LineInv /\ [Next]_vars => (Traffic /\ LineInv)' BY NextTraffic, NextLine
<1>3. Traffic /\ LineInv => KeyScheduledFirst BY LineSays
<1> QED BY <1>1, <1>2, <1>3, PTL DEF Spec

-----------------------------------------------------------------------------
(***************************************************************************)
(* The session this module reduces the connection to is the client's.      *)
(* What packets say is of no account here.                                 *)
(***************************************************************************)
Session == INSTANCE BridgeSession
    WITH up <- connected, secure <- is_encrypted, informed <- FALSE

\* What is read is read in a session, and may bring the key.
LEMMA ReceivedSession ==
    ASSUME Traffic, RunReceived
    PROVE  [Session!Next]_(Session!vars)
<1>1. connected' = connected BY DEF RunReceived
<1>2. connected
  <2>1. ready \in Seq(Handler) /\ ready # <<>> /\ Head(ready)[1] = "received"
    BY DEF RunReceived, Traffic, TypeOK
  <2>2. Head(ready) = ready[1] /\ 1 \in 1..Len(ready) BY <2>1, HeadTailProperties, LenProperties, EmptySeq
  <2>3. ~NoRead(ready) BY <2>1, <2>2 DEF NoRead, IsRead
  <2> QED BY <2>3 DEF Traffic, OneReader
<1>3. CASE is_encrypted' = is_encrypted BY <1>1, <1>3 DEF Session!vars
<1>4. CASE ~is_encrypted /\ is_encrypted' = TRUE
  BY <1>1, <1>2, <1>4 DEF Session!Secure, Session!Next
<1>5. is_encrypted' = is_encrypted \/ (~is_encrypted /\ is_encrypted' = TRUE)
  BY Zenon DEF RunReceived, HandleKeyExchange
<1> QED BY <1>3, <1>4, <1>5

LEMMA SessionStep == Traffic /\ [Next]_vars => [Session!Next]_(Session!vars)
<1> SUFFICES ASSUME Traffic, [Next]_vars PROVE [Session!Next]_(Session!vars) OBVIOUS
<1>1. CASE SessionStart
  <2>1. is_encrypted = FALSE BY <1>1, Zenon DEF SessionStart, Traffic, TypeOK, OneReader
  <2> QED BY <1>1, <2>1 DEF SessionStart, Session!Begin, Session!Next
<1>2. CASE SessionLost BY <1>2 DEF SessionLost, Session!End, Session!Next
<1>3. CASE RunReceived BY <1>3, ReceivedSession
<1>4. CASE UNCHANGED sessionVars BY <1>4 DEF sessionVars, Session!vars
<1>5. CASE \/ SendPacket \/ RunWriteTask \/ RunWritten \/ RunFailed \/ RunReadTask
           \/ unprocessed_cleanup_expired \/ Writable \/ WriteFails
           \/ \E what \in {"key_exchange", "other"} : Receives(what)
  BY <1>4, <1>5 DEF SendPacket, RunWriteTask, RunWritten, RunFailed, RunReadTask,
     unprocessed_cleanup_expired, Writable, WriteFails, Receives
<1>6. CASE UNCHANGED vars BY <1>4, <1>6 DEF vars
<1> QED BY <1>1, <1>2, <1>3, <1>5, <1>6 DEF Next, DoWork

\* Outgoing packets are modelled on sessions as BridgeSession has them, which are those
\* of the client (session_start, session_enable_encryption, session_stop).
THEOREM ImplementsSession == Spec => Session!Spec
<1>1. Init => Session!Init BY DEF Init, Session!Init
<1>2. Init => Traffic BY InitTraffic
<1>3. Traffic /\ [Next]_vars => Traffic' BY NextTraffic
<1> QED BY <1>1, <1>2, <1>3, SessionStep, PTL DEF Spec, Session!Spec
=============================================================================
