---------------------------- MODULE LogReadProofs ----------------------------
(***************************************************************************)
(* The answer of logs, for any container, limits and request.              *)
(***************************************************************************)
EXTENDS LogRead, FiniteSetTheorems, SequenceTheorems, WellFoundedInduction, TLAPS

-----------------------------------------------------------------------------
(* Lemmas about numbers and sorting.                                       *)

\* A set of numbers has a least one: induction over data, as the provers can use it.
LEMMA LeastElement ==
    ASSUME NEW T, T \subseteq Nat, T # {}
    PROVE  \E x \in T : \A y \in T : x <= y
<1>. DEFINE R == OpToRel(<, Nat)
<1>1. IsWellFoundedOn(R, Nat)
  BY NatLessThanWellFounded
<1>2. \A x, y \in Nat : x < y => <<x, y>> \in R
  BY DEF OpToRel
<1>. HIDE DEF R
<1>3. PICK x \in T : \A y \in T : ~ (<<y, x>> \in R)
  BY <1>1, WFMin
<1>4. \A y \in T : ~ (y < x)
  BY <1>2, <1>3
<1>. QED
  BY <1>3, <1>4

\* R orders the elements of E: of two different ones one comes first.
Orders(E, R) ==
    /\ \A a, b \in E : <<a, b>> \in R => <<b, a>> \notin R
    /\ \A a, b \in E : a # b => <<a, b>> \in R \/ <<b, a>> \in R
    /\ \A a, b, c \in E : <<a, b>> \in R /\ <<b, c>> \in R => <<a, c>> \in R

\* Sorted lists every element, in the order R: as many come before an element as
\* its index says.
LEMMA SortedIsInOrder ==
    ASSUME NEW E, IsFiniteSet(E), NEW R, Orders(E, R)
    PROVE  LET n == Cardinality(E)
               q == Sorted(E, R)
           IN  /\ n \in Nat /\ q \in [1 .. n -> E]
               /\ \A e \in E : \E i \in 1 .. n : q[i] = e
               /\ \A i, j \in 1 .. n : i < j <=> <<q[i], q[j]>> \in R
<1>. DEFINE n == Cardinality(E)
            Below(e) == {d \in E : <<d, e>> \in R}
            rank == [e \in E |-> Cardinality(Below(e))]
            q == Sorted(E, R)
<1>0. rank = [e \in E |-> rank[e]] /\ \A e \in E : rank[e] = Cardinality(Below(e))
  OBVIOUS
<1>1. n \in Nat
  BY FS_CardinalityType
<1>. HIDE DEF rank
<1>2. ASSUME NEW e \in E
      PROVE  IsFiniteSet(Below(e)) /\ rank[e] \in Nat /\ rank[e] < n
  <2>1. Below(e) \in SUBSET E /\ e \notin Below(e) /\ Below(e) # E
    BY DEF Orders
  <2>2. IsFiniteSet(Below(e)) /\ Cardinality(Below(e)) <= n /\ Cardinality(Below(e)) # n
    BY <2>1, FS_Subset
  <2>3. Cardinality(Below(e)) \in Nat
    BY <2>2, FS_CardinalityType
  <2>. QED BY <1>0, <1>1, <2>2, <2>3
<1>3. ASSUME NEW a \in E, NEW b \in E, <<a, b>> \in R
      PROVE  rank[a] < rank[b]
  <2>1. Below(a) \in SUBSET Below(b) /\ a \in Below(b) /\ a \notin Below(a)
    BY <1>3 DEF Orders
  <2>2. IsFiniteSet(Below(b)) /\ Below(a) # Below(b)
    BY <1>2, <2>1
  <2>3. Cardinality(Below(a)) <= Cardinality(Below(b)) /\ Cardinality(Below(a)) # Cardinality(Below(b))
    BY <2>1, <2>2, FS_Subset
  <2>4. rank[a] = Cardinality(Below(a)) /\ rank[b] = Cardinality(Below(b))
    BY <1>0
  <2>. HIDE DEF Below
  <2>. QED BY <1>2, <2>3, <2>4
<1>4. rank \in Injection(E, 0 .. n - 1)
  <2>1. rank \in [E -> 0 .. n - 1]
    <3>. HIDE DEF n, Below
    <3>1. \A e \in E : rank[e] \in 0 .. n - 1
      BY <1>1, <1>2
    <3>. QED BY <1>0, <3>1
  <2>2. ASSUME NEW a \in E, NEW b \in E, rank[a] = rank[b]
        PROVE  a = b
    <3>1. SUFFICES ASSUME a # b PROVE FALSE
      OBVIOUS
    <3>2. rank[a] < rank[b] \/ rank[b] < rank[a]
      BY <1>3, <3>1 DEF Orders
    <3>3. rank[a] \in Nat /\ rank[b] \in Nat
      BY <1>2
    <3>. HIDE DEF Below, n
    <3>. QED BY <2>2, <3>2, <3>3
  <2>. QED BY <2>1, <2>2 DEF Injection, IsInjective
<1>5. rank \in Surjection(E, 0 .. n - 1)
  <2>1. IsFiniteSet(0 .. n - 1) /\ Cardinality(0 .. n - 1) = n
    BY <1>1, FS_Interval
  <2>. QED BY <1>4, <2>1, FS_Injection
<1>6. ASSUME NEW i \in 1 .. n
      PROVE  q[i] \in E /\ rank[q[i]] = i - 1
  <2>1. \E e \in E : rank[e] = i - 1
    <3>1. i - 1 \in 0 .. n - 1
      BY <1>1
    <3>. QED BY <1>5, <3>1 DEF Surjection
  <2>2. \E e \in E : Cardinality(Below(e)) = i - 1
    BY <1>0, <2>1
  <2>3. q[i] = CHOOSE e \in E : Cardinality(Below(e)) = i - 1
    BY DEF Sorted
  <2>4. q[i] \in E /\ Cardinality(Below(q[i])) = i - 1
    <3>. HIDE DEF q, Below
    <3>. QED BY <2>2, <2>3
  <2>. QED BY <1>0, <2>4
<1>7. q \in [1 .. n -> E]
  <2>. DEFINE Chosen(i) == CHOOSE e \in E : Cardinality(Below(e)) = i - 1
  <2>0. q = [i \in 1 .. n |-> Chosen(i)]
    BY DEF Sorted
  <2>. HIDE DEF Chosen
  <2>1. q = [i \in 1 .. n |-> q[i]]
    BY <2>0
  <2>. HIDE DEF q, n, Below
  <2>. QED BY <1>6, <2>1
<1>. HIDE DEF q, n, Below
<1>8. ASSUME NEW e \in E
      PROVE  \E i \in 1 .. n : q[i] = e
  <2>1. rank[e] + 1 \in 1 .. n /\ (rank[e] + 1) - 1 = rank[e]
    BY <1>1, <1>2
  <2>2. q[rank[e] + 1] \in E /\ rank[q[rank[e] + 1]] = rank[e]
    BY <1>6, <2>1
  <2>3. q[rank[e] + 1] = e
    BY <1>4, <2>2 DEF Injection, IsInjective
  <2>. QED BY <2>1, <2>3
<1>9. ASSUME NEW i \in 1 .. n, NEW j \in 1 .. n
      PROVE  i < j <=> <<q[i], q[j]>> \in R
  <2>1. /\ q[i] \in E /\ q[j] \in E
        /\ rank[q[i]] = i - 1 /\ rank[q[j]] = j - 1
    BY <1>6
  <2>2. <<q[i], q[j]>> \in R => i < j
    BY <1>1, <1>3, <2>1
  <2>3. <<q[j], q[i]>> \in R => j < i
    BY <1>1, <1>3, <2>1
  <2>4. i < j => q[i] # q[j]
    BY <1>1, <2>1
  <2>. QED BY <1>1, <2>1, <2>2, <2>3, <2>4 DEF Orders
<1>. QED BY <1>1, <1>7, <1>8, <1>9 DEF n, q

-----------------------------------------------------------------------------
(* Recursion along the natural numbers.                                    *)

\* f is what the step g makes of 0, up to m.
Recursion(f, g, m) ==
    /\ f \in [0 .. m -> Nat] /\ f[0] = 0
    /\ \A p \in 1 .. m : f[p] = g[<<p, f[p - 1]>>]

LEMMA RecursionExists ==
    ASSUME NEW n \in Nat, NEW g \in [(1 .. n) \X Nat -> Nat]
    PROVE  \E f : Recursion(f, g, n)
<1>. DEFINE Solves(f, m) == Recursion(f, g, m)
            T == {m \in 0 .. n : ~ \E f : Solves(f, m)}
<1>1. SUFFICES ASSUME T # {} PROVE FALSE
  <2>1. n \in 0 .. n
    OBVIOUS
  <2>2. \E f : Solves(f, n)
    <3>. HIDE DEF Solves
    <3>. QED BY <1>1, <2>1
  <2>. QED BY <2>2
<1>2. PICK m \in T : \A k \in T : m <= k
  <2>. HIDE DEF Solves
  <2>1. T \subseteq Nat
    OBVIOUS
  <2>. HIDE DEF T
  <2>. QED BY <1>1, <2>1, LeastElement
<1>3. m \in 0 .. n /\ ~ \E f : Solves(f, m)
  OBVIOUS
<1>4. CASE m = 0
  <2>. DEFINE f == [p \in 0 .. 0 |-> 0]
  <2>1. Solves(f, 0)
    BY DEF Recursion
  <2>. QED BY <1>3, <1>4, <2>1
<1>5. CASE m # 0
  <2>1. m - 1 \in 0 .. n /\ m - 1 \notin T /\ m \in 1 .. n
    BY <1>2, <1>3, <1>5
  <2>2. PICK f : Solves(f, m - 1)
    BY <2>1
  <2>. DEFINE v == g[<<m, f[m - 1]>>]
              h == [p \in 0 .. m |-> IF p = m THEN v ELSE f[p]]
  <2>3. f[m - 1] \in Nat
    BY <2>1, <2>2 DEF Recursion
  <2>4. v \in Nat
    BY <2>1, <2>3
  <2>. HIDE DEF v
  <2>5. h \in [0 .. m -> Nat]
    BY <2>1, <2>2, <2>4 DEF Recursion
  <2>6. h[0] = 0 /\ h[m] = v /\ \A p \in 0 .. m - 1 : h[p] = f[p]
    BY <2>1, <2>2 DEF Recursion
  <2>. HIDE DEF h
  <2>7. ASSUME NEW p \in 1 .. m
        PROVE  h[p] = g[<<p, h[p - 1]>>]
    <3>1. CASE p = m
      <4>1. h[m - 1] = f[m - 1]
        BY <2>1, <2>6
      <4>. QED BY <2>6, <3>1, <4>1 DEF v
    <3>2. CASE p # m
      <4>1. p \in 1 .. m - 1 /\ p \in 0 .. m - 1 /\ p - 1 \in 0 .. m - 1
        BY <2>1, <3>2
      <4>2. h[p] = f[p] /\ h[p - 1] = f[p - 1]
        BY <2>6, <4>1
      <4>. QED BY <2>2, <4>1, <4>2 DEF Recursion
    <3>. QED BY <3>1, <3>2
  <2>8. Solves(h, m)
    BY <2>5, <2>6, <2>7 DEF Recursion
  <2>. QED BY <1>3, <2>8
<1>. QED BY <1>4, <1>5

-----------------------------------------------------------------------------
(* The instants carried over and the bytes added up.                       *)

LEMMA CarriedIs ==
    ASSUME NEW lines \in Seq(Line)
    PROVE  /\ Carried(lines)[0] = 0
           /\ \A p \in 1 .. Len(lines) :
                 Carried(lines)[p] = IF lines[p].stamped THEN lines[p].t ELSE Carried(lines)[p - 1]
<1>. DEFINE n == Len(lines)
            Def(f) == [p \in 0 .. n |-> IF p = 0 THEN 0
                                        ELSE IF lines[p].stamped THEN lines[p].t ELSE f[p - 1]]
            C == CHOOSE f : f = Def(f)
            g == [c \in (1 .. n) \X Nat |-> IF lines[c[1]].stamped THEN lines[c[1]].t ELSE c[2]]
<1>1. Carried(lines) = C
  BY DEF Carried
<1>2. n \in Nat
  OBVIOUS
<1>3. \A p \in 1 .. n : lines[p].t \in Nat
  <2>1. \A p \in 1 .. n : lines[p] \in Line
    BY ElementOfSeq, Zenon
  <2>. QED BY <2>1 DEF Line
<1>4. g \in [(1 .. n) \X Nat -> Nat]
  BY <1>3
<1>5. \A p \in 1 .. n, v \in Nat : g[<<p, v>>] = IF lines[p].stamped THEN lines[p].t ELSE v
  OBVIOUS
<1>. HIDE DEF g, n
<1>6. PICK f : Recursion(f, g, n)
  BY <1>2, <1>4, RecursionExists
<1>7. \A p \in 0 .. n : f[p] = IF p = 0 THEN 0
                               ELSE IF lines[p].stamped THEN lines[p].t ELSE f[p - 1]
  <2>1. \A p \in 1 .. n : f[p - 1] \in Nat
    BY <1>2, <1>6 DEF Recursion
  <2>2. ASSUME NEW p \in 1 .. n
        PROVE  f[p] = IF lines[p].stamped THEN lines[p].t ELSE f[p - 1]
    <3>1. f[p] = g[<<p, f[p - 1]>>] /\ f[p - 1] \in Nat
      BY <1>6, <2>1 DEF Recursion
    <3>. QED BY <1>5, <3>1
  <2>. QED BY <1>2, <1>6, <2>2 DEF Recursion
<1>8. f = Def(f)
  BY <1>6, <1>7 DEF Recursion
<1>9. C = Def(C)
  BY <1>8, Zenon
<1>. HIDE DEF C
<1>10. \A p \in 0 .. n : C[p] = IF p = 0 THEN 0
                                ELSE IF lines[p].stamped THEN lines[p].t ELSE C[p - 1]
  BY <1>9, Zenon
<1>. QED BY <1>1, <1>2, <1>10 DEF n

\* The instants of a stream never fall.
InTime(lines) == \A p, q \in 1 .. Len(lines) : p <= q => lines[p].t <= lines[q].t

\* Then those carried over do not either, and none is ahead of its line.
LEMMA CarriedGrows ==
    ASSUME NEW lines \in Seq(Line), InTime(lines)
    PROVE  \A q \in 0 .. Len(lines) :
              /\ Carried(lines)[q] \in Nat
              /\ \A r \in 1 .. Len(lines) : q <= r => Carried(lines)[q] <= lines[r].t
              /\ \A p \in 0 .. q : Carried(lines)[p] <= Carried(lines)[q]
<1>. DEFINE n == Len(lines)
            C == Carried(lines)
            Good(q) == /\ C[q] \in Nat
                       /\ \A r \in 1 .. n : q <= r => C[q] <= lines[r].t
                       /\ \A p \in 0 .. q : C[p] <= C[q]
            T == {q \in 0 .. n : ~Good(q)}
<1>1. n \in Nat
  OBVIOUS
<1>2. \A p \in 1 .. n : lines[p].t \in Nat /\ 0 <= lines[p].t
  <2>1. \A p \in 1 .. n : lines[p] \in Line
    BY ElementOfSeq, Zenon
  <2>. QED BY <2>1 DEF Line
<1>3. C[0] = 0 /\ \A p \in 1 .. n : C[p] = IF lines[p].stamped THEN lines[p].t ELSE C[p - 1]
  BY CarriedIs
<1>4. \A p, q \in 1 .. n : p <= q => lines[p].t <= lines[q].t
  BY DEF InTime
<1>. HIDE DEF n, C
<1>5. SUFFICES ASSUME T # {} PROVE FALSE
  <2>1. \A q \in 0 .. n : Good(q)
    <3>. HIDE DEF Good
    <3>. QED BY <1>5
  <2>. QED BY <2>1 DEF n, C
<1>6. PICK q \in T : \A k \in T : q <= k
  <2>. HIDE DEF Good
  <2>1. T \subseteq Nat
    BY <1>1
  <2>. HIDE DEF T
  <2>. QED BY <1>5, <2>1, LeastElement
<1>7. q \in 0 .. n /\ ~Good(q)
  OBVIOUS
<1>8. CASE q = 0
  BY <1>1, <1>2, <1>3, <1>7, <1>8
<1>9. CASE q # 0
  <2>1. q \in 1 .. n /\ q - 1 \in 0 .. n /\ q - 1 \notin T
    BY <1>1, <1>6, <1>7, <1>9
  <2>2. Good(q - 1)
    BY <2>1
  <2>3. C[q - 1] \in Nat /\ C[q - 1] <= lines[q].t
    BY <2>1, <2>2
  <2>4. C[q] \in Nat /\ C[q - 1] <= C[q]
    BY <1>2, <1>3, <2>1, <2>3
  <2>5. \A p \in 0 .. q : C[p] <= C[q]
    <3>1. \A p \in 0 .. q - 1 : C[p] \in Nat /\ C[p] <= C[q - 1]
      <4>1. \A p \in 0 .. q - 1 : p \in 0 .. n /\ p \notin T
        BY <1>1, <1>6, <2>1
      <4>2. \A p \in 0 .. q - 1 : Good(p)
        <5>. HIDE DEF Good
        <5>. QED BY <4>1
      <4>. QED BY <2>2, <4>2
    <3>2. \A p \in 0 .. q : p = q \/ p \in 0 .. q - 1
      BY <2>1
    <3>. QED BY <2>3, <2>4, <3>1, <3>2
  <2>6. \A r \in 1 .. n : q <= r => C[q] <= lines[r].t
    <3>1. \A r \in 1 .. n : q <= r => lines[q].t <= lines[r].t /\ C[q - 1] <= lines[r].t
      BY <1>1, <1>4, <2>1, <2>2
    <3>. QED BY <1>3, <2>1, <3>1
  <2>. QED BY <1>7, <2>4, <2>5, <2>6
<1>. QED BY <1>8, <1>9

\* How many of the last k lines are of the stream s, and their bytes.
Count(lines, s, k) ==
    Cardinality({i \in Len(lines) - k + 1 .. Len(lines) : lines[i].s = s})
Size(lines, k) == Count(lines, "stdout", k) * Bytes["stdout"] + Count(lines, "stderr", k) * Bytes["stderr"]

LEMMA CountGrows ==
    ASSUME NEW lines, Len(lines) \in Nat, NEW s, NEW k \in 1 .. Len(lines)
    PROVE  /\ Count(lines, s, k - 1) \in Nat
           /\ Count(lines, s, k) = Count(lines, s, k - 1)
                                   + (IF lines[Len(lines) - k + 1].s = s THEN 1 ELSE 0)
<1>. DEFINE n == Len(lines)
            Of(j) == {i \in n - j + 1 .. n : lines[i].s = s}
<1>1. IsFiniteSet(Of(k - 1)) /\ Cardinality(Of(k - 1)) \in Nat
  <2>1. IsFiniteSet(n - (k - 1) + 1 .. n)
    BY FS_Interval
  <2>2. IsFiniteSet(Of(k - 1))
    BY <2>1, FS_Subset
  <2>. QED BY <2>2, FS_CardinalityType
<1>2. n - k + 1 \notin Of(k - 1)
  OBVIOUS
<1>3. Of(k) = IF lines[n - k + 1].s = s THEN Of(k - 1) \cup {n - k + 1} ELSE Of(k - 1)
  OBVIOUS
<1>4. Cardinality(Of(k - 1) \cup {n - k + 1}) = Cardinality(Of(k - 1)) + 1
  <2>. HIDE DEF Of
  <2>. QED BY <1>1, <1>2, FS_AddElement
<1>5. Count(lines, s, k) = Cardinality(Of(k)) /\ Count(lines, s, k - 1) = Cardinality(Of(k - 1))
  BY DEF Count
<1>. HIDE DEF Of
<1>. QED BY <1>1, <1>3, <1>4, <1>5

LEMMA OneMore ==
    ASSUME NEW a \in Nat, NEW b \in Nat, NEW p \in Nat, NEW q \in Nat
    PROVE  /\ a * p + b * q \in Nat
           /\ (a + 1) * p + b * q = (a * p + b * q) + p
           /\ a * p + (b + 1) * q = (a * p + b * q) + q
<1>1. a * p \in Nat /\ b * q \in Nat
  OBVIOUS
<1>2. (a + 1) * p = a * p + p /\ (b + 1) * q = b * q + q
  OBVIOUS
<1>. DEFINE x == a * p
            y == b * q
<1>3. x \in Nat /\ y \in Nat
  BY <1>1
<1>4. (a + 1) * p = x + p /\ (b + 1) * q = y + q
  BY <1>2
<1>5. /\ x + y \in Nat
      /\ (a + 1) * p + y = (x + y) + p
      /\ x + (b + 1) * q = (x + y) + q
  <2>. HIDE DEF x, y
  <2>. QED BY <1>3, <1>4
<1>. QED BY <1>5

LEMMA SizeGrows ==
    ASSUME ReadAssumption, NEW lines \in Seq(Line), NEW k \in 1 .. Len(lines)
    PROVE  /\ Size(lines, 0) = 0
           /\ Size(lines, k - 1) \in Nat
           /\ Size(lines, k) = Size(lines, k - 1) + Bytes[lines[Len(lines) - k + 1].s]
<1>. DEFINE s == lines[Len(lines) - k + 1].s
<1>1. Len(lines) \in Nat /\ Len(lines) - k + 1 \in 1 .. Len(lines)
  OBVIOUS
<1>2. s \in Streams
  <2>1. lines[Len(lines) - k + 1] \in Line
    BY <1>1, ElementOfSeq, Zenon
  <2>. QED BY <2>1 DEF Line
<1>. HIDE DEF s
<1>3. Bytes["stdout"] \in Nat /\ Bytes["stderr"] \in Nat
  BY DEF ReadAssumption, Streams
<1>. DEFINE a == Count(lines, "stdout", k - 1)
            b == Count(lines, "stderr", k - 1)
<1>4. /\ a \in Nat /\ b \in Nat
      /\ Count(lines, "stdout", k) = a + (IF s = "stdout" THEN 1 ELSE 0)
      /\ Count(lines, "stderr", k) = b + (IF s = "stderr" THEN 1 ELSE 0)
  BY <1>1, CountGrows DEF s
<1>5. PICK p \in Nat, q \in Nat : p = Bytes["stdout"] /\ q = Bytes["stderr"]
  BY <1>3
<1>6. Size(lines, k) = Size(lines, k - 1) + Bytes[s] /\ Size(lines, k - 1) \in Nat
  <2>. HIDE DEF a, b
  <2>1. /\ a * p + b * q \in Nat
        /\ (a + 1) * p + b * q = (a * p + b * q) + p
        /\ a * p + (b + 1) * q = (a * p + b * q) + q
    BY <1>4, OneMore
  <2>2. Size(lines, k - 1) = a * p + b * q
    BY <1>5 DEF Size, a, b
  <2>3. CASE s = "stdout"
    <3>1. a + 1 = Count(lines, "stdout", k) /\ b = Count(lines, "stderr", k)
      BY <1>4, <2>3
    <3>2. Size(lines, k) = (a + 1) * p + b * q
      BY <1>5, <3>1 DEF Size
    <3>. QED BY <1>5, <2>1, <2>2, <2>3, <3>2
  <2>4. CASE s = "stderr"
    <3>1. a = Count(lines, "stdout", k) /\ b + 1 = Count(lines, "stderr", k)
      BY <1>4, <2>4
    <3>2. Size(lines, k) = a * p + (b + 1) * q
      BY <1>5, <3>1 DEF Size
    <3>. QED BY <1>5, <2>1, <2>2, <2>4, <3>2
  <2>. QED BY <1>2, <2>3, <2>4 DEF Streams
<1>7. Size(lines, 0) = 0
  <2>1. \A t : Count(lines, t, 0) = 0
    <3>1. \A t : {i \in Len(lines) - 0 + 1 .. Len(lines) : lines[i].s = t} = {}
      BY <1>1
    <3>. QED BY <3>1, FS_EmptySet DEF Count
  <2>. QED BY <1>3, <2>1 DEF Size
<1>. QED BY <1>6, <1>7 DEF s

LEMMA TotalIs ==
    ASSUME ReadAssumption, NEW lines \in Seq(Line)
    PROVE  /\ Total(lines)[0] = 0
           /\ \A k \in 1 .. Len(lines) :
                 Total(lines)[k] = Total(lines)[k - 1] + Bytes[lines[Len(lines) - k + 1].s]
<1>. DEFINE n == Len(lines)
            size(k) == Bytes[lines[n - k + 1].s]
            Def(f) == [k \in 0 .. n |-> IF k = 0 THEN 0 ELSE f[k - 1] + size(k)]
            B == CHOOSE f : f = Def(f)
            g == [c \in (1 .. n) \X Nat |-> c[2] + size(c[1])]
<1>1. Total(lines) = B
  BY DEF Total
<1>2. n \in Nat
  OBVIOUS
<1>3. \A k \in 1 .. n : size(k) \in Nat
  <2>1. \A k \in 1 .. n : n - k + 1 \in 1 .. n
    BY <1>2
  <2>2. \A k \in 1 .. n : lines[k] \in Line
    BY ElementOfSeq, Zenon
  <2>3. \A k \in 1 .. n : lines[n - k + 1].s \in Streams
    BY <2>1, <2>2 DEF Line
  <2>. QED BY <2>3 DEF ReadAssumption
<1>. HIDE DEF size, n
<1>4. g \in [(1 .. n) \X Nat -> Nat]
  BY <1>3
<1>5. \A k \in 1 .. n, v \in Nat : g[<<k, v>>] = v + size(k)
  OBVIOUS
<1>. HIDE DEF g
<1>6. PICK f : Recursion(f, g, n)
  BY <1>2, <1>4, RecursionExists
<1>7. \A k \in 0 .. n : f[k] = IF k = 0 THEN 0 ELSE f[k - 1] + size(k)
  <2>1. \A k \in 1 .. n : f[k - 1] \in Nat
    BY <1>2, <1>6 DEF Recursion
  <2>2. ASSUME NEW k \in 1 .. n
        PROVE  f[k] = f[k - 1] + size(k)
    <3>1. f[k] = g[<<k, f[k - 1]>>] /\ f[k - 1] \in Nat
      BY <1>6, <2>1 DEF Recursion
    <3>. QED BY <1>5, <3>1
  <2>. QED BY <1>2, <1>6, <2>2 DEF Recursion
<1>8. f = Def(f)
  BY <1>6, <1>7 DEF Recursion
<1>9. B = Def(B)
  BY <1>8, Zenon
<1>. HIDE DEF B
<1>10. \A k \in 0 .. n : B[k] = IF k = 0 THEN 0 ELSE B[k - 1] + size(k)
  BY <1>9, Zenon
<1>. QED BY <1>1, <1>2, <1>10 DEF n, size

\* few ends like lines.
Ends(few, lines) ==
    /\ Len(few) <= Len(lines)
    /\ \A k \in 1 .. Len(few) : few[Len(few) - k + 1] = lines[Len(lines) - k + 1]

\* The loop of cap_log_lines adds up the bytes of the last lines.
LEMMA TotalIsSize ==
    ASSUME ReadAssumption, NEW lines \in Seq(Line), NEW few \in Seq(Line), Ends(few, lines)
    PROVE  \A k \in 0 .. Len(few) : Total(few)[k] = Size(lines, k) /\ Size(lines, k) \in Nat
<1>. DEFINE n == Len(few)
            Good(k) == Total(few)[k] = Size(lines, k) /\ Size(lines, k) \in Nat
            T == {k \in 0 .. n : ~Good(k)}
<1>1. n \in Nat /\ Len(lines) \in Nat /\ n <= Len(lines)
  BY DEF Ends
<1>. HIDE DEF n
<1>2. SUFFICES ASSUME T # {} PROVE FALSE
  <2>1. \A k \in 0 .. n : Good(k)
    <3>. HIDE DEF Good
    <3>. QED BY <1>2
  <2>. QED BY <2>1 DEF n
<1>3. PICK k \in T : \A j \in T : k <= j
  <2>. HIDE DEF Good
  <2>1. T \subseteq Nat
    BY <1>1
  <2>. HIDE DEF T
  <2>. QED BY <1>2, <2>1, LeastElement
<1>4. k \in 0 .. n /\ ~Good(k)
  OBVIOUS
<1>5. CASE k = 0
  <2>1. Total(few)[0] = 0
    BY TotalIs
  <2>2. Size(lines, 0) = 0
    <3>1. \A t : {i \in Len(lines) - 0 + 1 .. Len(lines) : lines[i].s = t} = {}
      BY <1>1
    <3>2. \A t : Count(lines, t, 0) = 0
      BY <3>1, FS_EmptySet DEF Count
    <3>. QED BY <3>2 DEF Size, ReadAssumption, Streams
  <2>. QED BY <1>4, <1>5, <2>1, <2>2
<1>6. CASE k # 0
  <2>1. k \in 1 .. n /\ k - 1 \in 0 .. n /\ k - 1 \notin T /\ k \in 1 .. Len(lines)
    BY <1>1, <1>3, <1>4, <1>6
  <2>2. Good(k - 1)
    <3>. HIDE DEF Good
    <3>. QED BY <2>1
  <2>3. Total(few)[k] = Total(few)[k - 1] + Bytes[few[n - k + 1].s]
    BY <2>1, TotalIs DEF n
  <2>4. /\ Size(lines, k) = Size(lines, k - 1) + Bytes[lines[Len(lines) - k + 1].s]
        /\ Size(lines, k - 1) \in Nat
    BY <2>1, SizeGrows
  <2>5. few[n - k + 1] = lines[Len(lines) - k + 1]
    BY <2>1 DEF Ends, n
  <2>6. Bytes[lines[Len(lines) - k + 1].s] \in Nat
    <3>1. Len(lines) - k + 1 \in 1 .. Len(lines)
      BY <1>1, <2>1
    <3>2. lines[Len(lines) - k + 1] \in Line
      BY <3>1, ElementOfSeq, Zenon
    <3>. QED BY <3>2 DEF Line, ReadAssumption
  <2>. QED BY <1>4, <2>2, <2>3, <2>4, <2>5, <2>6
<1>. QED BY <1>5, <1>6

-----------------------------------------------------------------------------
(* The last lines, and the answer as a window of the merged ones.          *)

LEMMA LastOfIs ==
    ASSUME NEW S, NEW q \in Seq(S), NEW k \in Nat
    PROVE  /\ LastOf(q, k) \in Seq(S)
           /\ Len(LastOf(q, k)) = Least(k, Len(q))
           /\ \A i \in 1 .. Least(k, Len(q)) : LastOf(q, k)[i] = q[Len(q) - Least(k, Len(q)) + i]
<1>1. Len(q) \in Nat
  OBVIOUS
<1>2. CASE Len(q) <= k
  <2>1. LastOf(q, k) = q /\ Least(k, Len(q)) = Len(q)
    BY <1>1, <1>2 DEF LastOf, Least
  <2>2. \A i \in 1 .. Len(q) : Len(q) - Len(q) + i = i
    BY <1>1
  <2>. QED BY <1>1, <2>1, <2>2
<1>3. CASE k < Len(q)
  <2>. DEFINE m == Len(q) - k + 1
  <2>1. LastOf(q, k) = SubSeq(q, m, Len(q)) /\ Least(k, Len(q)) = k
    BY <1>1, <1>3 DEF LastOf, Least
  <2>2. m \in Int /\ Len(q) \in Int /\ \A i \in m .. Len(q) : i \in 1 .. Len(q)
    BY <1>1, <1>3
  <2>3. \A i \in m .. Len(q) : q[i] \in S
    BY <2>2, ElementOfSeq, Zenon
  <2>. HIDE DEF m
  <2>4. /\ SubSeq(q, m, Len(q)) \in Seq(S)
        /\ Len(SubSeq(q, m, Len(q))) = IF m <= Len(q) THEN Len(q) - m + 1 ELSE 0
        /\ \A i \in 1 .. Len(q) - m + 1 : SubSeq(q, m, Len(q))[i] = q[m + i - 1]
    BY <2>2, <2>3, SubSeqProperties
  <2>5. Len(q) - m + 1 = k /\ (m <= Len(q) \/ k = 0) /\ \A i \in 1 .. k : m + i - 1 = Len(q) - k + i
    BY <1>1, <1>3 DEF m
  <2>. QED BY <2>1, <2>4, <2>5
<1>. QED BY <1>1, <1>2, <1>3

\* The end of a sequence is one of its ends.
LEMMA LastOfEnds ==
    ASSUME NEW S, NEW q \in Seq(S), NEW k \in Nat
    PROVE  Ends(LastOf(q, k), q)
<1>. DEFINE few == LastOf(q, k)
            m == Least(k, Len(q))
<1>1. Len(q) \in Nat /\ m \in Nat /\ m <= Len(q)
  BY DEF Least
<1>2. few \in Seq(S) /\ Len(few) = m /\ \A i \in 1 .. m : few[i] = q[Len(q) - m + i]
  BY LastOfIs
<1>. HIDE DEF few, m
<1>3. ASSUME NEW j \in 1 .. m
      PROVE  few[m - j + 1] = q[Len(q) - j + 1]
  <2>1. m - j + 1 \in 1 .. m /\ Len(q) - m + (m - j + 1) = Len(q) - j + 1
    BY <1>1
  <2>. QED BY <1>2, <2>1
<1>4. Ends(few, q)
  BY <1>1, <1>2, <1>3 DEF Ends
<1>. QED BY <1>4 DEF few

\* The last of the last.
LEMMA LastOfLast ==
    ASSUME NEW S, NEW q \in Seq(S), NEW k \in Nat, NEW j \in 0 .. Least(k, Len(q))
    PROVE  LastOf(LastOf(q, k), j) = LastOf(q, j)
<1>. DEFINE few == LastOf(q, k)
            m == Least(k, Len(q))
<1>1. Len(q) \in Nat /\ m \in Nat /\ m <= Len(q) /\ j \in Nat /\ j <= m
  BY DEF Least
<1>2. few \in Seq(S) /\ Len(few) = m /\ \A i \in 1 .. m : few[i] = q[Len(q) - m + i]
  BY LastOfIs
<1>. HIDE DEF few, m
<1>3. /\ LastOf(few, j) \in Seq(S) /\ Len(LastOf(few, j)) = j
      /\ \A i \in 1 .. j : LastOf(few, j)[i] = few[m - j + i]
  <2>1. Least(j, Len(few)) = j
    BY <1>1, <1>2 DEF Least
  <2>2. /\ LastOf(few, j) \in Seq(S) /\ Len(LastOf(few, j)) = Least(j, Len(few))
        /\ \A i \in 1 .. Least(j, Len(few)) :
              LastOf(few, j)[i] = few[Len(few) - Least(j, Len(few)) + i]
    BY <1>1, <1>2, LastOfIs
  <2>. QED BY <1>1, <1>2, <2>1, <2>2
<1>4. /\ LastOf(q, j) \in Seq(S) /\ Len(LastOf(q, j)) = j
      /\ \A i \in 1 .. j : LastOf(q, j)[i] = q[Len(q) - j + i]
  <2>1. Least(j, Len(q)) = j
    BY <1>1 DEF Least
  <2>2. /\ LastOf(q, j) \in Seq(S) /\ Len(LastOf(q, j)) = Least(j, Len(q))
        /\ \A i \in 1 .. Least(j, Len(q)) :
              LastOf(q, j)[i] = q[Len(q) - Least(j, Len(q)) + i]
    BY <1>1, LastOfIs
  <2>. QED BY <1>1, <2>1, <2>2
<1>5. \A i \in 1 .. j : LastOf(few, j)[i] = LastOf(q, j)[i]
  <2>1. \A i \in 1 .. j : m - j + i \in 1 .. m /\ Len(q) - m + (m - j + i) = Len(q) - j + i
    BY <1>1
  <2>. QED BY <1>2, <1>3, <1>4, <2>1
<1>6. LastOf(few, j) = LastOf(q, j)
  BY <1>3, <1>4, <1>5, SeqEqual
<1>. QED BY <1>6 DEF few

\* Fits is the longest end under the byte ceiling.
LEMMA FitsIs ==
    ASSUME ReadAssumption, NEW lines \in Seq(Line), NEW few \in Seq(Line), Ends(few, lines)
    PROVE  /\ Fits(few) \in 0 .. Len(few)
           /\ Size(lines, Fits(few)) <= MaxLogBytes
           /\ Fits(few) < Len(few) => Size(lines, Fits(few) + 1) > MaxLogBytes
<1>. DEFINE n == Len(few)
            K == {k \in 0 .. n : \A j \in 1 .. k : Total(few)[j] <= MaxLogBytes}
            T == {j \in Nat : n - j \in K}
<1>1. n \in Nat /\ MaxLogBytes \in Nat
  BY DEF ReadAssumption
<1>2. \A k \in 0 .. n : Total(few)[k] = Size(lines, k) /\ Size(lines, k) \in Nat
  BY TotalIsSize
<1>3. Total(few)[0] = 0
  BY TotalIs
<1>4. Fits(few) = CHOOSE x \in K : \A y \in K : x >= y
  BY DEF Fits, Max
<1>. HIDE DEF n
<1>5. n \in T
  BY <1>1
<1>6. PICK j \in T : \A i \in T : j <= i
  <2>1. T \subseteq Nat
    OBVIOUS
  <2>. HIDE DEF T
  <2>. QED BY <1>5, <2>1, LeastElement
<1>7. n - j \in K /\ \A y \in K : n - j >= y
  <2>1. ASSUME NEW y \in K
        PROVE  n - j >= y
    <3>1. y \in 0 .. n /\ n - y \in Nat /\ n - (n - y) = y
      BY <1>1
    <3>2. n - y \in T
      <4>. HIDE DEF K
      <4>. QED BY <2>1, <3>1
    <3>3. j <= n - y /\ j \in Nat
      BY <1>6, <3>2
    <3>. QED BY <1>1, <3>1, <3>3
  <2>. HIDE DEF K
  <2>. QED BY <2>1
<1>8. Fits(few) \in K /\ \A y \in K : Fits(few) >= y
  <2>. HIDE DEF K
  <2>. QED BY <1>4, <1>7
<1>. DEFINE f == Fits(few)
<1>9. f \in 0 .. n /\ \A i \in 1 .. f : Total(few)[i] <= MaxLogBytes
  BY <1>8
<1>10. f < n => f + 1 \notin K
  BY <1>1, <1>8, <1>9
<1>. HIDE DEF f
<1>11. Size(lines, f) <= MaxLogBytes
  BY <1>1, <1>2, <1>3, <1>9
<1>12. f < n => Size(lines, f + 1) > MaxLogBytes
  <2>1. SUFFICES ASSUME f < n, Size(lines, f + 1) <= MaxLogBytes PROVE FALSE
    BY <1>1, <1>2, <1>9
  <2>2. f + 1 \in 0 .. n /\ Total(few)[f + 1] <= MaxLogBytes
    BY <1>1, <1>2, <1>9, <2>1
  <2>3. \A i \in 1 .. f + 1 : i = f + 1 \/ i \in 1 .. f
    BY <1>1, <1>9
  <2>. QED BY <1>9, <1>10, <2>1, <2>2, <2>3
<1>. QED BY <1>9, <1>11, <1>12 DEF n, f

\* cap_log_lines keeps the longest end that both limits allow, and says so.
Allowed(lines, m, k) == k <= m /\ (MaxLogBytes > 0 => Size(lines, k) <= MaxLogBytes)

LEMMA CapIsLongest ==
    ASSUME ReadAssumption, NEW lines \in Seq(Line), NEW m \in Nat \ {0}
    PROVE  LET r == Cap(lines, m)
               n == Len(r.lines)
           IN  /\ r \in [lines : Seq(Line), truncated : BOOLEAN]
               /\ n \in 0 .. Len(lines)
               /\ r.lines = LastOf(lines, n) /\ Allowed(lines, m, n)
               /\ n < Len(lines) => ~Allowed(lines, m, n + 1)
               /\ r.truncated = (n < Len(lines))
<1>. DEFINE few == LastOf(lines, m)
            l == Least(m, Len(lines))
            fit == IF MaxLogBytes = 0 THEN Len(few) ELSE Fits(few)
            r == Cap(lines, m)
<1>1. Len(lines) \in Nat /\ l \in Nat /\ l <= Len(lines) /\ l <= m /\ (l < Len(lines) => l = m)
  BY DEF Least
<1>2. few \in Seq(Line) /\ Len(few) = l
  BY LastOfIs
<1>3. r = [lines |-> LastOf(few, fit), truncated |-> fit < Len(lines)]
  BY DEF Cap
<1>4. MaxLogBytes \in Nat
  BY DEF ReadAssumption
<1>5. /\ fit \in 0 .. l
      /\ MaxLogBytes > 0 => Size(lines, fit) <= MaxLogBytes
      /\ fit < l => MaxLogBytes > 0 /\ Size(lines, fit + 1) > MaxLogBytes
  <2>1. CASE MaxLogBytes = 0
    BY <1>1, <1>2, <2>1
  <2>2. CASE MaxLogBytes # 0
    <3>1. Ends(few, lines)
      BY LastOfEnds
    <3>2. /\ Fits(few) \in 0 .. Len(few)
          /\ Size(lines, Fits(few)) <= MaxLogBytes
          /\ Fits(few) < Len(few) => Size(lines, Fits(few) + 1) > MaxLogBytes
      BY <1>2, <3>1, FitsIs
    <3>3. fit = Fits(few)
      BY <2>2
    <3>. HIDE DEF few, fit
    <3>. QED BY <1>2, <1>4, <2>2, <3>2, <3>3
  <2>. QED BY <2>1, <2>2
<1>6. LastOf(few, fit) = LastOf(lines, fit)
  <2>. HIDE DEF fit
  <2>. QED BY <1>5, LastOfLast
<1>7. LastOf(lines, fit) \in Seq(Line) /\ Len(LastOf(lines, fit)) = fit
  <2>. HIDE DEF fit
  <2>1. fit \in Nat /\ Least(fit, Len(lines)) = fit
    BY <1>1, <1>5 DEF Least
  <2>2. /\ LastOf(lines, fit) \in Seq(Line)
        /\ Len(LastOf(lines, fit)) = Least(fit, Len(lines))
    BY <2>1, LastOfIs
  <2>. QED BY <2>1, <2>2
<1>. HIDE DEF few, fit, l
<1>8. /\ r.lines = LastOf(lines, fit) /\ Len(r.lines) = fit /\ r.truncated = (fit < Len(lines))
      /\ r \in [lines : Seq(Line), truncated : BOOLEAN]
  <2>1. (fit < Len(lines)) \in BOOLEAN
    OBVIOUS
  <2>2. r.lines = LastOf(lines, fit) /\ r.truncated = (fit < Len(lines))
    BY <1>3, <1>6
  <2>3. r \in [lines : Seq(Line), truncated : BOOLEAN]
    BY <1>3, <1>6, <1>7, <2>1
  <2>. QED BY <1>7, <2>2, <2>3
<1>9. fit \in 0 .. Len(lines) /\ Allowed(lines, m, fit)
  BY <1>1, <1>5 DEF Allowed
<1>10. fit < Len(lines) => ~Allowed(lines, m, fit + 1)
  <2>1. CASE fit < l
    <3>1. Size(lines, fit + 1) \in Nat
      <4>1. fit + 1 \in 0 .. Len(lines) /\ Ends(lines, lines)
        BY <1>1, <1>5, <2>1 DEF Ends
      <4>. QED BY <4>1, TotalIsSize
    <3>. QED BY <1>4, <1>5, <2>1, <3>1 DEF Allowed
  <2>2. CASE fit = l
    BY <1>1, <2>2 DEF Allowed
  <2>. QED BY <1>1, <1>5, <2>1, <2>2
<1>. HIDE DEF r
<1>11. /\ r \in [lines : Seq(Line), truncated : BOOLEAN]
       /\ Len(r.lines) \in 0 .. Len(lines)
       /\ r.lines = LastOf(lines, Len(r.lines)) /\ Allowed(lines, m, Len(r.lines))
       /\ Len(r.lines) < Len(lines) => ~Allowed(lines, m, Len(r.lines) + 1)
       /\ r.truncated = (Len(r.lines) < Len(lines))
  BY <1>8, <1>9, <1>10, Zenon
<1>. QED BY <1>11, Zenon DEF r

-----------------------------------------------------------------------------
(* The order of the merged lines.                                          *)

LEMMA PlacesCounted ==
    ASSUME NEW streams \in [Streams -> Seq(Line)]
    PROVE  /\ IsFiniteSet(Places(streams))
           /\ Cardinality(Places(streams)) = Len(streams["stdout"]) + Len(streams["stderr"])
           /\ \A e \in Places(streams) : e[1] \in Streams /\ e[2] \in 1 .. Len(streams[e[1]])
                                         /\ e = <<e[1], e[2]>>
           /\ \A s \in Streams : \A p \in 1 .. Len(streams[s]) : <<s, p>> \in Places(streams)
<1>. DEFINE a == Len(streams["stdout"])
            b == Len(streams["stderr"])
            h == [i \in 1 .. a + b |-> IF i <= a THEN <<"stdout", i>> ELSE <<"stderr", i - a>>]
<1>0. a = Len(streams["stdout"]) /\ b = Len(streams["stderr"])
  OBVIOUS
<1>1. a \in Nat /\ b \in Nat
  BY DEF Streams
<1>. HIDE DEF a, b
<1>2. \A s \in Streams : \A p \in 1 .. Len(streams[s]) : <<s, p>> \in Places(streams)
  BY DEF Places
<1>3. \A e \in Places(streams) : e[1] \in Streams /\ e[2] \in 1 .. Len(streams[e[1]])
                                 /\ e = <<e[1], e[2]>>
  BY DEF Places
<1>4. ASSUME NEW i \in 1 .. a + b
      PROVE  h[i] \in Places(streams)
  BY <1>0, <1>1, <1>2 DEF Streams
<1>5. ASSUME NEW i \in 1 .. a + b, NEW j \in 1 .. a + b, h[i] = h[j]
      PROVE  i = j
  BY <1>1, <1>5
<1>6. ASSUME NEW e \in Places(streams)
      PROVE  \E i \in 1 .. a + b : h[i] = e
  <2>10. PICK s \in Streams : \E p \in 1 .. Len(streams[s]) : e = <<s, p>>
    BY DEF Places
  <2>0. PICK p \in 1 .. Len(streams[s]) : e = <<s, p>>
    BY <2>10
  <2>1. CASE s = "stdout"
    <3>1. p \in 1 .. a + b /\ p <= a
      BY <1>0, <1>1, <2>1
    <3>2. h[p] = e
      BY <2>0, <2>1, <3>1
    <3>. QED BY <3>1, <3>2
  <2>2. CASE s = "stderr"
    <3>1. p + a \in 1 .. a + b /\ ~(p + a <= a) /\ (p + a) - a = p
      BY <1>0, <1>1, <2>2
    <3>2. h[p + a] = <<"stderr", (p + a) - a>>
      <4>1. \A i \in 1 .. a + b : ~(i <= a) => h[i] = <<"stderr", i - a>>
        OBVIOUS
      <4>. HIDE DEF h
      <4>. QED BY <3>1, <4>1, Zenon
    <3>3. h[p + a] = e
      BY <2>0, <2>2, <3>1, <3>2
    <3>. QED BY <3>1, <3>3
  <2>. QED BY <2>1, <2>2 DEF Streams
<1>7. h \in Bijection(1 .. a + b, Places(streams))
  <2>1. h = [i \in 1 .. a + b |-> h[i]]
    OBVIOUS
  <2>. HIDE DEF h
  <2>2. h \in [1 .. a + b -> Places(streams)]
    BY <1>4, <2>1
  <2>. QED BY <1>5, <1>6, <2>2 DEF Bijection, Injection, Surjection, IsInjective
<1>8. ExistsBijection(1 .. a + b, Places(streams)) /\ a + b \in Nat
  <2>1. a + b \in Nat
    BY <1>1
  <2>. HIDE DEF h
  <2>. QED BY <1>7, <2>1 DEF ExistsBijection
<1>9. IsFiniteSet(Places(streams)) /\ Cardinality(Places(streams)) = a + b
  <2>. QED BY <1>8, FS_CountingElements, FS_NatBijection
<1>. QED BY <1>0, <1>2, <1>3, <1>9

\* The carried instants of both streams, and the order they give.
CarriedOf(streams) == [s \in Streams |-> Carried(streams[s])]
Ordering(streams) ==
    {e \in Places(streams) \X Places(streams) : Before(CarriedOf(streams), e[1], e[2])}

\* The key of a place is a number, and grows along its stream.
LEMMA KeyGrows ==
    ASSUME NEW streams \in [Streams -> Seq(Line)], \A s \in Streams : InTime(streams[s]),
           NEW s \in Streams
    PROVE  /\ \A p \in 1 .. Len(streams[s]) : CarriedOf(streams)[s][p] \in Nat
           /\ \A p, q \in 1 .. Len(streams[s]) :
                 p <= q => CarriedOf(streams)[s][p] <= CarriedOf(streams)[s][q]
<1>. DEFINE C == Carried(streams[s])
            n == Len(streams[s])
<1>1. streams[s] \in Seq(Line) /\ InTime(streams[s])
  OBVIOUS
<1>2. n \in Nat
  BY <1>1
<1>3. \A q \in 0 .. n : C[q] \in Nat /\ \A p \in 0 .. q : C[p] <= C[q]
  BY <1>1, CarriedGrows
<1>4. CarriedOf(streams)[s] = C
  BY DEF CarriedOf
<1>. HIDE DEF C, n
<1>5. \A p \in 1 .. n : p \in 0 .. n
  BY <1>2
<1>6. \A p, q \in 1 .. n : p <= q => p \in 0 .. q
  BY <1>2
<1>. QED BY <1>3, <1>4, <1>5, <1>6 DEF n

LEMMA OrderingOrders ==
    ASSUME NEW streams \in [Streams -> Seq(Line)], \A s \in Streams : InTime(streams[s])
    PROVE  Orders(Places(streams), Ordering(streams))
<1>. DEFINE P == Places(streams)
            C == CarriedOf(streams)
            key(e) == C[e[1]][e[2]]
<1>1. \A e \in P : /\ e[1] \in Streams /\ e[2] \in Nat /\ e = <<e[1], e[2]>>
                   /\ key(e) \in Nat
  <2>1. ASSUME NEW e \in P
        PROVE  /\ e[1] \in Streams /\ e[2] \in 1 .. Len(streams[e[1]]) /\ e = <<e[1], e[2]>>
    BY PlacesCounted, Zenon
  <2>2. ASSUME NEW e \in P
        PROVE  key(e) \in Nat
    BY <2>1, KeyGrows, Zenon
  <2>. QED BY <2>1, <2>2
<1>2. \A a, b \in P : <<a, b>> \in Ordering(streams) <=>
          \/ key(a) < key(b)
          \/ key(a) = key(b) /\ a[1] = "stdout" /\ b[1] = "stderr"
          \/ key(a) = key(b) /\ a[1] = b[1] /\ a[2] < b[2]
  BY DEF Ordering, Before
<1>. HIDE DEF P, C, key
<1>3. ASSUME NEW a \in P, NEW b \in P, <<a, b>> \in Ordering(streams)
      PROVE  <<b, a>> \notin Ordering(streams)
  BY <1>1, <1>2, <1>3
<1>4. ASSUME NEW a \in P, NEW b \in P, a # b
      PROVE  <<a, b>> \in Ordering(streams) \/ <<b, a>> \in Ordering(streams)
  <2>1. a[1] # b[1] \/ a[2] # b[2]
    BY <1>1, <1>4
  <2>2. key(a) < key(b) \/ key(b) < key(a) \/ key(a) = key(b)
    BY <1>1
  <2>3. a[2] = b[2] \/ a[2] < b[2] \/ b[2] < a[2]
    BY <1>1
  <2>4. a[1] = b[1] \/ (a[1] = "stdout" /\ b[1] = "stderr") \/ (a[1] = "stderr" /\ b[1] = "stdout")
    BY <1>1 DEF Streams
  <2>. QED BY <1>2, <2>1, <2>2, <2>3, <2>4, Zenon
<1>5. ASSUME NEW a \in P, NEW b \in P, NEW c \in P,
             <<a, b>> \in Ordering(streams), <<b, c>> \in Ordering(streams)
      PROVE  <<a, c>> \in Ordering(streams)
  BY <1>1, <1>2, <1>5
<1>. QED BY <1>3, <1>4, <1>5 DEF Orders, P

\* order lists the places of streams by their keys.
Arranges(order, streams) ==
    LET n == Len(streams["stdout"]) + Len(streams["stderr"])
    IN  /\ order \in [1 .. n -> Places(streams)]
        /\ \A e \in Places(streams) : \E i \in 1 .. n : order[i] = e
        /\ \A i, j \in 1 .. n : i < j <=> <<order[i], order[j]>> \in Ordering(streams)

\* The merged lines are those at the places in such an order, also where only one
\* stream has lines.
LEMMA MergeArranges ==
    ASSUME NEW streams \in [Streams -> Seq(Line)], \A s \in Streams : InTime(streams[s])
    PROVE  /\ Merge(streams) \in Seq(Line)
           /\ Len(Merge(streams)) = Len(streams["stdout"]) + Len(streams["stderr"])
           /\ \E order : /\ Arranges(order, streams)
                         /\ \A i \in 1 .. Len(Merge(streams)) :
                               Merge(streams)[i] = streams[order[i][1]][order[i][2]]
<1>. DEFINE out == streams["stdout"]
            err == streams["stderr"]
            P == Places(streams)
            R == Ordering(streams)
            n == Len(out) + Len(err)
<1>1. /\ out \in Seq(Line) /\ err \in Seq(Line) /\ Len(out) \in Nat /\ Len(err) \in Nat
      /\ n \in Nat
  BY DEF Streams
<1>2. \A e \in P : /\ e[1] \in Streams /\ e[2] \in 1 .. Len(streams[e[1]]) /\ e = <<e[1], e[2]>>
  BY PlacesCounted, Zenon
<1>3. \A s \in Streams : \A p \in 1 .. Len(streams[s]) : <<s, p>> \in P
  BY PlacesCounted, Zenon
<1>4. ASSUME NEW s \in Streams, Merge(streams) = streams[s], n = Len(streams[s]),
             \A e \in P : e[1] = s
      PROVE  /\ Merge(streams) \in Seq(Line) /\ Len(Merge(streams)) = n
             /\ \E order : /\ Arranges(order, streams)
                           /\ \A i \in 1 .. Len(Merge(streams)) :
                                 Merge(streams)[i] = streams[order[i][1]][order[i][2]]
  <2>. DEFINE order == [i \in 1 .. n |-> <<s, i>>]
  <2>1. \A i \in 1 .. n : order[i] = <<s, i>> /\ order[i] \in P
    BY <1>3, <1>4
  <2>2. order \in [1 .. n -> P]
    BY <2>1
  <2>. HIDE DEF order
  <2>3. ASSUME NEW e \in P
        PROVE  \E i \in 1 .. n : order[i] = e
    <3>1. e[1] = s /\ e[2] \in 1 .. Len(streams[e[1]]) /\ e = <<e[1], e[2]>>
      BY <1>2, <1>4
    <3>2. e[2] \in 1 .. n /\ e = <<s, e[2]>>
      BY <1>4, <3>1
    <3>. QED BY <2>1, <3>2
  <2>4. ASSUME NEW i \in 1 .. n, NEW j \in 1 .. n
        PROVE  i < j <=> <<order[i], order[j]>> \in R
    <3>. DEFINE C == CarriedOf(streams)
    <3>1. /\ C[s][i] \in Nat /\ C[s][j] \in Nat
          /\ (i <= j => C[s][i] <= C[s][j]) /\ (j <= i => C[s][j] <= C[s][i])
      BY <1>4, KeyGrows, Zenon
    <3>. HIDE DEF C
    <3>2. <<order[i], order[j]>> \in R <=> Before(C, <<s, i>>, <<s, j>>)
      BY <2>1 DEF Ordering, C
    <3>3. Before(C, <<s, i>>, <<s, j>>) <=>
              C[s][i] < C[s][j] \/ (C[s][i] = C[s][j] /\ i < j)
      BY DEF Before
    <3>. QED BY <1>1, <3>1, <3>2, <3>3
  <2>5. Arranges(order, streams)
    BY <2>2, <2>3, <2>4 DEF Arranges
  <2>6. /\ Merge(streams) \in Seq(Line) /\ Len(Merge(streams)) = n
        /\ \A i \in 1 .. n : Merge(streams)[i] = streams[order[i][1]][order[i][2]]
    <3>1. \A i \in 1 .. n : order[i][1] = s /\ order[i][2] = i
      <4>1. \A i \in 1 .. n : <<s, i>>[1] = s /\ <<s, i>>[2] = i
        OBVIOUS
      <4>. HIDE DEF n, P
      <4>. QED BY <2>1, <4>1
    <3>2. Merge(streams) \in Seq(Line) /\ Len(Merge(streams)) = n
      BY <1>4
    <3>. QED BY <1>4, <3>1, <3>2
  <2>. HIDE DEF n
  <2>. QED BY <2>5, <2>6
<1>5. CASE err = <<>>
  <2>1. Merge(streams) = streams["stdout"] /\ n = Len(streams["stdout"])
    BY <1>1, <1>5 DEF Merge
  <2>2. \A e \in P : e[1] = "stdout"
    BY <1>1, <1>2, <1>5 DEF Streams
  <2>. HIDE DEF n, P
  <2>. QED BY <1>4, <2>1, <2>2 DEF Streams, n
<1>6. CASE err # <<>> /\ out = <<>>
  <2>1. Merge(streams) = streams["stderr"] /\ n = Len(streams["stderr"])
    BY <1>1, <1>6 DEF Merge
  <2>2. \A e \in P : e[1] = "stderr"
    BY <1>1, <1>2, <1>6 DEF Streams
  <2>. HIDE DEF n, P
  <2>. QED BY <1>4, <2>1, <2>2 DEF Streams, n
<1>7. CASE err # <<>> /\ out # <<>>
  <2>. DEFINE order == Sorted(P, R)
  <2>1. Merge(streams) = [i \in 1 .. Len(order) |-> streams[order[i][1]][order[i][2]]]
    BY <1>7 DEF Merge, Ordering, CarriedOf
  <2>2. IsFiniteSet(P) /\ Cardinality(P) = n
    BY PlacesCounted, Zenon
  <2>3. Orders(P, R)
    BY OrderingOrders, Zenon
  <2>4. /\ order \in [1 .. n -> P]
        /\ \A e \in P : \E i \in 1 .. n : order[i] = e
        /\ \A i, j \in 1 .. n : i < j <=> <<order[i], order[j]>> \in R
    <3>. HIDE DEF P, R, n
    <3>. QED BY <2>2, <2>3, SortedIsInOrder
  <2>. HIDE DEF order
  <2>5. Arranges(order, streams)
    BY <2>4 DEF Arranges
  <2>6. Len(order) = n
    <3>. HIDE DEF n, P
    <3>. QED BY <1>1, <2>4
  <2>7. \A i \in 1 .. n : streams[order[i][1]][order[i][2]] \in Line
    <3>1. \A i \in 1 .. n : order[i] \in P
      BY <2>4
    <3>2. \A e \in P : streams[e[1]][e[2]] \in Line
      <4>1. ASSUME NEW e \in P PROVE streams[e[1]][e[2]] \in Line
        <5>1. streams[e[1]] \in Seq(Line) /\ e[2] \in 1 .. Len(streams[e[1]])
          BY <1>2
        <5>. QED BY <5>1, ElementOfSeq, Zenon
      <4>. QED BY <4>1
    <3>. HIDE DEF P, n
    <3>. QED BY <3>1, <3>2
  <2>8. /\ Merge(streams) \in Seq(Line) /\ Len(Merge(streams)) = n
        /\ \A i \in 1 .. n : Merge(streams)[i] = streams[order[i][1]][order[i][2]]
    <3>. HIDE DEF n
    <3>. QED BY <1>1, <2>1, <2>6, <2>7
  <2>9. \A i \in 1 .. Len(Merge(streams)) :
           Merge(streams)[i] = streams[order[i][1]][order[i][2]]
    BY <2>8
  <2>. HIDE DEF n
  <2>. QED BY <2>5, <2>8, <2>9 DEF n
<1>. QED BY <1>5, <1>6, <1>7

-----------------------------------------------------------------------------
(* What is true while the answer is put together.                          *)

\* The container's lines are numbered and written in time.
LogInOrder ==
    /\ \A i \in 1 .. Len(log) : log[i].n = i /\ log[i].t <= clock
    /\ \A i, j \in 1 .. Len(log) : i <= j => log[i].t <= log[j].t
    /\ begun <= Len(log) /\ ended <= Len(log)

\* A line the request for the stream s is about.
Belongs(s, line) ==
    /\ IF tty THEN s = "stdout" ELSE line.s = s /\ s \in request.want
    /\ AtOrAfter(line)

\* What was fetched of s: lines of the log in their order, and among them all those
\* that were there when the call began and are still in the tail.  stderr is fetched
\* last: all of its lines are.
Window(s) ==
    LET q == fetched[s]
    IN  /\ \A p \in 1 .. Len(q) : /\ q[p].n \in 1 .. ended /\ q[p] = log[q[p].n]
                                  /\ Belongs(s, q[p])
                                  /\ s = "stderr" => q[p].n + TailLines > ended
        /\ \A p, r \in 1 .. Len(q) : p < r => q[p].n < q[r].n
        /\ \A i \in 1 .. begun :
              Belongs(s, log[i]) /\ i + TailLines > ended => \E p \in 1 .. Len(q) : q[p] = log[i]

\* The streams that have been asked for.
FetchedSoFar ==
    /\ at \in {"get", "stdout", "stderr"} => fetched["stderr"] = <<>>
    /\ at \in {"get", "stdout"} => fetched["stdout"] = <<>>
    /\ at = "stderr" => ~tty /\ Window("stdout")
    /\ at \in {"reply", "answered"} => \A s \in Streams : Window(s)

ReadInv ==
    /\ TypeOK
    /\ LogInOrder
    /\ FetchedSoFar
    /\ Answered => reply = Cap(Merged, TailLines)

LEMMA TailIsPositive ==
    ASSUME ReadAssumption, request \in Requests
    PROVE  TailLines \in Nat \ {0}
<1>1. request.tail \in Nat
  BY DEF ReadAssumption
<1>. QED BY <1>1 DEF TailLines, Least, ReadAssumption

\* What the runtime returns: the lines of the tail that are asked for.
LEMMA FetchIs ==
    ASSUME log \in Seq(Line), \A i \in 1 .. Len(log) : log[i].n = i, TailLines \in Nat, NEW S
    PROVE  LET q == Fetch(S)
               Found(i) == i + TailLines > Len(log) /\ log[i].s \in S /\ AtOrAfter(log[i])
           IN  /\ q \in Seq(Line)
               /\ \A p \in 1 .. Len(q) : /\ q[p].n \in 1 .. Len(log) /\ q[p] = log[q[p].n]
                                         /\ Found(q[p].n)
               /\ \A p, r \in 1 .. Len(q) : p < r => q[p].n < q[r].n
               /\ \A i \in 1 .. Len(log) : Found(i) => \E p \in 1 .. Len(q) : q[p] = log[i]
<1>. DEFINE q == Fetch(S)
            Found(i) == i + TailLines > Len(log) /\ log[i].s \in S /\ AtOrAfter(log[i])
            found == {i \in 1 .. Len(log) : Found(i)}
            R == {e \in found \X found : e[1] < e[2]}
            order == Sorted(found, R)
            n == Cardinality(found)
<1>1. q = [k \in 1 .. Len(order) |-> log[order[k]]]
  BY DEF Fetch
<1>2. IsFiniteSet(found)
  <2>1. IsFiniteSet(1 .. Len(log))
    BY FS_Interval
  <2>. QED BY <2>1, FS_Subset
<1>3. \A i \in found : i \in 1 .. Len(log) /\ i \in Nat /\ Found(i)
  OBVIOUS
<1>4. \A i \in 1 .. Len(log) : Found(i) => i \in found
  OBVIOUS
<1>. HIDE DEF Found, found, q
<1>5. \A i, j \in found : <<i, j>> \in R <=> i < j
  OBVIOUS
<1>. HIDE DEF R
<1>6. Orders(found, R)
  <2>1. \A i \in found : i \in Nat
    BY <1>3
  <2>. QED BY <1>5, <2>1 DEF Orders
<1>7. /\ n \in Nat /\ order \in [1 .. n -> found]
      /\ \A i \in found : \E k \in 1 .. n : order[k] = i
      /\ \A k, l \in 1 .. n : k < l <=> <<order[k], order[l]>> \in R
  BY <1>2, <1>6, SortedIsInOrder
<1>. HIDE DEF order, n
<1>8. \A k, l \in 1 .. n : k < l <=> order[k] < order[l]
  BY <1>5, <1>7
<1>9. q \in Seq(Line) /\ Len(q) = n /\ \A k \in 1 .. n : q[k] = log[order[k]]
  <2>1. Len(order) = n
    BY <1>7
  <2>2. \A k \in 1 .. n : order[k] \in 1 .. Len(log)
    BY <1>3, <1>7
  <2>3. \A k \in 1 .. n : log[order[k]] \in Line
    BY <2>2, ElementOfSeq, Zenon
  <2>. QED BY <1>1, <1>7, <2>1, <2>3
<1>10. ASSUME NEW p \in 1 .. n
       PROVE  q[p].n = order[p] /\ q[p].n \in found /\ q[p] = log[q[p].n]
  <2>1. order[p] \in found /\ order[p] \in 1 .. Len(log)
    BY <1>3, <1>7
  <2>. QED BY <1>9, <2>1
<1>11. \A p, r \in 1 .. n : p < r => q[p].n < q[r].n
  BY <1>8, <1>10
<1>12. ASSUME NEW i \in 1 .. Len(log), Found(i)
       PROVE  \E p \in 1 .. n : q[p] = log[i]
  <2>1. PICK k \in 1 .. n : order[k] = i
    BY <1>4, <1>7, <1>12
  <2>. QED BY <1>9, <2>1
<1>13. \A p \in 1 .. n : q[p].n \in 1 .. Len(log) /\ q[p] = log[q[p].n] /\ Found(q[p].n)
  BY <1>3, <1>10
<1>14. /\ q \in Seq(Line)
       /\ \A p \in 1 .. Len(q) : /\ q[p].n \in 1 .. Len(log) /\ q[p] = log[q[p].n]
                                 /\ Found(q[p].n)
       /\ \A p, r \in 1 .. Len(q) : p < r => q[p].n < q[r].n
       /\ \A i \in 1 .. Len(log) : Found(i) => \E p \in 1 .. Len(q) : q[p] = log[i]
  BY <1>9, <1>11, <1>12, <1>13
<1>. QED BY <1>14, Zenon DEF q, Found

LEMMA WindowInTime ==
    ASSUME TypeOK, LogInOrder, NEW s \in Streams, Window(s)
    PROVE  InTime(fetched[s])
<1>. DEFINE q == fetched[s]
<1>2. q \in Seq(Line) /\ Len(q) \in Nat /\ Len(log) \in Nat /\ ended \in Nat /\ ended <= Len(log)
  BY DEF TypeOK, LogInOrder
<1>1. \A p \in 1 .. Len(q) : q[p].n \in 1 .. Len(log) /\ q[p] = log[q[p].n]
  BY <1>2 DEF Window
<1>3. ASSUME NEW p \in 1 .. Len(q), NEW r \in 1 .. Len(q), p <= r
      PROVE  q[p].t <= q[r].t
  <2>1. q[p].n <= q[r].n
    <3>1. p < r => q[p].n < q[r].n
      BY DEF Window
    <3>. HIDE DEF q
    <3>. QED BY <1>1, <1>2, <1>3, <3>1
  <2>2. log[q[p].n].t <= log[q[r].n].t
    BY <1>1, <2>1 DEF LogInOrder
  <2>. HIDE DEF q
  <2>. QED BY <1>1, <2>2
<1>. QED BY <1>3 DEF InTime

\* A fetch leaves the window of its stream.
LEMMA FetchWindow ==
    ASSUME ReadAssumption, TypeOK, LogInOrder, NEW s \in Streams, NEW S,
           \A i \in 1 .. Len(log) : Belongs(s, log[i]) <=> log[i].s \in S /\ AtOrAfter(log[i]),
           UNCHANGED <<log, setting, begun>>, fetched'[s] = Fetch(S), ended' = Len(log)
    PROVE  Window(s)' /\ fetched'[s] \in Seq(Line)
<1>. DEFINE q == Fetch(S)
            Found(i) == i + TailLines > Len(log) /\ log[i].s \in S /\ AtOrAfter(log[i])
<1>1. TailLines \in Nat
  BY TailIsPositive DEF TypeOK
<1>2. /\ log \in Seq(Line) /\ (\A i \in 1 .. Len(log) : log[i].n = i)
      /\ Len(log) \in Nat /\ begun \in Nat /\ begun <= Len(log)
  BY DEF TypeOK, LogInOrder
<1>3. /\ q \in Seq(Line)
      /\ \A p \in 1 .. Len(q) : /\ q[p].n \in 1 .. Len(log) /\ q[p] = log[q[p].n]
                                /\ Found(q[p].n)
      /\ \A p, r \in 1 .. Len(q) : p < r => q[p].n < q[r].n
      /\ \A i \in 1 .. Len(log) : Found(i) => \E p \in 1 .. Len(q) : q[p] = log[i]
  BY <1>1, <1>2, FetchIs
<1>4. \A i \in 1 .. Len(log) : Found(i) <=> Belongs(s, log[i]) /\ i + TailLines > Len(log)
  OBVIOUS
<1>. HIDE DEF Found, q
<1>5. /\ \A p \in 1 .. Len(q) : Belongs(s, q[p]) /\ q[p].n + TailLines > Len(log)
      /\ \A i \in 1 .. begun :
            Belongs(s, log[i]) /\ i + TailLines > Len(log) => \E p \in 1 .. Len(q) : q[p] = log[i]
  <2>1. \A p \in 1 .. Len(q) : Belongs(s, q[p]) /\ q[p].n + TailLines > Len(log)
    <3>. TAKE p \in 1 .. Len(q)
    <3>1. q[p].n \in 1 .. Len(log) /\ q[p] = log[q[p].n] /\ Found(q[p].n)
      BY <1>3
    <3>2. Belongs(s, log[q[p].n]) /\ q[p].n + TailLines > Len(log)
      BY <1>4, <3>1
    <3>. QED BY <3>1, <3>2, Zenon
  <2>2. \A i \in 1 .. begun : i \in 1 .. Len(log)
    BY <1>2
  <2>. QED BY <1>3, <1>4, <2>1, <2>2
<1>6. /\ TailLines' = TailLines /\ fetched'[s] = q /\ log' = log /\ begun' = begun
      /\ \A line : Belongs(s, line)' <=> Belongs(s, line)
  BY DEF setting, TailLines, Belongs, AtOrAfter, q
<1>7. Window(s)'
  BY <1>3, <1>5, <1>6 DEF Window
<1>. QED BY <1>3, <1>6, <1>7

\* The window stays while the container goes on writing, and when the other stream is
\* fetched later.
LEMMA WindowKept ==
    ASSUME ReadAssumption, TypeOK, LogInOrder, NEW s \in Streams, Window(s),
           UNCHANGED <<setting, begun>>, fetched'[s] = fetched[s],
           ended' = ended \/ (s # "stderr" /\ ended' = Len(log)),
           \A i \in 1 .. Len(log) : log'[i] = log[i]
    PROVE  Window(s)'
<1>. DEFINE q == fetched[s]
<1>1. /\ TailLines' = TailLines /\ fetched'[s] = q /\ begun' = begun
      /\ \A line : Belongs(s, line)' <=> Belongs(s, line)
  BY DEF setting, TailLines, Belongs, AtOrAfter
<1>2. /\ Len(log) \in Nat /\ begun \in Nat /\ begun <= Len(log)
      /\ ended \in Nat /\ ended <= Len(log) /\ TailLines \in Nat
  BY TailIsPositive DEF TypeOK, LogInOrder
<1>. HIDE DEF q
<1>3. /\ \A p \in 1 .. Len(q) : /\ q[p].n \in 1 .. ended /\ q[p] = log[q[p].n]
                                /\ Belongs(s, q[p])
                                /\ s = "stderr" => q[p].n + TailLines > ended
      /\ \A p, r \in 1 .. Len(q) : p < r => q[p].n < q[r].n
      /\ \A i \in 1 .. begun :
            Belongs(s, log[i]) /\ i + TailLines > ended => \E p \in 1 .. Len(q) : q[p] = log[i]
  BY DEF Window, q
<1>4. \A i \in 1 .. begun : log'[i] = log[i]
  BY <1>2
<1>5. ended <= ended' /\ ended' \in Nat
  BY <1>2
<1>6. \A p \in 1 .. Len(q) : q[p].n \in 1 .. ended' /\ q[p] = log'[q[p].n]
  <2>. TAKE p \in 1 .. Len(q)
  <2>1. q[p].n \in 1 .. ended /\ q[p] = log[q[p].n]
    BY <1>3
  <2>. DEFINE k == q[p].n
  <2>2. k \in 1 .. ended
    BY <2>1
  <2>. HIDE DEF k
  <2>3. k \in 1 .. ended' /\ k \in 1 .. Len(log)
    BY <1>2, <1>5, <2>2
  <2>4. log'[k] = log[k]
    BY <2>3
  <2>. QED BY <2>1, <2>3, <2>4 DEF k
<1>7. \A i \in 1 .. begun : i + TailLines > ended' => i + TailLines > ended
  BY <1>2, <1>5
<1>8. s = "stderr" => ended' = ended
  OBVIOUS
<1>. QED BY <1>1, <1>3, <1>4, <1>6, <1>7, <1>8 DEF Window

\* What the handler answers with, once both streams are there.
LEMMA MergedArranged ==
    ASSUME TypeOK, LogInOrder, \A s \in Streams : Window(s)
    PROVE  /\ Merged \in Seq(Line)
           /\ Len(Merged) = Len(fetched["stdout"]) + Len(fetched["stderr"])
           /\ \E order : /\ Arranges(order, fetched)
                         /\ \A i \in 1 .. Len(Merged) :
                               Merged[i] = fetched[order[i][1]][order[i][2]]
<1>1. \A s \in Streams : InTime(fetched[s])
  BY WindowInTime
<1>2. fetched \in [Streams -> Seq(Line)]
  BY DEF TypeOK
<1>. QED BY <1>1, <1>2, MergeArranges DEF Merged

-----------------------------------------------------------------------------
(* The invariant.                                                          *)

LEMMA InitReadInv == ReadAssumption /\ Init => ReadInv
<1>. SUFFICES ASSUME ReadAssumption, Init PROVE ReadInv
  OBVIOUS
<1>1. TypeOK
  <2>1. <<>> \in Seq(Line) /\ Len(<<>>) = 0
    OBVIOUS
  <2>2. 1 \in 1 .. MaxTime /\ 0 \in 0 .. MaxLines /\ 0 <= MaxLines
    BY DEF ReadAssumption
  <2>. QED BY <2>1, <2>2 DEF Init, TypeOK
<1>2. LogInOrder
  BY <1>1 DEF Init, LogInOrder
<1>3. FetchedSoFar
  BY DEF Init, FetchedSoFar, Streams
<1>4. ~Answered
  BY DEF Init, Answered
<1>. QED BY <1>1, <1>2, <1>3, <1>4 DEF ReadInv

LEMMA WriteReadInv ==
    ASSUME ReadAssumption, ReadInv, NEW s \in Streams, NEW stamped \in BOOLEAN, Write(s, stamped)
    PROVE  ReadInv'
<1>. DEFINE line == [n |-> Len(log) + 1, s |-> s, t |-> clock, stamped |-> stamped]
<1>1. TypeOK /\ LogInOrder /\ FetchedSoFar
  BY DEF ReadInv
<1>2. /\ Reading /\ Len(log) < MaxLines /\ log' = Append(log, line)
      /\ UNCHANGED <<clock, setting, at, begun, ended, fetched, reply>>
  BY DEF Write
<1>3. log \in Seq(Line) /\ Len(log) \in Nat /\ clock \in 1 .. MaxTime
  BY <1>1 DEF TypeOK
<1>4. line \in Line /\ line.n = Len(log) + 1 /\ line.t = clock
  BY <1>2, <1>3 DEF Line, ReadAssumption
<1>. HIDE DEF line
<1>5. /\ log' \in Seq(Line) /\ Len(log') = Len(log) + 1
      /\ \A i \in 1 .. Len(log) : log'[i] = log[i]
      /\ log'[Len(log) + 1] = line
  BY <1>2, <1>3, <1>4
<1>6. TypeOK'
  <2>1. Len(log') <= MaxLines
    BY <1>2, <1>3, <1>5 DEF ReadAssumption
  <2>. QED BY <1>1, <1>2, <1>5, <2>1 DEF TypeOK, setting
<1>7. \A i \in 1 .. Len(log) + 1 : i \in 1 .. Len(log) \/ i = Len(log) + 1
  BY <1>3
<1>8. LogInOrder'
  <2>1. \A i \in 1 .. Len(log) + 1 : log'[i].n = i /\ log'[i].t <= clock'
    <3>1. \A i \in 1 .. Len(log) : log'[i].n = i /\ log'[i].t <= clock
      BY <1>1, <1>5 DEF LogInOrder
    <3>2. log'[Len(log) + 1].n = Len(log) + 1 /\ log'[Len(log) + 1].t <= clock
      BY <1>3, <1>4, <1>5
    <3>. QED BY <1>2, <1>7, <3>1, <3>2
  <2>2. ASSUME NEW i \in 1 .. Len(log) + 1, NEW j \in 1 .. Len(log) + 1, i <= j
        PROVE  log'[i].t <= log'[j].t
    <3>1. CASE j \in 1 .. Len(log)
      <4>1. i \in 1 .. Len(log)
        BY <1>3, <2>2, <3>1
      <4>. QED BY <1>1, <1>5, <2>2, <3>1, <4>1 DEF LogInOrder
    <3>2. CASE j = Len(log) + 1
      <4>1. log'[j].t = clock'
        BY <1>2, <1>4, <1>5, <3>2
      <4>. QED BY <2>1, <4>1
    <3>. QED BY <1>7, <3>1, <3>2
  <2>3. begun' <= Len(log') /\ ended' <= Len(log')
    BY <1>1, <1>2, <1>3, <1>5 DEF LogInOrder, TypeOK
  <2>. QED BY <1>5, <2>1, <2>2, <2>3 DEF LogInOrder
<1>9. FetchedSoFar'
  <2>1. ASSUME NEW z \in Streams, Window(z) PROVE Window(z)'
    <3>1. UNCHANGED <<setting, begun>> /\ fetched'[z] = fetched[z] /\ ended' = ended
      BY <1>2
    <3>. QED BY <1>1, <1>5, <2>1, <3>1, WindowKept
  <2>2. at' = at /\ fetched' = fetched /\ tty' = tty
    BY <1>2 DEF setting
  <2>3. "stdout" \in Streams
    BY DEF Streams
  <2>. QED BY <1>1, <2>1, <2>2, <2>3 DEF FetchedSoFar
<1>10. ~Answered'
  BY <1>2 DEF Reading, Answered
<1>. QED BY <1>6, <1>8, <1>9, <1>10 DEF ReadInv

LEMMA FetchReadInv ==
    ASSUME ReadAssumption, ReadInv, FetchOut \/ FetchErr
    PROVE  ReadInv'
<1>1. TypeOK /\ LogInOrder /\ FetchedSoFar
  BY DEF ReadInv
<1>2. UNCHANGED <<clock, log, setting, begun, reply>> /\ (ended' = Len(log) \/ ended' = ended)
  BY DEF FetchOut, FetchErr
<1>0. Len(log) \in Nat /\ Len(log) <= MaxLines /\ ended' \in 0 .. MaxLines /\ ended' <= Len(log)
  BY <1>1, <1>2 DEF TypeOK, LogInOrder
<1>3. LogInOrder'
  BY <1>0, <1>1, <1>2 DEF LogInOrder
<1>4. fetched \in [Streams -> Seq(Line)] /\ \A s \in Streams : s = "stdout" \/ s = "stderr"
  BY <1>1 DEF TypeOK, Streams
<1>5. tty \in BOOLEAN /\ log \in Seq(Line)
  BY <1>1 DEF TypeOK
<1>6. \A i \in 1 .. Len(log) : log[i].s \in Streams
  <2>1. \A i \in 1 .. Len(log) : log[i] \in Line
    BY <1>5, ElementOfSeq, Zenon
  <2>. QED BY <2>1 DEF Line
<1>7. CASE FetchOut
  <2>. DEFINE S == IF tty THEN Streams ELSE {"stdout"} \cap request.want
  <2>1. /\ at = "stdout" /\ at' = (IF tty THEN "reply" ELSE "stderr")
        /\ fetched' = [fetched EXCEPT !["stdout"] = Fetch(S)] /\ ended' = Len(log)
    BY <1>7 DEF FetchOut
  <2>2. \A i \in 1 .. Len(log) : Belongs("stdout", log[i]) <=> log[i].s \in S /\ AtOrAfter(log[i])
    BY <1>6 DEF Belongs
  <2>3. "stdout" \in Streams /\ fetched'["stdout"] = Fetch(S)
    BY <1>4, <2>1 DEF Streams
  <2>. HIDE DEF S
  <2>4. Window("stdout")' /\ fetched'["stdout"] \in Seq(Line)
    BY <1>1, <1>2, <2>1, <2>2, <2>3, FetchWindow
  <2>5. fetched'["stderr"] = <<>>
    BY <1>1, <1>4, <2>1 DEF FetchedSoFar, Streams
  <2>6. fetched' \in [Streams -> Seq(Line)]
    BY <1>4, <2>1, <2>3, <2>4
  <2>7. TypeOK'
    BY <1>0, <1>1, <1>2, <2>1, <2>6 DEF TypeOK, setting
  <2>8. tty => Window("stderr")'
    <3>1. tty => \A line : ~Belongs("stderr", line)'
      BY <1>2 DEF Belongs, setting
    <3>2. Len(<<>>) = 0
      OBVIOUS
    <3>. QED BY <2>5, <3>1, <3>2 DEF Window
  <2>9. FetchedSoFar'
    BY <1>2, <1>4, <2>1, <2>4, <2>5, <2>8 DEF FetchedSoFar, setting
  <2>10. ~Answered'
    BY <2>1 DEF Answered
  <2>. QED BY <1>3, <2>7, <2>9, <2>10 DEF ReadInv
<1>8. CASE FetchErr
  <2>. DEFINE S == {"stderr"} \cap request.want
  <2>1. /\ at = "stderr" /\ at' = "reply"
        /\ fetched' = [fetched EXCEPT !["stderr"] = Fetch(S)]
        /\ ended' = IF "stderr" \in request.want THEN Len(log) ELSE ended
    BY <1>8 DEF FetchErr
  <2>2. ~tty /\ Window("stdout")
    BY <1>1, <2>1 DEF FetchedSoFar
  <2>3. \A i \in 1 .. Len(log) : Belongs("stderr", log[i]) <=> log[i].s \in S /\ AtOrAfter(log[i])
    BY <1>6, <2>2 DEF Belongs
  <2>4. "stderr" \in Streams /\ "stdout" \in Streams /\ fetched'["stderr"] = Fetch(S)
        /\ fetched'["stdout"] = fetched["stdout"]
    BY <1>4, <2>1 DEF Streams
  <2>e. S = {} \/ ended' = Len(log)
    BY <2>1
  <2>. HIDE DEF S
  <2>5. Window("stderr")' /\ fetched'["stderr"] \in Seq(Line)
    <3>1. CASE ended' = Len(log)
      BY <1>1, <1>2, <2>3, <2>4, <3>1, FetchWindow
    <3>2. CASE S = {}
      <4>1. /\ Fetch(S) \in Seq(Line)
            /\ \A p \in 1 .. Len(Fetch(S)) : log[Fetch(S)[p].n].s \in S
        <5>1. TailLines \in Nat /\ \A i \in 1 .. Len(log) : log[i].n = i
          BY <1>1, TailIsPositive DEF TypeOK, LogInOrder
        <5>. QED BY <1>5, <5>1, FetchIs
      <4>2. fetched'["stderr"] \in Seq(Line) /\ Len(fetched'["stderr"]) = 0
        BY <2>4, <3>2, <4>1
      <4>3. \A i \in 1 .. begun' : ~Belongs("stderr", log[i])'
        <5>1. \A i \in 1 .. begun : i \in 1 .. Len(log)
          BY <1>0, <1>1 DEF TypeOK, LogInOrder
        <5>2. \A i \in 1 .. begun : ~Belongs("stderr", log[i])
          BY <2>3, <3>2, <5>1
        <5>. QED BY <1>2, <5>2 DEF Belongs, AtOrAfter, setting
      <4>. QED BY <4>2, <4>3 DEF Window
    <3>. QED BY <2>e, <3>1, <3>2
  <2>6. Window("stdout")'
    <3>1. \A i \in 1 .. Len(log) : log'[i] = log[i]
      BY <1>2
    <3>2. UNCHANGED <<setting, begun>>
      BY <1>2
    <3>. QED BY <1>1, <1>2, <2>2, <2>4, <3>1, <3>2, WindowKept
  <2>7. fetched' \in [Streams -> Seq(Line)]
    BY <1>4, <2>1, <2>4, <2>5
  <2>8. TypeOK'
    BY <1>0, <1>1, <1>2, <2>1, <2>7 DEF TypeOK, setting
  <2>9. FetchedSoFar'
    BY <1>4, <2>1, <2>5, <2>6 DEF FetchedSoFar
  <2>10. ~Answered'
    BY <2>1 DEF Answered
  <2>. QED BY <1>3, <2>8, <2>9, <2>10 DEF ReadInv
<1>. QED BY <1>7, <1>8

LEMMA ReplyReadInv ==
    ASSUME ReadAssumption, ReadInv, Reply
    PROVE  ReadInv'
<1>1. TypeOK /\ LogInOrder /\ FetchedSoFar
  BY DEF ReadInv
<1>2. /\ at = "reply" /\ at' = "answered" /\ reply' = Cap(Merged, TailLines)
      /\ UNCHANGED <<clock, log, setting, begun, ended, fetched>>
  BY DEF Reply
<1>3. \A s \in Streams : Window(s)
  BY <1>1, <1>2 DEF FetchedSoFar
<1>4. Merged \in Seq(Line) /\ TailLines \in Nat \ {0}
  BY <1>1, <1>3, MergedArranged, TailIsPositive DEF TypeOK
<1>5. reply' \in [lines : Seq(Line), truncated : BOOLEAN]
  BY <1>2, <1>4, CapIsLongest
<1>6. TypeOK'
  BY <1>1, <1>2, <1>5 DEF TypeOK, setting
<1>7. LogInOrder'
  BY <1>1, <1>2 DEF LogInOrder
<1>8. \A s \in Streams : Window(s)'
  <2>1. /\ \A i \in 1 .. Len(log) : log'[i] = log[i]
        /\ UNCHANGED <<setting, begun>> /\ fetched' = fetched /\ ended' = ended
    BY <1>2
  <2>. QED BY <1>1, <1>3, <2>1, WindowKept
<1>9. FetchedSoFar'
  BY <1>2, <1>8 DEF FetchedSoFar
<1>10. Merged' = Merged /\ TailLines' = TailLines
  BY <1>2 DEF Merged, TailLines, setting
<1>. QED BY <1>2, <1>6, <1>7, <1>9, <1>10 DEF ReadInv

\* What changes neither the log nor what was fetched.
LEMMA OtherReadInv ==
    ASSUME ReadAssumption, ReadInv, Tick \/ Get \/ Fails \/ UNCHANGED vars
    PROVE  ReadInv'
<1>1. TypeOK /\ LogInOrder /\ FetchedSoFar
  BY DEF ReadInv
<1>2. log' = log /\ setting' = setting /\ fetched' = fetched /\ reply' = reply /\ ended' = ended
  BY DEF Tick, Get, Fails, vars
<1>3. Len(log) \in Nat /\ log \in Seq(Line)
  BY <1>1 DEF TypeOK
<1>4. TypeOK'
  <2>1. clock' \in 1 .. MaxTime
    BY <1>1 DEF TypeOK, Tick, Get, Fails, vars, ReadAssumption
  <2>2. begun' \in 0 .. MaxLines
    BY <1>1, <1>3 DEF TypeOK, Tick, Get, Fails, vars, ReadAssumption
  <2>3. at' \in {"get", "stdout", "stderr", "reply", "answered", "failed"}
    BY <1>1 DEF TypeOK, Tick, Get, Fails, vars
  <2>. QED BY <1>1, <1>2, <2>1, <2>2, <2>3 DEF TypeOK, setting
<1>5. LogInOrder'
  <2>1. clock \in Nat /\ clock' \in Nat /\ clock <= clock'
    BY <1>1, <1>4 DEF TypeOK, Tick, Get, Fails, vars
  <2>2. begun' <= Len(log') /\ ended' <= Len(log')
    BY <1>1, <1>2, <1>3 DEF LogInOrder, Tick, Get, Fails, vars
  <2>3. \A i \in 1 .. Len(log) : log[i].n = i /\ log[i].t <= clock'
    <3>1. ASSUME NEW i \in 1 .. Len(log) PROVE log[i].t \in Nat
      <4>1. log[i] \in Line
        BY <1>3, ElementOfSeq, Zenon
      <4>. QED BY <4>1 DEF Line
    <3>. QED BY <1>1, <2>1, <3>1 DEF LogInOrder
  <2>. QED BY <1>1, <1>2, <2>2, <2>3 DEF LogInOrder
<1>6. ASSUME begun' = begun, NEW s \in Streams, Window(s)
      PROVE  Window(s)'
  <2>1. /\ \A i \in 1 .. Len(log) : log'[i] = log[i]
        /\ UNCHANGED <<setting, begun>> /\ fetched'[s] = fetched[s] /\ ended' = ended
    BY <1>2, <1>6
  <2>. QED BY <1>1, <1>6, <2>1, WindowKept
<1>7. CASE Get
  <2>1. at = "get" /\ at' \in {"failed", "stdout"}
    BY <1>7 DEF Get
  <2>2. FetchedSoFar'
    BY <1>1, <1>2, <2>1 DEF FetchedSoFar
  <2>. QED BY <1>4, <1>5, <2>1, <2>2 DEF ReadInv, Answered
<1>8. CASE Fails
  <2>1. at' = "failed"
    BY <1>8 DEF Fails
  <2>. QED BY <1>4, <1>5, <2>1 DEF ReadInv, Answered, FetchedSoFar
<1>9. CASE Tick \/ UNCHANGED vars
  <2>1. at' = at /\ begun' = begun /\ tty' = tty /\ request' = request
    BY <1>2, <1>9 DEF Tick, vars, setting
  <2>2. "stdout" \in Streams
    BY DEF Streams
  <2>3. FetchedSoFar'
    BY <1>1, <1>2, <1>6, <2>1, <2>2 DEF FetchedSoFar
  <2>4. Merged' = Merged /\ TailLines' = TailLines
    BY <1>2, <2>1 DEF Merged, TailLines
  <2>. QED BY <1>2, <1>4, <1>5, <2>1, <2>3, <2>4 DEF ReadInv, Answered
<1>. QED BY <1>7, <1>8, <1>9

LEMMA NextReadInv == ReadAssumption /\ ReadInv /\ [Next]_vars => ReadInv'
<1>. SUFFICES ASSUME ReadAssumption, ReadInv, [Next]_vars PROVE ReadInv'
  OBVIOUS
<1>1. CASE \E s \in Streams, stamped \in BOOLEAN : Write(s, stamped)
  BY <1>1, WriteReadInv
<1>2. CASE FetchOut \/ FetchErr
  BY <1>2, FetchReadInv
<1>3. CASE Reply
  BY <1>3, ReplyReadInv
<1>4. CASE Tick \/ Get \/ Fails \/ UNCHANGED vars
  BY <1>4, OtherReadInv
<1>. QED BY <1>1, <1>2, <1>3, <1>4 DEF Next

LEMMA AlwaysReadInv == Spec => []ReadInv
<1>1. Init => ReadInv
  BY InitReadInv, ReadAssumption
<1>2. ReadInv /\ [Next]_vars => ReadInv'
  BY NextReadInv, ReadAssumption
<1>. QED BY <1>1, <1>2, PTL DEF Spec

\* The state of the handler keeps its types: the requests end in an answer or in a
\* translated error, and what is answered is a list of lines with a flag.
THEOREM ReadTypeCorrect == Spec => []TypeOK
<1>1. ReadInv => TypeOK
  BY DEF ReadInv
<1>. QED BY <1>1, AlwaysReadInv, PTL

-----------------------------------------------------------------------------
(* The two halves as one story.                                            *)

\* The places of the merged lines say whose line each is, no two of them hold the
\* same line, and none is left out.
Placed(order) ==
    /\ \A i \in 1 .. Len(Merged) :
          /\ order[i][1] \in Streams /\ order[i][2] \in 1 .. Len(fetched[order[i][1]])
          /\ order[i] = <<order[i][1], order[i][2]>>
          /\ Merged[i] \in Line
          /\ Belongs(order[i][1], Merged[i])
    /\ \A i, j \in 1 .. Len(Merged) : Merged[i] = Merged[j] => i = j
    /\ \A i, j \in 1 .. Len(Merged) :
          i < j <=> Before(CarriedOf(fetched), order[i], order[j])
    /\ \A s \in Streams : \A p \in 1 .. Len(fetched[s]) :
          \E i \in 1 .. Len(Merged) : order[i] = <<s, p>> /\ Merged[i] = fetched[s][p]

LEMMA PlacesOfLines ==
    ASSUME TypeOK, LogInOrder, \A s \in Streams : Window(s),
           NEW order, Arranges(order, fetched),
           \A i \in 1 .. Len(Merged) : Merged[i] = fetched[order[i][1]][order[i][2]]
    PROVE  Placed(order)
<1>. DEFINE M == Merged
            n == Len(M)
            s(i) == order[i][1]
            p(i) == order[i][2]
<1>1. M \in Seq(Line) /\ n = Len(fetched["stdout"]) + Len(fetched["stderr"]) /\ n \in Nat
  <2>1. Merged \in Seq(Line) /\ Len(Merged) = Len(fetched["stdout"]) + Len(fetched["stderr"])
    BY MergedArranged
  <2>2. Len(M) \in Nat
    <3>1. M \in Seq(Line)
      BY <2>1
    <3>. HIDE DEF M
    <3>. QED BY <3>1
  <2>. QED BY <2>1, <2>2
<1>2. \A i \in 1 .. n : M[i] = fetched[s(i)][p(i)]
  OBVIOUS
<1>3. /\ order \in [1 .. n -> Places(fetched)]
      /\ \A e \in Places(fetched) : \E i \in 1 .. n : order[i] = e
      /\ \A i, j \in 1 .. n : i < j <=> <<order[i], order[j]>> \in Ordering(fetched)
  BY <1>1 DEF Arranges
<1>4. fetched \in [Streams -> Seq(Line)]
  BY DEF TypeOK
<1>. HIDE DEF M, n
<1>5. /\ \A e \in Places(fetched) : e[1] \in Streams /\ e[2] \in 1 .. Len(fetched[e[1]])
                                    /\ e = <<e[1], e[2]>>
      /\ \A z \in Streams : \A k \in 1 .. Len(fetched[z]) : <<z, k>> \in Places(fetched)
  BY <1>4, PlacesCounted, Zenon
<1>6. \A i \in 1 .. n : /\ order[i] \in Places(fetched)
                        /\ s(i) \in Streams /\ p(i) \in 1 .. Len(fetched[s(i)])
                        /\ order[i] = <<s(i), p(i)>>
  BY <1>3, <1>5
<1>7. \A i, j \in 1 .. n : i < j <=> Before(CarriedOf(fetched), order[i], order[j])
  BY <1>3, <1>6 DEF Ordering
<1>8. \A z \in Streams : \A k \in 1 .. Len(fetched[z]) :
          \E i \in 1 .. n : order[i] = <<z, k>> /\ M[i] = fetched[z][k]
  <2>1. ASSUME NEW z \in Streams, NEW k \in 1 .. Len(fetched[z])
        PROVE  \E i \in 1 .. n : order[i] = <<z, k>> /\ M[i] = fetched[z][k]
    <3>1. PICK i \in 1 .. n : order[i] = <<z, k>>
      BY <1>3, <1>5
    <3>2. s(i) = z /\ p(i) = k
      BY <3>1
    <3>. QED BY <1>2, <3>1, <3>2
  <2>. QED BY <2>1
<1>. HIDE DEF s, p
<1>9. ASSUME NEW i \in 1 .. n
      PROVE  M[i] \in Line /\ Belongs(s(i), M[i])
  <2>1. M[i] \in Line
    BY <1>1, ElementOfSeq, Zenon DEF n
  <2>2. Window(s(i))
    BY <1>6
  <2>. QED BY <1>2, <1>6, <2>1, <2>2 DEF Window
<1>10. ASSUME NEW i \in 1 .. n, NEW j \in 1 .. n, M[i] = M[j]
       PROVE  i = j
  <2>1. s(i) = s(j)
    <3>1. Belongs(s(i), M[i]) /\ Belongs(s(j), M[i])
      BY <1>9, <1>10
    <3>. QED BY <3>1 DEF Belongs
  <2>2. p(i) = p(j)
    <3>. DEFINE q == fetched[s(i)]
    <3>0. q \in Seq(Line) /\ Len(q) \in Nat
      BY <1>4, <1>6
    <3>1. p(i) \in 1 .. Len(q) /\ p(j) \in 1 .. Len(q) /\ q[p(i)] = q[p(j)]
      BY <1>2, <1>6, <1>10, <2>1
    <3>2. \A k, l \in 1 .. Len(q) : k < l => q[k].n < q[l].n
      <4>1. Window(s(i))
        BY <1>6
      <4>. QED BY <4>1 DEF Window
    <3>3. \A k \in 1 .. Len(q) : q[k].n \in Nat
      <4>1. \A k \in 1 .. Len(q) : q[k] \in Line
        BY <3>0, ElementOfSeq, Zenon
      <4>. QED BY <4>1 DEF Line
    <3>. HIDE DEF q
    <3>. QED BY <3>0, <3>1, <3>2, <3>3
  <2>3. order[i] = order[j]
    BY <1>6, <2>1, <2>2
  <2>4. ~ (i < j) /\ ~ (j < i)
    <3>1. i < j <=> j < i
      BY <1>3, <2>3
    <3>. QED BY <1>1, <3>1
  <2>. QED BY <1>1, <2>4
<1>. QED BY <1>6, <1>7, <1>8, <1>9, <1>10, Zenon DEF Placed, M, n, s, p

\* The key of a place is the instant of its line, or that of the place before.
Key(place) == CarriedOf(fetched)[place[1]][place[2]]

LEMMA KeyIs ==
    ASSUME TypeOK, LogInOrder, \A s \in Streams : Window(s), NEW s \in Streams
    PROVE  /\ \A p \in 1 .. Len(fetched[s]) : /\ Key(<<s, p>>) \in Nat
                                              /\ fetched[s][p].stamped => Key(<<s, p>>) = fetched[s][p].t
           /\ \A p, q \in 1 .. Len(fetched[s]) : p <= q => Key(<<s, p>>) <= Key(<<s, q>>)
           /\ \A p \in 1 .. Len(fetched[s]) - 1 :
                 ~fetched[s][p + 1].stamped => Key(<<s, p + 1>>) = Key(<<s, p>>)
<1>. DEFINE C == Carried(fetched[s])
<1>1. fetched \in [Streams -> Seq(Line)] /\ \A z \in Streams : InTime(fetched[z])
  BY WindowInTime DEF TypeOK
<1>2. \A p : Key(<<s, p>>) = C[p] /\ Key(<<s, p>>) = CarriedOf(fetched)[s][p]
  <2>1. \A p : <<s, p>>[1] = s /\ <<s, p>>[2] = p
    OBVIOUS
  <2>. QED BY <2>1 DEF Key, CarriedOf
<1>3. \A p \in 1 .. Len(fetched[s]) :
          C[p] = IF fetched[s][p].stamped THEN fetched[s][p].t ELSE C[p - 1]
  <2>1. fetched[s] \in Seq(Line)
    BY <1>1
  <2>. QED BY <2>1, CarriedIs, Zenon
<1>4. /\ \A p \in 1 .. Len(fetched[s]) : Key(<<s, p>>) \in Nat
      /\ \A p, q \in 1 .. Len(fetched[s]) : p <= q => Key(<<s, p>>) <= Key(<<s, q>>)
  BY <1>1, <1>2, KeyGrows, Zenon
<1>5. ASSUME NEW p \in 1 .. Len(fetched[s]) - 1, ~fetched[s][p + 1].stamped
      PROVE  Key(<<s, p + 1>>) = Key(<<s, p>>)
  <2>1. Len(fetched[s]) \in Nat
    BY <1>1
  <2>2. p + 1 \in 1 .. Len(fetched[s]) /\ (p + 1) - 1 = p
    BY <2>1
  <2>3. C[p + 1] = C[(p + 1) - 1]
    BY <1>3, <1>5, <2>2, Zenon
  <2>. QED BY <1>2, <2>2, <2>3, Zenon
<1>6. \A p \in 1 .. Len(fetched[s]) : fetched[s][p].stamped => Key(<<s, p>>) = fetched[s][p].t
  BY <1>2, <1>3, Zenon
<1>. QED BY <1>4, <1>5, <1>6

\* Before, by the keys.
LEMMA BeforeIs ==
    ASSUME NEW a, NEW b
    PROVE  Before(CarriedOf(fetched), a, b) <=>
               \/ Key(a) < Key(b)
               \/ Key(a) = Key(b) /\ a[1] = "stdout" /\ b[1] = "stderr"
               \/ Key(a) = Key(b) /\ a[1] = b[1] /\ a[2] < b[2]
BY Zenon DEF Before, Key

\* The order of the places makes one story of the windows.
LEMMA StoryOfWindows ==
    ASSUME ReadInv, at = "reply"
    PROVE  OneStory
<1>. DEFINE M == Merged
            n == Len(M)
            Follows(a, b) == \E s \in Streams : \E p \in 1 .. Len(fetched[s]) - 1 :
                                 fetched[s][p] = a /\ fetched[s][p + 1] = b
<1>1. TypeOK /\ LogInOrder /\ \A s \in Streams : Window(s)
  BY DEF ReadInv, FetchedSoFar
<1>2. PICK order : /\ Arranges(order, fetched)
                   /\ \A i \in 1 .. n : M[i] = fetched[order[i][1]][order[i][2]]
  BY <1>1, MergedArranged
<1>3. M \in Seq(Line) /\ n = Len(fetched["stdout"]) + Len(fetched["stderr"])
  BY <1>1, MergedArranged
<1>4. fetched \in [Streams -> Seq(Line)] /\ n \in Nat
  <2>1. n \in Nat
    <3>1. M \in Seq(Line)
      BY <1>3
    <3>. HIDE DEF M
    <3>. QED BY <3>1
  <2>. QED BY <1>1, <2>1 DEF TypeOK
<1>5. /\ \A i \in 1 .. n :
            /\ order[i][1] \in Streams /\ order[i][2] \in 1 .. Len(fetched[order[i][1]])
            /\ order[i] = <<order[i][1], order[i][2]>>
            /\ M[i] \in Line
            /\ Belongs(order[i][1], M[i])
      /\ \A i, j \in 1 .. n : M[i] = M[j] => i = j
      /\ \A i, j \in 1 .. n : i < j <=> Before(CarriedOf(fetched), order[i], order[j])
      /\ \A s \in Streams : \A p \in 1 .. Len(fetched[s]) :
            \E i \in 1 .. n : order[i] = <<s, p>> /\ M[i] = fetched[s][p]
  <2>1. Placed(order)
    BY <1>1, <1>2, PlacesOfLines
  <2>. QED BY <2>1, Zenon DEF Placed
<1>. HIDE DEF M, n
<1>6. \A i, j \in 1 .. n :
          i < j <=> \/ Key(order[i]) < Key(order[j])
                    \/ /\ Key(order[i]) = Key(order[j])
                       /\ order[i][1] = "stdout" /\ order[j][1] = "stderr"
                    \/ /\ Key(order[i]) = Key(order[j])
                       /\ order[i][1] = order[j][1] /\ order[i][2] < order[j][2]
  BY <1>5, BeforeIs, Zenon
<1>7. ASSUME NEW i \in 1 .. n
      PROVE  /\ Key(order[i]) \in Nat
             /\ M[i].stamped => Key(order[i]) = M[i].t
  <2>. DEFINE s == order[i][1]
              p == order[i][2]
  <2>1. s \in Streams /\ p \in 1 .. Len(fetched[s]) /\ order[i] = <<s, p>> /\ M[i] = fetched[s][p]
    BY <1>2, <1>5 DEF n, M
  <2>. HIDE DEF s, p
  <2>2. Key(<<s, p>>) \in Nat /\ (fetched[s][p].stamped => Key(<<s, p>>) = fetched[s][p].t)
    BY <1>1, <2>1, KeyIs
  <2>. QED BY <2>1, <2>2
<1>8. Range(M) = Range(fetched["stdout"]) \cup Range(fetched["stderr"])
  <2>1. DOMAIN M = 1 .. n /\ \A s \in Streams : DOMAIN fetched[s] = 1 .. Len(fetched[s])
    BY <1>3, <1>4 DEF n
  <2>2. \A x \in Range(M) : \E s \in Streams : x \in Range(fetched[s])
    <3>1. \A i \in 1 .. n : /\ order[i][1] \in Streams
                            /\ order[i][2] \in 1 .. Len(fetched[order[i][1]])
                            /\ M[i] = fetched[order[i][1]][order[i][2]]
      BY <1>2, <1>5 DEF n, M
    <3>. QED BY <2>1, <3>1 DEF Range
  <2>3. \A s \in Streams : \A x \in Range(fetched[s]) : x \in Range(M)
    <3>1. ASSUME NEW s \in Streams, NEW x \in Range(fetched[s]) PROVE x \in Range(M)
      <4>1. PICK p \in 1 .. Len(fetched[s]) : x = fetched[s][p]
        BY <2>1 DEF Range
      <4>2. PICK i \in 1 .. n : M[i] = fetched[s][p]
        BY <1>5
      <4>. QED BY <2>1, <4>1, <4>2 DEF Range
    <3>. QED BY <3>1
  <2>. QED BY <2>2, <2>3 DEF Streams
<1>9. ASSUME NEW i \in 1 .. n, NEW j \in 1 .. n, i < j, M[i].s = M[j].s
      PROVE  M[i].n < M[j].n
  <2>. DEFINE s == order[i][1]
              p == order[i][2]
              r == order[j][2]
  <2>1. s = order[j][1]
    <3>1. Belongs(order[i][1], M[i]) /\ Belongs(order[j][1], M[j])
      BY <1>5
    <3>. QED BY <1>9, <3>1 DEF Belongs
  <2>2. /\ s \in Streams /\ p \in 1 .. Len(fetched[s]) /\ r \in 1 .. Len(fetched[s])
        /\ order[i] = <<s, p>> /\ order[j] = <<s, r>>
        /\ M[i] = fetched[s][p] /\ M[j] = fetched[s][r]
    BY <1>2, <1>5, <2>1 DEF n, M
  <2>3. Key(order[i]) < Key(order[j]) \/ (Key(order[i]) = Key(order[j]) /\ p < r)
    BY <1>6, <1>9, <2>1, Zenon DEF Streams
  <2>. HIDE DEF s, p, r
  <2>4. r <= p => Key(<<s, r>>) <= Key(<<s, p>>)
    BY <1>1, <2>2, KeyIs
  <2>5. p \in Nat /\ r \in Nat /\ p < r
    <3>1. p \in Nat /\ r \in Nat
      <4>1. Len(fetched[s]) \in Nat
        BY <1>4, <2>2
      <4>. QED BY <2>2, <4>1
    <3>2. Key(order[i]) \in Nat /\ Key(order[j]) \in Nat
      BY <1>7
    <3>. QED BY <2>2, <2>3, <2>4, <3>1, <3>2
  <2>. QED BY <1>1, <2>2, <2>5 DEF Window
<1>10. ASSUME NEW i \in 1 .. n, NEW j \in 1 .. n, i < j, M[i].stamped, M[j].stamped
       PROVE  M[i].t <= M[j].t
  <2>1. Key(order[i]) < Key(order[j]) \/ Key(order[i]) = Key(order[j])
    BY <1>6, <1>10
  <2>. QED BY <1>7, <1>10, <2>1
<1>11. ASSUME NEW i \in 1 .. n, NEW j \in 1 .. n, Follows(M[i], M[j]), ~M[j].stamped
       PROVE  j = i + 1
  <2>1. PICK s \in Streams : \E p \in 1 .. Len(fetched[s]) - 1 :
                                 fetched[s][p] = M[i] /\ fetched[s][p + 1] = M[j]
    BY <1>11
  <2>2. PICK p \in 1 .. Len(fetched[s]) - 1 : fetched[s][p] = M[i] /\ fetched[s][p + 1] = M[j]
    BY <2>1
  <2>3. p \in 1 .. Len(fetched[s]) /\ p + 1 \in 1 .. Len(fetched[s]) /\ p \in Nat
    BY <1>4
  <2>4. order[i] = <<s, p>>
    BY <1>5, <2>2, <2>3
  <2>5. order[j] = <<s, p + 1>>
    BY <1>5, <2>2, <2>3
  <2>6. Key(order[j]) = Key(order[i])
    <3>1. Key(<<s, p + 1>>) = Key(<<s, p>>)
      BY <1>1, <1>11, <2>2, KeyIs
    <3>. QED BY <2>4, <2>5, <3>1
  <2>7. /\ order[i][1] = s /\ order[i][2] = p
        /\ order[j][1] = s /\ order[j][2] = p + 1
    BY <2>4, <2>5
  <2>8. i < j
    <3>1. order[i][2] < order[j][2]
      BY <2>3, <2>7
    <3>. QED BY <1>6, <2>6, <2>7, <3>1
  <2>9. SUFFICES ASSUME j # i + 1 PROVE FALSE
    OBVIOUS
  <2>10. i + 1 \in 1 .. n /\ i < i + 1 /\ i + 1 < j
    BY <1>4, <2>8, <2>9
  <2>. DEFINE k == i + 1
              z == order[k][1]
              q == order[k][2]
  <2>11. k \in 1 .. n /\ i < k /\ k < j
    BY <2>10
  <2>. HIDE DEF k
  <2>12. z \in Streams /\ q \in Nat
    BY <1>4, <1>5, <2>11
  <2>13. \/ Key(order[i]) < Key(order[k])
         \/ Key(order[i]) = Key(order[k]) /\ s = "stdout" /\ z = "stderr"
         \/ Key(order[i]) = Key(order[k]) /\ s = z /\ p < q
    BY <1>6, <2>7, <2>11, Zenon
  <2>14. \/ Key(order[k]) < Key(order[j])
         \/ Key(order[k]) = Key(order[j]) /\ z = "stdout" /\ s = "stderr"
         \/ Key(order[k]) = Key(order[j]) /\ z = s /\ q < p + 1
    <3>1. \/ Key(order[k]) < Key(order[j])
          \/ Key(order[k]) = Key(order[j]) /\ z = "stdout" /\ order[j][1] = "stderr"
          \/ Key(order[k]) = Key(order[j]) /\ z = order[j][1] /\ q < order[j][2]
      BY <1>6, <2>11, Zenon
    <3>. HIDE DEF z, q
    <3>. QED BY <2>7, <3>1
  <2>15. Key(order[i]) \in Nat /\ Key(order[j]) \in Nat /\ Key(order[k]) \in Nat
    BY <1>7, <2>11
  <2>. HIDE DEF z, q
  <2>. QED BY <2>3, <2>6, <2>12, <2>13, <2>14, <2>15
<1>. QED BY <1>3, <1>8, <1>9, <1>10, <1>11 DEF OneStory, M, n

\* The two streams put together are one story, whatever the windows hold: nothing is
\* lost or doubled, each stream keeps its order, timestamps do not fall, and a line
\* without timestamp stays behind its own.  merge_log_lines, called by DockerBackend.logs.
THEOREM HalvesAreOneStory == Spec => []OneStory
<1>1. ReadInv => OneStory
  BY StoryOfWindows DEF OneStory
<1>. QED BY <1>1, AlwaysReadInv, PTL

-----------------------------------------------------------------------------
(* The answer.                                                             *)

\* What Cap keeps is all that both limits allow, and lines that the byte ceiling drops
\* are flagged, for every container, request and limits.  cap_log_lines
\* (model.py), which handle_logs calls with the clamped tail.
THEOREM WindowIsLongest == Spec => []LongestWindow
<1>1. ASSUME ReadInv
      PROVE  LongestWindow
  <2>1. SUFFICES ASSUME Answered PROVE LongestWindow
    BY DEF LongestWindow
  <2>. DEFINE M == Merged
              T == TailLines
              n == Len(reply.lines)
  <2>2. TypeOK /\ LogInOrder /\ (\A s \in Streams : Window(s)) /\ reply = Cap(M, T)
    BY <1>1, <2>1 DEF ReadInv, FetchedSoFar, Answered
  <2>3. M \in Seq(Line) /\ T \in Nat \ {0}
    BY <2>2, MergedArranged, TailIsPositive, ReadAssumption DEF TypeOK
  <2>. HIDE DEF M, T
  <2>4. /\ reply.lines = LastOf(M, n) /\ Allowed(M, T, n)
        /\ n < Len(M) => ~Allowed(M, T, n + 1)
        /\ reply.truncated = (n < Len(M))
    BY <2>2, <2>3, CapIsLongest, ReadAssumption, Zenon
  <2>. HIDE DEF n
  <2>5. \A k : Allowed(M, T, k) <=>
            LET Lines(s) == Cardinality({i \in Len(M) - k + 1 .. Len(M) : M[i].s = s})
            IN  k <= T /\ (MaxLogBytes > 0 =>
                              Lines("stdout") * Bytes["stdout"] + Lines("stderr") * Bytes["stderr"]
                                  <= MaxLogBytes)
    BY Zenon DEF Allowed, Size, Count
  <2>6. n < Len(M) /\ n < T => reply.truncated
    BY <2>4
  <2>7. reply.truncated => n < Len(M)
    BY <2>4
  <2>. QED BY <2>4, <2>5, <2>6, <2>7, Zenon DEF LongestWindow, M, T, n
<1>. QED BY <1>1, AlwaysReadInv, PTL

\* The second asked for does not begin after the instant asked for.
LEMMA SecondsRound ==
    ASSUME NEW t \in Nat, NEW d \in Nat \ {0}
    PROVE  (t \div d) * d <= t
OBVIOUS

\* A line that was asked for belongs to one of the windows.
Home(line) == IF tty THEN "stdout" ELSE line.s

LEMMA AskedBelongs ==
    ASSUME ReadAssumption, request \in Requests, NEW line \in Line, Asked(line)
    PROVE  Home(line) \in Streams /\ Belongs(Home(line), line)
<1>1. request.since \subseteq Nat /\ PerSecond \in Nat \ {0}
  BY DEF ReadAssumption
<1>2. line.t \in Nat /\ line.s \in Streams
  BY DEF Line
<1>3. ASSUME NEW t \in request.since
      PROVE  line.t >= SinceSeconds(t) * PerSecond
  <2>1. t \in Nat /\ line.t >= t
    BY <1>1 DEF Asked
  <2>2. (t \div PerSecond) * PerSecond <= t
    BY <1>1, <2>1, SecondsRound
  <2>3. t \div PerSecond \in Nat
    BY <1>1, <2>1
  <2>. DEFINE v == (t \div PerSecond) * PerSecond
  <2>4. v \in Nat /\ v <= t
    BY <1>1, <2>2, <2>3
  <2>. HIDE DEF v
  <2>5. line.t >= v
    BY <1>2, <2>1, <2>4
  <2>. QED BY <2>5 DEF SinceSeconds, v
<1>4. AtOrAfter(line)
  BY <1>3 DEF AtOrAfter
<1>. QED BY <1>2, <1>4 DEF Home, Belongs, Asked, Streams

\* No key is ahead of the line's own instant.
LEMMA KeyNotAhead ==
    ASSUME TypeOK, LogInOrder, \A z \in Streams : Window(z), NEW s \in Streams,
           NEW p \in 1 .. Len(fetched[s])
    PROVE  Key(<<s, p>>) <= fetched[s][p].t
<1>1. fetched[s] \in Seq(Line) /\ InTime(fetched[s])
  BY WindowInTime DEF TypeOK
<1>2. p \in 0 .. Len(fetched[s])
  BY <1>1
<1>3. Carried(fetched[s])[p] <= fetched[s][p].t
  BY <1>1, <1>2, CarriedGrows
<1>4. Key(<<s, p>>) = Carried(fetched[s])[p]
  <2>1. <<s, p>>[1] = s /\ <<s, p>>[2] = p
    OBVIOUS
  <2>. QED BY <2>1 DEF Key, CarriedOf
<1>. QED BY <1>3, <1>4

\* As many different numbers in an interval as f has values.
LEMMA NotMoreThan ==
    ASSUME NEW k \in Nat, NEW a \in Int, NEW b \in Int, a <= b,
           NEW f \in [1 .. k -> a + 1 .. b],
           \A p, q \in 1 .. k : f[p] = f[q] => p = q
    PROVE  k <= b - a
<1>1. /\ IsFiniteSet(1 .. k) /\ Cardinality(1 .. k) = k
      /\ IsFiniteSet(a + 1 .. b) /\ Cardinality(a + 1 .. b) = b - a
  <2>1. /\ IsFiniteSet(1 .. k)
        /\ Cardinality(1 .. k) = IF 1 > k THEN 0 ELSE k - 1 + 1
    BY FS_Interval
  <2>2. /\ IsFiniteSet(a + 1 .. b)
        /\ Cardinality(a + 1 .. b) = IF a + 1 > b THEN 0 ELSE b - (a + 1) + 1
    BY FS_Interval
  <2>. QED BY <2>1, <2>2
<1>2. f \in Injection(1 .. k, a + 1 .. b)
  BY DEF Injection, IsInjective
<1>3. Cardinality(1 .. k) <= Cardinality(a + 1 .. b)
  BY <1>1, <1>2, FS_Injection
<1>. QED BY <1>1, <1>3

LEMMA NothingMissing ==
    ASSUME ReadInv, Answered, NEW i \in 1 .. begun, i + TailLines > ended,
           log[i].stamped, Asked(log[i])
    PROVE  \/ log[i] \in Range(reply.lines)
           \/ /\ MaxLogBytes > 0 /\ Len(reply.lines) < TailLines /\ reply.truncated
              /\ \A j \in 1 .. Len(reply.lines) :
                    reply.lines[j].stamped => log[i].t <= reply.lines[j].t
<1>. DEFINE M == Merged
            N == Len(M)
            T == TailLines
            r == Len(reply.lines)
            L == log[i]
            s == Home(L)
<1>1. /\ TypeOK /\ LogInOrder /\ (\A z \in Streams : Window(z)) /\ reply = Cap(M, T)
      /\ ReadAssumption
  BY ReadAssumption DEF ReadInv, FetchedSoFar, Answered
<1>2. M \in Seq(Line) /\ T \in Nat \ {0}
  BY <1>1, MergedArranged, TailIsPositive DEF TypeOK
<1>3. N \in Nat
  <2>. HIDE DEF M
  <2>. QED BY <1>2
<1>4. /\ r \in 0 .. N /\ reply.lines = LastOf(M, r) /\ reply.truncated = (r < N)
      /\ r < N => ~Allowed(M, T, r + 1)
  <2>. HIDE DEF M, T
  <2>. QED BY <1>1, <1>2, CapIsLongest, Zenon
<1>5. PICK order : /\ Arranges(order, fetched)
                   /\ \A k \in 1 .. N : M[k] = fetched[order[k][1]][order[k][2]]
  BY <1>1, MergedArranged
<1>6. /\ \A k \in 1 .. N :
            /\ order[k][1] \in Streams /\ order[k][2] \in 1 .. Len(fetched[order[k][1]])
            /\ order[k] = <<order[k][1], order[k][2]>>
      /\ \A k, l \in 1 .. N : M[k] = M[l] => k = l
      /\ \A k, l \in 1 .. N : k < l <=> Before(CarriedOf(fetched), order[k], order[l])
      /\ \A z \in Streams : \A p \in 1 .. Len(fetched[z]) :
            \E k \in 1 .. N : order[k] = <<z, p>> /\ M[k] = fetched[z][p]
  <2>1. Placed(order)
    <3>1. TypeOK /\ LogInOrder /\ (\A z \in Streams : Window(z)) /\ Arranges(order, fetched)
      BY <1>1, <1>5
    <3>2. \A k \in 1 .. Len(Merged) : Merged[k] = fetched[order[k][1]][order[k][2]]
      BY <1>5
    <3>. QED BY <3>1, <3>2, PlacesOfLines
  <2>. QED BY <2>1, Zenon DEF Placed
<1>7. L \in Line /\ L.t \in Nat /\ L.n = i /\ i \in Nat /\ ended \in Nat
  <2>1. log \in Seq(Line) /\ Len(log) \in Nat /\ begun \in Nat /\ begun <= Len(log) /\ ended \in Nat
    BY <1>1 DEF TypeOK, LogInOrder
  <2>2. i \in 1 .. Len(log)
    BY <2>1
  <2>3. L \in Line
    BY <2>1, <2>2, ElementOfSeq, Zenon
  <2>4. L.n = i
    BY <1>1, <2>2 DEF LogInOrder
  <2>. QED BY <2>1, <2>2, <2>3, <2>4 DEF Line
<1>8. s \in Streams /\ Belongs(s, L)
  BY <1>1, <1>7, AskedBelongs DEF TypeOK
<1>. HIDE DEF M, N, T, r, s
<1>9. \A k \in 1 .. r : reply.lines[k] = M[N - r + k] /\ N - r + k \in 1 .. N
  <2>1. Least(r, N) = r /\ r \in Nat
    BY <1>3, <1>4 DEF Least
  <2>2. \A k \in 1 .. Least(r, N) : LastOf(M, r)[k] = M[N - Least(r, N) + k]
    BY <1>2, <2>1, LastOfIs DEF N
  <2>. QED BY <1>3, <1>4, <2>1, <2>2
<1>10. PICK p \in 1 .. Len(fetched[s]) : fetched[s][p] = L
  BY <1>1, <1>8 DEF Window, T
<1>11. PICK f \in 1 .. N : order[f] = <<s, p>> /\ M[f] = L
  BY <1>6, <1>8, <1>10
<1>. HIDE DEF L
<1>12. Key(order[f]) = L.t
  BY <1>1, <1>8, <1>10, <1>11, KeyIs DEF L
\* What comes after the line in the answer is in the tail of the last fetch.
<1>13. ASSUME NEW k \in f .. N
       PROVE  M[k].n \in (ended - T) + 1 .. ended
  <2>a. k \in 1 .. N
    BY <1>3, <1>13
  <2>b. PICK z \in Streams : order[k][1] = z
    BY <1>6, <2>a
  <2>1. PICK q \in 1 .. Len(fetched[z]) : order[k] = <<z, q>> /\ M[k] = fetched[z][q]
    BY <1>5, <1>6, <2>a, <2>b
  <2>2. /\ fetched[z][q].n \in 1 .. ended /\ fetched[z][q] = log[fetched[z][q].n]
        /\ z = "stderr" => fetched[z][q].n + T > ended
    BY <1>1, <2>1 DEF Window, T
  <2>3. i + T > ended
    BY DEF T
  <2>4. SUFFICES ASSUME z # "stderr" PROVE i <= fetched[z][q].n
    BY <1>2, <1>7, <2>1, <2>2, <2>3
  <2>5. z = "stdout"
    BY <2>4 DEF Streams
  <2>6. CASE k = f
    BY <1>7, <1>11, <2>1, <2>6 DEF L
  <2>7. CASE k # f
    <3>1. f < k /\ k \in 1 .. N
      BY <1>3, <1>13, <2>7
    <3>2. Before(CarriedOf(fetched), <<s, p>>, <<z, q>>)
      <4>1. Before(CarriedOf(fetched), order[f], order[k])
        BY <1>6, <3>1
      <4>. QED BY <1>11, <2>1, <4>1, Zenon
    <3>3. \/ Key(<<s, p>>) < Key(<<z, q>>)
          \/ Key(<<s, p>>) = Key(<<z, q>>) /\ s = z /\ p < q
      <4>1. /\ <<s, p>>[1] = s /\ <<s, p>>[2] = p /\ <<z, q>>[1] = z /\ <<z, q>>[2] = q
        OBVIOUS
      <4>. QED BY <2>4, <3>2, <4>1, BeforeIs, Zenon
    <3>4. /\ Key(<<z, q>>) \in Nat /\ Key(<<s, p>>) = L.t
          /\ Key(<<z, q>>) <= fetched[z][q].t
      BY <1>1, <1>11, <1>12, <2>1, KeyIs, KeyNotAhead
    <3>5. CASE s = z /\ p < q
      <4>1. fetched[z][p].n < fetched[z][q].n
        BY <1>1, <1>10, <2>1, <3>5 DEF Window
      <4>. QED BY <1>7, <1>10, <2>2, <3>5, <4>1 DEF L
    <3>6. CASE Key(<<s, p>>) < Key(<<z, q>>)
      <4>1. fetched[z][q].n \in 1 .. Len(log) /\ fetched[z][q].n \in Nat /\ i \in 1 .. Len(log)
        <5>1. ended <= Len(log) /\ begun <= Len(log) /\ Len(log) \in Nat /\ begun \in Nat
          BY <1>1 DEF TypeOK, LogInOrder
        <5>2. \A n : n \in 1 .. ended => n \in 1 .. Len(log) /\ n \in Nat
          BY <1>7, <5>1
        <5>3. i \in 1 .. Len(log)
          BY <1>7, <5>1
        <5>. QED BY <2>2, <5>2, <5>3
      <4>2. fetched[z][q].n <= i => log[fetched[z][q].n].t <= L.t
        BY <1>1, <4>1 DEF LogInOrder, L
      <4>3. fetched[z][q].t \in Nat
        <5>1. fetched[z] \in Seq(Line)
          BY <1>1 DEF TypeOK
        <5>2. fetched[z][q] \in Line
          BY <2>1, <5>1, ElementOfSeq, Zenon
        <5>. QED BY <5>2 DEF Line
      <4>4. ~(fetched[z][q].t <= L.t)
        BY <1>7, <3>4, <3>6, <4>3
      <4>. QED BY <1>7, <2>2, <4>1, <4>2, <4>4
    <3>. QED BY <3>3, <3>5, <3>6
  <2>. QED BY <2>6, <2>7
<1>14. N - f + 1 <= T
  <2>. DEFINE g == [k \in 1 .. N - f + 1 |-> M[f - 1 + k].n]
  <2>1. \A k \in 1 .. N - f + 1 : f - 1 + k \in f .. N /\ f - 1 + k \in 1 .. N
    BY <1>3
  <2>2. g \in [1 .. N - f + 1 -> (ended - T) + 1 .. ended]
    BY <1>13, <2>1
  <2>3. ASSUME NEW k \in 1 .. N - f + 1, NEW l \in 1 .. N - f + 1, g[k] = g[l]
        PROVE  k = l
    <3>1. M[f - 1 + k].n = M[f - 1 + l].n
      BY <2>3
    <3>2. \A m \in 1 .. N : M[m] = log[M[m].n]
      <4>. TAKE m \in 1 .. N
      <4>1. M[m] = fetched[order[m][1]][order[m][2]]
        BY <1>5
      <4>2. order[m][1] \in Streams /\ order[m][2] \in 1 .. Len(fetched[order[m][1]])
        BY <1>6
      <4>3. ASSUME NEW z \in Streams, NEW u \in 1 .. Len(fetched[z])
            PROVE  fetched[z][u] = log[fetched[z][u].n]
        <5>1. Window(z)
          BY <1>1
        <5>. QED BY <5>1 DEF Window
      <4>4. fetched[order[m][1]][order[m][2]] = log[fetched[order[m][1]][order[m][2]].n]
        BY <4>2, <4>3, Zenon
      <4>. HIDE DEF M
      <4>. QED BY <4>1, <4>4
    <3>3. M[f - 1 + k] = M[f - 1 + l]
      BY <2>1, <3>1, <3>2
    <3>4. f - 1 + k = f - 1 + l
      BY <1>6, <2>1, <3>3
    <3>. QED BY <1>3, <3>4
  <2>. HIDE DEF g
  <2>4. N - f + 1 \in Nat /\ ended - T \in Int /\ ended \in Int /\ ended - T <= ended
    BY <1>2, <1>3, <1>7
  <2>5. N - f + 1 <= ended - (ended - T)
    BY <2>2, <2>3, <2>4, NotMoreThan
  <2>. QED BY <1>2, <1>7, <2>4, <2>5
<1>15. CASE f > N - r
  <2>1. f - (N - r) \in 1 .. r /\ N - r + (f - (N - r)) = f
    BY <1>3, <1>4, <1>15
  <2>2. reply.lines[f - (N - r)] = L
    BY <1>9, <1>11, <2>1
  <2>3. DOMAIN reply.lines = 1 .. r
    BY <1>1 DEF TypeOK, r
  <2>. QED BY <2>1, <2>2, <2>3 DEF Range, L
<1>16. CASE ~(f > N - r)
  <2>1. r < N /\ r + 1 <= T /\ r < T
    BY <1>2, <1>3, <1>4, <1>14, <1>16
  <2>2. MaxLogBytes > 0
    BY <1>4, <2>1 DEF Allowed
  <2>3. ASSUME NEW j \in 1 .. r, reply.lines[j].stamped
        PROVE  L.t <= reply.lines[j].t
    <3>. DEFINE k == N - r + j
    <3>1. f < k /\ k \in 1 .. N /\ reply.lines[j] = M[k]
      BY <1>3, <1>4, <1>9, <1>16
    <3>. HIDE DEF k
    <3>a. PICK z \in Streams : order[k][1] = z
      BY <1>6, <3>1
    <3>2. PICK q \in 1 .. Len(fetched[z]) : order[k] = <<z, q>> /\ M[k] = fetched[z][q]
      BY <1>5, <1>6, <3>1, <3>a
    <3>3. Key(order[k]) = reply.lines[j].t /\ Key(order[k]) \in Nat
      BY <1>1, <2>3, <3>1, <3>2, KeyIs
    <3>4. Key(order[f]) < Key(order[k]) \/ Key(order[f]) = Key(order[k])
      BY <1>6, <3>1, BeforeIs, Zenon
    <3>. QED BY <1>7, <1>12, <3>3, <3>4
  <2>. QED BY <1>4, <2>1, <2>2, <2>3 DEF r, T, L
<1>. QED BY <1>15, <1>16

\* Nothing recent is missing in the answer, although its two halves are fetched at
\* different moments: what was in the log when the call began, was asked for and is in
\* the tail still at the last fetch, is in the answer, or the byte ceiling was in the
\* way, for every tail, ceiling and interleaving of the container's writing.
\* DockerBackend.logs, merge_log_lines and cap_log_lines.
THEOREM RecentIsThere == Spec => []NothingRecentIsMissing
<1>1. ReadInv => NothingRecentIsMissing
  BY NothingMissing DEF NothingRecentIsMissing
<1>. QED BY <1>1, AlwaysReadInv, PTL

=============================================================================
