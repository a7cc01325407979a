----------------------------- MODULE HeadersProofs -----------------------------
(***************************************************************************)
(* Threads, parts and the tree, for any articles, References, batches and  *)
(* views.  Paths are proved about once, in the first part; what follows    *)
(* speaks of the sets of a node's ancestors only.  The last part is about  *)
(* the numbers of the articles that have been read, for any ranges.        *)
(***************************************************************************)
EXTENDS Headers, ReadMarks, FiniteSetTheorems, SequenceTheorems, WellFoundedInduction, TLAPS

----------------------------------------------------------------------------
(* Numbers and loops.                                                      *)

\* A set of numbers has a smallest.
LEMMA Smallest ==
  ASSUME NEW S \in SUBSET Nat, S # {}
  PROVE  \E x \in S : \A y \in S : x <= y
<1>1. PICK x \in S : \A y \in S : ~ (<<y, x>> \in OpToRel(<, Nat))
  BY NatLessThanWellFounded, WFMin
<1>2. \A y \in S : ~(y < x)
  BY <1>1 DEF OpToRel
<1> QED
  BY <1>2

LEMMA UpTo ==
  ASSUME NEW n \in Nat, NEW S, 0 \in S,
         \A i \in 1..n : i - 1 \in S => i \in S
  PROVE  \A i \in 0..n : i \in S
<1> DEFINE B == {i \in 0..n : i \notin S}
<1> SUFFICES ASSUME B # {} PROVE FALSE
  OBVIOUS
<1>1. PICK m \in B : \A y \in B : m =< y
  <2>1. B \in SUBSET Nat
    OBVIOUS
  <2> HIDE DEF B
  <2> QED
    BY <2>1, Smallest
<1>2. m \in 1..n /\ m - 1 \in 0..n /\ ~(m <= m - 1)
  BY <1>1
<1>3. m - 1 \in S
  BY <1>1, <1>2
<1> QED
  BY <1>1, <1>2, <1>3

\* The states of a loop over n numbers that starts in r.
Loops(f, n, r, G) == f = [i \in 0..n |-> IF i = 0 THEN r ELSE G[<<i, f[i - 1]>>]]

LEMMA Loop ==
  ASSUME NEW n \in Nat, NEW V, NEW r \in V, NEW G \in [(1..n) \X V -> V]
  PROVE  \E f \in [0..n -> V] : Loops(f, n, r, G)
<1> DEFINE Until(k, f) == f[0] = r /\ \A i \in 1..k : f[i] = G[<<i, f[i - 1]>>]
           S == {k \in 0..n : \E f \in [0..k -> V] : Until(k, f)}
<1>1. 0 \in S
  <2>1. PICK f \in [0..0 -> V] : f = [i \in 0..0 |-> r]
    OBVIOUS
  <2>2. Until(0, f)
    BY <2>1
  <2> HIDE DEF Until
  <2>3. \E h \in [0..0 -> V] : Until(0, h)
    <3> HIDE DEF S
    <3>1. f \in [0..0 -> V]
      BY <2>1
    <3> QED
      BY <2>2, <3>1, Zenon
  <2>4. 0 \in 0..n
    OBVIOUS
  <2> QED
    BY <2>3, <2>4
<1>2. ASSUME NEW k \in 1..n, k - 1 \in S PROVE k \in S
  <2>1. PICK f \in [0..(k - 1) -> V] : Until(k - 1, f)
    BY <1>2
  <2>2. f[k - 1] \in V /\ G[<<k, f[k - 1]>>] \in V
    OBVIOUS
  <2>3. PICK g \in [0..k -> V] :
          g = [i \in 0..k |-> IF i = k THEN G[<<k, f[k - 1]>>] ELSE f[i]]
    <3>1. PICK last \in V : last = G[<<k, f[k - 1]>>]
      BY <2>2
    <3>2. \A i \in 0..k : i # k => f[i] \in V
      OBVIOUS
    <3>3. [i \in 0..k |-> IF i = k THEN last ELSE f[i]] \in [0..k -> V]
      BY <3>2
    <3> QED
      BY <3>1, <3>3
  <2>4. g[0] = r
    BY <2>1, <2>3
  <2>5. ASSUME NEW i \in 1..k PROVE g[i] = G[<<i, g[i - 1]>>]
    <3>1. i - 1 \in 0..k /\ i - 1 # k /\ g[i - 1] = f[i - 1]
      BY <2>3
    <3>2. CASE i = k
      BY <2>3, <3>1, <3>2
    <3>3. CASE i # k
      <4>1. i \in 1..(k - 1) /\ g[i] = f[i]
        BY <2>3, <3>3
      <4> QED
        BY <2>1, <3>1, <4>1
    <3> QED
      BY <3>2, <3>3
  <2>6. Until(k, g)
    BY <2>4, <2>5
  <2> HIDE DEF Until
  <2> QED
    BY <2>6
<1>3. n \in S
  <2> HIDE DEF S
  <2> QED
    BY <1>1, <1>2, UpTo
<1>4. PICK f \in [0..n -> V] : Until(n, f)
  BY <1>3
<1>5. ASSUME NEW i \in 0..n
      PROVE  f[i] = IF i = 0 THEN r ELSE G[<<i, f[i - 1]>>]
  BY <1>4
<1> QED
  <2>1. Loops(f, n, r, G)
    BY <1>5 DEF Loops
  <2> QED
    BY <2>1

----------------------------------------------------------------------------
(* Paths.                                                                  *)

N == Cardinality(MID)
Parents == [MID -> MID \cup {None}]
Path == {q \in Seq(MID) : Len(q) > 0}

LEMMA Sizes == N \in Nat /\ None \notin MID /\ MID \subseteq Nat /\ IsFiniteSet(MID)
BY HeadersAssumption, FS_CardinalityType DEF N

LEMMA Climbs ==
  ASSUME NEW p \in Parents, NEW q \in Path
  PROVE  Climb(p, q) \in Path
<1>1. Last(q) \in MID
  BY DEF Path, Last
<1>2. p[Last(q)] = None \/ p[Last(q)] \in MID
  BY <1>1 DEF Parents
<1> QED
  BY <1>1, <1>2 DEF Climb, Path

\* The loop of Above.
LEMMA Climbing ==
  ASSUME NEW p \in Parents, NEW n \in MID
  PROVE  \E c \in [0..N -> Path] : /\ c[0] = <<n>> /\ Above(p, n) = Tail(c[N])
                                   /\ \A i \in 1..N : c[i] = Climb(p, c[i - 1])
<1> DEFINE G == [x \in (1..N) \X Path |-> Climb(p, x[2])]
           climbed[i \in 0..N] == IF i = 0 THEN <<n>> ELSE Climb(p, climbed[i - 1])
<1>1. <<n>> \in Path
  BY DEF Path
<1>2. G \in [(1..N) \X Path -> Path]
  BY Climbs
<1>3. PICK c \in [0..N -> Path] : Loops(c, N, <<n>>, G)
  <2> HIDE DEF G
  <2> QED
    BY <1>1, <1>2, Sizes, Loop
<1>4. \A i \in 1..N : G[<<i, c[i - 1]>>] = Climb(p, c[i - 1])
  <2> TAKE i \in 1..N
  <2>1. i - 1 \in 0..N
    BY Sizes
  <2>2. c[i - 1] \in Path
    BY <2>1
  <2> QED
    BY <2>2
<1>5. c = [i \in 0..N |-> IF i = 0 THEN <<n>> ELSE Climb(p, c[i - 1])]
  <2>1. \A i \in 0..N : i # 0 => i \in 1..N
    BY Sizes
  <2> HIDE DEF G
  <2> QED
    BY <1>3, <1>4, <2>1 DEF Loops
<1>6. Above(p, n) = Tail(climbed[N])
  BY Zenon DEF Above, N
<1> HIDE DEF G, climbed
<1>7. climbed = [i \in 0..N |-> IF i = 0 THEN <<n>> ELSE Climb(p, climbed[i - 1])]
  BY <1>5, Zenon DEF climbed
<1>8. climbed[0] = <<n>> /\ \A i \in 1..N : climbed[i] = Climb(p, climbed[i - 1])
  <2>1. 0 \in 0..N /\ \A i \in 1..N : i \in 0..N /\ i # 0
    BY Sizes
  <2> QED
    BY <1>7, <2>1
<1>9. climbed \in [0..N -> Path]
  <2> DEFINE S == {i \in 0..N : climbed[i] \in Path}
  <2>1. 0 \in S /\ \A i \in 1..N : i - 1 \in S => i \in S
    BY <1>1, <1>8, Climbs, Sizes
  <2>2. \A i \in 0..N : i \in S
    <3> HIDE DEF S
    <3> QED
      BY <2>1, Sizes, UpTo
  <2> QED
    BY <1>7, <2>2
<1> QED
  BY <1>6, <1>8, <1>9

\* Up from n, to the top or until there are more than there can be.
LEMMA Trail ==
  ASSUME NEW p \in Parents, NEW n \in MID
  PROVE  \E q \in Path : /\ Above(p, n) = Tail(q) /\ q[1] = n
                         /\ \A j \in 1..(Len(q) - 1) : q[j + 1] = p[q[j]]
                         /\ p[q[Len(q)]] = None \/ Len(q) = N + 1
<1> DEFINE Good(i, q) == /\ q[1] = n
                         /\ \A j \in 1..(Len(q) - 1) : q[j + 1] = p[q[j]]
                         /\ p[q[Len(q)]] = None \/ Len(q) = i + 1
<1>1. PICK c \in [0..N -> Path] : /\ c[0] = <<n>> /\ Above(p, n) = Tail(c[N])
                                  /\ \A i \in 1..N : c[i] = Climb(p, c[i - 1])
  BY Climbing
<1>2. Good(0, c[0])
  BY <1>1
<1>3. ASSUME NEW i \in 1..N, Good(i - 1, c[i - 1]) PROVE Good(i, c[i])
  <2>1. PICK q \in Path : q = c[i - 1]
    BY Sizes
  <2>2. PICK l \in Nat \ {0} : l = Len(q) /\ q \in Seq(MID)
    BY DEF Path
  <2>3. PICK top \in MID : top = q[l]
    <3>1. l \in 1..Len(q)
      BY <2>2
    <3> QED
      BY <2>2, <3>1
  <2>4. c[i] = IF p[top] = None THEN q ELSE Append(q, p[top])
    BY <1>1, <2>1, <2>2, <2>3 DEF Climb, Last
  <2>5. CASE p[top] = None
    BY <1>3, <2>1, <2>2, <2>3, <2>4, <2>5
  <2>6. CASE p[top] # None
    <3>1. PICK new \in MID : new = p[top]
      BY <2>6 DEF Parents
    <3>2. PICK r \in Seq(MID) : r = Append(q, new)
      BY <2>2, <3>1, AppendProperties
    <3>3. /\ Len(r) = l + 1 /\ r[l + 1] = new
          /\ \A j \in 1..l : r[j] = q[j]
      BY <2>2, <3>2
    <3>4. c[i] = r
      BY <2>4, <2>6, <3>1, <3>2
    <3>5. r[1] = n
      BY <1>3, <2>1, <2>2, <3>3
    <3>6. l = i
      BY <1>3, <2>1, <2>2, <2>3, <2>6
    <3>7. ASSUME NEW j \in 1..l PROVE r[j + 1] = p[r[j]]
      <4>1. CASE j = l
        BY <2>3, <3>1, <3>3, <4>1
      <4>2. CASE j # l
        <5>1. j \in 1..(Len(q) - 1) /\ j + 1 \in 1..l
          BY <2>2, <4>2
        <5>2. q[j + 1] = p[q[j]]
          BY <1>3, <2>1, <5>1
        <5> QED
          BY <3>3, <5>1, <5>2
      <4> QED
        BY <4>1, <4>2
    <3> QED
      BY <3>3, <3>4, <3>5, <3>6, <3>7
  <2> QED
    BY <2>5, <2>6
<1>4. \A i \in 0..N : Good(i, c[i])
  <2> DEFINE S == {i \in 0..N : Good(i, c[i])}
  <2>1. 0 \in S
    BY <1>2, Sizes
  <2>2. \A i \in 1..N : i - 1 \in S => i \in S
    <3> TAKE i \in 1..N
    <3>1. i \in 0..N
      BY Sizes
    <3>2. Good(i - 1, c[i - 1]) => Good(i, c[i])
      BY <1>3
    <3> HIDE DEF Good
    <3> QED
      BY <3>1, <3>2
  <2>3. \A i \in 0..N : i \in S
    <3> HIDE DEF S
    <3> QED
      BY <2>1, <2>2, Sizes, UpTo
  <2> QED
    BY <2>3
<1>5. c[N] \in Path /\ Good(N, c[N])
  BY <1>4, Sizes
<1> QED
  BY <1>1, <1>5

\* A trail that long meets itself.
LEMMA Circle ==
  ASSUME NEW p \in Parents, NEW q \in Path, Len(q) = N + 1,
         \A j \in 1..(Len(q) - 1) : q[j + 1] = p[q[j]],
         p[q[Len(q)]] # None
  PROVE  \E k \in 2..(N + 1) : q[k] = p[q[N + 1]]
<1>1. q \in [1..(N + 1) -> MID] /\ N \in Nat
  BY Sizes DEF Path
<1>2. PICK f \in [1..N -> MID] : f = [j \in 1..N |-> q[j + 1]]
  <2>1. \A j \in 1..N : q[j + 1] \in MID
    BY <1>1
  <2> QED
    BY <2>1
<1>3. PICK new \in MID : new = p[q[N + 1]]
  BY <1>1 DEF Parents
<1>4. CASE IsInjective(f)
  <2>1. f \in Injection(1..N, MID)
    BY <1>2, <1>4 DEF Injection
  <2>2. Cardinality(1..N) = N
    BY <1>1, FS_Interval
  <2>3. f \in Surjection(1..N, MID)
    BY <2>1, <2>2, Sizes, FS_Injection DEF N
  <2>4. PICK j \in 1..N : f[j] = new
    BY <2>3 DEF Surjection
  <2> QED
    BY <1>1, <1>2, <1>3, <2>4
<1>5. CASE ~IsInjective(f)
  <2>1. PICK a \in 1..N, b \in 1..N : f[a] = f[b] /\ a < b
    <3>1. PICK a \in 1..N, b \in 1..N : f[a] = f[b] /\ a # b
      BY <1>2, <1>5 DEF IsInjective
    <3>2. a < b \/ b < a
      BY <3>1, <1>1
    <3> QED
      BY <3>1, <3>2
  <2> DEFINE m == N - b
             S == {d \in 0..m : f[a + d] = f[b + d]}
  <2>2. m \in Nat
    BY <1>1
  <2>3. 0 \in S
    BY <1>1, <2>1
  <2>4. ASSUME NEW d \in 1..m, d - 1 \in S PROVE d \in S
    <3>1. PICK u \in 1..(N - 1), v \in 1..(N - 1) : u = a + (d - 1) /\ v = b + (d - 1)
      BY <1>1, <2>1
    <3>2. a + d = u + 1 /\ b + d = v + 1 /\ u + 1 \in 1..N /\ v + 1 \in 1..N
      BY <1>1, <2>1, <3>1
    <3>3. f[u] = f[v]
      BY <2>4, <3>1
    <3>4. q[u + 1] = q[v + 1]
      BY <1>1, <1>2, <3>1, <3>3
    <3>5. q[(u + 1) + 1] = p[q[u + 1]] /\ q[(v + 1) + 1] = p[q[v + 1]]
      BY <1>1, <3>1
    <3>6. f[u + 1] = q[(u + 1) + 1] /\ f[v + 1] = q[(v + 1) + 1]
      BY <1>2, <3>2
    <3>7. f[a + d] = f[b + d]
      BY <3>2, <3>4, <3>5, <3>6
    <3>8. d \in 0..m
      BY <2>2
    <3> QED
      BY <3>7, <3>8
  <2>5. m \in S
    <3>1. \A d \in 0..m : d \in S
      <4> HIDE DEF S, m
      <4> QED
        BY <2>2, <2>3, <2>4, UpTo
    <3> QED
      BY <2>2, <3>1
  <2>6. f[a + m] = f[N] /\ a + m \in 1..(N - 1)
    BY <1>1, <2>1, <2>5
  <2>7. q[a + m + 1] = q[N + 1]
    BY <1>1, <1>2, <2>6
  <2>8. q[a + m + 2] = p[q[a + m + 1]]
    BY <1>1, <2>6
  <2> QED
    BY <1>1, <2>6, <2>7, <2>8
<1> QED
  BY <1>4, <1>5

\* The path above n.
LEMMA AboveIs ==
  ASSUME NEW p \in Parents, NEW n \in MID
  PROVE  \E a \in Seq(MID) :
           /\ a = Above(p, n)
           /\ p[n] = None <=> a = <<>>
           /\ p[n] # None => a # <<>> /\ a[1] = p[n]
           /\ \A j \in 1..(Len(a) - 1) : a[j + 1] = p[a[j]]
           /\ \A j \in 1..Len(a) : p[a[j]] # None =>
                                     \E k \in 1..Len(a) : a[k] = p[a[j]]
<1>1. PICK q \in Path : /\ Above(p, n) = Tail(q) /\ q[1] = n
                        /\ \A j \in 1..(Len(q) - 1) : q[j + 1] = p[q[j]]
                        /\ p[q[Len(q)]] = None \/ Len(q) = N + 1
  BY Trail
<1>2. PICK l \in Nat : Len(q) = l + 1 /\ q \in Seq(MID) /\ q # <<>>
  <2>1. Len(q) \in Nat \ {0} /\ q \in Seq(MID)
    BY DEF Path
  <2> QED
    BY <2>1
<1>3. PICK a \in Seq(MID) : a = Tail(q) /\ Len(a) = l /\ \A j \in 1..l : a[j] = q[j + 1]
  <2>1. /\ Tail(q) \in Seq(MID) /\ Len(Tail(q)) = Len(q) - 1
        /\ \A j \in 1..Len(Tail(q)) : Tail(q)[j] = q[j + 1]
    BY <1>2, HeadTailProperties
  <2>2. Len(Tail(q)) = l
    BY <1>2, <2>1
  <2> QED
    BY <2>1, <2>2
<1>4. p[n] = None => a = <<>>
  <2>1. l > 0 => q[1 + 1] = p[q[1]] /\ q[2] \in MID
    BY <1>1, <1>2
  <2>2. p[n] = None => l = 0
    BY <1>1, <1>2, <2>1, Sizes
  <2> QED
    BY <1>3, <2>2
<1>5. p[n] # None => l > 0 /\ a[1] = p[n]
  <2>1. N # 0
    BY Sizes, FS_EmptySet DEF N
  <2>2. p[n] # None => l > 0
    BY <1>1, <1>2, <2>1, Sizes
  <2>3. l > 0 => a[1] = q[2] /\ q[1 + 1] = p[q[1]]
    BY <1>1, <1>2, <1>3
  <2> QED
    BY <1>1, <2>2, <2>3
<1>6. ASSUME NEW j \in 1..(Len(a) - 1) PROVE a[j + 1] = p[a[j]]
  <2>1. j + 1 \in 1..l /\ j \in 1..l
    BY <1>2, <1>3
  <2>2. q[(j + 1) + 1] = p[q[j + 1]]
    BY <1>1, <1>2, <2>1
  <2> QED
    BY <1>3, <2>1, <2>2
<1>7. ASSUME NEW j \in 1..Len(a), p[a[j]] # None
      PROVE  \E k \in 1..Len(a) : a[k] = p[a[j]]
  <2>1. CASE j \in 1..(Len(a) - 1)
    BY <1>3, <1>6, <2>1
  <2>2. CASE j = l
    <3>1. a[j] = q[l + 1]
      BY <1>3, <1>7, <2>2
    <3>2. p[q[Len(q)]] # None /\ Len(q) = N + 1 /\ l = N
      BY <1>1, <1>2, <1>7, <3>1, Sizes
    <3>3. PICK k \in 2..(N + 1) : q[k] = p[q[N + 1]]
      BY <1>1, <3>2, Circle
    <3>4. k - 1 \in 1..l /\ a[k - 1] = q[k]
      <4>1. PICK i \in 1..l : k = i + 1
        BY <3>2, Sizes
      <4> QED
        BY <1>3, <4>1
    <3> QED
      BY <1>3, <3>1, <3>2, <3>3, <3>4
  <2> QED
    BY <1>3, <2>1, <2>2
<1>8. a = Above(p, n) /\ (a = <<>> => p[n] = None)
  <2>1. a = <<>> => l = 0
    BY <1>3
  <2> QED
    BY <1>1, <1>3, <1>5, <2>1
<1> QED
  BY <1>3, <1>4, <1>5, <1>6, <1>7, <1>8

\* S holds the parent of each of its nodes.
Up(p, S) == \A k \in S : p[k] # None => p[k] \in S

\* The ancestors are the least set that holds the parent and is closed.
LEMMA AncestorsAre ==
  ASSUME NEW p \in Parents, NEW n \in MID
  PROVE  /\ Ancestors(p, n) \in SUBSET MID
         /\ p[n] # None => p[n] \in Ancestors(p, n)
         /\ Up(p, Ancestors(p, n))
<1>1. PICK a \in Seq(MID) :
           /\ a = Above(p, n)
           /\ p[n] # None => a # <<>> /\ a[1] = p[n]
           /\ \A j \in 1..Len(a) : p[a[j]] # None =>
                                     \E k \in 1..Len(a) : a[k] = p[a[j]]
  BY AboveIs
<1>2. Ancestors(p, n) = {a[j] : j \in 1..Len(a)}
  BY <1>1 DEF Ancestors, ToSet
<1>3. a # <<>> => 1 \in 1..Len(a)
  OBVIOUS
<1> QED
  BY <1>1, <1>2, <1>3 DEF Up

LEMMA AncestorsLeast ==
  ASSUME NEW p \in Parents, NEW n \in MID, NEW S \in SUBSET MID,
         p[n] # None => p[n] \in S, Up(p, S)
  PROVE  Ancestors(p, n) \subseteq S
<1>1. PICK a \in Seq(MID) :
           /\ a = Above(p, n)
           /\ p[n] = None <=> a = <<>>
           /\ p[n] # None => a # <<>> /\ a[1] = p[n]
           /\ \A j \in 1..(Len(a) - 1) : a[j + 1] = p[a[j]]
  BY AboveIs
<1>2. PICK l \in Nat : l = Len(a) /\ \A j \in 1..l : a[j] \in MID
  OBVIOUS
<1> DEFINE I == {j \in 0..l : j # 0 => a[j] \in S}
<1>3. 0 \in I
  OBVIOUS
<1>4. ASSUME NEW j \in 1..l, j - 1 \in I PROVE j \in I
  <2>1. CASE j = 1
    <3>1. a # <<>>
      BY <1>2, <2>1
    <3> QED
      BY <1>1, <2>1, <3>1
  <2>2. CASE j # 1
    <3>1. PICK i \in 1..(Len(a) - 1) : j = i + 1
      BY <1>2, <2>2
    <3>2. a[i] \in S /\ a[j] = p[a[i]]
      BY <1>1, <1>4, <3>1
    <3>3. a[j] \in MID
      BY <1>2
    <3> QED
      <4>1. p[a[i]] # None
        BY <3>2, <3>3, Sizes
      <4>2. p[a[i]] \in S
        BY <3>2, <4>1 DEF Up
      <4> QED
        BY <3>2, <4>2
  <2> QED
    BY <2>1, <2>2
<1>5. \A j \in 0..l : j \in I
  <2> HIDE DEF I
  <2> QED
    BY <1>3, <1>4, UpTo
<1>6. \A j \in 1..l : a[j] \in S
  BY <1>5
<1> QED
  BY <1>1, <1>2, <1>6 DEF Ancestors, ToSet

LEMMA AncestorsStep ==
  ASSUME NEW p \in Parents, NEW n \in MID
  PROVE  /\ p[n] = None => Ancestors(p, n) = {}
         /\ p[n] # None => Ancestors(p, n) = {p[n]} \cup Ancestors(p, p[n])
         /\ \A k \in Ancestors(p, n) : Ancestors(p, k) \subseteq Ancestors(p, n)
<1>1. p[n] = None => Ancestors(p, n) = {}
  <2>1. ASSUME p[n] = None PROVE Ancestors(p, n) \subseteq {}
    <3>1. Up(p, {}) /\ {} \in SUBSET MID
      BY DEF Up
    <3> QED
      BY <2>1, <3>1, AncestorsLeast
  <2> QED
    BY <2>1
<1>2. ASSUME NEW k \in Ancestors(p, n)
      PROVE  Ancestors(p, k) \subseteq Ancestors(p, n)
  <2>1. k \in MID /\ Ancestors(p, n) \in SUBSET MID /\ Up(p, Ancestors(p, n))
    BY AncestorsAre
  <2>2. p[k] # None => p[k] \in Ancestors(p, n)
    BY <1>2, <2>1 DEF Up
  <2> QED
    BY <2>1, <2>2, AncestorsLeast
<1>3. ASSUME p[n] # None
      PROVE  Ancestors(p, n) = {p[n]} \cup Ancestors(p, p[n])
  <2>1. p[n] \in Ancestors(p, n) /\ p[n] \in MID
    BY <1>3, AncestorsAre
  <2>2. /\ Ancestors(p, p[n]) \in SUBSET MID
        /\ p[p[n]] # None => p[p[n]] \in Ancestors(p, p[n])
        /\ Up(p, Ancestors(p, p[n]))
    BY <2>1, AncestorsAre
  <2>3. Up(p, {p[n]} \cup Ancestors(p, p[n])) /\ {p[n]} \cup Ancestors(p, p[n]) \in SUBSET MID
    BY <2>1, <2>2 DEF Up
  <2>4. Ancestors(p, n) \subseteq {p[n]} \cup Ancestors(p, p[n])
    BY <2>3, AncestorsLeast
  <2> QED
    BY <1>2, <2>1, <2>4
<1> QED
  BY <1>1, <1>2, <1>3

\* c is the nearest of S above n.
IsClosest(p, n, S, c) ==
  \/ c = None /\ Ancestors(p, n) \cap S = {}
  \/ /\ c \in Ancestors(p, n) \cap S
     /\ Ancestors(p, n) \cap S \subseteq {c} \cup Ancestors(p, c)

LEMMA ClosestIs ==
  ASSUME NEW p \in Parents, NEW n \in MID, NEW S
  PROVE  IsClosest(p, n, S, Closest(p, n, S))
<1>1. PICK a \in Seq(MID) :
           /\ a = Above(p, n)
           /\ \A j \in 1..(Len(a) - 1) : a[j + 1] = p[a[j]]
  BY AboveIs
<1>2. PICK l \in Nat : l = Len(a) /\ \A j \in 1..l : a[j] \in MID
  OBVIOUS
<1>3. Ancestors(p, n) = {a[j] : j \in 1..l}
  BY <1>1, <1>2 DEF Ancestors, ToSet
<1> DEFINE I == {j \in 1..Len(a) : a[j] \in S}
           sel == IF I # {} THEN Min(I) ELSE 0
<1>4. Closest(p, n, S) = IF sel = 0 THEN None ELSE a[sel]
  BY <1>1, Zenon DEF Closest, SelectInSeq
<1>5. CASE I = {}
  <2>1. Ancestors(p, n) \cap S = {}
    BY <1>2, <1>3, <1>5
  <2>2. Closest(p, n, S) = None
    BY <1>4, <1>5
  <2> QED
    BY <2>1, <2>2 DEF IsClosest
<1>6. CASE I # {}
  <2>1. PICK first \in I : \A j \in I : first <= j
    <3>1. I \in SUBSET Nat
      BY <1>2
    <3> HIDE DEF I
    <3> QED
      BY <1>6, <3>1, Smallest
  <2>2. sel \in I /\ \A j \in I : sel <= j
    <3>1. \E x \in I : \A y \in I : x <= y
      BY <2>1
    <3> HIDE DEF I
    <3> QED
      BY <1>6, <3>1 DEF Min
  <2> HIDE DEF sel
  <2>3. PICK c \in MID : c = a[sel] /\ c = Closest(p, n, S) /\ sel \in 1..l
    BY <1>2, <1>4, <2>2
  <2>4. c \in Ancestors(p, n) \cap S
    BY <1>3, <2>2, <2>3
  <2> DEFINE J == {j \in 0..(l - sel) : j = 0 \/ a[sel + j] \in Ancestors(p, c)}
  <2>5. l - sel \in Nat
    BY <2>3
  <2>6. 0 \in J
    BY <2>5
  <2>7. ASSUME NEW j \in 1..(l - sel), j - 1 \in J PROVE j \in J
    <3>1. PICK i \in 1..(Len(a) - 1) : i = sel + (j - 1) /\ i + 1 = sel + j
      BY <1>2, <2>3
    <3>2. a[i + 1] = p[a[i]] /\ a[i + 1] \in MID
      BY <1>1, <1>2, <3>1
    <3>3. p[a[i]] # None
      BY <3>2, Sizes
    <3>4. CASE j = 1
      <4>1. a[i] = c
        <5>1. i = sel
          BY <2>3, <3>1, <3>4
        <5> QED
          BY <2>3, <5>1
      <4> QED
        BY <3>1, <3>2, <3>3, <4>1, AncestorsAre
    <3>5. CASE j # 1
      <4>1. a[i] \in Ancestors(p, c)
        BY <2>7, <3>1, <3>5
      <4>2. Up(p, Ancestors(p, c))
        BY AncestorsAre
      <4>3. p[a[i]] \in Ancestors(p, c)
        BY <3>3, <4>1, <4>2 DEF Up
      <4> QED
        BY <3>1, <3>2, <4>3
    <3> QED
      BY <3>4, <3>5
  <2>8. \A j \in 0..(l - sel) : j \in J
    <3> HIDE DEF J
    <3> QED
      BY <2>5, <2>6, <2>7, UpTo
  <2>9. ASSUME NEW k \in Ancestors(p, n) \cap S, k # c PROVE k \in Ancestors(p, c)
    <3>1. PICK j \in 1..l : k = a[j]
      BY <1>3
    <3>2. j \in I
      BY <1>2, <3>1
    <3>3. PICK d \in 0..(l - sel) : j = sel + d
      BY <2>2, <2>3, <3>2
    <3>4. d # 0
      <4>1. d = 0 => j = sel
        BY <2>3, <3>3
      <4> QED
        BY <2>3, <2>9, <3>1, <4>1
    <3> QED
      BY <2>8, <3>1, <3>3, <3>4
  <2> QED
    BY <2>3, <2>4, <2>9 DEF IsClosest
<1> QED
  BY <1>5, <1>6

\* Without circles there is but one.
LEMMA ClosestUnique ==
  ASSUME NEW p \in Parents, Acyclic(p), NEW n \in MID, NEW S,
         NEW c, NEW d, IsClosest(p, n, S, c), IsClosest(p, n, S, d)
  PROVE  c = d
<1>1. Ancestors(p, n) \in SUBSET MID
  BY AncestorsAre
<1>2. CASE c = None \/ d = None
  BY <1>1, <1>2, Sizes DEF IsClosest
<1>3. CASE c # None /\ d # None /\ c # d
  <2>1. c \in MID /\ d \in MID /\ c \in Ancestors(p, d) /\ d \in Ancestors(p, c)
    BY <1>1, <1>3 DEF IsClosest
  <2>2. Ancestors(p, c) \subseteq Ancestors(p, d)
    BY <2>1, AncestorsStep
  <2> QED
    BY <2>1, <2>2 DEF Acyclic
<1> QED
  BY <1>2, <1>3

\* Of some nodes, one has none of the others above it.
LEMMA Highest ==
  ASSUME NEW p \in Parents, Acyclic(p), NEW S \in SUBSET MID, S # {}
  PROVE  \E x \in S : Ancestors(p, x) \cap S = {}
<1> DEFINE T == {Cardinality(Ancestors(p, x)) : x \in S}
<1>1. \A x \in S : IsFiniteSet(Ancestors(p, x)) /\ Cardinality(Ancestors(p, x)) \in Nat
  <2> TAKE x \in S
  <2>1. Ancestors(p, x) \in SUBSET MID
    BY AncestorsAre
  <2>2. IsFiniteSet(Ancestors(p, x))
    BY <2>1, Sizes, FS_Subset
  <2> QED
    BY <2>2, FS_CardinalityType
<1>2. T \in SUBSET Nat /\ T # {}
  BY <1>1
<1>3. PICK x \in S : \A y \in S : Cardinality(Ancestors(p, x)) <= Cardinality(Ancestors(p, y))
  <2>1. \E a \in T : \A b \in T : a <= b
    <3> HIDE DEF T
    <3> QED
      BY <1>2, Smallest
  <2> QED
    BY <2>1
<1>4. ASSUME NEW y \in S, y \in Ancestors(p, x) PROVE FALSE
  <2>1. Ancestors(p, y) \subseteq Ancestors(p, x) /\ y \notin Ancestors(p, y)
    BY <1>4, AncestorsStep DEF Acyclic
  <2>2. Cardinality(Ancestors(p, y)) <= Cardinality(Ancestors(p, x))
        /\ Cardinality(Ancestors(p, y)) # Cardinality(Ancestors(p, x))
    BY <1>1, <1>4, <2>1, FS_Subset
  <2> QED
    BY <1>1, <1>3, <2>2
<1> QED
  BY <1>4

\* Some links fewer.
LEMMA AncestorsFewer ==
  ASSUME NEW p \in Parents, NEW r \in Parents,
         \A k \in MID : r[k] \in {None, p[k]}
  PROVE  /\ \A n \in MID : Ancestors(r, n) \subseteq Ancestors(p, n)
         /\ Acyclic(p) => Acyclic(r)
<1>1. ASSUME NEW n \in MID PROVE Ancestors(r, n) \subseteq Ancestors(p, n)
  <2>1. /\ Ancestors(p, n) \in SUBSET MID
        /\ p[n] # None => p[n] \in Ancestors(p, n)
        /\ Up(p, Ancestors(p, n))
    BY AncestorsAre
  <2>2. Up(r, Ancestors(p, n)) /\ (r[n] # None => r[n] \in Ancestors(p, n))
    BY <2>1 DEF Up
  <2> QED
    BY <2>1, <2>2, AncestorsLeast
<1> QED
  BY <1>1 DEF Acyclic

\* The same links above n.
LEMMA AncestorsSame ==
  ASSUME NEW p \in Parents, NEW r \in Parents, NEW n \in MID,
         \A k \in {n} \cup Ancestors(r, n) : r[k] = p[k]
  PROVE  Ancestors(r, n) = Ancestors(p, n)
<1>1. /\ Ancestors(r, n) \in SUBSET MID
      /\ r[n] # None => r[n] \in Ancestors(r, n)
      /\ Up(r, Ancestors(r, n))
  BY AncestorsAre
<1>2. Up(p, Ancestors(r, n)) /\ (p[n] # None => p[n] \in Ancestors(r, n))
  BY <1>1 DEF Up
<1>3. Ancestors(p, n) \subseteq Ancestors(r, n)
  BY <1>1, <1>2, AncestorsLeast
<1>4. /\ Ancestors(p, n) \in SUBSET MID
      /\ p[n] # None => p[n] \in Ancestors(p, n)
      /\ Up(p, Ancestors(p, n))
  BY AncestorsAre
<1>5. Up(r, Ancestors(p, n)) /\ (r[n] # None => r[n] \in Ancestors(p, n))
  BY <1>3, <1>4 DEF Up
<1> QED
  BY <1>3, <1>4, <1>5, AncestorsLeast

\* All of a circle is above each of its nodes.
LEMMA Round ==
  ASSUME NEW p \in Parents, NEW n \in MID, n \in Ancestors(p, n)
  PROVE  \A k \in Ancestors(p, n) : n \in Ancestors(p, k)
<1> DEFINE S == {k \in Ancestors(p, n) : n \in Ancestors(p, k)}
<1>1. /\ Ancestors(p, n) \in SUBSET MID
      /\ p[n] # None => p[n] \in Ancestors(p, n)
      /\ Up(p, Ancestors(p, n))
  BY AncestorsAre
<1>2. ASSUME NEW k \in MID, n \in Ancestors(p, k), p[k] # None, p[k] \in MID
      PROVE  n \in Ancestors(p, p[k])
  <2>1. n = p[k] \/ n \in Ancestors(p, p[k])
    BY <1>2, AncestorsStep
  <2> QED
    BY <2>1
<1>3. \A k \in MID : p[k] # None => p[k] \in MID
  BY DEF Parents
<1>4. Up(p, S)
  <2> SUFFICES ASSUME NEW k \in S, p[k] # None PROVE p[k] \in S
    BY DEF Up
  <2>1. p[k] \in Ancestors(p, n)
    BY <1>1 DEF Up
  <2> QED
    BY <1>1, <1>2, <2>1
<1>5. p[n] # None => p[n] \in S
  BY <1>1, <1>2, <1>3
<1>6. S \in SUBSET MID
  BY <1>1
<1> HIDE DEF S
<1>7. Ancestors(p, n) \subseteq S
  BY <1>4, <1>5, <1>6, AncestorsLeast
<1> QED
  BY <1>7 DEF S

\* A new link closes a circle only through the new parent.
LEMMA LinkAcyclic ==
  ASSUME NEW p \in Parents, Acyclic(p), NEW node \in MID, p[node] = None,
         NEW new \in MID, NEW r \in Parents, r = [p EXCEPT ![node] = new],
         new \notin Ancestors(r, new)
  PROVE  Acyclic(r)
<1> SUFFICES ASSUME NEW k \in MID, k \in Ancestors(r, k) PROVE FALSE
  BY DEF Acyclic
<1>1. /\ Ancestors(r, k) \in SUBSET MID /\ Up(r, Ancestors(r, k))
      /\ r[node] = new /\ \A x \in MID : x # node => r[x] = p[x]
  BY AncestorsAre DEF Parents
<1>2. CASE node \in Ancestors(r, k)
  <2>1. new \in Ancestors(r, k)
    BY <1>1, <1>2, Sizes DEF Up
  <2>2. k \in Ancestors(r, new)
    BY <2>1, Round
  <2> QED
    BY <2>1, <2>2, AncestorsStep
<1>3. CASE node \notin Ancestors(r, k)
  <2>1. \A x \in {k} \cup Ancestors(r, k) : r[x] = p[x]
    BY <1>1, <1>3
  <2>2. Ancestors(r, k) = Ancestors(p, k)
    BY <2>1, AncestorsSame
  <2> QED
    BY <2>2 DEF Acyclic
<1> QED
  BY <1>2, <1>3

----------------------------------------------------------------------------
(* Threading keeps the group's nodes a forest.                             *)

Graphs == [parent : Parents, kids : [MID -> SUBSET MID]]
Forest(g) == g \in Graphs /\ Acyclic(g.parent) /\ Linked(g, MID)

\* A walk up the References.
Walks == [graph : Graphs, node : MID, done : BOOLEAN]
Walk(acc) == acc \in Walks /\ Forest(acc.graph)

LEMMA LinkWalks ==
  ASSUME NEW acc, Walk(acc), NEW new \in MID, acc.graph.parent[acc.node] = None
  PROVE  Walk(Link(acc, new))
<1>1. PICK g \in Graphs, node \in MID, done \in BOOLEAN :
        acc = [graph |-> g, node |-> node, done |-> done]
  BY DEF Walk, Walks
<1>2. /\ g = [parent |-> g.parent, kids |-> g.kids]
      /\ g.parent \in Parents /\ g.kids \in [MID -> SUBSET MID]
      /\ g.parent[node] = None /\ Acyclic(g.parent) /\ Linked(g, MID)
  BY <1>1 DEF Walk, Forest, Graphs
<1>3. PICK r \in Parents : r = [g.parent EXCEPT ![node] = new]
  BY <1>2 DEF Parents
<1>4. PICK kids \in [MID -> SUBSET MID] : kids = [g.kids EXCEPT ![new] = @ \cup {node}]
  BY <1>2
<1>5. CASE new \in Ancestors(r, new)
  <2>1. Link(acc, new) = [acc EXCEPT !.graph.parent[node] = None, !.done = TRUE]
    BY <1>1, <1>3, <1>5 DEF Link
  <2>2. [g.parent EXCEPT ![node] = None] = g.parent
    BY <1>2 DEF Parents
  <2>3. Link(acc, new) = [graph |-> g, node |-> node, done |-> TRUE]
    BY <1>1, <1>2, <2>1, <2>2
  <2>4. Forest(g)
    BY <1>1 DEF Walk
  <2> QED
    BY <2>3, <2>4 DEF Walk, Walks
<1>6. CASE new \notin Ancestors(r, new)
  <2>1. Link(acc, new) =
          [graph |-> [parent |-> r, kids |-> kids], node |-> new, done |-> done]
    BY <1>1, <1>3, <1>4, <1>6 DEF Link
  <2>2. Acyclic(r)
    BY <1>2, <1>3, <1>6, LinkAcyclic
  <2>3. \A n \in MID, q \in MID : n \in kids[q] <=> r[n] = q
    <3> TAKE n \in MID, q \in MID
    <3>1. n \in g.kids[q] <=> g.parent[n] = q
      BY <1>2 DEF Linked
    <3>2. kids[q] = IF q = new THEN g.kids[q] \cup {node} ELSE g.kids[q]
      BY <1>2, <1>4
    <3>3. r[n] = IF n = node THEN new ELSE g.parent[n]
      BY <1>2, <1>3 DEF Parents
    <3> QED
      BY <1>2, <3>1, <3>2, <3>3, Sizes
  <2>4. \A n \in MID : r[n] # None => r[n] \in MID
    BY DEF Parents
  <2> DEFINE h == [parent |-> r, kids |-> kids]
  <2>5. Forest(h)
    BY <2>2, <2>3, <2>4 DEF Forest, Graphs, Linked
  <2> HIDE DEF h
  <2>6. Link(acc, new) = [graph |-> h, node |-> new, done |-> done]
    BY <2>1 DEF h
  <2>7. h \in Graphs
    BY <2>5 DEF Forest
  <2> QED
    BY <2>5, <2>6, <2>7 DEF Walk, Walks
<1> QED
  BY <1>5, <1>6

LEMMA UnlinkWalks ==
  ASSUME NEW acc, Walk(acc), acc.graph.parent[acc.node] # None
  PROVE  /\ Walk(Unlink(acc)) /\ Unlink(acc).node = acc.node
         /\ Unlink(acc).graph.parent[acc.node] = None
<1>1. PICK g \in Graphs, node \in MID, done \in BOOLEAN :
        acc = [graph |-> g, node |-> node, done |-> done]
  BY DEF Walk, Walks
<1>2. /\ g = [parent |-> g.parent, kids |-> g.kids]
      /\ g.parent \in Parents /\ g.kids \in [MID -> SUBSET MID]
      /\ Acyclic(g.parent) /\ Linked(g, MID)
  BY <1>1 DEF Walk, Forest, Graphs
<1>3. PICK old \in MID : old = g.parent[node]
  BY <1>1, <1>2 DEF Parents
<1>4. PICK r \in Parents : r = [g.parent EXCEPT ![node] = None]
  BY <1>2 DEF Parents
<1>5. PICK kids \in [MID -> SUBSET MID] : kids = [g.kids EXCEPT ![old] = @ \ {node}]
  BY <1>2
<1> DEFINE h == [parent |-> r, kids |-> kids]
<1>6. Unlink(acc) = [graph |-> h, node |-> node, done |-> done]
  <2>1. acc.graph = g /\ acc.node = node /\ g.parent[node] = old
    BY <1>1, <1>3
  <2>2. Unlink(acc) = [acc EXCEPT !.graph = [parent |-> r, kids |-> kids]]
    BY <1>4, <1>5, <2>1, Zenon DEF Unlink
  <2> QED
    BY <1>1, <2>2
<1>7. \A n \in MID : r[n] = IF n = node THEN None ELSE g.parent[n]
  BY <1>2, <1>4 DEF Parents
<1>8. Acyclic(r)
  BY <1>2, <1>7, AncestorsFewer
<1>9. \A n \in MID, q \in MID : n \in kids[q] <=> r[n] = q
  <2> TAKE n \in MID, q \in MID
  <2>1. n \in g.kids[q] <=> g.parent[n] = q
    BY <1>2 DEF Linked
  <2>2. kids[q] = IF q = old THEN g.kids[q] \ {node} ELSE g.kids[q]
    BY <1>2, <1>5
  <2> QED
    BY <1>3, <1>7, <2>1, <2>2, Sizes
<1>10. \A n \in MID : r[n] # None => r[n] \in MID
  BY DEF Parents
<1>11. Forest(h)
  BY <1>8, <1>9, <1>10 DEF Forest, Graphs, Linked
<1>12. h \in Graphs /\ h.parent[node] = None
  BY <1>7, <1>11 DEF Forest
<1> HIDE DEF h
<1> QED
  BY <1>1, <1>6, <1>11, <1>12 DEF Walk, Walks

LEMMA VisitWalks ==
  ASSUME NEW acc, Walk(acc), NEW new \in MID, NEW before \in Seq(MID)
  PROVE  Walk(Visit(acc, new, before))
<1> DEFINE old == acc.graph.parent[acc.node]
<1>1. CASE acc.done
  BY <1>1 DEF Visit
<1>2. CASE ~acc.done /\ old = None
  <2>1. Visit(acc, new, before) = Link(acc, new)
    BY <1>2 DEF Visit
  <2> QED
    BY <1>2, <2>1, LinkWalks
<1>3. CASE ~acc.done /\ old # None /\ new \in Ancestors(acc.graph.parent, acc.node)
  <2>1. Visit(acc, new, before) = [acc EXCEPT !.node = new]
    BY <1>3 DEF Visit
  <2> QED
    BY <2>1 DEF Walk, Walks
<1>4. CASE ~acc.done /\ old # None /\ new \notin Ancestors(acc.graph.parent, acc.node)
  <2>1. Visit(acc, new, before) = acc \/ Visit(acc, new, before) = Link(Unlink(acc), new)
    BY <1>4 DEF Visit
  <2> QED
    BY <1>4, <2>1, LinkWalks, UnlinkWalks
<1> QED
  BY <1>1, <1>2, <1>3, <1>4

\* The loop of Thread.
Visits(v, g, m, refs, l) ==
  /\ v \in [0..l -> {w \in Walks : Walk(w)}]
  /\ v[0] = [graph |-> g, node |-> m, done |-> FALSE]
  /\ Thread(g, m, refs) = v[l].graph
  /\ \A i \in 1..l : v[i] = Visit(v[i - 1], refs[l - i + 1], SubSeq(refs, 1, l - i))

LEMMA Threading ==
  ASSUME NEW g, Forest(g), NEW m \in MID, NEW refs \in Seq(MID), NEW l \in Nat, l = Len(refs)
  PROVE  \E v : Visits(v, g, m, refs, l)
<1> DEFINE V == {w \in Walks : Walk(w)}
           start == [graph |-> g, node |-> m, done |-> FALSE]
           Next1(i, w) == Visit(w, refs[l - i + 1], SubSeq(refs, 1, l - i))
           G == [x \in (1..l) \X V |-> Next1(x[1], x[2])]
           visited[i \in 0..Len(refs)] ==
             IF i = 0 THEN [graph |-> g, node |-> m, done |-> FALSE]
             ELSE LET left == Len(refs) - i
                  IN  Visit(visited[i - 1], refs[left + 1], SubSeq(refs, 1, left))
<1>1. start \in V
  <2>1. g \in Graphs
    BY DEF Forest
  <2>2. start \in Walks /\ start.graph = g
    BY <2>1 DEF Walks
  <2> HIDE DEF start
  <2> QED
    BY <2>2 DEF Walk
<1>2. ASSUME NEW i \in 1..l, NEW w \in V PROVE Next1(i, w) \in V
  <2>1. refs[l - i + 1] \in MID
    <3>1. l - i + 1 \in 1..Len(refs)
      OBVIOUS
    <3> QED
      BY <3>1
  <2>2. SubSeq(refs, 1, l - i) \in Seq(MID)
    <3>1. l - i \in Nat /\ l - i <= Len(refs)
      OBVIOUS
    <3> QED
      BY <3>1
  <2>3. Walk(Next1(i, w))
    BY <2>1, <2>2, VisitWalks
  <2> HIDE DEF Next1
  <2> QED
    BY <2>3 DEF Walk
<1>3. G \in [(1..l) \X V -> V]
  <2> HIDE DEF V, Next1
  <2> QED
    BY <1>2
<1>4. PICK v \in [0..l -> V] : Loops(v, l, start, G)
  <2> HIDE DEF G, V, start
  <2> QED
    BY <1>1, <1>3, Loop
<1>5. \A i \in 1..l : G[<<i, v[i - 1]>>] = Next1(i, v[i - 1])
  <2> TAKE i \in 1..l
  <2>1. i - 1 \in 0..l
    OBVIOUS
  <2>2. v[i - 1] \in V
    BY <2>1
  <2> HIDE DEF V, Next1
  <2> QED
    BY <2>2
<1>6. v = [i \in 0..l |-> IF i = 0 THEN start ELSE Next1(i, v[i - 1])]
  <2>1. \A i \in 0..l : i # 0 => i \in 1..l
    OBVIOUS
  <2> HIDE DEF G, Next1, start, V
  <2> QED
    BY <1>4, <1>5, <2>1 DEF Loops
<1>7. v = [i \in 0..Len(refs) |->
             IF i = 0 THEN [graph |-> g, node |-> m, done |-> FALSE]
             ELSE LET left == Len(refs) - i
                  IN  Visit(v[i - 1], refs[left + 1], SubSeq(refs, 1, left))]
  BY <1>6, Zenon DEF start, Next1
<1>8. Thread(g, m, refs) = visited[Len(refs)].graph
  BY Zenon DEF Thread
<1> HIDE DEF G, Next1, start, V
<1>9. visited = [i \in 0..Len(refs) |->
             IF i = 0 THEN [graph |-> g, node |-> m, done |-> FALSE]
             ELSE LET left == Len(refs) - i
                  IN  Visit(visited[i - 1], refs[left + 1], SubSeq(refs, 1, left))]
  BY <1>7, Zenon DEF visited
<1> HIDE DEF visited
<1>10. visited = [i \in 0..l |-> IF i = 0 THEN start ELSE Next1(i, visited[i - 1])]
  BY <1>9, Zenon DEF start, Next1
<1>11. /\ visited[0] = start
       /\ \A i \in 1..l : visited[i] = Next1(i, visited[i - 1])
  <2>1. 0 \in 0..l /\ \A i \in 1..l : i \in 0..l /\ i # 0
    OBVIOUS
  <2> QED
    BY <1>10, <2>1
<1>12. visited \in [0..l -> V]
  <2> DEFINE I == {i \in 0..l : visited[i] \in V}
  <2>1. 0 \in I
    BY <1>1, <1>11
  <2>2. \A i \in 1..l : i - 1 \in I => i \in I
    BY <1>2, <1>11
  <2>3. \A i \in 0..l : i \in I
    <3> HIDE DEF I
    <3> QED
      BY <2>1, <2>2, UpTo
  <2> QED
    BY <1>10, <2>3
<1>13. Thread(g, m, refs) = visited[l].graph
  BY <1>8
<1> QED
  BY <1>11, <1>12, <1>13, Zenon DEF V, start, Next1, Visits

LEMMA ThreadForest ==
  ASSUME NEW g, Forest(g), NEW m \in MID, NEW refs \in Seq(MID)
  PROVE  Forest(Thread(g, m, refs))
<1>1. PICK l \in Nat : l = Len(refs)
  OBVIOUS
<1>2. PICK v : Visits(v, g, m, refs, l)
  BY <1>1, Threading
<1>3. Walk(v[l]) /\ Thread(g, m, refs) = v[l].graph
  BY <1>2 DEF Visits
<1> QED
  BY <1>3 DEF Walk

----------------------------------------------------------------------------
(* The tree.                                                               *)

Views == VIEWS \cup {Closed.view}
Trees == [open : BOOLEAN, view : Views, nodes : SUBSET MID,
          parent : Parents, kids : [MID -> SUBSET MID]]

\* The nodes of S in the tree t hang where g says.
Placed(t, g, S) ==
  \A n \in t.nodes \cap S : t.parent[n] = Closest(g.parent, n, t.nodes)

\* S has, with a node, those above it.
Whole(g, S) == S \in SUBSET MID /\ \A n \in S : Ancestors(g.parent, n) \subseteq S

TreeSound(t, g, S) == t \in Trees /\ Linked(t, t.nodes) /\ Placed(t, g, S)

LEMMA ClosestTypes ==
  ASSUME NEW p \in Parents, NEW n \in MID, NEW S \in SUBSET MID
  PROVE  Closest(p, n, S) \in S \cup {None}
<1>1. IsClosest(p, n, S, Closest(p, n, S))
  BY ClosestIs
<1> QED
  BY <1>1 DEF IsClosest

LEMMA TreeAddSound ==
  ASSUME NEW g, Forest(g), NEW S, Whole(g, S), NEW t, TreeSound(t, g, S),
         NEW nodes \in SUBSET MID
  PROVE  /\ TreeSound(TreeAdd(t, g, nodes), g, S)
         /\ TreeAdd(t, g, nodes).nodes = t.nodes \cup nodes
         /\ TreeAdd(t, g, nodes).open = t.open /\ TreeAdd(t, g, nodes).view = t.view
<1> DEFINE new == nodes \ t.nodes
           all == t.nodes \cup new
           touched == all \cap Descendants(g.parent, new)
<1>1. /\ g.parent \in Parents /\ Acyclic(g.parent)
      /\ t \in Trees /\ t.nodes \in SUBSET MID /\ t.parent \in Parents
      /\ t.kids \in [MID -> SUBSET MID] /\ all \in SUBSET MID
  BY DEF Forest, Graphs, TreeSound, Trees
<1>2. CASE new = {}
  <2>1. TreeAdd(t, g, nodes) = t
    BY <1>2 DEF TreeAdd
  <2> QED
    BY <1>2, <2>1
<1>3. CASE new # {}
  <2>1. \A n \in MID : Closest(g.parent, n, all) \in all \cup {None}
    BY <1>1, ClosestTypes
  <2>2. PICK parent \in Parents :
          parent = [n \in MID |-> IF n \in touched THEN Closest(g.parent, n, all)
                                  ELSE t.parent[n]]
    <3> HIDE DEF touched, all
    <3> QED
      BY <1>1, <2>1 DEF Parents
  <2>3. PICK kids \in [MID -> SUBSET MID] :
          kids = [p \in MID |-> {n \in t.kids[p] : n \in touched => parent[n] = p}
                                \cup {n \in touched : parent[n] = p}]
    <3>1. touched \in SUBSET MID
      BY DEF Descendants
    <3> HIDE DEF touched
    <3>2. [p \in MID |-> {n \in t.kids[p] : n \in touched => parent[n] = p}
                         \cup {n \in touched : parent[n] = p}] \in [MID -> SUBSET MID]
      BY <1>1, <3>1
    <3> QED
      BY <3>2
  <2>4. TreeAdd(t, g, nodes) = [t EXCEPT !.nodes = all, !.parent = parent, !.kids = kids]
    <3>1. TreeAdd(t, g, nodes) =
            [t EXCEPT !.nodes = all, !.parent = parent,
                      !.kids = [p \in MID |->
                         {n \in @[p] : n \in touched => parent[n] = p}
                         \cup {n \in touched : parent[n] = p}]]
      BY <1>3, <2>2, Zenon DEF TreeAdd
    <3> HIDE DEF touched, all
    <3> QED
      BY <2>3, <3>1
  <2>5. PICK x \in Trees : /\ x = TreeAdd(t, g, nodes)
                           /\ x.open = t.open /\ x.view = t.view /\ x.nodes = all
                           /\ x.parent = parent /\ x.kids = kids
    <3> HIDE DEF all
    <3> QED
      BY <1>1, <2>4 DEF Trees
  <2>6. ASSUME NEW n \in MID
        PROVE  parent[n] # None => n \in all /\ parent[n] \in all
    <3>1. t.parent[n] # None => n \in t.nodes /\ t.parent[n] \in t.nodes
      BY DEF TreeSound, Linked
    <3>2. n \in touched => n \in all
      OBVIOUS
    <3>3. t.nodes \subseteq all
      OBVIOUS
    <3> HIDE DEF touched, all
    <3> QED
      BY <2>1, <2>2, <3>1, <3>2, <3>3
  <2>7. ASSUME NEW n \in MID, NEW p \in MID
        PROVE  n \in kids[p] <=> parent[n] = p
    <3>1. n \in t.kids[p] <=> t.parent[n] = p
      BY DEF TreeSound, Linked
    <3> HIDE DEF touched
    <3> QED
      BY <2>2, <2>3, <3>1
  <2>8. Linked(x, x.nodes)
    BY <2>5, <2>6, <2>7 DEF Linked
  <2>9. ASSUME NEW n \in all \cap S
        PROVE  parent[n] = Closest(g.parent, n, all)
    <3>1. CASE n \in touched
      <4>1. n \in MID
        BY <1>1
      <4> HIDE DEF touched, all
      <4> QED
        BY <2>2, <3>1, <4>1
    <3>2. CASE n \notin touched
      <4>1. n \in t.nodes /\ Ancestors(g.parent, n) \cap new = {}
        BY <1>1, <3>2 DEF Descendants
      <4>2. parent[n] = Closest(g.parent, n, t.nodes)
        BY <1>1, <2>2, <3>2, <4>1 DEF TreeSound, Placed
      <4>3. IsClosest(g.parent, n, t.nodes, parent[n])
        BY <1>1, <4>1, <4>2, ClosestIs
      <4>4. Ancestors(g.parent, n) \cap t.nodes = Ancestors(g.parent, n) \cap all
        BY <4>1
      <4>5. IsClosest(g.parent, n, all, parent[n])
        <5> HIDE DEF all
        <5> QED
          BY <4>3, <4>4 DEF IsClosest
      <4>6. IsClosest(g.parent, n, all, Closest(g.parent, n, all))
        BY <1>1, ClosestIs
      <4> QED
        BY <1>1, <4>5, <4>6, ClosestUnique
    <3> QED
      BY <3>1, <3>2
  <2>10. Placed(x, g, S)
    BY <2>5, <2>9 DEF Placed
  <2> QED
    BY <2>5, <2>8, <2>10 DEF TreeSound
<1> QED
  BY <1>2, <1>3

\* Above the nodes of S the tree shows what is above them in the graph.
LEMMA ShownAbove ==
  ASSUME NEW g, Forest(g), NEW S, Whole(g, S), NEW t, TreeSound(t, g, S),
         NEW n \in t.nodes \cap S
  PROVE  Ancestors(t.parent, n) = Ancestors(g.parent, n) \cap t.nodes
<1> DEFINE GA(k) == Ancestors(g.parent, k)
           TA(k) == Ancestors(t.parent, k)
<1>1. /\ g.parent \in Parents /\ Acyclic(g.parent)
      /\ t.nodes \in SUBSET MID /\ t.parent \in Parents
      /\ S \in SUBSET MID /\ \A k \in S : GA(k) \subseteq S
  BY DEF Forest, Graphs, TreeSound, Trees, Whole
<1>2. ASSUME NEW k \in t.nodes \cap S
      PROVE  IsClosest(g.parent, k, t.nodes, t.parent[k])
  <2>1. t.parent[k] = Closest(g.parent, k, t.nodes)
    BY DEF TreeSound, Placed
  <2> QED
    BY <1>1, <2>1, ClosestIs
<1>3. ASSUME NEW k \in t.nodes \cap S PROVE TA(k) \subseteq GA(k) \cap t.nodes
  <2>1. GA(k) \in SUBSET MID
    BY <1>1, AncestorsAre
  <2>2. ASSUME NEW c \in (GA(k) \cap t.nodes) \cup {k}, t.parent[c] # None
        PROVE  t.parent[c] \in GA(k) \cap t.nodes
    <3>1. c \in t.nodes \cap S
      BY <1>1
    <3>2. t.parent[c] \in GA(c) \cap t.nodes
      BY <1>2, <2>2, <3>1 DEF IsClosest
    <3>3. GA(c) \subseteq GA(k)
      BY <1>1, <3>1, AncestorsStep
    <3> QED
      BY <3>2, <3>3
  <2>3. Up(t.parent, GA(k) \cap t.nodes)
    BY <2>2 DEF Up
  <2>4. GA(k) \cap t.nodes \in SUBSET MID /\ k \in MID
    BY <1>1
  <2> QED
    BY <1>1, <2>2, <2>3, <2>4, AncestorsLeast
<1> DEFINE Bad == {k \in t.nodes \cap S : ~(GA(k) \cap t.nodes \subseteq TA(k))}
<1>4. ASSUME Bad # {} PROVE FALSE
  <2>1. Bad \in SUBSET MID
    BY <1>1
  <2>2. PICK k \in Bad : GA(k) \cap Bad = {}
    <3> HIDE DEF Bad
    <3> QED
      BY <1>1, <1>4, <2>1, Highest
  <2>3. k \in t.nodes \cap S /\ ~(GA(k) \cap t.nodes \subseteq TA(k))
    OBVIOUS
  <2>4. PICK c \in GA(k) \cap t.nodes :
          c = t.parent[k] /\ GA(k) \cap t.nodes \subseteq {c} \cup GA(c)
    <3>1. GA(k) \cap t.nodes # {}
      BY <2>3
    <3> QED
      BY <1>2, <2>3, <3>1 DEF IsClosest
  <2>5. c \in t.nodes \cap S /\ c \notin Bad
    BY <1>1, <2>2, <2>3, <2>4
  <2>6. GA(c) \cap t.nodes \subseteq TA(c)
    BY <2>5
  <2>7. c \in TA(k)
    BY <1>1, <2>3, <2>4, Sizes, AncestorsAre
  <2>8. TA(c) \subseteq TA(k)
    BY <1>1, <2>3, <2>7, AncestorsStep
  <2> QED
    BY <2>3, <2>4, <2>6, <2>7, <2>8
<1> QED
  BY <1>3, <1>4

LEMMA TreeRemoveSound ==
  ASSUME NEW g, Forest(g), NEW S, Whole(g, S), NEW t, TreeSound(t, g, S), NEW mids
  PROVE  /\ TreeSound(TreeRemove(t, mids), g, S)
         /\ TreeRemove(t, mids).nodes = t.nodes \ mids
         /\ TreeRemove(t, mids).open = t.open /\ TreeRemove(t, mids).view = t.view
<1> DEFINE gone == mids \cap t.nodes
           left == t.nodes \ gone
           orphans == {n \in left : t.parent[n] \in gone}
<1>1. /\ g.parent \in Parents /\ Acyclic(g.parent)
      /\ t \in Trees /\ t.nodes \in SUBSET MID /\ t.parent \in Parents
      /\ t.kids \in [MID -> SUBSET MID] /\ left \in SUBSET MID
      /\ S \in SUBSET MID /\ \A k \in S : Ancestors(g.parent, k) \subseteq S
  BY DEF Forest, Graphs, TreeSound, Trees, Whole
<1>2. CASE gone = {}
  <2>1. TreeRemove(t, mids) = t
    BY <1>2 DEF TreeRemove
  <2> QED
    BY <1>2, <2>1
<1>3. CASE gone # {}
  <2>1. \A n \in MID : Closest(t.parent, n, left) \in left \cup {None}
    BY <1>1, ClosestTypes
  <2>2. PICK parent \in Parents :
          parent = [n \in MID |-> IF n \in gone THEN None
                                  ELSE IF n \in orphans THEN Closest(t.parent, n, left)
                                  ELSE t.parent[n]]
    <3> HIDE DEF orphans, gone
    <3> QED
      BY <1>1, <2>1 DEF Parents
  <2>3. PICK kids \in [MID -> SUBSET MID] :
          kids = [p \in MID |-> IF p \in gone THEN {}
                                ELSE (t.kids[p] \ gone) \cup {n \in orphans : parent[n] = p}]
    <3>1. orphans \in SUBSET MID
      BY <1>1
    <3> HIDE DEF orphans, gone
    <3>2. [p \in MID |-> IF p \in gone THEN {}
                         ELSE (t.kids[p] \ gone) \cup {n \in orphans : parent[n] = p}]
            \in [MID -> SUBSET MID]
      BY <1>1, <3>1
    <3> QED
      BY <3>2
  <2>4. TreeRemove(t, mids) = [t EXCEPT !.nodes = left, !.parent = parent, !.kids = kids]
    <3>1. TreeRemove(t, mids) =
            [t EXCEPT !.nodes = left, !.parent = parent,
                      !.kids = [p \in MID |-> IF p \in gone THEN {}
                         ELSE (@[p] \ gone) \cup {n \in orphans : parent[n] = p}]]
      BY <1>3, <2>2, Zenon DEF TreeRemove
    <3> HIDE DEF gone, left, orphans
    <3> QED
      BY <2>3, <3>1
  <2>5. PICK x \in Trees : /\ x = TreeRemove(t, mids)
                           /\ x.open = t.open /\ x.view = t.view /\ x.nodes = left
                           /\ x.parent = parent /\ x.kids = kids
    <3> HIDE DEF left
    <3> QED
      BY <1>1, <2>4 DEF Trees
  <2>6. ASSUME NEW n \in MID
        PROVE  parent[n] # None => n \in left /\ parent[n] \in left
    <3>1. t.parent[n] # None => n \in t.nodes /\ t.parent[n] \in t.nodes
      BY DEF TreeSound, Linked
    <3>2. n \in orphans => n \in left
      OBVIOUS
    <3>3. n \notin gone /\ n \notin orphans /\ t.parent[n] # None
            => n \in left /\ t.parent[n] \in left
      BY <3>1
    <3> HIDE DEF left, gone, orphans
    <3> QED
      BY <2>1, <2>2, <3>2, <3>3
  <2>7. ASSUME NEW n \in MID, NEW p \in MID
        PROVE  n \in kids[p] <=> parent[n] = p
    <3>1. n \in t.kids[p] <=> t.parent[n] = p
      BY DEF TreeSound, Linked
    <3>2. /\ kids[p] = IF p \in gone THEN {}
                       ELSE (t.kids[p] \ gone) \cup {k \in orphans : parent[k] = p}
          /\ parent[n] = IF n \in gone THEN None
                         ELSE IF n \in orphans THEN Closest(t.parent, n, left)
                         ELSE t.parent[n]
      BY <2>2, <2>3
    <3>3. p \in left => p \notin gone
      OBVIOUS
    <3>4. n \in orphans => t.parent[n] \in gone /\ n \notin gone
      OBVIOUS
    <3>5. parent[n] = p => p \in left
      BY <2>6, Sizes
    <3>6. n \notin gone /\ n \notin orphans /\ t.parent[n] = p => p \in left
      <4>1. t.parent[n] = p => n \in t.nodes /\ p \in t.nodes
        BY Sizes DEF TreeSound, Linked
      <4> QED
        BY <4>1
    <3>7. p # None
      BY Sizes
    <3> HIDE DEF gone, orphans, left
    <3>8. CASE n \in gone
      BY <3>2, <3>4, <3>7, <3>8
    <3>9. CASE n \in orphans
      BY <3>1, <3>2, <3>3, <3>4, <3>5, <3>9
    <3>10. CASE n \notin gone /\ n \notin orphans
      BY <3>1, <3>2, <3>3, <3>6, <3>10
    <3> QED
      BY <3>8, <3>9, <3>10
  <2>8. Linked(x, x.nodes)
    BY <2>5, <2>6, <2>7 DEF Linked
  <2>9. ASSUME NEW n \in left \cap S
        PROVE  parent[n] = Closest(g.parent, n, left)
    <3>1. n \in t.nodes /\ n \notin gone /\ n \in MID
      BY <1>1
    <3>2. IsClosest(g.parent, n, t.nodes, t.parent[n])
      <4>1. t.parent[n] = Closest(g.parent, n, t.nodes)
        BY <3>1 DEF TreeSound, Placed
      <4> QED
        BY <1>1, <3>1, <4>1, ClosestIs
    <3>3. CASE n \notin orphans
      <4>1. parent[n] = t.parent[n] /\ t.parent[n] \notin gone
        BY <2>2, <3>1, <3>3
      <4>2. IsClosest(g.parent, n, left, parent[n])
        BY <3>2, <4>1 DEF IsClosest
      <4> QED
        BY <1>1, <3>1, <4>2, ClosestIs, ClosestUnique
    <3>4. CASE n \in orphans
      <4>1. PICK c : c = parent[n] /\ IsClosest(t.parent, n, left, c)
        <5>1. parent[n] = Closest(t.parent, n, left)
          BY <2>2, <3>1, <3>4
        <5> QED
          BY <1>1, <3>1, <5>1, ClosestIs
      <4>2. Ancestors(t.parent, n) = Ancestors(g.parent, n) \cap t.nodes
        BY <3>1, ShownAbove
      <4>3. IsClosest(g.parent, n, left, c)
        <5>1. CASE c \in Ancestors(t.parent, n) \cap left
          <6>1. c \in t.nodes \cap S
            BY <1>1, <4>2, <5>1
          <6>2. Ancestors(t.parent, c) = Ancestors(g.parent, c) \cap t.nodes
            BY <6>1, ShownAbove
          <6>3. c # None
            BY <1>1, <6>1, Sizes
          <6> QED
            BY <4>1, <4>2, <5>1, <6>2, <6>3 DEF IsClosest
        <5>2. CASE c \notin Ancestors(t.parent, n) \cap left
          BY <4>1, <4>2, <5>2 DEF IsClosest
        <5> QED
          BY <5>1, <5>2
      <4> QED
        BY <1>1, <3>1, <4>1, <4>3, ClosestIs, ClosestUnique
    <3> QED
      BY <3>3, <3>4
  <2>10. Placed(x, g, S)
    BY <2>5, <2>9 DEF Placed
  <2> QED
    BY <2>5, <2>8, <2>10 DEF TreeSound
<1> QED
  BY <1>2, <1>3

----------------------------------------------------------------------------
(* What is shown.                                                          *)

Parts == [MID -> SUBSET MID]

\* x is t after the articles of mids were looked at.
Looked(t, x, art, mids) ==
  /\ x.open = t.open /\ x.view = t.view
  /\ t.view[1] # "none" /\ t.nodes \subseteq HasArticle(art)
       => x.nodes \subseteq HasArticle(art)
  /\ \A m \in HasArticle(art) \cap (mids \cup t.nodes) : Matches(t, art, m) => m \in x.nodes
  /\ t.view[2] = "ARTICLES" =>
       /\ x.nodes \subseteq mids \cup t.nodes
       /\ \A m \in HasArticle(art) \cap mids \cap x.nodes : Matches(t, art, m)

LEMMA FilterLooks ==
  ASSUME NEW g, Forest(g), NEW S, Whole(g, S), NEW t, TreeSound(t, g, S),
         NEW art \in Parts, NEW mids \in SUBSET MID
  PROVE  /\ TreeSound(ApplyFilter(t, art, g, mids), g, S)
         /\ Looked(t, ApplyFilter(t, art, g, mids), art, mids)
<1> DEFINE has == HasArticle(art)
           tested == mids \cap has
           pass == IF t.view[1] = "none" THEN mids
                   ELSE {m \in tested : Matches(t, art, m)}
           fail == IF t.view[1] = "none" THEN {} ELSE tested \ pass
           roots == IF t.view[2] = "THREADS"
                    THEN {Last(<<m>> \o Above(g.parent, m)) : m \in pass} ELSE pass
           threads == Descendants(g.parent, roots) \cap has
           kept == {m \in threads : m \notin IGNORED \/ Matches(t, art, m)}
           x == ApplyFilter(t, art, g, mids)
<1>1. /\ g.parent \in Parents /\ has \in SUBSET MID
      /\ pass \in SUBSET MID /\ threads \in SUBSET has /\ kept \in SUBSET threads
  BY DEF Forest, Graphs, HasArticle
<1>2. x = IF t.view[2] = "ARTICLES" THEN TreeRemove(TreeAdd(t, g, pass), fail)
          ELSE TreeRemove(TreeAdd(t, g, kept), (fail \cup threads) \ kept)
  BY Zenon DEF ApplyFilter
<1>3. t.view[1] = "none" => \A m \in MID : Matches(t, art, m)
  BY DEF Matches
<1>4. fail \cap pass = {} /\ fail \subseteq has /\ \A m \in fail : ~Matches(t, art, m)
  OBVIOUS
<1>5. /\ tested \subseteq pass \cup fail /\ \A m \in tested \cap pass : Matches(t, art, m)
      /\ pass \subseteq mids /\ tested \subseteq has /\ tested = mids \cap has
      /\ t.view[1] # "none" => pass \subseteq has
  BY <1>1, <1>3
<1>6. CASE t.view[2] = "ARTICLES"
  <2> HIDE DEF has, tested, pass, fail, roots, threads, kept, x
  <2>1. PICK y : /\ y = TreeAdd(t, g, pass) /\ TreeSound(y, g, S)
                 /\ y.nodes = t.nodes \cup pass /\ y.open = t.open /\ y.view = t.view
    BY <1>1, TreeAddSound
  <2>2. x = TreeRemove(y, fail)
    BY <1>2, <1>6, <2>1
  <2>3. /\ TreeSound(x, g, S) /\ x.nodes = (t.nodes \cup pass) \ fail
        /\ x.open = t.open /\ x.view = t.view
    BY <2>1, <2>2, TreeRemoveSound
  <2>4. Looked(t, x, art, mids)
    BY <1>4, <1>5, <2>3 DEF Looked, has
  <2> QED
    BY <2>3, <2>4 DEF x
<1>7. CASE t.view[2] # "ARTICLES"
  <2>1. pass \cap has \subseteq threads
    <3> SUFFICES ASSUME NEW m \in pass \cap has PROVE m \in Descendants(g.parent, roots)
      BY <1>1
    <3>1. m \in MID
      BY <1>1
    <3>2. CASE t.view[2] = "THREADS"
      <4>1. PICK a \in Seq(MID) : a = Above(g.parent, m)
        BY <1>1, <3>1, AboveIs
      <4>2. PICK r : r = Last(<<m>> \o a)
        OBVIOUS
      <4>3. r = m \/ r \in Ancestors(g.parent, m)
        <5>1. Len(<<m>> \o a) = Len(a) + 1 /\ (<<m>> \o a)[1] = m
          BY <3>1
        <5>2. \A j \in 1..Len(a) : (<<m>> \o a)[j + 1] = a[j]
          BY <3>1
        <5>3. CASE Len(a) = 0
          BY <4>2, <5>1, <5>3 DEF Last
        <5>4. CASE Len(a) # 0
          <6>1. r = a[Len(a)] /\ Len(a) \in DOMAIN a
            BY <4>2, <5>1, <5>2, <5>4 DEF Last
          <6> QED
            BY <4>1, <6>1 DEF Ancestors, ToSet
        <5> QED
          BY <5>3, <5>4
      <4>4. r \in roots
        BY <3>2, <4>1, <4>2, Zenon
      <4> HIDE DEF roots
      <4> QED
        BY <3>1, <4>3, <4>4 DEF Descendants
    <3>3. CASE t.view[2] # "THREADS"
      <4>1. m \in roots
        BY <3>3
      <4> HIDE DEF roots
      <4> QED
        BY <3>1, <4>1 DEF Descendants
    <3> QED
      BY <3>2, <3>3
  <2>2. \A m \in threads : Matches(t, art, m) => m \in kept
    OBVIOUS
  <2>3. kept \in SUBSET MID
    BY <1>1
  <2> HIDE DEF has, tested, pass, fail, roots, threads, kept, x
  <2>4. PICK y : /\ y = TreeAdd(t, g, kept) /\ TreeSound(y, g, S)
                 /\ y.nodes = t.nodes \cup kept /\ y.open = t.open /\ y.view = t.view
    BY <2>3, TreeAddSound
  <2>5. x = TreeRemove(y, (fail \cup threads) \ kept)
    BY <1>2, <1>7, <2>4
  <2>6. /\ TreeSound(x, g, S) /\ x.nodes = (t.nodes \cup kept) \ ((fail \cup threads) \ kept)
        /\ x.open = t.open /\ x.view = t.view
    BY <2>4, <2>5, TreeRemoveSound
  <2>7. ASSUME NEW m \in has \cap (mids \cup t.nodes), Matches(t, art, m)
        PROVE  m \in x.nodes
    <3>1. m \notin fail /\ (m \in threads => m \in kept)
      BY <1>4, <2>2, <2>7
    <3>2. m \in mids => m \in kept
      BY <1>5, <2>1, <3>1
    <3> QED
      BY <2>6, <3>1, <3>2
  <2>8. kept \subseteq has
    BY <1>1
  <2>9. Looked(t, x, art, mids)
    BY <1>7, <2>6, <2>7, <2>8 DEF Looked, has
  <2> QED
    BY <2>6, <2>9 DEF x
<1> QED
  BY <1>6, <1>7

\* Both batches, one after the other.
LEMMA FlushLooks ==
  ASSUME NEW g, Forest(g), NEW S, Whole(g, S), NEW t, TreeSound(t, g, S),
         NEW art \in Parts, NEW added \in SUBSET MID, NEW changed \in SUBSET MID
  PROVE  LET x == Flushed(t, art, g, added, changed)
         IN  /\ TreeSound(x, g, S)
             /\ ~t.open => x = t
             /\ t.open => Looked(t, x, art, added \cup changed)
<1>1. ASSUME NEW y, TreeSound(y, g, S), NEW mids \in SUBSET MID
      PROVE  /\ TreeSound(Refilter(y, art, g, mids), g, S)
             /\ ~y.open => Refilter(y, art, g, mids) = y
             /\ y.open => Looked(y, Refilter(y, art, g, mids), art, mids)
  <2>1. CASE y.open /\ mids # {}
    <3>1. Refilter(y, art, g, mids) = ApplyFilter(y, art, g, mids)
      BY <2>1 DEF Refilter
    <3> QED
      BY <1>1, <2>1, <3>1, FilterLooks
  <2>2. CASE ~(y.open /\ mids # {})
    <3>1. Refilter(y, art, g, mids) = y
      BY <2>2 DEF Refilter
    <3>2. mids = {} => Looked(y, y, art, mids)
      BY DEF Looked
    <3> QED
      BY <1>1, <2>2, <3>1, <3>2
  <2> QED
    BY <2>1, <2>2
<1> DEFINE y == Refilter(t, art, g, added)
           x == Refilter(y, art, g, changed)
<1>2. x = Flushed(t, art, g, added, changed)
  BY DEF Flushed
<1>3. /\ TreeSound(y, g, S) /\ (~t.open => y = t)
      /\ t.open => Looked(t, y, art, added)
  BY <1>1
<1> HIDE DEF y
<1>4. /\ TreeSound(x, g, S) /\ (~y.open => x = y)
      /\ y.open => Looked(y, x, art, changed)
  BY <1>1, <1>3
<1> HIDE DEF x
<1>5. ASSUME t.open PROVE Looked(t, x, art, added \cup changed)
  <2>1. Looked(t, y, art, added) /\ y.open /\ y.view = t.view /\ Looked(y, x, art, changed)
    BY <1>3, <1>4, <1>5 DEF Looked
  <2>2. \A m : Matches(y, art, m) <=> Matches(t, art, m)
    BY <2>1 DEF Matches
  <2> QED
    BY <2>1, <2>2 DEF Looked
<1> QED
  BY <1>2, <1>3, <1>4, <1>5

----------------------------------------------------------------------------
(* The invariant.                                                          *)

WorkAreas == [refs : Nat, flushed : BOOLEAN, lookup : SUBSET MID,
              added : SUBSET MID, changed : SUBSET MID]

Types ==
  /\ article \in Parts /\ moved \in SUBSET MID
  /\ work \in WorkAreas

\* While a header task runs, its index has every article of several parts,
\* and no other.
Indexed ==
  /\ work.refs > 0 => {m \in Articles : PARTS[Post[m]] > 1} \subseteq work.lookup
  /\ \A m \in work.lookup : PARTS[Post[m]] > 1

SettledNodes == {n \in MID : Settled(n)}

TreeRight == TreeSound(tree, graph, SettledNodes) /\ (~tree.open => tree = Closed)

\* The user has no view without a filter.
Filters == \A view \in VIEWS : view[1] # "none"

Shown == Filters => ShownMatches /\ tree.nodes \subseteq Articles

Inv == Types /\ Indexed /\ PartsTogether /\ Forest(graph) /\ TreeRight /\ Shown

LEMMA SettledWhole ==
  ASSUME NEW g, Forest(g), NEW mv,
         NEW S, S = {n \in MID : ({n} \cup Ancestors(g.parent, n)) \cap mv = {}}
  PROVE  Whole(g, S)
<1> SUFFICES ASSUME NEW n \in S, NEW k \in Ancestors(g.parent, n) PROVE k \in S
  BY DEF Whole
<1>1. g.parent \in Parents /\ n \in MID
  BY DEF Forest, Graphs
<1>2. k \in MID /\ Ancestors(g.parent, k) \subseteq Ancestors(g.parent, n)
  BY <1>1, AncestorsAre, AncestorsStep
<1> QED
  BY <1>2

LEMMA GraphWhole ==
  ASSUME Forest(graph)
  PROVE  Whole(graph, SettledNodes)
BY SettledWhole DEF SettledNodes, Settled

LEMMA ClosedSound ==
  ASSUME NEW g, NEW S
  PROVE  TreeSound(Closed, g, S)
<1>1. Blank.parent \in Parents /\ Blank.kids \in [MID -> SUBSET MID]
  BY DEF Blank, Parents
<1>2. Closed \in Trees /\ Closed.nodes = {}
  BY <1>1 DEF Closed, Trees, Views
<1>3. \A n \in MID : Blank.parent[n] = None /\ Blank.kids[n] = {}
  BY DEF Blank
<1>4. Closed.parent = Blank.parent /\ Closed.kids = Blank.kids
  BY DEF Closed
<1> QED
  BY <1>2, <1>3, <1>4, Sizes DEF TreeSound, Linked, Placed

LEMMA BlankForest == Forest(Blank)
<1>1. Blank.parent \in Parents /\ Blank.kids \in [MID -> SUBSET MID] /\ Blank \in Graphs
  BY DEF Blank, Parents, Graphs
<1>2. \A n \in MID : Blank.parent[n] = None /\ Blank.kids[n] = {}
  BY DEF Blank
<1>3. Acyclic(Blank.parent)
  BY <1>1, <1>2, AncestorsStep DEF Acyclic
<1>4. Linked(Blank, MID)
  BY <1>2, Sizes DEF Linked
<1> QED
  BY <1>1, <1>3, <1>4 DEF Forest

LEMMA InitInv ==
  ASSUME Init
  PROVE  Inv
<1>1. Types
  BY DEF Init, Types, Parts, NoWork, WorkAreas
<1>2. Articles = {} /\ work.refs = 0 /\ work.lookup = {}
  BY DEF Init, Articles, HasArticle, NoWork
<1>3. Indexed /\ PartsTogether
  BY <1>2 DEF Indexed, PartsTogether
<1>4. Forest(graph) /\ TreeRight
  BY BlankForest, ClosedSound DEF Init, TreeRight
<1>5. Shown
  BY DEF Init, Shown, ShownMatches, Closed
<1> QED
  BY <1>1, <1>3, <1>4, <1>5 DEF Inv

----------------------------------------------------------------------------
(* Header tasks.                                                           *)

LEMMA XoverRefInv ==
  ASSUME Inv, XoverRef
  PROVE  Inv'
<1>1. PICK l \in SUBSET MID :
        /\ l = work.lookup \cup {m \in Articles : PARTS[Post[m]] > 1}
        /\ work' = [work EXCEPT !.refs = @ + 1, !.lookup = l]
  BY DEF Inv, Types, XoverRef, Articles, HasArticle, WorkAreas
<1>2. /\ UNCHANGED <<article, graph, tree, moved>> /\ Articles' = Articles
      /\ work'.added = work.added /\ work'.changed = work.changed /\ work'.lookup = l
  BY <1>1 DEF XoverRef, Articles, HasArticle, Inv, Types, WorkAreas
<1>3. Types'
  <2>1. work \in WorkAreas
    BY DEF Inv, Types
  <2>2. PICK k \in Nat : k = work.refs + 1
    BY <2>1 DEF WorkAreas
  <2>3. [work EXCEPT !.refs = k, !.lookup = l] \in WorkAreas
    BY <2>1 DEF WorkAreas
  <2>4. work' = [work EXCEPT !.refs = k, !.lookup = l]
    BY <1>1, <2>2
  <2> QED
    BY <1>2, <2>3, <2>4 DEF Inv, Types
<1>4. Indexed'
  BY <1>1, <1>2 DEF Inv, Indexed
<1>5. PartsTogether' /\ Forest(graph)' /\ TreeRight'
  BY <1>2 DEF Inv, PartsTogether, TreeRight, SettledNodes, Settled
<1>6. Shown'
  BY <1>2 DEF Inv, Shown, ShownMatches, Pending, Matches
<1> QED
  BY <1>3, <1>4, <1>5, <1>6 DEF Inv

\* What a flush leaves, in a tree that is open.
LEMMA FlushedShown ==
  ASSUME NEW x, NEW art, NEW mids, NEW has, has = HasArticle(art),
         tree.open => Looked(tree, x, art, mids), ~tree.open => x = tree,
         tree \in Trees, Filters, tree.open => tree.nodes \subseteq Articles,
         ~tree.open => tree.nodes = {},
         Articles \subseteq has, has \subseteq Articles \cup mids,
         Pending \subseteq mids, ShownMatches,
         \A m \in MID \ mids : art[m] = article[m]
  PROVE  /\ x.nodes \subseteq has
         /\ x.open => \A m \in has : Matches(x, art, m) => m \in x.nodes
         /\ x.open /\ x.view[2] = "ARTICLES" => \A m \in x.nodes : Matches(x, art, m)
<1>1. CASE ~tree.open
  BY <1>1
<1>2. CASE tree.open
  <2>1. Looked(tree, x, art, mids) /\ x.view = tree.view
    BY <1>2 DEF Looked
  <2>2. \A m : Matches(x, art, m) <=> Matches(tree, art, m)
    BY <2>1 DEF Matches
  <2>3. \A m \in MID \ mids : Matches(tree, art, m) <=> Matches(tree, article, m)
    BY DEF Matches
  <2>4. tree.view \in Views /\ tree.nodes \in SUBSET MID /\ Articles \in SUBSET MID
    BY DEF Trees, Articles, HasArticle
  <2>5. tree.view[1] # "none"
    BY <2>4 DEF Views, Filters, Closed
  <2>6. x.nodes \subseteq has
    BY <1>2, <2>1, <2>5 DEF Looked
  <2>7. ASSUME NEW m \in has, Matches(x, art, m) PROVE m \in x.nodes
    <3>1. CASE m \in mids
      BY <2>1, <2>2, <2>7, <3>1 DEF Looked
    <3>2. CASE m \notin mids
      <4>1. m \in Articles \ Pending /\ Matches(tree, article, m)
        BY <2>2, <2>3, <2>4, <2>7, <3>2
      <4>2. m \in tree.nodes
        BY <1>2, <4>1 DEF ShownMatches
      <4> QED
        BY <2>1, <2>2, <2>7, <4>2 DEF Looked
    <3> QED
      BY <3>1, <3>2
  <2>8. ASSUME x.view[2] = "ARTICLES", NEW m \in x.nodes PROVE Matches(x, art, m)
    <3>1. m \in has
      BY <2>6
    <3>2. CASE m \in mids
      BY <2>1, <2>2, <2>8, <3>1, <3>2 DEF Looked
    <3>3. CASE m \notin mids
      <4>1. m \in tree.nodes \ Pending
        BY <2>1, <2>8, <3>3 DEF Looked
      <4>2. Matches(tree, article, m)
        BY <1>2, <2>1, <2>8, <4>1 DEF ShownMatches
      <4> QED
        BY <2>2, <2>3, <2>4, <3>3, <4>1, <4>2
    <3> QED
      BY <3>2, <3>3
  <2> QED
    BY <2>6, <2>7, <2>8
<1> QED
  BY <1>1, <1>2

LEMMA XoverUnrefInv ==
  ASSUME Inv, XoverUnref
  PROVE  Inv'
<1>1. /\ UNCHANGED <<article, graph, moved>> /\ Articles' = Articles
      /\ work.refs > 0 /\ work.refs \in Nat
  BY DEF XoverUnref, Articles, HasArticle, Inv, Types, WorkAreas
<1>2. PartsTogether' /\ Forest(graph)' /\ SettledNodes' = SettledNodes
  BY <1>1 DEF Inv, PartsTogether, SettledNodes, Settled
<1>3. CASE work.refs > 1
  <2>1. work' = [work EXCEPT !.refs = @ - 1] /\ tree' = tree
    BY <1>3 DEF XoverUnref
  <2>2. /\ work'.added = work.added /\ work'.changed = work.changed
        /\ work'.lookup = work.lookup /\ work'.refs \in Nat
    BY <1>1, <1>3, <2>1 DEF Inv, Types, WorkAreas
  <2>3. Types'
    BY <1>1, <1>3, <2>1 DEF Inv, Types, WorkAreas
  <2>4. Indexed'
    BY <1>1, <2>2 DEF Inv, Indexed
  <2>5. TreeRight'
    BY <1>1, <1>2, <2>1 DEF Inv, TreeRight
  <2>6. Shown'
    BY <1>1, <2>1, <2>2 DEF Inv, Shown, ShownMatches, Pending, Matches
  <2> QED
    BY <1>2, <2>3, <2>4, <2>5, <2>6 DEF Inv
<1>4. CASE ~(work.refs > 1)
  <2>1. work' = NoWork /\ tree' = Flushed(tree, article, graph, work.added, work.changed)
    BY <1>4 DEF XoverUnref
  <2>2. work'.refs = 0 /\ work'.lookup = {} /\ work'.added = {} /\ work'.changed = {}
    BY <2>1 DEF NoWork
  <2>3. Types' /\ Indexed'
    BY <1>1, <2>1, <2>2 DEF Inv, Types, Indexed, NoWork, WorkAreas
  <2>4. /\ Whole(graph, SettledNodes) /\ work.added \in SUBSET MID
        /\ work.changed \in SUBSET MID /\ article \in Parts
        /\ TreeSound(tree, graph, SettledNodes) /\ Forest(graph)
    BY GraphWhole DEF Inv, Types, TreeRight, WorkAreas
  <2>5. /\ TreeSound(tree', graph, SettledNodes) /\ (~tree.open => tree' = tree)
        /\ tree.open => Looked(tree, tree', article, Pending)
    BY <2>1, <2>4, FlushLooks DEF Pending
  <2>6. TreeRight'
    BY <1>1, <1>2, <2>5 DEF Inv, TreeRight, Looked
  <2>7. ASSUME Filters PROVE ShownMatches' /\ (tree.nodes \subseteq Articles)'
    <3>1. /\ tree \in Trees /\ tree.nodes \subseteq Articles /\ ShownMatches
          /\ ~tree.open => tree.nodes = {}
      BY <2>7 DEF Inv, Shown, TreeRight, TreeSound, Closed
    <3>2. Articles = HasArticle(article) /\ Pending \subseteq Pending
      BY DEF Articles
    <3>3. /\ tree'.nodes \subseteq Articles
          /\ tree'.open => \A m \in Articles : Matches(tree', article, m) => m \in tree'.nodes
          /\ tree'.open /\ tree'.view[2] = "ARTICLES" =>
               \A m \in tree'.nodes : Matches(tree', article, m)
      BY <2>5, <2>7, <3>1, <3>2, FlushedShown
    <3>4. article' = article /\ Articles' = Articles
      BY <1>1
    <3>5. \A m : Matches(tree', article', m) <=> Matches(tree', article, m)
      BY <3>4 DEF Matches
    <3>6. ShownMatches'
      <4>1. ASSUME tree'.open, NEW m \in Articles' \ Pending', Matches(tree', article', m)
            PROVE  m \in tree'.nodes
        BY <3>3, <3>4, <3>5, <4>1
      <4>2. ASSUME tree'.open, tree'.view[2] = "ARTICLES", NEW m \in tree'.nodes
            PROVE  Matches(tree', article', m)
        BY <3>3, <3>4, <3>5, <4>2
      <4> QED
        BY <4>1, <4>2 DEF ShownMatches
    <3> QED
      BY <3>3, <3>4, <3>6
  <2> QED
    BY <1>2, <2>3, <2>6, <2>7 DEF Inv, Shown
<1> QED
  BY <1>3, <1>4

\* In a graph where only the nodes of mv have moved, the others hang as they
\* did.
LEMMA MovedPlaced ==
  ASSUME NEW g, Forest(g), Forest(graph), tree \in Trees,
         TreeSound(tree, graph, SettledNodes), NEW mv,
         moved \cup {n \in MID : Moves(g, n)} \subseteq mv,
         NEW S, S = {n \in MID : ({n} \cup Ancestors(g.parent, n)) \cap mv = {}}
  PROVE  TreeSound(tree, g, S)
<1>1. /\ g.parent \in Parents /\ graph.parent \in Parents /\ Acyclic(g.parent)
      /\ tree.nodes \in SUBSET MID
  BY DEF Forest, Graphs, Trees
<1> SUFFICES ASSUME NEW n \in tree.nodes \cap S
             PROVE  tree.parent[n] = Closest(g.parent, n, tree.nodes)
  BY DEF TreeSound, Placed
<1>2. n \in MID /\ ({n} \cup Ancestors(g.parent, n)) \cap mv = {}
  OBVIOUS
<1> DEFINE Z == {k \in Ancestors(g.parent, n) : g.parent[k] = graph.parent[k]}
<1>3. /\ Ancestors(g.parent, n) \in SUBSET MID
      /\ g.parent[n] # None => g.parent[n] \in Ancestors(g.parent, n)
      /\ Up(g.parent, Ancestors(g.parent, n))
  BY <1>1, <1>2, AncestorsAre
<1>4. g.parent[n] = graph.parent[n]
  BY <1>2 DEF Moves
<1>5. ASSUME NEW k \in MID, g.parent[k] = graph.parent[k], g.parent[k] # None,
             g.parent[k] \in Ancestors(g.parent, n)
      PROVE  g.parent[k] \in Z
  <2>1. PICK a \in MID : a = g.parent[k] /\ a = graph.parent[k]
    BY <1>3, <1>5
  <2>2. k \in graph.kids[a]
    BY <2>1 DEF Forest, Linked
  <2>3. a \notin mv
    BY <1>2, <1>5, <2>1
  <2>4. g.parent[a] = graph.parent[a]
    BY <2>2, <2>3 DEF Moves
  <2> QED
    BY <1>5, <2>1, <2>4
<1>6. Up(g.parent, Z)
  <2> SUFFICES ASSUME NEW k \in Z, g.parent[k] # None PROVE g.parent[k] \in Z
    BY DEF Up
  <2>1. g.parent[k] \in Ancestors(g.parent, n) /\ k \in MID
    BY <1>3 DEF Up
  <2> QED
    BY <1>5, <2>1
<1>7. g.parent[n] # None => g.parent[n] \in Z
  BY <1>2, <1>3, <1>4, <1>5
<1>8. Z \in SUBSET MID
  BY <1>3
<1>9. Ancestors(g.parent, n) \subseteq Z
  <2> HIDE DEF Z
  <2> QED
    BY <1>1, <1>2, <1>6, <1>7, <1>8, AncestorsLeast
<1>10. \A k \in {n} \cup Ancestors(g.parent, n) : g.parent[k] = graph.parent[k]
  BY <1>4, <1>9
<1>11. ASSUME NEW k \in {n} \cup Ancestors(g.parent, n)
       PROVE  Ancestors(g.parent, k) = Ancestors(graph.parent, k)
  <2>1. k \in MID /\ Ancestors(g.parent, k) \subseteq Ancestors(g.parent, n)
    BY <1>1, <1>2, <1>3, AncestorsStep
  <2>2. \A j \in {k} \cup Ancestors(g.parent, k) : g.parent[j] = graph.parent[j]
    BY <1>10, <2>1
  <2> QED
    BY <1>1, <2>1, <2>2, AncestorsSame
<1>12. n \in SettledNodes
  BY <1>2, <1>11 DEF SettledNodes, Settled
<1>13. IsClosest(graph.parent, n, tree.nodes, tree.parent[n])
  <2>1. tree.parent[n] = Closest(graph.parent, n, tree.nodes)
    BY <1>12 DEF TreeSound, Placed
  <2> QED
    BY <1>1, <1>2, <2>1, ClosestIs
<1>14. IsClosest(g.parent, n, tree.nodes, tree.parent[n])
  <2>1. Ancestors(g.parent, n) = Ancestors(graph.parent, n)
    BY <1>11
  <2>2. tree.parent[n] \in Ancestors(g.parent, n)
          => Ancestors(g.parent, tree.parent[n]) = Ancestors(graph.parent, tree.parent[n])
    BY <1>11
  <2> QED
    BY <1>13, <2>1, <2>2 DEF IsClosest
<1> QED
  BY <1>1, <1>2, <1>14, ClosestIs, ClosestUnique

LEMMA XoverAddInv ==
  ASSUME Inv, NEW m \in MID, NEW flush \in BOOLEAN, NEW refs \in REFS[m],
         XoverAdd(m, refs, flush)
  PROVE  Inv'
<1> DEFINE isNew == Gathered(m) = {} /\ article[m] = {}
           a == IF Gathered(m) = {} THEN m ELSE Min(Gathered(m))
           art == [article EXCEPT ![a] = @ \cup {m}]
           g == IF isNew THEN Thread(graph, m, refs) ELSE graph
           added == work.added \cup IF isNew THEN {m} ELSE {}
           changed == work.changed \cup IF a \in added THEN {} ELSE {a}
           lookup == work.lookup \cup {c \in {a} : PARTS[Post[c]] > 1}
<1>1. /\ article \in Parts /\ work \in WorkAreas /\ moved \in SUBSET MID
      /\ tree \in Trees /\ Forest(graph) /\ Articles \in SUBSET MID
      /\ TreeSound(tree, graph, SettledNodes)
      /\ MID \in SUBSET Nat
  BY Sizes DEF Inv, Types, TreeRight, TreeSound, Articles, HasArticle
<1>2. a \in MID /\ (Gathered(m) # {} => a \in Gathered(m))
  <2>1. CASE Gathered(m) # {}
    <3>1. Gathered(m) \in SUBSET Nat /\ Gathered(m) \subseteq MID
      BY <1>1 DEF Gathered
    <3>2. Min(Gathered(m)) \in Gathered(m)
      <4>1. \E x \in Gathered(m) : \A y \in Gathered(m) : x <= y
        BY <2>1, <3>1, Smallest
      <4> QED
        BY <4>1 DEF Min
    <3> QED
      BY <2>1, <3>1, <3>2
  <2> QED
    BY <2>1
<1>3. /\ work.refs > 0 /\ article' = art /\ graph' = g
      /\ moved' = IF tree.open THEN moved \cup {n \in MID : Moves(g, n)} ELSE {}
      /\ tree' = IF flush THEN Flushed(tree, art, g, added, changed) ELSE tree
      /\ work' = [work EXCEPT !.flushed = TRUE, !.lookup = lookup,
                              !.added = IF flush THEN {} ELSE added,
                              !.changed = IF flush THEN {} ELSE changed]
  BY Zenon DEF XoverAdd
<1>4. isNew => a = m
  OBVIOUS
<1>5. /\ Pending \subseteq added \cup changed /\ a \in added \cup changed
      /\ added \in SUBSET MID /\ changed \in SUBSET MID
  BY <1>1, <1>2 DEF Pending, WorkAreas
<1>6. lookup \in SUBSET MID /\ work.lookup \subseteq lookup
      /\ (PARTS[Post[a]] > 1 => a \in lookup)
      /\ \A c \in lookup : c \in work.lookup \/ (c = a /\ PARTS[Post[a]] > 1)
  BY <1>1, <1>2 DEF WorkAreas
<1>7. art \in Parts /\ \A n \in MID : art[n] = IF n = a THEN article[a] \cup {m} ELSE article[n]
  BY <1>1, <1>2 DEF Parts
<1>8. Articles' = Articles \cup {a} /\ HasArticle(art) = Articles \cup {a}
  <2> HIDE DEF art, a
  <2> QED
    BY <1>2, <1>3, <1>7 DEF Articles, HasArticle
<1>9. Forest(g)
  <2>1. refs \in Seq(MID)
    BY HeadersAssumption
  <2> QED
    BY <1>1, <2>1, ThreadForest
<1> HIDE DEF isNew, a, art, g, lookup
<1>10. PICK ad \in SUBSET MID, ch \in SUBSET MID :
         /\ ad = IF flush THEN {} ELSE added
         /\ ch = IF flush THEN {} ELSE changed
  BY <1>5
<1>11. /\ work' \in WorkAreas /\ work'.refs = work.refs /\ work'.lookup = lookup
       /\ work'.added = ad /\ work'.changed = ch
  BY <1>1, <1>3, <1>6, <1>10 DEF WorkAreas
<1>12. Types'
  <2>1. moved' \in SUBSET MID
    BY <1>1, <1>3
  <2> QED
    BY <1>3, <1>7, <1>11, <2>1 DEF Types
<1>13. Indexed'
  <2>1. ASSUME NEW c \in Articles', PARTS[Post[c]] > 1 PROVE c \in work'.lookup
    <3>1. c \in Articles => c \in work.lookup
      BY <1>3, <2>1 DEF Inv, Indexed
    <3> QED
      BY <1>6, <1>8, <1>11, <2>1, <3>1
  <2>2. ASSUME NEW c \in work'.lookup PROVE PARTS[Post[c]] > 1
    BY <1>6, <1>11 DEF Inv, Indexed
  <2> QED
    BY <2>1, <2>2 DEF Indexed
<1>14. PartsTogether'
  <2>1. ASSUME NEW c \in Articles, c # a, Post[c] = Post[a]
        PROVE  PARTS[Post[c]] = 1
    <3>1. CASE a \in Articles
      BY <2>1, <3>1 DEF Inv, PartsTogether
    <3>2. CASE a \notin Articles
      <4>1. a = m /\ Gathered(m) = {}
        BY <1>2, <3>2 DEF Gathered, a
      <4>2. c \notin work.lookup
        BY <2>1, <4>1 DEF Gathered
      <4>3. ~(PARTS[Post[c]] > 1)
        BY <1>3, <4>2 DEF Inv, Indexed
      <4>4. PARTS[Post[c]] \in Nat \ {0}
        BY <1>1, HeadersAssumption
      <4> QED
        BY <4>3, <4>4
    <3> QED
      BY <3>1, <3>2
  <2> SUFFICES ASSUME NEW x \in Articles', NEW y \in Articles', x # y, Post[x] = Post[y]
               PROVE  PARTS[Post[x]] = 1
    BY DEF PartsTogether
  <2>2. CASE x \in Articles /\ y \in Articles
    BY <2>2 DEF Inv, PartsTogether
  <2>3. CASE x = a \/ y = a
    BY <1>8, <2>1, <2>3
  <2> QED
    BY <1>8, <2>2, <2>3
<1>15. TreeSound(tree, g, SettledNodes')
  <2>1. SettledNodes' = {n \in MID : ({n} \cup Ancestors(g.parent, n)) \cap moved' = {}}
    BY <1>3 DEF SettledNodes, Settled
  <2>2. CASE tree.open
    <3>1. moved \cup {n \in MID : Moves(g, n)} \subseteq moved'
      BY <1>3, <2>2
    <3> QED
      BY <1>1, <1>9, <2>1, <3>1, MovedPlaced
  <2>3. CASE ~tree.open
    BY <2>3, ClosedSound DEF Inv, TreeRight
  <2> QED
    BY <2>2, <2>3
<1>16. Whole(g, SettledNodes')
  <2>1. SettledNodes' = {n \in MID : ({n} \cup Ancestors(g.parent, n)) \cap moved' = {}}
    BY <1>3 DEF SettledNodes, Settled
  <2> QED
    BY <1>9, <2>1, SettledWhole
<1>17. flush => /\ TreeSound(tree', g, SettledNodes')
                /\ ~tree.open => tree' = tree
                /\ tree.open => Looked(tree, tree', art, added \cup changed)
  BY <1>3, <1>5, <1>7, <1>9, <1>15, <1>16, FlushLooks
<1>18. TreeRight'
  <2>1. tree'.open = tree.open /\ (~tree.open => tree' = tree)
    BY <1>3, <1>17 DEF Looked
  <2>2. TreeSound(tree', graph', SettledNodes')
    BY <1>3, <1>15, <1>17
  <2> QED
    BY <2>1, <2>2 DEF Inv, TreeRight
<1> HIDE DEF added, changed
<1>19. ASSUME Filters PROVE ShownMatches' /\ (tree.nodes \subseteq Articles)'
  <2>1. /\ tree.nodes \subseteq Articles /\ ShownMatches
        /\ ~tree.open => tree.nodes = {}
    BY <1>19 DEF Inv, Shown, TreeRight, TreeSound, Closed
  <2>2. \A n : Matches(tree', article', n) <=> Matches(tree', art, n)
    BY <1>3 DEF Matches
  <2>3. CASE flush
    <3>1. PICK mids : mids = added \cup changed
      OBVIOUS
    <3>2. \A n \in MID \ mids : art[n] = article[n]
      BY <1>5, <1>7, <3>1
    <3>3. /\ tree.open => Looked(tree, tree', art, mids)
          /\ ~tree.open => tree' = tree
      BY <1>17, <2>3, <3>1
    <3>4. PICK has : has = HasArticle(art)
      OBVIOUS
    <3>5. Articles \subseteq has /\ has \subseteq Articles \cup mids /\ Pending \subseteq mids
          /\ has = Articles'
      BY <1>5, <1>8, <3>1, <3>4
    <3>6. /\ tree'.nodes \subseteq has
          /\ tree'.open => \A n \in has : Matches(tree', art, n) => n \in tree'.nodes
          /\ tree'.open /\ tree'.view[2] = "ARTICLES" => \A n \in tree'.nodes : Matches(tree', art, n)
      BY <1>1, <1>19, <2>1, <3>2, <3>3, <3>4, <3>5, FlushedShown
    <3>7. ShownMatches'
      <4>1. ASSUME tree'.open, NEW n \in Articles' \ Pending', Matches(tree', article', n)
            PROVE  n \in tree'.nodes
        BY <2>2, <3>5, <3>6, <4>1
      <4>2. ASSUME tree'.open, tree'.view[2] = "ARTICLES", NEW n \in tree'.nodes
            PROVE  Matches(tree', article', n)
        BY <2>2, <3>6, <4>2
      <4> QED
        BY <4>1, <4>2 DEF ShownMatches
    <3> QED
      BY <3>5, <3>6, <3>7
  <2>4. CASE ~flush
    <3>1. tree' = tree /\ Pending' = added \cup changed
      BY <1>3, <1>10, <1>11, <2>4 DEF Pending
    <3>2. \A n \in MID \ {a} : Matches(tree', article', n) <=> Matches(tree, article, n)
      BY <1>3, <1>7, <3>1 DEF Matches
    <3>3. ShownMatches'
      <4>1. ASSUME tree'.open, NEW n \in Articles' \ Pending', Matches(tree', article', n)
            PROVE  n \in tree'.nodes
        <5>1. n \in Articles \ Pending /\ n # a /\ n \in MID
          BY <1>1, <1>5, <1>8, <3>1
        <5>2. Matches(tree, article, n)
          BY <3>2, <4>1, <5>1
        <5>3. n \in tree.nodes
          BY <2>1, <3>1, <4>1, <5>1, <5>2 DEF ShownMatches
        <5> QED
          BY <3>1, <5>3
      <4>2. ASSUME tree'.open, tree'.view[2] = "ARTICLES", NEW n \in tree'.nodes \ Pending'
            PROVE  Matches(tree', article', n)
        <5>1. n \in tree.nodes \ Pending /\ n # a /\ n \in MID
          BY <1>1, <1>5, <2>1, <3>1
        <5>2. Matches(tree, article, n)
          BY <2>1, <3>1, <4>2, <5>1 DEF ShownMatches
        <5> QED
          BY <3>2, <5>1, <5>2
      <4> QED
        BY <4>1, <4>2 DEF ShownMatches
    <3> QED
      BY <1>8, <2>1, <3>1, <3>3
  <2> QED
    BY <2>3, <2>4
<1> QED
  BY <1>3, <1>9, <1>12, <1>13, <1>14, <1>18, <1>19 DEF Inv, Shown

----------------------------------------------------------------------------
(* The user.                                                               *)

\* Another look at all the articles.
LEMMA LookAgain ==
  ASSUME Inv, NEW t, TreeSound(t, graph, SettledNodes'), t.open,
         Filters => t.nodes \subseteq Articles, Forest(graph), t.view \in VIEWS,
         UNCHANGED <<article, graph, work>>,
         Whole(graph, SettledNodes'), moved' \in SUBSET MID,
         tree' = ApplyFilter(t, article, graph, Articles)
  PROVE  Inv'
<1>1. Articles \in SUBSET MID /\ article \in Parts /\ Articles' = Articles
      /\ HasArticle(article) = Articles
  BY DEF Inv, Types, Articles, HasArticle
<1>2. /\ TreeSound(tree', graph, SettledNodes')
      /\ Looked(t, tree', article, Articles)
  BY <1>1, FilterLooks
<1>3. tree'.open /\ tree'.view = t.view
  BY <1>2 DEF Looked
<1>4. Types' /\ Indexed' /\ PartsTogether' /\ Forest(graph)' /\ TreeRight'
  BY <1>1, <1>2, <1>3 DEF Inv, Types, Indexed, PartsTogether, TreeRight
<1>5. ASSUME Filters PROVE ShownMatches' /\ (tree.nodes \subseteq Articles)'
  <2>1. t.view[1] # "none"
    BY <1>5 DEF Filters
  <2>2. tree'.nodes \subseteq Articles
    BY <1>1, <1>2, <1>5, <2>1 DEF Looked
  <2>3. \A n : Matches(tree', article', n) <=> Matches(t, article, n)
    BY <1>3 DEF Matches
  <2>4. ASSUME NEW n \in Articles' \ Pending', Matches(tree', article', n)
        PROVE  n \in tree'.nodes
    BY <1>1, <1>2, <2>3, <2>4 DEF Looked
  <2>5. ASSUME tree'.view[2] = "ARTICLES", NEW n \in tree'.nodes
        PROVE  Matches(tree', article', n)
    BY <1>1, <1>2, <1>3, <2>2, <2>3, <2>5 DEF Looked
  <2>6. ShownMatches'
    BY <2>4, <2>5 DEF ShownMatches
  <2> QED
    BY <1>1, <2>2, <2>6
<1> QED
  BY <1>4, <1>5 DEF Inv, Shown

LEMMA OpenInv ==
  ASSUME Inv, NEW view \in VIEWS, Open(view)
  PROVE  Inv'
<1> DEFINE t == [Closed EXCEPT !.open = TRUE, !.view = view]
<1>1. /\ UNCHANGED <<article, graph, work>> /\ moved' = {} /\ Forest(graph)
      /\ tree' = ApplyFilter(t, article, graph, Articles)
  BY DEF Open, Inv
<1>2. TreeSound(Closed, graph, SettledNodes') /\ Closed.nodes = {}
  BY ClosedSound DEF Closed
<1>3. /\ t \in Trees /\ t.open /\ t.view = view /\ t.nodes = {}
      /\ t.parent = Closed.parent /\ t.kids = Closed.kids
  BY <1>2 DEF TreeSound, Trees, Closed, Views
<1> HIDE DEF t
<1>4. TreeSound(t, graph, SettledNodes')
  BY <1>2, <1>3 DEF TreeSound, Linked, Placed
<1>5. SettledNodes' = {n \in MID : ({n} \cup Ancestors(graph.parent, n)) \cap moved' = {}}
  BY <1>1 DEF SettledNodes, Settled
<1>6. Whole(graph, SettledNodes')
  BY <1>1, <1>5, SettledWhole
<1> QED
  BY <1>1, <1>3, <1>4, <1>6, LookAgain

LEMMA SetFilterInv ==
  ASSUME Inv, NEW view \in VIEWS, SetFilter(view)
  PROVE  Inv'
<1> DEFINE t == [tree EXCEPT !.view = view]
<1>1. /\ UNCHANGED <<article, graph, work, moved>> /\ Forest(graph) /\ tree.open
      /\ tree' = ApplyFilter(t, article, graph, Articles)
  BY DEF SetFilter, Inv
<1>2. TreeSound(tree, graph, SettledNodes) /\ SettledNodes' = SettledNodes
  BY <1>1 DEF Inv, TreeRight, SettledNodes, Settled
<1>3. /\ t \in Trees /\ t.open /\ t.view = view /\ t.nodes = tree.nodes
      /\ t.parent = tree.parent /\ t.kids = tree.kids
  BY <1>1, <1>2 DEF TreeSound, Trees, Views
<1> HIDE DEF t
<1>4. TreeSound(t, graph, SettledNodes')
  BY <1>2, <1>3 DEF TreeSound, Linked, Placed
<1>5. Whole(graph, SettledNodes') /\ moved' \in SUBSET MID
  BY <1>1, <1>2, GraphWhole DEF Inv, Types
<1>6. Filters => t.nodes \subseteq Articles
  BY <1>3 DEF Inv, Shown
<1> QED
  BY <1>1, <1>3, <1>4, <1>5, <1>6, LookAgain

LEMMA CloseInv ==
  ASSUME Inv, Close
  PROVE  Inv'
<1>1. UNCHANGED <<article, graph, work>> /\ tree' = Closed /\ moved' = {}
      /\ Articles' = Articles
  BY DEF Close, Articles, HasArticle
<1>2. Types' /\ Indexed' /\ PartsTogether' /\ Forest(graph)'
  BY <1>1 DEF Inv, Types, Indexed, PartsTogether
<1>3. TreeRight'
  BY <1>1, ClosedSound DEF TreeRight
<1>4. Shown'
  BY <1>1 DEF Shown, ShownMatches, Closed
<1> QED
  BY <1>2, <1>3, <1>4 DEF Inv

LEMMA DeleteInv ==
  ASSUME Inv, NEW S \in SUBSET MID, DeleteArticles(S)
  PROVE  Inv'
<1>1. /\ article' = [m \in MID |-> IF m \in S THEN {} ELSE article[m]]
      /\ tree' = IF tree.open THEN TreeRemove(tree, S) ELSE tree
      /\ UNCHANGED <<graph, work, moved>>
  BY DEF DeleteArticles
<1>2. /\ article \in Parts /\ Forest(graph) /\ TreeSound(tree, graph, SettledNodes)
      /\ Whole(graph, SettledNodes)
  BY GraphWhole DEF Inv, Types, TreeRight
<1>3. Articles' = Articles \ S /\ Articles \in SUBSET MID
  BY <1>1 DEF Articles, HasArticle
<1>4. article' \in Parts /\ Types'
  BY <1>1, <1>2 DEF Inv, Types, Parts
<1>5. Indexed' /\ PartsTogether' /\ Forest(graph)' /\ SettledNodes' = SettledNodes
  BY <1>1, <1>3 DEF Inv, Indexed, PartsTogether, SettledNodes, Settled
<1>6. /\ TreeSound(TreeRemove(tree, S), graph, SettledNodes)
      /\ TreeRemove(tree, S).nodes = tree.nodes \ S
      /\ TreeRemove(tree, S).open = tree.open /\ TreeRemove(tree, S).view = tree.view
  BY <1>2, TreeRemoveSound
<1>7. /\ TreeSound(tree', graph, SettledNodes) /\ tree'.open = tree.open
      /\ tree'.view = tree.view /\ (tree.open => tree'.nodes = tree.nodes \ S)
      /\ ~tree.open => tree' = tree
  BY <1>1, <1>2, <1>6
<1>8. TreeRight'
  BY <1>1, <1>5, <1>7 DEF Inv, TreeRight
<1>9. ASSUME Filters PROVE ShownMatches' /\ (tree.nodes \subseteq Articles)'
  <2>1. ShownMatches /\ tree.nodes \subseteq Articles /\ (~tree.open => tree.nodes = {})
    BY <1>9 DEF Inv, Shown, TreeRight, Closed
  <2>2. \A n \in MID \ S : Matches(tree', article', n) <=> Matches(tree, article, n)
    BY <1>1, <1>7 DEF Matches
  <2>3. Pending' = Pending
    BY <1>1 DEF Pending
  <2>4. ASSUME tree'.open, NEW n \in Articles' \ Pending', Matches(tree', article', n)
        PROVE  n \in tree'.nodes
    <3>1. n \in Articles \ Pending /\ n \notin S /\ n \in MID
      BY <1>3, <2>3
    <3>2. Matches(tree, article, n)
      BY <2>2, <2>4, <3>1
    <3> QED
      BY <1>7, <2>1, <2>4, <3>1, <3>2 DEF ShownMatches
  <2>5. ASSUME tree'.open, tree'.view[2] = "ARTICLES", NEW n \in tree'.nodes \ Pending'
        PROVE  Matches(tree', article', n)
    <3>1. n \in tree.nodes \ Pending /\ n \notin S /\ n \in MID
      BY <1>3, <1>7, <2>1, <2>3, <2>5
    <3>2. Matches(tree, article, n)
      BY <1>7, <2>1, <2>5, <3>1 DEF ShownMatches
    <3> QED
      BY <2>2, <3>1, <3>2
  <2>6. ShownMatches'
    BY <2>4, <2>5 DEF ShownMatches
  <2> QED
    BY <1>3, <1>7, <2>1, <2>6
<1> QED
  BY <1>4, <1>5, <1>8, <1>9 DEF Inv, Shown

----------------------------------------------------------------------------
(* Saving and loading.                                                     *)

\* A graph that has some of the group's links.
Partial(h) == Forest(h) /\ \A k \in MID : h.parent[k] \in {None, graph.parent[k]}

\* y has the links of x.
Extends(x, y) ==
  \A k \in MID : x.parent[k] = graph.parent[k] => y.parent[k] = graph.parent[k]

\* With what is above m.
HasThread(x, m) ==
  \A k \in {m} \cup Ancestors(graph.parent, m) : x.parent[k] = graph.parent[k]

LEMMA ReferencesAre ==
  ASSUME Forest(graph), NEW m \in MID
  PROVE  \E l \in Nat, a \in Seq(MID), refs \in Seq(MID) :
           /\ refs = References(m) /\ Len(refs) = l /\ Len(a) = l
           /\ \A i \in 1..l : refs[l - i + 1] = a[i]
           /\ Ancestors(graph.parent, m) = {a[i] : i \in 1..l}
           /\ graph.parent[m] = IF l = 0 THEN None ELSE a[1]
           /\ \A i \in 1..l : graph.parent[a[i]] = IF i = l THEN None ELSE a[i + 1]
<1> DEFINE p == graph.parent
<1>1. p \in Parents /\ Acyclic(p)
  BY DEF Forest, Graphs
<1> HIDE DEF p
<1>2. PICK a \in Seq(MID) :
           /\ a = Above(p, m)
           /\ p[m] = None <=> a = <<>>
           /\ p[m] # None => a # <<>> /\ a[1] = p[m]
           /\ \A j \in 1..(Len(a) - 1) : a[j + 1] = p[a[j]]
           /\ \A j \in 1..Len(a) : p[a[j]] # None =>
                                     \E k \in 1..Len(a) : a[k] = p[a[j]]
  BY <1>1, AboveIs
<1>3. PICK l \in Nat : l = Len(a) /\ \A j \in 1..l : a[j] \in MID
  OBVIOUS
<1>4. Ancestors(p, m) = {a[i] : i \in 1..l}
  BY <1>2, <1>3 DEF Ancestors, ToSet
<1>5. p[m] = IF l = 0 THEN None ELSE a[1]
  <2>1. a = <<>> <=> l = 0
    BY <1>3
  <2> QED
    BY <1>2, <2>1
<1>6. l # 0 => p[a[l]] = None
  <2> SUFFICES ASSUME l # 0 PROVE p[a[l]] = None
    OBVIOUS
  <2>1. Ancestors(p, m) \in SUBSET MID /\ Ancestors(p, m) # {} /\ Up(p, Ancestors(p, m))
    <3>1. 1 \in 1..l /\ a[1] \in Ancestors(p, m)
      BY <1>4
    <3>2. Ancestors(p, m) \in SUBSET MID /\ Up(p, Ancestors(p, m))
      BY <1>1, AncestorsAre
    <3> QED
      BY <3>1, <3>2
  <2>2. PICK x \in Ancestors(p, m) : Ancestors(p, x) \cap Ancestors(p, m) = {}
    BY <1>1, <2>1, Highest
  <2>3. p[x] = None
    <3>1. x \in MID
      BY <2>1
    <3>2. p[x] # None => p[x] \in Ancestors(p, x) /\ p[x] \in Ancestors(p, m)
      BY <1>1, <2>1, <3>1, AncestorsAre DEF Up
    <3> QED
      BY <2>2, <3>2
  <2>4. PICK j \in 1..l : x = a[j]
    BY <1>4
  <2>5. j = l
    <3>1. ASSUME j # l PROVE FALSE
      <4>1. j \in 1..(Len(a) - 1) /\ j + 1 \in 1..l
        BY <1>3, <3>1
      <4>2. a[j + 1] = p[x] /\ a[j + 1] \in MID
        BY <1>2, <1>3, <2>4, <4>1
      <4> QED
        BY <2>3, <4>2, Sizes
    <3> QED
      BY <3>1
  <2> QED
    BY <2>3, <2>4, <2>5
<1>7. \A i \in 1..l : p[a[i]] = IF i = l THEN None ELSE a[i + 1]
  <2> TAKE i \in 1..l
  <2>1. CASE i = l
    BY <1>6, <2>1
  <2>2. CASE i # l
    <3>1. i \in 1..(Len(a) - 1)
      BY <1>3, <2>2
    <3> QED
      BY <1>2, <2>2, <3>1
  <2> QED
    BY <2>1, <2>2
<1>8. PICK refs : refs = Reverse(a)
  OBVIOUS
<1>9. refs \in [1..l -> MID] /\ \A i \in 1..l : refs[i] = a[l - i + 1]
  BY <1>3, <1>8 DEF Reverse
<1>10. refs \in Seq(MID) /\ Len(refs) = l
  BY <1>9
<1>11. \A i \in 1..l : refs[l - i + 1] = a[i]
  <2> TAKE i \in 1..l
  <2>1. PICK j \in 1..l : j = l - i + 1 /\ l - j + 1 = i
    OBVIOUS
  <2> QED
    BY <1>9, <2>1
<1>12. refs = References(m)
  BY <1>2, <1>8 DEF References, p
<1> QED
  BY <1>3, <1>4, <1>5, <1>7, <1>10, <1>11, <1>12 DEF p

LEMMA LinkLoads ==
  ASSUME Forest(graph), NEW w, Walk(w), Partial(w.graph), ~w.done,
         NEW new \in MID, new = graph.parent[w.node], NEW before \in Seq(MID)
  PROVE  LET z == Visit(w, new, before)
         IN  /\ Partial(z.graph) /\ Extends(w.graph, z.graph) /\ ~z.done /\ z.node = new
             /\ z.graph.parent[w.node] = new
<1>1. PICK h \in Graphs, node \in MID :
        w = [graph |-> h, node |-> node, done |-> FALSE]
  BY DEF Walk, Walks
<1>2. /\ h.parent \in Parents /\ graph.parent \in Parents /\ Acyclic(graph.parent)
      /\ h.kids \in [MID -> SUBSET MID] /\ Forest(h)
      /\ \A k \in MID : h.parent[k] \in {None, graph.parent[k]}
      /\ new = graph.parent[node]
  BY <1>1 DEF Partial, Graphs, Forest
<1>3. CASE h.parent[node] = None
  <2>1. Visit(w, new, before) = Link(w, new)
    BY <1>1, <1>3 DEF Visit
  <2>2. PICK r \in Parents : r = [h.parent EXCEPT ![node] = new]
    BY <1>2 DEF Parents
  <2>3. \A k \in MID : r[k] = IF k = node THEN new ELSE h.parent[k]
    BY <1>2, <2>2 DEF Parents
  <2>4. \A k \in MID : r[k] \in {None, graph.parent[k]}
    BY <1>2, <2>3
  <2>5. new \notin Ancestors(r, new)
    BY <1>2, <2>4, AncestorsFewer DEF Acyclic
  <2>6. PICK kids \in [MID -> SUBSET MID] : kids = [h.kids EXCEPT ![new] = @ \cup {node}]
    BY <1>2
  <2>7. Link(w, new) = [graph |-> [parent |-> r, kids |-> kids], node |-> new, done |-> FALSE]
    BY <1>1, <2>2, <2>5, <2>6 DEF Link
  <2>8. Forest(Link(w, new).graph)
    <3>1. w.graph.parent[w.node] = None
      BY <1>1, <1>3
    <3>2. Walk(Link(w, new))
      BY <3>1, LinkWalks
    <3> QED
      BY <3>2 DEF Walk
  <2>9. PICK z : /\ z = Visit(w, new, before) /\ z.graph.parent = r /\ z.node = new
                 /\ ~z.done /\ Forest(z.graph)
    BY <2>1, <2>7, <2>8
  <2> QED
    BY <1>1, <1>2, <2>3, <2>4, <2>9 DEF Partial, Extends
<1>4. CASE h.parent[node] # None
  <2>1. h.parent[node] = new
    BY <1>2, <1>4
  <2>2. new \in Ancestors(h.parent, node)
    BY <1>2, <1>4, <2>1, AncestorsAre
  <2>3. Visit(w, new, before) = [w EXCEPT !.node = new]
    BY <1>1, <1>4, <2>2 DEF Visit
  <2>4. PICK z : z = Visit(w, new, before) /\ z.graph = h /\ z.node = new /\ ~z.done
    BY <1>1, <2>3
  <2> QED
    BY <1>1, <2>1, <2>4 DEF Partial, Extends
<1> QED
  BY <1>3, <1>4

LEMMA LoadOne ==
  ASSUME Forest(graph), NEW h, Partial(h), NEW m \in MID
  PROVE  /\ Partial(Thread(h, m, References(m)))
         /\ Extends(h, Thread(h, m, References(m)))
         /\ HasThread(Thread(h, m, References(m)), m)
<1>1. PICK l \in Nat, a \in Seq(MID), refs \in Seq(MID) :
           /\ refs = References(m) /\ Len(refs) = l /\ Len(a) = l
           /\ \A i \in 1..l : refs[l - i + 1] = a[i]
           /\ Ancestors(graph.parent, m) = {a[i] : i \in 1..l}
           /\ graph.parent[m] = IF l = 0 THEN None ELSE a[1]
           /\ \A i \in 1..l : graph.parent[a[i]] = IF i = l THEN None ELSE a[i + 1]
  BY ReferencesAre
<1>2. PICK v : Visits(v, h, m, refs, l)
  BY <1>1, Threading DEF Partial
<1>3. PICK node \in [0..l -> MID] : node = [i \in 0..l |-> IF i = 0 THEN m ELSE a[i]]
  <2>1. \A i \in 0..l : i # 0 => a[i] \in MID
    BY <1>1
  <2> QED
    BY <2>1
<1>4. /\ \A i \in 0..l : graph.parent[node[i]] = IF i = l THEN None ELSE node[i + 1]
      /\ \A i \in 1..l : refs[l - i + 1] = node[i]
      /\ {m} \cup Ancestors(graph.parent, m) = {node[i] : i \in 0..l}
      /\ node[0] = m
  <2>1. /\ node[0] = m /\ \A i \in 1..l : node[i] = a[i]
        /\ \A i \in 0..l : i = 0 \/ i \in 1..l
        /\ \A i \in 0..l : i # l => i + 1 \in 1..l
        /\ l = 0 \/ 1 \in 1..l
    BY <1>3
  <2>2. \A i \in 0..l : graph.parent[node[i]] = IF i = l THEN None ELSE node[i + 1]
    <3> TAKE i \in 0..l
    <3>1. CASE i = 0
      BY <1>1, <2>1, <3>1
    <3>2. CASE i # 0
      BY <1>1, <2>1, <3>2
    <3> QED
      BY <3>1, <3>2
  <2>3. {m} \cup Ancestors(graph.parent, m) = {node[i] : i \in 0..l}
    <3>1. 0 \in 0..l /\ \A i \in 1..l : i \in 0..l
      OBVIOUS
    <3> QED
      BY <1>1, <2>1, <3>1
  <2> QED
    BY <1>1, <2>1, <2>2, <2>3
<1> DEFINE Good(w, i) ==
             /\ Partial(w.graph) /\ Extends(h, w.graph) /\ ~w.done /\ w.node = node[i]
             /\ \A j \in 0..l : j < i => w.graph.parent[node[j]] = graph.parent[node[j]]
           I == {i \in 0..l : Good(v[i], i)}
<1>5. 0 \in I
  <2>1. v[0] = [graph |-> h, node |-> m, done |-> FALSE]
    BY <1>2 DEF Visits
  <2>2. Good(v[0], 0)
    BY <1>4, <2>1 DEF Extends
  <2> HIDE DEF Good
  <2> QED
    BY <2>2
<1>6. ASSUME NEW i \in 1..l, i - 1 \in I PROVE i \in I
  <2>1. PICK b \in 0..l : b = i - 1 /\ i = b + 1 /\ b # l /\ i \in 0..l
    OBVIOUS
  <2>2. Good(v[b], b) /\ Walk(v[b])
    BY <1>2, <1>6, <2>1 DEF Visits
  <2>3. PICK new \in MID, before \in Seq(MID) :
          /\ new = node[i] /\ v[i] = Visit(v[b], new, before)
    <3>1. node[i] \in MID /\ refs[l - i + 1] = node[i]
      BY <1>4, <2>1
    <3>2. SubSeq(refs, 1, l - i) \in Seq(MID)
      <4>1. l - i \in Nat /\ l - i <= Len(refs)
        BY <1>1
      <4> QED
        BY <4>1
    <3>3. v[i] = Visit(v[b], refs[l - i + 1], SubSeq(refs, 1, l - i))
      BY <1>2, <2>1 DEF Visits
    <3> QED
      BY <3>1, <3>2, <3>3
  <2>4. new = graph.parent[v[b].node]
    BY <1>4, <2>1, <2>2, <2>3
  <2>5. /\ Partial(v[i].graph) /\ Extends(v[b].graph, v[i].graph) /\ ~v[i].done
        /\ v[i].node = new /\ v[i].graph.parent[v[b].node] = new
    <3> HIDE DEF Good
    <3>1. Partial(v[b].graph) /\ ~v[b].done
      BY <2>2 DEF Good
    <3> QED
      BY <2>2, <2>3, <2>4, <3>1, LinkLoads
  <2>6. Extends(h, v[i].graph)
    BY <2>2, <2>5 DEF Extends
  <2>7. ASSUME NEW j \in 0..l, j < i
        PROVE  v[i].graph.parent[node[j]] = graph.parent[node[j]]
    <3>1. CASE j = b
      BY <2>2, <2>4, <2>5, <3>1
    <3>2. CASE j # b
      <4>1. j < b /\ node[j] \in MID
        BY <2>1, <2>7, <3>2
      <4> QED
        BY <2>2, <2>5, <4>1 DEF Extends
    <3> QED
      BY <3>1, <3>2
  <2>8. Good(v[i], i)
    BY <2>3, <2>5, <2>6, <2>7
  <2> HIDE DEF Good
  <2> QED
    BY <2>1, <2>8
<1>7. l \in I
  <2>1. \A i \in 0..l : i \in I
    <3> HIDE DEF I
    <3> QED
      BY <1>5, <1>6, UpTo
  <2> QED
    BY <2>1
<1>8. PICK x : x = Thread(h, m, References(m)) /\ x = v[l].graph
  BY <1>1, <1>2 DEF Visits
<1>9. /\ Partial(x) /\ Extends(h, x)
      /\ \A j \in 0..l : j < l => x.parent[node[j]] = graph.parent[node[j]]
  BY <1>7, <1>8
<1>10. \A j \in 0..l : x.parent[node[j]] = graph.parent[node[j]]
  <2> TAKE j \in 0..l
  <2>1. CASE j = l
    BY <1>4, <1>9, <2>1 DEF Partial
  <2>2. CASE j # l
    BY <1>9, <2>2
  <2> QED
    BY <2>1, <2>2
<1> QED
  BY <1>4, <1>8, <1>9, <1>10 DEF HasThread

\* The states of the loop that loads the articles.
Loads(f, mids, l) ==
  /\ f \in [0..l -> {h \in Graphs : Partial(h)}]
  /\ f[0] = Blank /\ Loaded(mids) = f[l]
  /\ \A i \in 1..l : f[i] = Thread(f[i - 1], mids[i], References(mids[i]))

LEMMA Loading ==
  ASSUME Forest(graph), NEW mids \in Seq(MID), NEW l \in Nat, l = Len(mids)
  PROVE  \E f : Loads(f, mids, l)
<1> DEFINE V == {h \in Graphs : Partial(h)}
           Next1(i, h) == Thread(h, mids[i], References(mids[i]))
           G == [x \in (1..l) \X V |-> Next1(x[1], x[2])]
           loaded[i \in 0..Len(mids)] ==
             IF i = 0 THEN Blank
             ELSE Thread(loaded[i - 1], mids[i], References(mids[i]))
<1>1. Blank \in V
  <2>1. \A k \in MID : Blank.parent[k] = None
    BY DEF Blank
  <2> QED
    BY <2>1, BlankForest DEF Partial, Forest
<1>2. ASSUME NEW i \in 1..l, NEW h \in V PROVE Next1(i, h) \in V
  <2>1. mids[i] \in MID
    OBVIOUS
  <2>2. Partial(Next1(i, h))
    BY <2>1, LoadOne
  <2> HIDE DEF Next1
  <2> QED
    BY <2>2 DEF Partial, Forest
<1>3. G \in [(1..l) \X V -> V]
  <2> HIDE DEF V, Next1
  <2> QED
    BY <1>2
<1>4. PICK f \in [0..l -> V] : Loops(f, l, Blank, G)
  <2> HIDE DEF G, V
  <2> QED
    BY <1>1, <1>3, Loop
<1>5. \A i \in 1..l : G[<<i, f[i - 1]>>] = Next1(i, f[i - 1])
  <2> TAKE i \in 1..l
  <2>1. i - 1 \in 0..l
    OBVIOUS
  <2>2. f[i - 1] \in V
    BY <2>1
  <2> HIDE DEF V, Next1
  <2> QED
    BY <2>2
<1>6. f = [i \in 0..l |-> IF i = 0 THEN Blank ELSE Next1(i, f[i - 1])]
  <2>1. \A i \in 0..l : i # 0 => i \in 1..l
    OBVIOUS
  <2> HIDE DEF G, Next1, V
  <2> QED
    BY <1>4, <1>5, <2>1 DEF Loops
<1>7. f = [i \in 0..Len(mids) |->
             IF i = 0 THEN Blank ELSE Thread(f[i - 1], mids[i], References(mids[i]))]
  BY <1>6, Zenon DEF Next1
<1>8. Loaded(mids) = loaded[Len(mids)]
  BY Zenon DEF Loaded
<1> HIDE DEF G, Next1, V
<1>9. loaded = [i \in 0..Len(mids) |->
                  IF i = 0 THEN Blank ELSE Thread(loaded[i - 1], mids[i], References(mids[i]))]
  BY <1>7, Zenon DEF loaded
<1> HIDE DEF loaded
<1>10. loaded = [i \in 0..l |-> IF i = 0 THEN Blank ELSE Next1(i, loaded[i - 1])]
  BY <1>9, Zenon DEF Next1
<1>11. loaded[0] = Blank /\ \A i \in 1..l : loaded[i] = Next1(i, loaded[i - 1])
  <2>1. 0 \in 0..l /\ \A i \in 1..l : i \in 0..l /\ i # 0
    OBVIOUS
  <2> QED
    BY <1>10, <2>1
<1>12. loaded \in [0..l -> V]
  <2> DEFINE I == {i \in 0..l : loaded[i] \in V}
  <2>1. 0 \in I
    BY <1>1, <1>11
  <2>2. \A i \in 1..l : i - 1 \in I => i \in I
    BY <1>2, <1>11
  <2>3. \A i \in 0..l : i \in I
    <3> HIDE DEF I
    <3> QED
      BY <2>1, <2>2, UpTo
  <2> QED
    BY <1>10, <2>3
<1>13. Loaded(mids) = loaded[l]
  BY <1>8
<1> QED
  BY <1>11, <1>12, <1>13, Zenon DEF V, Next1, Loads

\* What is loaded has the threads of all that was saved.
LEMMA LoadedWhole ==
  ASSUME Forest(graph), NEW mids \in Seq(MID), NEW l \in Nat, l = Len(mids)
  PROVE  Partial(Loaded(mids)) /\ \A i \in 1..l : HasThread(Loaded(mids), mids[i])
<1>1. PICK f : Loads(f, mids, l)
  BY Loading
<1>2. /\ \A i \in 0..l : Partial(f[i])
      /\ Loaded(mids) = f[l]
      /\ \A i \in 1..l : f[i] = Thread(f[i - 1], mids[i], References(mids[i]))
  BY <1>1 DEF Loads
<1> DEFINE Threaded(i) == \A j \in 1..l : j <= i => HasThread(f[i], mids[j])
           I == {i \in 0..l : Threaded(i)}
<1>3. 0 \in I
  OBVIOUS
<1>4. ASSUME NEW i \in 1..l, i - 1 \in I PROVE i \in I
  <2>1. PICK b \in 0..l : b = i - 1 /\ i \in 0..l /\ Partial(f[b]) /\ mids[i] \in MID
    BY <1>2
  <2>2. f[i] = Thread(f[b], mids[i], References(mids[i]))
    BY <1>2, <2>1
  <2>3. Extends(f[b], f[i]) /\ HasThread(f[i], mids[i])
    BY <2>1, <2>2, LoadOne
  <2>4. ASSUME NEW j \in 1..l, j <= i PROVE HasThread(f[i], mids[j])
    <3>1. CASE j = i
      BY <2>3, <3>1
    <3>2. CASE j # i
      <4>1. HasThread(f[b], mids[j])
        BY <1>4, <2>1, <2>4, <3>2
      <4>2. {mids[j]} \cup Ancestors(graph.parent, mids[j]) \subseteq MID
        <5>1. mids[j] \in MID
          OBVIOUS
        <5> QED
          BY <5>1, AncestorsAre DEF Forest, Graphs
      <4> QED
        BY <2>3, <4>1, <4>2 DEF Extends, HasThread
    <3> QED
      BY <3>1, <3>2
  <2> QED
    BY <2>1, <2>4
<1>5. l \in I
  <2>1. \A i \in 0..l : i \in I
    <3> HIDE DEF I
    <3> QED
      BY <1>3, <1>4, UpTo
  <2> QED
    BY <2>1
<1> QED
  BY <1>2, <1>5

\* Each of SetToSeqs lists the set.
LEMMA Listed ==
  ASSUME NEW S \in SUBSET MID, NEW mids \in SetToSeqs(S)
  PROVE  /\ mids \in Seq(MID)
         /\ \A m \in S : \E i \in 1..Len(mids) : mids[i] = m
<1>1. IsFiniteSet(S)
  BY Sizes, FS_Subset
<1>2. PICK l \in Nat : l = Cardinality(S)
  BY <1>1, FS_CardinalityType
<1>3. mids \in [1..l -> S] /\ \A i, j \in 1..l : i # j => mids[i] # mids[j]
  BY <1>2 DEF SetToSeqs
<1>4. mids \in Injection(1..l, S) /\ Cardinality(1..l) = l
  <2>1. Cardinality(1..l) = l
    BY FS_Interval
  <2>2. DOMAIN mids = 1..l
    BY <1>3
  <2>3. IsInjective(mids)
    BY <1>3, <2>2 DEF IsInjective
  <2> QED
    BY <1>3, <2>1, <2>3 DEF Injection
<1>5. mids \in Surjection(1..l, S)
  BY <1>1, <1>2, <1>4, FS_Injection
<1>6. mids \in Seq(MID) /\ Len(mids) = l
  BY <1>3
<1> QED
  BY <1>5, <1>6 DEF Surjection

LEMMA ReloadInv ==
  ASSUME Inv, Reload
  PROVE  Inv' /\ \A m \in Articles : HasThread(graph', m)
<1>1. ~tree.open /\ UNCHANGED <<article, work, tree, moved>>
  BY DEF Reload
<1>2. Articles \in SUBSET MID /\ Forest(graph)
  BY DEF Inv, Articles, HasArticle
<1>3. PICK mids \in Seq(MID), l \in Nat :
           /\ graph' = Loaded(mids) /\ l = Len(mids)
           /\ \A m \in Articles : \E i \in 1..l : mids[i] = m
  <2>1. PICK mids \in SetToSeqs(Articles) : graph' = Loaded(mids)
    BY DEF Reload
  <2>2. mids \in Seq(MID) /\ \A m \in Articles : \E i \in 1..Len(mids) : mids[i] = m
    BY <1>2, Listed
  <2> QED
    BY <2>1, <2>2
<1>4. Partial(graph') /\ \A i \in 1..l : HasThread(graph', mids[i])
  BY <1>2, <1>3, LoadedWhole
<1>5. Forest(graph') /\ \A m \in Articles : HasThread(graph', m)
  BY <1>3, <1>4 DEF Partial
<1>6. Types' /\ Indexed' /\ PartsTogether'
  BY <1>1 DEF Inv, Types, Indexed, PartsTogether, Articles
<1>7. TreeRight'
  BY <1>1, ClosedSound DEF Inv, TreeRight
<1>8. Shown'
  BY <1>1 DEF Inv, Shown, ShownMatches, Pending, Articles, Matches
<1> QED
  BY <1>5, <1>6, <1>7, <1>8 DEF Inv, Forest

LEMMA AboveSame ==
  ASSUME NEW p \in Parents, NEW r \in Parents, NEW n \in MID,
         \A k \in {n} \cup Ancestors(p, n) : r[k] = p[k]
  PROVE  Above(r, n) = Above(p, n)
<1>1. PICK c \in [0..N -> Path] :
        /\ c[0] = <<n>> /\ Above(p, n) = Tail(c[N])
        /\ \A i \in 1..N : c[i] = Climb(p, c[i - 1])
  BY Climbing
<1>2. PICK d \in [0..N -> Path] :
        /\ d[0] = <<n>> /\ Above(r, n) = Tail(d[N])
        /\ \A i \in 1..N : d[i] = Climb(r, d[i - 1])
  BY Climbing
<1>3. /\ Ancestors(p, n) \in SUBSET MID /\ Up(p, Ancestors(p, n))
      /\ p[n] # None => p[n] \in Ancestors(p, n)
  BY AncestorsAre
<1> DEFINE I == {i \in 0..N : d[i] = c[i] /\ Last(c[i]) \in {n} \cup Ancestors(p, n)}
<1>4. 0 \in I
  <2>1. Last(<<n>>) = n
    BY DEF Last
  <2>2. 0 \in 0..N
    BY Sizes
  <2>3. d[0] = c[0] /\ Last(c[0]) \in {n} \cup Ancestors(p, n)
    BY <1>1, <1>2, <2>1
  <2> QED
    BY <2>2, <2>3
<1>5. ASSUME NEW i \in 1..N, i - 1 \in I PROVE i \in I
  <2>1. PICK q \in Path, top \in {n} \cup Ancestors(p, n) :
          q = c[i - 1] /\ q = d[i - 1] /\ top = Last(q)
    BY <1>5, Sizes
  <2>2. c[i] = Climb(p, q) /\ d[i] = Climb(r, q)
    BY <1>1, <1>2, <2>1
  <2>3. r[top] = p[top] /\ (p[top] # None => p[top] \in Ancestors(p, n))
    BY <1>3, <2>1 DEF Up
  <2>4. Climb(r, q) = Climb(p, q)
    BY <2>1, <2>3 DEF Climb
  <2>5. Last(Climb(p, q)) \in {n} \cup Ancestors(p, n)
    <3>1. CASE p[top] = None
      BY <2>1, <3>1 DEF Climb
    <3>2. CASE p[top] # None
      <4>1. Climb(p, q) = Append(q, p[top]) /\ p[top] \in MID /\ q \in Seq(MID)
        BY <1>3, <2>1, <2>3, <3>2 DEF Climb, Path
      <4>2. Last(Append(q, p[top])) = p[top]
        BY <4>1 DEF Last
      <4> QED
        BY <2>3, <3>2, <4>1, <4>2
    <3> QED
      BY <3>1, <3>2
  <2>6. i \in 0..N
    BY Sizes
  <2> QED
    BY <2>2, <2>4, <2>5, <2>6
<1>6. \A i \in 0..N : i \in I
  <2> HIDE DEF I
  <2> QED
    BY <1>4, <1>5, Sizes, UpTo
<1>7. N \in 0..N
  BY Sizes
<1> QED
  BY <1>1, <1>2, <1>6, <1>7

----------------------------------------------------------------------------
(* The specification.                                                      *)

LEMMA StepInv ==
  ASSUME Inv, [Next]_vars
  PROVE  Inv'
<1>1. CASE XoverRef
  BY <1>1, XoverRefInv
<1>2. CASE XoverUnref
  BY <1>2, XoverUnrefInv
<1>3. CASE Close
  BY <1>3, CloseInv
<1>4. CASE Reload
  BY <1>4, ReloadInv
<1>5. ASSUME NEW m \in MID, NEW flush \in BOOLEAN, NEW refs \in REFS[m],
             XoverAdd(m, refs, flush)
      PROVE  Inv'
  BY <1>5, XoverAddInv
<1>6. ASSUME NEW view \in VIEWS, Open(view) \/ SetFilter(view) PROVE Inv'
  BY <1>6, OpenInv, SetFilterInv
<1>7. CASE Clear
  <2>1. Articles \in SUBSET MID
    BY DEF Articles, HasArticle
  <2> QED
    BY <1>7, <2>1, DeleteInv DEF Clear
<1>8. ASSUME NEW m \in MID, Delete(m) PROVE Inv'
  BY <1>8, DeleteInv DEF Delete
<1>9. CASE UNCHANGED vars
  <2>1. Types' /\ Indexed' /\ PartsTogether' /\ Forest(graph)'
    BY <1>9 DEF vars, Inv, Types, Indexed, PartsTogether, Articles
  <2>2. TreeRight' /\ Shown'
    BY <1>9 DEF vars, Inv, TreeRight, SettledNodes, Settled, Shown, ShownMatches, Pending,
                Articles, Matches
  <2> QED
    BY <2>1, <2>2 DEF Inv
<1> QED
  BY <1>1, <1>2, <1>3, <1>4, <1>5, <1>6, <1>7, <1>8, <1>9 DEF Next

\* The group, its header tasks and the tree keep what the other theorems rest on:
\* the graph is a forest, the index of a running task has all articles of
\* several parts, and the tree hangs each settled node under its closest
\* ancestor that is shown.
THEOREM Invariance == Spec => []Inv
<1>1. Init => Inv
  BY InitInv
<1>2. Inv /\ [Next]_vars => Inv'
  BY StepInv
<1> QED
  BY <1>1, <1>2, PTL DEF Spec

\* load_article and add_articles: whatever References come in whatever order,
\* the group's nodes are a forest, each the child of its parent and of no
\* other, and a circle in the tree passes through a node that was moved.
THEOREM ForestSoundIsInvariant == Spec => []ForestSound
<1>1. ASSUME Inv PROVE ForestSound
  <2>1. /\ Forest(graph) /\ TreeSound(tree, graph, SettledNodes)
        /\ Whole(graph, SettledNodes)
    BY <1>1, GraphWhole DEF Inv, TreeRight
  <2>2. /\ graph.parent \in Parents /\ tree.parent \in Parents
        /\ Acyclic(graph.parent) /\ Linked(graph, MID) /\ Linked(tree, tree.nodes)
    BY <2>1 DEF Forest, Graphs, TreeSound, Trees
  <2>3. ASSUME NEW n \in MID, n \in Ancestors(tree.parent, n),
               \A k \in Ancestors(tree.parent, n) : Settled(k)
        PROVE  FALSE
    <3>1. tree.parent[n] # None
      BY <2>2, <2>3, AncestorsStep
    <3>2. n \in tree.nodes /\ n \in SettledNodes
      BY <2>2, <2>3, <3>1 DEF Linked, SettledNodes
    <3>3. n \in Ancestors(graph.parent, n)
      BY <2>1, <2>3, <3>2, ShownAbove
    <3> QED
      BY <2>2, <3>3 DEF Acyclic
  <2> QED
    BY <2>2, <2>3 DEF ForestSound
<1> QED
  BY <1>1, Invariance, PTL

\* add_articles and remove_articles: a node in the tree hangs under the closest
\* of its ancestors in the tree, but below nodes that References moved.
THEOREM ClosestShownIsInvariant == Spec => []ClosestShown
<1>1. ASSUME Inv PROVE ClosestShown
  <2>1. Placed(tree, graph, SettledNodes) /\ tree.nodes \in SUBSET MID
    BY <1>1 DEF Inv, TreeRight, TreeSound, Trees
  <2> QED
    BY <2>1 DEF Placed, SettledNodes, ClosestShown
<1> QED
  BY <1>1, Invariance, PTL

\* find_article and xover_add: the parts of a post are in one article.
THEOREM PartsTogetherIsInvariant == Spec => []PartsTogether
<1>1. Inv => PartsTogether
  BY DEF Inv
<1> QED
  BY <1>1, Invariance, PTL

\* apply_filter: if every view has a filter, the tree shows between batches
\* the articles that match it.  (Without one it may show what has no article:
\* NoNullArticle.)
THEOREM ShownMatchesIsInvariant ==
  ASSUME Filters
  PROVE  Spec => []ShownMatches
<1>1. Inv => ShownMatches
  BY DEF Inv, Shown
<1> QED
  BY <1>1, Invariance, PTL

\* save_headers and load_headers: an article that was saved has, when it was
\* loaded, the same nodes above it in the same order.
THEOREM ReloadKeepsThreadsHolds == Spec => ReloadKeepsThreads
<1>1. ASSUME Inv, Inv', Reload
      PROVE  \A m \in Articles : Above(graph'.parent, m) = Above(graph.parent, m)
  <2> TAKE m \in Articles
  <2>1. HasThread(graph', m)
    BY <1>1, ReloadInv
  <2>2. graph.parent \in Parents /\ graph'.parent \in Parents /\ m \in MID
    BY <1>1 DEF Inv, Forest, Graphs, Articles, HasArticle
  <2> QED
    BY <2>1, <2>2, AboveSame DEF HasThread
<1> QED
  BY <1>1, Invariance, PTL DEF ReloadKeepsThreads

----------------------------------------------------------------------------
(* The ranges of the numbers that have been read.                          *)

Rng == [low : Nat, high : Nat]
Ranges == Seq(Rng)

\* The numbers of a range, and of the first k of a sequence.
Within(r) == r.low..r.high
SetUpTo(s, k) == UNION {Within(s[i]) : i \in 1..k}

\* Sorted and none empty, but they may touch.
Apart(s) == \A i, j \in 1..Len(s) : /\ s[i].low <= s[i].high
                                    /\ i < j => s[i].high < s[j].low

\* All of s is below n, with a gap between.
Under(s, n) == \A i \in 1..Len(s) : s[i].high + 1 < n

LEMMA RangesAre ==
  ASSUME NEW s \in Ranges
  PROVE  /\ Len(s) \in Nat /\ s \in [1..Len(s) -> Rng]
         /\ \A i \in 1..Len(s) : s[i] \in Rng /\ s[i].low \in Nat /\ s[i].high \in Nat
<1>1. Len(s) \in Nat /\ s \in [1..Len(s) -> Rng]
  BY LenProperties DEF Ranges
<1> QED
  BY <1>1 DEF Rng

LEMMA InSet ==
  ASSUME NEW s, NEW n
  PROVE  n \in SetOf(s) <=> \E i \in 1..Len(s) : n \in Within(s[i])
BY DEF SetOf, Within

LEMMA InSetUpTo ==
  ASSUME NEW s, NEW k, NEW n
  PROVE  n \in SetUpTo(s, k) <=> \E i \in 1..k : n \in Within(s[i])
BY DEF SetUpTo

LEMMA WithinIs ==
  ASSUME NEW r \in Rng
  PROVE  /\ r.low \in Nat /\ r.high \in Nat
         /\ \A n : n \in Within(r) <=> n \in Nat /\ r.low <= n /\ n <= r.high
         /\ Within(r) \in SUBSET Nat
         /\ IsFiniteSet(Within(r))
         /\ r.low <= r.high => Cardinality(Within(r)) = Quantity(r)
<1>1. r.low \in Nat /\ r.high \in Nat
  BY DEF Rng
<1>2. IsFiniteSet(Within(r)) /\ r.low <= r.high => Cardinality(Within(r)) = r.high - r.low + 1
  BY <1>1, FS_Interval DEF Within
<1>3. IsFiniteSet(Within(r))
  BY <1>1, FS_Interval DEF Within
<1> QED
  BY <1>1, <1>2, <1>3 DEF Within, Quantity

\* Another range at the end.
LEMMA AppendRange ==
  ASSUME NEW s \in Ranges, NEW r \in Rng
  PROVE  /\ Append(s, r) \in Ranges /\ Len(Append(s, r)) = Len(s) + 1
         /\ \A i \in 1..Len(s) : Append(s, r)[i] = s[i]
         /\ Append(s, r)[Len(s) + 1] = r
         /\ SetOf(Append(s, r)) = SetOf(s) \cup Within(r)
<1>1. /\ Append(s, r) \in Ranges /\ Len(Append(s, r)) = Len(s) + 1
      /\ \A i \in 1..Len(s) : Append(s, r)[i] = s[i]
      /\ Append(s, r)[Len(s) + 1] = r
  BY AppendProperties DEF Ranges
<1>2. Len(s) \in Nat
  BY RangesAre
<1>3. ASSUME NEW n PROVE n \in SetOf(Append(s, r)) <=> n \in SetOf(s) \cup Within(r)
  <2>1. n \in SetOf(Append(s, r)) <=> \E i \in 1..(Len(s) + 1) : n \in Within(Append(s, r)[i])
    BY <1>1, InSet
  <2>2. n \in SetOf(s) <=> \E i \in 1..Len(s) : n \in Within(s[i])
    BY InSet
  <2>3. \A i \in 1..(Len(s) + 1) : i \in 1..Len(s) \/ i = Len(s) + 1
    BY <1>2
  <2>4. /\ Len(s) + 1 \in 1..(Len(s) + 1)
        /\ \A i \in 1..Len(s) : i \in 1..(Len(s) + 1)
    BY <1>2
  <2> QED
    BY <1>1, <2>1, <2>2, <2>3, <2>4
<1> QED
  BY <1>1, <1>3

LEMMA JoinRanges ==
  ASSUME NEW s \in Ranges, NEW t \in Ranges
  PROVE  /\ s \o t \in Ranges /\ Len(s \o t) = Len(s) + Len(t)
         /\ \A i \in 1..Len(s) : (s \o t)[i] = s[i]
         /\ \A i \in 1..Len(t) : (s \o t)[Len(s) + i] = t[i]
         /\ SetOf(s \o t) = SetOf(s) \cup SetOf(t)
<1>1. /\ s \o t \in Ranges /\ Len(s \o t) = Len(s) + Len(t)
      /\ \A i \in 1..(Len(s) + Len(t)) :
           (s \o t)[i] = IF i <= Len(s) THEN s[i] ELSE t[i - Len(s)]
  BY ConcatProperties DEF Ranges
<1>2. Len(s) \in Nat /\ Len(t) \in Nat
  BY RangesAre
<1>3. \A i \in 1..Len(s) : (s \o t)[i] = s[i]
  BY <1>1, <1>2
<1>4. ASSUME NEW i \in 1..Len(t) PROVE (s \o t)[Len(s) + i] = t[i]
  <2>1. /\ Len(s) + i \in 1..(Len(s) + Len(t)) /\ ~(Len(s) + i <= Len(s))
        /\ Len(s) + i - Len(s) = i
    BY <1>2
  <2> QED
    BY <1>1, <2>1
<1>5. ASSUME NEW n PROVE n \in SetOf(s \o t) <=> n \in SetOf(s) \cup SetOf(t)
  <2>1. n \in SetOf(s \o t) <=> \E i \in 1..(Len(s) + Len(t)) : n \in Within((s \o t)[i])
    BY <1>1, InSet
  <2>2. n \in SetOf(s) <=> \E i \in 1..Len(s) : n \in Within(s[i])
    BY InSet
  <2>3. n \in SetOf(t) <=> \E i \in 1..Len(t) : n \in Within(t[i])
    BY InSet
  <2>4. ASSUME NEW i \in 1..(Len(s) + Len(t)), n \in Within((s \o t)[i])
        PROVE  n \in SetOf(s) \cup SetOf(t)
    <3>1. CASE i <= Len(s)
      <4>1. i \in 1..Len(s)
        BY <1>2, <3>1
      <4> QED
        BY <1>3, <2>2, <2>4, <4>1
    <3>2. CASE ~(i <= Len(s))
      <4>1. i - Len(s) \in 1..Len(t) /\ (s \o t)[i] = t[i - Len(s)]
        BY <1>1, <1>2, <3>2
      <4> QED
        BY <2>3, <2>4, <4>1
    <3> QED
      BY <3>1, <3>2
  <2>5. /\ \A i \in 1..Len(s) : i \in 1..(Len(s) + Len(t))
        /\ \A i \in 1..Len(t) : Len(s) + i \in 1..(Len(s) + Len(t))
    BY <1>2
  <2> QED
    BY <1>3, <1>4, <2>1, <2>2, <2>3, <2>4, <2>5
<1> QED
  BY <1>1, <1>3, <1>4, <1>5

\* A stretch of a sequence.
LEMMA SubRanges ==
  ASSUME NEW s \in Ranges, NEW a \in 1..(Len(s) + 1), NEW b \in 0..Len(s), a <= b + 1
  PROVE  /\ SubSeq(s, a, b) \in Ranges /\ Len(SubSeq(s, a, b)) = b + 1 - a
         /\ \A i \in 1..(b + 1 - a) : a + i - 1 \in a..b /\ SubSeq(s, a, b)[i] = s[a + i - 1]
         /\ \A n : n \in SetOf(SubSeq(s, a, b)) <=> \E i \in a..b : n \in Within(s[i])
<1>1. Len(s) \in Nat /\ \A i \in 1..Len(s) : s[i] \in Rng
  BY RangesAre
<1>2. a \in Int /\ b \in Int /\ \A i \in a..b : s[i] \in Rng
  BY <1>1
<1>3. /\ SubSeq(s, a, b) \in Ranges
      /\ Len(SubSeq(s, a, b)) = IF a <= b THEN b - a + 1 ELSE 0
      /\ \A i \in 1..(b - a + 1) : SubSeq(s, a, b)[i] = s[a + i - 1]
  BY <1>2, SubSeqProperties DEF Ranges
<1>4. Len(SubSeq(s, a, b)) = b + 1 - a
  BY <1>1, <1>3
<1>5. \A i \in 1..(b + 1 - a) : a + i - 1 \in a..b /\ SubSeq(s, a, b)[i] = s[a + i - 1]
  BY <1>2, <1>3
<1>6. ASSUME NEW n
      PROVE  n \in SetOf(SubSeq(s, a, b)) <=> \E i \in a..b : n \in Within(s[i])
  <2>1. n \in SetOf(SubSeq(s, a, b))
          <=> \E i \in 1..(b + 1 - a) : n \in Within(SubSeq(s, a, b)[i])
    BY <1>4, InSet
  <2>2. ASSUME NEW i \in a..b PROVE i + 1 - a \in 1..(b + 1 - a) /\ a + (i + 1 - a) - 1 = i
    BY <1>2
  <2> QED
    BY <1>5, <2>1, <2>2
<1> QED
  BY <1>3, <1>4, <1>5, <1>6

\* Two sequences in order, one below the other, are in order together.
LEMMA JoinInOrder ==
  ASSUME NEW s \in Ranges, NEW t \in Ranges, InOrder(s), InOrder(t),
         \A i \in 1..Len(s), j \in 1..Len(t) : s[i].high + 1 < t[j].low
  PROVE  InOrder(s \o t)
<1>1. Len(s) \in Nat /\ Len(t) \in Nat
  BY RangesAre
<1>2. /\ Len(s \o t) = Len(s) + Len(t)
      /\ \A i \in 1..Len(s) : (s \o t)[i] = s[i]
      /\ \A i \in 1..Len(t) : (s \o t)[Len(s) + i] = t[i]
  BY JoinRanges
<1>3. ASSUME NEW i \in 1..Len(s \o t)
      PROVE  \/ i \in 1..Len(s) /\ (s \o t)[i] = s[i]
             \/ i - Len(s) \in 1..Len(t) /\ (s \o t)[i] = t[i - Len(s)]
  <2>1. CASE i <= Len(s)
    BY <1>1, <1>2, <2>1
  <2>2. CASE ~(i <= Len(s))
    <3>1. i - Len(s) \in 1..Len(t) /\ Len(s) + (i - Len(s)) = i
      BY <1>1, <1>2, <2>2
    <3> QED
      BY <1>2, <3>1
  <2> QED
    BY <2>1, <2>2
<1>4. ASSUME NEW i \in 1..Len(s \o t), NEW j \in 1..Len(s \o t)
      PROVE  /\ (s \o t)[i].low <= (s \o t)[i].high
             /\ i < j => (s \o t)[i].high + 1 < (s \o t)[j].low
  <2>1. (s \o t)[i].low <= (s \o t)[i].high
    BY <1>3 DEF InOrder
  <2>2. CASE i \in 1..Len(s) /\ (s \o t)[i] = s[i] /\ j \in 1..Len(s) /\ (s \o t)[j] = s[j]
    BY <2>1, <2>2 DEF InOrder
  <2>3. CASE /\ i \in 1..Len(s) /\ (s \o t)[i] = s[i]
             /\ j - Len(s) \in 1..Len(t) /\ (s \o t)[j] = t[j - Len(s)]
    BY <2>1, <2>3
  <2>4. CASE /\ i - Len(s) \in 1..Len(t) /\ (s \o t)[i] = t[i - Len(s)]
             /\ j - Len(s) \in 1..Len(t) /\ (s \o t)[j] = t[j - Len(s)]
    <3>1. i < j => i - Len(s) < j - Len(s)
      BY <1>1, <1>2
    <3> QED
      BY <2>1, <2>4, <3>1 DEF InOrder
  <2>5. CASE i - Len(s) \in 1..Len(t) /\ j \in 1..Len(s)
    <3>1. ~(i < j)
      BY <1>1, <2>5
    <3> QED
      BY <2>1, <3>1
  <2> QED
    BY <1>3, <2>2, <2>3, <2>4, <2>5
<1> QED
  BY <1>4 DEF InOrder

LEMMA SubInOrder ==
  ASSUME NEW s \in Ranges, InOrder(s), NEW a \in 1..(Len(s) + 1), NEW b \in 0..Len(s),
         a <= b + 1
  PROVE  InOrder(SubSeq(s, a, b))
<1>1. /\ Len(SubSeq(s, a, b)) = b + 1 - a
      /\ \A i \in 1..(b + 1 - a) : a + i - 1 \in a..b /\ SubSeq(s, a, b)[i] = s[a + i - 1]
  BY SubRanges
<1>2. Len(s) \in Nat
  BY RangesAre
<1>3. ASSUME NEW i \in 1..(b + 1 - a), NEW j \in 1..(b + 1 - a)
      PROVE  /\ SubSeq(s, a, b)[i].low <= SubSeq(s, a, b)[i].high
             /\ i < j => SubSeq(s, a, b)[i].high + 1 < SubSeq(s, a, b)[j].low
  <2>1. /\ a + i - 1 \in 1..Len(s) /\ a + j - 1 \in 1..Len(s)
        /\ i < j => a + i - 1 < a + j - 1
    BY <1>2
  <2> QED
    BY <1>1, <2>1 DEF InOrder
<1> QED
  BY <1>1, <1>3 DEF InOrder

\* Whoever stands for numbers of the first i ranges only is below the others.
LEMMA UnderNext ==
  ASSUME NEW s \in Ranges, InOrder(s), NEW i \in 0..Len(s), NEW j \in 1..Len(s), i < j,
         NEW t \in Ranges, InOrder(t), SetOf(t) \subseteq SetUpTo(s, i)
  PROVE  Under(t, s[j].low)
<1> SUFFICES ASSUME NEW x \in 1..Len(t) PROVE t[x].high + 1 < s[j].low
  BY DEF Under
<1>1. t[x] \in Rng /\ t[x].low <= t[x].high
  BY RangesAre DEF InOrder
<1>2. t[x].high \in Within(t[x]) /\ t[x].high \in Nat
  BY <1>1, WithinIs
<1>3. t[x].high \in SetUpTo(s, i)
  BY <1>2, InSet
<1>4. PICK k \in 1..i : t[x].high \in Within(s[k])
  BY <1>3, InSetUpTo
<1>5. k \in 1..Len(s) /\ k < j /\ Len(s) \in Nat
  BY RangesAre
<1>6. s[k] \in Rng /\ s[j] \in Rng
  BY <1>5, RangesAre
<1>7. t[x].high <= s[k].high /\ s[k].high \in Nat /\ s[j].low \in Nat
  BY <1>4, <1>6, WithinIs
<1>8. s[k].high + 1 < s[j].low
  BY <1>5 DEF InOrder
<1>9. \A p, q, r \in Nat : p <= q /\ q + 1 < r => p + 1 < r
  OBVIOUS
<1> QED
  BY <1>2, <1>7, <1>8, <1>9

\* The first i + 1 ranges have the numbers of the first i and those of the next.
LEMMA SetUpToNext ==
  ASSUME NEW s \in Ranges, NEW i \in 1..Len(s)
  PROVE  SetUpTo(s, i) = SetUpTo(s, i - 1) \cup Within(s[i])
<1>1. \A j \in 1..i : j \in 1..(i - 1) \/ j = i
  BY RangesAre
<1>2. i \in 1..i /\ \A j \in 1..(i - 1) : j \in 1..i
  BY RangesAre
<1>3. ASSUME NEW n
      PROVE  n \in SetUpTo(s, i) <=> n \in SetUpTo(s, i - 1) \cup Within(s[i])
  BY <1>1, <1>2, InSetUpTo
<1> QED
  BY <1>3

LEMMA SetUpToFinite ==
  ASSUME NEW s \in Ranges, InOrder(s), NEW i \in 0..Len(s)
  PROVE  IsFiniteSet(SetUpTo(s, i)) /\ SetUpTo(s, i) \in SUBSET Nat
<1>1. CASE i = 0
  <2>1. SetUpTo(s, i) = {}
    BY <1>1, InSetUpTo
  <2> QED
    BY <2>1, FS_EmptySet
<1>2. CASE i # 0
  <2>1. i \in 1..Len(s) /\ Len(s) \in Nat
    BY <1>2, RangesAre
  <2>2. \A j \in 1..i : j \in 1..Len(s)
    BY <2>1
  <2>3. s[i].high \in Nat /\ s[i] \in Rng /\ \A j \in 1..i : s[j] \in Rng
    BY <2>1, <2>2, RangesAre
  <2>4. \A j \in 1..i : s[j].high <= s[i].high
    <3> SUFFICES ASSUME NEW j \in 1..i, j # i PROVE s[j].high <= s[i].high
      BY <2>3
    <3>1. j < i /\ j \in 1..Len(s)
      BY <2>1, <2>2
    <3>2. s[j].high + 1 < s[i].low /\ s[i].low <= s[i].high
      BY <2>1, <3>1 DEF InOrder
    <3>3. s[j].high \in Nat /\ s[i].low \in Nat
      BY <2>3, WithinIs
    <3> QED
      BY <2>3, <3>2, <3>3
  <2>5. ASSUME NEW n \in SetUpTo(s, i) PROVE n \in 0..s[i].high
    <3>1. PICK j \in 1..i : n \in Within(s[j])
      BY InSetUpTo
    <3>2. n \in Nat /\ n <= s[j].high /\ s[j].high \in Nat
      BY <2>3, <3>1, WithinIs
    <3> QED
      BY <2>3, <2>4, <3>2
  <2>6. SetUpTo(s, i) \in SUBSET (0..s[i].high)
    BY <2>5
  <2>7. IsFiniteSet(SetUpTo(s, i))
    <3>1. \A m \in Nat : IsFiniteSet(0..m)
      BY FS_Interval
    <3>2. IsFiniteSet(0..s[i].high)
      BY <2>3, <3>1
    <3> QED
      BY <2>6, <3>2, FS_Subset
  <2>8. (0..s[i].high) \in SUBSET Nat
    BY <2>3
  <2> QED
    BY <2>6, <2>7, <2>8
<1> QED
  BY <1>1, <1>2

\* The binary search finds the first range that reaches n.
LEMMA LowerBoundIs ==
  ASSUME NEW s \in Ranges, NEW n \in Nat
  PROVE  /\ LowerBound(s, n) \in 1..(Len(s) + 1)
         /\ LowerBound(s, n) \in 1..Len(s) => s[LowerBound(s, n)].high >= n
         /\ \A i \in 1..Len(s) : i < LowerBound(s, n) => s[i].high < n
<1> DEFINE S == {i \in 1..Len(s) : s[i].high >= n} \cup {Len(s) + 1}
<1>1. Len(s) \in Nat /\ \A i \in 1..Len(s) : s[i].high \in Nat
  BY RangesAre
<1>2. S \in SUBSET Nat /\ S # {}
  BY <1>1
<1>3. \E x \in S : \A y \in S : x <= y
  <2> HIDE DEF S
  <2> QED
    BY <1>2, Smallest
<1>4. LowerBound(s, n) \in S /\ \A y \in S : LowerBound(s, n) <= y
  <2>1. LowerBound(s, n) = Min(S)
    BY DEF LowerBound
  <2> HIDE DEF S
  <2> QED
    BY <1>3, <2>1 DEF Min
<1>5. LowerBound(s, n) \in 1..(Len(s) + 1)
  BY <1>1, <1>4
<1>6. LowerBound(s, n) \in 1..Len(s) => s[LowerBound(s, n)].high >= n
  BY <1>1, <1>4
<1>7. ASSUME NEW i \in 1..Len(s), i < LowerBound(s, n) PROVE s[i].high < n
  <2>1. i \notin S
    <3> HIDE DEF S
    <3> QED
      BY <1>1, <1>4, <1>5, <1>7
  <2> QED
    BY <1>1, <2>1
<1> QED
  BY <1>5, <1>6, <1>7

\* The ranges that a loop over r looks at: those before end below r, those after
\* begin beyond it.
LEMMA TouchedIs ==
  ASSUME NEW s \in Ranges, InOrder(s), NEW r \in Rng, r.low <= r.high
  PROVE  LET a == LowerBound(s, r.low)
             e == a - 1 + Touched(s, r)
         IN  /\ a \in 1..(Len(s) + 1) /\ Touched(s, r) \in Nat /\ e \in 0..Len(s) /\ a <= e + 1
             /\ \A i \in 1..(a - 1) : s[i].high < r.low
             /\ \A i \in a..e : i < e => s[i].high < r.high
             /\ \A i \in a..e : s[i].high >= r.low
             /\ \A i \in (e + 1)..Len(s) : r.high + 1 < s[i].low
             /\ LowerBound(s, r.high) \in {e, e + 1}
             /\ LowerBound(s, r.high) = e + 1 =>
                  e = Len(s) /\ \A i \in a..e : s[i].high < r.high
             /\ LowerBound(s, r.high) = e => e \in 1..Len(s) /\ a <= e /\ s[e].high >= r.high
<1> DEFINE a == LowerBound(s, r.low)
           b == LowerBound(s, r.high)
           e == a - 1 + Touched(s, r)
<1>1. Len(s) \in Nat /\ r.low \in Nat /\ r.high \in Nat
  BY RangesAre, WithinIs
<1>2. \A i \in 1..Len(s) : s[i].low \in Nat /\ s[i].high \in Nat /\ s[i].low <= s[i].high
  BY RangesAre DEF InOrder
<1>3. /\ a \in 1..(Len(s) + 1)
      /\ a \in 1..Len(s) => s[a].high >= r.low
      /\ \A i \in 1..Len(s) : i < a => s[i].high < r.low
  BY <1>1, LowerBoundIs
<1>4. /\ b \in 1..(Len(s) + 1)
      /\ b \in 1..Len(s) => s[b].high >= r.high
      /\ \A i \in 1..Len(s) : i < b => s[i].high < r.high
  BY <1>1, LowerBoundIs
<1>5. a <= b
  <2> SUFFICES ASSUME b < a PROVE FALSE
    BY <1>1, <1>3, <1>4
  <2>1. b \in 1..Len(s)
    BY <1>1, <1>3, <1>4
  <2>2. s[b].high < r.low /\ s[b].high >= r.high
    BY <1>3, <1>4, <2>1
  <2> QED
    BY <1>1, <1>2, <2>1, <2>2
<1>6. Touched(s, r) = (IF b <= Len(s) THEN b ELSE Len(s)) + 1 - a
  <2>1. Min({b, Len(s)}) = IF b <= Len(s) THEN b ELSE Len(s)
    <3> HIDE DEF b
    <3>1. b \in Nat
      BY <1>1, <1>4
    <3> QED
      BY <1>1, <3>1 DEF Min
  <2> QED
    BY <2>1 DEF Touched
<1>7. e = IF b <= Len(s) THEN b ELSE Len(s)
  BY <1>1, <1>3, <1>4, <1>6
<1> HIDE DEF a, b, e
<1>8. /\ Touched(s, r) \in Nat /\ e \in 0..Len(s) /\ a <= e + 1
      /\ b \in {e, e + 1}
      /\ b = e + 1 => e = Len(s)
      /\ b = e => e \in 1..Len(s) /\ a <= e
  BY <1>1, <1>3, <1>4, <1>5, <1>6, <1>7
<1>9. ASSUME NEW i \in 1..(a - 1) PROVE s[i].high < r.low
  BY <1>1, <1>3
<1>10. ASSUME NEW i \in a..e
       PROVE  (i < e => s[i].high < r.high) /\ s[i].high >= r.low
  <2>1. i \in 1..Len(s) /\ i <= b
    BY <1>1, <1>3, <1>4, <1>8
  <2>2. i < e => s[i].high < r.high
    BY <1>1, <1>4, <1>7, <2>1
  <2>3. s[i].high >= r.low
    <3>1. CASE i = a
      BY <1>3, <2>1, <3>1
    <3>2. CASE i # a
      <4>1. a < i /\ a \in 1..Len(s)
        BY <1>1, <1>3, <2>1, <3>2
      <4>2. s[a].high + 1 < s[i].low
        BY <2>1, <4>1 DEF InOrder
      <4> QED
        BY <1>1, <1>2, <1>3, <2>1, <4>1, <4>2
    <3> QED
      BY <3>1, <3>2
  <2> QED
    BY <2>2, <2>3
<1>11. ASSUME NEW i \in (e + 1)..Len(s) PROVE r.high + 1 < s[i].low
  <2>1. b = e /\ b \in 1..Len(s) /\ b < i /\ i \in 1..Len(s)
    BY <1>1, <1>4, <1>7, <1>8
  <2>2. s[b].high + 1 < s[i].low
    BY <2>1 DEF InOrder
  <2> QED
    BY <1>1, <1>2, <1>4, <2>1, <2>2
<1>12. b = e => s[e].high >= r.high
  BY <1>4, <1>8
<1>13. ASSUME b = e + 1, NEW i \in a..e PROVE s[i].high < r.high
  BY <1>1, <1>3, <1>4, <1>8, <1>13
<1> QED
  BY <1>3, <1>8, <1>9, <1>10, <1>11, <1>12, <1>13 DEF a, b, e

\* The ranges after those that a loop looks at.
LEMMA AfterIs ==
  ASSUME NEW s \in Ranges, InOrder(s), NEW r \in Rng, r.low <= r.high
  PROVE  LET e == LowerBound(s, r.low) - 1 + Touched(s, r)
         IN  /\ After(s, r) \in Ranges /\ InOrder(After(s, r)) /\ Len(After(s, r)) = Len(s) - e
             /\ \A n : n \in SetOf(After(s, r)) <=> \E i \in (e + 1)..Len(s) : n \in Within(s[i])
             /\ \A j \in 1..Len(After(s, r)) : /\ e + j \in (e + 1)..Len(s)
                                               /\ After(s, r)[j] = s[e + j]
<1> DEFINE b == LowerBound(s, r.high)
           e == LowerBound(s, r.low) - 1 + Touched(s, r)
<1>1. /\ e \in 0..Len(s) /\ b \in {e, e + 1} /\ Len(s) \in Nat
      /\ (b = e + 1 => e = Len(s))
  BY TouchedIs, RangesAre
<1>2. After(s, r) = SubSeq(s, e + 1, Len(s))
  <2>1. CASE b = e
    BY <2>1 DEF After
  <2>2. CASE b = e + 1
    <3>1. /\ e + 1 \in Int /\ b + 1 \in Int /\ Len(s) \in Int
          /\ Len(s) < e + 1 /\ Len(s) < b + 1
      BY <1>1, <2>2
    <3> HIDE DEF b, e
    <3>2. SubSeq(s, e + 1, Len(s)) = <<>> /\ SubSeq(s, b + 1, Len(s)) = <<>>
      BY <3>1, SubSeqEmpty
    <3> QED
      BY <3>2 DEF After, b
  <2> QED
    BY <1>1, <2>1, <2>2
<1> HIDE DEF e
<1>3. e + 1 \in 1..(Len(s) + 1) /\ Len(s) \in 0..Len(s) /\ e + 1 <= Len(s) + 1
  BY <1>1
<1>4. /\ SubSeq(s, e + 1, Len(s)) \in Ranges /\ InOrder(SubSeq(s, e + 1, Len(s)))
      /\ Len(SubSeq(s, e + 1, Len(s))) = Len(s) + 1 - (e + 1)
      /\ \A n : n \in SetOf(SubSeq(s, e + 1, Len(s)))
                  <=> \E i \in (e + 1)..Len(s) : n \in Within(s[i])
      /\ \A i \in 1..(Len(s) + 1 - (e + 1)) : /\ e + 1 + i - 1 \in (e + 1)..Len(s)
                                              /\ SubSeq(s, e + 1, Len(s))[i] = s[e + 1 + i - 1]
  BY <1>3, SubRanges, SubInOrder
<1>5. Len(s) + 1 - (e + 1) = Len(s) - e /\ \A i \in Int : e + 1 + i - 1 = e + i
  BY <1>1
<1>6. ASSUME NEW j \in 1..Len(After(s, r))
      PROVE  e + j \in (e + 1)..Len(s) /\ After(s, r)[j] = s[e + j]
  <2>1. j \in 1..(Len(s) + 1 - (e + 1)) /\ e + 1 + j - 1 = e + j
    BY <1>1, <1>2, <1>4, <1>5
  <2> QED
    BY <1>2, <1>4, <2>1
<1>7. Len(After(s, r)) = Len(s) - e
  BY <1>2, <1>4, <1>5
<1> QED
  BY <1>2, <1>4, <1>6, <1>7 DEF e

----------------------------------------------------------------------------
(* Unmarking.                                                              *)

\* Ranges of one or two.
LEMMA OneRange ==
  ASSUME NEW r \in Rng
  PROVE  /\ <<r>> \in Ranges /\ Len(<<r>>) = 1 /\ <<r>>[1] = r
         /\ SetOf(<<r>>) = Within(r)
         /\ r.low <= r.high => InOrder(<<r>>)
<1>1. <<r>> \in Ranges /\ Len(<<r>>) = 1 /\ <<r>>[1] = r
  BY DEF Ranges
<1>2. \A i \in 1..1 : i = 1
  OBVIOUS
<1>3. ASSUME NEW n PROVE n \in SetOf(<<r>>) <=> n \in Within(r)
  BY <1>1, <1>2, InSet
<1>4. SetOf(<<r>>) = Within(r)
  BY <1>3
<1>5. r.low <= r.high => InOrder(<<r>>)
  BY <1>1, <1>2 DEF InOrder
<1> QED
  BY <1>1, <1>4, <1>5

LEMMA TwoRanges ==
  ASSUME NEW r \in Rng, NEW q \in Rng, r.low <= r.high, q.low <= q.high, r.high + 1 < q.low
  PROVE  /\ <<r, q>> \in Ranges /\ InOrder(<<r, q>>)
         /\ SetOf(<<r, q>>) = Within(r) \cup Within(q)
<1>1. /\ <<r, q>> \in Ranges /\ Len(<<r, q>>) = 2
      /\ <<r, q>>[1] = r /\ <<r, q>>[2] = q
  BY DEF Ranges
<1>2. \A i \in 1..2 : i = 1 \/ i = 2
  OBVIOUS
<1>3. ASSUME NEW n PROVE n \in SetOf(<<r, q>>) <=> n \in Within(r) \cup Within(q)
  <2>1. 1 \in 1..2 /\ 2 \in 1..2
    OBVIOUS
  <2>2. n \in SetOf(<<r, q>>) <=> \E i \in 1..2 : n \in Within(<<r, q>>[i])
    BY <1>1, InSet
  <2> QED
    BY <1>1, <1>2, <2>1, <2>2
<1>4. SetOf(<<r, q>>) = Within(r) \cup Within(q)
  BY <1>3
<1>5. InOrder(<<r, q>>)
  <2> SUFFICES ASSUME NEW i \in 1..2, NEW j \in 1..2
               PROVE  /\ <<r, q>>[i].low <= <<r, q>>[i].high
                      /\ i < j => <<r, q>>[i].high + 1 < <<r, q>>[j].low
    BY <1>1 DEF InOrder
  <2>1. i < j => i = 1 /\ j = 2
    BY <1>2
  <2> QED
    BY <1>1, <1>2, <2>1
<1> QED
  BY <1>1, <1>4, <1>5

LEMMA NoRanges ==
  /\ <<>> \in Ranges /\ Len(<<>>) = 0 /\ InOrder(<<>>) /\ SetOf(<<>>) = {}
<1>1. <<>> \in Ranges /\ Len(<<>>) = 0
  BY DEF Ranges
<1>2. \A i \in 1..0 : FALSE
  OBVIOUS
<1>3. \A n : n \notin SetOf(<<>>)
  BY <1>1, <1>2, InSet
<1> QED
  BY <1>1, <1>2, <1>3 DEF InOrder

\* What is cut off a range, and what is left.
LEMMA CutIs ==
  ASSUME NEW ur \in Rng, ur.low <= ur.high, NEW r \in Rng, r.low <= r.high
  PROVE  /\ Cut(ur, r).kept \in Ranges /\ InOrder(Cut(ur, r).kept)
         /\ SetOf(Cut(ur, r).kept) = Within(r) \ Within(ur)
         /\ Cut(ur, r).changed = Cardinality(Within(r) \cap Within(ur))
<1>1. /\ ur.low \in Nat /\ ur.high \in Nat /\ r.low \in Nat /\ r.high \in Nat
      /\ \A n : n \in Within(ur) <=> n \in Nat /\ ur.low <= n /\ n <= ur.high
      /\ \A n : n \in Within(r) <=> n \in Nat /\ r.low <= n /\ n <= r.high
  BY WithinIs
<1> DEFINE low == [r EXCEPT !.high = ur.low - 1]
           high == [r EXCEPT !.low = ur.high + 1]
<1>2. /\ low.low = r.low /\ low.high = ur.low - 1
      /\ high.low = ur.high + 1 /\ high.high = r.high
  BY DEF Rng
<1>3. high \in Rng /\ \A n : n \in Within(high) <=> n \in Nat /\ ur.high + 1 <= n /\ n <= r.high
  <2>1. high \in Rng
    BY <1>1 DEF Rng
  <2> QED
    BY <1>2, <2>1, WithinIs
<1>4. ASSUME ur.low > r.low
      PROVE  /\ low \in Rng
             /\ \A n : n \in Within(low) <=> n \in Nat /\ r.low <= n /\ n <= ur.low - 1
  <2>1. low \in Rng
    BY <1>1, <1>4 DEF Rng
  <2> QED
    BY <1>2, <2>1, WithinIs
<1>5. \A m, n \in Nat : m <= n => Cardinality(m..n) = n + 1 - m
  BY FS_Interval
<1> HIDE DEF low, high
<1>6. CASE Covers(ur, r)
  <2>1. Cut(ur, r).kept = <<>> /\ Cut(ur, r).changed = Quantity(r)
    BY <1>6 DEF Cut
  <2>2. ur.low <= r.low /\ r.high <= ur.high
    BY <1>6 DEF Covers
  <2>3. Within(r) \ Within(ur) = {} /\ Within(r) \cap Within(ur) = Within(r)
    BY <1>1, <2>2
  <2> QED
    BY <2>1, <2>3, NoRanges, WithinIs
<1>7. CASE ~Covers(ur, r) /\ r.low # ur.low /\ r.high # ur.high /\ Covers(r, ur)
  <2>1. Cut(ur, r).kept = <<low, high>> /\ Cut(ur, r).changed = Quantity(ur)
    BY <1>7 DEF Cut, low, high
  <2>2. r.low < ur.low /\ ur.high < r.high
    BY <1>1, <1>7 DEF Covers
  <2>3. Within(r) \ Within(ur) = Within(low) \cup Within(high)
    BY <1>1, <1>3, <1>4, <2>2
  <2>4. Within(r) \cap Within(ur) = Within(ur)
    BY <1>1, <2>2
  <2>5. /\ low \in Rng /\ high \in Rng /\ low.low <= low.high /\ high.low <= high.high
        /\ low.high + 1 < high.low
    BY <1>1, <1>2, <1>3, <1>4, <2>2
  <2>6. Quantity(ur) = Cardinality(Within(ur))
    BY WithinIs
  <2>7. /\ <<low, high>> \in Ranges /\ InOrder(<<low, high>>)
        /\ SetOf(<<low, high>>) = Within(low) \cup Within(high)
    BY <2>5, TwoRanges
  <2> QED
    BY <2>1, <2>3, <2>4, <2>6, <2>7
<1>8. CASE /\ ~Covers(ur, r) /\ ~(r.low # ur.low /\ r.high # ur.high /\ Covers(r, ur))
           /\ ur.low # r.low /\ Has(r, ur.low)
  <2>1. Cut(ur, r).kept = <<low>> /\ Cut(ur, r).changed = r.high + 1 - ur.low
    BY <1>8 DEF Cut, low
  <2>2. r.low < ur.low /\ ur.low <= r.high /\ r.high <= ur.high
    BY <1>1, <1>8 DEF Covers, Has
  <2>3. Within(r) \ Within(ur) = Within(low)
    BY <1>1, <1>4, <2>2
  <2>4. Within(r) \cap Within(ur) = ur.low..r.high
    BY <1>1, <2>2
  <2>5. low \in Rng /\ low.low <= low.high
    BY <1>1, <1>2, <1>4, <2>2
  <2>6. Cardinality(ur.low..r.high) = r.high + 1 - ur.low
    BY <1>1, <1>5, <2>2
  <2> QED
    BY <2>1, <2>3, <2>4, <2>5, <2>6, OneRange
<1>9. CASE /\ ~Covers(ur, r) /\ ~(r.low # ur.low /\ r.high # ur.high /\ Covers(r, ur))
           /\ ~(ur.low # r.low /\ Has(r, ur.low)) /\ ur.high # r.high /\ Has(r, ur.high)
  <2>1. Cut(ur, r).kept = <<high>> /\ Cut(ur, r).changed = ur.high + 1 - r.low
    BY <1>9 DEF Cut, high
  <2>2. ur.low <= r.low /\ r.low <= ur.high /\ ur.high < r.high
    BY <1>1, <1>9 DEF Covers, Has
  <2>3. Within(r) \ Within(ur) = Within(high)
    BY <1>1, <1>3, <2>2
  <2>4. Within(r) \cap Within(ur) = r.low..ur.high
    BY <1>1, <2>2
  <2>5. high.low <= high.high
    BY <1>1, <1>2, <2>2
  <2>6. Cardinality(r.low..ur.high) = ur.high + 1 - r.low
    BY <1>1, <1>5, <2>2
  <2> QED
    BY <1>3, <2>1, <2>3, <2>4, <2>5, <2>6, OneRange
<1>10. CASE /\ ~Covers(ur, r) /\ ~(r.low # ur.low /\ r.high # ur.high /\ Covers(r, ur))
            /\ ~(ur.low # r.low /\ Has(r, ur.low)) /\ ~(ur.high # r.high /\ Has(r, ur.high))
  <2>1. Cut(ur, r).kept = <<r>> /\ Cut(ur, r).changed = 0
    BY <1>10 DEF Cut
  <2>2. r.high < ur.low \/ ur.high < r.low
    BY <1>1, <1>10 DEF Covers, Has
  <2>3. Within(r) \ Within(ur) = Within(r) /\ Within(r) \cap Within(ur) = {}
    BY <1>1, <2>2
  <2> QED
    BY <2>1, <2>3, OneRange, FS_EmptySet
<1> QED
  BY <1>6, <1>7, <1>8, <1>9, <1>10

\* The sizes of two sets that share nothing add up.
LEMMA SizesAdd ==
  ASSUME NEW X, NEW Y, NEW Z, IsFiniteSet(X), IsFiniteSet(Y), X \cap Y = {}, Z = X \cup Y
  PROVE  /\ Cardinality(Z) = Cardinality(X) + Cardinality(Y)
         /\ Cardinality(X) \in Nat /\ Cardinality(Y) \in Nat /\ Cardinality(Z) \in Nat
<1>1. Cardinality(X) \in Nat /\ Cardinality(Y) \in Nat
  BY FS_CardinalityType
<1>2. Cardinality(Z) = Cardinality(X) + Cardinality(Y) - Cardinality(X \cap Y)
  BY FS_Union
<1>3. Cardinality(X \cap Y) = 0
  BY FS_EmptySet
<1> QED
  BY <1>1, <1>2, <1>3

\* After the i-th range the loop has kept what is left of the first i, and counted
\* what was taken out of them.
CutTo(s, ur, i, acc) ==
  /\ acc.kept \in Ranges /\ InOrder(acc.kept)
  /\ SetOf(acc.kept) = SetUpTo(s, i) \ Within(ur)
  /\ acc.changed = Cardinality(SetUpTo(s, i) \cap Within(ur))

LEMMA DisjointNext ==
  ASSUME NEW s \in Ranges, InOrder(s), NEW i \in 1..Len(s)
  PROVE  SetUpTo(s, i - 1) \cap Within(s[i]) = {}
<1> SUFFICES ASSUME NEW n \in SetUpTo(s, i - 1), n \in Within(s[i]) PROVE FALSE
  OBVIOUS
<1>1. PICK j \in 1..(i - 1) : n \in Within(s[j])
  BY InSetUpTo
<1>2. j \in 1..Len(s) /\ j < i
  BY RangesAre
<1>3. s[i] \in Rng /\ s[j] \in Rng
  BY <1>2, RangesAre
<1>4. s[j].high + 1 < s[i].low
  BY <1>2 DEF InOrder
<1>5. /\ n \in Nat /\ n <= s[j].high /\ s[j].high \in Nat
      /\ s[i].low <= n /\ s[i].low \in Nat
  BY <1>1, <1>3, WithinIs
<1>6. \A p, q, r \in Nat : p <= q /\ q + 1 < r => ~(r <= p)
  OBVIOUS
<1> QED
  BY <1>4, <1>5, <1>6

LEMMA UnmarkTurnIs ==
  ASSUME NEW s \in Ranges, InOrder(s), NEW ur \in Rng, ur.low <= ur.high,
         NEW i \in 1..Len(s), NEW acc, CutTo(s, ur, i - 1, acc)
  PROVE  CutTo(s, ur, i, UnmarkTurn(ur, acc, s[i]))
<1> DEFINE r == s[i]
           new == UnmarkTurn(ur, acc, r)
<1>1. r \in Rng /\ r.low <= r.high /\ Len(s) \in Nat
  BY RangesAre DEF InOrder
<1>2. /\ Cut(ur, r).kept \in Ranges /\ InOrder(Cut(ur, r).kept)
      /\ SetOf(Cut(ur, r).kept) = Within(r) \ Within(ur)
      /\ Cut(ur, r).changed = Cardinality(Within(r) \cap Within(ur))
  BY <1>1, CutIs
<1>3. /\ new.kept = acc.kept \o Cut(ur, r).kept
      /\ new.changed = acc.changed + Cut(ur, r).changed
  BY DEF UnmarkTurn
<1>4. /\ acc.kept \in Ranges /\ InOrder(acc.kept)
      /\ SetOf(acc.kept) = SetUpTo(s, i - 1) \ Within(ur)
      /\ acc.changed = Cardinality(SetUpTo(s, i - 1) \cap Within(ur))
  BY DEF CutTo
<1>5. SetUpTo(s, i) = SetUpTo(s, i - 1) \cup Within(r)
  BY SetUpToNext
<1>6. new.kept \in Ranges /\ SetOf(new.kept) = SetUpTo(s, i) \ Within(ur)
  <2>1. new.kept \in Ranges /\ SetOf(new.kept) = SetOf(acc.kept) \cup SetOf(Cut(ur, r).kept)
    BY <1>2, <1>3, <1>4, JoinRanges
  <2> QED
    BY <1>2, <1>4, <1>5, <2>1
<1>7. new.changed = Cardinality(SetUpTo(s, i) \cap Within(ur))
  <2>1. IsFiniteSet(SetUpTo(s, i - 1)) /\ IsFiniteSet(Within(r))
    <3>1. i - 1 \in 0..Len(s)
      BY <1>1
    <3> QED
      BY <1>1, <3>1, SetUpToFinite, WithinIs
  <2>2. SetUpTo(s, i - 1) \cap Within(r) = {}
    BY DisjointNext
  <2>3. Cardinality(SetUpTo(s, i) \cap Within(ur))
          = Cardinality(SetUpTo(s, i - 1) \cap Within(ur)) + Cardinality(Within(r) \cap Within(ur))
    <3>1. PICK X, Y, Z : /\ X = SetUpTo(s, i - 1) \cap Within(ur)
                         /\ Y = Within(r) \cap Within(ur)
                         /\ Z = SetUpTo(s, i) \cap Within(ur)
      OBVIOUS
    <3>2. X \cap Y = {} /\ Z = X \cup Y
      BY <1>5, <2>2, <3>1
    <3>3. IsFiniteSet(X) /\ IsFiniteSet(Y)
      <4>1. X \in SUBSET SetUpTo(s, i - 1) /\ Y \in SUBSET Within(r)
        BY <3>1
      <4> QED
        BY <2>1, <4>1, FS_Subset
    <3>4. Cardinality(Z) = Cardinality(X) + Cardinality(Y)
      BY <3>2, <3>3, SizesAdd
    <3> QED
      BY <3>1, <3>4
  <2> QED
    BY <1>2, <1>3, <1>4, <2>3
<1>8. InOrder(new.kept)
  <2>1. Under(acc.kept, r.low)
    <3>1. i - 1 \in 0..Len(s) /\ i - 1 < i
      BY <1>1
    <3>2. SetOf(acc.kept) \subseteq SetUpTo(s, i - 1)
      BY <1>4
    <3> QED
      BY <1>4, <3>1, <3>2, UnderNext
  <2>2. ASSUME NEW x \in 1..Len(acc.kept), NEW y \in 1..Len(Cut(ur, r).kept)
        PROVE  acc.kept[x].high + 1 < Cut(ur, r).kept[y].low
    <3> DEFINE c == Cut(ur, r).kept[y]
    <3>1. c \in Rng /\ c.low <= c.high
      BY <1>2, RangesAre DEF InOrder
    <3>2. c.low \in Within(c)
      BY <3>1, WithinIs
    <3>3. c.low \in Within(r)
      BY <1>2, <3>2, InSet
    <3>4. r.low <= c.low /\ c.low \in Nat /\ r.low \in Nat
      BY <1>1, <3>1, <3>3, WithinIs
    <3>5. acc.kept[x].high \in Nat /\ acc.kept[x].high + 1 < r.low
      BY <1>4, <2>1, RangesAre DEF Under
    <3>6. \A p, q, m \in Nat : p + 1 < q /\ q <= m => p + 1 < m
      OBVIOUS
    <3> QED
      BY <3>4, <3>5, <3>6
  <2> QED
    BY <1>2, <1>3, <1>4, <2>2, JoinInOrder
<1> QED
  BY <1>6, <1>7, <1>8 DEF CutTo

\* The loop of unmark_range, turn by turn.
LEMMA UnmarkTurns ==
  ASSUME NEW s \in Ranges, InOrder(s), NEW ur \in Rng, ur.low <= ur.high
  PROVE  \E f : LET a == LowerBound(s, ur.low)
                    T == Touched(s, ur)
                IN /\ f[0] = [kept |-> Before(s, ur), changed |-> 0]
                   /\ \A k \in 1..T : f[k] = UnmarkTurn(ur, f[k - 1], s[a + k - 1])
                   /\ UnmarkRange(s, ur) = [marked |-> f[T].kept \o After(s, ur),
                                            changed |-> f[T].changed]
<1> DEFINE a == LowerBound(s, ur.low)
           T == Touched(s, ur)
           V == [kept : Ranges, changed : Nat]
           start == [kept |-> Before(s, ur), changed |-> 0]
           G == [x \in (1..T) \X V |-> UnmarkTurn(ur, x[2], s[a + x[1] - 1])]
           over[k \in 0..T] ==
             IF k = 0 THEN start ELSE UnmarkTurn(ur, over[k - 1], s[a + k - 1])
<1>1. /\ a \in 1..(Len(s) + 1) /\ T \in Nat /\ a - 1 + T \in 0..Len(s) /\ Len(s) \in Nat
  BY TouchedIs, RangesAre
<1>2. start \in V
  <2>1. Before(s, ur) \in Ranges
    <3>1. 1 \in 1..(Len(s) + 1) /\ a - 1 \in 0..Len(s) /\ 1 <= a - 1 + 1
      BY <1>1
    <3> QED
      BY <3>1, SubRanges DEF Before
  <2> QED
    BY <2>1
<1>3. ASSUME NEW k \in 1..T, NEW v \in V PROVE UnmarkTurn(ur, v, s[a + k - 1]) \in V
  <2> DEFINE r == s[a + k - 1]
  <2>1. a + k - 1 \in 1..Len(s)
    BY <1>1
  <2>2. r \in Rng /\ r.low <= r.high
    BY <2>1, RangesAre DEF InOrder
  <2>3. Cut(ur, r).kept \in Ranges /\ Cut(ur, r).changed = Cardinality(Within(r) \cap Within(ur))
    BY <2>2, CutIs
  <2>4. Cardinality(Within(r) \cap Within(ur)) \in Nat
    <3>1. Within(r) \cap Within(ur) \in SUBSET Within(r) /\ IsFiniteSet(Within(r))
      BY <2>2, WithinIs
    <3> QED
      BY <3>1, FS_Subset, FS_CardinalityType
  <2>5. v.kept \o Cut(ur, r).kept \in Ranges
    BY <2>3, JoinRanges
  <2>6. v.changed + Cut(ur, r).changed \in Nat
    BY <2>3, <2>4
  <2> QED
    BY <2>5, <2>6 DEF UnmarkTurn
<1>4. G \in [(1..T) \X V -> V]
  BY <1>3
<1>5. PICK c \in [0..T -> V] : Loops(c, T, start, G)
  <2> HIDE DEF G, V, start, T
  <2> QED
    BY <1>1, <1>2, <1>4, Loop
<1>6. \A k \in 1..T : G[<<k, c[k - 1]>>] = UnmarkTurn(ur, c[k - 1], s[a + k - 1])
  <2> TAKE k \in 1..T
  <2>1. k - 1 \in 0..T
    BY <1>1
  <2>2. c[k - 1] \in V
    BY <2>1
  <2> HIDE DEF V
  <2> QED
    BY <2>2
<1>7. c = [k \in 0..T |-> IF k = 0 THEN start ELSE UnmarkTurn(ur, c[k - 1], s[a + k - 1])]
  <2>1. \A k \in 0..T : k # 0 => k \in 1..T
    BY <1>1
  <2> HIDE DEF G, V, start, T, a
  <2> QED
    BY <1>5, <1>6, <2>1 DEF Loops
<1>8. UnmarkRange(s, ur) = [marked |-> over[T].kept \o After(s, ur), changed |-> over[T].changed]
  BY Zenon DEF UnmarkRange
<1> HIDE DEF G, V, over
<1>9. over = [k \in 0..T |-> IF k = 0 THEN start ELSE UnmarkTurn(ur, over[k - 1], s[a + k - 1])]
  BY <1>7, Zenon DEF over
<1>10. over[0] = start /\ \A k \in 1..T : over[k] = UnmarkTurn(ur, over[k - 1], s[a + k - 1])
  <2>1. 0 \in 0..T /\ \A k \in 1..T : k \in 0..T /\ k # 0
    BY <1>1
  <2> HIDE DEF T, start
  <2> QED
    BY <1>9, <2>1
<1> QED
  BY <1>8, <1>10

\* What unmark_range leaves and what it returns.
LEMMA Unmarks ==
  ASSUME NEW s \in Ranges, InOrder(s), NEW ur \in Rng, ur.low <= ur.high
  PROVE  LET done == UnmarkRange(s, ur)
         IN  /\ done.marked \in Ranges /\ InOrder(done.marked)
             /\ SetOf(done.marked) = SetOf(s) \ Within(ur)
             /\ done.changed = Cardinality(SetOf(s) \cap Within(ur))
<1> DEFINE a == LowerBound(s, ur.low)
           T == Touched(s, ur)
           e == a - 1 + T
<1>1. PICK f : /\ f[0] = [kept |-> Before(s, ur), changed |-> 0]
               /\ \A k \in 1..T : f[k] = UnmarkTurn(ur, f[k - 1], s[a + k - 1])
               /\ UnmarkRange(s, ur) = [marked |-> f[T].kept \o After(s, ur),
                                        changed |-> f[T].changed]
  BY UnmarkTurns
<1>2. /\ a \in 1..(Len(s) + 1) /\ T \in Nat /\ e \in 0..Len(s) /\ Len(s) \in Nat
      /\ \A i \in 1..(a - 1) : s[i].high < ur.low
      /\ \A i \in (e + 1)..Len(s) : ur.high + 1 < s[i].low
  BY TouchedIs, RangesAre
<1>3. CutTo(s, ur, a - 1, f[0])
  <2>1. 1 \in 1..(Len(s) + 1) /\ a - 1 \in 0..Len(s) /\ 1 <= a - 1 + 1
    BY <1>2
  <2>2. f[0].kept = SubSeq(s, 1, a - 1) /\ f[0].changed = 0
    <3>1. f[0] = [kept |-> Before(s, ur), changed |-> 0]
      BY <1>1
    <3>2. Before(s, ur) = SubSeq(s, 1, a - 1)
      BY DEF Before
    <3>3. f[0].kept = Before(s, ur) /\ f[0].changed = 0
      BY <3>1
    <3> QED
      BY <3>2, <3>3
  <2>3. /\ SubSeq(s, 1, a - 1) \in Ranges /\ InOrder(SubSeq(s, 1, a - 1))
        /\ \A n : n \in SetOf(SubSeq(s, 1, a - 1)) <=> \E i \in 1..(a - 1) : n \in Within(s[i])
    BY <2>1, SubRanges, SubInOrder
  <2>4. SetOf(SubSeq(s, 1, a - 1)) = SetUpTo(s, a - 1)
    BY <2>3, InSetUpTo
  <2>5. ASSUME NEW n \in SetUpTo(s, a - 1) PROVE n \notin Within(ur)
    <3>1. PICK i \in 1..(a - 1) : n \in Within(s[i])
      BY InSetUpTo
    <3>2. i \in 1..Len(s) /\ s[i].high < ur.low
      BY <1>2
    <3>3. s[i] \in Rng
      BY <3>2, RangesAre
    <3>4. n \in Nat /\ n <= s[i].high /\ s[i].high \in Nat /\ ur.low \in Nat
      BY <3>1, <3>3, WithinIs
    <3>5. ~(ur.low <= n)
      BY <3>2, <3>4
    <3> QED
      BY <3>5, WithinIs
  <2>6. SetUpTo(s, a - 1) \ Within(ur) = SetUpTo(s, a - 1) /\ SetUpTo(s, a - 1) \cap Within(ur) = {}
    BY <2>5
  <2>7. Cardinality(SetUpTo(s, a - 1) \cap Within(ur)) = 0
    BY <2>6, FS_EmptySet
  <2> QED
    BY <2>2, <2>3, <2>4, <2>6, <2>7 DEF CutTo
<1>4. CutTo(s, ur, e, f[T])
  <2> DEFINE S == {k \in 0..T : CutTo(s, ur, a - 1 + k, f[k])}
  <2>1. 0 \in S
    <3>1. 0 \in 0..T /\ a - 1 + 0 = a - 1
      BY <1>2
    <3> QED
      BY <1>3, <3>1
  <2>2. ASSUME NEW k \in 1..T, k - 1 \in S PROVE k \in S
    <3>1. a + k - 1 \in 1..Len(s) /\ a - 1 + (k - 1) = a + k - 1 - 1 /\ a - 1 + k = a + k - 1
      <4>1. /\ a \in Nat /\ a >= 1 /\ T \in Nat /\ Len(s) \in Nat
            /\ a - 1 + T <= Len(s) /\ k \in Nat /\ 1 <= k /\ k <= T
        BY <1>2
      <4> HIDE DEF a, T
      <4> QED
        BY <4>1
    <3>2. PICK i \in 1..Len(s) : i = a + k - 1
      BY <3>1
    <3>3. CutTo(s, ur, i - 1, f[k - 1])
      <4>1. CutTo(s, ur, a - 1 + (k - 1), f[k - 1])
        BY <2>2
      <4>2. a - 1 + (k - 1) = i - 1
        BY <1>2, <3>2
      <4> QED
        BY <4>1, <4>2
    <3>5. CutTo(s, ur, i, UnmarkTurn(ur, f[k - 1], s[i]))
      BY <3>3, UnmarkTurnIs
    <3>4. k \in 0..T
      BY <1>2
    <3> QED
      BY <1>1, <3>1, <3>2, <3>4, <3>5
  <2>3. T \in 0..T
    BY <1>2
  <2>4. T \in S
    <3> HIDE DEF S
    <3> QED
      BY <1>2, <2>1, <2>2, <2>3, UpTo
  <2> QED
    BY <2>4
<1>5. /\ f[T].kept \in Ranges /\ InOrder(f[T].kept)
      /\ SetOf(f[T].kept) = SetUpTo(s, e) \ Within(ur)
      /\ f[T].changed = Cardinality(SetUpTo(s, e) \cap Within(ur))
  BY <1>4 DEF CutTo
<1> DEFINE rest == After(s, ur)
<1>6. /\ rest \in Ranges /\ InOrder(rest)
      /\ \A n : n \in SetOf(rest) <=> \E i \in (e + 1)..Len(s) : n \in Within(s[i])
      /\ \A j \in 1..Len(rest) : e + j \in (e + 1)..Len(s) /\ rest[j] = s[e + j]
  BY AfterIs
<1>7. ASSUME NEW n PROVE n \in SetOf(s) <=> n \in SetUpTo(s, e) \cup SetOf(rest)
  <2>1. \A i \in 1..Len(s) : i \in 1..e \/ i \in (e + 1)..Len(s)
    BY <1>2
  <2>2. /\ \A i \in 1..e : i \in 1..Len(s)
        /\ \A i \in (e + 1)..Len(s) : i \in 1..Len(s)
    BY <1>2
  <2> QED
    BY <1>6, <2>1, <2>2, InSet, InSetUpTo
<1>8. ASSUME NEW n \in SetOf(rest) PROVE n \notin Within(ur)
  <2>1. PICK i \in (e + 1)..Len(s) : n \in Within(s[i])
    BY <1>6
  <2>2. i \in 1..Len(s) /\ ur.high + 1 < s[i].low
    BY <1>2
  <2>3. s[i] \in Rng
    BY <2>2, RangesAre
  <2>4. n \in Nat /\ s[i].low <= n /\ s[i].low \in Nat /\ ur.high \in Nat
    BY <2>1, <2>3, WithinIs
  <2>5. ~(n <= ur.high)
    BY <2>2, <2>4
  <2> QED
    BY <2>5, WithinIs
<1>9. InOrder(f[T].kept \o rest)
  <2>1. SetOf(f[T].kept) \subseteq SetUpTo(s, e)
    BY <1>5
  <2>2. ASSUME NEW x \in 1..Len(f[T].kept), NEW y \in 1..Len(rest)
        PROVE  f[T].kept[x].high + 1 < rest[y].low
    <3>1. e + y \in 1..Len(s) /\ e < e + y /\ rest[y] = s[e + y]
      BY <1>2, <1>6
    <3>2. Under(f[T].kept, s[e + y].low)
      BY <1>2, <1>5, <2>1, <3>1, UnderNext
    <3> QED
      BY <3>1, <3>2 DEF Under
  <2> QED
    BY <1>5, <1>6, <2>2, JoinInOrder
<1>10. /\ f[T].kept \o rest \in Ranges
       /\ SetOf(f[T].kept \o rest) = SetOf(f[T].kept) \cup SetOf(rest)
  BY <1>5, <1>6, JoinRanges
<1>11. SetOf(f[T].kept \o rest) = SetOf(s) \ Within(ur)
  BY <1>5, <1>7, <1>8, <1>10
<1>12. SetOf(s) \cap Within(ur) = SetUpTo(s, e) \cap Within(ur)
  BY <1>7, <1>8
<1>13. /\ UnmarkRange(s, ur).marked = f[T].kept \o rest
       /\ UnmarkRange(s, ur).changed = f[T].changed
  <2>1. UnmarkRange(s, ur) = [marked |-> f[T].kept \o rest, changed |-> f[T].changed]
    BY <1>1
  <2> HIDE DEF T, rest
  <2> QED
    BY <2>1
<1> HIDE DEF T, rest
<1> QED
  BY <1>5, <1>9, <1>10, <1>11, <1>12, <1>13

----------------------------------------------------------------------------
(* Merging.                                                                *)

\* What joins: all numbers of the one are below those of the other, not next to
\* them.
LEMMA JoinBySets ==
  ASSUME NEW s \in Ranges, NEW t \in Ranges, InOrder(s), InOrder(t),
         \A m \in SetOf(s), n \in SetOf(t) : m + 1 < n
  PROVE  InOrder(s \o t)
<1>1. ASSUME NEW i \in 1..Len(s), NEW j \in 1..Len(t) PROVE s[i].high + 1 < t[j].low
  <2>1. s[i] \in Rng /\ s[i].low <= s[i].high /\ t[j] \in Rng /\ t[j].low <= t[j].high
    BY RangesAre DEF InOrder
  <2>2. s[i].high \in Within(s[i]) /\ t[j].low \in Within(t[j])
    BY <2>1, WithinIs
  <2>3. s[i].high \in SetOf(s) /\ t[j].low \in SetOf(t)
    BY <2>2, InSet
  <2> QED
    BY <2>3
<1> QED
  BY <1>1, JoinInOrder

LEMMA AppendInOrder ==
  ASSUME NEW s \in Ranges, NEW r \in Rng, InOrder(s), r.low <= r.high, Under(s, r.low)
  PROVE  InOrder(Append(s, r))
<1>1. <<r>> \in Ranges /\ Len(<<r>>) = 1 /\ <<r>>[1] = r /\ InOrder(<<r>>)
  BY OneRange
<1>2. Append(s, r) = s \o <<r>>
  BY AppendIsConcat DEF Ranges
<1>3. \A i \in 1..Len(s), j \in 1..Len(<<r>>) : s[i].high + 1 < <<r>>[j].low
  BY <1>1 DEF Under
<1> QED
  BY <1>1, <1>2, <1>3, JoinInOrder

\* The last of some ranges in order, and those before it.
LEMMA FrontIs ==
  ASSUME NEW s \in Ranges, s # <<>>
  PROVE  /\ Len(s) \in Nat \ {0} /\ Last(s) = s[Len(s)] /\ Last(s) \in Rng
         /\ Front(s) \in Ranges /\ Len(Front(s)) = Len(s) - 1
         /\ \A i \in 1..(Len(s) - 1) : Front(s)[i] = s[i]
         /\ SetOf(s) = SetOf(Front(s)) \cup Within(Last(s))
         /\ InOrder(s) => InOrder(Front(s)) /\ Under(Front(s), Last(s).low)
<1>1. Len(s) \in Nat \ {0}
  BY EmptySeq DEF Ranges
<1>2. 1 \in 1..(Len(s) + 1) /\ Len(s) - 1 \in 0..Len(s) /\ 1 <= Len(s) - 1 + 1
      /\ Len(s) \in 1..Len(s)
  BY <1>1
<1>3. /\ SubSeq(s, 1, Len(s) - 1) \in Ranges
      /\ Len(SubSeq(s, 1, Len(s) - 1)) = Len(s) - 1 + 1 - 1
      /\ \A i \in 1..(Len(s) - 1 + 1 - 1) : SubSeq(s, 1, Len(s) - 1)[i] = s[1 + i - 1]
      /\ \A n : n \in SetOf(SubSeq(s, 1, Len(s) - 1))
                  <=> \E i \in 1..(Len(s) - 1) : n \in Within(s[i])
      /\ InOrder(s) => InOrder(SubSeq(s, 1, Len(s) - 1))
  BY <1>2, SubRanges, SubInOrder
<1>4. Front(s) = SubSeq(s, 1, Len(s) - 1) /\ Last(s) = s[Len(s)]
  BY DEF Front, Last
<1>5. Last(s) \in Rng
  BY <1>2, <1>4, RangesAre
<1>6. /\ Front(s) \in Ranges /\ Len(Front(s)) = Len(s) - 1
      /\ \A i \in 1..(Len(s) - 1) : Front(s)[i] = s[i]
  BY <1>1, <1>3, <1>4
<1>7. ASSUME NEW n PROVE n \in SetOf(s) <=> n \in SetOf(Front(s)) \cup Within(Last(s))
  <2>1. \A i \in 1..Len(s) : i \in 1..(Len(s) - 1) \/ i = Len(s)
    BY <1>1
  <2>2. \A i \in 1..(Len(s) - 1) : i \in 1..Len(s)
    BY <1>1
  <2>3. n \in SetOf(Front(s)) <=> \E i \in 1..(Len(s) - 1) : n \in Within(s[i])
    BY <1>3, <1>4
  <2> QED
    BY <1>2, <1>4, <2>1, <2>2, <2>3, InSet
<1>8. ASSUME InOrder(s) PROVE Under(Front(s), Last(s).low)
  <2>1. ASSUME NEW i \in 1..Len(Front(s)) PROVE Front(s)[i].high + 1 < Last(s).low
    <3>1. i \in 1..(Len(s) - 1) /\ i \in 1..Len(s) /\ i < Len(s)
      BY <1>1, <1>6
    <3> QED
      BY <1>2, <1>4, <1>6, <1>8, <3>1 DEF InOrder
  <2> QED
    BY <2>1 DEF Under
<1> QED
  BY <1>1, <1>3, <1>4, <1>5, <1>6, <1>7, <1>8

LEMMA MergeType ==
  ASSUME NEW done \in Ranges, NEW r \in Rng
  PROVE  Merge(done, r) \in Ranges
<1>1. CASE done # <<>> /\ Last(done).high + 1 = r.low
  <2>1. Last(done) \in Rng /\ Front(done) \in Ranges
    BY <1>1, FrontIs
  <2>2. [r EXCEPT !.low = Last(done).low] \in Rng
    BY <2>1 DEF Rng
  <2> QED
    BY <1>1, <2>1, <2>2, AppendRange DEF Merge
<1>2. CASE ~(done # <<>> /\ Last(done).high + 1 = r.low)
  BY <1>2, AppendRange DEF Merge
<1> QED
  BY <1>1, <1>2

LEMMA MergeTurns ==
  ASSUME NEW t \in Ranges
  PROVE  \E f : /\ f[0] = <<>> /\ Merged(t) = f[Len(t)]
                /\ \A k \in 1..Len(t) : f[k] = Merge(f[k - 1], t[k])
<1> DEFINE T == Len(t)
           G == [x \in (1..T) \X Ranges |-> Merge(x[2], t[x[1]])]
           merged[k \in 0..T] == IF k = 0 THEN <<>> ELSE Merge(merged[k - 1], t[k])
<1>1. T \in Nat /\ \A k \in 1..T : t[k] \in Rng
  BY RangesAre
<1>2. <<>> \in Ranges
  BY NoRanges
<1>3. G \in [(1..T) \X Ranges -> Ranges]
  BY <1>1, MergeType
<1>4. PICK c \in [0..T -> Ranges] : Loops(c, T, <<>>, G)
  <2> HIDE DEF G, T
  <2> QED
    BY <1>1, <1>2, <1>3, Loop
<1>5. \A k \in 1..T : G[<<k, c[k - 1]>>] = Merge(c[k - 1], t[k])
  <2> TAKE k \in 1..T
  <2>1. k - 1 \in 0..T
    BY <1>1
  <2>2. c[k - 1] \in Ranges
    BY <2>1
  <2> QED
    BY <2>2
<1>6. c = [k \in 0..T |-> IF k = 0 THEN <<>> ELSE Merge(c[k - 1], t[k])]
  <2>1. \A k \in 0..T : k # 0 => k \in 1..T
    BY <1>1
  <2> HIDE DEF G, T
  <2> QED
    BY <1>4, <1>5, <2>1 DEF Loops
<1>7. Merged(t) = merged[T]
  BY Zenon DEF Merged
<1> HIDE DEF G, merged
<1>8. merged = [k \in 0..T |-> IF k = 0 THEN <<>> ELSE Merge(merged[k - 1], t[k])]
  BY <1>6, Zenon DEF merged
<1>9. merged[0] = <<>> /\ \A k \in 1..T : merged[k] = Merge(merged[k - 1], t[k])
  <2>1. 0 \in 0..T /\ \A k \in 1..T : k \in 0..T /\ k # 0
    BY <1>1
  <2> HIDE DEF T
  <2> QED
    BY <1>8, <2>1
<1> QED
  BY <1>7, <1>9

\* After k turns what is done is in order and stands for the first k ranges.
MergedTo(t, k, done) ==
  /\ done \in Ranges /\ InOrder(done) /\ SetOf(done) = SetUpTo(t, k)
  /\ IF k = 0 THEN done = <<>> ELSE done # <<>> /\ Last(done).high = t[k].high

LEMMA MergeTurnIs ==
  ASSUME NEW t \in Ranges, Apart(t), NEW k \in 1..Len(t), NEW done, MergedTo(t, k - 1, done)
  PROVE  MergedTo(t, k, Merge(done, t[k]))
<1> DEFINE r == t[k]
<1>1. r \in Rng /\ r.low <= r.high /\ Len(t) \in Nat /\ r.low \in Nat /\ r.high \in Nat
  BY RangesAre DEF Apart
<1>2. done \in Ranges /\ InOrder(done) /\ SetOf(done) = SetUpTo(t, k - 1)
  BY DEF MergedTo
<1>3. SetUpTo(t, k) = SetOf(done) \cup Within(r)
  BY <1>2, SetUpToNext
<1>4. ASSUME done # <<>>
      PROVE  Last(done).high = t[k - 1].high /\ Last(done).high < r.low
  <2>1. k - 1 # 0
    BY <1>4 DEF MergedTo
  <2>2. k - 1 \in 1..Len(t) /\ k - 1 < k
    BY <1>1, <2>1
  <2>3. t[k - 1].high < r.low
    BY <2>2 DEF Apart
  <2> QED
    BY <2>1, <2>3 DEF MergedTo
<1>5. CASE done # <<>> /\ Last(done).high + 1 = r.low
  <2> DEFINE last == Last(done)
             q == [r EXCEPT !.low = last.low]
             new == Append(Front(done), q)
  <2>1. /\ last \in Rng /\ Front(done) \in Ranges /\ InOrder(Front(done))
        /\ Under(Front(done), last.low) /\ SetOf(done) = SetOf(Front(done)) \cup Within(last)
    BY <1>2, <1>5, FrontIs
  <2>2. last.low <= last.high /\ last.low \in Nat /\ last.high \in Nat
    <3>1. Len(done) \in 1..Len(done) /\ last = done[Len(done)]
      BY <1>2, <1>5, FrontIs
    <3> QED
      BY <1>2, <2>1, <3>1, WithinIs DEF InOrder
  <2>3. q \in Rng /\ q.low = last.low /\ q.high = r.high
    BY <1>1, <2>2 DEF Rng
  <2>4. q.low <= q.high
    BY <1>1, <1>5, <2>2, <2>3
  <2>5. ASSUME NEW n PROVE n \in Within(q) <=> n \in Within(last) \cup Within(r)
    <3>1. n \in Within(q) <=> n \in Nat /\ last.low <= n /\ n <= r.high
      BY <2>3, WithinIs
    <3>2. n \in Within(last) <=> n \in Nat /\ last.low <= n /\ n <= last.high
      BY <2>1, WithinIs
    <3>3. n \in Within(r) <=> n \in Nat /\ r.low <= n /\ n <= r.high
      BY <1>1, WithinIs
    <3> QED
      BY <1>1, <1>5, <2>2, <3>1, <3>2, <3>3
  <2> HIDE DEF q, last
  <2>6. new \in Ranges /\ SetOf(new) = SetOf(Front(done)) \cup Within(q)
        /\ Len(new) = Len(Front(done)) + 1 /\ new[Len(Front(done)) + 1] = q
    BY <2>1, <2>3, AppendRange
  <2>7. InOrder(new)
    BY <2>1, <2>3, <2>4, AppendInOrder
  <2>8. SetOf(new) = SetUpTo(t, k)
    BY <1>3, <2>1, <2>5, <2>6
  <2>9. new # <<>> /\ Last(new).high = t[k].high
    <3>1. Len(Front(done)) \in Nat
      BY <2>1, RangesAre
    <3>2. Len(new) # 0
      BY <2>6, <3>1
    <3>3. new # <<>>
      BY <3>2, NoRanges
    <3> QED
      BY <2>3, <2>6, <3>3 DEF Last
  <2>10. Merge(done, t[k]) = new
    BY <1>5 DEF Merge, q, last
  <2> QED
    BY <1>1, <2>6, <2>7, <2>8, <2>9, <2>10 DEF MergedTo
<1>6. CASE ~(done # <<>> /\ Last(done).high + 1 = r.low)
  <2> DEFINE new == Append(done, r)
  <2>1. new \in Ranges /\ SetOf(new) = SetOf(done) \cup Within(r)
        /\ Len(new) = Len(done) + 1 /\ new[Len(done) + 1] = r
    BY <1>1, <1>2, AppendRange
  <2>2. Under(done, r.low)
    <3> SUFFICES ASSUME NEW i \in 1..Len(done) PROVE done[i].high + 1 < r.low
      BY DEF Under
    <3>1. done # <<>> /\ Len(done) \in Nat
      BY <1>2, NoRanges, RangesAre
    <3>2. Last(done) = done[Len(done)] /\ Last(done) \in Rng /\ Len(done) \in 1..Len(done)
      BY <1>2, <3>1, FrontIs
    <3>3. Last(done).high + 1 < r.low /\ Last(done).high \in Nat
      <4>1. Last(done).high \in Nat
        BY <3>2, WithinIs
      <4> QED
        BY <1>1, <1>4, <1>6, <3>1, <4>1
    <3>4. CASE i = Len(done)
      BY <3>2, <3>3, <3>4
    <3>5. CASE i # Len(done)
      <4>1. i < Len(done)
        BY <3>1, <3>5
      <4>2. done[i].high + 1 < Last(done).low /\ Last(done).low <= Last(done).high
        BY <1>2, <3>2, <4>1 DEF InOrder
      <4>3. done[i].high \in Nat /\ Last(done).low \in Nat
        BY <1>2, <3>2, RangesAre, WithinIs
      <4>4. \A p, q, x, y \in Nat : p + 1 < q /\ q <= x /\ x + 1 < y => p + 1 < y
        OBVIOUS
      <4> QED
        BY <1>1, <3>3, <4>2, <4>3, <4>4
    <3> QED
      BY <3>4, <3>5
  <2>3. InOrder(new)
    BY <1>1, <1>2, <2>2, AppendInOrder
  <2>4. new # <<>> /\ Last(new).high = t[k].high
    <3>1. Len(done) \in Nat
      BY <1>2, RangesAre
    <3>2. Len(new) # 0
      BY <2>1, <3>1
    <3>3. new # <<>>
      BY <3>2, NoRanges
    <3> QED
      BY <2>1, <3>3 DEF Last
  <2>5. Merge(done, t[k]) = new
    BY <1>6 DEF Merge
  <2> QED
    BY <1>1, <1>3, <2>1, <2>3, <2>4, <2>5 DEF MergedTo
<1> QED
  BY <1>5, <1>6

\* The second loop makes ranges that may touch into ranges that do not.
LEMMA MergedIs ==
  ASSUME NEW t \in Ranges, Apart(t)
  PROVE  Merged(t) \in Ranges /\ InOrder(Merged(t)) /\ SetOf(Merged(t)) = SetOf(t)
<1>1. PICK f : /\ f[0] = <<>> /\ Merged(t) = f[Len(t)]
               /\ \A k \in 1..Len(t) : f[k] = Merge(f[k - 1], t[k])
  BY MergeTurns
<1> DEFINE T == Len(t)
           S == {k \in 0..T : MergedTo(t, k, f[k])}
<1>2. T \in Nat
  BY RangesAre
<1>3. 0 \in S
  <2>1. SetUpTo(t, 0) = {}
    BY InSetUpTo
  <2>2. 0 \in 0..T
    BY <1>2
  <2> QED
    BY <1>1, <2>1, <2>2, NoRanges DEF MergedTo
<1>4. ASSUME NEW k \in 1..T, k - 1 \in S PROVE k \in S
  <2>1. MergedTo(t, k, Merge(f[k - 1], t[k]))
    BY <1>4, MergeTurnIs
  <2>2. k \in 0..T
    BY <1>2
  <2> QED
    BY <1>1, <2>1, <2>2
<1>5. T \in S
  <2>1. T \in 0..T
    BY <1>2
  <2> HIDE DEF S
  <2> QED
    BY <1>2, <1>3, <1>4, <2>1, UpTo
<1>6. SetUpTo(t, T) = SetOf(t)
  <2>1. ASSUME NEW n PROVE n \in SetUpTo(t, T) <=> n \in SetOf(t)
    BY InSet, InSetUpTo
  <2> QED
    BY <2>1
<1> QED
  BY <1>1, <1>5, <1>6 DEF MergedTo

\* The ranges from first to end may touch each other, no others do.
Fits(all, first, end) ==
  \A i, j \in 1..Len(all) :
    /\ all[i].low <= all[i].high
    /\ i < j => /\ all[i].high < all[j].low
                /\ i < first \/ end < j => all[i].high + 1 < all[j].low

\* Numbers of ranges with a gap between are apart.
LEMMA GapApart ==
  ASSUME NEW q \in Rng, NEW r \in Rng, q.high + 1 < r.low,
         NEW m \in Within(q), NEW n \in Within(r)
  PROVE  m + 1 < n
<1>1. /\ m \in Nat /\ n \in Nat /\ q.high \in Nat /\ r.low \in Nat
      /\ m <= q.high /\ r.low <= n
  BY WithinIs
<1> QED
  BY <1>1

\* Merging them puts all in order.
LEMMA Splice ==
  ASSUME NEW all \in Ranges, NEW first \in 1..(Len(all) + 1), NEW end \in 0..Len(all),
         first <= end + 1, Fits(all, first, end)
  PROVE  LET new == SubSeq(all, 1, first - 1) \o Merged(SubSeq(all, first, end))
                      \o SubSeq(all, end + 1, Len(all))
         IN  new \in Ranges /\ InOrder(new) /\ SetOf(new) = SetOf(all)
<1> DEFINE L == Len(all)
           A == SubSeq(all, 1, first - 1)
           B == SubSeq(all, first, end)
           C == SubSeq(all, end + 1, L)
<1>1. L \in Nat /\ \A i \in 1..L : all[i] \in Rng
  BY RangesAre
<1>2. /\ 1 \in 1..(L + 1) /\ first - 1 \in 0..L /\ 1 <= first - 1 + 1
      /\ end + 1 \in 1..(L + 1) /\ L \in 0..L /\ end + 1 <= L + 1
  BY <1>1
<1>3. /\ A \in Ranges /\ Len(A) = first - 1 + 1 - 1
      /\ \A i \in 1..(first - 1 + 1 - 1) : 1 + i - 1 \in 1..(first - 1) /\ A[i] = all[1 + i - 1]
      /\ \A n : n \in SetOf(A) <=> \E i \in 1..(first - 1) : n \in Within(all[i])
  BY <1>2, SubRanges
<1>4. /\ B \in Ranges /\ Len(B) = end + 1 - first
      /\ \A i \in 1..(end + 1 - first) :
           first + i - 1 \in first..end /\ B[i] = all[first + i - 1]
      /\ \A n : n \in SetOf(B) <=> \E i \in first..end : n \in Within(all[i])
  BY SubRanges
<1>5. /\ C \in Ranges /\ Len(C) = L + 1 - (end + 1)
      /\ \A i \in 1..(L + 1 - (end + 1)) :
           end + 1 + i - 1 \in (end + 1)..L /\ C[i] = all[end + 1 + i - 1]
      /\ \A n : n \in SetOf(C) <=> \E i \in (end + 1)..L : n \in Within(all[i])
  BY <1>2, SubRanges
<1>6. \A i, j \in 1..L : /\ all[i].low <= all[i].high
                         /\ i < j => /\ all[i].high < all[j].low
                                     /\ i < first \/ end < j => all[i].high + 1 < all[j].low
  BY DEF Fits
<1> HIDE DEF A, B, C
<1>7. InOrder(A)
  <2> SUFFICES ASSUME NEW i \in 1..Len(A), NEW j \in 1..Len(A)
               PROVE  A[i].low <= A[i].high /\ (i < j => A[i].high + 1 < A[j].low)
    BY DEF InOrder
  <2>1. /\ i \in 1..L /\ j \in 1..L /\ i < first /\ A[i] = all[i] /\ A[j] = all[j]
    <3>1. /\ i \in 1..(first - 1 + 1 - 1) /\ j \in 1..(first - 1 + 1 - 1)
          /\ 1 + i - 1 = i /\ 1 + j - 1 = j
      BY <1>3
    <3> QED
      BY <1>1, <1>3, <3>1
  <2> QED
    BY <1>6, <2>1
<1>8. InOrder(C)
  <2> SUFFICES ASSUME NEW i \in 1..Len(C), NEW j \in 1..Len(C)
               PROVE  C[i].low <= C[i].high /\ (i < j => C[i].high + 1 < C[j].low)
    BY DEF InOrder
  <2>1. i \in 1..(L + 1 - (end + 1)) /\ j \in 1..(L + 1 - (end + 1))
    BY <1>5
  <2>2. PICK x, y \in (end + 1)..L : /\ x = end + 1 + i - 1 /\ y = end + 1 + j - 1
                                     /\ C[i] = all[x] /\ C[j] = all[y]
    BY <1>5, <2>1
  <2>3. x \in 1..L /\ y \in 1..L /\ end < y /\ (i < j => x < y)
    BY <1>1, <2>2
  <2> QED
    BY <1>6, <2>2, <2>3
<1>9. Apart(B)
  <2> SUFFICES ASSUME NEW i \in 1..Len(B), NEW j \in 1..Len(B)
               PROVE  B[i].low <= B[i].high /\ (i < j => B[i].high < B[j].low)
    BY DEF Apart
  <2>1. i \in 1..(end + 1 - first) /\ j \in 1..(end + 1 - first)
    BY <1>4
  <2>2. PICK x, y \in first..end : /\ x = first + i - 1 /\ y = first + j - 1
                                   /\ B[i] = all[x] /\ B[j] = all[y]
    BY <1>4, <2>1
  <2>3. x \in 1..L /\ y \in 1..L /\ (i < j => x < y)
    BY <1>1, <2>2
  <2> QED
    BY <1>6, <2>2, <2>3
<1> DEFINE D == Merged(B)
<1>10. D \in Ranges /\ InOrder(D) /\ SetOf(D) = SetOf(B)
  BY <1>4, <1>9, MergedIs
<1> HIDE DEF D
<1>11. ASSUME NEW m \in SetOf(A), NEW n \in SetOf(D) PROVE m + 1 < n
  <2>1. PICK i \in 1..(first - 1) : m \in Within(all[i])
    BY <1>3
  <2>2. PICK j \in first..end : n \in Within(all[j])
    BY <1>4, <1>10
  <2>3. i \in 1..L /\ j \in 1..L /\ i < j /\ i < first
    BY <1>1
  <2>4. all[i].high + 1 < all[j].low
    BY <1>6, <2>3
  <2> QED
    BY <1>1, <2>1, <2>2, <2>3, <2>4, GapApart
<1>12. A \o D \in Ranges /\ InOrder(A \o D) /\ SetOf(A \o D) = SetOf(A) \cup SetOf(B)
  BY <1>3, <1>7, <1>10, <1>11, JoinBySets, JoinRanges
<1>13. ASSUME NEW m \in SetOf(A \o D), NEW n \in SetOf(C) PROVE m + 1 < n
  <2>1. PICK i \in 1..L : i <= end /\ m \in Within(all[i])
    <3>1. CASE m \in SetOf(A)
      <4>1. PICK i \in 1..(first - 1) : m \in Within(all[i])
        BY <1>3, <3>1
      <4>2. i \in 1..L /\ i <= end
        BY <1>1
      <4> QED
        BY <4>1, <4>2
    <3>2. CASE m \in SetOf(B)
      <4>1. PICK i \in first..end : m \in Within(all[i])
        BY <1>4, <3>2
      <4>2. i \in 1..L /\ i <= end
        BY <1>1
      <4> QED
        BY <4>1, <4>2
    <3> QED
      BY <1>12, <3>1, <3>2
  <2>2. PICK j \in (end + 1)..L : n \in Within(all[j])
    BY <1>5
  <2>3. j \in 1..L /\ i < j /\ end < j
    BY <1>1, <2>1
  <2>4. all[i].high + 1 < all[j].low
    BY <1>6, <2>3
  <2> QED
    BY <1>1, <2>1, <2>2, <2>3, <2>4, GapApart
<1>14. /\ (A \o D) \o C \in Ranges /\ InOrder((A \o D) \o C)
       /\ SetOf((A \o D) \o C) = SetOf(A) \cup SetOf(B) \cup SetOf(C)
  BY <1>5, <1>8, <1>12, <1>13, JoinBySets, JoinRanges
<1>15. ASSUME NEW n PROVE n \in SetOf(all) <=> n \in SetOf(A) \cup SetOf(B) \cup SetOf(C)
  <2>1. \A i \in 1..L : i \in 1..(first - 1) \/ i \in first..end \/ i \in (end + 1)..L
    BY <1>1
  <2>2. /\ \A i \in 1..(first - 1) : i \in 1..L
        /\ \A i \in first..end : i \in 1..L
        /\ \A i \in (end + 1)..L : i \in 1..L
    BY <1>1
  <2> QED
    BY <1>3, <1>4, <1>5, <2>1, <2>2, InSet
<1>16. SetOf((A \o D) \o C) = SetOf(all)
  BY <1>14, <1>15
<1> QED
  BY <1>14, <1>16 DEF A, B, C, D

\* If nothing touches, whatever is merged stays in order.
LEMMA InOrderFits ==
  ASSUME NEW all \in Ranges, InOrder(all), NEW first, NEW end
  PROVE  Fits(all, first, end)
<1>1. ASSUME NEW i \in 1..Len(all), NEW j \in 1..Len(all), i < j
      PROVE  all[i].high < all[j].low
  <2>1. all[i].high \in Nat /\ all[j].low \in Nat /\ all[i].high + 1 < all[j].low
    BY <1>1, RangesAre DEF InOrder
  <2> QED
    BY <2>1
<1> QED
  BY <1>1 DEF Fits, InOrder

\* rr is between the ranges of P and of Q, and may touch them.
Between(P, rr, Q) == /\ rr.low <= rr.high /\ InOrder(P) /\ InOrder(Q)
                     /\ \A m \in SetOf(P), n \in Within(rr) : m < n
                     /\ \A m \in Within(rr), n \in SetOf(Q) : m < n
                     /\ \A m \in SetOf(P), n \in SetOf(Q) : m + 1 < n

\* From first to end are the range that follows P, and those next to it.
Reaches(P, all, first, end) ==
  /\ first \in Nat /\ (first <= Len(P) \/ first = 1)
  /\ end \in Nat /\ (end >= Len(P) + 2 \/ end = Len(all))

\* A range between others may touch the one before and the one after it.
LEMMA InsertFits ==
  ASSUME NEW P \in Ranges, NEW Q \in Ranges, NEW rr \in Rng, Between(P, rr, Q),
         NEW first, NEW end, Reaches(P, Append(P, rr) \o Q, first, end)
  PROVE  LET all == Append(P, rr) \o Q
         IN  /\ all \in Ranges /\ Fits(all, first, end)
             /\ Len(all) = Len(P) + 1 + Len(Q)
             /\ SetOf(all) = SetOf(P) \cup Within(rr) \cup SetOf(Q)
<1> PICK all : all = Append(P, rr) \o Q
  OBVIOUS
<1> /\ rr.low <= rr.high /\ InOrder(P) /\ InOrder(Q)
    /\ \A m \in SetOf(P), n \in Within(rr) : m < n
    /\ \A m \in Within(rr), n \in SetOf(Q) : m < n
    /\ \A m \in SetOf(P), n \in SetOf(Q) : m + 1 < n
  BY DEF Between
<1> /\ first \in Nat /\ (first <= Len(P) \/ first = 1)
    /\ end \in Nat /\ (end >= Len(P) + 2 \/ end = Len(all))
  BY DEF Reaches
<1> DEFINE p == Len(P)
           a == p + 1
<1>1. p \in Nat /\ Len(Q) \in Nat /\ rr.low \in Nat /\ rr.high \in Nat
  BY RangesAre, WithinIs
<1> PICK W : W = Append(P, rr)
  OBVIOUS
<1>3. /\ W \in Ranges /\ Len(W) = a
      /\ \A i \in 1..p : W[i] = P[i]
      /\ W[a] = rr
      /\ SetOf(W) = SetOf(P) \cup Within(rr)
  BY AppendRange
<1>4. /\ all \in Ranges /\ Len(all) = a + Len(Q)
      /\ \A i \in 1..a : all[i] = W[i]
      /\ \A i \in 1..Len(Q) : all[a + i] = Q[i]
      /\ SetOf(all) = SetOf(P) \cup Within(rr) \cup SetOf(Q)
  <2>1. all = W \o Q
    OBVIOUS
  <2>2. /\ W \o Q \in Ranges /\ Len(W \o Q) = Len(W) + Len(Q)
        /\ \A i \in 1..Len(W) : (W \o Q)[i] = W[i]
        /\ \A i \in 1..Len(Q) : (W \o Q)[Len(W) + i] = Q[i]
        /\ SetOf(W \o Q) = SetOf(W) \cup SetOf(Q)
    BY <1>3, JoinRanges
  <2> QED
    BY <1>3, <2>1, <2>2
<1>5. /\ \A i \in 1..p : i \in 1..a
      /\ a \in 1..a
  BY <1>1
<1>6. /\ \A i \in 1..p : all[i] = P[i] /\ P[i] \in Rng /\ P[i].low <= P[i].high
      /\ all[a] = rr
      /\ \A i \in 1..Len(Q) : all[a + i] = Q[i] /\ Q[i] \in Rng /\ Q[i].low <= Q[i].high
  BY <1>3, <1>4, <1>5, RangesAre DEF InOrder
<1> HIDE DEF p, a
<1>7. /\ \A i \in 1..p : P[i].high < rr.low /\ P[i].high \in Nat
      /\ \A i \in 1..Len(Q) : rr.high < Q[i].low /\ Q[i].low \in Nat
      /\ \A i \in 1..p, j \in 1..Len(Q) : P[i].high + 1 < Q[j].low
  <2>1. ASSUME NEW i \in 1..p PROVE P[i].high \in SetOf(P) /\ P[i].high \in Nat
    <3> P[i] \in Rng /\ P[i].low <= P[i].high
      BY <1>6
    <3>1. P[i].high \in Within(P[i]) /\ P[i].high \in Nat
      BY WithinIs
    <3>2. i \in 1..Len(P)
      BY DEF p
    <3> QED
      BY <3>1, <3>2, InSet
  <2>2. ASSUME NEW i \in 1..Len(Q) PROVE Q[i].low \in SetOf(Q) /\ Q[i].low \in Nat
    <3> Q[i] \in Rng /\ Q[i].low <= Q[i].high
      BY <1>6
    <3>1. Q[i].low \in Within(Q[i]) /\ Q[i].low \in Nat
      BY WithinIs
    <3> QED
      BY <3>1, InSet
  <2>3. rr.low \in Within(rr) /\ rr.high \in Within(rr)
    BY <1>1, WithinIs
  <2> QED
    BY <2>1, <2>2, <2>3
<1>8. \A i \in 1..Len(all) : i \in 1..p \/ i = a \/ (i - a \in 1..Len(Q) /\ a + (i - a) = i)
  BY <1>1, <1>4 DEF a
<1>9. a = p + 1 /\ Len(all) = a + Len(Q)
  BY <1>4 DEF a
<1>10. ASSUME NEW i \in 1..Len(all) PROVE all[i].low <= all[i].high
  BY <1>6, <1>8
<1>11. ASSUME NEW i \in 1..Len(all), NEW j \in 1..Len(all), i < j
       PROVE  /\ all[i].high < all[j].low
              /\ i < first \/ end < j => all[i].high + 1 < all[j].low
  <2>1. CASE i \in 1..p /\ j \in 1..p
    <3>1. P[i].high + 1 < P[j].low /\ P[j].low \in Nat
      BY <1>6, <1>11, <2>1, WithinIs DEF InOrder, p
    <3>2. P[i].high < P[j].low
      BY <1>7, <2>1, <3>1
    <3> QED
      BY <1>6, <2>1, <3>1, <3>2
  <2>2. CASE i \in 1..p /\ j = a
    <3>1. all[i].high < all[j].low
      BY <1>6, <1>7, <2>2
    <3>2. ASSUME i < first \/ end < j PROVE all[i].high + 1 < all[j].low
      <4>1. i < p
        <5>1. ~(end < j)
          BY <1>1, <1>9, <2>2 DEF p
        <5>2. i < first
          BY <3>2, <5>1
        <5>3. first <= p \/ first = 1
          BY DEF p
        <5> QED
          BY <1>1, <2>2, <5>2, <5>3
      <4>2. p \in 1..p /\ P[i].high + 1 < P[p].low
        <5>1. p \in 1..p
          BY <1>1, <2>2, <4>1
        <5> QED
          BY <2>2, <4>1, <5>1 DEF InOrder, p
      <4>3. P[p].low <= P[p].high /\ P[p].high < rr.low /\ P[p].low \in Nat /\ P[p].high \in Nat
        BY <1>6, <1>7, <4>2, WithinIs
      <4>5. P[i].high + 1 < rr.low
        <5>1. P[i].high \in Nat
          BY <1>7, <2>2
        <5>2. PICK w, x, y, z \in Nat : w = P[i].high /\ x = P[p].low /\ y = P[p].high /\ z = rr.low
          BY <1>1, <4>3, <5>1
        <5>3. w + 1 < x /\ x <= y /\ y < z
          BY <4>2, <4>3, <5>2
        <5>4. w + 1 < z
          BY <5>3
        <5> QED
          BY <5>2, <5>4
      <4> QED
        BY <1>6, <2>2, <4>5
    <3> QED
      BY <3>1, <3>2
  <2>3. CASE i \in 1..p /\ j - a \in 1..Len(Q) /\ a + (j - a) = j
    <3>1. P[i].high + 1 < Q[j - a].low /\ P[i].high \in Nat /\ Q[j - a].low \in Nat
      BY <1>7, <2>3
    <3>2. all[i] = P[i] /\ all[j] = Q[j - a]
      BY <1>6, <2>3
    <3>3. Q[j - a].low \in Nat /\ \A x, y \in Nat : x + 1 < y => x < y
      BY <3>1
    <3>4. P[i].high < Q[j - a].low
      BY <3>1, <3>3
    <3> QED
      BY <3>1, <3>2, <3>4
  <2>4. CASE i = a /\ j - a \in 1..Len(Q) /\ a + (j - a) = j
    <3>1. all[i] = rr /\ all[j] = Q[j - a]
      BY <1>6, <2>4
    <3>2. all[i].high < all[j].low
      BY <1>7, <2>4, <3>1
    <3>3. ASSUME i < first \/ end < j PROVE all[i].high + 1 < all[j].low
      <4>1. ~(i < first)
        BY <1>1, <1>9, <2>4 DEF p
      <4>2. end < j
        BY <3>3, <4>1
      <4>3. end >= p + 2 \/ end = Len(all)
        BY DEF p
      <4>4. 1 \in 1..Len(Q) /\ 1 < j - a
        BY <1>1, <1>9, <2>4, <4>2, <4>3
      <4>5. Q[1].high + 1 < Q[j - a].low
        BY <2>4, <4>4 DEF InOrder
      <4>6. /\ rr.high < Q[1].low /\ Q[1].low <= Q[1].high
            /\ Q[1].low \in Nat /\ Q[1].high \in Nat /\ Q[j - a].low \in Nat
        <5>1. Q[1].high \in Nat
          BY <1>6, <4>4, WithinIs
        <5> QED
          BY <1>6, <1>7, <2>4, <4>4, <5>1
      <4>8. rr.high + 1 < Q[j - a].low
        <5>1. PICK w, x, y, z \in Nat :
                w = rr.high /\ x = Q[1].low /\ y = Q[1].high /\ z = Q[j - a].low
          BY <1>1, <4>6
        <5>2. w < x /\ x <= y /\ y + 1 < z
          BY <4>5, <4>6, <5>1
        <5>3. w + 1 < z
          BY <5>2
        <5> QED
          BY <5>1, <5>3
      <4> QED
        BY <3>1, <4>8
    <3> QED
      BY <3>2, <3>3
  <2>5. CASE /\ i - a \in 1..Len(Q) /\ a + (i - a) = i
             /\ j - a \in 1..Len(Q) /\ a + (j - a) = j
    <3>1. i - a < j - a
      BY <1>1, <1>9, <1>11
    <3>2. Q[i - a].high + 1 < Q[j - a].low /\ Q[i - a].high \in Nat /\ Q[j - a].low \in Nat
      BY <1>6, <2>5, <3>1, WithinIs DEF InOrder
    <3>3. all[i] = Q[i - a] /\ all[j] = Q[j - a]
      BY <1>6, <2>5
    <3>4. Q[i - a].high < Q[j - a].low
      BY <3>2
    <3> QED
      BY <3>2, <3>3, <3>4
  <2>6. ~(i = a /\ j = a) /\ ~(i = a /\ j \in 1..p) /\ ~(i - a \in 1..Len(Q) /\ j \in 1..p)
        /\ ~(i - a \in 1..Len(Q) /\ j = a)
    BY <1>1, <1>9, <1>11
  <2> QED
    BY <1>8, <2>1, <2>2, <2>3, <2>4, <2>5, <2>6
<1>12. Fits(all, first, end)
  BY <1>10, <1>11 DEF Fits
<1> QED
  BY <1>4, <1>9, <1>12 DEF p

LEMMA InsertAllFits ==
  ASSUME NEW P \in Ranges, NEW Q \in Ranges, NEW rr \in Rng, Between(P, rr, Q)
  PROVE  LET all == Append(P, rr) \o Q
         IN  /\ all \in Ranges /\ Len(all) = Len(P) + 1 + Len(Q)
             /\ SetOf(all) = SetOf(P) \cup Within(rr) \cup SetOf(Q)
             /\ \A first, end : Reaches(P, all, first, end) => Fits(all, first, end)
<1> PICK all : all = Append(P, rr) \o Q
  OBVIOUS
<1>1. ASSUME NEW first, NEW end, Reaches(P, all, first, end)
      PROVE  /\ all \in Ranges /\ Len(all) = Len(P) + 1 + Len(Q)
             /\ SetOf(all) = SetOf(P) \cup Within(rr) \cup SetOf(Q)
             /\ Fits(all, first, end)
  BY <1>1, InsertFits
<1>2. Reaches(P, all, 1, Len(P) + 2)
  BY RangesAre DEF Reaches
<1> QED
  BY <1>1, <1>2

\* The larger and the smaller of two numbers.
LEMMA MaxMin ==
  ASSUME NEW x \in Int, NEW y \in Int
  PROVE  /\ Max({x, y}) = IF x >= y THEN x ELSE y
         /\ Min({x, y}) = IF x <= y THEN x ELSE y
BY DEF Max, Min

\* The states of mark_range's first loop.
Turning == [kept : Ranges, changed : Int, found : BOOLEAN]

\* A turn of it keeps ranges.
LEMMA MarkTurnType ==
  ASSUME NEW s \in Ranges, InOrder(s), NEW rr \in Rng, rr.low <= rr.high,
         NEW i \in 1..Len(s), NEW v \in Turning
  PROVE  MarkTurn(s, rr, v, i) \in Turning
<1> DEFINE r == s[i]
           prev == IF v.kept = <<>> THEN rr.low ELSE Last(v.kept).high + 1
           next == IF i = Len(s) THEN rr.high ELSE s[i + 1].low - 1
           left == [r EXCEPT !.low = Max({rr.low, prev})]
           right == [r EXCEPT !.high = Min({rr.high, next})]
<1>1. /\ r \in Rng /\ r.low \in Nat /\ r.high \in Nat /\ Len(s) \in Nat
      /\ rr.low \in Nat /\ rr.high \in Nat
  BY RangesAre, WithinIs
<1>2. v.kept \in Ranges /\ v.changed \in Int /\ v.found \in BOOLEAN
  BY DEF Turning
<1>3. left \in Rng
  <2>1. prev \in Nat
    <3>1. CASE v.kept = <<>>
      BY <1>1, <3>1
    <3>2. CASE v.kept # <<>>
      <4>1. Last(v.kept).high \in Nat
        BY <1>2, <3>2, FrontIs, WithinIs
      <4> QED
        BY <3>2, <4>1
    <3> QED
      BY <3>1, <3>2
  <2> HIDE DEF prev
  <2>2. Max({rr.low, prev}) \in Nat
    BY <1>1, <2>1, MaxMin
  <2> QED
    BY <1>1, <2>2 DEF Rng
<1>4. right \in Rng
  <2>1. next \in Nat
    <3>1. CASE i = Len(s)
      BY <1>1, <3>1
    <3>2. CASE i # Len(s)
      <4>1. i + 1 \in 1..Len(s) /\ i < i + 1
        BY <1>1, <3>2
      <4>2. s[i].high + 1 < s[i + 1].low /\ s[i + 1].low \in Nat
        BY <4>1, RangesAre DEF InOrder
      <4>3. s[i + 1].low - 1 \in Nat
        BY <1>1, <4>2
      <4> QED
        BY <3>2, <4>3
    <3> QED
      BY <3>1, <3>2
  <2> HIDE DEF next
  <2>2. Min({rr.high, next}) = IF rr.high <= next THEN rr.high ELSE next
    <3>1. rr.high \in Int /\ next \in Int
      BY <1>1, <2>1
    <3> QED
      BY <3>1, MaxMin
  <2>3. Min({rr.high, next}) \in Nat
    BY <1>1, <2>1, <2>2
  <2> QED
    BY <1>1, <2>3 DEF Rng
<1>5. /\ Append(v.kept, r) \in Ranges /\ Append(v.kept, left) \in Ranges
      /\ Append(v.kept, right) \in Ranges
  BY <1>1, <1>2, <1>3, <1>4, AppendRange
<1>6. /\ v.changed - Quantity(r) \in Int /\ v.changed - (rr.high + 1 - r.low) \in Int
      /\ v.changed - (r.high + 1 - rr.low) \in Int
  <2>1. v.changed \in Int /\ r.low \in Int /\ r.high \in Int /\ rr.low \in Int /\ rr.high \in Int
    BY <1>1, <1>2
  <2>2. \A x, y, z \in Int : x - (y + 1 - z) \in Int
    OBVIOUS
  <2> HIDE DEF r
  <2> QED
    BY <2>1, <2>2 DEF Quantity
<1>7. \/ MarkTurn(s, rr, v, i) = [v EXCEPT !.changed = @ - Quantity(r)]
      \/ MarkTurn(s, rr, v, i) = [kept |-> Append(v.kept, r), changed |-> 0, found |-> TRUE]
      \/ MarkTurn(s, rr, v, i) = [kept |-> Append(v.kept, left),
                                  changed |-> v.changed - (rr.high + 1 - r.low), found |-> TRUE]
      \/ MarkTurn(s, rr, v, i) = [kept |-> Append(v.kept, right),
                                  changed |-> v.changed - (r.high + 1 - rr.low), found |-> TRUE]
      \/ MarkTurn(s, rr, v, i) = [v EXCEPT !.kept = Append(@, r)]
  BY Zenon DEF MarkTurn
<1> HIDE DEF left, right, r
<1>8. /\ [v EXCEPT !.changed = @ - Quantity(r)] \in Turning
      /\ [v EXCEPT !.kept = Append(@, r)] \in Turning
  BY <1>5, <1>6 DEF Turning
<1>9. ASSUME NEW kept \in Ranges, NEW changed \in Int
      PROVE  [kept |-> kept, changed |-> changed, found |-> TRUE] \in Turning
  BY DEF Turning
<1>10. /\ [kept |-> Append(v.kept, r), changed |-> 0, found |-> TRUE] \in Turning
       /\ [kept |-> Append(v.kept, left),
           changed |-> v.changed - (rr.high + 1 - r.low), found |-> TRUE] \in Turning
       /\ [kept |-> Append(v.kept, right),
           changed |-> v.changed - (r.high + 1 - rr.low), found |-> TRUE] \in Turning
  <2>1. 0 \in Int
    OBVIOUS
  <2> QED
    BY <1>5, <1>6, <1>9, <2>1, Zenon
<1> QED
  BY <1>7, <1>8, <1>10, Zenon

\* The loop, turn by turn.
LEMMA MarkTurns ==
  ASSUME NEW s \in Ranges, InOrder(s), NEW rr \in Rng, rr.low <= rr.high
  PROVE  \E f : LET a == LowerBound(s, rr.low)
                    T == Touched(s, rr)
                IN /\ f[0] = [kept |-> Before(s, rr), changed |-> Quantity(rr), found |-> FALSE]
                   /\ \A k \in 1..T : f[k] = MarkTurn(s, rr, f[k - 1], a + k - 1)
                   /\ MarkOver(s, rr) = f[T]
                   /\ f[T] \in Turning
<1> DEFINE a == LowerBound(s, rr.low)
           T == Touched(s, rr)
           start == [kept |-> Before(s, rr), changed |-> Quantity(rr), found |-> FALSE]
           G == [x \in (1..T) \X Turning |-> MarkTurn(s, rr, x[2], a + x[1] - 1)]
           over[k \in 0..T] ==
             IF k = 0 THEN start ELSE MarkTurn(s, rr, over[k - 1], a + k - 1)
<1>1. /\ a \in 1..(Len(s) + 1) /\ T \in Nat /\ a - 1 + T \in 0..Len(s) /\ Len(s) \in Nat
  BY TouchedIs, RangesAre
<1>2. start \in Turning
  <2>1. Before(s, rr) \in Ranges
    <3>1. 1 \in 1..(Len(s) + 1) /\ a - 1 \in 0..Len(s) /\ 1 <= a - 1 + 1
      BY <1>1
    <3> QED
      BY <3>1, SubRanges DEF Before
  <2>2. Quantity(rr) \in Int
    BY WithinIs DEF Quantity
  <2> QED
    BY <2>1, <2>2 DEF Turning
<1>3. ASSUME NEW k \in 1..T, NEW v \in Turning
      PROVE  MarkTurn(s, rr, v, a + k - 1) \in Turning
  <2>1. a + k - 1 \in 1..Len(s)
    BY <1>1
  <2> QED
    BY <2>1, MarkTurnType
<1>4. G \in [(1..T) \X Turning -> Turning]
  BY <1>3
<1>5. PICK c \in [0..T -> Turning] : Loops(c, T, start, G)
  <2> HIDE DEF G, start, T
  <2> QED
    BY <1>1, <1>2, <1>4, Loop
<1>6. \A k \in 1..T : G[<<k, c[k - 1]>>] = MarkTurn(s, rr, c[k - 1], a + k - 1)
  <2> TAKE k \in 1..T
  <2>1. k - 1 \in 0..T
    BY <1>1
  <2>2. c[k - 1] \in Turning
    BY <2>1
  <2> QED
    BY <2>2
<1>7. c = [k \in 0..T |-> IF k = 0 THEN start ELSE MarkTurn(s, rr, c[k - 1], a + k - 1)]
  <2>1. \A k \in 0..T : k # 0 => k \in 1..T
    BY <1>1
  <2> HIDE DEF G, start, T, a
  <2> QED
    BY <1>5, <1>6, <2>1 DEF Loops
<1>8. MarkOver(s, rr) = over[T]
  BY Zenon DEF MarkOver
<1> HIDE DEF G, over
<1>9. over = [k \in 0..T |-> IF k = 0 THEN start ELSE MarkTurn(s, rr, over[k - 1], a + k - 1)]
      /\ over \in [0..T -> Turning]
  <2>1. over = [k \in 0..T |-> IF k = 0 THEN start ELSE MarkTurn(s, rr, over[k - 1], a + k - 1)]
    BY <1>7, Zenon DEF over
  <2> DEFINE S == {k \in 0..T : over[k] \in Turning}
  <2>2. 0 \in S
    BY <1>1, <1>2, <2>1
  <2>3. ASSUME NEW k \in 1..T, k - 1 \in S PROVE k \in S
    <3>1. k \in 0..T /\ k # 0 /\ over[k - 1] \in Turning
      BY <1>1, <2>3
    <3>2. over[k] = MarkTurn(s, rr, over[k - 1], a + k - 1)
      <4> HIDE DEF start, T, a
      <4> QED
        BY <2>1, <3>1
    <3> QED
      BY <1>3, <3>1, <3>2
  <2>4. \A k \in 0..T : k \in S
    <3> HIDE DEF S, T
    <3> QED
      BY <1>1, <2>2, <2>3, UpTo
  <2>5. \A k \in 0..T : over[k] \in Turning
    BY <2>4
  <2> HIDE DEF T, start, a
  <2> QED
    BY <2>1, <2>5
<1>10. over[0] = start /\ \A k \in 1..T : over[k] = MarkTurn(s, rr, over[k - 1], a + k - 1)
  <2>1. 0 \in 0..T /\ \A k \in 1..T : k \in 0..T /\ k # 0
    BY <1>1
  <2> HIDE DEF T, start, a
  <2> QED
    BY <1>9, <2>1
<1>11. T \in 0..T
  BY <1>1
<1> QED
  BY <1>8, <1>9, <1>10, <1>11

\* The ranges before those that a loop looks at.
LEMMA BeforeIs ==
  ASSUME NEW s \in Ranges, InOrder(s), NEW r \in Rng, r.low <= r.high
  PROVE  LET a == LowerBound(s, r.low)
         IN  /\ Before(s, r) \in Ranges /\ InOrder(Before(s, r)) /\ Len(Before(s, r)) = a - 1
             /\ SetOf(Before(s, r)) = SetUpTo(s, a - 1)
             /\ \A m \in SetUpTo(s, a - 1) : m \in Nat /\ m < r.low
<1> DEFINE a == LowerBound(s, r.low)
<1>1. /\ a \in 1..(Len(s) + 1) /\ Len(s) \in Nat
      /\ \A i \in 1..(a - 1) : s[i].high < r.low
  BY TouchedIs, RangesAre
<1>2. 1 \in 1..(Len(s) + 1) /\ a - 1 \in 0..Len(s) /\ 1 <= a - 1 + 1 /\ a - 1 + 1 - 1 = a - 1
  BY <1>1
<1>3. /\ Before(s, r) \in Ranges /\ InOrder(Before(s, r)) /\ Len(Before(s, r)) = a - 1
      /\ \A n : n \in SetOf(Before(s, r)) <=> \E i \in 1..(a - 1) : n \in Within(s[i])
  BY <1>2, SubRanges, SubInOrder DEF Before
<1>4. SetOf(Before(s, r)) = SetUpTo(s, a - 1)
  BY <1>3, InSetUpTo
<1>5. ASSUME NEW m \in SetUpTo(s, a - 1) PROVE m \in Nat /\ m < r.low
  <2>1. PICK i \in 1..(a - 1) : m \in Within(s[i])
    BY InSetUpTo
  <2>2. i \in 1..Len(s) /\ s[i].high < r.low
    BY <1>1
  <2>3. s[i] \in Rng
    BY <2>2, RangesAre
  <2>4. m \in Nat /\ m <= s[i].high /\ s[i].high \in Nat /\ r.low \in Nat
    BY <2>1, <2>3, WithinIs
  <2> QED
    BY <2>2, <2>4
<1> QED
  BY <1>3, <1>4, <1>5

\* The ranges that the program marks: from the first number on, a single number, or
\* one after all that are marked.
Simple(s, rr) == \/ rr.low = 0
                 \/ rr.low = rr.high
                 \/ \A i \in 1..Len(s) : s[i].high < rr.low

\* The first loop has found only ranges that rr covers, up to the i-th.
Eaten(s, rr, i, acc) ==
  /\ acc.kept = Before(s, rr) /\ acc.found = FALSE
  /\ acc.changed = Cardinality(Within(rr) \ SetUpTo(s, i))

\* What is new in rr, range by range.
LEMMA NewNext ==
  ASSUME NEW s \in Ranges, InOrder(s), NEW rr \in Rng, NEW i \in 1..Len(s)
  PROVE  /\ Cardinality(Within(rr) \ SetUpTo(s, i - 1)) =
              Cardinality(Within(rr) \ SetUpTo(s, i)) + Cardinality(Within(rr) \cap Within(s[i]))
         /\ Cardinality(Within(rr) \ SetUpTo(s, i)) \in Nat
         /\ Cardinality(Within(rr) \cap Within(s[i])) \in Nat
<1> PICK X : X = Within(rr) \ SetUpTo(s, i)
  OBVIOUS
<1> PICK Y : Y = Within(rr) \cap Within(s[i])
  OBVIOUS
<1> PICK Z : Z = Within(rr) \ SetUpTo(s, i - 1)
  OBVIOUS
<1>1. IsFiniteSet(Within(rr))
  BY WithinIs
<1>2. X \in SUBSET Within(rr) /\ Y \in SUBSET Within(rr)
  OBVIOUS
<1>3. IsFiniteSet(X) /\ IsFiniteSet(Y)
  BY <1>1, <1>2, FS_Subset
<1>4. /\ SetUpTo(s, i) = SetUpTo(s, i - 1) \cup Within(s[i])
      /\ SetUpTo(s, i - 1) \cap Within(s[i]) = {}
  BY SetUpToNext, DisjointNext
<1>5. X \cap Y = {} /\ Z = X \cup Y
  BY <1>4
<1> QED
  BY <1>3, <1>5, SizesAdd

LEMMA EatenTurn ==
  ASSUME NEW s \in Ranges, InOrder(s), NEW rr \in Rng, rr.low <= rr.high,
         NEW i \in 1..Len(s), Covers(rr, s[i]), NEW acc \in Turning, Eaten(s, rr, i - 1, acc)
  PROVE  Eaten(s, rr, i, MarkTurn(s, rr, acc, i))
<1>1. MarkTurn(s, rr, acc, i) = [acc EXCEPT !.changed = @ - Quantity(s[i])]
  BY DEF MarkTurn
<1>2. s[i] \in Rng /\ s[i].low <= s[i].high
  BY RangesAre DEF InOrder
<1>3. Within(rr) \cap Within(s[i]) = Within(s[i])
  <2>1. /\ \A n : n \in Within(s[i]) <=> n \in Nat /\ s[i].low <= n /\ n <= s[i].high
        /\ \A n : n \in Within(rr) <=> n \in Nat /\ rr.low <= n /\ n <= rr.high
        /\ s[i].low \in Nat /\ s[i].high \in Nat /\ rr.low \in Nat /\ rr.high \in Nat
    BY <1>2, WithinIs
  <2>2. rr.low <= s[i].low /\ s[i].high <= rr.high
    BY DEF Covers
  <2>3. \A n \in Nat : s[i].low <= n /\ n <= s[i].high => rr.low <= n /\ n <= rr.high
    BY <2>1, <2>2
  <2> QED
    BY <2>1, <2>3
<1>4. Cardinality(Within(rr) \cap Within(s[i])) = Quantity(s[i])
  BY <1>2, <1>3, WithinIs
<1>5. /\ MarkTurn(s, rr, acc, i).kept = acc.kept /\ MarkTurn(s, rr, acc, i).found = acc.found
      /\ MarkTurn(s, rr, acc, i).changed = acc.changed - Quantity(s[i])
  BY <1>1 DEF Turning
<1>6. acc.changed = Cardinality(Within(rr) \ SetUpTo(s, i - 1))
  BY DEF Eaten
<1>7. PICK x, y \in Nat : /\ x = Cardinality(Within(rr) \ SetUpTo(s, i)) /\ y = Quantity(s[i])
                          /\ acc.changed = x + y
  <2>1. /\ Cardinality(Within(rr) \ SetUpTo(s, i)) \in Nat
        /\ Cardinality(Within(rr) \cap Within(s[i])) \in Nat
        /\ Cardinality(Within(rr) \ SetUpTo(s, i - 1)) =
             Cardinality(Within(rr) \ SetUpTo(s, i)) + Cardinality(Within(rr) \cap Within(s[i]))
    BY NewNext
  <2> QED
    BY <1>4, <1>6, <2>1
<1>8. MarkTurn(s, rr, acc, i).changed = x
  BY <1>5, <1>7
<1> QED
  BY <1>5, <1>7, <1>8 DEF Eaten

\* What the first loop leaves when a simple range is marked.
LEMMA MarkOverIs ==
  ASSUME NEW s \in Ranges, InOrder(s), NEW rr \in Rng, rr.low <= rr.high, Simple(s, rr)
  PROVE  LET a == LowerBound(s, rr.low)
             e == a - 1 + Touched(s, rr)
             over == MarkOver(s, rr)
         IN  /\ over.changed = Cardinality(Within(rr) \ SetUpTo(s, e))
             /\ \A i \in a..e : i < e => Covers(rr, s[i])
             /\ \/ /\ over.kept = Before(s, rr) /\ over.found = FALSE
                   /\ \A i \in a..e : Covers(rr, s[i])
                \/ /\ a <= e /\ LowerBound(s, rr.high) = e /\ over.found = FALSE
                   /\ over.kept = Append(Before(s, rr), s[e]) /\ rr.high < s[e].low
                \/ /\ a = e /\ LowerBound(s, rr.high) = e /\ over.found = TRUE
                   /\ over.kept = Append(Before(s, rr), s[e]) /\ Covers(s[e], rr)
                \/ /\ a = 1 /\ a <= e /\ LowerBound(s, rr.high) = e /\ over.found = TRUE
                   /\ over.kept = <<[s[e] EXCEPT !.low = 0]>> /\ rr.low = 0 /\ Has(s[e], rr.high)
<1> DEFINE a == LowerBound(s, rr.low)
           b == LowerBound(s, rr.high)
           T == Touched(s, rr)
           e == a - 1 + T
           over == MarkOver(s, rr)
<1>1. PICK f : /\ f[0] = [kept |-> Before(s, rr), changed |-> Quantity(rr), found |-> FALSE]
               /\ \A k \in 1..T : f[k] = MarkTurn(s, rr, f[k - 1], a + k - 1)
               /\ over = f[T]
  BY MarkTurns
<1>2. /\ a \in 1..(Len(s) + 1) /\ T \in Nat /\ e \in 0..Len(s) /\ Len(s) \in Nat /\ a <= e + 1
      /\ b \in {e, e + 1}
      /\ rr.low \in Nat /\ rr.high \in Nat
      /\ \A i \in 1..Len(s) : s[i].low \in Nat /\ s[i].high \in Nat /\ s[i].low <= s[i].high
  BY TouchedIs, RangesAre, WithinIs DEF InOrder
<1>3. /\ \A i \in 1..(a - 1) : s[i].high < rr.low
      /\ \A i \in a..e : i < e => s[i].high < rr.high
      /\ \A i \in a..e : s[i].high >= rr.low
      /\ b = e + 1 => \A i \in a..e : s[i].high < rr.high
      /\ b = e => a <= e /\ s[e].high >= rr.high
  BY TouchedIs
<1> HIDE DEF T, a, b, e
<1>4. e = a - 1 + T
  BY DEF e, a, T
<1>5. ASSUME NEW i \in a..e, s[i].high < rr.high PROVE Covers(rr, s[i])
  <2>1. i \in 1..Len(s) /\ s[i].high >= rr.low
    BY <1>2, <1>3
  <2>2. rr.low = 0
    BY <1>2, <1>5, <2>1 DEF Simple
  <2> QED
    BY <1>2, <1>5, <2>1, <2>2 DEF Covers
<1>6. \A i \in a..e : i < e => Covers(rr, s[i])
  BY <1>3, <1>5
<1>7. Before(s, rr) \in Ranges /\ SetUpTo(s, a - 1) \in SUBSET Nat
      /\ \A m \in SetUpTo(s, a - 1) : m < rr.low
  BY BeforeIs DEF a
<1>8. f[0] \in Turning /\ Eaten(s, rr, a - 1, f[0])
  <2>1. Within(rr) \ SetUpTo(s, a - 1) = Within(rr)
    <3>1. ASSUME NEW n \in Within(rr), n \in SetUpTo(s, a - 1) PROVE FALSE
      <4>1. n \in Nat /\ rr.low <= n /\ n < rr.low
        BY <1>7, <3>1, WithinIs
      <4> QED
        BY <1>2, <4>1
    <3> QED
      BY <3>1
  <2>2. f[0].kept = Before(s, rr) /\ f[0].changed = Quantity(rr) /\ f[0].found = FALSE
    BY <1>1
  <2>3. Quantity(rr) = Cardinality(Within(rr)) /\ Quantity(rr) \in Int
    BY <1>2, WithinIs DEF Quantity
  <2>4. f[0] \in Turning
    BY <1>1, <1>7, <2>3 DEF Turning
  <2> QED
    BY <2>1, <2>2, <2>3, <2>4 DEF Eaten
<1> DEFINE S(n) == {k \in 0..n : f[k] \in Turning /\ Eaten(s, rr, a - 1 + k, f[k])}
<1>9. ASSUME NEW n \in 0..T, \A i \in a..(a - 1 + n) : Covers(rr, s[i])
      PROVE  f[n] \in Turning /\ Eaten(s, rr, a - 1 + n, f[n])
  <2>1. 0 \in S(n)
    <3>1. 0 \in 0..n /\ a - 1 + 0 = a - 1
      BY <1>2
    <3> QED
      BY <1>8, <3>1
  <2>2. ASSUME NEW k \in 1..n, k - 1 \in S(n) PROVE k \in S(n)
    <3>1. /\ k \in 1..T /\ k \in 0..n /\ a + k - 1 \in 1..Len(s) /\ a + k - 1 \in a..(a - 1 + n)
          /\ a - 1 + (k - 1) = a + k - 1 - 1 /\ a - 1 + k = a + k - 1
      BY <1>2, <1>4
    <3>2. PICK i \in 1..Len(s) : i = a + k - 1
      BY <3>1
    <3>3. Covers(rr, s[i])
      BY <1>9, <3>1, <3>2
    <3>4. f[k - 1] \in Turning /\ Eaten(s, rr, i - 1, f[k - 1])
      <4>1. f[k - 1] \in Turning /\ Eaten(s, rr, a - 1 + (k - 1), f[k - 1])
        BY <2>2
      <4>2. a - 1 + (k - 1) = i - 1
        BY <1>2, <3>2
      <4> QED
        BY <4>1, <4>2
    <3>5. f[k] = MarkTurn(s, rr, f[k - 1], i)
      BY <1>1, <3>1, <3>2 DEF a, T
    <3>6. f[k] \in Turning /\ Eaten(s, rr, i, f[k])
      BY <3>3, <3>4, <3>5, EatenTurn, MarkTurnType
    <3> QED
      BY <3>1, <3>2, <3>6
  <2>3. n \in Nat /\ n \in 0..n
    BY <1>2
  <2>4. n \in S(n)
    <3> HIDE DEF S
    <3> QED
      BY <2>1, <2>2, <2>3, UpTo
  <2> QED
    BY <2>4
<1> HIDE DEF S
<1>10. T \in 0..T /\ a - 1 + T = e
  BY <1>2, <1>4
<1>11. CASE \A i \in a..e : Covers(rr, s[i])
  <2>1. Eaten(s, rr, e, f[T])
    BY <1>9, <1>10, <1>11
  <2> QED
    BY <1>1, <1>6, <1>11, <2>1 DEF Eaten, a, e, T
<1>12. CASE ~ \A i \in a..e : Covers(rr, s[i])
  <2>1. b = e /\ e \in 1..Len(s) /\ e \in a..e /\ a <= e /\ s[e].high >= rr.high /\ T \in 1..T
    <3>1. b = e
      BY <1>2, <1>3, <1>5, <1>12
    <3> QED
      BY <1>2, <1>3, <1>4, <3>1
  <2>2. ~ Covers(rr, s[e])
    <3>1. \A i \in a..e : i < e \/ i = e
      BY <1>2
    <3> QED
      BY <1>6, <1>12, <3>1
  <2>3. f[T - 1] \in Turning /\ Eaten(s, rr, e - 1, f[T - 1])
    <3>1. T - 1 \in 0..T /\ a - 1 + (T - 1) = e - 1 /\ \A i \in a..(e - 1) : i \in a..e /\ i < e
      BY <1>2, <1>4, <2>1
    <3>2. \A i \in a..(a - 1 + (T - 1)) : Covers(rr, s[i])
      BY <1>6, <3>1
    <3> QED
      BY <1>9, <3>1, <3>2
  <2> PICK acc \in Turning : acc = f[T - 1]
    BY <2>3
  <2>4. /\ acc.kept = Before(s, rr) /\ acc.found = FALSE
        /\ acc.changed = Cardinality(Within(rr) \ SetUpTo(s, e - 1))
    BY <2>3 DEF Eaten
  <2>5. over = MarkTurn(s, rr, acc, e)
    <3>1. a + T - 1 = e
      BY <1>2, <1>4
    <3> QED
      BY <1>1, <2>1, <3>1 DEF a, T
  <2>6. s[e] \in Rng /\ SetUpTo(s, e) = SetUpTo(s, e - 1) \cup Within(s[e])
    BY <2>1, RangesAre, SetUpToNext
  <2>7. /\ \A n : n \in Within(s[e]) <=> n \in Nat /\ s[e].low <= n /\ n <= s[e].high
        /\ \A n : n \in Within(rr) <=> n \in Nat /\ rr.low <= n /\ n <= rr.high
        /\ s[e].low \in Nat /\ s[e].high \in Nat
    BY <2>6, WithinIs
  <2>8. CASE Covers(s[e], rr)
    <3>1. over = [kept |-> Append(acc.kept, s[e]), changed |-> 0, found |-> TRUE]
      BY <2>2, <2>5, <2>8 DEF MarkTurn
    <3>2. over.kept = Append(Before(s, rr), s[e]) /\ over.changed = 0 /\ over.found = TRUE
      <4> HIDE DEF over
      <4> QED
        BY <2>4, <3>1
    <3>3. Within(rr) \ SetUpTo(s, e) = {}
      <4>1. s[e].low <= rr.low /\ rr.high <= s[e].high
        BY <2>8 DEF Covers
      <4>2. \A n \in Nat : rr.low <= n /\ n <= rr.high => s[e].low <= n /\ n <= s[e].high
        BY <1>2, <2>7, <4>1
      <4> QED
        BY <2>6, <2>7, <4>2
    <3>4. Cardinality(Within(rr) \ SetUpTo(s, e)) = 0
      BY <3>3, FS_EmptySet
    <3>5. a = e
      <4> SUFFICES ASSUME a < e PROVE FALSE
        BY <1>2, <2>1
      <4>1. a \in 1..Len(s) /\ a \in a..e
        BY <1>2, <2>1
      <4>2. s[a].high >= rr.low /\ s[a].high + 1 < s[e].low /\ s[e].low <= rr.low
        BY <1>3, <2>1, <2>8, <4>1 DEF InOrder, Covers
      <4> QED
        BY <1>2, <2>7, <4>1, <4>2
    <3> QED
      BY <1>6, <2>1, <2>8, <3>2, <3>4, <3>5 DEF a, b, e, T
  <2>9. CASE ~ Covers(s[e], rr) /\ Has(s[e], rr.high)
    <3>1. rr.low < s[e].low /\ s[e].low <= rr.high
      BY <1>2, <2>7, <2>9 DEF Covers, Has
    <3>2. rr.low = 0
      BY <1>2, <1>3, <2>1, <2>7, <3>1 DEF Simple
    <3>3. a = 1
      <4> SUFFICES ASSUME a # 1 PROVE FALSE
        OBVIOUS
      <4>1. 1 \in 1..(a - 1) /\ 1 \in 1..Len(s)
        BY <1>2
      <4> QED
        BY <1>2, <1>3, <3>2, <4>1
    <3>4. Before(s, rr) = <<>>
      BY <3>3, SubSeqEmpty DEF Before, a
    <3>5. over = [kept |-> Append(acc.kept, [s[e] EXCEPT !.low = Max({rr.low, rr.low})]),
                  changed |-> acc.changed - (rr.high + 1 - s[e].low), found |-> TRUE]
      BY <2>2, <2>4, <2>5, <2>9, <3>4 DEF MarkTurn
    <3>6. Max({rr.low, rr.low}) = 0
      BY <3>2, MaxMin
    <3>7. /\ over.kept = Append(<<>>, [s[e] EXCEPT !.low = 0]) /\ over.found = TRUE
          /\ over.changed = acc.changed - (rr.high + 1 - s[e].low)
      <4> HIDE DEF over
      <4> QED
        BY <2>4, <3>4, <3>5, <3>6
    <3>8. over.kept = <<[s[e] EXCEPT !.low = 0]>>
      BY <3>7
    <3>9. Cardinality(Within(rr) \cap Within(s[e])) = rr.high + 1 - s[e].low
      <4>1. ASSUME NEW n PROVE n \in Within(rr) \cap Within(s[e]) <=> n \in s[e].low..rr.high
        BY <1>2, <2>1, <2>7, <3>1
      <4>2. Within(rr) \cap Within(s[e]) = s[e].low..rr.high
        BY <4>1
      <4>3. /\ s[e].low \in Int /\ rr.high \in Int
            /\ (IF s[e].low > rr.high THEN 0 ELSE rr.high - s[e].low + 1) = rr.high + 1 - s[e].low
        BY <1>2, <2>7, <3>1
      <4>4. Cardinality(s[e].low..rr.high) = IF s[e].low > rr.high THEN 0 ELSE rr.high - s[e].low + 1
        BY <4>3, FS_Interval
      <4> QED
        BY <4>2, <4>3, <4>4
    <3>10. over.changed = Cardinality(Within(rr) \ SetUpTo(s, e))
      <4>1. PICK x, y \in Nat : /\ x = Cardinality(Within(rr) \ SetUpTo(s, e))
                                /\ y = rr.high + 1 - s[e].low /\ acc.changed = x + y
        <5>1. /\ Cardinality(Within(rr) \ SetUpTo(s, e)) \in Nat
              /\ Cardinality(Within(rr) \cap Within(s[e])) \in Nat
              /\ Cardinality(Within(rr) \ SetUpTo(s, e - 1)) =
                   Cardinality(Within(rr) \ SetUpTo(s, e)) + Cardinality(Within(rr) \cap Within(s[e]))
          BY <2>1, NewNext
        <5> QED
          BY <2>4, <3>9, <5>1
      <4>2. over.changed = acc.changed - y
        BY <3>7, <4>1
      <4> QED
        BY <4>1, <4>2
    <3> QED
      BY <1>6, <2>1, <2>9, <3>2, <3>3, <3>7, <3>8, <3>10 DEF a, b, e, T
  <2>10. CASE ~ Covers(s[e], rr) /\ ~ Has(s[e], rr.high)
    <3>1. rr.high < s[e].low
      BY <1>2, <2>1, <2>7, <2>10 DEF Has
    <3>2. ~ Has(s[e], rr.low)
      BY <1>2, <2>7, <3>1 DEF Has
    <3>3. over = [acc EXCEPT !.kept = Append(@, s[e])]
      BY <2>2, <2>5, <2>10, <3>2 DEF MarkTurn
    <3>4. /\ over.kept = Append(Before(s, rr), s[e]) /\ over.found = FALSE
          /\ over.changed = acc.changed
      BY <2>4, <3>3 DEF Turning
    <3>5. Within(rr) \cap Within(s[e]) = {}
      BY <1>2, <2>7, <3>1
    <3>6. Within(rr) \ SetUpTo(s, e) = Within(rr) \ SetUpTo(s, e - 1)
      BY <2>6, <3>5
    <3> QED
      BY <1>6, <2>1, <2>4, <3>1, <3>4, <3>6 DEF a, b, e, T
  <2> QED
    BY <2>8, <2>9, <2>10
<1> QED
  BY <1>11, <1>12

\* A range that is inserted between two sequences.
LEMMA InsertIs ==
  ASSUME NEW P \in Ranges, NEW R \in Ranges, NEW Q \in Ranges, NEW x \in Rng
  PROVE  InsertAt(P \o R, Len(P) + 1, x) \o Q = Append(P, x) \o (R \o Q)
<1> PICK p \in Nat : p = Len(P)
  BY RangesAre
<1> PICK all \in Ranges : all = P \o R
  BY JoinRanges
<1>1. Len(R) \in Nat
  BY RangesAre
<1>2. /\ Len(all) = p + Len(R)
      /\ \A i \in 1..p : all[i] = P[i]
      /\ \A i \in 1..Len(R) : all[p + i] = R[i]
  BY JoinRanges
<1>3. /\ 1 \in 1..(Len(all) + 1) /\ p \in 0..Len(all) /\ 1 <= p + 1 /\ p + 1 - 1 = p
      /\ p + 1 \in 1..(Len(all) + 1) /\ Len(all) \in 0..Len(all) /\ p + 1 <= Len(all) + 1
  BY <1>1, <1>2
<1>4. SubSeq(all, 1, p) = P
  <2> PICK t : t = SubSeq(all, 1, p)
    OBVIOUS
  <2>1. /\ t \in Ranges /\ Len(t) = p + 1 - 1
        /\ \A i \in 1..(p + 1 - 1) : 1 + i - 1 \in 1..p /\ t[i] = all[1 + i - 1]
    BY <1>3, SubRanges
  <2>2. ASSUME NEW i \in 1..Len(t) PROVE t[i] = P[i]
    <3>1. i \in 1..p /\ i \in 1..(p + 1 - 1) /\ 1 + i - 1 = i
      BY <1>1, <2>1
    <3> QED
      BY <1>2, <2>1, <3>1
  <2> QED
    BY <1>3, <2>1, <2>2, SeqEqual DEF Ranges
<1>5. SubSeq(all, p + 1, Len(all)) = R
  <2> PICK t : t = SubSeq(all, p + 1, Len(all))
    OBVIOUS
  <2>1. /\ t \in Ranges /\ Len(t) = Len(all) + 1 - (p + 1)
        /\ \A i \in 1..(Len(all) + 1 - (p + 1)) :
             p + 1 + i - 1 \in (p + 1)..Len(all) /\ t[i] = all[p + 1 + i - 1]
    BY <1>3, SubRanges
  <2>2. Len(t) = Len(R)
    BY <1>1, <1>2, <2>1
  <2>3. ASSUME NEW i \in 1..Len(t) PROVE t[i] = R[i]
    <3>1. i \in 1..Len(R) /\ i \in 1..(Len(all) + 1 - (p + 1)) /\ p + 1 + i - 1 = p + i
      BY <1>1, <2>1, <2>2
    <3> QED
      BY <1>2, <2>1, <3>1
  <2> QED
    BY <2>1, <2>2, <2>3, SeqEqual DEF Ranges
<1>6. InsertAt(all, p + 1, x) = (P \o <<x>>) \o R
  <2>1. InsertAt(all, p + 1, x) =
          SubSeq(all, 1, (p + 1) - 1) \o <<x>> \o SubSeq(all, p + 1, Len(all))
    BY DEF InsertAt
  <2>2. SubSeq(all, 1, (p + 1) - 1) = P
    <3>1. (p + 1) - 1 = p
      OBVIOUS
    <3> QED
      BY <1>4, <3>1
  <2> QED
    BY <1>5, <2>1, <2>2, Zenon
<1>7. P \o <<x>> \in Ranges
  BY OneRange, JoinRanges
<1>8. ((P \o <<x>>) \o R) \o Q = (P \o <<x>>) \o (R \o Q)
  <2> PICK y \in Ranges : y = P \o <<x>>
    BY <1>7
  <2>1. (y \o R) \o Q = y \o (R \o Q)
    <3>1. y \in Seq(Rng) /\ R \in Seq(Rng) /\ Q \in Seq(Rng)
      BY DEF Ranges
    <3>2. \A u, v, w \in Seq(Rng) : (u \o v) \o w = u \o (v \o w)
      BY ConcatAssociative
    <3> QED
      BY <3>1, <3>2, Zenon
  <2> QED
    BY <2>1
<1>9. Append(P, x) = P \o <<x>>
  BY AppendIsConcat DEF Ranges
<1> QED
  BY <1>6, <1>8, <1>9, Zenon

\* The ranges that a loop looks at, and those before and after them, are all.
LEMMA SetParts ==
  ASSUME NEW s \in Ranges, InOrder(s), NEW rr \in Rng, rr.low <= rr.high
  PROVE  LET e == LowerBound(s, rr.low) - 1 + Touched(s, rr)
         IN  /\ SetOf(s) = SetUpTo(s, e) \cup SetOf(After(s, rr))
             /\ \A m \in SetUpTo(s, e), n \in SetOf(After(s, rr)) : m + 1 < n
             /\ \A n \in SetOf(After(s, rr)) : n \in Nat /\ rr.high < n
             /\ Within(rr) \ SetOf(s) = Within(rr) \ SetUpTo(s, e)
<1> DEFINE e == LowerBound(s, rr.low) - 1 + Touched(s, rr)
           rest == After(s, rr)
<1>1. /\ e \in 0..Len(s) /\ Len(s) \in Nat
      /\ \A i \in (e + 1)..Len(s) : rr.high + 1 < s[i].low
  BY TouchedIs, RangesAre
<1>2. \A n : n \in SetOf(rest) <=> \E i \in (e + 1)..Len(s) : n \in Within(s[i])
  BY AfterIs
<1> HIDE DEF e, rest
<1>3. ASSUME NEW n PROVE n \in SetOf(s) <=> n \in SetUpTo(s, e) \cup SetOf(rest)
  <2>1. \A i \in 1..Len(s) : i \in 1..e \/ i \in (e + 1)..Len(s)
    BY <1>1
  <2>2. /\ \A i \in 1..e : i \in 1..Len(s)
        /\ \A i \in (e + 1)..Len(s) : i \in 1..Len(s)
    BY <1>1
  <2> QED
    BY <1>2, <2>1, <2>2, InSet, InSetUpTo
<1>4. ASSUME NEW m \in SetUpTo(s, e), NEW n \in SetOf(rest) PROVE m + 1 < n
  <2>1. PICK i \in 1..e : m \in Within(s[i])
    BY InSetUpTo
  <2>2. PICK j \in (e + 1)..Len(s) : n \in Within(s[j])
    BY <1>2
  <2>3. i \in 1..Len(s) /\ j \in 1..Len(s) /\ i < j
    BY <1>1
  <2>4. s[i].high + 1 < s[j].low /\ s[i] \in Rng /\ s[j] \in Rng
    BY <2>3, RangesAre DEF InOrder
  <2> QED
    BY <2>1, <2>2, <2>4, GapApart
<1>5. ASSUME NEW n \in SetOf(rest) PROVE n \in Nat /\ rr.high < n /\ n \notin Within(rr)
  <2>1. PICK i \in (e + 1)..Len(s) : n \in Within(s[i])
    BY <1>2
  <2>2. i \in 1..Len(s) /\ rr.high + 1 < s[i].low
    BY <1>1
  <2>3. s[i] \in Rng
    BY <2>2, RangesAre
  <2>4. n \in Nat /\ s[i].low <= n /\ s[i].low \in Nat /\ rr.high \in Nat
    BY <2>1, <2>3, WithinIs
  <2>5. rr.high < n /\ ~(n <= rr.high)
    BY <2>2, <2>4
  <2> QED
    BY <2>4, <2>5, WithinIs
<1>6. SetOf(s) = SetUpTo(s, e) \cup SetOf(rest)
  BY <1>3
<1>7. Within(rr) \ SetOf(s) = Within(rr) \ SetUpTo(s, e)
  BY <1>5, <1>6
<1> QED
  BY <1>4, <1>5, <1>6, <1>7 DEF e, rest

\* The ranges before the i-th are apart from it.
LEMMA UpToApart ==
  ASSUME NEW s \in Ranges, InOrder(s), NEW i \in 1..Len(s),
         NEW m \in SetUpTo(s, i - 1), NEW n \in Within(s[i])
  PROVE  m + 1 < n
<1>1. PICK j \in 1..(i - 1) : m \in Within(s[j])
  BY InSetUpTo
<1>2. j \in 1..Len(s) /\ j < i
  BY RangesAre
<1>3. s[j].high + 1 < s[i].low /\ s[i] \in Rng /\ s[j] \in Rng
  BY <1>2, RangesAre DEF InOrder
<1> QED
  BY <1>1, <1>3, GapApart

\* The first ranges of a sequence are among the first of a longer part of it.
LEMMA UpToGrows ==
  ASSUME NEW s, NEW i \in Int, NEW j \in Int, i <= j
  PROVE  /\ SetUpTo(s, i) \subseteq SetUpTo(s, j)
         /\ \A n \in SetUpTo(s, j) : n \in SetUpTo(s, i) \/ \E k \in (i + 1)..j : n \in Within(s[k])
<1>1. \A k \in 1..i : k \in 1..j
  OBVIOUS
<1>2. \A k \in 1..j : k \in 1..i \/ k \in (i + 1)..j
  OBVIOUS
<1> QED
  BY <1>1, <1>2, InSetUpTo

\* A range that covers another has its numbers.
LEMMA CoversIs ==
  ASSUME NEW q \in Rng, NEW r \in Rng, Covers(q, r)
  PROVE  Within(r) \subseteq Within(q)
<1>1. /\ \A n : n \in Within(r) <=> n \in Nat /\ r.low <= n /\ n <= r.high
      /\ \A n : n \in Within(q) <=> n \in Nat /\ q.low <= n /\ n <= q.high
      /\ q.low \in Nat /\ q.high \in Nat /\ r.low \in Nat /\ r.high \in Nat
  BY WithinIs
<1>2. q.low <= r.low /\ r.high <= q.high
  BY DEF Covers
<1>3. \A n \in Nat : r.low <= n /\ n <= r.high => q.low <= n /\ n <= q.high
  BY <1>1, <1>2
<1> QED
  BY <1>1, <1>3

\* The sequence that the second loop goes over when rr was inserted between P and R.
LEMMA InsertedAre ==
  ASSUME NEW P \in Ranges, NEW R \in Ranges, NEW Q \in Ranges, NEW rr \in Rng,
         Between(P, rr, R), Between(P, rr, Q), \A m \in SetOf(R), n \in SetOf(Q) : m + 1 < n
  PROVE  LET all == InsertAt(P \o R, Len(P) + 1, rr) \o Q
         IN  /\ all \in Ranges /\ Len(all) \in Nat /\ Len(all) >= Len(P) + 1
             /\ SetOf(all) = SetOf(P) \cup Within(rr) \cup SetOf(R) \cup SetOf(Q)
             /\ \A first, end : Reaches(P, all, first, end) => Fits(all, first, end)
<1> PICK all : all = InsertAt(P \o R, Len(P) + 1, rr) \o Q
  OBVIOUS
<1>1. all = Append(P, rr) \o (R \o Q)
  BY InsertIs
<1>2. InOrder(R \o Q) /\ R \o Q \in Ranges /\ SetOf(R \o Q) = SetOf(R) \cup SetOf(Q)
  BY JoinRanges, JoinBySets DEF Between
<1> PICK U \in Ranges : U = R \o Q
  BY <1>2
<1>3. Between(P, rr, U)
  BY <1>2 DEF Between
<1>4. all = Append(P, rr) \o U
  BY <1>1
<1>5. Len(U) \in Nat /\ Len(P) \in Nat
  BY RangesAre
<1>6. /\ all \in Ranges /\ Len(all) = Len(P) + 1 + Len(U)
      /\ SetOf(all) = SetOf(P) \cup Within(rr) \cup SetOf(U)
      /\ \A first, end : Reaches(P, all, first, end) => Fits(all, first, end)
  <2> PICK new : new = Append(P, rr) \o U
    OBVIOUS
  <2>1. /\ new \in Ranges /\ Len(new) = Len(P) + 1 + Len(U)
        /\ SetOf(new) = SetOf(P) \cup Within(rr) \cup SetOf(U)
        /\ \A first, end : Reaches(P, new, first, end) => Fits(new, first, end)
    BY <1>3, InsertAllFits
  <2> QED
    BY <1>4, <2>1
<1> QED
  BY <1>2, <1>5, <1>6

\* What mark_range leaves and what it returns, of a simple range.
LEMMA Marks ==
  ASSUME NEW s \in Ranges, InOrder(s), NEW rr \in Rng, rr.low <= rr.high, Simple(s, rr)
  PROVE  LET done == MarkRange(s, rr)
         IN  /\ done.marked \in Ranges /\ InOrder(done.marked)
             /\ SetOf(done.marked) = SetOf(s) \cup Within(rr)
             /\ done.changed = Cardinality(Within(rr) \ SetOf(s))
<1> DEFINE a == LowerBound(s, rr.low)
           b == LowerBound(s, rr.high)
           T == Touched(s, rr)
           e == a - 1 + T
           over == MarkOver(s, rr)
           rest == After(s, rr)
           P == Before(s, rr)
           all == (IF over.found THEN over.kept ELSE InsertAt(over.kept, a, rr)) \o rest
           first == IF over.found \/ a = 1 THEN a ELSE a - 1
           erased == a - 1 + T - Len(over.kept)
           last == b + 1 - erased + IF over.found THEN 0 ELSE 1
           end == Min({last, Len(all)})
           new == SubSeq(all, 1, first - 1) \o Merged(SubSeq(all, first, end))
                    \o SubSeq(all, end + 1, Len(all))
<1>1. MarkRange(s, rr).marked = new /\ MarkRange(s, rr).changed = over.changed
  <2>1. MarkRange(s, rr) = [marked |-> new, changed |-> over.changed]
    BY Zenon DEF MarkRange
  <2> HIDE DEF new, over
  <2> QED
    BY <2>1
<1>2. /\ a \in 1..(Len(s) + 1) /\ T \in Nat /\ e \in 0..Len(s) /\ Len(s) \in Nat /\ a <= e + 1
      /\ b \in {e, e + 1}
      /\ rr.low \in Nat /\ rr.high \in Nat
      /\ \A i \in 1..Len(s) : s[i] \in Rng /\ s[i].low <= s[i].high
  BY TouchedIs, RangesAre, WithinIs DEF InOrder
<1>3. /\ over.changed = Cardinality(Within(rr) \ SetUpTo(s, e))
      /\ \A i \in a..e : i < e => Covers(rr, s[i])
      /\ \/ /\ over.kept = P /\ over.found = FALSE
            /\ \A i \in a..e : Covers(rr, s[i])
         \/ /\ a <= e /\ b = e /\ over.found = FALSE
            /\ over.kept = Append(P, s[e]) /\ rr.high < s[e].low
         \/ /\ a = e /\ b = e /\ over.found = TRUE
            /\ over.kept = Append(P, s[e]) /\ Covers(s[e], rr)
         \/ /\ a = 1 /\ a <= e /\ b = e /\ over.found = TRUE
            /\ over.kept = <<[s[e] EXCEPT !.low = 0]>> /\ rr.low = 0 /\ Has(s[e], rr.high)
  BY MarkOverIs
<1>4. /\ P \in Ranges /\ InOrder(P) /\ Len(P) = a - 1 /\ SetOf(P) = SetUpTo(s, a - 1)
      /\ \A m \in SetUpTo(s, a - 1) : m \in Nat /\ m < rr.low
  BY BeforeIs
<1>5. rest \in Ranges /\ InOrder(rest)
  BY AfterIs
<1>6. /\ SetOf(s) = SetUpTo(s, e) \cup SetOf(rest)
      /\ \A m \in SetUpTo(s, e), n \in SetOf(rest) : m + 1 < n
      /\ \A n \in SetOf(rest) : n \in Nat /\ rr.high < n
      /\ Within(rr) \ SetOf(s) = Within(rr) \ SetUpTo(s, e)
  BY SetParts
<1>7. all = (IF over.found THEN over.kept ELSE InsertAt(over.kept, a, rr)) \o rest
  BY Zenon DEF all
<1> HIDE DEF all
<1>8. first = IF over.found \/ a = 1 THEN a ELSE a - 1
  BY Zenon DEF first
<1>9. last = b + 1 - (a - 1 + T - Len(over.kept)) + IF over.found THEN 0 ELSE 1
  BY Zenon DEF last, erased
<1>10. T = e + 1 - a
  BY <1>2
<1> HIDE DEF a, b, T, e, over, rest, P, first, last
<1>11. ASSUME NEW y \in Int, last = y, y >= 0, Len(all) \in Nat
       PROVE  end \in 0..Len(all) /\ (end = y \/ end = Len(all)) /\ (end = y \/ y > Len(all))
  <2>1. end = IF y <= Len(all) THEN y ELSE Len(all)
    <3>1. Min({y, Len(all)}) = IF y <= Len(all) THEN y ELSE Len(all)
      <4>1. y \in Int /\ Len(all) \in Int
        BY <1>11
      <4> QED
        BY <4>1, MaxMin
    <3>2. end = Min({y, Len(all)})
      BY <1>11, Zenon
    <3> QED
      BY <3>1, <3>2
  <2> HIDE DEF end
  <2> QED
    BY <1>11, <2>1
<1> HIDE DEF end
<1>12. \A m \in Within(rr) : m \in Nat /\ rr.low <= m /\ m <= rr.high
  BY WithinIs
<1>13. SetUpTo(s, a - 1) \subseteq SetUpTo(s, e)
  BY <1>2, UpToGrows
<1>14. ASSUME NEW n \in SetUpTo(s, e), n \notin SetUpTo(s, a - 1)
       PROVE  n \in Within(rr) \/ (a <= e /\ n \in Within(s[e]))
  <2>1. PICK k \in a..e : n \in Within(s[k])
    <3>1. n \in SetUpTo(s, a - 1) \/ \E k \in (a - 1 + 1)..e : n \in Within(s[k])
      BY <1>2, UpToGrows
    <3>2. (a - 1) + 1 = a
      BY <1>2
    <3> QED
      BY <1>2, <1>14, <3>1, <3>2
  <2>2. k = e \/ (k < e /\ k \in 1..Len(s))
    BY <1>2
  <2>3. a <= e
    BY <1>2
  <2>4. CASE k < e /\ k \in 1..Len(s)
    BY <1>2, <1>3, <2>1, <2>4, CoversIs
  <2> QED
    BY <2>1, <2>2, <2>3, <2>4
<1>15. ASSUME a <= e PROVE e \in 1..Len(s) /\ Within(s[e]) \subseteq SetUpTo(s, e)
  <2>1. e \in 1..Len(s)
    BY <1>2, <1>15
  <2> QED
    BY <2>1, SetUpToNext
<1>16. /\ \A m \in SetOf(P), n \in SetOf(rest) : m + 1 < n
       /\ \A m \in SetOf(P), n \in Within(rr) : m < n
       /\ \A m \in Within(rr), n \in SetOf(rest) : m < n
  <2>1. \A m \in SetOf(P), n \in Within(rr) : m < n
    <3> TAKE m \in SetOf(P), n \in Within(rr)
    <3>1. m \in Nat /\ n \in Nat /\ m < rr.low /\ rr.low <= n
      BY <1>4, <1>12
    <3> QED
      BY <1>2, <3>1
  <2>2. \A m \in Within(rr), n \in SetOf(rest) : m < n
    <3> TAKE m \in Within(rr), n \in SetOf(rest)
    <3>1. m \in Nat /\ n \in Nat /\ m <= rr.high /\ rr.high < n
      BY <1>6, <1>12
    <3> QED
      BY <1>2, <3>1
  <2> QED
    BY <1>4, <1>6, <1>13, <2>1, <2>2
<1> DEFINE Good == /\ all \in Ranges /\ SetOf(all) = SetOf(s) \cup Within(rr)
                   /\ Fits(all, first, end) /\ first \in 1..(Len(all) + 1)
                   /\ end \in 0..Len(all) /\ first <= end + 1
<1> HIDE DEF Good
<1>17. ASSUME over.kept = P, over.found = FALSE, \A i \in a..e : Covers(rr, s[i])
       PROVE  Good
  <2>1. all = InsertAt(P \o <<>>, Len(P) + 1, rr) \o rest
    <3>1. P \o <<>> = P
      BY <1>4, ConcatEmptySeq DEF Ranges
    <3>2. Len(P) + 1 = a
      BY <1>2, <1>4
    <3>3. all = InsertAt(P, a, rr) \o rest
      BY <1>7, <1>17
    <3> QED
      BY <3>1, <3>2, <3>3
  <2>2. first \in Nat /\ first >= 1 /\ (first <= Len(P) \/ first = 1) /\ first <= a
    BY <1>2, <1>4, <1>8, <1>17
  <2>3. PICK y \in Int : last = y /\ y >= a + 1
    <3>1. (IF over.found THEN 0 ELSE 1) = 1 /\ Len(over.kept) = a - 1
      BY <1>4, <1>17
    <3>2. last = b + 1 - (a - 1 + T - (a - 1)) + 1
      BY <1>9, <3>1
    <3>3. last = b - e + a + 1
      BY <1>2, <1>10, <3>2
    <3>4. b - e + a + 1 \in Int /\ b - e + a + 1 >= a + 1
      BY <1>2
    <3> QED
      BY <3>3, <3>4
  <2>4. <<>> \in Ranges /\ InOrder(<<>>) /\ SetOf(<<>>) = {}
    BY NoRanges
  <2> PICK R \in Ranges : /\ InOrder(R) /\ SetOf(R) = {}
                         /\ all = InsertAt(P \o R, Len(P) + 1, rr) \o rest
    BY <2>1, <2>4
  <2>5. /\ Between(P, rr, R) /\ Between(P, rr, rest)
        /\ \A m \in SetOf(R), n \in SetOf(rest) : m + 1 < n
    BY <1>4, <1>5, <1>16 DEF Between
  <2>6. /\ all \in Ranges /\ Len(all) \in Nat /\ Len(all) >= Len(P) + 1
        /\ SetOf(all) = SetOf(P) \cup Within(rr) \cup SetOf(R) \cup SetOf(rest)
        /\ \A i, j : Reaches(P, all, i, j) => Fits(all, i, j)
    <3> PICK inserted : inserted = InsertAt(P \o R, Len(P) + 1, rr) \o rest
      OBVIOUS
    <3>1. /\ inserted \in Ranges /\ Len(inserted) \in Nat /\ Len(inserted) >= Len(P) + 1
          /\ SetOf(inserted) = SetOf(P) \cup Within(rr) \cup SetOf(R) \cup SetOf(rest)
          /\ \A i, j : Reaches(P, inserted, i, j) => Fits(inserted, i, j)
      BY <1>4, <1>5, <2>5, InsertedAre
    <3> QED
      BY <3>1
  <2>7. /\ end \in 0..Len(all) /\ (end = y \/ end = Len(all)) /\ (end = y \/ y > Len(all))
    BY <1>2, <1>11, <2>3, <2>6
  <2>8. Fits(all, first, end)
    <3>1. end \in Nat /\ (end >= Len(P) + 2 \/ end = Len(all))
      BY <1>2, <1>4, <2>3, <2>6, <2>7
    <3> QED
      BY <2>2, <2>6, <3>1 DEF Reaches
  <2>9. SetOf(all) = SetOf(s) \cup Within(rr)
    <3>1. ASSUME a <= e PROVE Within(s[e]) \subseteq Within(rr)
      <4>1. e \in a..e /\ e \in 1..Len(s)
        BY <1>2, <3>1
      <4> QED
        BY <1>2, <1>17, <4>1, CoversIs
    <3>2. SetUpTo(s, e) \subseteq SetUpTo(s, a - 1) \cup Within(rr)
      BY <1>14, <3>1
    <3> QED
      BY <1>4, <1>6, <1>13, <2>4, <2>6, <3>2
  <2>10. first \in 1..(Len(all) + 1) /\ first <= end + 1
    BY <1>2, <1>4, <2>2, <2>3, <2>6, <2>7
  <2> QED
    BY <2>6, <2>7, <2>8, <2>9, <2>10 DEF Good
<1>18. ASSUME a <= e, b = e, over.found = FALSE,
              over.kept = Append(P, s[e]), rr.high < s[e].low
       PROVE  Good
  <2> PICK r \in Rng : r = s[e] /\ r.low <= r.high
    BY <1>2, <1>15, <1>18
  <2>1. all = InsertAt(P \o <<r>>, Len(P) + 1, rr) \o rest
    <3>1. P \o <<r>> = Append(P, r)
      BY <1>4, AppendIsConcat DEF Ranges
    <3>2. Len(P) + 1 = a
      BY <1>2, <1>4
    <3>3. all = InsertAt(Append(P, r), a, rr) \o rest
      BY <1>7, <1>18
    <3> QED
      BY <3>1, <3>2, <3>3
  <2>2. first \in Nat /\ first >= 1 /\ (first <= Len(P) \/ first = 1) /\ first <= a
    BY <1>2, <1>4, <1>8, <1>18
  <2>3. Len(over.kept) = a
    <3>1. Len(Append(P, r)) = Len(P) + 1
      BY <1>4, AppendRange
    <3> QED
      BY <1>2, <1>4, <1>18, <3>1
  <2>4. last = a + 2 /\ a + 2 \in Int /\ a + 2 >= 0
    <3>1. (IF over.found THEN 0 ELSE 1) = 1
      BY <1>18
    <3>2. last = b + 1 - (a - 1 + T - a) + 1
      BY <1>9, <2>3, <3>1
    <3>3. a \in Int /\ T \in Int /\ e \in Int /\ a >= 1 /\ b = e
      BY <1>2, <1>18
    <3>4. last = a + 2
      BY <1>10, <3>2, <3>3
    <3> QED
      BY <3>3, <3>4
  <2>5. /\ <<r>> \in Ranges /\ InOrder(<<r>>) /\ SetOf(<<r>>) = Within(r)
    BY OneRange
  <2>9. \A n \in Within(r) : n \in Nat /\ r.low <= n
    BY WithinIs
  <2>10. /\ \A m \in SetOf(P), n \in SetOf(<<r>>) : m + 1 < n
         /\ \A m \in SetOf(<<r>>), n \in SetOf(rest) : m + 1 < n
         /\ \A m \in Within(rr), n \in SetOf(<<r>>) : m < n
    <3>1. SetUpTo(s, a - 1) \subseteq SetUpTo(s, e - 1)
      BY <1>2, <1>18, UpToGrows
    <3>2. \A m \in SetOf(P), n \in SetOf(<<r>>) : m + 1 < n
      BY <1>4, <1>15, <1>18, <2>5, <3>1, UpToApart
    <3>3. \A m \in SetOf(<<r>>), n \in SetOf(rest) : m + 1 < n
      BY <1>6, <1>15, <1>18, <2>5
    <3>4. \A m \in Within(rr), n \in SetOf(<<r>>) : m < n
      <4> TAKE m \in Within(rr), n \in SetOf(<<r>>)
      <4>1. m \in Nat /\ m <= rr.high /\ n \in Nat /\ r.low <= n /\ rr.high < r.low
        BY <1>12, <1>18, <2>5, <2>9
      <4>2. r.low \in Nat
        BY WithinIs
      <4> QED
        BY <1>2, <4>1, <4>2
    <3> QED
      BY <3>2, <3>3, <3>4
  <2>6. Between(P, rr, <<r>>) /\ Between(P, rr, rest)
    BY <1>4, <1>5, <1>16, <2>5, <2>10 DEF Between
  <2>7. /\ all \in Ranges /\ Len(all) \in Nat /\ Len(all) >= Len(P) + 1
        /\ SetOf(all) = SetOf(P) \cup Within(rr) \cup SetOf(<<r>>) \cup SetOf(rest)
        /\ \A i, j : Reaches(P, all, i, j) => Fits(all, i, j)
    <3> PICK R \in Ranges : R = <<r>>
      BY <2>5
    <3> PICK inserted : inserted = InsertAt(P \o R, Len(P) + 1, rr) \o rest
      OBVIOUS
    <3>1. \A m \in SetOf(<<r>>), n \in SetOf(rest) : m + 1 < n
      BY <2>10
    <3>2. /\ inserted \in Ranges /\ Len(inserted) \in Nat /\ Len(inserted) >= Len(P) + 1
          /\ SetOf(inserted) = SetOf(P) \cup Within(rr) \cup SetOf(R) \cup SetOf(rest)
          /\ \A i, j : Reaches(P, inserted, i, j) => Fits(inserted, i, j)
      <4>1. /\ Between(P, rr, R) /\ Between(P, rr, rest)
            /\ \A m \in SetOf(R), n \in SetOf(rest) : m + 1 < n
        BY <1>4, <1>5, <2>5, <2>6, <3>1
      <4> QED
        BY <1>4, <1>5, <4>1, InsertedAre
    <3> QED
      BY <2>1, <3>2
  <2>8. /\ end \in 0..Len(all) /\ (end = a + 2 \/ end = Len(all))
        /\ (end = a + 2 \/ a + 2 > Len(all))
    BY <1>11, <2>4, <2>7
  <2>11. Fits(all, first, end)
    <3>1. end \in Nat /\ (end >= Len(P) + 2 \/ end = Len(all))
      BY <1>2, <1>4, <2>7, <2>8
    <3> QED
      BY <2>2, <2>7, <3>1 DEF Reaches
  <2>12. SetOf(all) = SetOf(s) \cup Within(rr)
    BY <1>4, <1>6, <1>13, <1>14, <1>15, <1>18, <2>5, <2>7
  <2>13. first \in 1..(Len(all) + 1) /\ first <= end + 1
    BY <1>2, <1>4, <2>2, <2>7, <2>8
  <2> QED
    BY <2>7, <2>8, <2>11, <2>12, <2>13 DEF Good
<1>19. ASSUME a = e, b = e, over.found = TRUE,
              over.kept = Append(P, s[e]), Covers(s[e], rr)
       PROVE  Good
  <2>1. e \in 1..Len(s) /\ a <= e
    BY <1>2, <1>19
  <2> PICK r \in Rng : r = s[e] /\ r.low <= r.high
    BY <1>2, <2>1
  <2>2. /\ <<r>> \in Ranges /\ InOrder(<<r>>) /\ SetOf(<<r>>) = Within(r)
    BY OneRange
  <2> PICK kept \in Ranges : kept = Append(P, r)
    BY <1>4, AppendRange
  <2>3. /\ InOrder(kept) /\ SetOf(kept) = SetUpTo(s, e) /\ Len(kept) = a
    <3>1. kept = P \o <<r>>
      BY <1>4, AppendIsConcat DEF Ranges
    <3>2. \A m \in SetOf(P), n \in SetOf(<<r>>) : m + 1 < n
      BY <1>4, <1>19, <2>1, <2>2, UpToApart
    <3>3. SetOf(kept) = SetOf(P) \cup Within(r) /\ Len(kept) = Len(P) + 1
      BY <1>4, AppendRange
    <3>4. InOrder(kept)
      BY <1>4, <2>2, <3>1, <3>2, JoinBySets
    <3>5. SetUpTo(s, e) = SetUpTo(s, e - 1) \cup Within(r)
      BY <2>1, SetUpToNext
    <3> QED
      BY <1>2, <1>4, <1>19, <3>3, <3>4, <3>5
  <2>4. all = kept \o rest
    BY <1>7, <1>19
  <2>5. /\ all \in Ranges /\ InOrder(all) /\ SetOf(all) = SetUpTo(s, e) \cup SetOf(rest)
        /\ Len(all) = a + Len(rest) /\ Len(rest) \in Nat
    BY <1>5, <1>6, <2>3, <2>4, JoinBySets, JoinRanges, RangesAre
  <2>6. SetOf(all) = SetOf(s) \cup Within(rr)
    <3>1. Within(rr) \subseteq SetUpTo(s, e)
      BY <1>15, <1>19, <2>1, CoversIs
    <3> QED
      BY <1>6, <2>5, <3>1
  <2>7. last = a + 1 /\ a + 1 \in Int /\ a + 1 >= 0 /\ first = a
    BY <1>2, <1>8, <1>9, <1>10, <1>19, <2>3
  <2>8. /\ end \in 0..Len(all) /\ (end = a + 1 \/ end = Len(all))
        /\ (end = a + 1 \/ a + 1 > Len(all))
    BY <1>2, <1>11, <2>5, <2>7
  <2>9. first \in 1..(Len(all) + 1) /\ first <= end + 1
    BY <1>2, <2>5, <2>7, <2>8
  <2> QED
    <3>1. Fits(all, first, end)
      BY <2>5, InOrderFits
    <3> QED
      BY <2>5, <2>6, <2>8, <2>9, <3>1 DEF Good
<1>20. ASSUME a = 1, a <= e, b = e, over.found = TRUE,
              over.kept = <<[s[e] EXCEPT !.low = 0]>>, rr.low = 0, Has(s[e], rr.high)
       PROVE  Good
  <2> PICK r \in Rng : r = s[e] /\ r.low <= r.high
    BY <1>2, <1>15, <1>20
  <2>1. r.low \in Nat /\ r.high \in Nat
    BY WithinIs
  <2> DEFINE reached == [r EXCEPT !.low = 0]
  <2>14. reached \in Rng /\ reached.low = 0 /\ reached.high = r.high
    BY <2>1 DEF Rng
  <2> PICK q \in Rng : q = reached /\ q.low = 0 /\ q.high = r.high
    BY <2>14
  <2>2. <<q>> \in Ranges /\ InOrder(<<q>>) /\ SetOf(<<q>>) = Within(q) /\ Len(<<q>>) = 1
    <3>1. q.low <= q.high
      BY <2>1
    <3> QED
      BY <3>1, OneRange
  <2>3. r.low <= rr.high /\ rr.high <= r.high
    BY <1>20 DEF Has
  <2>4. Within(q) = Within(rr) \cup Within(r)
    <3>1. /\ \A n : n \in Within(q) <=> n \in Nat /\ 0 <= n /\ n <= r.high
          /\ \A n : n \in Within(r) <=> n \in Nat /\ r.low <= n /\ n <= r.high
          /\ \A n : n \in Within(rr) <=> n \in Nat /\ 0 <= n /\ n <= rr.high
      BY <1>20, WithinIs
    <3>2. \A n \in Nat : n <= r.high <=> n <= rr.high \/ (r.low <= n /\ n <= r.high)
      BY <1>2, <2>1, <2>3
    <3> QED
      BY <3>1, <3>2
  <2>5. SetUpTo(s, e) \cup Within(rr) = Within(q)
    <3>1. SetUpTo(s, a - 1) = {}
      BY <1>2, <1>4, <1>20
    <3> QED
      BY <1>14, <1>15, <1>20, <2>4, <3>1
  <2>6. \A m \in SetOf(<<q>>), n \in SetOf(rest) : m + 1 < n
    <3> TAKE m \in SetOf(<<q>>), n \in SetOf(rest)
    <3>1. m \in Nat /\ m <= r.high
      BY <2>2, WithinIs
    <3>2. r.high \in Within(r)
      BY <2>1, WithinIs
    <3>3. r.high + 1 < n /\ n \in Nat
      BY <1>6, <1>15, <1>20, <3>2
    <3> QED
      BY <2>1, <3>1, <3>3
  <2>7. all = <<q>> \o rest
    BY <1>7, <1>20
  <2>8. /\ all \in Ranges /\ InOrder(all) /\ SetOf(all) = Within(q) \cup SetOf(rest)
        /\ Len(all) = 1 + Len(rest) /\ Len(rest) \in Nat
    BY <1>5, <2>2, <2>6, <2>7, JoinBySets, JoinRanges, RangesAre
  <2>9. SetOf(all) = SetOf(s) \cup Within(rr)
    BY <1>6, <2>5, <2>8
  <2>10. last = 2 /\ first = 1
    BY <1>2, <1>8, <1>9, <1>10, <1>20, <2>2
  <2>11. end \in 0..Len(all) /\ (end = 2 \/ end = Len(all)) /\ (end = 2 \/ 2 > Len(all))
    <3>1. 2 \in Int /\ 2 >= 0 /\ Len(all) \in Nat
      BY <2>8
    <3> QED
      BY <1>11, <2>10, <3>1
  <2>12. first \in 1..(Len(all) + 1) /\ first <= end + 1
    BY <2>8, <2>10, <2>11
  <2> QED
    <3>1. Fits(all, first, end)
      BY <2>8, InOrderFits
    <3> QED
      BY <2>8, <2>9, <2>11, <2>12, <3>1 DEF Good
<1>21. Good
  BY <1>3, <1>17, <1>18, <1>19, <1>20
<1> USE DEF Good
<1>22. new \in Ranges /\ InOrder(new) /\ SetOf(new) = SetOf(all)
  BY <1>21, Splice
<1> HIDE DEF new
<1> QED
  BY <1>1, <1>3, <1>6, <1>21, <1>22

\* is_marked says whether a number is in the set.
LEMMA IsMarkedIs ==
  ASSUME NEW s \in Ranges, InOrder(s), NEW n \in Nat
  PROVE  IsMarked(s, n) <=> n \in SetOf(s)
<1> PICK i : i = LowerBound(s, n)
  OBVIOUS
<1>1. /\ i \in 1..(Len(s) + 1) /\ Len(s) \in Nat
      /\ i \in 1..Len(s) => s[i].high >= n
      /\ \A j \in 1..Len(s) : j < i => s[j].high < n
  BY LowerBoundIs, RangesAre
<1>2. IsMarked(s, n) <=> i <= Len(s) /\ Has(s[i], n)
  BY DEF IsMarked
<1>3. ASSUME i <= Len(s), Has(s[i], n) PROVE n \in SetOf(s)
  <2>1. i \in 1..Len(s)
    BY <1>1, <1>3
  <2>2. n \in Within(s[i])
    BY <1>3, <2>1, RangesAre, WithinIs DEF Has
  <2> QED
    BY <2>1, <2>2, InSet
<1>4. ASSUME n \in SetOf(s) PROVE i <= Len(s) /\ Has(s[i], n)
  <2>1. PICK j \in 1..Len(s) : n \in Within(s[j])
    BY <1>4, InSet
  <2>2. s[j] \in Rng /\ s[j].low <= n /\ n <= s[j].high /\ s[j].low \in Nat /\ s[j].high \in Nat
    BY <2>1, RangesAre, WithinIs
  <2>3. ~(j < i)
    BY <1>1, <2>2
  <2>4. i <= Len(s) /\ i \in 1..Len(s)
    BY <1>1, <2>3
  <2>5. ~(i < j)
    <3> SUFFICES ASSUME i < j PROVE FALSE
      OBVIOUS
    <3>1. s[i].high + 1 < s[j].low /\ s[i].high \in Nat /\ s[i].high >= n
      BY <1>1, <2>4, RangesAre DEF InOrder
    <3> QED
      BY <2>2, <3>1
  <2>6. i = j
    BY <1>1, <2>3, <2>5
  <2> QED
    BY <2>2, <2>4, <2>6 DEF Has
<1> QED
  BY <1>2, <1>3, <1>4

\* The ranges that a file had, read one after the other, are the ranges of the set.
LEMMA RereadIs ==
  ASSUME NEW s \in Ranges, InOrder(s)
  PROVE  Reread(s) \in Ranges /\ InOrder(Reread(s)) /\ SetOf(Reread(s)) = SetOf(s)
<1> DEFINE T == Len(s)
           IsUpTo(k, v) == v \in Ranges /\ InOrder(v) /\ SetOf(v) = SetUpTo(s, k)
           G == [x \in (1..T) \X Ranges |->
                   IF IsUpTo(x[1] - 1, x[2]) THEN MarkRange(x[2], s[x[1]]).marked ELSE <<>>]
           reread[k \in 0..T] == IF k = 0 THEN <<>> ELSE MarkRange(reread[k - 1], s[k]).marked
<1>1. T \in Nat /\ \A k \in 1..T : s[k] \in Rng /\ s[k].low <= s[k].high
  BY RangesAre DEF InOrder
<1>2. IsUpTo(0, <<>>)
  <2>1. SetUpTo(s, 0) = {}
    BY InSetUpTo
  <2> QED
    BY <2>1, NoRanges
<1>3. ASSUME NEW k \in 1..T, NEW v, IsUpTo(k - 1, v)
      PROVE  IsUpTo(k, MarkRange(v, s[k]).marked)
  <2>1. Under(v, s[k].low)
    <3>1. k - 1 \in 0..Len(s) /\ k \in 1..Len(s) /\ k - 1 < k
      BY <1>1
    <3> QED
      BY <1>3, <3>1, UnderNext
  <2>2. Simple(v, s[k])
    <3>1. ASSUME NEW i \in 1..Len(v) PROVE v[i].high < s[k].low
      <4>1. v[i].high + 1 < s[k].low /\ v[i].high \in Nat /\ s[k].low \in Nat
        BY <1>1, <1>3, <2>1, RangesAre, WithinIs DEF Under
      <4> QED
        BY <4>1
    <3> QED
      BY <3>1 DEF Simple
  <2>3. PICK new : new = MarkRange(v, s[k]).marked
    OBVIOUS
  <2>4. new \in Ranges /\ InOrder(new) /\ SetOf(new) = SetOf(v) \cup Within(s[k])
    BY <1>1, <1>3, <2>2, <2>3, Marks
  <2>5. SetUpTo(s, k) = SetUpTo(s, k - 1) \cup Within(s[k])
    BY SetUpToNext
  <2> QED
    BY <1>3, <2>3, <2>4, <2>5
<1> HIDE DEF IsUpTo
<1>4. ASSUME NEW k, NEW v, IsUpTo(k, v) PROVE v \in Ranges
  BY <1>4 DEF IsUpTo
<1>5. G \in [(1..T) \X Ranges -> Ranges]
  <2>1. ASSUME NEW k \in 1..T, NEW v \in Ranges
        PROVE  (IF IsUpTo(k - 1, v) THEN MarkRange(v, s[k]).marked ELSE <<>>) \in Ranges
    BY <1>3, <1>4, NoRanges
  <2> HIDE DEF T
  <2> QED
    BY <2>1
<1>6. PICK c \in [0..T -> Ranges] : Loops(c, T, <<>>, G)
  <2>1. <<>> \in Ranges
    BY NoRanges
  <2> HIDE DEF G, T
  <2> QED
    BY <1>1, <1>5, <2>1, Loop
<1>7. /\ c[0] = <<>>
      /\ \A k \in 1..T : c[k] = IF IsUpTo(k - 1, c[k - 1])
                                THEN MarkRange(c[k - 1], s[k]).marked ELSE <<>>
  <2>1. 0 \in 0..T /\ \A k \in 1..T : k \in 0..T /\ k # 0 /\ k - 1 \in 0..T
    BY <1>1
  <2>2. c[0] = <<>>
    <3> HIDE DEF G, T
    <3> QED
      BY <1>6, <2>1 DEF Loops
  <2>3. ASSUME NEW k \in 1..T
        PROVE  c[k] = IF IsUpTo(k - 1, c[k - 1])
                      THEN MarkRange(c[k - 1], s[k]).marked ELSE <<>>
    <3>1. c[k] = G[<<k, c[k - 1]>>]
      <4> HIDE DEF G, T
      <4> QED
        BY <1>6, <2>1 DEF Loops
    <3>2. c[k - 1] \in Ranges
      BY <2>1
    <3> HIDE DEF T
    <3> QED
      BY <3>1, <3>2
  <2> QED
    BY <2>2, <2>3
<1>8. \A k \in 0..T : IsUpTo(k, c[k])
  <2> DEFINE S == {k \in 0..T : IsUpTo(k, c[k])}
  <2>1. 0 \in S
    BY <1>1, <1>2, <1>7
  <2>2. ASSUME NEW k \in 1..T, k - 1 \in S PROVE k \in S
    <3>1. k \in 0..T /\ IsUpTo(k - 1, c[k - 1])
      BY <1>1, <2>2
    <3> QED
      BY <1>3, <1>7, <3>1
  <2>3. \A k \in 0..T : k \in S
    <3> HIDE DEF S, T
    <3> QED
      BY <1>1, <2>1, <2>2, UpTo
  <2> QED
    BY <2>3
<1>9. c = [k \in 0..T |-> IF k = 0 THEN <<>> ELSE MarkRange(c[k - 1], s[k]).marked]
  <2>1. ASSUME NEW k \in 0..T
        PROVE  c[k] = IF k = 0 THEN <<>> ELSE MarkRange(c[k - 1], s[k]).marked
    <3>1. CASE k = 0
      BY <1>7, <3>1
    <3>2. CASE k # 0
      <4>1. k \in 1..T /\ k - 1 \in 0..T
        BY <1>1, <3>2
      <4>2. IsUpTo(k - 1, c[k - 1])
        BY <1>8, <4>1
      <4> QED
        BY <1>7, <3>2, <4>1, <4>2
    <3> QED
      BY <3>1, <3>2
  <2> HIDE DEF T
  <2> QED
    BY <2>1
<1>10. Reread(s) = reread[T]
  BY Zenon DEF Reread
<1> HIDE DEF G, reread
<1>11. reread = [k \in 0..T |-> IF k = 0 THEN <<>> ELSE MarkRange(reread[k - 1], s[k]).marked]
  BY <1>9, Zenon DEF reread
<1>12. \A k \in 0..T : IsUpTo(k, reread[k])
  <2> DEFINE S == {k \in 0..T : IsUpTo(k, reread[k])}
  <2>1. 0 \in 0..T /\ \A k \in 1..T : k \in 0..T /\ k # 0
    BY <1>1
  <2>2. reread[0] = <<>> /\ \A k \in 1..T : reread[k] = MarkRange(reread[k - 1], s[k]).marked
    <3> HIDE DEF T
    <3> QED
      BY <1>11, <2>1
  <2>3. 0 \in S
    BY <1>2, <2>1, <2>2
  <2>4. ASSUME NEW k \in 1..T, k - 1 \in S PROVE k \in S
    <3>1. k \in 0..T /\ IsUpTo(k - 1, reread[k - 1])
      BY <2>1, <2>4
    <3> QED
      BY <1>3, <2>2, <3>1
  <2>5. \A k \in 0..T : k \in S
    <3> HIDE DEF S, T
    <3> QED
      BY <1>1, <2>3, <2>4, UpTo
  <2> QED
    BY <2>5
<1>13. IsUpTo(T, Reread(s))
  BY <1>1, <1>10, <1>12
<1>14. SetUpTo(s, T) = SetOf(s)
  BY DEF SetUpTo, SetOf, Within
<1> QED
  BY <1>13, <1>14 DEF IsUpTo

\* The ranges of the calls.
LEMMA SpanIs ==
  ASSUME NEW m \in Nat, NEW n \in Nat, m <= n
  PROVE  /\ Span(m, n) \in Rng /\ Span(m, n).low = m /\ Span(m, n).high = n
         /\ Within(Span(m, n)) = m..n
BY DEF Span, Rng, Within

\* What a call that marks leaves in the variables.
LEMMA MarkedIs ==
  ASSUME NEW s \in Ranges, InOrder(s), NEW m \in Nat, NEW n \in Nat, m = 0 \/ m = n, m <= n
  PROVE  LET done == MarkRange(s, Span(m, n))
         IN  /\ done.marked \in Ranges /\ InOrder(done.marked)
             /\ SetOf(done.marked) = SetOf(s) \cup (m..n)
             /\ done.changed = Cardinality((m..n) \ SetOf(s))
<1> PICK rr \in Rng : rr = Span(m, n) /\ rr.low = m /\ rr.high = n /\ Within(rr) = m..n
  BY SpanIs
<1>1. Simple(s, rr)
  BY DEF Simple
<1>2. LET done == MarkRange(s, rr)
      IN  /\ done.marked \in Ranges /\ InOrder(done.marked)
          /\ SetOf(done.marked) = SetOf(s) \cup Within(rr)
          /\ done.changed = Cardinality(Within(rr) \ SetOf(s))
  BY <1>1, Marks
<1> QED
  BY <1>2

LEMMA UnmarkedIs ==
  ASSUME NEW s \in Ranges, InOrder(s), NEW m \in Nat, NEW n \in Nat, m <= n
  PROVE  LET done == UnmarkRange(s, Span(m, n))
         IN  /\ done.marked \in Ranges /\ InOrder(done.marked)
             /\ SetOf(done.marked) = SetOf(s) \ (m..n)
             /\ done.changed = Cardinality(SetOf(s) \cap (m..n))
<1> PICK ur \in Rng : ur = Span(m, n) /\ ur.low = m /\ ur.high = n /\ Within(ur) = m..n
  BY SpanIs
<1>1. LET done == UnmarkRange(s, ur)
      IN  /\ done.marked \in Ranges /\ InOrder(done.marked)
          /\ SetOf(done.marked) = SetOf(s) \ Within(ur)
          /\ done.changed = Cardinality(SetOf(s) \cap Within(ur))
  BY Unmarks
<1> QED
  BY <1>1

\* One number is marked or it is not.
LEMMA OneNumber ==
  ASSUME NEW S, NEW n
  PROVE  /\ Cardinality(S \cap {n}) = IF n \in S THEN 1 ELSE 0
         /\ Cardinality({n} \ S) = IF n \in S THEN 0 ELSE 1
<1>1. Cardinality({}) = 0 /\ Cardinality({n}) = 1
  BY FS_EmptySet, FS_Singleton
<1>2. CASE n \in S
  <2>1. S \cap {n} = {n} /\ {n} \ S = {}
    BY <1>2
  <2> QED
    BY <1>1, <1>2, <2>1
<1>3. CASE n \notin S
  <2>1. S \cap {n} = {} /\ {n} \ S = {n}
    BY <1>3
  <2> QED
    BY <1>1, <1>3, <2>1
<1> QED
  BY <1>2, <1>3

\* The inductive invariant: the ranges are ranges of natural numbers.
MarksInv == read \in Ranges /\ ReadIsTheSet

\* What it takes to establish it.
LEMMA MarksHold ==
  ASSUME read' \in Ranges, InOrder(read'), SetOf(read') = truth',
         result' = Cardinality(change')
  PROVE  MarksInv'
<1>1. \A n \in 0..Last0 : IsMarked(read', n) <=> n \in truth'
  <2> TAKE n \in 0..Last0
  <2>1. n \in Nat
    BY ReadMarksAssumption
  <2> QED
    BY <2>1, IsMarkedIs
<1> QED
  BY <1>1 DEF MarksInv, ReadIsTheSet

LEMMA MarksInitHolds == MarksInit => MarksInv
<1> SUFFICES ASSUME MarksInit PROVE MarksInv
  OBVIOUS
<1>1. read = <<>> /\ truth = {} /\ result = 0 /\ change = {}
  BY DEF MarksInit
<1>2. read \in Ranges /\ InOrder(read) /\ SetOf(read) = truth
  BY <1>1, NoRanges
<1>3. ASSUME NEW n \in 0..Last0 PROVE IsMarked(read, n) <=> n \in truth
  <2>1. n \in Nat
    BY ReadMarksAssumption
  <2> QED
    BY <1>2, <2>1, IsMarkedIs
<1>4. result = Cardinality(change)
  BY <1>1, FS_EmptySet
<1> QED
  BY <1>2, <1>3, <1>4 DEF MarksInv, ReadIsTheSet

LEMMA MarksStep == MarksInv /\ [MarksNext]_marksVars => MarksInv'
<1> SUFFICES ASSUME MarksInv, [MarksNext]_marksVars PROVE MarksInv'
  OBVIOUS
<1>1. read \in Ranges /\ InOrder(read) /\ SetOf(read) = truth /\ result = Cardinality(change)
  BY DEF MarksInv, ReadIsTheSet
<1>2. \A n \in 0..Last0 : n \in Nat /\ \A m \in 0..n : m \in Nat /\ m <= n
  BY ReadMarksAssumption
<1>3. ASSUME NEW n \in 0..Last0, MarkArticle(n, TRUE) PROVE MarksInv'
  <2> PICK done : done = MarkRange(read, Span(n, n))
    OBVIOUS
  <2>1. n..n = {n} /\ n <= n
    BY <1>2
  <2>2. /\ done.marked \in Ranges /\ InOrder(done.marked)
        /\ SetOf(done.marked) = truth \cup {n} /\ done.changed = Cardinality({n} \ truth)
    BY <1>1, <1>2, <2>1, MarkedIs
  <2>3. /\ read' = done.marked /\ truth' = truth \cup {n} /\ change' = truth \cap {n}
        /\ result' = IF done.changed = 0 THEN 1 ELSE 0
    BY <1>3 DEF MarkArticle, MarkOne
  <2>4. result' = Cardinality(change')
    <3>1. /\ Cardinality(truth \cap {n}) = IF n \in truth THEN 1 ELSE 0
          /\ Cardinality({n} \ truth) = IF n \in truth THEN 0 ELSE 1
      BY OneNumber
    <3> QED
      BY <2>2, <2>3, <3>1
  <2> QED
    BY <2>2, <2>3, <2>4, MarksHold
<1>4. ASSUME NEW n \in 0..Last0, MarkArticle(n, FALSE) PROVE MarksInv'
  <2> PICK done : done = UnmarkRange(read, Span(n, n))
    OBVIOUS
  <2>1. n..n = {n} /\ n <= n
    BY <1>2
  <2>2. /\ done.marked \in Ranges /\ InOrder(done.marked)
        /\ SetOf(done.marked) = truth \ {n} /\ done.changed = Cardinality(truth \cap {n})
    BY <1>1, <1>2, <2>1, UnmarkedIs
  <2>3. /\ read' = done.marked /\ truth' = truth \ {n} /\ change' = truth \cap {n}
        /\ result' = IF done.changed = 0 THEN 0 ELSE 1
    BY <1>4 DEF MarkArticle, MarkOne
  <2>4. result' = Cardinality(change')
    <3>1. Cardinality(truth \cap {n}) = IF n \in truth THEN 1 ELSE 0
      BY OneNumber
    <3> QED
      BY <2>2, <2>3, <3>1
  <2> QED
    BY <2>2, <2>3, <2>4, MarksHold
<1>5. ASSUME NEW n \in 0..Last0, MarkUpTo(n) PROVE MarksInv'
  <2> PICK done : done = MarkRange(read, Span(0, n))
    OBVIOUS
  <2>1. /\ done.marked \in Ranges /\ InOrder(done.marked)
        /\ SetOf(done.marked) = truth \cup (0..n) /\ done.changed = Cardinality((0..n) \ truth)
    <3>1. n \in Nat /\ 0 \in Nat /\ 0 <= n
      BY <1>2
    <3> QED
      BY <1>1, <3>1, MarkedIs
  <2>2. /\ read' = done.marked /\ result' = done.changed
        /\ truth' = truth \cup (0..n) /\ change' = (0..n) \ truth
    BY <1>5 DEF MarkUpTo
  <2> QED
    BY <2>1, <2>2, MarksHold
<1>6. ASSUME NEW n \in 0..Last0, NEW m \in 0..n, Unmark(m, n) PROVE MarksInv'
  <2> PICK done : done = UnmarkRange(read, Span(m, n))
    OBVIOUS
  <2>1. /\ done.marked \in Ranges /\ InOrder(done.marked)
        /\ SetOf(done.marked) = truth \ (m..n) /\ done.changed = Cardinality(truth \cap (m..n))
    BY <1>1, <1>2, UnmarkedIs
  <2>2. /\ read' = done.marked /\ result' = done.changed
        /\ truth' = truth \ (m..n) /\ change' = truth \cap (m..n)
    BY <1>6 DEF Unmark
  <2> QED
    BY <2>1, <2>2, MarksHold
<1>7. CASE Restart
  <2>1. read' = Reread(read) /\ result' = 0 /\ change' = {} /\ truth' = truth
    BY <1>7 DEF Restart
  <2>2. read' \in Ranges /\ InOrder(read') /\ SetOf(read') = truth'
    BY <1>1, <2>1, RereadIs
  <2>3. result' = Cardinality(change')
    BY <2>1, FS_EmptySet
  <2> QED
    BY <2>2, <2>3, MarksHold
<1>8. CASE UNCHANGED marksVars
  <2>1. read' = read /\ truth' = truth /\ result' = result /\ change' = change
    BY <1>8 DEF marksVars
  <2> QED
    BY <1>1, <2>1, MarksHold
<1>9. ASSUME NEW n \in 0..Last0, NEW add \in BOOLEAN, MarkArticle(n, add) PROVE MarksInv'
  BY <1>3, <1>4, <1>9
<1> QED
  BY <1>5, <1>6, <1>7, <1>8, <1>9 DEF MarksNext

\* After any sequence of calls and restarts the ranges that stand for the read
\* articles are those of the set that the calls make, and each call returned how
\* many numbers it changed.
THEOREM ReadIsTheSetIsInvariant == MarksSpec => []ReadIsTheSet
<1>1. MarksInv => ReadIsTheSet
  BY DEF MarksInv
<1> QED
  BY <1>1, MarksInitHolds, MarksStep, PTL DEF MarksSpec
=============================================================================
