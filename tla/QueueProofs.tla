------------------------------ MODULE QueueProofs ------------------------------
(***************************************************************************)
(* What the queue never does, for any tasks, servers, limits and failures. *)
(* Every function of queue.cc gets a lemma of what it leaves as it was and *)
(* what it makes of the one task it is about; the actions follow from the  *)
(* lemma of their outermost function.                                      *)
(***************************************************************************)
EXTENDS Queue, FiniteSetTheorems, SequenceTheorems, WellFoundedInduction, TLAPS

Works == {"INITIAL", "NEED_NNTP", "NEED_DECODER", "NEED_ENCODER", "WORKING",
          "COMPLETED", "MISSED"}
Part == [xref : (SUBSET SERVER) \ {{}}, nntp : SERVER \cup {None}]
Needed == UNION {[numbers -> Part] : numbers \in SUBSET (1..MaxParts)}

QueueState ==
  [tasks : Seq(TASK), stopped : SUBSET TASK, removing : SUBSET TASK,
   uploads : SUBSET TASK, is_online : BOOLEAN,
   coder_task : [CODER -> TASK \cup {None}], cancelled : [CODER -> BOOLEAN],
   work : [TASK -> Works], health : [TASK -> Health], ran : [TASK -> BOOLEAN],
   parts : [TASK -> Needed], idle : [SERVER -> Int], pending : [SERVER -> Int],
   ping : [SERVER -> Int], allowed : [SERVER -> BOOLEAN], dangling : BOOLEAN]

Known(r) == ToSet(r.tasks)
Distinct(s) == \A i, j \in DOMAIN s : s[i] = s[j] => i = j
HasCoder(r, t) == \E c \in CODER : r.coder_task[c] = t
Needs(c) == IF c = "decoder" THEN "NEED_DECODER" ELSE "NEED_ENCODER"

\* A task has the coder of its kind alone, and no connection beside it.
CoderSound(r, t) ==
  \A c \in CODER : r.coder_task[c] = t =>
    /\ c = CoderOf(t) /\ t \in SAVE \cup UPLOAD
    /\ r.work[t] = "WORKING" /\ ~r.ran[t] /\ ~Holds(r, t)
    /\ t \in SAVE => Waiting(r, t) = {}

\* Without it its state is what update_work would make it.
ArticleSound(r, t) ==
  /\ ~HasCoder(r, t) => r.work[t] = ArticleWork(r, t)
  /\ r.health[t] \in Unwell => Waiting(r, t) # {}

UploadSound(r, t) ==
  /\ r.health[t] \notin Unwell
  /\ ~r.ran[t] => ~Holds(r, t)
  /\ t \notin r.uploads =>
       /\ r.work[t] = "INITIAL" /\ ~r.ran[t] /\ ~HasCoder(r, t)
       /\ t \notin r.removing
  /\ t \in r.uploads /\ ~HasCoder(r, t) => r.work[t] = UploadWork(r, t)

PostSound(r, t) ==
  /\ DOMAIN r.parts[t] = {1}
  /\ Holds(r, t) => r.work[t] = "WORKING"
  /\ ~Holds(r, t) => r.work[t] \in {"NEED_NNTP", "COMPLETED"}

TaskSound(r, t) ==
  /\ CoderSound(r, t)
  /\ t \in ARTICLE => ArticleSound(r, t)
  /\ t \in UPLOAD => UploadSound(r, t)
  /\ t \in POST => PostSound(r, t)

\* A task that is not in the queue has nothing of it.
Absent(r, t) ==
  /\ r.work[t] = "COMPLETED" /\ r.health[t] = "OK" /\ ~r.ran[t]
  /\ DOMAIN r.parts[t] = {} /\ ~HasCoder(r, t)
  /\ t \notin r.stopped \cup r.removing \cup r.uploads

\* No more uploads than some server allows.
Slots(r) ==
  /\ r.uploads \subseteq UPLOAD
  /\ r.uploads = {} \/ \E s \in SERVER : Cardinality(r.uploads) <= Limit[s]

Each(r, t) == IF t \in Known(r) THEN TaskSound(r, t) ELSE Absent(r, t)

Sound(r) ==
  /\ r \in QueueState /\ Distinct(r.tasks) /\ ~r.dangling /\ Slots(r)
  /\ \A t \in TASK : Each(r, t)

\* Nothing is to be done for t: it is not to be deleted, no coder it needs is
\* idle, and no slot it waits for.
Settled(r, t) ==
  /\ r.work[t] # "COMPLETED"
  /\ t \in r.removing => task_is_active(r, t)

Coded(r, c, t) ==
  r.coder_task[c] = None /\ Unhindered(r, t) => r.work[t] # Needs(c)

Slotted(r, t) == r.uploads = {} /\ r.work[t] = "INITIAL" => t \in r.stopped

Served(r, t) == Settled(r, t) /\ Slotted(r, t) /\ \A c \in CODER : Coded(r, c, t)

Fine(r) == Sound(r) /\ \A t \in Known(r) : Served(r, t)

Inv == Fine(q)

----------------------------------------------------------------------------
(* What a function of the queue does to its state, from r to x.            *)

\* Who is to get nothing.
Barred(r) == r.stopped \cup r.removing \cup (TASK \ Known(r))

Offline(r, x) ==
  /\ ~x.is_online
  /\ \A t \in TASK : Lent(x, t) \subseteq Lent(r, t)
  /\ \A s \in SERVER : x.pending[s] <= r.pending[s]

Got(r, x, t) ==
  Lent(x, t) \subseteq Lent(r, t) /\ Coders(x, t) \subseteq Coders(r, t)

\* Nothing was lent that should not be.
Keeps(r, x) ==
  /\ Barred(r) \subseteq Barred(x) /\ x.stopped \subseteq r.stopped
  /\ \A t \in Barred(r) : Got(r, x, t)
  /\ ~r.is_online => Offline(r, x)

\* v is in x as well served as in r, and well served if "now" says so.
Better(r, x, v, now) ==
  /\ now \/ Settled(r, v) => Settled(x, v)
  /\ now \/ Slotted(r, v) => Slotted(x, v)
  /\ \A c \in CODER : now \/ Coded(r, c, v) => Coded(x, c, v)

\* The tasks of T were served, and the others are no worse off.
Progress(r, x, T) ==
  /\ Known(x) \subseteq Known(r) /\ Known(r) \ T \subseteq Known(x)
  /\ \A c \in CODER : r.coder_task[c] # None => x.coder_task[c] = r.coder_task[c]
  /\ \A v \in Known(x) : Better(r, x, v, v \in T)

Goes(r, x, T) == Sound(x) /\ Keeps(r, x) /\ Progress(r, x, T)

\* To t's own, r and x are the same.
Same(r, x, t) ==
  /\ x.work[t] = r.work[t] /\ x.health[t] = r.health[t] /\ x.ran[t] = r.ran[t]
  /\ x.parts[t] = r.parts[t]
  /\ t \in x.uploads <=> t \in r.uploads
  /\ \A c \in CODER : x.coder_task[c] = t <=> r.coder_task[c] = t

\* The queue is the same, and so is what all but t have.
OnlyTask(r, x, t) ==
  /\ x \in QueueState
  /\ x.tasks = r.tasks /\ x.stopped = r.stopped /\ x.removing = r.removing
  /\ x.dangling = r.dangling
  /\ \A u \in TASK \ {t} : Same(r, x, u)

\* t was served, and nobody else.
Alone(r, x, t) ==
  /\ OnlyTask(r, x, t) /\ TaskSound(x, t)
  /\ Slots(x) /\ r.uploads \subseteq x.uploads
  /\ \A c \in CODER : r.coder_task[c] # None => x.coder_task[c] = r.coder_task[c]
  /\ t \in Barred(r) => Got(r, x, t)
  /\ ~r.is_online => /\ ~x.is_online /\ Lent(x, t) \subseteq Lent(r, t)
                     /\ \A s \in SERVER : x.pending[s] <= r.pending[s]

----------------------------------------------------------------------------
(* Numbers and sequences.                                                  *)

LEMMA Extremes ==
  ASSUME NEW S \in SUBSET Int, IsFiniteSet(S), S # {}
  PROVE  /\ Max(S) \in S /\ \A y \in S : Max(S) >= y
         /\ Min(S) \in S /\ \A y \in S : Min(S) =< y
<1> DEFINE Above(a) == {y \in S : y >= a}
           Below(a) == {y \in S : y <= a}
           R == StrictSubsetOrdering(S)
           F == FiniteSubsetsOf(S)
<1>1. IsWellFoundedOn(R, F)
  BY FS_StrictSubsetOrderingWellFounded
<1>2. \A a \in S : Above(a) \in F /\ Below(a) \in F
  <2> TAKE a \in S
  <2>1. Above(a) \in SUBSET S /\ Below(a) \in SUBSET S
    OBVIOUS
  <2>2. IsFiniteSet(Above(a)) /\ IsFiniteSet(Below(a))
    BY <2>1, FS_Subset
  <2> QED
    BY <2>1, <2>2 DEF FiniteSubsetsOf
<1>3. PICK x \in S : \A y \in S : ~ (<<Above(y), Above(x)>> \in R)
  <2>1. PICK A \in {Above(a) : a \in S} : \A B \in {Above(a) : a \in S} : ~ (<<B, A>> \in R)
    <3> DEFINE T == {Above(a) : a \in S}
    <3>1. T \subseteq F /\ T # {}
      BY <1>2
    <3> HIDE DEF T, R, F
    <3> QED
      BY <1>1, <3>1, WFMin DEF T
  <2> QED
    BY <2>1
<1>4. \A y \in S : x >= y
  <2> SUFFICES ASSUME NEW y \in S, y > x PROVE FALSE
    OBVIOUS
  <2>1. x \in Int /\ y \in Int /\ S \subseteq Int
    OBVIOUS
  <2>2. /\ \A w \in S : w >= y => w >= x
        /\ x >= x /\ ~(x >= y)
    BY <2>1
  <2>3. Above(y) \subseteq Above(x) /\ x \in Above(x) /\ x \notin Above(y)
    BY <2>2
  <2> QED
    BY <1>3, <2>3 DEF StrictSubsetOrdering
<1>5. PICK z \in S : \A y \in S : ~ (<<Below(y), Below(z)>> \in R)
  <2>1. PICK A \in {Below(a) : a \in S} : \A B \in {Below(a) : a \in S} : ~ (<<B, A>> \in R)
    <3> DEFINE T == {Below(a) : a \in S}
    <3>1. T \subseteq F /\ T # {}
      BY <1>2
    <3> HIDE DEF T, R, F
    <3> QED
      BY <1>1, <3>1, WFMin DEF T
  <2> QED
    BY <2>1
<1>6. \A y \in S : z =< y
  <2> SUFFICES ASSUME NEW y \in S, y < z PROVE FALSE
    OBVIOUS
  <2>1. z \in Int /\ y \in Int /\ S \subseteq Int
    OBVIOUS
  <2>2. /\ \A w \in S : w <= y => w <= z
        /\ z <= z /\ ~(z <= y)
    BY <2>1
  <2>3. Below(y) \subseteq Below(z) /\ z \in Below(z) /\ z \notin Below(y)
    BY <2>2
  <2> QED
    BY <1>5, <2>3 DEF StrictSubsetOrdering
<1> QED
  BY <1>4, <1>6 DEF Max, Min

LEMMA UpTo ==
  ASSUME NEW n \in Nat, NEW S, 0 \in S,
         \A i \in 1..n : i - 1 \in S => i \in S
  PROVE  \A i \in 0..n : i \in S
<1> DEFINE B == {i \in 0..n : i \notin S}
<1> SUFFICES ASSUME B # {} PROVE FALSE
  OBVIOUS
<1>1. B \in SUBSET Int /\ IsFiniteSet(B)
  <2>1. IsFiniteSet(0..n)
    BY FS_Interval
  <2>2. B \subseteq 0..n
    OBVIOUS
  <2>3. 0..n \in SUBSET Int
    OBVIOUS
  <2> HIDE DEF B
  <2>4. IsFiniteSet(B)
    BY <2>1, <2>2, FS_Subset
  <2> QED
    BY <2>2, <2>3, <2>4
<1>2. PICK m \in B : \A y \in B : m =< y
  BY <1>1, Extremes
<1>3. m \in 1..n /\ m - 1 \in 0..n /\ ~(m <= m - 1)
  BY <1>2
<1>4. m - 1 \in S
  BY <1>2, <1>3
<1> QED
  BY <1>2, <1>3, <1>4

\* The states of a loop over n numbers that starts in r.
Loops(f, n, r, G) == f = [i \in 0..n |-> IF i = 0 THEN r ELSE G[<<i, f[i - 1]>>]]

LEMMA Loop ==
  ASSUME NEW n \in Nat, NEW V, NEW r \in V, NEW G \in [(1..n) \X V -> V]
  PROVE  \E f \in [0..n -> V] : Loops(f, n, r, G)
<1> DEFINE Until(k, f) == f[0] = r /\ \A i \in 1..k : f[i] = G[<<i, f[i - 1]>>]
           S == {k \in 0..n : \E f \in [0..k -> V] : Until(k, f)}
<1>1. 0 \in S
  <2>1. PICK f \in [0..0 -> V] : f = [i \in 0..0 |-> r]
    OBVIOUS
  <2>2. Until(0, f)
    BY <2>1
  <2> HIDE DEF Until
  <2>3. \E h \in [0..0 -> V] : Until(0, h)
    <3> HIDE DEF S
    <3>1. f \in [0..0 -> V]
      BY <2>1
    <3> QED
      BY <2>2, <3>1, Zenon
  <2>4. 0 \in 0..n
    OBVIOUS
  <2> QED
    BY <2>3, <2>4
<1>2. ASSUME NEW k \in 1..n, k - 1 \in S PROVE k \in S
  <2>1. PICK f \in [0..(k - 1) -> V] : Until(k - 1, f)
    BY <1>2
  <2>2. f[k - 1] \in V /\ G[<<k, f[k - 1]>>] \in V
    OBVIOUS
  <2>3. PICK g \in [0..k -> V] :
          g = [i \in 0..k |-> IF i = k THEN G[<<k, f[k - 1]>>] ELSE f[i]]
    <3>1. PICK last \in V : last = G[<<k, f[k - 1]>>]
      BY <2>2
    <3>2. \A i \in 0..k : i # k => f[i] \in V
      OBVIOUS
    <3>3. [i \in 0..k |-> IF i = k THEN last ELSE f[i]] \in [0..k -> V]
      BY <3>2
    <3> QED
      BY <3>1, <3>3
  <2>4. g[0] = r
    BY <2>1, <2>3
  <2>5. ASSUME NEW i \in 1..k PROVE g[i] = G[<<i, g[i - 1]>>]
    <3>1. i - 1 \in 0..k /\ i - 1 # k /\ g[i - 1] = f[i - 1]
      BY <2>3
    <3>2. CASE i = k
      BY <2>3, <3>1, <3>2
    <3>3. CASE i # k
      <4>1. i \in 1..(k - 1) /\ g[i] = f[i]
        BY <2>3, <3>3
      <4> QED
        BY <2>1, <3>1, <4>1
    <3> QED
      BY <3>2, <3>3
  <2>6. Until(k, g)
    BY <2>4, <2>5
  <2> HIDE DEF Until
  <2> QED
    BY <2>6
<1>3. n \in S
  <2> HIDE DEF S
  <2> QED
    BY <1>1, <1>2, UpTo
<1>4. PICK f \in [0..n -> V] : Until(n, f)
  BY <1>3
<1>5. ASSUME NEW i \in 0..n
      PROVE  f[i] = IF i = 0 THEN r ELSE G[<<i, f[i - 1]>>]
  BY <1>4
<1> QED
  <2>1. Loops(f, n, r, G)
    BY <1>5 DEF Loops
  <2> QED
    BY <2>1

\* What is in a list after one is put into it or taken out.
LEMMA Inserted ==
  ASSUME NEW T, NEW s \in Seq(T), Distinct(s), NEW t \in T, t \notin ToSet(s),
         NEW pos \in 1..(Len(s) + 1)
  PROVE  /\ InsertAt(s, pos, t) \in Seq(T) /\ Distinct(InsertAt(s, pos, t))
         /\ ToSet(InsertAt(s, pos, t)) = ToSet(s) \cup {t}
<1> DEFINE a == SubSeq(s, 1, pos - 1)
           b == SubSeq(s, pos, Len(s))
           x == InsertAt(s, pos, t)
<1>1. Len(s) \in Nat /\ DOMAIN s = 1..Len(s)
  OBVIOUS
<1>2. /\ a \in Seq(T) /\ Len(a) = pos - 1
      /\ \A i \in 1..(pos - 1) : a[i] = s[i]
  BY <1>1, SubSeqProperties
<1>3. /\ b \in Seq(T) /\ Len(b) = Len(s) - pos + 1
      /\ \A i \in 1..(Len(s) - pos + 1) : b[i] = s[pos + i - 1]
  BY <1>1, SubSeqProperties
<1>4. x = (a \o <<t>>) \o b
  BY DEF InsertAt
<1> HIDE DEF a, b, x
<1>5. /\ x \in Seq(T) /\ Len(x) = Len(s) + 1
      /\ \A i \in 1..(Len(s) + 1) :
           /\ i < pos => x[i] = s[i]
           /\ i = pos => x[i] = t
           /\ i > pos => x[i] = s[i - 1]
  <2>1. PICK l \in Nat : l = Len(s) /\ pos \in 1..(l + 1)
    BY <1>1
  <2>2. /\ a \o <<t>> \in Seq(T) /\ Len(a \o <<t>>) = pos
        /\ \A i \in 1..pos : (a \o <<t>>)[i] = IF i < pos THEN s[i] ELSE t
    BY <1>2, <2>1
  <2>3. PICK y \in Seq(T) : y = a \o <<t>>
    BY <2>2
  <2>4. /\ y \o b \in Seq(T) /\ Len(y \o b) = Len(y) + Len(b)
        /\ \A i \in 1..(Len(y) + Len(b)) :
             (y \o b)[i] = IF i <= Len(y) THEN y[i] ELSE b[i - Len(y)]
    BY <1>3, ConcatProperties
  <2>5. Len(y) = pos /\ Len(b) = l - pos + 1 /\ Len(y) + Len(b) = l + 1
    <3>1. Len(y) = pos
      BY <2>2, <2>3
    <3>2. Len(b) = l - pos + 1
      BY <1>3, <2>1
    <3> QED
      BY <2>1, <3>1, <3>2
  <2>6. x \in Seq(T) /\ Len(x) = l + 1 /\ x = y \o b
    BY <1>4, <2>3, <2>4, <2>5
  <2>7. ASSUME NEW i \in 1..(l + 1)
        PROVE  /\ i < pos => x[i] = s[i]
               /\ i = pos => x[i] = t
               /\ i > pos => x[i] = s[i - 1]
    <3>1. x[i] = IF i <= pos THEN y[i] ELSE b[i - pos]
      BY <2>4, <2>5, <2>6
    <3>2. i <= pos => y[i] = IF i < pos THEN s[i] ELSE t
      BY <2>1, <2>2, <2>3
    <3>3. i > pos => i - pos \in 1..(l - pos + 1) /\ pos + (i - pos) - 1 = i - 1
      BY <2>1
    <3>4. i > pos => b[i - pos] = s[i - 1]
      BY <1>3, <2>1, <3>3
    <3> QED
      BY <2>1, <3>1, <3>2, <3>4
  <2> QED
    BY <2>1, <2>6, <2>7
<1>6. DOMAIN x = 1..(Len(s) + 1)
  BY <1>5
<1>7. \A i \in DOMAIN s : s[i] # t
  BY DEF ToSet
<1>8. Distinct(x)
  <2> SUFFICES ASSUME NEW i \in DOMAIN x, NEW j \in DOMAIN x, i < j, x[i] = x[j]
               PROVE  FALSE
    BY <1>6 DEF Distinct
  <2>1. PICK l \in Nat : l = Len(s) /\ DOMAIN s = 1..l /\ i \in 1..(l + 1) /\ j \in 1..(l + 1)
    BY <1>1, <1>6, Zenon
  <2>2. CASE i = pos \/ j = pos
    <3>1. \/ j - 1 \in 1..l /\ x[i] = t /\ x[j] = s[j - 1]
          \/ i \in 1..l /\ x[j] = t /\ x[i] = s[i]
      BY <1>5, <2>1, <2>2
    <3> QED
      BY <1>7, <2>1, <3>1
  <2>3. CASE i # pos /\ j # pos
    <3>1. PICK u \in 1..l, v \in 1..l : u # v /\ s[u] = x[i] /\ s[v] = x[j]
      <4>1. CASE j < pos
        BY <1>5, <2>1, <4>1
      <4>2. CASE i < pos /\ j > pos
        <5>1. i \in 1..l /\ j - 1 \in 1..l /\ i # j - 1
          BY <2>1, <4>2
        <5> QED
          BY <1>5, <2>1, <4>2, <5>1
      <4>3. CASE i > pos
        <5>1. i - 1 \in 1..l /\ j - 1 \in 1..l /\ i - 1 # j - 1 /\ j > pos
          BY <2>1, <4>3
        <5> QED
          BY <1>5, <2>1, <4>3, <5>1
      <4> QED
        BY <2>1, <2>3, <4>1, <4>2, <4>3
    <3> QED
      BY <2>1, <3>1 DEF Distinct
  <2> QED
    BY <2>2, <2>3
<1>9. ToSet(x) = ToSet(s) \cup {t}
  <2>1. ASSUME NEW e \in ToSet(x) PROVE e \in ToSet(s) \cup {t}
    <3>1. PICK i \in 1..(Len(s) + 1) : e = x[i]
      BY <1>6 DEF ToSet
    <3> QED
      BY <1>1, <1>5, <3>1, SMTT(30) DEF ToSet
  <2>2. ASSUME NEW e \in ToSet(s) PROVE e \in ToSet(x)
    <3>1. PICK i \in 1..Len(s) : e = s[i]
      BY <1>1 DEF ToSet
    <3>2. CASE i < pos
      BY <1>5, <1>6, <3>1, <3>2 DEF ToSet
    <3>3. CASE ~(i < pos)
      <4>1. i + 1 \in DOMAIN x /\ x[i + 1] = s[i]
        BY <1>1, <1>5, <1>6, <3>1, <3>3
      <4> QED
        BY <3>1, <4>1 DEF ToSet
    <3> QED
      BY <3>2, <3>3
  <2>3. t \in ToSet(x)
    BY <1>5, <1>6 DEF ToSet
  <2> QED
    BY <2>1, <2>2, <2>3
<1> QED
  BY <1>5, <1>8, <1>9 DEF x

LEMMA Removed ==
  ASSUME NEW T, NEW s \in Seq(T), Distinct(s), NEW k \in DOMAIN s
  PROVE  /\ RemoveAt(s, k) \in Seq(T) /\ Distinct(RemoveAt(s, k))
         /\ Len(RemoveAt(s, k)) + 1 = Len(s)
         /\ ToSet(RemoveAt(s, k)) = ToSet(s) \ {s[k]}
<1> DEFINE a == SubSeq(s, 1, k - 1)
           b == SubSeq(s, k + 1, Len(s))
           x == RemoveAt(s, k)
<1>1. Len(s) \in Nat /\ DOMAIN s = 1..Len(s) /\ k \in 1..Len(s)
  OBVIOUS
<1>2. /\ a \in Seq(T) /\ Len(a) = k - 1
      /\ \A i \in 1..(k - 1) : a[i] = s[i]
  BY <1>1, SubSeqProperties
<1>3. /\ b \in Seq(T) /\ Len(b) = Len(s) - k
      /\ \A i \in 1..(Len(s) - k) : b[i] = s[k + i]
  BY <1>1, SubSeqProperties, SMTT(30)
<1>4. x = a \o b
  BY DEF RemoveAt
<1> HIDE DEF a, b, x
<1>5. /\ x \in Seq(T) /\ Len(x) = Len(s) - 1
      /\ \A i \in 1..(Len(s) - 1) :
           /\ i < k => x[i] = s[i]
           /\ ~(i < k) => x[i] = s[i + 1]
  <2>1. PICK l \in Nat : l = Len(s) /\ k \in 1..l
    BY <1>1
  <2>2. /\ a \o b \in Seq(T) /\ Len(a \o b) = Len(a) + Len(b)
        /\ \A i \in 1..(Len(a) + Len(b)) :
             (a \o b)[i] = IF i <= Len(a) THEN a[i] ELSE b[i - Len(a)]
    BY <1>2, <1>3, ConcatProperties
  <2>3. Len(a) = k - 1 /\ Len(b) = l - k /\ Len(a) + Len(b) = l - 1
    BY <1>2, <1>3, <2>1
  <2>4. x \in Seq(T) /\ Len(x) = l - 1 /\ x = a \o b
    BY <1>4, <2>2, <2>3
  <2>5. ASSUME NEW i \in 1..(l - 1)
        PROVE  /\ i < k => x[i] = s[i]
               /\ ~(i < k) => x[i] = s[i + 1]
    <3>1. x[i] = IF i <= k - 1 THEN a[i] ELSE b[i - (k - 1)]
      BY <2>2, <2>3, <2>4
    <3>2. i < k => i \in 1..(k - 1) /\ i <= k - 1
      BY <2>1
    <3>3. ~(i < k) => /\ i - (k - 1) \in 1..(l - k) /\ k + (i - (k - 1)) = i + 1
                      /\ ~(i <= k - 1)
      BY <2>1
    <3> QED
      BY <1>2, <1>3, <2>1, <3>1, <3>2, <3>3
  <2> QED
    BY <2>1, <2>4, <2>5
<1>6. DOMAIN x = 1..(Len(s) - 1)
  BY <1>5
<1>7. Distinct(x)
  <2> SUFFICES ASSUME NEW i \in DOMAIN x, NEW j \in DOMAIN x, i < j, x[i] = x[j]
               PROVE  FALSE
    BY <1>1, <1>6 DEF Distinct
  <2>1. PICK l \in Nat : l = Len(s) /\ k \in 1..l /\ i \in 1..(l - 1) /\ j \in 1..(l - 1)
    BY <1>1, <1>6
  <2> DEFINE from(m) == IF m < k THEN m ELSE m + 1
  <2>2. x[i] = s[from(i)] /\ x[j] = s[from(j)]
    BY <1>5, <2>1
  <2>3. from(i) \in 1..l /\ from(j) \in 1..l /\ from(i) # from(j)
    BY <2>1
  <2> HIDE DEF from
  <2> QED
    BY <1>1, <2>1, <2>2, <2>3, Zenon DEF Distinct
<1>8. ToSet(x) = ToSet(s) \ {s[k]}
  <2>1. ASSUME NEW e \in ToSet(x) PROVE e \in ToSet(s) \ {s[k]}
    <3>1. PICK i \in 1..(Len(s) - 1) : e = x[i]
      BY <1>6 DEF ToSet
    <3>2. PICK j \in 1..Len(s) : e = s[j] /\ j # k
      BY <1>1, <1>5, <3>1
    <3> QED
      BY <1>1, <3>2 DEF ToSet, Distinct
  <2>2. ASSUME NEW e \in ToSet(s), e # s[k] PROVE e \in ToSet(x)
    <3>1. PICK i \in 1..Len(s) : e = s[i]
      BY <1>1 DEF ToSet
    <3>2. CASE i < k
      BY <1>1, <1>5, <1>6, <3>1, <3>2, SMTT(30) DEF ToSet
    <3>3. CASE ~(i < k)
      <4>1. i - 1 \in DOMAIN x /\ x[i - 1] = s[i]
        BY <1>1, <1>5, <1>6, <2>2, <3>1, <3>3
      <4> QED
        BY <3>1, <4>1 DEF ToSet
    <3> QED
      BY <3>2, <3>3
  <2> QED
    BY <2>1, <2>2
<1> QED
  BY <1>1, <1>5, <1>7, <1>8 DEF x

----------------------------------------------------------------------------
(* How these relations go together.                                        *)

LEMMA CoderNames == CODER = {"decoder", "encoder"} /\ \A t : CoderOf(t) \in CODER
  BY DEF CODER, CoderOf

LEMMA SameParts ==
  ASSUME NEW r, NEW x, NEW t, x.parts[t] = r.parts[t]
  PROVE  /\ Lent(x, t) = Lent(r, t) /\ Waiting(x, t) = Waiting(r, t)
         /\ Servers(x, t) = Servers(r, t) /\ (Holds(x, t) <=> Holds(r, t))
<1>1. Lent(x, t) = Lent(r, t)
  BY DEF Lent
<1>2. Waiting(x, t) = Waiting(r, t)
  BY <1>1 DEF Waiting
<1> QED
  BY <1>1, <1>2 DEF Servers, Holds

LEMMA SameTask ==
  ASSUME NEW r, NEW x, NEW t, Same(r, x, t)
  PROVE  /\ HasCoder(x, t) <=> HasCoder(r, t)
         /\ task_is_active(x, t) <=> task_is_active(r, t)
         /\ Coders(x, t) = Coders(r, t) /\ Lent(x, t) = Lent(r, t)
<1>1. /\ x.parts[t] = r.parts[t]
      /\ \A c \in CODER : x.coder_task[c] = t <=> r.coder_task[c] = t
  BY DEF Same
<1>2. (Holds(x, t) <=> Holds(r, t)) /\ Lent(x, t) = Lent(r, t)
  BY <1>1, SameParts
<1> QED
  BY <1>1, <1>2 DEF HasCoder, task_is_active, Coders

LEMMA SameWork ==
  ASSUME NEW r, NEW x, NEW t, Same(r, x, t)
  PROVE  ArticleWork(x, t) = ArticleWork(r, t) /\ UploadWork(x, t) = UploadWork(r, t)
<1>1. /\ x.parts[t] = r.parts[t] /\ x.work[t] = r.work[t] /\ x.ran[t] = r.ran[t]
      /\ x.coder_task["decoder"] = t <=> r.coder_task["decoder"] = t
      /\ x.coder_task["encoder"] = t <=> r.coder_task["encoder"] = t
  BY CoderNames DEF Same
<1>2. /\ Waiting(x, t) = Waiting(r, t)
      /\ Servers(x, t) = Servers(r, t) /\ (Holds(x, t) <=> Holds(r, t))
  BY <1>1, SameParts
<1>3. ArticleWork(x, t) = ArticleWork(r, t)
  BY <1>1, <1>2 DEF ArticleWork
<1>4. UploadWork(x, t) = UploadWork(r, t)
  BY <1>1, <1>2 DEF UploadWork
<1> QED
  BY <1>3, <1>4

LEMMA SameSound ==
  ASSUME NEW r, NEW x, NEW t, Same(r, x, t), t \in x.removing => t \in r.removing,
         TaskSound(r, t)
  PROVE  TaskSound(x, t)
<1>1. /\ x.parts[t] = r.parts[t] /\ x.work[t] = r.work[t] /\ x.ran[t] = r.ran[t]
      /\ x.health[t] = r.health[t] /\ (t \in x.uploads <=> t \in r.uploads)
      /\ \A c \in CODER : x.coder_task[c] = t <=> r.coder_task[c] = t
  BY DEF Same
<1>2. /\ Waiting(x, t) = Waiting(r, t) /\ (Holds(x, t) <=> Holds(r, t))
      /\ HasCoder(x, t) <=> HasCoder(r, t)
      /\ ArticleWork(x, t) = ArticleWork(r, t) /\ UploadWork(x, t) = UploadWork(r, t)
  BY <1>1, SameParts, SameWork, SameTask
<1>3. CoderSound(x, t)
  BY <1>1, <1>2 DEF TaskSound, CoderSound
<1>4. t \in ARTICLE => ArticleSound(x, t)
  BY <1>1, <1>2 DEF TaskSound, ArticleSound
<1>5. t \in UPLOAD => UploadSound(x, t)
  BY <1>1, <1>2 DEF TaskSound, UploadSound
<1>6. t \in POST => PostSound(x, t)
  BY <1>1, <1>2 DEF TaskSound, PostSound
<1> QED
  BY <1>3, <1>4, <1>5, <1>6 DEF TaskSound

LEMMA SameAbsent ==
  ASSUME NEW r, NEW x, NEW t, Same(r, x, t), Absent(r, t),
         x.stopped \subseteq r.stopped, x.removing \subseteq r.removing
  PROVE  Absent(x, t)
  BY SameTask DEF Same, Absent

LEMMA SameSettled ==
  ASSUME NEW r, NEW x, NEW t, Same(r, x, t),
         t \in x.removing <=> t \in r.removing, t \in x.stopped <=> t \in r.stopped,
         \A c \in CODER : r.coder_task[c] # None => x.coder_task[c] = r.coder_task[c]
  PROVE  /\ Settled(r, t) => Settled(x, t)
         /\ \A c \in CODER : Coded(r, c, t) => Coded(x, c, t)
<1>1. x.work[t] = r.work[t] /\ (task_is_active(x, t) <=> task_is_active(r, t))
  BY SameTask DEF Same
<1>2. \A c \in CODER : x.coder_task[c] = None => r.coder_task[c] = None
  OBVIOUS
<1>3. Unhindered(x, t) <=> Unhindered(r, t)
  BY DEF Unhindered
<1> QED
  BY <1>1, <1>2, <1>3 DEF Settled, Coded

LEMMA SameBetter ==
  ASSUME NEW r, NEW x, NEW t, Same(r, x, t),
         t \in x.removing <=> t \in r.removing, t \in x.stopped <=> t \in r.stopped,
         r.uploads = {} \/ x.uploads # {},
         \A c \in CODER : r.coder_task[c] # None => x.coder_task[c] = r.coder_task[c]
  PROVE  Better(r, x, t, FALSE)
<1>1. x.work[t] = r.work[t]
  BY DEF Same
<1>2. Slotted(r, t) => Slotted(x, t)
  BY <1>1 DEF Slotted
<1> QED
  BY <1>2, SameSettled DEF Better

LEMMA OfflineTrans ==
  ASSUME NEW r \in QueueState, NEW x \in QueueState, NEW y \in QueueState,
         Offline(r, x), Offline(x, y)
  PROVE  Offline(r, y)
<1>1. \A s \in SERVER : /\ r.pending[s] \in Int /\ x.pending[s] \in Int
                        /\ y.pending[s] \in Int
  BY DEF QueueState
<1>2. \A s \in SERVER : y.pending[s] <= r.pending[s]
  BY <1>1 DEF Offline
<1> QED
  BY <1>2 DEF Offline

LEMMA KeepsTrans ==
  ASSUME NEW r \in QueueState, NEW x \in QueueState, NEW y \in QueueState,
         Keeps(r, x), Keeps(x, y)
  PROVE  Keeps(r, y)
<1>1. Barred(r) \subseteq Barred(y) /\ y.stopped \subseteq r.stopped
  BY DEF Keeps
<1>2. ASSUME NEW t \in Barred(r) PROVE Got(r, y, t)
  BY <1>2 DEF Keeps, Got
<1>3. ASSUME ~r.is_online PROVE Offline(r, y)
  <2>1. Offline(r, x)
    BY <1>3 DEF Keeps
  <2>2. Offline(x, y)
    BY <2>1 DEF Keeps, Offline
  <2> QED
    BY <2>1, <2>2, OfflineTrans
<1> QED
  BY <1>1, <1>2, <1>3 DEF Keeps

LEMMA KeepsItself ==
  ASSUME NEW r \in QueueState
  PROVE  Keeps(r, r)
<1>1. \A s \in SERVER : r.pending[s] <= r.pending[s]
  BY DEF QueueState
<1> QED
  BY <1>1 DEF Keeps, Got, Offline

LEMMA ProgressTrans ==
  ASSUME NEW r, NEW x, NEW y, NEW T, NEW U, Progress(r, x, T), Progress(x, y, U)
  PROVE  Progress(r, y, T \cup U)
<1>1. Known(y) \subseteq Known(r) /\ Known(r) \ (T \cup U) \subseteq Known(y)
  BY DEF Progress
<1>2. \A c \in CODER : r.coder_task[c] # None => y.coder_task[c] = r.coder_task[c]
  BY DEF Progress
<1>3. ASSUME NEW v \in Known(y) PROVE Better(r, y, v, v \in T \cup U)
  <2>1. Better(r, x, v, v \in T) /\ Better(x, y, v, v \in U)
    BY DEF Progress
  <2>2. v \in T \cup U <=> v \in T \/ v \in U
    OBVIOUS
  <2> QED
    BY <2>1, <2>2, Zenon DEF Better
<1> QED
  BY <1>1, <1>2, <1>3 DEF Progress

LEMMA GoesTrans ==
  ASSUME NEW r \in QueueState, NEW x, NEW y, NEW T, NEW U, Goes(r, x, T), Goes(x, y, U)
  PROVE  Goes(r, y, T \cup U)
<1>1. x \in QueueState /\ y \in QueueState
  BY DEF Goes, Sound
<1> QED
  BY <1>1, KeepsTrans, ProgressTrans DEF Goes

\* Better off with all of them served, all are.
LEMMA GoesFine ==
  ASSUME NEW r, NEW x, NEW T, Goes(r, x, T), \A v \in Known(r) \ T : Served(r, v)
  PROVE  Fine(x)
<1>1. ASSUME NEW v \in Known(x) PROVE Served(x, v)
  <2>1. Better(r, x, v, v \in T) /\ (v \in T \/ Served(r, v))
    BY DEF Goes, Progress
  <2> QED
    BY <2>1, Zenon DEF Better, Served
<1> QED
  BY <1>1 DEF Fine, Goes

LEMMA OnlyTaskSound ==
  ASSUME NEW r, NEW x, NEW t \in Known(r), Sound(r), OnlyTask(r, x, t),
         TaskSound(x, t), Slots(x)
  PROVE  Sound(x)
<1>1. Known(x) = Known(r) /\ x \in QueueState /\ Distinct(x.tasks) /\ ~x.dangling
  BY DEF Sound, OnlyTask, Known
<1>2. ASSUME NEW u \in TASK, u # t PROVE Each(x, u)
  <2>1. /\ Same(r, x, u) /\ Each(r, u)
        /\ x.removing = r.removing /\ x.stopped = r.stopped
    BY <1>2 DEF OnlyTask, Sound
  <2>2. CASE u \in Known(r)
    BY <1>1, <2>1, <2>2, SameSound DEF Each
  <2>3. CASE u \notin Known(r)
    BY <1>1, <2>1, <2>3, SameAbsent DEF Each
  <2> QED
    BY <2>2, <2>3
<1>3. Each(x, t)
  BY <1>1 DEF Each
<1> QED
  BY <1>1, <1>2, <1>3 DEF Sound

LEMMA AloneKeeps ==
  ASSUME NEW r, NEW x, NEW t \in TASK, Alone(r, x, t)
  PROVE  Keeps(r, x)
<1>1. /\ x.tasks = r.tasks /\ x.stopped = r.stopped /\ x.removing = r.removing
      /\ \A u \in TASK \ {t} : Same(r, x, u)
  BY DEF Alone, OnlyTask
<1>2. Barred(x) = Barred(r)
  BY <1>1 DEF Barred, Known
<1>3. \A u \in TASK \ {t} : Got(r, x, u) /\ Lent(x, u) \subseteq Lent(r, u)
  BY <1>1, SameTask DEF Got
<1>4. Barred(r) \subseteq TASK
  BY <1>1 DEF Alone, OnlyTask, QueueState, Barred
<1>5. \A u \in Barred(r) : Got(r, x, u)
  BY <1>3, <1>4 DEF Alone
<1>6. ~r.is_online => Offline(r, x)
  BY <1>3 DEF Alone, Offline
<1> QED
  BY <1>1, <1>2, <1>5, <1>6 DEF Keeps

LEMMA AloneGoes ==
  ASSUME NEW r, NEW x, NEW t \in Known(r), Sound(r), Alone(r, x, t), Served(x, t)
  PROVE  Goes(r, x, {t})
<1>1. t \in TASK
  BY DEF Known, Sound, QueueState, ToSet
<1>2. Sound(x)
  BY OnlyTaskSound DEF Alone
<1>3. Keeps(r, x)
  BY <1>1, AloneKeeps
<1>4. Known(x) = Known(r)
  BY DEF Alone, OnlyTask, Known
<1>5. ASSUME NEW v \in Known(x) PROVE Better(r, x, v, v \in {t})
  <2>1. CASE v = t
    BY <2>1 DEF Served, Better
  <2>2. CASE v # t
    <3>1. v \in TASK \ {t}
      BY <1>2, <2>2 DEF Known, Sound, QueueState, ToSet
    <3>2. Better(r, x, v, FALSE)
      BY <3>1, SameBetter DEF Alone, OnlyTask
    <3>3. v \notin {t}
      BY <2>2
    <3> QED
      BY <3>2, <3>3, Zenon DEF Better
  <2> QED
    BY <2>1, <2>2
<1> QED
  BY <1>2, <1>3, <1>4, <1>5 DEF Goes, Progress, Alone

----------------------------------------------------------------------------
(* The task's side.                                                        *)

LEMMA PartFacts ==
  ASSUME NEW r \in QueueState, NEW t \in TASK
  PROVE  /\ r.parts[t] \in Needed /\ DOMAIN r.parts[t] \subseteq 1..MaxParts
         /\ \A i \in DOMAIN r.parts[t] :
              /\ r.parts[t][i].xref \subseteq SERVER /\ r.parts[t][i].xref # {}
              /\ r.parts[t][i].nntp \in SERVER \cup {None}
         /\ Lent(r, t) \subseteq DOMAIN r.parts[t]
         /\ Waiting(r, t) \subseteq DOMAIN r.parts[t]
         /\ Servers(r, t) \subseteq SERVER /\ (Servers(r, t) = {} <=> Waiting(r, t) = {})
         /\ IsFiniteSet(DOMAIN r.parts[t])
<1>1. r.parts[t] \in Needed
  BY DEF QueueState
<1>2. PICK D \in SUBSET (1..MaxParts) : r.parts[t] \in [D -> Part]
  BY <1>1 DEF Needed
<1>3. \A i \in DOMAIN r.parts[t] :
              /\ r.parts[t][i].xref \subseteq SERVER /\ r.parts[t][i].xref # {}
              /\ r.parts[t][i].nntp \in SERVER \cup {None}
  BY <1>2 DEF Part
<1>4. /\ Lent(r, t) \subseteq DOMAIN r.parts[t]
      /\ Waiting(r, t) \subseteq DOMAIN r.parts[t]
  BY DEF Lent, Waiting
<1>5. Servers(r, t) \subseteq SERVER /\ (Servers(r, t) = {} <=> Waiting(r, t) = {})
  BY <1>3, <1>4 DEF Servers
<1>6. IsFiniteSet(DOMAIN r.parts[t])
  <2>1. IsFiniteSet(1..MaxParts)
    BY FS_Interval, QueueAssumption
  <2> QED
    BY <1>2, <2>1, FS_Subset
<1> QED
  BY <1>1, <1>2, <1>3, <1>4, <1>5, <1>6

\* The queue's own fields are the same.
Rest(r, x) ==
  /\ x.tasks = r.tasks /\ x.stopped = r.stopped /\ x.removing = r.removing
  /\ x.uploads = r.uploads /\ x.is_online = r.is_online
  /\ x.coder_task = r.coder_task /\ x.idle = r.idle /\ x.pending = r.pending
  /\ x.dangling = r.dangling

\* x is r but for the work, or the parts, of t.
WorkSet(r, x, t, w) ==
  /\ x \in QueueState /\ Rest(r, x) /\ x.work[t] = w
  /\ \A u \in TASK \ {t} : x.work[u] = r.work[u]
  /\ x.health = r.health /\ x.ran = r.ran /\ x.parts = r.parts

PartsSet(r, x, t, p) ==
  /\ x \in QueueState /\ Rest(r, x) /\ x.parts[t] = p
  /\ \A u \in TASK \ {t} : x.parts[u] = r.parts[u]
  /\ x.health = r.health /\ x.ran = r.ran /\ x.work = r.work

LEMMA SetWork ==
  ASSUME NEW r \in QueueState, NEW t \in TASK, NEW w \in Works
  PROVE  WorkSet(r, [r EXCEPT !.work[t] = w], t, w)
  BY DEF QueueState, WorkSet, Rest

LEMMA SetParts ==
  ASSUME NEW r \in QueueState, NEW t \in TASK, NEW p \in Needed
  PROVE  PartsSet(r, [r EXCEPT !.parts[t] = p], t, p)
  BY DEF QueueState, PartsSet, Rest

LEMMA WorkNames ==
  ASSUME NEW r \in QueueState, NEW t \in TASK
  PROVE  ArticleWork(r, t) \in Works /\ UploadWork(r, t) \in Works
<1>1. ArticleWork(r, t) \in Works
  BY DEF ArticleWork, Works
<1>2. UploadWork(r, t) \in Works
  BY DEF UploadWork, Works, QueueState
<1> QED
  BY <1>1, <1>2

\* What update_work leaves; post tasks have none.
Updated(r, x, t) ==
  \E w \in Works : /\ WorkSet(r, x, t, w)
                   /\ t \in ARTICLE => w = ArticleWork(r, t)
                   /\ t \in UPLOAD => w = UploadWork(r, t)

LEMMA UpdateWorkIs ==
  ASSUME NEW r \in QueueState, NEW t \in TASK
  PROVE  Updated(r, UpdateWork(r, t), t)
<1>1. CASE t \in ARTICLE
  <2>1. UpdateWork(r, t) = [r EXCEPT !.work[t] = ArticleWork(r, t)]
    BY <1>1 DEF UpdateWork
  <2>2. t \notin UPLOAD
    BY <1>1, QueueAssumption
  <2> QED
    BY <1>1, <2>1, <2>2, WorkNames, SetWork DEF Updated
<1>2. CASE t \notin ARTICLE
  <2>1. UpdateWork(r, t) = [r EXCEPT !.work[t] = UploadWork(r, t)]
    BY <1>2 DEF UpdateWork
  <2> QED
    BY <1>2, <2>1, WorkNames, SetWork DEF Updated
<1> QED
  BY <1>1, <1>2

\* Part i is lent a connection to s.
Lending(r, x, t, i, s) ==
  \E p \in Needed :
     /\ PartsSet(r, x, t, p)
     /\ DOMAIN p = DOMAIN r.parts[t]
     /\ p[i].nntp = s /\ \A j \in DOMAIN p \ {i} : p[j] = r.parts[t][j]

LEMMA Lend ==
  ASSUME NEW r \in QueueState, NEW t \in TASK, NEW i \in Waiting(r, t), NEW s \in SERVER
  PROVE  Lending(r, [r EXCEPT !.parts[t][i].nntp = s], t, i, s)
<1>1. PICK D \in SUBSET (1..MaxParts) : r.parts[t] \in [D -> Part]
  BY PartFacts DEF Needed
<1>2. i \in D /\ r.parts[t][i] \in Part
  BY <1>1, PartFacts
<1>3. PICK e \in Part : e = [r.parts[t][i] EXCEPT !.nntp = s] /\ e.nntp = s
  <2>1. [xref |-> r.parts[t][i].xref, nntp |-> s] \in Part
    BY <1>2 DEF Part
  <2>2. [r.parts[t][i] EXCEPT !.nntp = s] = [xref |-> r.parts[t][i].xref, nntp |-> s]
    BY <1>2 DEF Part
  <2> QED
    BY <2>1, <2>2
<1>4. PICK p \in [D -> Part] : p = [r.parts[t] EXCEPT ![i] = e]
  BY <1>1, <1>2
<1>5. p \in Needed
  BY DEF Needed
<1>6. [r EXCEPT !.parts[t][i].nntp = s] = [r EXCEPT !.parts[t] = p]
  BY <1>3, <1>4
<1>7. DOMAIN p = DOMAIN r.parts[t] /\ p[i].nntp = s
      /\ \A j \in DOMAIN p \ {i} : p[j] = r.parts[t][j]
  BY <1>1, <1>2, <1>3, <1>4
<1> QED
  BY <1>5, <1>6, <1>7, SetParts DEF Lending

LEMMA LendingIs ==
  ASSUME NEW r \in QueueState, NEW t \in TASK, NEW i \in Waiting(r, t), NEW s \in SERVER,
         NEW x, Lending(r, x, t, i, s)
  PROVE  /\ x \in QueueState /\ Rest(r, x)
         /\ x.health = r.health /\ x.ran = r.ran /\ x.work = r.work
         /\ \A u \in TASK \ {t} : x.parts[u] = r.parts[u]
         /\ Lent(x, t) = Lent(r, t) \cup {i} /\ Holds(x, t)
         /\ DOMAIN x.parts[t] = DOMAIN r.parts[t]
<1>1. PICK p \in Needed :
           /\ PartsSet(r, x, t, p)
           /\ DOMAIN p = DOMAIN r.parts[t]
           /\ p[i].nntp = s /\ \A j \in DOMAIN p \ {i} : p[j] = r.parts[t][j]
  BY DEF Lending
<1>2. i \in DOMAIN r.parts[t] /\ s # None
  BY PartFacts, QueueAssumption
<1>3. x.parts[t] = p
  BY <1>1 DEF PartsSet
<1>4. Lent(x, t) = Lent(r, t) \cup {i}
  BY <1>1, <1>2, <1>3 DEF Lent
<1> QED
  BY <1>1, <1>3, <1>4 DEF PartsSet, Holds

\* The state of t changes only if its work, its parts and its health do.
LEMMA OwnFields ==
  ASSUME NEW r, NEW x \in QueueState, NEW t, Rest(r, x),
         \A u \in TASK \ {t} : /\ x.work[u] = r.work[u] /\ x.parts[u] = r.parts[u]
                               /\ x.health[u] = r.health[u] /\ x.ran[u] = r.ran[u]
  PROVE  OnlyTask(r, x, t)
  BY DEF OnlyTask, Same, Rest

LEMMA UseNntpServes ==
  ASSUME NEW r \in QueueState, NEW t \in TASK, TaskSound(r, t),
         r.work[t] = "NEED_NNTP", r.health[t] \notin Unwell,
         NEW s \in Servers(r, t), NEW x, x = UseNntp(r, t, s)
  PROVE  /\ OnlyTask(r, x, t) /\ TaskSound(x, t) /\ Rest(r, x)
         /\ x.health = r.health /\ x.work[t] \in {"NEED_NNTP", "WORKING"}
<1> DEFINE usable == {j \in Waiting(r, t) : s \in r.parts[t][j].xref}
<1>1. usable # {} /\ usable \in SUBSET Int /\ IsFiniteSet(usable)
  <2>1. usable # {}
    BY DEF Servers
  <2>2. usable \subseteq DOMAIN r.parts[t] /\ DOMAIN r.parts[t] \subseteq 1..MaxParts
    BY PartFacts
  <2>3. IsFiniteSet(usable)
    BY <2>2, PartFacts, FS_Subset
  <2> QED
    BY <2>1, <2>2, <2>3
<1>2. PICK i \in Waiting(r, t) : i = Min(usable)
  BY <1>1, Extremes
<1>3. s \in SERVER
  BY PartFacts
<1>4. PICK y : y = [r EXCEPT !.parts[t][i].nntp = s]
  OBVIOUS
<1>5. x = IF t \in POST THEN [y EXCEPT !.work[t] = "WORKING"] ELSE UpdateWork(y, t)
  <2>1. x = IF t \in POST
            THEN [[r EXCEPT !.parts[t][Min(usable)].nntp = s] EXCEPT !.work[t] = "WORKING"]
            ELSE UpdateWork([r EXCEPT !.parts[t][Min(usable)].nntp = s], t)
    BY Zenon DEF UseNntp, Then
  <2> HIDE DEF usable
  <2> QED
    BY <1>2, <1>4, <2>1
<1> HIDE DEF usable
<1>6. Lending(r, y, t, i, s)
  BY <1>3, <1>4, Lend
<1>7. /\ y \in QueueState /\ Rest(r, y)
      /\ y.health = r.health /\ y.ran = r.ran /\ y.work = r.work
      /\ \A u \in TASK \ {t} : y.parts[u] = r.parts[u]
      /\ Lent(y, t) = Lent(r, t) \cup {i} /\ Holds(y, t)
      /\ DOMAIN y.parts[t] = DOMAIN r.parts[t]
  BY <1>3, <1>6, LendingIs
<1>8. PICK w \in Works :
        /\ WorkSet(y, x, t, w)
        /\ t \in POST => w = "WORKING"
        /\ t \in ARTICLE => w = ArticleWork(y, t)
        /\ t \in UPLOAD => w = UploadWork(y, t)
  <2>1. CASE t \in POST
    <3>1. "WORKING" \in Works
      BY DEF Works
    <3>2. WorkSet(y, x, t, "WORKING")
      BY <1>5, <1>7, <2>1, <3>1, SetWork
    <3> QED
      BY <2>1, <3>1, <3>2, QueueAssumption
  <2>2. CASE t \notin POST
    <3>1. Updated(y, x, t)
      BY <1>5, <1>7, <2>2, UpdateWorkIs
    <3> QED
      BY <2>2, <3>1 DEF Updated
  <2> QED
    BY <2>1, <2>2
<1>9. /\ x \in QueueState /\ Rest(r, x) /\ x.work[t] = w /\ x.parts = y.parts
      /\ x.health = r.health /\ x.ran = r.ran
      /\ \A u \in TASK \ {t} : x.work[u] = r.work[u] /\ x.parts[u] = r.parts[u]
  BY <1>7, <1>8 DEF WorkSet, Rest
<1>10. OnlyTask(r, x, t)
  BY <1>9, OwnFields
<1>11. /\ ~HasCoder(r, t) /\ ~HasCoder(x, t) /\ ~HasCoder(y, t)
       /\ \A c \in CODER : x.coder_task[c] # t
  <2>1. \A c \in CODER : r.coder_task[c] # t
    BY DEF TaskSound, CoderSound
  <2> QED
    BY <1>7, <1>9, <2>1 DEF HasCoder, Rest
<1>12. /\ Lent(x, t) = Lent(y, t) /\ Waiting(x, t) = Waiting(y, t)
       /\ Servers(x, t) = Servers(y, t) /\ (Holds(x, t) <=> Holds(y, t))
  BY <1>9, SameParts
<1>13. CoderSound(x, t)
  BY <1>11 DEF CoderSound
<1>14. t \in ARTICLE => ArticleSound(x, t) /\ w \in {"NEED_NNTP", "WORKING"}
  <2> SUFFICES ASSUME t \in ARTICLE PROVE ArticleSound(x, t) /\ w \in {"NEED_NNTP", "WORKING"}
    OBVIOUS
  <2>1. x.work[t] = ArticleWork(y, t)
    BY <1>8, <1>9
  <2>2. w \in {"NEED_NNTP", "WORKING"} /\ ArticleWork(x, t) = ArticleWork(y, t)
    BY <1>7, <1>8, <1>12 DEF ArticleWork
  <2> QED
    BY <1>9, <2>1, <2>2 DEF ArticleSound
<1>15. t \in UPLOAD => UploadSound(x, t) /\ w = "WORKING"
  <2> SUFFICES ASSUME t \in UPLOAD PROVE UploadSound(x, t) /\ w = "WORKING"
    OBVIOUS
  <2>1. t \in r.uploads /\ UploadWork(r, t) = "NEED_NNTP"
    BY <1>11 DEF TaskSound, UploadSound
  <2>2. r.ran[t]
    <3>1. r.coder_task["encoder"] # t
      BY <1>11, CoderNames DEF HasCoder
    <3> QED
      BY <2>1, <3>1 DEF UploadWork
  <2>3. w = "WORKING" /\ UploadWork(x, t) = "WORKING"
    BY <1>7, <1>8, <1>9, <1>12, <2>2 DEF UploadWork
  <2> QED
    BY <1>9, <2>1, <2>2, <2>3 DEF UploadSound, Rest
<1>16. t \in POST => PostSound(x, t)
  BY <1>7, <1>8, <1>9, <1>12 DEF TaskSound, PostSound
<1> QED
  BY <1>8, <1>9, <1>10, <1>13, <1>14, <1>15, <1>16 DEF TaskSound, TASK

----------------------------------------------------------------------------
(* Connections.                                                            *)

LEMMA ActiveCountType ==
  ASSUME NEW r \in QueueState, NEW s \in SERVER
  PROVE  ActiveCount(r, s) \in Int
<1> DEFINE P == {p \in TASK \X (1..MaxParts) : /\ p[2] \in Lent(r, p[1])
                                               /\ r.parts[p[1]][p[2]].nntp = s}
<1>1. IsFiniteSet(TASK \X (1..MaxParts))
  <2>1. IsFiniteSet(1..MaxParts)
    BY FS_Interval, QueueAssumption
  <2> QED
    BY <2>1, FS_Product, QueueAssumption
<1>2. P \subseteq TASK \X (1..MaxParts)
  OBVIOUS
<1> HIDE DEF P
<1>3. Cardinality(P) \in Nat
  BY <1>1, <1>2, FS_Subset, FS_CardinalityType
<1>4. r.ping[s] \in Int
  BY DEF QueueState
<1>5. ActiveCount(r, s) = r.ping[s] + Cardinality(P)
  BY DEF ActiveCount, P
<1> QED
  BY <1>3, <1>4, <1>5

LEMMA BestServerIs ==
  ASSUME NEW r \in QueueState, NEW servers \in SUBSET SERVER, servers # {}
  PROVE  BestServer(r, servers) \in servers \cup {None}
<1> DEFINE scores == {Score(r, s) : s \in servers}
<1>1. \A s \in SERVER : Score(r, s) \in Int
  <2> TAKE s \in SERVER
  <2>1. ActiveCount(r, s) \in Int
    BY ActiveCountType
  <2>2. Limit[s] \in Int /\ r.idle[s] \in Int
    BY QueueAssumption DEF QueueState
  <2> QED
    BY <2>1, <2>2 DEF Score
<1>2. scores \in SUBSET Int /\ scores # {}
  BY <1>1
<1>3. IsFiniteSet(scores)
  <2>1. IsFiniteSet(servers)
    BY FS_Subset, QueueAssumption
  <2>2. PICK f \in [servers -> scores] : f = [s \in servers |-> Score(r, s)]
    OBVIOUS
  <2>3. \A e \in scores : \E s \in servers : f[s] = e
    BY <2>2
  <2> HIDE DEF scores
  <2>4. f \in Surjection(servers, scores)
    BY <2>3 DEF Surjection
  <2> QED
    BY <2>1, <2>4, FS_Surjection
<1>4. PICK s \in servers : Score(r, s) = Max(scores)
  BY <1>2, <1>3, Extremes
<1>5. (CHOOSE u \in servers : Score(r, u) = Max(scores)) \in servers
  BY <1>4
<1> QED
  BY <1>5 DEF BestServer

LEMMA AskServersIs ==
  ASSUME NEW r \in QueueState, NEW t, NEW x, x = AskServers(r, t)
  PROVE  /\ x \in QueueState
         /\ x.tasks = r.tasks /\ x.stopped = r.stopped /\ x.removing = r.removing
         /\ x.uploads = r.uploads /\ x.is_online = r.is_online
         /\ x.coder_task = r.coder_task /\ x.dangling = r.dangling /\ x.idle = r.idle
         /\ x.work = r.work /\ x.health = r.health /\ x.ran = r.ran /\ x.parts = r.parts
<1>1. PICK p \in [SERVER -> Int] :
        p = [s \in SERVER |-> IF s \in Servers(r, t) /\ RequestNntp(r, s)
                              THEN r.pending[s] + 1 ELSE r.pending[s]]
  <2>1. \A s \in SERVER : r.pending[s] + 1 \in Int /\ r.pending[s] \in Int
    BY DEF QueueState
  <2>2. \A s \in SERVER : (IF s \in Servers(r, t) /\ RequestNntp(r, s)
                           THEN r.pending[s] + 1 ELSE r.pending[s]) \in Int
    BY <2>1
  <2> QED
    BY <2>2
<1>2. x = [r EXCEPT !.pending = p]
  BY <1>1 DEF AskServers
<1> QED
  BY <1>2 DEF QueueState

LEMMA OnlyTaskTrans ==
  ASSUME NEW r, NEW x, NEW y, NEW t, OnlyTask(r, x, t), OnlyTask(x, y, t)
  PROVE  OnlyTask(r, y, t)
<1>1. ASSUME NEW u \in TASK \ {t} PROVE Same(r, y, u)
  <2>1. Same(r, x, u) /\ Same(x, y, u)
    BY DEF OnlyTask
  <2> QED
    BY <2>1 DEF Same
<1> QED
  BY <1>1 DEF OnlyTask

\* What is the same for those who do not look at the counts of connections.
LEMMA SameToTask ==
  ASSUME NEW r, NEW x \in QueueState, NEW t,
         x.tasks = r.tasks, x.stopped = r.stopped, x.removing = r.removing,
         x.uploads = r.uploads, x.coder_task = r.coder_task, x.dangling = r.dangling,
         x.work = r.work, x.health = r.health, x.ran = r.ran, x.parts = r.parts
  PROVE  OnlyTask(r, x, t) /\ \A u : Same(r, x, u)
  BY DEF OnlyTask, Same

\* While t is given connections.
Serving(r, x, t) ==
  /\ OnlyTask(r, x, t) /\ TaskSound(x, t)
  /\ x.uploads = r.uploads /\ x.coder_task = r.coder_task /\ x.is_online = r.is_online
  /\ x.health = r.health /\ x.work[t] \in {"NEED_NNTP", "WORKING"}
  /\ ~r.is_online => x = r

LEMMA TurnServes ==
  ASSUME NEW r \in QueueState, NEW t \in TASK, r.health[t] \notin Unwell,
         NEW state \in [queue : QueueState, going : BOOLEAN],
         Serving(r, state.queue, t)
  PROVE  /\ Turn(state, t) \in [queue : QueueState, going : BOOLEAN]
         /\ Serving(r, Turn(state, t).queue, t)
<1>1. PICK x \in QueueState : x = state.queue
  OBVIOUS
<1>2. CASE ~(state.going /\ x.is_online /\ x.work[t] = "NEED_NNTP")
  <2>1. Turn(state, t) = [state EXCEPT !.going = FALSE]
    BY <1>1, <1>2 DEF Turn
  <2>2. /\ [state EXCEPT !.going = FALSE] \in [queue : QueueState, going : BOOLEAN]
        /\ [state EXCEPT !.going = FALSE].queue = x
    BY <1>1
  <2> QED
    BY <1>1, <2>1, <2>2
<1>3. CASE state.going /\ x.is_online /\ x.work[t] = "NEED_NNTP"
  <2>1. PICK y : y = AskServers(x, t)
    OBVIOUS
  <2>2. PICK s : s = BestServer(y, Servers(y, t))
    OBVIOUS
  <2>3. PICK free : free = IF s = None THEN 0 ELSE y.idle[s]
    OBVIOUS
  <2>4. PICK z : z = IF free = 0 THEN y
                     ELSE UseNntp([y EXCEPT !.idle[s] = @ - 1], t, s)
    OBVIOUS
  <2>5. Turn(state, t) = [queue |-> z, going |-> free > 0]
    <3>1. Turn(state, t) =
            LET sx == BestServer(AskServers(state.queue, t), Servers(AskServers(state.queue, t), t))
                fx == IF sx = None THEN 0 ELSE AskServers(state.queue, t).idle[sx]
            IN  [queue |-> IF fx = 0 THEN AskServers(state.queue, t)
                           ELSE UseNntp([AskServers(state.queue, t) EXCEPT !.idle[sx] = @ - 1], t, sx),
                 going |-> fx > 0]
      BY <1>1, <1>3, Zenon DEF Turn, Then
    <3> QED
      BY <1>1, <2>1, <2>2, <2>3, <2>4, <3>1
  <2>6. y \in QueueState /\ y.is_online = x.is_online /\ y.work = x.work
        /\ y.health = x.health /\ y.coder_task = x.coder_task /\ y.uploads = x.uploads
        /\ OnlyTask(x, y, t) /\ Same(x, y, t) /\ y.removing = x.removing
    BY <2>1, AskServersIs, SameToTask
  <2>7. TaskSound(y, t) /\ y.work[t] = "NEED_NNTP" /\ y.health[t] \notin Unwell
    BY <1>1, <1>3, <2>6, SameSound DEF Serving
  <2>8. OnlyTask(r, y, t)
    BY <1>1, <2>6, OnlyTaskTrans DEF Serving
  <2>9. r.is_online
    BY <1>1, <1>3 DEF Serving
  <2>10. CASE free = 0
    <3>1. z = y /\ Serving(r, z, t)
      BY <1>1, <1>3, <2>4, <2>6, <2>7, <2>8, <2>9, <2>10 DEF Serving
    <3> QED
      BY <2>5, <2>6, <2>10, <3>1
  <2>11. CASE free # 0
    <3>1. Servers(y, t) \subseteq SERVER /\ (Servers(y, t) = {} <=> Waiting(y, t) = {})
      BY <2>6, PartFacts
    <3>2. Servers(y, t) # {}
      <4>1. ~HasCoder(y, t)
        BY <2>7 DEF TaskSound, CoderSound, HasCoder
      <4>2. t \in ARTICLE => Servers(y, t) # {}
        BY <2>7, <4>1 DEF TaskSound, ArticleSound, ArticleWork
      <4>3. t \in UPLOAD => Waiting(y, t) # {}
        <5> SUFFICES ASSUME t \in UPLOAD PROVE Waiting(y, t) # {}
          OBVIOUS
        <5>1. UploadWork(y, t) = "NEED_NNTP"
          BY <2>7, <4>1 DEF TaskSound, UploadSound
        <5>2. y.coder_task["encoder"] # t
          BY <4>1, CoderNames DEF HasCoder
        <5> QED
          BY <5>1, <5>2 DEF UploadWork
      <4>4. t \in POST => Waiting(y, t) # {}
        BY <2>7 DEF TaskSound, PostSound, Holds, Waiting
      <4> QED
        BY <3>1, <4>2, <4>3, <4>4 DEF TASK
    <3>3. s \in Servers(y, t) /\ s \in SERVER
      <4>1. s # None
        BY <2>3, <2>11
      <4> QED
        BY <2>2, <2>6, <3>1, <3>2, <4>1, BestServerIs
    <3>4. free \in Int /\ free = y.idle[s]
      BY <2>3, <2>6, <3>3, QueueAssumption DEF QueueState
    <3>5. PICK v : v = [y EXCEPT !.idle[s] = @ - 1]
      OBVIOUS
    <3>6. /\ v \in QueueState
          /\ v.tasks = y.tasks /\ v.stopped = y.stopped /\ v.removing = y.removing
          /\ v.uploads = y.uploads /\ v.is_online = y.is_online
          /\ v.coder_task = y.coder_task /\ v.dangling = y.dangling
          /\ v.work = y.work /\ v.health = y.health /\ v.ran = y.ran /\ v.parts = y.parts
      <4>1. PICK idle \in [SERVER -> Int] : idle = [y.idle EXCEPT ![s] = @ - 1]
        <5>1. y.idle \in [SERVER -> Int] /\ y.idle[s] - 1 \in Int
          BY <2>6, <3>3, <3>4, SMTT(30) DEF QueueState
        <5>2. [y.idle EXCEPT ![s] = y.idle[s] - 1] \in [SERVER -> Int]
          BY <5>1
        <5> QED
          BY <5>2
      <4>2. v = [y EXCEPT !.idle = idle]
        BY <3>5, <4>1
      <4> QED
        BY <2>6, <4>2 DEF QueueState
    <3>7. OnlyTask(y, v, t) /\ Same(y, v, t) /\ Servers(v, t) = Servers(y, t)
      BY <3>6, SameToTask, SameParts
    <3>8. TaskSound(v, t) /\ v.work[t] = "NEED_NNTP" /\ v.health[t] \notin Unwell
      BY <2>7, <3>6, <3>7, SameSound
    <3>9. /\ OnlyTask(v, z, t) /\ TaskSound(z, t) /\ Rest(v, z)
          /\ z.health = v.health /\ z.work[t] \in {"NEED_NNTP", "WORKING"}
      <4>1. z = UseNntp(v, t, s)
        BY <2>4, <2>11, <3>5
      <4> QED
        BY <3>3, <3>6, <3>7, <3>8, <4>1, UseNntpServes
    <3>10. OnlyTask(r, z, t)
      BY <2>8, <3>7, <3>9, OnlyTaskTrans
    <3>11. Serving(r, z, t)
      BY <1>1, <2>6, <2>9, <3>6, <3>9, <3>10, ZenonT(60) DEF Serving, Rest
    <3>12. z \in QueueState
      BY <3>10 DEF OnlyTask
    <3> QED
      BY <2>5, <3>4, <3>11, <3>12
  <2> QED
    BY <2>10, <2>11
<1> QED
  BY <1>2, <1>3

LEMMA GiveConnectionsServes ==
  ASSUME NEW r \in QueueState, NEW t \in TASK, TaskSound(r, t),
         r.health[t] \notin Unwell, r.work[t] = "NEED_NNTP"
  PROVE  Serving(r, GiveConnections(r, t), t)
<1> DEFINE V == {state \in [queue : QueueState, going : BOOLEAN] : Serving(r, state.queue, t)}
           start == [queue |-> r, going |-> TRUE]
           G == [p \in (1..MaxParts) \X V |-> Turn(p[2], t)]
           after[i \in 0..MaxParts] ==
             IF i = 0 THEN start
             ELSE CHOOSE y \in {Turn(x, t) : x \in {after[i - 1]}} : TRUE
<1>1. GiveConnections(r, t) = after[MaxParts].queue
  BY DEF GiveConnections, Repeated, Then
<1>2. start \in V
  <2>1. Serving(r, r, t)
    BY SameToTask DEF Serving
  <2> QED
    BY <2>1
<1>3. \A state \in V : Turn(state, t) \in V
  BY TurnServes
<1> HIDE DEF V, start
<1>4. G \in [(1..MaxParts) \X V -> V]
  BY <1>3
<1>5. MaxParts \in Nat
  BY QueueAssumption
<1>6. PICK f \in [0..MaxParts -> V] :
        Loops(f, MaxParts, start, G)
  <2> HIDE DEF G
  <2> QED
    BY <1>2, <1>4, <1>5, Loop
<1>7. f = [i \in 0..MaxParts |->
             IF i = 0 THEN start
             ELSE CHOOSE y \in {Turn(x, t) : x \in {f[i - 1]}} : TRUE]
  <2>1. ASSUME NEW i \in 0..MaxParts, i # 0
        PROVE  G[<<i, f[i - 1]>>] = CHOOSE y \in {Turn(x, t) : x \in {f[i - 1]}} : TRUE
    <3>1. i \in 1..MaxParts /\ i - 1 \in 0..MaxParts
      BY <1>5, <2>1
    <3>2. f[i - 1] \in V
      BY <3>1
    <3>3. G[<<i, f[i - 1]>>] = Turn(f[i - 1], t)
      BY <3>1, <3>2
    <3> QED
      BY <3>3
  <2> HIDE DEF G
  <2> QED
    BY <1>6, <2>1 DEF Loops
<1> HIDE DEF G, after
<1>8. after = [i \in 0..MaxParts |->
                 IF i = 0 THEN start
                 ELSE CHOOSE y \in {Turn(x, t) : x \in {after[i - 1]}} : TRUE]
  BY <1>7, Zenon DEF after
<1>9. ASSUME NEW i \in 1..MaxParts, after[i - 1] \in V PROVE after[i] \in V
  <2>1. after[i] = Turn(after[i - 1], t)
    <3>1. i \in 0..MaxParts /\ i # 0
      BY <1>5
    <3>2. after[i] = CHOOSE y \in {Turn(x, t) : x \in {after[i - 1]}} : TRUE
      BY <1>8, <3>1
    <3> QED
      BY <3>2
  <2> QED
    BY <1>3, <1>9, <2>1
<1>10. after[0] \in V
  BY <1>2, <1>5, <1>8
<1>11. after[MaxParts] \in V
  <2> DEFINE S == {i \in 0..MaxParts : after[i] \in V}
  <2>1. 0 \in S /\ \A i \in 1..MaxParts : i - 1 \in S => i \in S
    BY <1>5, <1>9, <1>10
  <2>2. \A i \in 0..MaxParts : i \in S
    <3> HIDE DEF S
    <3> QED
      BY <1>5, <2>1, UpTo
  <2> QED
    BY <1>5, <2>2
<1> QED
  BY <1>1, <1>11 DEF V

----------------------------------------------------------------------------
(* The queue serves one task.                                              *)

LEMMA KnownFacts ==
  ASSUME NEW r, Sound(r), NEW t \in Known(r)
  PROVE  t \in TASK /\ t # None /\ r \in QueueState /\ TaskSound(r, t)
<1>1. r \in QueueState /\ t \in TASK
  BY DEF Sound, Known, QueueState, ToSet
<1> QED
  BY <1>1, QueueAssumption DEF Sound, Each

LEMMA NeedsCoder ==
  ASSUME NEW r, Sound(r), NEW t \in Known(r), NEW c \in CODER, r.work[t] = Needs(c)
  PROVE  /\ c = CoderOf(t) /\ t \in SAVE \cup UPLOAD /\ ~r.ran[t] /\ ~Holds(r, t)
         /\ t \in SAVE => Waiting(r, t) = {}
         /\ t \in UPLOAD => t \in r.uploads
         /\ ~HasCoder(r, t) /\ r.health[t] \notin Unwell
<1>1. t \in TASK /\ r \in QueueState /\ TaskSound(r, t)
  BY KnownFacts
<1>2. r.work[t] \in {"NEED_DECODER", "NEED_ENCODER"}
  BY DEF Needs
<1>3. ~HasCoder(r, t) /\ r.coder_task["encoder"] # t
  <2>1. \A d \in CODER : r.coder_task[d] # t
    BY <1>1, <1>2 DEF TaskSound, CoderSound
  <2> QED
    BY <2>1, CoderNames DEF HasCoder
<1>4. CASE t \in ARTICLE
  <2>1. ArticleWork(r, t) = r.work[t]
    BY <1>1, <1>3, <1>4 DEF TaskSound, ArticleSound
  <2>2. Servers(r, t) = {} /\ ~Holds(r, t) /\ t \in SAVE /\ ~r.ran[t]
        /\ r.work[t] = "NEED_DECODER"
    BY <1>2, <2>1 DEF ArticleWork
  <2>3. Waiting(r, t) = {}
    BY <1>1, <2>2, PartFacts
  <2>4. c = "decoder" /\ t \notin UPLOAD
    BY <1>4, <2>2, QueueAssumption, CoderNames DEF Needs
  <2>5. r.health[t] \notin Unwell
    BY <1>1, <1>4, <2>3 DEF TaskSound, ArticleSound
  <2> QED
    BY <1>3, <2>2, <2>3, <2>4, <2>5 DEF CoderOf
<1>5. CASE t \in UPLOAD
  <2>1. t \in r.uploads
    BY <1>1, <1>2, <1>5 DEF TaskSound, UploadSound
  <2>2. UploadWork(r, t) = r.work[t]
    BY <1>1, <1>3, <1>5, <2>1 DEF TaskSound, UploadSound
  <2>3. ~r.ran[t] /\ r.work[t] = "NEED_ENCODER"
    BY <1>2, <1>3, <2>2 DEF UploadWork
  <2>4. ~Holds(r, t) /\ r.health[t] \notin Unwell
    BY <1>1, <1>5, <2>3 DEF TaskSound, UploadSound
  <2>5. c = "encoder" /\ t \notin SAVE
    BY <1>5, <2>3, QueueAssumption, CoderNames DEF Needs, ARTICLE
  <2> QED
    BY <1>3, <1>5, <2>1, <2>3, <2>4, <2>5 DEF CoderOf
<1>6. CASE t \in POST
  BY <1>1, <1>2, <1>6 DEF TaskSound, PostSound
<1> QED
  BY <1>1, <1>4, <1>5, <1>6 DEF TASK

\* A function that changes nothing a task can see.
LEMMA Unseen ==
  ASSUME NEW r, Sound(r), NEW t \in Known(r), NEW x \in QueueState, Rest(r, x) \/ ~x.is_online,
         x.tasks = r.tasks, x.stopped = r.stopped, x.removing = r.removing,
         x.uploads = r.uploads, x.coder_task = r.coder_task, x.dangling = r.dangling,
         x.work = r.work, x.health = r.health, x.ran = r.ran, x.parts = r.parts,
         x.pending = r.pending
  PROVE  Alone(r, x, t) /\ \A u : Served(r, u) => Served(x, u)
<1>1. OnlyTask(r, x, t) /\ \A u : Same(r, x, u)
  BY SameToTask
<1>2. TaskSound(x, t)
  BY <1>1, KnownFacts, SameSound
<1>3. \A u : Lent(x, u) = Lent(r, u) /\ Coders(x, u) = Coders(r, u)
  BY <1>1, SameTask
<1>4. Slots(x)
  BY DEF Sound, Slots
<1>5. \A s \in SERVER : x.pending[s] <= r.pending[s]
  BY DEF QueueState
<1>6. ~r.is_online => ~x.is_online
  BY DEF Rest
<1>7. Alone(r, x, t)
  BY <1>1, <1>2, <1>3, <1>4, <1>5, <1>6 DEF Alone, Got
<1>8. \A u : task_is_active(x, u) <=> task_is_active(r, u)
  BY <1>1, SameTask
<1>9. \A u : Served(r, u) => Served(x, u)
  BY <1>8 DEF Served, Settled, Slotted, Coded, Unhindered
<1> QED
  BY <1>7, <1>9

LEMMA GiveCoderServes ==
  ASSUME NEW r, Sound(r), NEW t \in Known(r), NEW c \in CODER, r.work[t] = Needs(c),
         t \notin r.stopped \cup r.removing, NEW x, x = GiveCoder(r, t, c)
  PROVE  /\ Alone(r, x, t) /\ Served(x, t) /\ x.uploads = r.uploads
         /\ x.coder_task[c] # None
<1>1. /\ c = CoderOf(t) /\ t \in SAVE \cup UPLOAD /\ ~r.ran[t] /\ ~Holds(r, t)
      /\ t \in SAVE => Waiting(r, t) = {}
      /\ t \in UPLOAD => t \in r.uploads
      /\ ~HasCoder(r, t) /\ r.health[t] \notin Unwell
      /\ r.work[t] \in {"NEED_DECODER", "NEED_ENCODER"}
  BY NeedsCoder DEF Needs
<1>2. t \in TASK /\ t # None /\ r \in QueueState /\ TaskSound(r, t)
  BY KnownFacts
<1>3. CASE r.coder_task[c] # None
  <2>1. x = r
    BY <1>3 DEF GiveCoder
  <2>2. Alone(r, x, t)
    BY <1>2, <2>1, Unseen DEF Rest
  <2>3. \A d \in CODER : r.work[t] = Needs(d) => d = c
    BY <1>1, NeedsCoder
  <2>4. Served(x, t)
    BY <1>1, <1>3, <2>1, <2>3 DEF Served, Settled, Slotted, Coded
  <2> QED
    BY <1>3, <2>1, <2>2, <2>4
<1>4. CASE r.coder_task[c] = None
  <2>1. x = [r EXCEPT !.coder_task[c] = t, !.cancelled[c] = FALSE, !.work[t] = "WORKING"]
    BY <1>4 DEF GiveCoder
  <2>2. /\ x \in QueueState /\ x.coder_task = [r.coder_task EXCEPT ![c] = t]
        /\ x.work = [r.work EXCEPT ![t] = "WORKING"]
        /\ x.tasks = r.tasks /\ x.stopped = r.stopped /\ x.removing = r.removing
        /\ x.uploads = r.uploads /\ x.dangling = r.dangling /\ x.is_online = r.is_online
        /\ x.health = r.health /\ x.ran = r.ran /\ x.parts = r.parts
        /\ x.pending = r.pending
    <3>1. /\ r.coder_task \in [CODER -> TASK \cup {None}] /\ r.work \in [TASK -> Works]
          /\ r.cancelled \in [CODER -> BOOLEAN] /\ "WORKING" \in Works
      BY <1>2 DEF QueueState, Works
    <3>2. PICK k \in [CODER -> TASK \cup {None}] : k = [r.coder_task EXCEPT ![c] = t]
      BY <1>2, <3>1
    <3>3. PICK d \in [CODER -> BOOLEAN] : d = [r.cancelled EXCEPT ![c] = FALSE]
      BY <3>1
    <3>4. PICK w \in [TASK -> Works] : w = [r.work EXCEPT ![t] = "WORKING"]
      BY <1>2, <3>1
    <3>5. x = [r EXCEPT !.coder_task = k, !.cancelled = d, !.work = w]
      BY <2>1, <3>2, <3>3, <3>4
    <3> QED
      BY <1>2, <3>2, <3>4, <3>5, ZenonT(60) DEF QueueState
  <2>3. /\ x.work[t] = "WORKING" /\ x.coder_task[c] = t
        /\ \A u \in TASK \ {t} : x.work[u] = r.work[u]
        /\ \A d \in CODER \ {c} : x.coder_task[d] = r.coder_task[d]
    BY <1>2, <2>2 DEF QueueState
  <2>4. \A d \in CODER : x.coder_task[d] = t <=> d = c
    BY <1>1, <2>3 DEF HasCoder
  <2>5. ASSUME NEW u \in TASK \ {t} PROVE Same(r, x, u)
    <3>1. u # None
      BY QueueAssumption
    <3>2. \A d \in CODER : x.coder_task[d] = u <=> r.coder_task[d] = u
      BY <1>4, <2>3, <3>1
    <3> QED
      BY <2>2, <2>3, <3>2 DEF Same
  <2>6. OnlyTask(r, x, t)
    BY <2>2, <2>5 DEF OnlyTask
  <2>7. Lent(x, t) = Lent(r, t) /\ Waiting(x, t) = Waiting(r, t) /\ ~Holds(x, t)
    BY <1>1, <2>2, SameParts
  <2>8. CoderSound(x, t)
    BY <1>1, <2>2, <2>3, <2>4, <2>7 DEF CoderSound
  <2>9. HasCoder(x, t)
    BY <2>3 DEF HasCoder
  <2>10. TaskSound(x, t)
    <3>1. t \in ARTICLE => ArticleSound(x, t)
      BY <1>1, <2>2, <2>9 DEF ArticleSound
    <3>2. t \in UPLOAD => UploadSound(x, t)
      BY <1>1, <2>2, <2>7, <2>9 DEF UploadSound
    <3>3. t \notin POST
      BY <1>1, QueueAssumption DEF ARTICLE
    <3> QED
      BY <2>8, <3>1, <3>2, <3>3 DEF TaskSound
  <2>11. Slots(x)
    BY <2>2 DEF Sound, Slots
  <2>12. \A s \in SERVER : x.pending[s] <= r.pending[s]
    BY <1>2, <2>2 DEF QueueState
  <2>13. t \notin Barred(r)
    BY <1>2 DEF Barred
  <2>14. \A d \in CODER : r.coder_task[d] # None => x.coder_task[d] = r.coder_task[d]
    BY <1>4, <2>3
  <2>15. Alone(r, x, t)
    BY <2>2, <2>6, <2>7, <2>10, <2>11, <2>12, <2>13, <2>14 DEF Alone
  <2>16. Served(x, t)
    BY <2>2, <2>3 DEF Served, Settled, Slotted, Coded, Needs
  <2> QED
    BY <1>2, <2>2, <2>3, <2>15, <2>16
<1> QED
  BY <1>3, <1>4

LEMMA ServeServes ==
  ASSUME NEW r, Sound(r), NEW t \in Known(r), t \notin r.removing,
         r.work[t] # "COMPLETED", r.work[t] = "INITIAL" => t \in r.stopped,
         NEW x, x = Serve(r, t)
  PROVE  /\ Alone(r, x, t) /\ Served(x, t) /\ x.uploads = r.uploads
         /\ \A c \in CODER :
              Unhindered(r, t) /\ r.work[t] = Needs(c) => x.coder_task[c] # None
<1>1. t \in TASK /\ t # None /\ r \in QueueState /\ TaskSound(r, t)
  BY KnownFacts
<1>2. \A c \in CODER : r.work[t] = Needs(c) => r.health[t] \notin Unwell
  BY NeedsCoder
<1>3. CASE t \in r.stopped
  <2>1. x = StopTask(r, t)
    BY <1>3 DEF Serve
  <2>2. PICK d \in [CODER -> BOOLEAN] : x = [r EXCEPT !.cancelled = d]
    <3>1. r.cancelled \in [CODER -> BOOLEAN] /\ r = [r EXCEPT !.cancelled = r.cancelled]
      BY <1>1 DEF QueueState
    <3>2. [r.cancelled EXCEPT ![CoderOf(t)] = TRUE] \in [CODER -> BOOLEAN]
      BY <3>1
    <3> QED
      BY <2>1, <3>1, <3>2 DEF StopTask
  <2>3. /\ x \in QueueState /\ Rest(r, x)
        /\ x.work = r.work /\ x.health = r.health /\ x.ran = r.ran /\ x.parts = r.parts
    BY <1>1, <2>2, ZenonT(60) DEF QueueState, Rest
  <2>4. Alone(r, x, t) /\ (Served(r, t) => Served(x, t)) /\ x.uploads = r.uploads
    BY <2>3, Unseen DEF Rest
  <2>5. Served(r, t) /\ ~Unhindered(r, t)
    BY <1>3 DEF Served, Settled, Slotted, Coded, Unhindered
  <2> QED
    BY <2>4, <2>5
<1>4. CASE t \notin r.stopped /\ r.health[t] \in Unwell
  <2>1. x = [r EXCEPT !.is_online = FALSE] \/ x = r
    BY <1>4 DEF Serve, Unwell
  <2>2. /\ x \in QueueState /\ (Rest(r, x) \/ ~x.is_online)
        /\ x.tasks = r.tasks /\ x.stopped = r.stopped /\ x.removing = r.removing
        /\ x.uploads = r.uploads /\ x.coder_task = r.coder_task /\ x.dangling = r.dangling
        /\ x.work = r.work /\ x.health = r.health /\ x.ran = r.ran /\ x.parts = r.parts
        /\ x.pending = r.pending
    BY <1>1, <2>1, ZenonT(60) DEF QueueState, Rest
  <2>3. Alone(r, x, t) /\ (Served(r, t) => Served(x, t)) /\ x.uploads = r.uploads
    BY <2>2, Unseen
  <2>4. Served(r, t)
    BY <1>2, <1>4 DEF Served, Settled, Slotted, Coded
  <2> QED
    BY <1>2, <1>4, <2>3, <2>4
<1>5. CASE t \notin r.stopped /\ r.health[t] \notin Unwell
  <2>1. t \notin r.stopped \cup r.removing /\ r.health[t] # "ERR_NOSPACE"
        /\ r.work[t] # "INITIAL"
    BY <1>5 DEF Unwell
  <2>2. CASE r.work[t] = "NEED_DECODER"
    <3>1. x = GiveCoder(r, t, "decoder") /\ r.work[t] = Needs("decoder")
      BY <1>5, <2>1, <2>2 DEF Serve, Needs
    <3>2. /\ Alone(r, x, t) /\ Served(x, t) /\ x.uploads = r.uploads
          /\ x.coder_task["decoder"] # None
      BY <2>1, <3>1, CoderNames, GiveCoderServes
    <3>3. \A c \in CODER : r.work[t] = Needs(c) => c = "decoder"
      BY <2>2, CoderNames DEF Needs
    <3> QED
      BY <3>2, <3>3
  <2>3. CASE r.work[t] = "NEED_ENCODER"
    <3>1. x = GiveCoder(r, t, "encoder") /\ r.work[t] = Needs("encoder")
      BY <1>5, <2>1, <2>3 DEF Serve, Needs
    <3>2. /\ Alone(r, x, t) /\ Served(x, t) /\ x.uploads = r.uploads
          /\ x.coder_task["encoder"] # None
      BY <2>1, <3>1, CoderNames, GiveCoderServes
    <3>3. \A c \in CODER : r.work[t] = Needs(c) => c = "encoder"
      BY <2>3, CoderNames DEF Needs
    <3> QED
      BY <3>2, <3>3
  <2>4. CASE r.work[t] = "NEED_NNTP"
    <3>1. x = GiveConnections(r, t)
      BY <1>5, <2>1, <2>4 DEF Serve
    <3>2. Serving(r, x, t)
      BY <1>1, <1>5, <2>4, <3>1, GiveConnectionsServes
    <3>3. \A c \in CODER : r.work[t] # Needs(c) /\ x.work[t] # Needs(c)
      BY <2>4, <3>2 DEF Needs, Serving
    <3>4. x.stopped = r.stopped /\ x.removing = r.removing
      BY <3>2 DEF Serving, OnlyTask
    <3>5. Served(x, t)
      BY <2>1, <3>2, <3>3, <3>4 DEF Served, Settled, Slotted, Coded, Serving
    <3>6. t \notin Barred(r)
      BY <2>1 DEF Barred
    <3>7. ~r.is_online => /\ ~x.is_online /\ Lent(x, t) \subseteq Lent(r, t)
                          /\ \A s \in SERVER : x.pending[s] <= r.pending[s]
      <4>1. \A s \in SERVER : r.pending[s] <= r.pending[s]
        BY <1>1 DEF QueueState
      <4> QED
        BY <3>2, <4>1 DEF Serving
    <3>8. Slots(x)
      BY <3>2 DEF Serving, Sound, Slots
    <3>9. Alone(r, x, t)
      BY <3>2, <3>6, <3>7, <3>8 DEF Alone, Serving
    <3> QED
      BY <3>2, <3>3, <3>5, <3>9 DEF Serving
  <2>5. CASE r.work[t] \notin {"NEED_DECODER", "NEED_ENCODER", "NEED_NNTP"}
    <3>1. x = r
      BY <1>5, <2>1, <2>5 DEF Serve
    <3>2. Alone(r, x, t)
      BY <1>1, <3>1, Unseen DEF Rest
    <3>3. \A c \in CODER : r.work[t] # Needs(c)
      BY <2>5 DEF Needs
    <3>4. Served(x, t)
      BY <2>1, <3>1, <3>3 DEF Served, Settled, Slotted, Coded
    <3> QED
      BY <3>1, <3>2, <3>3, <3>4
  <2> QED
    BY <2>2, <2>3, <2>4, <2>5
<1> QED
  BY <1>3, <1>4, <1>5

----------------------------------------------------------------------------
(* Slots, deletion and process_task.                                       *)

LEMMA AloneTrans ==
  ASSUME NEW r \in QueueState, NEW x, NEW y, NEW t \in TASK, Alone(r, x, t), Alone(x, y, t)
  PROVE  Alone(r, y, t)
<1>1. OnlyTask(r, y, t)
  BY OnlyTaskTrans DEF Alone
<1>2. Barred(x) = Barred(r)
  BY DEF Alone, OnlyTask, Barred, Known
<1>3. t \in Barred(r) => Got(r, y, t)
  BY <1>2 DEF Alone, Got
<1>4. \A s \in SERVER : r.pending[s] \in Int /\ x.pending[s] \in Int /\ y.pending[s] \in Int
  BY DEF Alone, OnlyTask, QueueState
<1>5. ~r.is_online => /\ ~y.is_online /\ Lent(y, t) \subseteq Lent(r, t)
                      /\ \A s \in SERVER : y.pending[s] <= r.pending[s]
  BY <1>4 DEF Alone
<1> QED
  BY <1>1, <1>3, <1>5 DEF Alone

\* The set of slots holders is no larger than some server allows.
LEMMA FewUploads ==
  ASSUME NEW r \in QueueState
  PROVE  /\ IsFiniteSet(r.uploads) /\ Cardinality(r.uploads) \in Nat
         /\ \A t : Cardinality(r.uploads \cup {t}) <= Cardinality(r.uploads) + 1
         /\ \A t : Cardinality(r.uploads \ {t}) <= Cardinality(r.uploads)
         /\ r.uploads = {} => Cardinality(r.uploads) = 0
<1>1. r.uploads \in SUBSET TASK
  BY DEF QueueState
<1>2. IsFiniteSet(r.uploads)
  BY <1>1, FS_Subset, QueueAssumption
<1>3. Cardinality(r.uploads) \in Nat
  BY <1>2, FS_CardinalityType
<1>4. ASSUME NEW t PROVE Cardinality(r.uploads \cup {t}) <= Cardinality(r.uploads) + 1
  <2>1. Cardinality(r.uploads \cup {t}) =
          IF t \in r.uploads THEN Cardinality(r.uploads) ELSE Cardinality(r.uploads) + 1
    BY <1>2, FS_AddElement
  <2> QED
    BY <1>3, <2>1
<1>5. ASSUME NEW t PROVE Cardinality(r.uploads \ {t}) <= Cardinality(r.uploads)
  <2>1. r.uploads \ {t} \subseteq r.uploads
    OBVIOUS
  <2> QED
    BY <1>2, <2>1, FS_Subset
<1>6. r.uploads = {} => Cardinality(r.uploads) = 0
  BY FS_EmptySet
<1> QED
  BY <1>2, <1>3, <1>4, <1>5, <1>6

\* Only an upload waits for a slot, and it has none.
LEMMA InitialFacts ==
  ASSUME NEW r, Sound(r), NEW t \in Known(r), r.work[t] = "INITIAL"
  PROVE  /\ t \in UPLOAD /\ t \notin r.uploads /\ t \notin r.removing
         /\ ~r.ran[t] /\ ~HasCoder(r, t) /\ ~Holds(r, t)
         /\ ~task_is_active(r, t) /\ r.health[t] \notin Unwell
<1>1. t \in TASK /\ r \in QueueState /\ TaskSound(r, t)
  BY KnownFacts
<1>2. ~HasCoder(r, t) /\ r.coder_task["encoder"] # t
  <2>1. \A d \in CODER : r.coder_task[d] # t
    BY <1>1 DEF TaskSound, CoderSound
  <2> QED
    BY <2>1, CoderNames DEF HasCoder
<1>3. t \notin ARTICLE
  BY <1>1, <1>2 DEF TaskSound, ArticleSound, ArticleWork
<1>4. t \notin POST
  BY <1>1 DEF TaskSound, PostSound
<1>5. t \in UPLOAD
  BY <1>1, <1>3, <1>4 DEF TASK
<1>6. t \notin r.uploads
  <2> SUFFICES ASSUME t \in r.uploads PROVE FALSE
    OBVIOUS
  <2>1. UploadWork(r, t) = "INITIAL"
    BY <1>1, <1>2, <1>5 DEF TaskSound, UploadSound
  <2> QED
    BY <1>2, <2>1 DEF UploadWork
<1>7. ~r.ran[t] /\ ~Holds(r, t) /\ t \notin r.removing /\ r.health[t] \notin Unwell
  BY <1>1, <1>5, <1>6 DEF TaskSound, UploadSound
<1> QED
  BY <1>2, <1>5, <1>6, <1>7 DEF task_is_active, HasCoder

LEMMA GiveSlotServes ==
  ASSUME NEW r, Sound(r), NEW t \in Known(r), r.work[t] = "INITIAL",
         NEW x, x = GiveSlot(r, t)
  PROVE  Alone(r, x, t) /\ Served(x, t) /\ x.uploads # {}
<1>1. /\ t \in UPLOAD /\ t \notin r.uploads /\ t \notin r.removing
      /\ ~r.ran[t] /\ ~HasCoder(r, t) /\ ~Holds(r, t)
      /\ ~task_is_active(r, t) /\ r.health[t] \notin Unwell
  BY InitialFacts
<1>2. t \in TASK /\ t # None /\ r \in QueueState /\ TaskSound(r, t) /\ t \notin ARTICLE
      /\ t \notin POST
  BY <1>1, KnownFacts, QueueAssumption DEF ARTICLE
<1>3. PICK s \in ServersOf[t] : s \in SERVER /\ Limit[s] \in Nat \ {0}
  <2>1. ServersOf[t] \in (SUBSET SERVER) \ {{}}
    BY <1>2, QueueAssumption
  <2> QED
    BY <2>1, QueueAssumption
<1>4. CASE ~(\A u \in ServersOf[t] : Cardinality(r.uploads) < Limit[u])
  <2>1. x = r
    BY <1>4, Zenon DEF GiveSlot
  <2>2. Alone(r, x, t)
    BY <1>2, <2>1, Unseen DEF Rest
  <2>3. r.uploads # {}
    <3>1. PICK u \in ServersOf[t] : ~(Cardinality(r.uploads) < Limit[u])
      BY <1>4
    <3>2. Limit[u] \in Nat \ {0}
      BY <1>2, QueueAssumption
    <3> QED
      BY <1>2, <3>1, <3>2, FewUploads
  <2>4. Served(x, t)
    BY <1>1, <2>1, <2>3 DEF Served, Settled, Slotted, Coded, Needs
  <2> QED
    BY <2>1, <2>2, <2>3, <2>4
<1>5. CASE \A u \in ServersOf[t] : Cardinality(r.uploads) < Limit[u]
  <2>1. PICK y : y = [r EXCEPT !.uploads = @ \cup {t}]
    OBVIOUS
  <2>2. PICK z : z = UpdateWork(y, t)
    OBVIOUS
  <2>3. x = Serve(z, t)
    <3>1. x = Serve(UpdateWork([r EXCEPT !.uploads = @ \cup {t}], t), t)
      BY <1>5, Zenon DEF GiveSlot, Then
    <3> QED
      BY <2>1, <2>2, <3>1
  <2>4. /\ y \in QueueState /\ y.uploads = r.uploads \cup {t}
        /\ y.tasks = r.tasks /\ y.stopped = r.stopped /\ y.removing = r.removing
        /\ y.coder_task = r.coder_task /\ y.dangling = r.dangling
        /\ y.is_online = r.is_online /\ y.pending = r.pending
        /\ y.work = r.work /\ y.health = r.health /\ y.ran = r.ran /\ y.parts = r.parts
    BY <1>2, <2>1 DEF QueueState
  <2>5. PICK w \in Works : WorkSet(y, z, t, w) /\ w = UploadWork(y, t)
    BY <1>1, <1>2, <2>2, <2>4, UpdateWorkIs DEF Updated
  <2>6. \A d \in CODER : r.coder_task[d] # t
    BY <1>1 DEF HasCoder
  <2>7. w = "NEED_ENCODER"
    BY <1>1, <2>4, <2>5, <2>6, CoderNames DEF UploadWork
  <2>8. /\ z \in QueueState /\ z.uploads = r.uploads \cup {t} /\ z.work[t] = "NEED_ENCODER"
        /\ z.tasks = r.tasks /\ z.stopped = r.stopped /\ z.removing = r.removing
        /\ z.coder_task = r.coder_task /\ z.dangling = r.dangling
        /\ z.is_online = r.is_online /\ z.pending = r.pending
        /\ z.health = r.health /\ z.ran = r.ran /\ z.parts = r.parts
        /\ \A u \in TASK \ {t} : z.work[u] = r.work[u]
    BY <2>4, <2>5, <2>7 DEF WorkSet, Rest
  <2>9. OnlyTask(r, z, t)
    BY <2>8 DEF OnlyTask, Same
  <2>10. Lent(z, t) = Lent(r, t) /\ ~Holds(z, t) /\ Coders(z, t) = Coders(r, t)
    BY <1>1, <2>8, SameParts DEF Coders
  <2>11. TaskSound(z, t)
    <3>1. CoderSound(z, t) /\ ~HasCoder(z, t)
      BY <2>6, <2>8 DEF CoderSound, HasCoder
    <3>2. UploadWork(z, t) = "NEED_ENCODER"
      BY <1>1, <2>6, <2>8, CoderNames DEF UploadWork
    <3>3. UploadSound(z, t)
      BY <1>1, <2>8, <2>10, <3>1, <3>2 DEF UploadSound
    <3> QED
      BY <1>2, <3>1, <3>3 DEF TaskSound
  <2>12. Slots(z)
    <3>1. r.uploads \subseteq UPLOAD
      BY DEF Sound, Slots
    <3>2. Cardinality(r.uploads) < Limit[s] /\ Limit[s] \in Nat
      BY <1>3, <1>5
    <3>3. Cardinality(r.uploads \cup {t}) <= Limit[s]
      <4>1. /\ IsFiniteSet(r.uploads) /\ Cardinality(r.uploads) \in Nat
            /\ Cardinality(r.uploads \cup {t}) = Cardinality(r.uploads) + 1
        BY <1>1, <1>2, FewUploads, FS_AddElement
      <4> QED
        BY <3>2, <4>1
    <3> QED
      BY <1>1, <1>3, <2>8, <3>1, <3>3 DEF Slots
  <2>13. \A u \in SERVER : z.pending[u] <= r.pending[u]
    BY <1>2, <2>8 DEF QueueState
  <2>14. Alone(r, z, t)
    BY <2>8, <2>9, <2>10, <2>11, <2>12, <2>13 DEF Alone, Got
  <2>15. Sound(z) /\ t \in Known(z)
    BY <2>8, <2>9, <2>11, <2>12, OnlyTaskSound DEF Known
  <2>16. Alone(z, x, t) /\ Served(x, t) /\ x.uploads = z.uploads
    BY <1>1, <2>3, <2>8, <2>15, ServeServes
  <2> QED
    BY <1>2, <2>8, <2>14, <2>16, AloneTrans
<1> QED
  BY <1>4, <1>5

\* First finds a task of a list if there is one.
LEMMA FirstIs ==
  ASSUME NEW s \in Seq(TASK), NEW S \in SUBSET (DOMAIN s), S # {}
  PROVE  Min(S) \in S /\ s[Min(S)] \in ToSet(s) /\ s[Min(S)] # None
<1>1. S \in SUBSET Int
  OBVIOUS
<1>2. IsFiniteSet(S)
  <2>1. DOMAIN s = 1..Len(s) /\ Len(s) \in Nat
    OBVIOUS
  <2>2. IsFiniteSet(DOMAIN s)
    BY <2>1, FS_Interval
  <2> QED
    BY <2>2, FS_Subset
<1>3. Min(S) \in S
  BY <1>1, <1>2, Extremes
<1> QED
  BY <1>3, QueueAssumption DEF ToSet

\* x is r without t.
Without(r, x, t) ==
  /\ x \in QueueState /\ Known(x) = Known(r) \ {t} /\ Distinct(x.tasks)
  /\ x.stopped = r.stopped \ {t} /\ x.removing = r.removing \ {t}
  /\ x.uploads = r.uploads \ {t}
  /\ x.coder_task = r.coder_task /\ x.dangling = r.dangling
  /\ x.is_online = r.is_online /\ x.pending = r.pending
  /\ \A u \in TASK \ {t} : Same(r, x, u)
  /\ Absent(x, t)

\* g is f with the value at a replaced.
Put(f, g, a, v, S) ==
  g = [f EXCEPT ![a] = v] /\ g[a] = v /\ \A u \in S \ {a} : g[u] = f[u]

LEMMA PutAt ==
  ASSUME NEW S, NEW T, NEW f \in [S -> T], NEW a \in S, NEW v \in T
  PROVE  \E g \in [S -> T] : Put(f, g, a, v, S)
<1>1. [f EXCEPT ![a] = v] \in [S -> T] /\ Put(f, [f EXCEPT ![a] = v], a, v, S)
  BY DEF Put
<1> QED
  BY <1>1

\* What remove_task does to it before it looks for the next upload.
Erased(r, t) ==
  [r EXCEPT !.stopped = @ \ {t}, !.removing = @ \ {t},
            !.tasks = RemoveAt(@, Place(r, t)),
            !.work[t] = "COMPLETED", !.health[t] = "OK", !.ran[t] = FALSE,
            !.parts[t] = Restrict(@, Lent(r, t))]
Freed(e, t) == [e EXCEPT !.uploads = @ \ {t}]

LEMMA ErasedIs ==
  ASSUME NEW r, Sound(r), NEW t \in Known(r), ~task_is_active(r, t), NEW e, NEW x,
         e = Erased(r, t), x = Freed(e, t)
  PROVE  /\ e \in QueueState /\ Without(r, x, t)
         /\ x.tasks = e.tasks /\ x.work = e.work
         /\ t \notin UPLOAD => x.uploads = r.uploads
<1>1. t \in TASK /\ t # None /\ r \in QueueState
  BY KnownFacts
<1>2. PICK k \in DOMAIN r.tasks : k = Place(r, t) /\ r.tasks[k] = t
  <2>1. \E k \in DOMAIN r.tasks : r.tasks[k] = t
    BY DEF Known, ToSet
  <2> QED
    BY <2>1 DEF Place
<1>3. r.tasks \in Seq(TASK) /\ Distinct(r.tasks)
  BY DEF Sound, QueueState
<1>4. PICK tasks \in Seq(TASK) :
        /\ tasks = RemoveAt(r.tasks, k) /\ Distinct(tasks)
        /\ ToSet(tasks) = ToSet(r.tasks) \ {t}
  BY <1>2, <1>3, Removed
<1>5. Lent(r, t) = {} /\ ~HasCoder(r, t)
  BY DEF task_is_active, Holds, HasCoder
<1>6. PICK p \in Needed : p = Restrict(r.parts[t], Lent(r, t)) /\ DOMAIN p = {}
  <2>1. Restrict(r.parts[t], Lent(r, t)) = [i \in {} |-> r.parts[t][i]]
    BY <1>5 DEF Restrict
  <2>2. [i \in {} |-> r.parts[t][i]] \in [{} -> Part]
    OBVIOUS
  <2>3. {} \in SUBSET (1..MaxParts)
    OBVIOUS
  <2> QED
    BY <2>1, <2>2, <2>3 DEF Needed
<1>7. PICK work \in [TASK -> Works] : Put(r.work, work, t, "COMPLETED", TASK)
  <2>1. r.work \in [TASK -> Works] /\ "COMPLETED" \in Works
    BY <1>1 DEF QueueState, Works
  <2> QED
    BY <1>1, <2>1, PutAt
<1>8. PICK health \in [TASK -> Health] : Put(r.health, health, t, "OK", TASK)
  <2>1. r.health \in [TASK -> Health] /\ "OK" \in Health
    BY <1>1 DEF QueueState, Health
  <2> QED
    BY <1>1, <2>1, PutAt
<1>9. PICK ran \in [TASK -> BOOLEAN] : Put(r.ran, ran, t, FALSE, TASK)
  <2>1. r.ran \in [TASK -> BOOLEAN] /\ FALSE \in BOOLEAN
    BY <1>1 DEF QueueState
  <2> QED
    BY <1>1, <2>1, PutAt
<1>10. PICK parts \in [TASK -> Needed] : Put(r.parts, parts, t, p, TASK)
  <2>1. r.parts \in [TASK -> Needed] /\ p \in Needed
    BY <1>1 DEF QueueState
  <2> QED
    BY <1>1, <2>1, PutAt
<1>11. PICK y : y = [r EXCEPT !.stopped = r.stopped \ {t}, !.removing = r.removing \ {t},
                              !.tasks = tasks]
  OBVIOUS
<1>12. PICK z : z = [y EXCEPT !.work = work, !.health = health]
  OBVIOUS
<1>13. /\ y \in QueueState /\ y.tasks = tasks /\ y.uploads = r.uploads
       /\ y.stopped = r.stopped \ {t} /\ y.removing = r.removing \ {t}
       /\ y.coder_task = r.coder_task /\ y.dangling = r.dangling
       /\ y.is_online = r.is_online /\ y.pending = r.pending
       /\ y.work = r.work /\ y.health = r.health /\ y.ran = r.ran /\ y.parts = r.parts
  BY <1>1, <1>11 DEF QueueState
<1>14. /\ z \in QueueState /\ z.tasks = tasks /\ z.uploads = r.uploads
       /\ z.stopped = r.stopped \ {t} /\ z.removing = r.removing \ {t}
       /\ z.coder_task = r.coder_task /\ z.dangling = r.dangling
       /\ z.is_online = r.is_online /\ z.pending = r.pending
       /\ z.work = work /\ z.health = health /\ z.ran = r.ran /\ z.parts = r.parts
  BY <1>12, <1>13 DEF QueueState
<1>15. e = [z EXCEPT !.ran = ran, !.parts = parts]
  <2>1. e = [[[r EXCEPT !.stopped = r.stopped \ {t}, !.removing = r.removing \ {t},
                        !.tasks = tasks] EXCEPT !.work = work, !.health = health]
               EXCEPT !.ran = ran, !.parts = parts]
    BY <1>2, <1>4, <1>6, <1>7, <1>8, <1>9, <1>10 DEF Erased, Put
  <2> QED
    BY <1>11, <1>12, <2>1
<1>16. /\ e \in QueueState /\ e.tasks = tasks /\ e.uploads = r.uploads
       /\ e.stopped = r.stopped \ {t} /\ e.removing = r.removing \ {t}
       /\ e.coder_task = r.coder_task /\ e.dangling = r.dangling
       /\ e.is_online = r.is_online /\ e.pending = r.pending
       /\ e.work = work /\ e.health = health /\ e.ran = ran /\ e.parts = parts
  BY <1>14, <1>15, ZenonT(60) DEF QueueState
<1>17. PICK uploads \in SUBSET TASK : uploads = r.uploads \ {t}
  BY <1>1 DEF QueueState
<1>18. x = [e EXCEPT !.uploads = uploads]
  BY <1>16, <1>17 DEF Freed
<1>19. /\ x \in QueueState /\ x.tasks = tasks /\ x.uploads = r.uploads \ {t}
       /\ x.stopped = r.stopped \ {t} /\ x.removing = r.removing \ {t}
       /\ x.coder_task = r.coder_task /\ x.dangling = r.dangling
       /\ x.is_online = r.is_online /\ x.pending = r.pending
       /\ x.work = work /\ x.health = health /\ x.ran = ran /\ x.parts = parts
  BY <1>16, <1>17, <1>18, ZenonT(60) DEF QueueState
<1>20. \A u \in TASK \ {t} : Same(r, x, u)
  BY <1>7, <1>8, <1>9, <1>10, <1>19 DEF Same, Put
<1>21. Absent(x, t)
  <2>1. /\ x.work[t] = "COMPLETED" /\ x.health[t] = "OK" /\ ~x.ran[t]
        /\ x.parts[t] = p
    BY <1>7, <1>8, <1>9, <1>10, <1>19 DEF Put
  <2>2. ~HasCoder(x, t)
    BY <1>5, <1>19 DEF HasCoder
  <2> QED
    BY <1>6, <1>19, <2>1, <2>2 DEF Absent
<1>22. t \notin UPLOAD => x.uploads = r.uploads
  BY <1>19 DEF Sound, Slots
<1> QED
  BY <1>4, <1>19, <1>20, <1>21, <1>22, <1>16 DEF Without, Known

LEMMA WithoutSound ==
  ASSUME NEW r, Sound(r), NEW t \in Known(r), ~task_is_active(r, t), NEW x, Without(r, x, t)
  PROVE  /\ Sound(x) /\ Keeps(r, x)
         /\ \A v \in Known(x) : /\ Settled(r, v) => Settled(x, v)
                                /\ \A c \in CODER : Coded(r, c, v) => Coded(x, c, v)
<1>1. t \in TASK /\ t # None /\ r \in QueueState
  BY KnownFacts
<1>2. /\ x \in QueueState /\ Known(x) = Known(r) \ {t} /\ Distinct(x.tasks)
      /\ x.stopped = r.stopped \ {t} /\ x.removing = r.removing \ {t}
      /\ x.uploads = r.uploads \ {t}
      /\ x.coder_task = r.coder_task /\ x.dangling = r.dangling
      /\ x.is_online = r.is_online /\ x.pending = r.pending
      /\ \A u \in TASK \ {t} : Same(r, x, u)
      /\ Absent(x, t)
  BY DEF Without
<1>3. Slots(x)
  <2>1. r.uploads \subseteq UPLOAD
    BY DEF Sound, Slots
  <2>2. CASE r.uploads = {}
    BY <1>2, <2>2 DEF Slots
  <2>3. CASE r.uploads # {}
    <3>1. PICK s \in SERVER : Cardinality(r.uploads) <= Limit[s]
      BY <2>3 DEF Sound, Slots
    <3>2. /\ Cardinality(r.uploads) \in Nat
          /\ Cardinality(r.uploads \ {t}) <= Cardinality(r.uploads)
      BY <1>1, FewUploads
    <3>3. Cardinality(x.uploads) \in Nat /\ Limit[s] \in Nat
      BY <1>2, FewUploads, QueueAssumption
    <3>4. Cardinality(x.uploads) <= Limit[s]
      BY <1>2, <3>1, <3>2, <3>3
    <3> QED
      BY <1>2, <2>1, <3>4 DEF Slots
  <2> QED
    BY <2>2, <2>3
<1>4. ASSUME NEW u \in TASK PROVE Each(x, u)
  <2>1. CASE u = t
    BY <1>2, <2>1 DEF Each
  <2>2. CASE u # t
    <3>1. Same(r, x, u) /\ Each(r, u)
      BY <1>2, <2>2 DEF Sound
    <3>2. CASE u \in Known(r)
      <4>1. TaskSound(x, u)
        BY <1>2, <3>1, <3>2, SameSound DEF Each
      <4> QED
        BY <1>2, <2>2, <3>2, <4>1 DEF Each
    <3>3. CASE u \notin Known(r)
      <4>1. Absent(x, u)
        BY <1>2, <3>1, <3>3, SameAbsent DEF Each
      <4> QED
        BY <1>2, <3>3, <4>1 DEF Each
    <3> QED
      BY <3>2, <3>3
  <2> QED
    BY <2>1, <2>2
<1>5. Sound(x)
  BY <1>2, <1>3, <1>4 DEF Sound
<1>6. Lent(x, t) = {} /\ Coders(x, t) = {}
  BY <1>2 DEF Absent, Lent, Coders, HasCoder
<1>7. \A u \in TASK : Got(r, x, u)
  BY <1>2, <1>6, SameTask DEF Got
<1>8. Barred(r) \subseteq TASK /\ Barred(r) \subseteq Barred(x)
  BY <1>1, <1>2 DEF Barred, QueueState
<1>9. \A s \in SERVER : x.pending[s] <= r.pending[s]
  BY <1>1, <1>2 DEF QueueState
<1>10. Keeps(r, x)
  BY <1>2, <1>7, <1>8, <1>9 DEF Keeps, Offline, Got
<1>11. ASSUME NEW v \in Known(x)
       PROVE  /\ Settled(r, v) => Settled(x, v)
              /\ \A c \in CODER : Coded(r, c, v) => Coded(x, c, v)
  <2>1. v \in TASK \ {t}
    BY <1>2, <1>5, KnownFacts
  <2>2. /\ Same(r, x, v) /\ (v \in x.removing <=> v \in r.removing)
        /\ (v \in x.stopped <=> v \in r.stopped)
    BY <1>2, <2>1
  <2> QED
    BY <1>2, <2>2, SameSettled
<1> QED
  BY <1>5, <1>10, <1>11

LEMMA EraseServes ==
  ASSUME NEW r, Sound(r), NEW t \in Known(r), ~task_is_active(r, t), NEW x, x = Erase(r, t)
  PROVE  Goes(r, x, {t}) /\ Known(x) = Known(r) \ {t}
<1> DEFINE e == Erased(r, t)
           f == Freed(e, t)
           places == {i \in DOMAIN e.tasks : e.work[e.tasks[i]] = "INITIAL"}
           next == IF places = {} THEN None ELSE e.tasks[Min(places)]
<1>1. x = IF t \in UPLOAD /\ next # None THEN GiveSlot(f, next) ELSE f
  <2>1. x = RefillSlots(e, t)
    <3>1. PICK y : y = e
      OBVIOUS
    <3>2. x = Then(y, LAMBDA z : RefillSlots(z, t))
      BY <3>1, Zenon DEF Erase, Erased
    <3> QED
      BY <3>1, <3>2, Zenon DEF Then
  <2>2. RefillSlots(e, t) = IF t \in UPLOAD /\ next # None
                            THEN Then(f, LAMBDA z : GiveSlot(z, next)) ELSE f
    <3> HIDE DEF e
    <3> QED
      BY Zenon DEF RefillSlots, Freed, First
  <2>3. Then(f, LAMBDA z : GiveSlot(z, next)) = GiveSlot(f, next)
    <3> HIDE DEF f, next
    <3> QED
      BY Zenon DEF Then
  <2> HIDE DEF e, f, next
  <2> QED
    BY <2>1, <2>2, <2>3
<1>2. /\ e \in QueueState /\ Without(r, f, t) /\ f.tasks = e.tasks /\ f.work = e.work
      /\ t \notin UPLOAD => f.uploads = r.uploads
  BY ErasedIs
<1>3. /\ Sound(f) /\ Keeps(r, f)
      /\ \A v \in Known(f) : /\ Settled(r, v) => Settled(f, v)
                             /\ \A c \in CODER : Coded(r, c, v) => Coded(f, c, v)
  BY <1>2, WithoutSound
<1>4. e.tasks \in Seq(TASK)
  BY <1>2 DEF QueueState
<1>5. r \in QueueState /\ f \in QueueState
  BY <1>3 DEF Sound
<1>6. /\ Known(f) = Known(r) \ {t} /\ f.coder_task = r.coder_task
      /\ f.stopped = r.stopped \ {t}
      /\ \A u \in TASK \ {t} : Same(r, f, u)
  BY <1>2 DEF Without
<1>7. \A v \in Known(f) : v \in TASK \ {t}
  BY <1>3, <1>6, KnownFacts
<1>8. CASE ~(t \in UPLOAD /\ next # None)
  <2>1. x = f
    BY <1>1, <1>8
  <2>2. ASSUME NEW v \in Known(f), Slotted(r, v) PROVE Slotted(f, v)
    <3>1. v \in TASK \ {t} /\ f.work[v] = r.work[v] /\ (v \in f.stopped <=> v \in r.stopped)
      BY <1>6, <1>7 DEF Same
    <3>2. CASE t \notin UPLOAD
      BY <1>2, <2>2, <3>1, <3>2 DEF Slotted
    <3>3. CASE next = None
      <4>1. places = {}
        <5> HIDE DEF e
        <5> SUFFICES ASSUME places # {} PROVE FALSE
          OBVIOUS
        <5>1. places \in SUBSET DOMAIN e.tasks
          OBVIOUS
        <5> HIDE DEF places
        <5>2. e.tasks[Min(places)] # None
          BY <1>4, <5>1, FirstIs
        <5> QED
          BY <3>3, <5>2
      <4>2. PICK i \in DOMAIN e.tasks : e.tasks[i] = v
        BY <1>2 DEF Known, ToSet
      <4>3. f.work[v] # "INITIAL"
        BY <1>2, <4>1, <4>2
      <4> QED
        BY <4>3 DEF Slotted
    <3> QED
      BY <1>8, <3>2, <3>3
  <2>3. ASSUME NEW v \in Known(f) PROVE Better(r, f, v, v \in {t})
    <3>1. v \notin {t}
      BY <1>7
    <3> HIDE DEF f
    <3> QED
      BY <1>3, <2>2, <3>1, Zenon DEF Better
  <2>4. Progress(r, f, {t})
    BY <1>6, <2>3 DEF Progress
  <2> QED
    BY <1>3, <1>6, <2>1, <2>4 DEF Goes
<1>9. CASE t \in UPLOAD /\ next # None
  <2>1. places # {} /\ places \in SUBSET DOMAIN e.tasks
    BY <1>9
  <2>2. Min(places) \in places /\ next = e.tasks[Min(places)] /\ next \in ToSet(e.tasks)
    <3> HIDE DEF e, places
    <3> QED
      BY <1>4, <2>1, FirstIs
  <2>3. next \in Known(f) /\ f.work[next] = "INITIAL" /\ x = GiveSlot(f, next)
    BY <1>1, <1>2, <1>9, <2>2, Zenon DEF Known
  <2> HIDE DEF e, f, places, next
  <2>4. Alone(f, x, next) /\ Served(x, next) /\ x.uploads # {}
    BY <1>3, <2>3, GiveSlotServes
  <2>5. Goes(f, x, {next})
    BY <1>3, <2>3, <2>4, AloneGoes
  <2>6. Known(x) = Known(f) /\ x \in QueueState
    BY <2>4 DEF Alone, OnlyTask, Known
  <2>7. Keeps(r, x)
    BY <1>3, <1>5, <2>5, <2>6, KeepsTrans DEF Goes
  <2>8. ASSUME NEW v \in Known(x) PROVE Better(r, x, v, v \in {t})
    <3>1. v \notin {t} /\ v \in Known(f) /\ Slotted(x, v)
      BY <1>7, <2>4, <2>6 DEF Slotted
    <3>2. Better(f, x, v, v \in {next})
      BY <2>5 DEF Goes, Progress
    <3>3. /\ Settled(r, v) => Settled(x, v)
          /\ \A c \in CODER : Coded(r, c, v) => Coded(x, c, v)
      BY <1>3, <3>1, <3>2, Zenon DEF Better
    <3> QED
      BY <3>1, <3>3, Zenon DEF Better
  <2>9. \A c \in CODER : r.coder_task[c] # None => x.coder_task[c] = r.coder_task[c]
    BY <1>6, <2>4 DEF Alone
  <2>10. Progress(r, x, {t})
    BY <1>6, <2>6, <2>8, <2>9 DEF Progress
  <2> QED
    BY <1>6, <2>5, <2>6, <2>7, <2>10 DEF Goes
<1> QED
  BY <1>8, <1>9

\* A task that somebody works for is not yet finished.
LEMMA ActiveWork ==
  ASSUME NEW r, Sound(r), NEW t \in Known(r), task_is_active(r, t)
  PROVE  /\ r.work[t] \notin {"COMPLETED", "INITIAL"}
         /\ t \in UPLOAD => t \in r.uploads
<1>1. t \in TASK /\ r \in QueueState /\ TaskSound(r, t)
  BY KnownFacts
<1>2. CASE HasCoder(r, t)
  <2>1. r.work[t] = "WORKING"
    BY <1>1, <1>2 DEF TaskSound, CoderSound, HasCoder
  <2> QED
    BY <1>1, <1>2, <2>1 DEF TaskSound, UploadSound
<1>3. CASE ~HasCoder(r, t)
  <2>1. Holds(r, t) /\ r.coder_task["encoder"] # t
    BY <1>3, CoderNames DEF task_is_active, HasCoder
  <2>2. CASE t \in ARTICLE
    <3>1. r.work[t] = ArticleWork(r, t) /\ t \notin UPLOAD
      BY <1>1, <1>3, <2>2, QueueAssumption DEF TaskSound, ArticleSound
    <3>2. ArticleWork(r, t) \in {"NEED_NNTP", "WORKING"}
      BY <2>1 DEF ArticleWork
    <3> QED
      BY <3>1, <3>2
  <2>3. CASE t \in UPLOAD
    <3>1. r.ran[t] /\ t \in r.uploads
      BY <1>1, <2>1, <2>3 DEF TaskSound, UploadSound
    <3>2. r.work[t] = UploadWork(r, t)
      BY <1>1, <1>3, <2>3, <3>1 DEF TaskSound, UploadSound
    <3>3. UploadWork(r, t) = "WORKING"
      BY <2>1, <3>1 DEF UploadWork
    <3> QED
      BY <3>1, <3>2, <3>3
  <2>4. CASE t \in POST
    BY <1>1, <2>1, <2>4, QueueAssumption DEF TaskSound, PostSound
  <2> QED
    BY <1>1, <2>2, <2>3, <2>4 DEF TASK
<1> QED
  BY <1>2, <1>3

LEMMA KnownIs ==
  ASSUME NEW r, Sound(r), NEW t
  PROVE  Contains(r.tasks, t) <=> t \in Known(r)
<1>1. r.tasks \in Seq(TASK)
  BY DEF Sound, QueueState
<1> QED
  BY <1>1 DEF Contains, Known, ToSet

\* stop cancels a job and changes nothing else.
LEMMA StopTaskIs ==
  ASSUME NEW r \in QueueState, NEW t, NEW x, x = StopTask(r, t)
  PROVE  /\ x \in QueueState /\ Rest(r, x)
         /\ x.work = r.work /\ x.health = r.health /\ x.ran = r.ran /\ x.parts = r.parts
<1>1. PICK d \in [CODER -> BOOLEAN] : x = [r EXCEPT !.cancelled = d]
  <2>1. r.cancelled \in [CODER -> BOOLEAN] /\ r = [r EXCEPT !.cancelled = r.cancelled]
    BY DEF QueueState
  <2>2. [r.cancelled EXCEPT ![CoderOf(t)] = TRUE] \in [CODER -> BOOLEAN]
    BY <2>1
  <2> QED
    BY <2>1, <2>2 DEF StopTask
<1> QED
  BY <1>1 DEF QueueState, Rest

LEMMA RemoveTaskServes ==
  ASSUME NEW r, Sound(r), NEW t \in Known(r), NEW x, x = RemoveTask(r, t)
  PROVE  /\ Goes(r, x, {t})
         /\ task_is_active(r, t) => x.tasks = r.tasks
         /\ ~task_is_active(r, t) => Known(x) = Known(r) \ {t}
<1>1. t \in TASK /\ t # None /\ r \in QueueState /\ TaskSound(r, t)
  BY KnownFacts
<1>2. x = IF task_is_active(r, t)
          THEN [StopTask(r, t) EXCEPT !.removing = @ \cup {t}] ELSE Erase(r, t)
  BY KnownIs DEF RemoveTask
<1>3. CASE ~task_is_active(r, t)
  BY <1>2, <1>3, EraseServes
<1>4. CASE task_is_active(r, t)
  <2>1. PICK y : y = StopTask(r, t)
    OBVIOUS
  <2>2. /\ y \in QueueState /\ Rest(r, y)
        /\ y.work = r.work /\ y.health = r.health /\ y.ran = r.ran /\ y.parts = r.parts
    BY <1>1, <2>1, StopTaskIs
  <2>3. x = [y EXCEPT !.removing = @ \cup {t}]
    BY <1>2, <1>4, <2>1
  <2>4. /\ x \in QueueState /\ x.tasks = r.tasks /\ x.stopped = r.stopped
        /\ x.removing = r.removing \cup {t} /\ x.uploads = r.uploads
        /\ x.is_online = r.is_online /\ x.coder_task = r.coder_task
        /\ x.dangling = r.dangling /\ x.pending = r.pending
        /\ x.work = r.work /\ x.health = r.health /\ x.ran = r.ran /\ x.parts = r.parts
    <3>1. PICK removing \in SUBSET TASK : removing = r.removing \cup {t}
      BY <1>1 DEF QueueState
    <3>2. x = [y EXCEPT !.removing = removing]
      BY <2>2, <2>3, <3>1 DEF Rest
    <3> QED
      BY <2>2, <3>1, <3>2, ZenonT(60) DEF QueueState, Rest
  <2>5. \A u : Same(r, x, u)
    BY <2>4 DEF Same
  <2>6. /\ r.work[t] \notin {"COMPLETED", "INITIAL"}
        /\ t \in UPLOAD => t \in r.uploads
    BY <1>4, ActiveWork
  <2>7. Known(x) = Known(r)
    BY <2>4 DEF Known
  <2>8. ASSUME NEW u \in TASK PROVE Each(x, u)
    <3>1. Each(r, u) /\ Same(r, x, u)
      BY <2>5 DEF Sound
    <3>2. CASE u = t
      <4>1. t \in UPLOAD => UploadSound(x, t)
        <5>1. HasCoder(x, t) <=> HasCoder(r, t)
          BY <2>5, SameTask
        <5>2. UploadWork(x, t) = UploadWork(r, t) /\ (Holds(x, t) <=> Holds(r, t))
          BY <2>4, <2>5, SameWork, SameParts
        <5> QED
          BY <1>1, <2>4, <2>6, <5>1, <5>2 DEF TaskSound, UploadSound
      <4>2. t \notin UPLOAD => TaskSound(x, t)
        <5>1. PICK z : z = [x EXCEPT !.removing = r.removing]
          OBVIOUS
        <5>2. Same(r, z, t) /\ z.removing = r.removing
          BY <2>4, <5>1 DEF QueueState, Same
        <5>3. TaskSound(z, t)
          BY <1>1, <5>2, SameSound
        <5>4. /\ z.work = x.work /\ z.health = x.health /\ z.ran = x.ran
              /\ z.parts = x.parts /\ z.coder_task = x.coder_task
          BY <2>4, <5>1 DEF QueueState
        <5>5. /\ Waiting(x, t) = Waiting(z, t) /\ (Holds(x, t) <=> Holds(z, t))
              /\ Servers(x, t) = Servers(z, t) /\ (HasCoder(x, t) <=> HasCoder(z, t))
          BY <5>4, SameParts DEF HasCoder
        <5>6. ArticleWork(x, t) = ArticleWork(z, t)
          BY <5>4, <5>5 DEF ArticleWork
        <5> QED
          BY <5>3, <5>4, <5>5, <5>6 DEF TaskSound, CoderSound, ArticleSound, PostSound
      <4>3. CoderSound(x, t)
        <5>1. Waiting(x, t) = Waiting(r, t) /\ (Holds(x, t) <=> Holds(r, t))
          BY <2>4, SameParts
        <5> QED
          BY <1>1, <2>4, <5>1 DEF TaskSound, CoderSound
      <4>4. t \in UPLOAD => t \notin ARTICLE /\ t \notin POST
        BY QueueAssumption
      <4>5. TaskSound(x, t)
        BY <4>1, <4>2, <4>3, <4>4 DEF TaskSound
      <4> QED
        BY <2>7, <3>2, <4>5 DEF Each
    <3>3. CASE u # t /\ u \in Known(r)
      <4>1. TaskSound(x, u)
        BY <2>4, <3>1, <3>3, SameSound DEF Each
      <4> QED
        BY <2>7, <3>3, <4>1 DEF Each
    <3>4. CASE u \notin Known(r)
      <4>1. u # t /\ Absent(r, u)
        BY <3>1, <3>4 DEF Each
      <4>2. Absent(x, u)
        BY <2>4, <4>1 DEF Absent, HasCoder
      <4> QED
        BY <2>7, <3>4, <4>2 DEF Each
    <3> QED
      BY <3>2, <3>3, <3>4
  <2>9. Sound(x)
    BY <2>4, <2>8 DEF Sound, Slots
  <2>10. \A u : Got(r, x, u) /\ Lent(x, u) = Lent(r, u)
    BY <2>5, SameTask DEF Got
  <2>11. \A s \in SERVER : x.pending[s] <= r.pending[s]
    BY <1>1, <2>4 DEF QueueState
  <2>12. Keeps(r, x)
    <3>1. Barred(r) \subseteq Barred(x)
      BY <2>4, <2>7 DEF Barred
    <3> QED
      BY <2>4, <2>10, <2>11, <3>1 DEF Keeps, Offline
  <2>13. Served(x, t)
    <3>1. task_is_active(x, t) /\ ~Unhindered(x, t)
      BY <1>4, <2>4, <2>5, SameTask DEF Unhindered
    <3> QED
      BY <2>4, <2>6, <3>1 DEF Served, Settled, Slotted, Coded
  <2>14. ASSUME NEW v \in Known(x) PROVE Better(r, x, v, v \in {t})
    <3>1. CASE v = t
      BY <2>13, <3>1 DEF Served, Better
    <3>2. CASE v # t
      <4>1. Better(r, x, v, FALSE)
        BY <2>4, <2>5, <3>2, SameBetter
      <4>2. v \notin {t}
        BY <3>2
      <4> QED
        BY <4>1, <4>2, Zenon DEF Better
    <3> QED
      BY <3>1, <3>2
  <2>15. Progress(r, x, {t})
    BY <2>4, <2>7, <2>14 DEF Progress
  <2> QED
    BY <1>4, <2>4, <2>9, <2>12, <2>15 DEF Goes
<1> QED
  BY <1>3, <1>4

LEMMA ProcessTaskServes ==
  ASSUME NEW r, Sound(r), NEW t \in Known(r), NEW x, x = ProcessTask(r, t)
  PROVE  /\ Goes(r, x, {t})
         /\ Settled(r, t) => x.tasks = r.tasks
         /\ \A c \in CODER :
              Unhindered(r, t) /\ r.work[t] = Needs(c) => x.coder_task[c] # None
<1>1. t \in TASK /\ t # None /\ r \in QueueState /\ TaskSound(r, t)
  BY KnownFacts
<1>2. x = IF r.work[t] = "COMPLETED" \/ t \in r.removing THEN RemoveTask(r, t)
          ELSE IF r.work[t] = "INITIAL" /\ t \notin r.stopped THEN GiveSlot(r, t)
          ELSE Serve(r, t)
  BY KnownIs DEF ProcessTask
<1>3. CASE r.work[t] = "COMPLETED" \/ t \in r.removing
  <2>1. x = RemoveTask(r, t)
    BY <1>2, <1>3
  <2>2. Settled(r, t) => task_is_active(r, t)
    BY <1>3 DEF Settled
  <2>3. \A c \in CODER : ~(Unhindered(r, t) /\ r.work[t] = Needs(c))
    BY <1>3 DEF Unhindered, Needs
  <2> QED
    BY <2>1, <2>2, <2>3, RemoveTaskServes
<1>4. CASE ~(r.work[t] = "COMPLETED" \/ t \in r.removing)
           /\ r.work[t] = "INITIAL" /\ t \notin r.stopped
  <2>1. x = GiveSlot(r, t)
    BY <1>2, <1>4
  <2>2. Alone(r, x, t) /\ Served(x, t)
    BY <1>4, <2>1, GiveSlotServes
  <2>3. \A c \in CODER : r.work[t] # Needs(c)
    BY <1>4 DEF Needs
  <2>4. x.tasks = r.tasks
    BY <2>2 DEF Alone, OnlyTask
  <2> QED
    BY <2>2, <2>3, <2>4, AloneGoes
<1>5. CASE ~(r.work[t] = "COMPLETED" \/ t \in r.removing)
           /\ ~(r.work[t] = "INITIAL" /\ t \notin r.stopped)
  <2>1. x = Serve(r, t)
    BY <1>2, <1>5
  <2>2. /\ Alone(r, x, t) /\ Served(x, t)
        /\ \A c \in CODER :
             Unhindered(r, t) /\ r.work[t] = Needs(c) => x.coder_task[c] # None
    BY <1>5, <2>1, ServeServes
  <2>3. x.tasks = r.tasks
    BY <2>2 DEF Alone, OnlyTask
  <2> QED
    BY <2>2, <2>3, AloneGoes
<1> QED
  BY <1>3, <1>4, <1>5

----------------------------------------------------------------------------
(* Connections and coders that come back.                                  *)

\* The counts of connections, and whether jobs are cancelled, may change.
LEMMA Counts ==
  ASSUME NEW r, Sound(r), NEW x \in QueueState,
         x.tasks = r.tasks, x.stopped = r.stopped, x.removing = r.removing,
         x.uploads = r.uploads, x.coder_task = r.coder_task, x.dangling = r.dangling,
         x.work = r.work, x.health = r.health, x.ran = r.ran, x.parts = r.parts
  PROVE  /\ Sound(x) /\ Progress(r, x, {})
         /\ \A t : Lent(x, t) = Lent(r, t) /\ Coders(x, t) = Coders(r, t)
         /\ Fine(r) => Fine(x)
         /\ (/\ ~r.is_online => ~x.is_online
             /\ \A s \in SERVER : x.pending[s] <= r.pending[s]) => Goes(r, x, {})
<1>1. \A u : Same(r, x, u)
  BY DEF Same
<1>2. Known(x) = Known(r)
  BY DEF Known
<1>3. ASSUME NEW u \in TASK PROVE Each(x, u)
  <2>1. Each(r, u)
    BY DEF Sound
  <2>2. CASE u \in Known(r)
    BY <1>1, <1>2, <2>1, <2>2, SameSound DEF Each
  <2>3. CASE u \notin Known(r)
    BY <1>1, <1>2, <2>1, <2>3, SameAbsent DEF Each
  <2> QED
    BY <2>2, <2>3
<1>4. Sound(x)
  BY <1>3 DEF Sound, Slots
<1>5. \A v : Better(r, x, v, FALSE)
  BY <1>1, SameBetter
<1>6. ASSUME NEW v PROVE Better(r, x, v, v \in {})
  <2>1. v \notin {}
    OBVIOUS
  <2> QED
    BY <1>5, <2>1, Zenon DEF Better
<1>7. Progress(r, x, {})
  BY <1>2, <1>6 DEF Progress
<1>8. \A t : Lent(x, t) = Lent(r, t) /\ Coders(x, t) = Coders(r, t)
  BY <1>1, SameTask
<1>9. ASSUME Fine(r) PROVE Fine(x)
  <2>1. ASSUME NEW v \in Known(x) PROVE Served(x, v)
    <3>1. Served(r, v) /\ Better(r, x, v, FALSE)
      BY <1>2, <1>5, <1>9 DEF Fine
    <3> QED
      BY <3>1, Zenon DEF Better, Served
  <2> QED
    BY <1>4, <2>1 DEF Fine
<1>10. ASSUME /\ ~r.is_online => ~x.is_online
              /\ \A s \in SERVER : x.pending[s] <= r.pending[s]
       PROVE  Goes(r, x, {})
  <2>1. Barred(x) = Barred(r)
    BY <1>2 DEF Barred
  <2>2. Keeps(r, x)
    BY <1>8, <1>10, <2>1 DEF Keeps, Got, Offline
  <2> QED
    BY <1>4, <1>7, <2>2 DEF Goes
<1> QED
  BY <1>4, <1>7, <1>8, <1>9, <1>10

LEMMA GoesItself ==
  ASSUME NEW r, Sound(r)
  PROVE  Goes(r, r, {})
<1>1. r \in QueueState
  BY DEF Sound
<1>2. \A s \in SERVER : r.pending[s] <= r.pending[s]
  BY <1>1 DEF QueueState
<1> QED
  BY <1>1, <1>2, Counts

LEMMA FirstServerIs ==
  ASSUME NEW r \in QueueState, NEW s, NEW t, t = FirstNeedingServer(r, s), t # None
  PROVE  /\ t \in Known(r) /\ r.health[t] \notin Unwell /\ r.work[t] = "NEED_NNTP"
         /\ s \in Servers(r, t) /\ Unhindered(r, t)
<1> DEFINE P(u) == /\ r.health[u] \notin Unwell
                   /\ r.work[u] = "NEED_NNTP"
                   /\ s \in Servers(r, u)
                   /\ Unhindered(r, u)
           places == {i \in DOMAIN r.tasks : P(r.tasks[i])}
<1>1. t = IF places = {} THEN None ELSE r.tasks[Min(places)]
  BY DEF FirstNeedingServer, First
<1>2. r.tasks \in Seq(TASK) /\ places \in SUBSET DOMAIN r.tasks
  BY DEF QueueState
<1>3. places # {} => Min(places) \in places /\ r.tasks[Min(places)] \in ToSet(r.tasks)
  <2> HIDE DEF places
  <2> QED
    BY <1>2, FirstIs
<1> QED
  BY <1>1, <1>3, Zenon DEF Known

LEMMA FirstCoderIs ==
  ASSUME NEW r \in QueueState, NEW c, NEW t, t = FirstNeedingCoder(r, c)
  PROVE  /\ t # None => t \in Known(r) /\ r.work[t] = Needs(c) /\ Unhindered(r, t)
         /\ t = None => \A v \in Known(r) : Unhindered(r, v) => r.work[v] # Needs(c)
<1> DEFINE P(u) == r.work[u] = Needs(c) /\ Unhindered(r, u)
           places == {i \in DOMAIN r.tasks : P(r.tasks[i])}
<1>1. t = IF places = {} THEN None ELSE r.tasks[Min(places)]
  BY DEF FirstNeedingCoder, First, Needs
<1>2. r.tasks \in Seq(TASK) /\ places \in SUBSET DOMAIN r.tasks
  BY DEF QueueState
<1>3. places # {} => /\ Min(places) \in places /\ r.tasks[Min(places)] \in ToSet(r.tasks)
                     /\ r.tasks[Min(places)] # None
  <2> HIDE DEF places
  <2> QED
    BY <1>2, FirstIs
<1>4. t # None => t \in Known(r) /\ r.work[t] = Needs(c) /\ Unhindered(r, t)
  BY <1>1, <1>3 DEF Known
<1>5. ASSUME t = None, NEW v \in Known(r), Unhindered(r, v) PROVE r.work[v] # Needs(c)
  <2>1. PICK i \in DOMAIN r.tasks : r.tasks[i] = v
    BY DEF Known, ToSet
  <2>2. places = {}
    BY <1>1, <1>3, <1>5
  <2> QED
    BY <1>5, <2>1, <2>2
<1> QED
  BY <1>4, <1>5

\* Some were served, and nobody left the queue.
Stays(r, x) == x.tasks = r.tasks /\ \E T \in SUBSET Known(r) : Goes(r, x, T)

LEMMA PoolAvailableServes ==
  ASSUME NEW r, Sound(r), NEW s, NEW x, x = OnPoolHasNntpAvailable(r, s)
  PROVE  Stays(r, x)
<1>1. PICK t : t = FirstNeedingServer(r, s)
  OBVIOUS
<1>2. x = IF t = None THEN r ELSE ProcessTask(r, t)
  BY <1>1 DEF OnPoolHasNntpAvailable
<1>3. r \in QueueState
  BY DEF Sound
<1>4. CASE t = None
  BY <1>2, <1>4, GoesItself DEF Stays
<1>5. CASE t # None
  <2>1. t \in Known(r) /\ r.work[t] = "NEED_NNTP" /\ Unhindered(r, t)
    BY <1>1, <1>3, <1>5, FirstServerIs
  <2>2. Settled(r, t)
    BY <2>1 DEF Settled, Unhindered
  <2>3. Goes(r, x, {t}) /\ x.tasks = r.tasks
    BY <1>2, <1>5, <2>1, <2>2, ProcessTaskServes
  <2> QED
    BY <2>1, <2>3 DEF Stays
<1> QED
  BY <1>4, <1>5

LEMMA StaysTrans ==
  ASSUME NEW r, Sound(r), NEW x, NEW y, Goes(r, x, {}), x.tasks = r.tasks, Stays(x, y)
  PROVE  Stays(r, y)
<1>1. PICK T \in SUBSET Known(x) : Goes(x, y, T)
  BY DEF Stays
<1>2. r \in QueueState /\ Known(x) = Known(r)
  BY DEF Sound, Known
<1>3. Goes(r, y, {} \cup T) /\ {} \cup T = T
  BY <1>1, <1>2, GoesTrans
<1> QED
  BY <1>1, <1>2, <1>3 DEF Stays

LEMMA PoolCheckInServes ==
  ASSUME NEW r, Sound(r), NEW s \in SERVER, NEW h, NEW x, x = PoolCheckIn(r, s, h)
  PROVE  Stays(r, x)
<1>1. r \in QueueState
  BY DEF Sound
<1>2. CASE h = "ERR_NETWORK"
  <2>1. x = [r EXCEPT !.allowed[s] = TRUE]
    BY <1>2 DEF PoolCheckIn
  <2>2. PICK allowed \in [SERVER -> BOOLEAN] : allowed = [r.allowed EXCEPT ![s] = TRUE]
    BY <1>1 DEF QueueState
  <2>3. x = [r EXCEPT !.allowed = allowed]
    BY <2>1, <2>2
  <2>4. /\ x \in QueueState
        /\ x.tasks = r.tasks /\ x.stopped = r.stopped /\ x.removing = r.removing
        /\ x.uploads = r.uploads /\ x.coder_task = r.coder_task /\ x.dangling = r.dangling
        /\ x.work = r.work /\ x.health = r.health /\ x.ran = r.ran /\ x.parts = r.parts
        /\ x.is_online = r.is_online /\ x.pending = r.pending
    BY <1>1, <2>3, ZenonT(60) DEF QueueState
  <2>5. \A u \in SERVER : x.pending[u] <= r.pending[u]
    BY <2>4 DEF QueueState
  <2>6. Goes(r, x, {})
    BY <2>4, <2>5, Counts
  <2> QED
    BY <2>4, <2>6 DEF Stays
<1>3. CASE h = "ERR_NOSPACE"
  BY <1>3, GoesItself DEF PoolCheckIn, Stays
<1>4. CASE h \notin {"ERR_NETWORK", "ERR_NOSPACE"}
  <2>1. PICK y : y = [r EXCEPT !.idle[s] = @ + 1]
    OBVIOUS
  <2>2. x = OnPoolHasNntpAvailable(y, s)
    <3>1. x = Then([r EXCEPT !.idle[s] = @ + 1], LAMBDA z : OnPoolHasNntpAvailable(z, s))
      BY <1>4, Zenon DEF PoolCheckIn
    <3>2. x = Then(y, LAMBDA z : OnPoolHasNntpAvailable(z, s))
      BY <2>1, <3>1, Zenon
    <3> QED
      BY <3>2, Zenon DEF Then
  <2>3. PICK idle \in [SERVER -> Int] : idle = [r.idle EXCEPT ![s] = @ + 1]
    <3>1. r.idle \in [SERVER -> Int] /\ r.idle[s] + 1 \in Int
      BY <1>1 DEF QueueState
    <3>2. [r.idle EXCEPT ![s] = r.idle[s] + 1] \in [SERVER -> Int]
      BY <3>1
    <3> QED
      BY <3>2
  <2>4. y = [r EXCEPT !.idle = idle]
    BY <2>1, <2>3
  <2>5. /\ y \in QueueState
        /\ y.tasks = r.tasks /\ y.stopped = r.stopped /\ y.removing = r.removing
        /\ y.uploads = r.uploads /\ y.coder_task = r.coder_task /\ y.dangling = r.dangling
        /\ y.work = r.work /\ y.health = r.health /\ y.ran = r.ran /\ y.parts = r.parts
        /\ y.is_online = r.is_online /\ y.pending = r.pending
    BY <1>1, <2>4 DEF QueueState
  <2>6. \A u \in SERVER : y.pending[u] <= r.pending[u]
    BY <2>5 DEF QueueState
  <2>7. Goes(r, y, {}) /\ Sound(y)
    BY <2>5, <2>6, Counts
  <2>8. Stays(y, x)
    BY <2>2, <2>7, PoolAvailableServes
  <2> QED
    BY <2>5, <2>7, <2>8, StaysTrans
<1> QED
  BY <1>2, <1>3, <1>4

LEMMA CheckInServes ==
  ASSUME NEW r, Sound(r), NEW t \in Known(r), NEW s \in SERVER, NEW h,
         NEW x, x = CheckInNntp(r, t, s, h)
  PROVE  \E T \in SUBSET Known(r) : Goes(r, x, T \cup {t})
<1>1. t \in TASK /\ t # None /\ r \in QueueState /\ TaskSound(r, t)
  BY KnownFacts
<1>2. CASE KeepsConnection(r, t, s, h)
  <2>1. /\ r.is_online /\ r.health[t] \notin Unwell /\ r.work[t] = "NEED_NNTP"
        /\ s \in Servers(r, t) /\ FirstNeedingServer(r, s) = t
    BY <1>2 DEF KeepsConnection
  <2>2. Unhindered(r, t)
    BY <1>1, <2>1, FirstServerIs
  <2>3. x = UseNntp(r, t, s)
    BY <1>2 DEF CheckInNntp
  <2>4. /\ OnlyTask(r, x, t) /\ TaskSound(x, t) /\ Rest(r, x)
        /\ x.health = r.health /\ x.work[t] \in {"NEED_NNTP", "WORKING"}
    BY <1>1, <2>1, <2>3, UseNntpServes
  <2>5. Slots(x)
    BY <2>4 DEF Sound, Slots, Rest
  <2>6. t \notin Barred(r)
    BY <2>2 DEF Barred, Unhindered
  <2>7. Alone(r, x, t)
    BY <2>1, <2>4, <2>5, <2>6 DEF Alone, Rest
  <2>8. Served(x, t)
    BY <2>2, <2>4 DEF Served, Settled, Slotted, Coded, Unhindered, Rest, Needs
  <2>9. Goes(r, x, {t})
    BY <2>7, <2>8, AloneGoes
  <2>10. {} \in SUBSET Known(r) /\ {} \cup {t} = {t}
    OBVIOUS
  <2> QED
    BY <2>9, <2>10
<1>3. CASE ~KeepsConnection(r, t, s, h)
  <2>1. PICK y : y = PoolCheckIn(r, s, h)
    OBVIOUS
  <2>2. x = ProcessTask(y, t)
    <3>1. x = Then(PoolCheckIn(r, s, h), LAMBDA z : ProcessTask(z, t))
      BY <1>3, Zenon DEF CheckInNntp
    <3>2. x = Then(y, LAMBDA z : ProcessTask(z, t))
      BY <2>1, <3>1, Zenon
    <3> QED
      BY <3>2, Zenon DEF Then
  <2>3. PICK T \in SUBSET Known(r) : Goes(r, y, T) /\ y.tasks = r.tasks
    BY <2>1, PoolCheckInServes DEF Stays
  <2>4. Sound(y) /\ t \in Known(y)
    BY <2>3 DEF Goes, Known
  <2>5. Goes(y, x, {t})
    BY <2>2, <2>4, ProcessTaskServes
  <2>6. Goes(r, x, T \cup {t})
    BY <1>1, <2>3, <2>5, GoesTrans
  <2> QED
    BY <2>6
<1> QED
  BY <1>2, <1>3

LEMMA PartNumbers ==
  ASSUME NEW r \in QueueState, NEW t \in TASK
  PROVE  \E D \in SUBSET (1..MaxParts) : r.parts[t] \in [D -> Part] /\ DOMAIN r.parts[t] = D
<1>1. r.parts[t] \in UNION {[numbers -> Part] : numbers \in SUBSET (1..MaxParts)}
  BY DEF QueueState, Needed
<1>2. PICK D \in SUBSET (1..MaxParts) : r.parts[t] \in [D -> Part]
  BY <1>1
<1> QED
  BY <1>2

\* Part i of t has come back: it is done with, or waits again.
Back(r, x, t, i) ==
  /\ x \in QueueState /\ Rest(r, x)
  /\ x.health = r.health /\ x.ran = r.ran /\ x.work = r.work
  /\ \A u \in TASK \ {t} : x.parts[u] = r.parts[u]
  /\ Lent(x, t) = Lent(r, t) \ {i} /\ Waiting(r, t) \subseteq Waiting(x, t)

NewParts(r, x, t, p) == x = [r EXCEPT !.parts[t] = p]

LEMMA BackIs ==
  ASSUME NEW r \in QueueState, NEW t \in TASK, NEW i \in Lent(r, t), NEW D \in SUBSET (1..MaxParts),
         NEW p \in [D -> Part], D \subseteq DOMAIN r.parts[t], DOMAIN r.parts[t] \ {i} \subseteq D,
         \A j \in D \ {i} : p[j] = r.parts[t][j], i \in D => p[i].nntp = None,
         NEW x, NewParts(r, x, t, p)
  PROVE  Back(r, x, t, i) /\ x.parts[t] = p /\ (i \in D => i \in Waiting(x, t))
<1>1. PartsSet(r, x, t, p)
  <2>1. p \in Needed
    BY DEF Needed
  <2> QED
    BY <2>1, SetParts DEF NewParts
<1>2. x.parts[t] = p /\ DOMAIN p = D
  BY <1>1 DEF PartsSet
<1>3. Lent(x, t) = Lent(r, t) \ {i}
  BY <1>2 DEF Lent
<1>4. Waiting(r, t) \subseteq Waiting(x, t) /\ (i \in D => i \in Waiting(x, t))
  BY <1>2, <1>3 DEF Waiting
<1> QED
  BY <1>1, <1>2, <1>3, <1>4 DEF Back, PartsSet

LEMMA DroppedIs ==
  ASSUME NEW r \in QueueState, NEW t \in TASK, NEW i \in Lent(r, t)
  PROVE  Back(r, Dropped(r, t, i), t, i)
<1>1. PICK D \in SUBSET (1..MaxParts) : r.parts[t] \in [D -> Part] /\ DOMAIN r.parts[t] = D
  BY PartNumbers
<1>2. PICK p \in [D \ {i} -> Part] : p = Restrict(r.parts[t], D \ {i})
  BY <1>1 DEF Restrict
<1>3. NewParts(r, Dropped(r, t, i), t, p)
  BY <1>1, <1>2 DEF Dropped, NewParts
<1>4. \A j \in D \ {i} : p[j] = r.parts[t][j]
  BY <1>1, <1>2 DEF Restrict
<1>5. D \ {i} \in SUBSET (1..MaxParts) /\ DOMAIN r.parts[t] = D
  BY <1>1
<1> HIDE DEF Dropped
<1> QED
  BY <1>3, <1>4, <1>5, BackIs

LEMMA AgainIs ==
  ASSUME NEW r \in QueueState, NEW t \in TASK, NEW i \in Lent(r, t)
  PROVE  /\ Back(r, Again(r, t, i), t, i) /\ i \in Waiting(Again(r, t, i), t)
         /\ DOMAIN Again(r, t, i).parts[t] = DOMAIN r.parts[t]
         /\ Again(r, t, i).parts[t][i].xref = r.parts[t][i].xref
<1>1. PICK D \in SUBSET (1..MaxParts) : r.parts[t] \in [D -> Part] /\ DOMAIN r.parts[t] = D
  BY PartNumbers
<1>2. i \in D /\ r.parts[t][i] \in Part
  BY <1>1, PartFacts
<1>3. PICK e \in Part : e = [r.parts[t][i] EXCEPT !.nntp = None] /\ e.nntp = None
                        /\ e.xref = r.parts[t][i].xref
  <2>1. [xref |-> r.parts[t][i].xref, nntp |-> None] \in Part
    BY <1>2 DEF Part
  <2>2. [r.parts[t][i] EXCEPT !.nntp = None] = [xref |-> r.parts[t][i].xref, nntp |-> None]
    BY <1>2 DEF Part
  <2> QED
    BY <2>1, <2>2
<1>4. PICK p \in [D -> Part] : p = [r.parts[t] EXCEPT ![i] = e]
  BY <1>1, <1>2
<1>5. NewParts(r, Again(r, t, i), t, p)
  BY <1>3, <1>4 DEF Again, NewParts
<1>6. p[i] = e /\ p[i].nntp = None
  BY <1>1, <1>2, <1>3, <1>4
<1>7. /\ i \in D /\ D \subseteq DOMAIN r.parts[t] /\ DOMAIN r.parts[t] \ {i} \subseteq D
      /\ \A j \in D \ {i} : p[j] = r.parts[t][j]
  BY <1>1, <1>2, <1>4
<1>8. /\ Back(r, Again(r, t, i), t, i) /\ Again(r, t, i).parts[t] = p
      /\ i \in Waiting(Again(r, t, i), t)
  <2> HIDE DEF Again
  <2> QED
    BY <1>5, <1>6, <1>7, BackIs
<1> QED
  BY <1>1, <1>3, <1>6, <1>8

\* The part is asked for elsewhere.
Elsewhere(r, t, i, s) == [Again(r, t, i) EXCEPT !.parts[t][i].xref = @ \ {s}]

LEMMA ElsewhereIs ==
  ASSUME NEW r \in QueueState, NEW t \in TASK, NEW i \in Lent(r, t), NEW s,
         r.parts[t][i].xref # {s},
         NEW x, x = Elsewhere(r, t, i, s)
  PROVE  Back(r, x, t, i) /\ i \in Waiting(x, t)
<1>1. PICK D \in SUBSET (1..MaxParts) : r.parts[t] \in [D -> Part] /\ DOMAIN r.parts[t] = D
  BY PartNumbers
<1>2. i \in D /\ r.parts[t][i] \in Part
  BY <1>1, PartFacts
<1>3. PICK e \in Part : /\ e = [xref |-> r.parts[t][i].xref \ {s}, nntp |-> None]
                        /\ e.nntp = None
  <2>1. r.parts[t][i].xref \ {s} \in (SUBSET SERVER) \ {{}}
    BY <1>2 DEF Part
  <2>2. [xref |-> r.parts[t][i].xref \ {s}, nntp |-> None] \in Part
    BY <2>1 DEF Part
  <2> QED
    BY <2>2
<1>4. PICK p \in [D -> Part] : p = [r.parts[t] EXCEPT ![i] = e]
  BY <1>1, <1>2
<1>5. NewParts(r, x, t, p)
  <2>1. PICK a \in [D -> Part] :
          a = [r.parts[t] EXCEPT ![i] = [xref |-> r.parts[t][i].xref, nntp |-> None]]
    <3>1. [xref |-> r.parts[t][i].xref, nntp |-> None] \in Part
      BY <1>2 DEF Part
    <3> QED
      BY <1>1, <1>2, <3>1
  <2>2. Again(r, t, i) = [r EXCEPT !.parts[t] = a]
    <3>1. [r.parts[t][i] EXCEPT !.nntp = None] = [xref |-> r.parts[t][i].xref, nntp |-> None]
      BY <1>2 DEF Part
    <3> QED
      BY <2>1, <3>1 DEF Again
  <2>3. [a EXCEPT ![i].xref = @ \ {s}] = p
    <3>1. a[i] = [xref |-> r.parts[t][i].xref, nntp |-> None]
      BY <1>1, <1>2, <2>1
    <3>2. [a[i] EXCEPT !.xref = @ \ {s}] = e
      <4>1. [[xref |-> r.parts[t][i].xref, nntp |-> None] EXCEPT !.xref = @ \ {s}]
              = [xref |-> r.parts[t][i].xref \ {s}, nntp |-> None]
        OBVIOUS
      <4> QED
        BY <1>3, <3>1, <4>1
    <3>3. [a EXCEPT ![i] = e] = p
      BY <1>1, <1>2, <1>4, <2>1
    <3> QED
      BY <3>2, <3>3
  <2>4. PICK y : y = [r EXCEPT !.parts[t] = a]
    OBVIOUS
  <2>5. y.parts[t] = a
    BY <2>4 DEF QueueState
  <2>6. x = [y EXCEPT !.parts[t][i].xref = @ \ {s}]
    BY <2>2, <2>4 DEF Elsewhere
  <2>7. x = [y EXCEPT !.parts[t] = p]
    BY <2>3, <2>5, <2>6
  <2> QED
    BY <2>4, <2>7 DEF QueueState, NewParts
<1>6. p[i] = e /\ p[i].nntp = None
  BY <1>1, <1>2, <1>3, <1>4
<1>7. /\ i \in D /\ D \subseteq DOMAIN r.parts[t] /\ DOMAIN r.parts[t] \ {i} \subseteq D
      /\ \A j \in D \ {i} : p[j] = r.parts[t][j]
  BY <1>1, <1>2, <1>4
<1> QED
  BY <1>5, <1>6, <1>7, BackIs

\* x is r but for the health of t, which is h.
HealthSet(r, x, t, h) ==
  /\ x \in QueueState /\ Rest(r, x) /\ x.health[t] = h
  /\ \A u \in TASK \ {t} : x.health[u] = r.health[u]
  /\ x.work = r.work /\ x.ran = r.ran /\ x.parts = r.parts

LEMMA SetHealth ==
  ASSUME NEW r \in QueueState, NEW t \in TASK, NEW h \in Health
  PROVE  HealthSet(r, [r EXCEPT !.health[t] = h], t, h)
  BY DEF QueueState, HealthSet, Rest

\* What t has when its part i has come back with h.
Answered(r, x, t, i) ==
  /\ OnlyTask(r, x, t) /\ TaskSound(x, t) /\ Rest(r, x)
  /\ Lent(x, t) = Lent(r, t) \ {i}

\* The same before update_work.
Returned(r, y, t, i) ==
  /\ y \in QueueState /\ Rest(r, y) /\ y.ran = r.ran
  /\ \A u \in TASK \ {t} : /\ y.parts[u] = r.parts[u] /\ y.health[u] = r.health[u]
                           /\ y.work[u] = r.work[u]
  /\ Lent(y, t) = Lent(r, t) \ {i}
  /\ Waiting(r, t) \subseteq Waiting(y, t)
  /\ y.health[t] = r.health[t] \/ i \in Waiting(y, t)
  /\ t \in UPLOAD => y.health[t] = r.health[t]

LEMMA BackReturned ==
  ASSUME NEW r, NEW y, NEW t, NEW i, Back(r, y, t, i)
  PROVE  Returned(r, y, t, i)
  BY DEF Back, Returned

LEMMA ReturnedSound ==
  ASSUME NEW r, Sound(r), NEW t \in Known(r), t \in ARTICLE \cup UPLOAD,
         NEW i \in Lent(r, t), NEW y, Returned(r, y, t, i), NEW x, x = UpdateWork(y, t)
  PROVE  Answered(r, x, t, i)
<1>1. t \in TASK /\ t # None /\ r \in QueueState /\ TaskSound(r, t) /\ y \in QueueState
  BY KnownFacts DEF Returned
<1>2. PICK w \in Works : /\ WorkSet(y, x, t, w)
                         /\ t \in ARTICLE => w = ArticleWork(y, t)
                         /\ t \in UPLOAD => w = UploadWork(y, t)
  BY <1>1, UpdateWorkIs DEF Updated
<1>3. Holds(r, t) /\ \A c \in CODER : r.coder_task[c] # t
  BY <1>1 DEF TaskSound, CoderSound, Holds
<1>4. /\ x \in QueueState /\ Rest(r, x) /\ x.ran = r.ran /\ x.work[t] = w
      /\ x.health = y.health /\ x.parts = y.parts
      /\ \A u \in TASK \ {t} : /\ x.parts[u] = r.parts[u] /\ x.health[u] = r.health[u]
                               /\ x.work[u] = r.work[u]
  BY <1>2 DEF WorkSet, Returned, Rest
<1>5. OnlyTask(r, x, t)
  BY <1>4, OwnFields
<1>6. /\ Lent(x, t) = Lent(y, t) /\ Waiting(x, t) = Waiting(y, t)
      /\ Servers(x, t) = Servers(y, t) /\ (Holds(x, t) <=> Holds(y, t))
  BY <1>4, SameParts
<1>7. ~HasCoder(x, t) /\ \A c \in CODER : x.coder_task[c] # t /\ y.coder_task[c] # t
  <2>1. x.coder_task = r.coder_task /\ y.coder_task = r.coder_task
    BY <1>4 DEF Rest, Returned
  <2> QED
    BY <1>3, <2>1 DEF HasCoder
<1>8. CoderSound(x, t)
  BY <1>7 DEF CoderSound
<1>9. t \in ARTICLE => ArticleSound(x, t)
  <2> SUFFICES ASSUME t \in ARTICLE PROVE ArticleSound(x, t)
    OBVIOUS
  <2>1. y.ran = x.ran /\ y.coder_task["decoder"] # t /\ x.coder_task["decoder"] # t
    BY <1>4, <1>7, CoderNames DEF Returned
  <2>2. ArticleWork(x, t) = ArticleWork(y, t)
    BY <1>6, <2>1 DEF ArticleWork
  <2>3. x.health[t] \in Unwell => Waiting(x, t) # {}
    BY <1>1, <1>4, <1>6 DEF Returned, TaskSound, ArticleSound
  <2> QED
    BY <1>2, <1>4, <2>2, <2>3 DEF ArticleSound
<1>10. t \in UPLOAD => UploadSound(x, t)
  <2> SUFFICES ASSUME t \in UPLOAD PROVE UploadSound(x, t)
    OBVIOUS
  <2>1. r.ran[t] /\ r.health[t] \notin Unwell
    BY <1>1, <1>3 DEF TaskSound, UploadSound
  <2>2. t \in r.uploads
    BY <1>1, <2>1 DEF TaskSound, UploadSound
  <2>3. UploadWork(x, t) = UploadWork(y, t)
    BY <1>4, <1>6, <2>1 DEF UploadWork, Returned
  <2>4. x.uploads = r.uploads /\ x.health[t] = r.health[t] /\ x.ran[t]
    BY <1>4, <2>1 DEF Returned, Rest
  <2> QED
    BY <1>2, <1>4, <2>1, <2>2, <2>3, <2>4 DEF UploadSound
<1>11. t \notin POST
  BY QueueAssumption
<1>12. TaskSound(x, t)
  BY <1>8, <1>9, <1>10, <1>11 DEF TaskSound
<1> QED
  BY <1>4, <1>5, <1>6, <1>12 DEF Answered, Returned

LEMMA PartDoneIs ==
  ASSUME NEW r, Sound(r), NEW t \in Known(r), NEW i \in Lent(r, t), NEW h \in Health,
         h \in {"ERR_NOSPACE", "ERR_LOCAL"} => t \in ARTICLE,
         NEW x, x = PartDone(r, t, i, h)
  PROVE  Answered(r, x, t, i)
<1>1. t \in TASK /\ t # None /\ r \in QueueState /\ TaskSound(r, t)
  BY KnownFacts
<1>2. /\ Back(r, Again(r, t, i), t, i) /\ i \in Waiting(Again(r, t, i), t)
      /\ DOMAIN Again(r, t, i).parts[t] = DOMAIN r.parts[t]
  BY <1>1, AgainIs
<1>3. Back(r, Dropped(r, t, i), t, i)
  BY <1>1, DroppedIs
<1>4. CASE t \in ARTICLE
  <2> DEFINE s == r.parts[t][i].nntp
             y == CASE h = "OK" -> Dropped(r, t, i)
                    [] h = "ERR_COMMAND" ->
                         IF r.parts[t][i].xref = {s} THEN Dropped(r, t, i)
                                                     ELSE Elsewhere(r, t, i, s)
                    [] h = "ERR_NOSPACE" -> [Again(r, t, i) EXCEPT !.health[t] = h]
                    [] OTHER -> Again(r, t, i)
  <2>1. x = UpdateWork(y, t)
    <3>1. x = ArticleDone(r, t, i, h)
      <4>1. t \notin UPLOAD
        BY <1>4, QueueAssumption
      <4>2. t \notin POST
        BY <1>4, QueueAssumption
      <4> QED
        BY <1>4, <4>1, <4>2 DEF PartDone
    <3>2. ArticleDone(r, t, i, h) = Then(y, LAMBDA z : UpdateWork(z, t))
      BY Zenon DEF ArticleDone, Elsewhere
    <3> HIDE DEF y
    <3>3. Then(y, LAMBDA z : UpdateWork(z, t)) = UpdateWork(y, t)
      BY Zenon DEF Then
    <3> QED
      BY <3>1, <3>2, <3>3
  <2>2. Returned(r, y, t, i)
    <3>1. CASE h = "OK"
      <4>1. y = Dropped(r, t, i)
        BY <3>1
      <4> QED
        BY <1>3, <4>1, BackReturned
    <3>2. CASE h = "ERR_COMMAND" /\ r.parts[t][i].xref = {s}
      <4>1. y = Dropped(r, t, i)
        BY <3>2
      <4> QED
        BY <1>3, <4>1, BackReturned
    <3>3. CASE h = "ERR_COMMAND" /\ r.parts[t][i].xref # {s}
      <4>1. y = Elsewhere(r, t, i, s)
        BY <3>3
      <4> HIDE DEF y
      <4>2. Back(r, y, t, i)
        BY <1>1, <3>3, <4>1, ElsewhereIs
      <4> QED
        BY <4>2, BackReturned
    <3>4. CASE h = "ERR_NOSPACE"
      <4>1. PICK z : z = Again(r, t, i)
        OBVIOUS
      <4>2. y = [z EXCEPT !.health[t] = h]
        BY <3>4, <4>1
      <4> HIDE DEF y
      <4>3. Back(r, z, t, i) /\ i \in Waiting(z, t) /\ z \in QueueState
        BY <1>2, <4>1 DEF Back
      <4>4. HealthSet(z, y, t, h)
        BY <1>1, <4>2, <4>3, SetHealth
      <4>5. Lent(y, t) = Lent(z, t) /\ Waiting(y, t) = Waiting(z, t)
        BY <4>4, SameParts DEF HealthSet
      <4>6. t \notin UPLOAD
        BY <1>4, QueueAssumption
      <4> QED
        BY <4>3, <4>4, <4>5, <4>6 DEF Back, HealthSet, Returned, Rest
    <3>5. CASE h \notin {"OK", "ERR_COMMAND", "ERR_NOSPACE"}
      <4>1. y = Again(r, t, i)
        BY <3>5
      <4> QED
        BY <1>2, <4>1, BackReturned
    <3> QED
      BY <3>1, <3>2, <3>3, <3>4, <3>5
  <2> HIDE DEF y
  <2> QED
    BY <1>4, <2>1, <2>2, ReturnedSound
<1>5. CASE t \in UPLOAD
  <2> DEFINE y == IF h = "ERR_NETWORK" THEN Again(r, t, i) ELSE Dropped(r, t, i)
  <2>1. x = UpdateWork(y, t)
    <3>1. x = UploadDone(r, t, i, h)
      <4>1. t \notin ARTICLE
        BY <1>5, QueueAssumption
      <4>2. t \notin POST
        BY <1>5, QueueAssumption
      <4> QED
        BY <1>5, <4>1, <4>2 DEF PartDone
    <3>2. UploadDone(r, t, i, h) = Then(y, LAMBDA z : UpdateWork(z, t))
      BY Zenon DEF UploadDone
    <3> HIDE DEF y
    <3>3. Then(y, LAMBDA z : UpdateWork(z, t)) = UpdateWork(y, t)
      BY Zenon DEF Then
    <3> QED
      BY <3>1, <3>2, <3>3
  <2>2. Returned(r, y, t, i)
    <3>1. y = Again(r, t, i) \/ y = Dropped(r, t, i)
      OBVIOUS
    <3> HIDE DEF y
    <3> QED
      BY <1>2, <1>3, <3>1, BackReturned
  <2> HIDE DEF y
  <2> QED
    BY <1>5, <2>1, <2>2, ReturnedSound
<1>6. CASE t \in POST
  <2>1. t \notin ARTICLE /\ t \notin UPLOAD
    BY <1>6, QueueAssumption
  <2>2. PICK z : z = Again(r, t, i)
    OBVIOUS
  <2>3. PICK w \in Works : w = IF h = "OK" THEN "COMPLETED" ELSE "NEED_NNTP"
    BY DEF Works
  <2>4. PICK y : y = [z EXCEPT !.health[t] = h]
    OBVIOUS
  <2>5. x = [y EXCEPT !.work[t] = w]
    <3>1. x = PostDone(r, t, i, h)
      BY <1>6, <2>1 DEF PartDone
    <3> QED
      BY <2>2, <2>3, <2>4, <3>1 DEF PostDone
  <2>6. Back(r, z, t, i) /\ z \in QueueState /\ DOMAIN z.parts[t] = DOMAIN r.parts[t]
    BY <1>2, <2>2 DEF Back
  <2>7. HealthSet(z, y, t, h)
    BY <1>1, <2>4, <2>6, SetHealth
  <2>8. WorkSet(y, x, t, w)
    BY <1>1, <2>5, <2>7, SetWork DEF HealthSet
  <2>9. /\ x \in QueueState /\ Rest(r, x) /\ x.ran = r.ran /\ x.work[t] = w
        /\ x.parts = z.parts
        /\ \A u \in TASK \ {t} : /\ x.parts[u] = r.parts[u] /\ x.health[u] = r.health[u]
                                 /\ x.work[u] = r.work[u]
    BY <2>6, <2>7, <2>8 DEF Back, HealthSet, WorkSet, Rest
  <2>10. OnlyTask(r, x, t)
    BY <2>9, OwnFields
  <2>11. Lent(x, t) = Lent(r, t) \ {i}
    BY <2>6, <2>9, SameParts DEF Back
  <2>12. DOMAIN x.parts[t] = {1} /\ Lent(x, t) = {}
    <3>1. DOMAIN r.parts[t] = {1} /\ Lent(r, t) \subseteq DOMAIN r.parts[t]
      BY <1>1, <1>6, PartFacts DEF TaskSound, PostSound
    <3> QED
      BY <2>6, <2>9, <2>11, <3>1
  <2>13. \A c \in CODER : x.coder_task[c] # t
    <3>1. \A c \in CODER : r.coder_task[c] # t
      BY <1>1 DEF TaskSound, CoderSound, Holds
    <3> QED
      BY <2>9, <3>1 DEF Rest
  <2>14. TaskSound(x, t)
    BY <2>1, <2>3, <2>9, <2>12, <2>13 DEF TaskSound, CoderSound, PostSound, Holds
  <2> QED
    BY <2>9, <2>10, <2>11, <2>14 DEF Answered
<1> QED
  BY <1>1, <1>4, <1>5, <1>6 DEF TASK

----------------------------------------------------------------------------
(* What the main loop calls.                                               *)

\* A stopped task, or one being removed, got nothing.
Calm(r, x) ==
  \A t \in (r.stopped \cap x.stopped) \cup (r.removing \cap x.removing) : Got(r, x, t)

Quiet(r, x) == Calm(r, x) /\ (~r.is_online => Offline(r, x))

LEMMA KeepsQuiet ==
  ASSUME NEW r, NEW x, Keeps(r, x)
  PROVE  Quiet(r, x)
  BY DEF Keeps, Quiet, Calm, Barred

\* The entry's own change, and what it calls.
LEMMA QuietAfter ==
  ASSUME NEW r, NEW y \in QueueState, NEW x,
         \A v \in TASK : Lent(y, v) \subseteq Lent(r, v) /\ Coders(y, v) \subseteq Coders(r, v),
         r.removing \subseteq y.removing, Keeps(y, x)
  PROVE  /\ Calm(r, x)
         /\ y.is_online = r.is_online /\ y.pending = r.pending => Quiet(r, x)
<1>1. ASSUME NEW t \in (r.stopped \cap x.stopped) \cup (r.removing \cap x.removing)
      PROVE  Got(r, x, t)
  <2>1. t \in Barred(y) /\ t \in TASK
    BY DEF Keeps, Barred, QueueState
  <2>2. Got(y, x, t)
    BY <2>1 DEF Keeps
  <2> QED
    BY <2>1, <2>2 DEF Got
<1>2. ASSUME y.is_online = r.is_online, y.pending = r.pending, ~r.is_online
      PROVE  Offline(r, x)
  BY <1>2 DEF Keeps, Offline
<1> QED
  BY <1>1, <1>2 DEF Calm, Quiet

\* One task was changed, and then served.
LEMMA OnlyTaskServed ==
  ASSUME NEW r, Fine(r), NEW t \in Known(r), NEW y, OnlyTask(r, y, t), TaskSound(y, t),
         y.uploads = r.uploads, y.coder_task = r.coder_task
  PROVE  Sound(y) /\ Known(y) = Known(r) /\ \A v \in Known(y) \ {t} : Served(y, v)
<1>1. Slots(y) /\ Sound(r)
  BY DEF Fine, Sound, Slots
<1>2. Sound(y) /\ Known(y) = Known(r)
  BY <1>1, OnlyTaskSound DEF OnlyTask, Known
<1>3. ASSUME NEW v \in Known(y) \ {t} PROVE Served(y, v)
  <2>1. v \in TASK \ {t} /\ Served(r, v)
    BY <1>1, <1>2, KnownFacts DEF Fine
  <2>2. Same(r, y, v)
    BY <2>1 DEF OnlyTask
  <2>3. y.removing = r.removing /\ y.stopped = r.stopped
    BY DEF OnlyTask
  <2>4. Better(r, y, v, FALSE)
    BY <2>2, <2>3, SameBetter
  <2> QED
    BY <2>1, <2>4, Zenon DEF Better, Served
<1> QED
  BY <1>2, <1>3

LEMMA HasIsKnown ==
  ASSUME NEW r, Sound(r), NEW t \in TASK,
         task_is_active(r, t) \/ t \in r.stopped \cup r.removing \cup r.uploads
  PROVE  t \in Known(r)
<1> SUFFICES ASSUME t \notin Known(r) PROVE FALSE
  OBVIOUS
<1>1. Absent(r, t)
  BY DEF Sound, Each
<1>2. ~Holds(r, t) /\ ~HasCoder(r, t)
  BY <1>1 DEF Absent, Holds, Lent
<1> QED
  BY <1>1, <1>2 DEF Absent, task_is_active, HasCoder

LEMMA NntpDoneStep ==
  ASSUME Inv, NEW t \in TASK, NEW h \in Health, NntpDone(t, h)
  PROVE  /\ Inv' /\ Quiet(q, q')
         /\ t \in q.stopped \cup q.removing \/ ~q.is_online => Lent(q', t) # Lent(q, t)
<1>1. PICK i \in Lent(q, t) :
        /\ h \in {"ERR_NOSPACE", "ERR_LOCAL"} => t \in ARTICLE
        /\ q' = Then(PartDone(q, t, i, h), LAMBDA x :
                       CheckInNntp(x, t, q.parts[t][i].nntp, h))
  BY Zenon DEF NntpDone
<1>2. PICK y : y = PartDone(q, t, i, h)
  OBVIOUS
<1>3. PICK s : s = q.parts[t][i].nntp
  OBVIOUS
<1>4. q' = CheckInNntp(y, t, s, h)
  <2>1. \A z, u : Then(z, LAMBDA x : CheckInNntp(x, t, u, h)) = CheckInNntp(z, t, u, h)
    BY Zenon DEF Then
  <2>2. q' = CheckInNntp(PartDone(q, t, i, h), t, q.parts[t][i].nntp, h)
    BY <1>1, <2>1, Zenon
  <2> QED
    BY <1>2, <1>3, <2>2, Zenon
<1>5. Fine(q) /\ Sound(q) /\ q \in QueueState
  BY DEF Inv, Fine, Sound
<1>6. t \in Known(q)
  BY <1>5, HasIsKnown DEF task_is_active, Holds
<1>7. s \in SERVER
  <2>1. i \in DOMAIN q.parts[t] /\ s # None
    BY <1>3 DEF Lent
  <2> QED
    BY <1>3, <1>5, <2>1, PartFacts
<1>8. Answered(q, y, t, i)
  BY <1>1, <1>2, <1>5, <1>6, PartDoneIs
<1>9. /\ OnlyTask(q, y, t) /\ TaskSound(y, t) /\ Lent(y, t) = Lent(q, t) \ {i}
      /\ y.uploads = q.uploads /\ y.coder_task = q.coder_task
      /\ y.removing = q.removing /\ y.stopped = q.stopped
      /\ y.is_online = q.is_online /\ y.pending = q.pending
  BY <1>8 DEF Answered, Rest
<1>10. /\ Sound(y) /\ Known(y) = Known(q)
       /\ \A v \in Known(y) \ {t} : Served(y, v)
  BY <1>5, <1>6, <1>9, OnlyTaskServed
<1>11. PICK T \in SUBSET Known(y) : Goes(y, q', T \cup {t})
  BY <1>4, <1>6, <1>7, <1>10, CheckInServes
<1>12. Fine(q')
  <2>1. \A v \in Known(y) \ (T \cup {t}) : Served(y, v)
    BY <1>10
  <2> QED
    BY <1>11, <2>1, GoesFine
<1>13. Keeps(y, q')
  BY <1>11 DEF Goes
<1>14. \A v \in TASK : Lent(y, v) \subseteq Lent(q, v) /\ Coders(y, v) \subseteq Coders(q, v)
  <2>1. ASSUME NEW v PROVE Coders(y, v) \subseteq Coders(q, v)
    BY <1>9 DEF Coders
  <2>2. ASSUME NEW v \in TASK PROVE Lent(y, v) \subseteq Lent(q, v)
    <3>1. CASE v = t
      BY <1>9, <3>1
    <3>2. CASE v # t
      <4>1. Same(q, y, v)
        BY <1>9, <3>2 DEF OnlyTask
      <4> QED
        BY <4>1, SameTask
    <3> QED
      BY <3>1, <3>2
  <2> QED
    BY <2>1, <2>2
<1>15. Quiet(q, q')
  <2>1. y \in QueueState
    BY <1>9 DEF OnlyTask
  <2> QED
    BY <1>9, <1>13, <1>14, <2>1, QuietAfter
<1>16. ASSUME t \in q.stopped \cup q.removing \/ ~q.is_online
       PROVE  Lent(q', t) # Lent(q, t)
  <2>1. Lent(q', t) \subseteq Lent(y, t)
    BY <1>9, <1>13, <1>16 DEF Keeps, Barred, Got, Offline
  <2> QED
    BY <1>9, <2>1
<1> QED
  BY <1>12, <1>15, <1>16 DEF Inv

\* The coder c is free again, and t knows what became of its job.
JobEnded(r, y, t, c) ==
  /\ y \in QueueState
  /\ y.tasks = r.tasks /\ y.stopped = r.stopped /\ y.removing = r.removing
  /\ y.uploads = r.uploads /\ y.is_online = r.is_online
  /\ y.dangling = r.dangling /\ y.pending = r.pending
  /\ y.work = r.work
  /\ y.coder_task[c] = None /\ \A d \in CODER \ {c} : y.coder_task[d] = r.coder_task[d]
  /\ \A u \in TASK \ {t} : /\ y.parts[u] = r.parts[u] /\ y.health[u] = r.health[u]
                           /\ y.ran[u] = r.ran[u]
  /\ Lent(y, t) \subseteq Lent(r, t)
  /\ \/ y.health[t] = r.health[t] /\ y.parts[t] = r.parts[t]
     \/ y.health[t] = "OK"

FreeCoder(r, c) == [r EXCEPT !.coder_task[c] = None, !.cancelled[c] = FALSE]
Worked(r, t, result) ==
  [r EXCEPT !.ran[t] = TRUE, !.health[t] = "OK",
            !.parts[t] = IF result = "encoding" THEN <<>> ELSE @]

LEMMA FreeCoderIs ==
  ASSUME NEW r \in QueueState, NEW c \in CODER, NEW x, x = FreeCoder(r, c)
  PROVE  /\ x \in QueueState
         /\ x.tasks = r.tasks /\ x.stopped = r.stopped /\ x.removing = r.removing
         /\ x.uploads = r.uploads /\ x.is_online = r.is_online
         /\ x.dangling = r.dangling /\ x.pending = r.pending
         /\ x.work = r.work /\ x.health = r.health /\ x.ran = r.ran /\ x.parts = r.parts
         /\ x.coder_task[c] = None
         /\ \A d \in CODER \ {c} : x.coder_task[d] = r.coder_task[d]
<1>1. /\ r.coder_task \in [CODER -> TASK \cup {None}] /\ r.cancelled \in [CODER -> BOOLEAN]
      /\ None \in TASK \cup {None} /\ FALSE \in BOOLEAN
  BY DEF QueueState
<1>2. PICK k \in [CODER -> TASK \cup {None}] : Put(r.coder_task, k, c, None, CODER)
  BY <1>1, PutAt
<1>3. PICK d \in [CODER -> BOOLEAN] : Put(r.cancelled, d, c, FALSE, CODER)
  BY <1>1, PutAt
<1>4. x = [r EXCEPT !.coder_task = k, !.cancelled = d]
  BY <1>2, <1>3 DEF FreeCoder, Put
<1>5. /\ x \in QueueState /\ x.coder_task = k
      /\ x.tasks = r.tasks /\ x.stopped = r.stopped /\ x.removing = r.removing
      /\ x.uploads = r.uploads /\ x.is_online = r.is_online
      /\ x.dangling = r.dangling /\ x.pending = r.pending
      /\ x.work = r.work /\ x.health = r.health /\ x.ran = r.ran /\ x.parts = r.parts
  BY <1>4, ZenonT(60) DEF QueueState
<1> QED
  BY <1>2, <1>5 DEF Put

LEMMA WorkedIs ==
  ASSUME NEW r \in QueueState, NEW t \in TASK, NEW result, NEW x, x = Worked(r, t, result)
  PROVE  /\ x \in QueueState
         /\ x.tasks = r.tasks /\ x.stopped = r.stopped /\ x.removing = r.removing
         /\ x.uploads = r.uploads /\ x.is_online = r.is_online
         /\ x.dangling = r.dangling /\ x.pending = r.pending
         /\ x.work = r.work /\ x.coder_task = r.coder_task
         /\ \A u \in TASK \ {t} : /\ x.parts[u] = r.parts[u] /\ x.health[u] = r.health[u]
                                  /\ x.ran[u] = r.ran[u]
         /\ Lent(x, t) \subseteq Lent(r, t) /\ x.health[t] = "OK"
<1>1. PICK p \in Needed : p = IF result = "encoding" THEN <<>> ELSE r.parts[t]
  <2>1. <<>> \in [{} -> Part] /\ {} \in SUBSET (1..MaxParts)
    OBVIOUS
  <2>2. <<>> \in Needed
    BY <2>1 DEF Needed
  <2> QED
    BY <2>2, PartFacts
<1>2. /\ r.ran \in [TASK -> BOOLEAN] /\ r.health \in [TASK -> Health]
      /\ r.parts \in [TASK -> Needed] /\ TRUE \in BOOLEAN /\ "OK" \in Health
  BY DEF QueueState, Health
<1>3. PICK ran \in [TASK -> BOOLEAN] : Put(r.ran, ran, t, TRUE, TASK)
  BY <1>2, PutAt
<1>4. PICK health \in [TASK -> Health] : Put(r.health, health, t, "OK", TASK)
  BY <1>2, PutAt
<1>5. PICK parts \in [TASK -> Needed] : Put(r.parts, parts, t, p, TASK)
  BY <1>2, PutAt
<1>6. x = [r EXCEPT !.ran = ran, !.health = health, !.parts = parts]
  BY <1>1, <1>3, <1>4, <1>5 DEF Worked, Put
<1>7. /\ x \in QueueState /\ x.ran = ran /\ x.health = health /\ x.parts = parts
      /\ x.tasks = r.tasks /\ x.stopped = r.stopped /\ x.removing = r.removing
      /\ x.uploads = r.uploads /\ x.is_online = r.is_online
      /\ x.dangling = r.dangling /\ x.pending = r.pending
      /\ x.work = r.work /\ x.coder_task = r.coder_task
  BY <1>6, ZenonT(60) DEF QueueState
<1>8. Lent(x, t) \subseteq Lent(r, t)
  <2>1. x.parts[t] = p
    BY <1>5, <1>7 DEF Put
  <2>2. CASE result = "encoding"
    BY <1>1, <2>1, <2>2 DEF Lent
  <2>3. CASE result # "encoding"
    BY <1>1, <2>1, <2>3 DEF Lent
  <2> QED
    BY <2>2, <2>3
<1> QED
  BY <1>3, <1>4, <1>5, <1>7, <1>8 DEF Put

\* What its holder has when the coder has come back.
LEMMA JobEndedSound ==
  ASSUME NEW r, Sound(r), NEW t \in TASK, NEW c \in CODER, r.coder_task[c] = t,
         NEW y, JobEnded(r, y, t, c), NEW x, x = UpdateWork(y, t)
  PROVE  /\ OnlyTask(r, x, t) /\ TaskSound(x, t) /\ x.uploads = r.uploads
         /\ Lent(x, t) \subseteq Lent(r, t)
         /\ x.coder_task = y.coder_task
         /\ x.is_online = r.is_online /\ x.pending = r.pending
<1>1. t \in Known(r) /\ t # None /\ r \in QueueState /\ TaskSound(r, t)
  <2>1. t \in Known(r)
    BY HasIsKnown DEF task_is_active
  <2> QED
    BY <2>1, KnownFacts
<1>2. /\ c = CoderOf(t) /\ t \in SAVE \cup UPLOAD /\ ~Holds(r, t)
      /\ t \in SAVE => Waiting(r, t) = {}
      /\ HasCoder(r, t)
  BY <1>1 DEF TaskSound, CoderSound, HasCoder
<1>3. PICK w \in Works : /\ WorkSet(y, x, t, w)
                         /\ t \in ARTICLE => w = ArticleWork(y, t)
                         /\ t \in UPLOAD => w = UploadWork(y, t)
  BY UpdateWorkIs DEF Updated, JobEnded
<1>4. /\ x \in QueueState /\ x.work[t] = w
      /\ x.tasks = r.tasks /\ x.stopped = r.stopped /\ x.removing = r.removing
      /\ x.uploads = r.uploads /\ x.is_online = r.is_online
      /\ x.dangling = r.dangling /\ x.pending = r.pending
      /\ x.coder_task = y.coder_task /\ x.health = y.health /\ x.ran = y.ran
      /\ x.parts = y.parts
      /\ \A u \in TASK \ {t} : x.work[u] = r.work[u]
  BY <1>3 DEF WorkSet, Rest, JobEnded
<1>5. \A d \in CODER : x.coder_task[d] # t
  BY <1>1, <1>2, <1>4 DEF JobEnded, TaskSound, CoderSound
<1>6. ASSUME NEW u \in TASK \ {t} PROVE Same(r, x, u)
  <2>1. u # None
    BY QueueAssumption
  <2>2. \A d \in CODER : x.coder_task[d] = u <=> r.coder_task[d] = u
    BY <1>4, <2>1 DEF JobEnded
  <2> QED
    BY <1>4, <2>2 DEF Same, JobEnded
<1>7. OnlyTask(r, x, t)
  BY <1>4, <1>6 DEF OnlyTask
<1>8. /\ Lent(x, t) = Lent(y, t) /\ Waiting(x, t) = Waiting(y, t)
      /\ Servers(x, t) = Servers(y, t) /\ (Holds(x, t) <=> Holds(y, t))
  BY <1>4, SameParts
<1>9. ~Holds(x, t) /\ ~Holds(y, t)
  BY <1>2, <1>8 DEF JobEnded, Holds
<1>10. CoderSound(x, t) /\ ~HasCoder(x, t)
  BY <1>5 DEF CoderSound, HasCoder
<1>11. \A d \in CODER : y.coder_task[d] # t
  BY <1>4, <1>5
<1>12. t \in ARTICLE => ArticleSound(x, t)
  <2> SUFFICES ASSUME t \in ARTICLE PROVE ArticleSound(x, t)
    OBVIOUS
  <2>1. ArticleWork(x, t) = ArticleWork(y, t)
    BY <1>4, <1>5, <1>8, <1>11, CoderNames DEF ArticleWork
  <2>2. x.health[t] \notin Unwell
    <3>1. "OK" \notin Unwell
      BY DEF Unwell
    <3>2. r.health[t] \notin Unwell
      <4>1. t \in SAVE
        BY <1>2, QueueAssumption
      <4> QED
        BY <1>1, <1>2, <4>1 DEF TaskSound, ArticleSound
    <3> QED
      BY <1>4, <3>1, <3>2 DEF JobEnded
  <2> QED
    BY <1>3, <1>4, <2>1, <2>2 DEF ArticleSound
<1>13. t \in UPLOAD => UploadSound(x, t)
  <2> SUFFICES ASSUME t \in UPLOAD PROVE UploadSound(x, t)
    OBVIOUS
  <2>1. x.coder_task["encoder"] # t /\ y.coder_task["encoder"] # t
    BY <1>5, <1>11, CoderNames
  <2>2. UploadWork(x, t) = UploadWork(y, t)
    <3>1. CASE ~y.ran[t]
      BY <1>4, <2>1, <3>1 DEF UploadWork
    <3>2. CASE y.ran[t] /\ Waiting(y, t) = {}
      BY <1>4, <1>8, <1>9, <3>2 DEF UploadWork
    <3>3. CASE y.ran[t] /\ Waiting(y, t) # {}
      BY <1>4, <1>8, <1>9, <3>3 DEF UploadWork
    <3> QED
      BY <3>1, <3>2, <3>3
  <2>3. t \in x.uploads
    BY <1>1, <1>2, <1>4 DEF TaskSound, UploadSound
  <2>4. x.health[t] \notin Unwell
    <3>1. "OK" \notin Unwell
      BY DEF Unwell
    <3> QED
      BY <1>1, <1>4, <3>1 DEF JobEnded, TaskSound, UploadSound
  <2> QED
    BY <1>3, <1>4, <1>9, <2>2, <2>3, <2>4 DEF UploadSound
<1>14. t \notin POST
  BY <1>2, QueueAssumption DEF ARTICLE
<1>15. TaskSound(x, t)
  BY <1>10, <1>12, <1>13, <1>14 DEF TaskSound
<1>16. Lent(x, t) \subseteq Lent(r, t)
  BY <1>8 DEF JobEnded
<1> QED
  BY <1>4, <1>7, <1>15, <1>16

\* Its next task gets the coder, or nobody needs it.
LEMMA CheckInCoderServes ==
  ASSUME NEW r, Sound(r), NEW t \in Known(r), NEW c \in CODER,
         \A v \in Known(r) \ {t} : /\ Settled(r, v) /\ Slotted(r, v)
                                   /\ \A d \in CODER \ {c} : Coded(r, d, v),
         NEW x, x = CheckInCoder(r, c, t)
  PROVE  Fine(x) /\ Keeps(r, x)
<1>1. r \in QueueState
  BY DEF Sound
<1>2. PICK next : next = FirstNeedingCoder(r, c)
  OBVIOUS
<1>3. PICK y : y = IF next \in {None, t} THEN r ELSE ProcessTask(r, next)
  OBVIOUS
<1>4. x = ProcessTask(y, t)
  <2>1. x = Then(IF FirstNeedingCoder(r, c) \in {None, t} THEN r
                 ELSE ProcessTask(r, FirstNeedingCoder(r, c)),
                 LAMBDA u : ProcessTask(u, t))
    BY DEF CheckInCoder
  <2>2. (IF FirstNeedingCoder(r, c) \in {None, t} THEN r
         ELSE ProcessTask(r, FirstNeedingCoder(r, c))) = y
    BY <1>2, <1>3
  <2>3. x = Then(y, LAMBDA u : ProcessTask(u, t))
    BY <2>1, <2>2
  <2> QED
    BY <2>3, Zenon DEF Then
<1>5. /\ next # None => next \in Known(r) /\ r.work[next] = Needs(c) /\ Unhindered(r, next)
      /\ next = None => \A v \in Known(r) : Unhindered(r, v) => r.work[v] # Needs(c)
  BY <1>1, <1>2, FirstCoderIs
<1>6. PICK T \in SUBSET Known(r) :
        /\ Goes(r, x, T)
        /\ \/ x.coder_task[c] # None
           \/ next = None
        /\ t \in T
  <2>1. CASE next \in {None, t}
    <3>1. y = r
      BY <1>3, <2>1
    <3>2. /\ Goes(r, x, {t})
          /\ \A d \in CODER :
               Unhindered(r, t) /\ r.work[t] = Needs(d) => x.coder_task[d] # None
      BY <1>4, <3>1, ProcessTaskServes
    <3>3. next = None \/ x.coder_task[c] # None
      BY <1>5, <2>1, <3>2
    <3>4. {t} \in SUBSET Known(r) /\ t \in {t}
      OBVIOUS
    <3> QED
      BY <3>2, <3>3, <3>4
  <2>2. CASE next \notin {None, t}
    <3>1. y = ProcessTask(r, next) /\ next \in Known(r) /\ next # t
      BY <1>3, <1>5, <2>2
    <3>2. Goes(r, y, {next}) /\ y.coder_task[c] # None
      BY <1>5, <2>2, <3>1, ProcessTaskServes
    <3>3. Sound(y) /\ t \in Known(y)
      BY <3>1, <3>2 DEF Goes, Progress
    <3>4. Goes(y, x, {t})
      BY <1>4, <3>3, ProcessTaskServes
    <3>5. Goes(r, x, {next} \cup {t})
      BY <1>1, <3>2, <3>4, GoesTrans
    <3>6. x.coder_task[c] # None
      BY <3>2, <3>4 DEF Goes, Progress
    <3>7. {next} \cup {t} \in SUBSET Known(r) /\ t \in {next} \cup {t}
      BY <3>1
    <3> QED
      BY <3>5, <3>6, <3>7
  <2> QED
    BY <2>1, <2>2
<1>7. ASSUME NEW v \in Known(x) PROVE Served(x, v)
  <2>1. Better(r, x, v, v \in T) /\ v \in Known(r)
    BY <1>6 DEF Goes, Progress
  <2>2. CASE v \in T
    BY <2>1, <2>2, Zenon DEF Better, Served
  <2>3. CASE v \notin T
    <3>1. /\ Settled(r, v) /\ Slotted(r, v) /\ \A d \in CODER \ {c} : Coded(r, d, v)
      BY <1>6, <2>1, <2>3
    <3>2. /\ Settled(r, v) => Settled(x, v)
          /\ Slotted(r, v) => Slotted(x, v)
          /\ \A d \in CODER : Coded(r, d, v) => Coded(x, d, v)
      BY <2>1, <2>3, Zenon DEF Better
    <3>3. Coded(x, c, v)
      <4>1. CASE x.coder_task[c] # None
        BY <4>1 DEF Coded
      <4>2. CASE next = None
        <5>1. Coded(r, c, v)
          BY <1>5, <2>1, <4>2 DEF Coded
        <5> QED
          BY <3>2, <5>1
      <4> QED
        BY <1>6, <4>1, <4>2
    <3> QED
      BY <3>1, <3>2, <3>3 DEF Served
  <2> QED
    BY <2>2, <2>3
<1> QED
  BY <1>6, <1>7 DEF Fine, Goes

LEMMA CoderDoneStep ==
  ASSUME Inv, NEW c \in CODER, NEW result, CoderDone(c, result)
  PROVE  Inv' /\ Quiet(q, q')
<1>1. Fine(q) /\ Sound(q) /\ q \in QueueState
  BY DEF Inv, Fine, Sound
<1>2. PICK t \in TASK : t = q.coder_task[c]
  BY <1>1 DEF CoderDone, QueueState
<1>3. PICK free : free = FreeCoder(q, c)
  OBVIOUS
<1>4. PICK y : y = IF q.cancelled[c] THEN free ELSE Worked(free, t, result)
  OBVIOUS
<1>5. PICK z : z = UpdateWork(y, t)
  OBVIOUS
<1>6. q' = CheckInCoder(z, c, t)
  <2>1. \A v, u : Then(v, LAMBDA x : CheckInCoder(x, c, u)) = CheckInCoder(v, c, u)
    BY Zenon DEF Then
  <2>2. q' = CheckInCoder(UpdateWork(IF q.cancelled[c] THEN FreeCoder(q, c)
                            ELSE Worked(FreeCoder(q, c), q.coder_task[c], result),
                            q.coder_task[c]), c, q.coder_task[c])
    BY <2>1, Zenon DEF CoderDone, FreeCoder, Worked
  <2> QED
    BY <1>2, <1>3, <1>4, <1>5, <2>2
<1>7. t \in Known(q)
  BY <1>1, <1>2, HasIsKnown DEF task_is_active
<1>8. JobEnded(q, y, t, c)
  <2>1. /\ free \in QueueState
        /\ free.tasks = q.tasks /\ free.stopped = q.stopped /\ free.removing = q.removing
        /\ free.uploads = q.uploads /\ free.is_online = q.is_online
        /\ free.dangling = q.dangling /\ free.pending = q.pending
        /\ free.work = q.work /\ free.health = q.health /\ free.ran = q.ran
        /\ free.parts = q.parts
        /\ free.coder_task[c] = None
        /\ \A d \in CODER \ {c} : free.coder_task[d] = q.coder_task[d]
    BY <1>1, <1>3, FreeCoderIs
  <2>2. Lent(free, t) = Lent(q, t)
    BY <2>1 DEF Lent
  <2>3. CASE q.cancelled[c]
    <3>1. y = free
      BY <1>4, <2>3
    <3> QED
      BY <2>1, <2>2, <3>1 DEF JobEnded
  <2>4. CASE ~q.cancelled[c]
    <3>1. y = Worked(free, t, result)
      BY <1>4, <2>4
    <3>2. /\ y \in QueueState
          /\ y.tasks = free.tasks /\ y.stopped = free.stopped /\ y.removing = free.removing
          /\ y.uploads = free.uploads /\ y.is_online = free.is_online
          /\ y.dangling = free.dangling /\ y.pending = free.pending
          /\ y.work = free.work /\ y.coder_task = free.coder_task
          /\ \A u \in TASK \ {t} : /\ y.parts[u] = free.parts[u]
                                   /\ y.health[u] = free.health[u]
                                   /\ y.ran[u] = free.ran[u]
          /\ Lent(y, t) \subseteq Lent(free, t) /\ y.health[t] = "OK"
      BY <2>1, <3>1, WorkedIs
    <3> QED
      BY <2>1, <2>2, <3>2 DEF JobEnded
  <2> QED
    BY <2>3, <2>4
<1>9. /\ OnlyTask(q, z, t) /\ TaskSound(z, t) /\ z.uploads = q.uploads
      /\ Lent(z, t) \subseteq Lent(q, t)
      /\ z.coder_task = y.coder_task
      /\ z.is_online = q.is_online /\ z.pending = q.pending
  BY <1>1, <1>2, <1>5, <1>8, JobEndedSound
<1>10. Sound(z) /\ Known(z) = Known(q)
  <2>1. Slots(z)
    BY <1>1, <1>9 DEF Sound, Slots
  <2> QED
    BY <1>1, <1>7, <1>9, <2>1, OnlyTaskSound DEF OnlyTask, Known
<1>11. ASSUME NEW v \in Known(z) \ {t}
       PROVE  /\ Settled(z, v) /\ Slotted(z, v)
              /\ \A d \in CODER \ {c} : Coded(z, d, v)
  <2>1. v \in TASK \ {t} /\ Served(q, v)
    BY <1>1, <1>10, KnownFacts DEF Fine
  <2>2. Same(q, z, v) /\ z.removing = q.removing /\ z.stopped = q.stopped
    BY <1>9, <2>1 DEF OnlyTask
  <2>3. z.work[v] = q.work[v] /\ (task_is_active(z, v) <=> task_is_active(q, v))
    BY <2>2, SameTask DEF Same
  <2>4. \A d \in CODER \ {c} : z.coder_task[d] = q.coder_task[d]
    BY <1>8, <1>9 DEF JobEnded
  <2> QED
    BY <1>9, <2>1, <2>2, <2>3, <2>4 DEF Served, Settled, Slotted, Coded, Unhindered
<1>12. Fine(q') /\ Keeps(z, q')
  BY <1>6, <1>7, <1>10, <1>11, CheckInCoderServes
<1>13. ASSUME NEW v \in TASK
       PROVE  Lent(z, v) \subseteq Lent(q, v) /\ Coders(z, v) \subseteq Coders(q, v)
  <2>1. CASE v = t
    <3>1. v # None
      BY QueueAssumption
    <3>2. Coders(z, v) \subseteq Coders(q, v)
      BY <1>8, <1>9, <3>1 DEF Coders, JobEnded
    <3> QED
      BY <1>9, <2>1, <3>2
  <2>2. CASE v # t
    <3>1. Same(q, z, v)
      BY <1>9, <2>2 DEF OnlyTask
    <3> QED
      BY <3>1, SameTask
  <2> QED
    BY <2>1, <2>2
<1>14. Quiet(q, q')
  <2>1. z \in QueueState /\ z.removing = q.removing
    BY <1>9 DEF OnlyTask
  <2> QED
    BY <1>9, <1>12, <1>13, <2>1, QuietAfter
<1> QED
  BY <1>12, <1>14 DEF Inv

\* The user stops or restarts t.
LEMMA StoppedServes ==
  ASSUME Inv, NEW t \in Known(q), NEW S, S \in SUBSET TASK, S \ {t} = q.stopped \ {t},
         NEW y, y = [q EXCEPT !.stopped = S], q' = ProcessTask(y, t)
  PROVE  Inv' /\ Quiet(q, q')
<1>1. Fine(q) /\ Sound(q) /\ q \in QueueState /\ t \in TASK
  BY KnownFacts DEF Inv, Fine, Sound
<1>2. /\ y \in QueueState /\ y.stopped = S
      /\ y.tasks = q.tasks /\ y.removing = q.removing
      /\ y.uploads = q.uploads /\ y.is_online = q.is_online
      /\ y.dangling = q.dangling /\ y.pending = q.pending /\ y.coder_task = q.coder_task
      /\ y.work = q.work /\ y.health = q.health /\ y.ran = q.ran /\ y.parts = q.parts
  BY <1>1 DEF QueueState
<1>3. Known(y) = Known(q)
  BY <1>2 DEF Known
<1>4. \A v : Same(q, y, v)
  BY <1>2 DEF Same
<1>5. ASSUME NEW v \in TASK PROVE Each(y, v)
  <2>1. Each(q, v) /\ Same(q, y, v)
    BY <1>1, <1>4 DEF Sound
  <2>2. CASE v \in Known(q)
    BY <1>2, <1>3, <2>1, <2>2, SameSound DEF Each
  <2>3. CASE v \notin Known(q)
    <3>1. Absent(q, v) /\ v # t
      BY <2>1, <2>3 DEF Each
    <3>2. v \notin y.stopped
      BY <1>2, <3>1 DEF Absent
    <3>3. Absent(y, v)
      BY <1>2, <3>1, <3>2 DEF Absent, HasCoder
    <3> QED
      BY <1>3, <2>3, <3>3 DEF Each
  <2> QED
    BY <2>2, <2>3
<1>6. Sound(y)
  BY <1>1, <1>2, <1>5 DEF Sound, Slots
<1>7. ASSUME NEW v \in Known(y) \ {t} PROVE Served(y, v)
  <2>1. Served(q, v) /\ (v \in y.stopped <=> v \in q.stopped)
    BY <1>1, <1>2, <1>3 DEF Fine
  <2>2. Better(q, y, v, FALSE)
    BY <1>2, <1>4, <2>1, SameBetter
  <2> QED
    BY <2>1, <2>2, Zenon DEF Better, Served
<1>8. Goes(y, q', {t})
  BY <1>3, <1>6, ProcessTaskServes
<1>9. Fine(q')
  BY <1>7, <1>8, GoesFine
<1>10. \A v \in TASK : Lent(y, v) \subseteq Lent(q, v) /\ Coders(y, v) \subseteq Coders(q, v)
  BY <1>4, SameTask
<1>11. Quiet(q, q')
  BY <1>2, <1>8, <1>10, QuietAfter DEF Goes
<1> QED
  BY <1>9, <1>11 DEF Inv

LEMMA StopStep ==
  ASSUME Inv, NEW t \in TASK, StopTasks(t) \/ RestartTasks(t)
  PROVE  Inv' /\ Quiet(q, q')
<1>1. Sound(q) /\ q \in QueueState /\ q.stopped \subseteq TASK
  BY DEF Inv, Fine, Sound, QueueState
<1>2. Contains(q.tasks, t)
  BY DEF StopTasks, RestartTasks
<1>3. t \in Known(q)
  BY <1>1, <1>2, KnownIs
<1>4. \A z : Then(z, LAMBDA x : ProcessTask(x, t)) = ProcessTask(z, t)
  BY Zenon DEF Then
<1>5. CASE StopTasks(t)
  <2>1. q' = Then([q EXCEPT !.stopped = @ \cup {t}], LAMBDA x : ProcessTask(x, t))
    BY <1>5 DEF StopTasks
  <2>2. q' = ProcessTask([q EXCEPT !.stopped = q.stopped \cup {t}], t)
    BY <1>4, <2>1, Zenon
  <2>3. PICK S \in SUBSET TASK : S = q.stopped \cup {t}
    BY <1>1
  <2>4. S \ {t} = q.stopped \ {t}
    BY <2>3
  <2>5. PICK y : y = [q EXCEPT !.stopped = S]
    OBVIOUS
  <2>6. q' = ProcessTask(y, t)
    BY <2>2, <2>3, <2>5
  <2> QED
    BY <1>3, <2>4, <2>5, <2>6, StoppedServes
<1>6. CASE RestartTasks(t)
  <2>1. q' = Then([q EXCEPT !.stopped = @ \ {t}], LAMBDA x : ProcessTask(x, t))
    BY <1>6 DEF RestartTasks
  <2>2. q' = ProcessTask([q EXCEPT !.stopped = q.stopped \ {t}], t)
    BY <1>4, <2>1, Zenon
  <2>3. PICK S \in SUBSET TASK : S = q.stopped \ {t}
    BY <1>1
  <2>4. S \ {t} = q.stopped \ {t}
    BY <2>3
  <2>5. PICK y : y = [q EXCEPT !.stopped = S]
    OBVIOUS
  <2>6. q' = ProcessTask(y, t)
    BY <2>2, <2>3, <2>5
  <2> QED
    BY <1>3, <2>4, <2>5, <2>6, StoppedServes
<1> QED
  BY <1>5, <1>6

LEMMA RemoveStep ==
  ASSUME Inv, NEW t \in TASK, RemoveTasks(t)
  PROVE  Inv' /\ Quiet(q, q')
<1>1. Fine(q) /\ Sound(q) /\ t \in Known(q) /\ q' = RemoveTask(q, t)
  BY KnownIs DEF Inv, Fine, RemoveTasks
<1>2. Goes(q, q', {t})
  BY <1>1, RemoveTaskServes
<1>3. \A v \in Known(q) \ {t} : Served(q, v)
  BY <1>1 DEF Fine
<1> QED
  BY <1>2, <1>3, GoesFine, KeepsQuiet DEF Goes, Inv

\* A task changes its place in the queue.
LEMMA MoveStep ==
  ASSUME Inv, NEW i \in DOMAIN q.tasks, MoveTasks(i)
  PROVE  Inv' /\ Quiet(q, q')
<1>1. Fine(q) /\ Sound(q) /\ q \in QueueState /\ q.tasks \in Seq(TASK) /\ Distinct(q.tasks)
  BY DEF Inv, Fine, Sound, QueueState
<1>2. PICK pos \in 1..Len(q.tasks) :
        q' = [q EXCEPT !.tasks = InsertAt(RemoveAt(@, i), pos, @[i])]
  BY DEF MoveTasks
<1>3. PICK t \in TASK : t = q.tasks[i] /\ t \in ToSet(q.tasks)
  BY <1>1 DEF ToSet
<1>4. PICK rest \in Seq(TASK) :
        /\ rest = RemoveAt(q.tasks, i) /\ Distinct(rest) /\ Len(rest) + 1 = Len(q.tasks)
        /\ ToSet(rest) = ToSet(q.tasks) \ {t}
  BY <1>1, <1>3, Removed
<1>5. PICK tasks \in Seq(TASK) :
        /\ tasks = InsertAt(rest, pos, t) /\ Distinct(tasks)
        /\ ToSet(tasks) = ToSet(rest) \cup {t}
  <2>1. t \notin ToSet(rest) /\ pos \in 1..(Len(rest) + 1)
    BY <1>4
  <2> QED
    BY <1>4, <2>1, Inserted
<1>6. q' = [q EXCEPT !.tasks = tasks]
  BY <1>2, <1>3, <1>4, <1>5
<1>7. PICK x : x = q'
  OBVIOUS
<1>8. /\ x \in QueueState /\ x.tasks = tasks
      /\ x.stopped = q.stopped /\ x.removing = q.removing
      /\ x.uploads = q.uploads /\ x.is_online = q.is_online
      /\ x.dangling = q.dangling /\ x.pending = q.pending /\ x.coder_task = q.coder_task
      /\ x.work = q.work /\ x.health = q.health /\ x.ran = q.ran /\ x.parts = q.parts
  BY <1>1, <1>6, <1>7 DEF QueueState
<1>9. Known(x) = Known(q)
  BY <1>3, <1>4, <1>5, <1>8 DEF Known
<1>10. \A v : Same(q, x, v)
  BY <1>8 DEF Same
<1>11. ASSUME NEW v \in TASK PROVE Each(x, v)
  <2>1. Each(q, v) /\ Same(q, x, v)
    BY <1>1, <1>10 DEF Sound
  <2>2. CASE v \in Known(q)
    BY <1>8, <1>9, <2>1, <2>2, SameSound DEF Each
  <2>3. CASE v \notin Known(q)
    BY <1>8, <1>9, <2>1, <2>3, SameAbsent DEF Each
  <2> QED
    BY <2>2, <2>3
<1>12. Sound(x)
  BY <1>1, <1>5, <1>8, <1>11 DEF Sound, Slots
<1>13. ASSUME NEW v \in Known(x) PROVE Served(x, v)
  <2>1. Served(q, v) /\ Better(q, x, v, FALSE)
    BY <1>1, <1>8, <1>9, <1>10, SameBetter DEF Fine
  <2> QED
    BY <2>1, Zenon DEF Better, Served
<1>14. Keeps(q, x)
  <2>1. Barred(x) = Barred(q)
    BY <1>8, <1>9 DEF Barred
  <2>2. \A v : Lent(x, v) = Lent(q, v) /\ Coders(x, v) = Coders(q, v)
    BY <1>10, SameTask
  <2>3. \A s \in SERVER : x.pending[s] <= q.pending[s]
    BY <1>1, <1>8 DEF QueueState
  <2> QED
    BY <1>8, <2>1, <2>2, <2>3 DEF Keeps, Got, Offline
<1> QED
  BY <1>7, <1>12, <1>13, <1>14, KeepsQuiet DEF Inv, Fine

LEMMA AddStep ==
  ASSUME Inv, NEW t \in TASK, AddTask(t)
  PROVE  Inv' /\ Quiet(q, q')
<1>1. Fine(q) /\ Sound(q) /\ q \in QueueState /\ q.tasks \in Seq(TASK) /\ Distinct(q.tasks)
  BY DEF Inv, Fine, Sound, QueueState
<1> DEFINE part == [xref |-> ServersOf[t], nntp |-> None]
<1>2. PICK count \in 0..MaxParts, pos \in 1..Len(q.tasks) + 1, paused \in BOOLEAN :
        /\ ~Contains(q.tasks, t)
        /\ t \notin ARTICLE => count > 0
        /\ t \in POST => count = 1
        /\ q' = Then([NewTask(q, t, [i \in 1..count |-> part], paused)
                        EXCEPT !.tasks = InsertAt(@, pos, t)],
                     LAMBDA x : ProcessTask(x, t))
  BY Zenon DEF AddTask
<1>3. PICK p \in Needed : /\ p = [i \in 1..count |-> part]
                          /\ DOMAIN p = 1..count /\ \A i \in DOMAIN p : p[i].nntp = None
  <2>1. part \in Part
    BY QueueAssumption DEF Part
  <2>2. part.nntp = None
    OBVIOUS
  <2> HIDE DEF part
  <2>3. [i \in 1..count |-> part] \in [1..count -> Part]
    BY <2>1
  <2>4. 1..count \in SUBSET (1..MaxParts)
    BY QueueAssumption
  <2>5. [i \in 1..count |-> part] \in Needed
    BY <2>3, <2>4 DEF Needed
  <2> QED
    BY <2>2, <2>5
<1>4. PICK S \in SUBSET TASK : S = IF paused THEN q.stopped \cup {t} ELSE q.stopped
  BY <1>1 DEF QueueState
<1>5. PICK fresh : fresh = [q EXCEPT !.parts[t] = p, !.stopped = S]
  OBVIOUS
<1>6. PICK new : new = NewTask(q, t, p, paused)
  OBVIOUS
<1>7. PICK y : y = [new EXCEPT !.tasks = InsertAt(@, pos, t)]
  OBVIOUS
<1>8. q' = ProcessTask(y, t)
  <2>1. \A z : Then(z, LAMBDA x : ProcessTask(x, t)) = ProcessTask(z, t)
    BY Zenon DEF Then
  <2> HIDE DEF part
  <2>2. q' = ProcessTask([NewTask(q, t, [i \in 1..count |-> part], paused)
                            EXCEPT !.tasks = InsertAt(@, pos, t)], t)
    BY <1>2, <2>1, Zenon
  <2> QED
    BY <1>3, <1>6, <1>7, <2>2
<1> HIDE DEF part
<1>9. t \notin Known(q) /\ Absent(q, t)
  <2>1. t \notin Known(q)
    BY <1>1, <1>2, KnownIs
  <2> QED
    BY <1>1, <2>1 DEF Sound, Each
<1>10. /\ fresh \in QueueState /\ fresh.parts[t] = p /\ fresh.stopped = S
       /\ fresh.tasks = q.tasks /\ fresh.removing = q.removing
       /\ fresh.uploads = q.uploads /\ fresh.is_online = q.is_online
       /\ fresh.dangling = q.dangling /\ fresh.pending = q.pending
       /\ fresh.coder_task = q.coder_task
       /\ fresh.work = q.work /\ fresh.health = q.health /\ fresh.ran = q.ran
       /\ \A u \in TASK \ {t} : fresh.parts[u] = q.parts[u]
  <2>1. PICK parts \in [TASK -> Needed] : Put(q.parts, parts, t, p, TASK)
    <3>1. q.parts \in [TASK -> Needed]
      BY <1>1 DEF QueueState
    <3> QED
      BY <3>1, PutAt
  <2>2. fresh = [q EXCEPT !.parts = parts, !.stopped = S]
    BY <1>5, <2>1 DEF Put
  <2>3. /\ fresh \in QueueState /\ fresh.parts = parts /\ fresh.stopped = S
        /\ fresh.tasks = q.tasks /\ fresh.removing = q.removing
        /\ fresh.uploads = q.uploads /\ fresh.is_online = q.is_online
        /\ fresh.dangling = q.dangling /\ fresh.pending = q.pending
        /\ fresh.coder_task = q.coder_task
        /\ fresh.work = q.work /\ fresh.health = q.health /\ fresh.ran = q.ran
    BY <1>1, <2>2 DEF QueueState
  <2> QED
    BY <2>1, <2>3 DEF Put
<1>11. PICK w \in Works : /\ WorkSet(fresh, new, t, w)
                          /\ t \in ARTICLE => w = ArticleWork(fresh, t)
                          /\ t \in UPLOAD => w = "INITIAL"
                          /\ t \in POST => w = "NEED_NNTP"
  <2>1. /\ t \in ARTICLE => t \notin UPLOAD /\ t \notin POST
        /\ t \in UPLOAD => t \notin ARTICLE /\ t \notin POST
        /\ t \in POST => t \notin ARTICLE /\ t \notin UPLOAD
    BY QueueAssumption
  <2>2. /\ t \in ARTICLE => new = UpdateWork(fresh, t)
        /\ t \in UPLOAD => new = [fresh EXCEPT !.work[t] = "INITIAL"]
        /\ t \in POST => new = [fresh EXCEPT !.work[t] = "NEED_NNTP"]
    <3>1. PICK f : f = [q EXCEPT !.parts[t] = p,
                                 !.stopped = IF paused THEN @ \cup {t} ELSE @]
      OBVIOUS
    <3>2. f = fresh
      BY <1>4, <1>5, <3>1
    <3>3. new = CASE t \in ARTICLE -> UpdateWork(f, t)
                  [] t \in UPLOAD  -> [f EXCEPT !.work[t] = "INITIAL"]
                  [] t \in POST    -> [f EXCEPT !.work[t] = "NEED_NNTP"]
      BY <1>6, <3>1 DEF NewTask
    <3> QED
      BY <2>1, <3>2, <3>3
  <2>3. CASE t \in ARTICLE
    <3>1. Updated(fresh, new, t)
      BY <1>10, <2>2, <2>3, UpdateWorkIs
    <3> QED
      BY <2>1, <2>3, <3>1 DEF Updated
  <2>4. CASE t \in UPLOAD
    <3>1. "INITIAL" \in Works
      BY DEF Works
    <3>2. WorkSet(fresh, new, t, "INITIAL")
      BY <1>10, <2>2, <2>4, <3>1, SetWork
    <3> QED
      BY <2>1, <2>4, <3>1, <3>2
  <2>5. CASE t \in POST
    <3>1. "NEED_NNTP" \in Works
      BY DEF Works
    <3>2. WorkSet(fresh, new, t, "NEED_NNTP")
      BY <1>10, <2>2, <2>5, <3>1, SetWork
    <3> QED
      BY <2>1, <2>5, <3>1, <3>2
  <2> QED
    BY <2>3, <2>4, <2>5 DEF TASK
<1>12. PICK tasks \in Seq(TASK) :
         /\ tasks = InsertAt(q.tasks, pos, t) /\ Distinct(tasks)
         /\ ToSet(tasks) = ToSet(q.tasks) \cup {t}
  BY <1>1, <1>9, Inserted DEF Known
<1>13. /\ new \in QueueState /\ new.work[t] = w
       /\ \A u \in TASK \ {t} : new.work[u] = q.work[u]
       /\ new.parts = fresh.parts /\ new.stopped = S
       /\ new.tasks = q.tasks /\ new.removing = q.removing
       /\ new.uploads = q.uploads /\ new.is_online = q.is_online
       /\ new.dangling = q.dangling /\ new.pending = q.pending
       /\ new.coder_task = q.coder_task
       /\ new.health = q.health /\ new.ran = q.ran
  BY <1>10, <1>11 DEF WorkSet, Rest
<1>14. y = [new EXCEPT !.tasks = tasks]
  BY <1>7, <1>12, <1>13
<1>15. /\ y \in QueueState /\ y.tasks = tasks /\ y.work = new.work
       /\ y.parts = fresh.parts /\ y.stopped = S /\ y.removing = q.removing
       /\ y.uploads = q.uploads /\ y.is_online = q.is_online
       /\ y.dangling = q.dangling /\ y.pending = q.pending
       /\ y.coder_task = q.coder_task
       /\ y.health = q.health /\ y.ran = q.ran
  BY <1>13, <1>14 DEF QueueState
<1>16. Known(y) = Known(q) \cup {t}
  BY <1>12, <1>15 DEF Known
<1>17. \A v \in TASK \ {t} : Same(q, y, v)
  BY <1>10, <1>13, <1>15 DEF Same
<1>18. Lent(fresh, t) = {} /\ Lent(y, t) = {}
  BY <1>3, <1>10, <1>15 DEF Lent
<1>19. TaskSound(y, t)
  <2>1. /\ q.health[t] = "OK" /\ ~q.ran[t] /\ ~HasCoder(q, t)
        /\ t \notin q.removing \cup q.uploads
    BY <1>9 DEF Absent
  <2>2. ~HasCoder(y, t) /\ \A c \in CODER : y.coder_task[c] # t /\ fresh.coder_task[c] # t
    BY <1>10, <1>15, <2>1 DEF HasCoder
  <2>3. CoderSound(y, t)
    BY <2>2 DEF CoderSound
  <2>4. "OK" \notin Unwell
    BY DEF Unwell
  <2>5. t \in ARTICLE => ArticleSound(y, t)
    <3> SUFFICES ASSUME t \in ARTICLE PROVE ArticleSound(y, t)
      OBVIOUS
    <3>1. /\ Waiting(y, t) = Waiting(fresh, t) /\ Servers(y, t) = Servers(fresh, t)
          /\ (Holds(y, t) <=> Holds(fresh, t))
      BY <1>15, SameParts
    <3>2. ArticleWork(y, t) = ArticleWork(fresh, t)
      BY <1>10, <1>15, <2>2, <3>1, CoderNames DEF ArticleWork
    <3> QED
      BY <1>11, <1>13, <1>15, <2>1, <2>4, <3>2 DEF ArticleSound
  <2>6. t \in UPLOAD => UploadSound(y, t)
    BY <1>11, <1>13, <1>15, <1>18, <2>1, <2>2, <2>4 DEF UploadSound, Holds
  <2>7. t \in POST => PostSound(y, t)
    <3> SUFFICES ASSUME t \in POST PROVE PostSound(y, t)
      OBVIOUS
    <3>1. DOMAIN y.parts[t] = {1}
      BY <1>2, <1>3, <1>10, <1>15
    <3> QED
      BY <1>11, <1>13, <1>15, <1>18, <3>1 DEF PostSound, Holds
  <2> QED
    BY <2>3, <2>5, <2>6, <2>7 DEF TaskSound
<1>20. ASSUME NEW v \in TASK PROVE Each(y, v)
  <2>1. CASE v = t
    BY <1>16, <1>19, <2>1 DEF Each
  <2>2. CASE v # t
    <3>1. Each(q, v) /\ Same(q, y, v) /\ (v \in y.stopped <=> v \in q.stopped)
      BY <1>1, <1>4, <1>15, <1>17, <2>2 DEF Sound
    <3>2. CASE v \in Known(q)
      <4>1. TaskSound(y, v)
        BY <1>15, <3>1, <3>2, SameSound DEF Each
      <4> QED
        BY <1>16, <3>2, <4>1 DEF Each
    <3>3. CASE v \notin Known(q)
      <4>1. Absent(q, v)
        BY <3>1, <3>3 DEF Each
      <4>2. (HasCoder(y, v) <=> HasCoder(q, v)) /\ y.removing = q.removing
        BY <1>15, <3>1, SameTask
      <4>3. Absent(y, v)
        BY <3>1, <4>1, <4>2 DEF Absent, Same
      <4> QED
        BY <1>16, <2>2, <3>3, <4>3 DEF Each
    <3> QED
      BY <3>2, <3>3
  <2> QED
    BY <2>1, <2>2
<1>21. Sound(y)
  BY <1>1, <1>12, <1>15, <1>20 DEF Sound, Slots
<1>22. ASSUME NEW v \in Known(y) \ {t} PROVE Served(y, v)
  <2>1. v \in TASK \ {t} /\ Served(q, v)
    BY <1>1, <1>16, KnownFacts DEF Fine
  <2>2. Same(q, y, v) /\ (v \in y.stopped <=> v \in q.stopped)
    BY <1>4, <1>15, <1>17, <2>1
  <2>3. Better(q, y, v, FALSE)
    BY <1>15, <2>2, SameBetter
  <2> QED
    BY <2>1, <2>3, Zenon DEF Better, Served
<1>23. Goes(y, q', {t})
  BY <1>8, <1>16, <1>21, ProcessTaskServes
<1>24. Fine(q')
  BY <1>22, <1>23, GoesFine
<1>25. ASSUME NEW v \in TASK
       PROVE  Lent(y, v) \subseteq Lent(q, v) /\ Coders(y, v) \subseteq Coders(q, v)
  <2>1. CASE v = t
    BY <1>15, <1>18, <2>1 DEF Coders
  <2>2. CASE v # t
    BY <1>17, <2>2, SameTask
  <2> QED
    BY <2>1, <2>2
<1>26. Quiet(q, q')
  BY <1>15, <1>23, <1>25, QuietAfter DEF Goes
<1> QED
  BY <1>24, <1>26 DEF Inv

----------------------------------------------------------------------------
(* upkeep.                                                                 *)

\* Some were served, all are, and nobody left the queue.
Kept(r, x) == Fine(x) /\ Keeps(r, x) /\ x.tasks = r.tasks

LEMMA KeptFacts ==
  ASSUME NEW r \in QueueState, NEW x, Kept(r, x), NEW t \in Known(r)
  PROVE  /\ Sound(x) /\ x \in QueueState /\ t \in Known(x) /\ Settled(x, t)
         /\ \A v \in Known(x) : Served(x, v)
  BY DEF Kept, Fine, Sound, Known, Served

LEMMA KeptGoes ==
  ASSUME NEW r \in QueueState, NEW x, Kept(r, x), NEW T, NEW y, Goes(x, y, T),
         y.tasks = x.tasks
  PROVE  Kept(r, y)
<1>1. x \in QueueState /\ y \in QueueState
  BY DEF Kept, Fine, Goes, Sound
<1>2. Keeps(r, y)
  BY <1>1, KeepsTrans DEF Kept, Goes
<1>3. Fine(y)
  BY GoesFine DEF Kept, Fine
<1> QED
  BY <1>2, <1>3 DEF Kept

LEMMA KeptProcessed ==
  ASSUME NEW r \in QueueState, NEW x, Kept(r, x), NEW t \in Known(r)
  PROVE  Kept(r, ProcessTask(x, t))
<1>1. Sound(x) /\ t \in Known(x) /\ Settled(x, t)
  BY KeptFacts
<1>2. PICK y : y = ProcessTask(x, t)
  OBVIOUS
<1>3. Goes(x, y, {t}) /\ y.tasks = x.tasks
  BY <1>1, <1>2, ProcessTaskServes
<1> QED
  BY <1>2, <1>3, KeptGoes

\* One step of clean_n_save.
Swept(x, t) ==
  IF x.work[t] = "COMPLETED" \/ t \in x.removing THEN RemoveTask(x, t) ELSE x

LEMMA KeptSwept ==
  ASSUME NEW r \in QueueState, NEW x, Kept(r, x), NEW t \in Known(r)
  PROVE  Kept(r, Swept(x, t))
<1>1. Sound(x) /\ t \in Known(x) /\ Settled(x, t)
  BY KeptFacts
<1>2. CASE x.work[t] = "COMPLETED" \/ t \in x.removing
  <2>1. PICK y : y = RemoveTask(x, t) /\ y = Swept(x, t)
    BY <1>2 DEF Swept
  <2>2. task_is_active(x, t)
    BY <1>1, <1>2 DEF Settled
  <2>3. Goes(x, y, {t}) /\ y.tasks = x.tasks
    BY <1>1, <2>1, <2>2, RemoveTaskServes
  <2> QED
    BY <2>1, <2>3, KeptGoes
<1>3. CASE ~(x.work[t] = "COMPLETED" \/ t \in x.removing)
  BY <1>3 DEF Swept
<1> QED
  BY <1>2, <1>3

LEMMA KeptItself ==
  ASSUME NEW r, Fine(r)
  PROVE  r \in QueueState /\ Kept(r, r)
<1>1. r \in QueueState
  BY DEF Fine, Sound
<1> QED
  BY <1>1, KeepsItself DEF Kept

\* Each task of a list is swept, or processed.
LEMMA CleanServes ==
  ASSUME NEW r, Fine(r), NEW x, x = Clean(r)
  PROVE  Kept(r, x)
<1>1. r \in QueueState /\ Kept(r, r)
  BY KeptItself
<1>2. PICK n \in Nat : n = Len(r.tasks) /\ DOMAIN r.tasks = 1..n
  <2>1. r.tasks \in Seq(TASK)
    BY <1>1 DEF QueueState
  <2> QED
    BY <2>1
<1>3. \A i \in 1..n : r.tasks[i] \in Known(r)
  BY <1>2 DEF Known, ToSet
<1> DEFINE V == {y \in QueueState : Kept(r, y)}
           G == [p \in (1..n) \X V |-> Swept(p[2], r.tasks[p[1]])]
           after[i \in 0..n] ==
             IF i = 0 THEN r
             ELSE CHOOSE y \in {Swept(z, r.tasks[i]) : z \in {after[i - 1]}} : TRUE
<1>4. x = [after[n] EXCEPT !.dangling = @ \/ after[n].tasks # r.tasks]
  <2>1. \A z : Then(z, LAMBDA u : [u EXCEPT !.dangling = @ \/ u.tasks # r.tasks])
                 = [z EXCEPT !.dangling = @ \/ z.tasks # r.tasks]
    BY Zenon DEF Then
  <2>2. x = Then(after[Len(r.tasks)],
                 LAMBDA u : [u EXCEPT !.dangling = @ \/ u.tasks # r.tasks])
    BY <1>2, Zenon DEF Clean, Repeated, Then, Swept
  <2> HIDE DEF after
  <2> QED
    BY <1>2, <2>1, <2>2, Zenon
<1>5. r \in V
  BY <1>1
<1>6. \A y \in V, i \in 1..n : Swept(y, r.tasks[i]) \in V
  <2> TAKE y \in V, i \in 1..n
  <2>1. Kept(r, Swept(y, r.tasks[i]))
    BY <1>1, <1>3, KeptSwept
  <2> QED
    BY <2>1 DEF Kept, Fine, Sound
<1> HIDE DEF V
<1>7. G \in [(1..n) \X V -> V]
  BY <1>6
<1>8. PICK f \in [0..n -> V] : Loops(f, n, r, G)
  <2> HIDE DEF G
  <2> QED
    BY <1>5, <1>7, Loop
<1>9. f = [i \in 0..n |->
             IF i = 0 THEN r
             ELSE CHOOSE y \in {Swept(z, r.tasks[i]) : z \in {f[i - 1]}} : TRUE]
  <2>1. ASSUME NEW i \in 0..n, i # 0
        PROVE  G[<<i, f[i - 1]>>] =
                 CHOOSE y \in {Swept(z, r.tasks[i]) : z \in {f[i - 1]}} : TRUE
    <3>1. i \in 1..n /\ i - 1 \in 0..n
      BY <2>1
    <3>2. f[i - 1] \in V
      BY <3>1
    <3>3. G[<<i, f[i - 1]>>] = Swept(f[i - 1], r.tasks[i])
      BY <3>1, <3>2
    <3> QED
      BY <3>3
  <2> HIDE DEF G
  <2> QED
    BY <1>8, <2>1 DEF Loops
<1> HIDE DEF G, after
<1>10. after = [i \in 0..n |->
                 IF i = 0 THEN r
                 ELSE CHOOSE y \in {Swept(z, r.tasks[i]) : z \in {after[i - 1]}} : TRUE]
  BY <1>9, Zenon DEF after
<1>11. ASSUME NEW i \in 1..n, after[i - 1] \in V PROVE after[i] \in V
  <2>1. after[i] = Swept(after[i - 1], r.tasks[i])
    <3>1. i \in 0..n /\ i # 0
      OBVIOUS
    <3>2. after[i] = CHOOSE y \in {Swept(z, r.tasks[i]) : z \in {after[i - 1]}} : TRUE
      BY <1>10, <3>1
    <3> QED
      BY <3>2
  <2> QED
    BY <1>6, <1>11, <2>1
<1>12. after[0] \in V
  BY <1>5, <1>10
<1>13. after[n] \in V
  <2> DEFINE S == {i \in 0..n : after[i] \in V}
  <2>1. 0 \in S /\ \A i \in 1..n : i - 1 \in S => i \in S
    BY <1>11, <1>12
  <2>2. \A i \in 0..n : i \in S
    <3> HIDE DEF S
    <3> QED
      BY <2>1, UpTo
  <2> QED
    BY <2>2
<1>14. PICK y : y = after[n]
  OBVIOUS
<1>15. y \in QueueState /\ Kept(r, y) /\ ~y.dangling /\ y.tasks = r.tasks
  BY <1>13, <1>14 DEF V, Kept, Fine, Sound
<1>16. x = [y EXCEPT !.dangling = FALSE]
  <2>1. x = [y EXCEPT !.dangling = y.dangling \/ y.tasks # r.tasks]
    BY <1>4, <1>14
  <2> QED
    BY <1>15, <2>1
<1>17. x = y
  BY <1>15, <1>16 DEF QueueState
<1> QED
  BY <1>15, <1>17

LEMMA WakeFirstServes ==
  ASSUME NEW r \in QueueState, NEW x, Kept(r, x), NEW y, y = WakeFirst(x)
  PROVE  Kept(r, y)
<1> DEFINE places == {i \in DOMAIN x.tasks : x.work[x.tasks[i]] = "NEED_NNTP"}
           first == IF places = {} THEN None ELSE x.tasks[Min(places)]
<1>1. y = IF first = None THEN x ELSE ProcessTask(x, first)
  BY DEF WakeFirst, First
<1>2. x.tasks \in Seq(TASK) /\ places \in SUBSET DOMAIN x.tasks /\ x.tasks = r.tasks
  BY DEF Kept, Fine, Sound, QueueState
<1>3. places # {} => first \in Known(r)
  <2>1. places # {} => x.tasks[Min(places)] \in ToSet(x.tasks)
    <3> HIDE DEF places
    <3> QED
      BY <1>2, FirstIs
  <2> QED
    BY <1>2, <2>1 DEF Known
<1>4. PICK t : t = first
  OBVIOUS
<1>5. CASE t = None
  BY <1>1, <1>4, <1>5
<1>6. CASE t # None
  <2>1. t \in Known(r)
    BY <1>3, <1>4, <1>6
  <2>2. y = ProcessTask(x, t)
    BY <1>1, <1>4, <1>6
  <2> HIDE DEF first
  <2> QED
    BY <2>1, <2>2, KeptProcessed
<1> QED
  BY <1>5, <1>6

LEMMA IdleUpkeepIs ==
  ASSUME NEW r \in QueueState, Sound(r), NEW y \in IdleUpkeep(r)
  PROVE  Goes(r, y, {}) /\ y.tasks = r.tasks
<1>1. PICK M : M = Max({Limit[s] : s \in SERVER})
  OBVIOUS
<1>2. PICK old \in [SERVER -> 0..M] :
        y = [r EXCEPT !.idle = [s \in SERVER |-> @[s] - old[s]],
                      !.ping = [s \in SERVER |-> @[s] + old[s]]]
  BY <1>1, Zenon DEF IdleUpkeep
<1>3. \A s \in SERVER : old[s] \in Int /\ r.idle[s] \in Int /\ r.ping[s] \in Int
  BY DEF QueueState
<1>4. PICK idle \in [SERVER -> Int] : idle = [s \in SERVER |-> r.idle[s] - old[s]]
  <2>1. \A s \in SERVER : r.idle[s] - old[s] \in Int
    BY <1>3
  <2>2. [s \in SERVER |-> r.idle[s] - old[s]] \in [SERVER -> Int]
    BY <2>1
  <2> QED
    BY <2>2
<1>5. PICK ping \in [SERVER -> Int] : ping = [s \in SERVER |-> r.ping[s] + old[s]]
  <2>1. \A s \in SERVER : r.ping[s] + old[s] \in Int
    BY <1>3
  <2>2. [s \in SERVER |-> r.ping[s] + old[s]] \in [SERVER -> Int]
    BY <2>1
  <2> QED
    BY <2>2
<1>6. y = [r EXCEPT !.idle = idle, !.ping = ping]
  BY <1>2, <1>4, <1>5
<1>7. /\ y \in QueueState
      /\ y.tasks = r.tasks /\ y.stopped = r.stopped /\ y.removing = r.removing
      /\ y.uploads = r.uploads /\ y.coder_task = r.coder_task /\ y.dangling = r.dangling
      /\ y.work = r.work /\ y.health = r.health /\ y.ran = r.ran /\ y.parts = r.parts
      /\ y.is_online = r.is_online /\ y.pending = r.pending
  BY <1>6 DEF QueueState
<1>8. \A u \in SERVER : y.pending[u] <= r.pending[u]
  BY <1>7 DEF QueueState
<1> QED
  BY <1>7, <1>8, Counts

LEMMA ServeRunningServes ==
  ASSUME NEW r \in QueueState, NEW x, Kept(r, x), NEW y \in ServeRunning(x)
  PROVE  Kept(r, y)
<1>1. PICK S : S = {t \in TASK : Holds(x, t)}
  OBVIOUS
<1>2. PICK order \in SetToSeqs(S) :
        y = Repeated(x, Len(order), LAMBDA u, i : ProcessTask(u, order[i]))
  BY <1>1, Zenon DEF ServeRunning
<1>3. S \subseteq Known(r)
  <2>1. Sound(x) /\ Known(x) = Known(r)
    BY DEF Kept, Fine, Known
  <2>2. ASSUME NEW t \in S PROVE t \in Known(x)
    BY <1>1, <2>1, HasIsKnown DEF task_is_active
  <2> QED
    BY <2>1, <2>2
<1>4. PICK n \in Nat : n = Len(order) /\ \A i \in 1..n : order[i] \in Known(r)
  <2>1. IsFiniteSet(S)
    BY <1>1, QueueAssumption, FS_Subset
  <2>2. Cardinality(S) \in Nat
    BY <2>1, FS_CardinalityType
  <2>3. order \in [1..Cardinality(S) -> S]
    BY DEF SetToSeqs, Injection, IsInjective
  <2>4. order \in Seq(S) /\ Len(order) = Cardinality(S)
    BY <2>2, <2>3
  <2> QED
    BY <1>3, <2>2, <2>3, <2>4
<1> DEFINE V == {z \in QueueState : Kept(r, z)}
           G == [p \in (1..n) \X V |-> ProcessTask(p[2], order[p[1]])]
           after[i \in 0..n] ==
             IF i = 0 THEN x
             ELSE CHOOSE u \in {ProcessTask(z, order[i]) : z \in {after[i - 1]}} : TRUE
<1>5. y = after[n]
  <2>1. y = after[Len(order)]
    BY <1>2, <1>4, Zenon DEF Repeated, Then
  <2> HIDE DEF after
  <2> QED
    BY <1>4, <2>1
<1>6. x \in V
  BY DEF Kept, Fine, Sound
<1>7. \A z \in V, i \in 1..n : ProcessTask(z, order[i]) \in V
  <2> TAKE z \in V, i \in 1..n
  <2>1. Kept(r, ProcessTask(z, order[i]))
    BY <1>4, KeptProcessed
  <2> QED
    BY <2>1 DEF Kept, Fine, Sound
<1> HIDE DEF V
<1>8. G \in [(1..n) \X V -> V]
  BY <1>7
<1>9. PICK f \in [0..n -> V] : Loops(f, n, x, G)
  <2> HIDE DEF G
  <2> QED
    BY <1>6, <1>8, Loop
<1>10. f = [i \in 0..n |->
             IF i = 0 THEN x
             ELSE CHOOSE u \in {ProcessTask(z, order[i]) : z \in {f[i - 1]}} : TRUE]
  <2>1. ASSUME NEW i \in 0..n, i # 0
        PROVE  G[<<i, f[i - 1]>>] =
                 CHOOSE u \in {ProcessTask(z, order[i]) : z \in {f[i - 1]}} : TRUE
    <3>1. i \in 1..n /\ i - 1 \in 0..n
      BY <2>1
    <3>2. f[i - 1] \in V
      BY <3>1
    <3>3. G[<<i, f[i - 1]>>] = ProcessTask(f[i - 1], order[i])
      BY <3>1, <3>2
    <3> QED
      BY <3>3
  <2> HIDE DEF G
  <2> QED
    BY <1>9, <2>1 DEF Loops
<1> HIDE DEF G, after
<1>11. after = [i \in 0..n |->
                 IF i = 0 THEN x
                 ELSE CHOOSE u \in {ProcessTask(z, order[i]) : z \in {after[i - 1]}} : TRUE]
  BY <1>10, Zenon DEF after
<1>12. ASSUME NEW i \in 1..n, after[i - 1] \in V PROVE after[i] \in V
  <2>1. after[i] = ProcessTask(after[i - 1], order[i])
    <3>1. i \in 0..n /\ i # 0
      OBVIOUS
    <3>2. after[i] = CHOOSE u \in {ProcessTask(z, order[i]) : z \in {after[i - 1]}} : TRUE
      BY <1>11, <3>1
    <3> QED
      BY <3>2
  <2> QED
    BY <1>7, <1>12, <2>1
<1>13. after[0] \in V
  BY <1>6, <1>11
<1>14. after[n] \in V
  <2> DEFINE I == {i \in 0..n : after[i] \in V}
  <2>1. 0 \in I /\ \A i \in 1..n : i - 1 \in I => i \in I
    BY <1>12, <1>13
  <2>2. \A i \in 0..n : i \in I
    <3> HIDE DEF I
    <3> QED
      BY <2>1, UpTo
  <2> QED
    BY <2>2
<1> QED
  BY <1>5, <1>14 DEF V

LEMMA UpkeptServes ==
  ASSUME NEW r, Fine(r), NEW y \in Upkept(r)
  PROVE  Kept(r, y)
<1>1. r \in QueueState
  BY KeptItself
<1>2. PICK x \in ServeRunning(Then(Then(r, Clean), WakeFirst)) : y \in IdleUpkeep(x)
  BY Zenon DEF Upkept
<1>3. PICK a : a = Clean(r)
  OBVIOUS
<1>4. PICK b : b = WakeFirst(a)
  OBVIOUS
<1>5. x \in ServeRunning(b)
  <2>1. \A z : Then(z, Clean) = Clean(z) /\ Then(z, WakeFirst) = WakeFirst(z)
    BY Zenon DEF Then
  <2> QED
    BY <1>2, <1>3, <1>4, <2>1, Zenon
<1>6. Kept(r, a)
  BY <1>3, CleanServes
<1>7. Kept(r, b)
  BY <1>1, <1>4, <1>6, WakeFirstServes
<1>8. Kept(r, x)
  BY <1>1, <1>5, <1>7, ServeRunningServes
<1>9. x \in QueueState /\ Sound(x)
  BY <1>8 DEF Kept, Fine, Sound
<1>10. Goes(x, y, {}) /\ y.tasks = x.tasks
  BY <1>2, <1>9, IdleUpkeepIs
<1> QED
  BY <1>1, <1>8, <1>10, KeptGoes

LEMMA UpkeepStep ==
  ASSUME Inv, Upkeep
  PROVE  Inv' /\ Quiet(q, q')
<1>1. Kept(q, q')
  BY UpkeptServes DEF Inv, Upkeep
<1> QED
  BY <1>1, KeepsQuiet DEF Kept, Inv

LEMMA SetOnlineStep ==
  ASSUME Inv, SetOnline
  PROVE  Inv' /\ Calm(q, q')
<1>1. Fine(q) /\ Sound(q) /\ q \in QueueState
  BY DEF Inv, Fine, Sound
<1>2. ASSUME NEW online \in BOOLEAN, NEW y, y = [q EXCEPT !.is_online = online]
      PROVE  /\ y \in QueueState /\ Fine(y)
             /\ y.stopped = q.stopped /\ y.removing = q.removing
             /\ \A v : Lent(y, v) = Lent(q, v) /\ Coders(y, v) = Coders(q, v)
  <2>1. /\ y \in QueueState
        /\ y.tasks = q.tasks /\ y.stopped = q.stopped /\ y.removing = q.removing
        /\ y.uploads = q.uploads /\ y.coder_task = q.coder_task /\ y.dangling = q.dangling
        /\ y.work = q.work /\ y.health = q.health /\ y.ran = q.ran /\ y.parts = q.parts
    BY <1>1, <1>2 DEF QueueState
  <2> QED
    BY <1>1, <2>1, Counts
<1>3. CASE q.is_online
  <2>1. q' = [q EXCEPT !.is_online = FALSE]
    BY <1>3 DEF SetOnline
  <2>2. Fine(q') /\ \A v : Lent(q', v) = Lent(q, v) /\ Coders(q', v) = Coders(q, v)
    BY <1>2, <2>1
  <2> QED
    BY <2>2 DEF Inv, Calm, Got
<1>4. CASE ~q.is_online
  <2>1. PICK y : y = [q EXCEPT !.is_online = TRUE]
    OBVIOUS
  <2>2. q' \in Upkept(y)
    BY <1>4, <2>1 DEF SetOnline
  <2>3. /\ y \in QueueState /\ Fine(y) /\ y.removing = q.removing
        /\ \A v : Lent(y, v) = Lent(q, v) /\ Coders(y, v) = Coders(q, v)
    BY <1>2, <2>1
  <2>4. Kept(y, q')
    BY <2>2, <2>3, UpkeptServes
  <2> QED
    BY <2>3, <2>4, QuietAfter DEF Kept, Inv
<1> QED
  BY <1>3, <1>4

\* The pool's counts change, and it may tell the queue of a connection.
LEMMA PoolStep ==
  ASSUME Inv, NEW y, Goes(q, y, {}), y.tasks = q.tasks, Stays(y, q')
  PROVE  Inv' /\ Quiet(q, q')
<1>1. Fine(q) /\ Sound(q)
  BY DEF Inv, Fine
<1>2. PICK T \in SUBSET Known(q) : Goes(q, q', T)
  BY <1>1, StaysTrans DEF Stays
<1>3. Fine(q')
  BY <1>1, <1>2, GoesFine DEF Fine
<1> QED
  BY <1>2, <1>3, KeepsQuiet DEF Goes, Inv

\* Only counts of connections change, and no more of them are opened.
Counted(r, y) ==
  \E idle, pending, ping \in [SERVER -> Int], allowed \in [SERVER -> BOOLEAN] :
    /\ y = [r EXCEPT !.idle = idle, !.pending = pending, !.ping = ping,
                     !.allowed = allowed]
    /\ \A s \in SERVER : pending[s] <= r.pending[s]

LEMMA CountedGoes ==
  ASSUME NEW r, Sound(r), NEW y, Counted(r, y)
  PROVE  Goes(r, y, {}) /\ y.tasks = r.tasks /\ Sound(y)
<1>1. r \in QueueState
  BY DEF Sound
<1>2. PICK idle, pending, ping \in [SERVER -> Int], allowed \in [SERVER -> BOOLEAN] :
        /\ y = [r EXCEPT !.idle = idle, !.pending = pending, !.ping = ping,
                         !.allowed = allowed]
        /\ \A s \in SERVER : pending[s] <= r.pending[s]
  BY DEF Counted
<1>3. /\ y \in QueueState /\ y.pending = pending /\ y.is_online = r.is_online
      /\ y.tasks = r.tasks /\ y.stopped = r.stopped /\ y.removing = r.removing
      /\ y.uploads = r.uploads /\ y.coder_task = r.coder_task /\ y.dangling = r.dangling
      /\ y.work = r.work /\ y.health = r.health /\ y.ran = r.ran /\ y.parts = r.parts
  BY <1>1, <1>2 DEF QueueState
<1> QED
  BY <1>2, <1>3, Counts DEF Goes

LEMMA OneMore ==
  ASSUME NEW f \in [SERVER -> Int], NEW s \in SERVER
  PROVE  \E g \in [SERVER -> Int] : g = [f EXCEPT ![s] = @ + 1]
<1>1. [f EXCEPT ![s] = @ + 1] \in [SERVER -> Int]
  OBVIOUS
<1> QED
  BY <1>1

LEMMA OneLess ==
  ASSUME NEW f \in [SERVER -> Int], NEW s \in SERVER
  PROVE  \E g \in [SERVER -> Int] : /\ g = [f EXCEPT ![s] = @ - 1]
                                    /\ \A u \in SERVER : g[u] <= f[u]
<1>1. f[s] - 1 \in Int /\ \A u \in SERVER : f[u] \in Int
  OBVIOUS
<1>2. PICK g \in [SERVER -> Int] : Put(f, g, s, f[s] - 1, SERVER)
  BY <1>1, PutAt
<1>3. \A u \in SERVER : g[u] <= f[u]
  BY <1>1, <1>2 DEF Put
<1> QED
  BY <1>2, <1>3 DEF Put

LEMMA ConnectedStep ==
  ASSUME Inv, NEW s \in SERVER, Connected(s)
  PROVE  Inv' /\ Quiet(q, q')
<1>1. Fine(q) /\ Sound(q) /\ q \in QueueState
  BY DEF Inv, Fine, Sound
<1>2. PICK y : y = [q EXCEPT !.pending[s] = @ - 1, !.idle[s] = @ + 1]
  OBVIOUS
<1>3. q' = OnPoolHasNntpAvailable(y, s)
  <2>1. q' = Then([q EXCEPT !.pending[s] = @ - 1, !.idle[s] = @ + 1],
                  LAMBDA x : OnPoolHasNntpAvailable(x, s))
    BY Zenon DEF Connected
  <2>2. q' = Then(y, LAMBDA x : OnPoolHasNntpAvailable(x, s))
    BY <1>2, <2>1, Zenon
  <2> QED
    BY <2>2, Zenon DEF Then
<1>4. /\ q.idle \in [SERVER -> Int] /\ q.pending \in [SERVER -> Int]
      /\ q.ping \in [SERVER -> Int] /\ q.allowed \in [SERVER -> BOOLEAN]
  BY <1>1 DEF QueueState
<1>5. PICK idle \in [SERVER -> Int] : idle = [q.idle EXCEPT ![s] = @ + 1]
  BY <1>4, OneMore
<1>6. PICK pending \in [SERVER -> Int] : /\ pending = [q.pending EXCEPT ![s] = @ - 1]
                                         /\ \A u \in SERVER : pending[u] <= q.pending[u]
  BY <1>4, OneLess
<1>7. y = [q EXCEPT !.pending = pending, !.idle = idle]
  BY <1>2, <1>5, <1>6
<1>8. y = [q EXCEPT !.idle = idle, !.pending = pending, !.ping = q.ping,
                    !.allowed = q.allowed]
  BY <1>1, <1>7 DEF QueueState
<1>9. Counted(q, y)
  BY <1>4, <1>6, <1>8 DEF Counted
<1>10. Goes(q, y, {}) /\ y.tasks = q.tasks /\ Stays(y, q')
  BY <1>1, <1>3, <1>9, CountedGoes, PoolAvailableServes
<1> QED
  BY <1>10, PoolStep

LEMMA PoolCalmStep ==
  ASSUME Inv, Counted(q, q')
  PROVE  Inv' /\ Quiet(q, q')
<1>1. Sound(q)
  BY DEF Inv, Fine
<1>2. Goes(q, q', {}) /\ q'.tasks = q.tasks /\ Sound(q')
  BY <1>1, CountedGoes
<1>3. Stays(q', q')
  BY <1>2, GoesItself DEF Stays
<1> QED
  BY <1>2, <1>3, PoolStep

LEMMA ConnectFailedStep ==
  ASSUME Inv, NEW s \in SERVER, NEW lockout \in BOOLEAN, ConnectFailed(s, lockout)
  PROVE  Inv' /\ Quiet(q, q')
<1>1. q \in QueueState
  BY DEF Inv, Fine, Sound
<1>2. /\ q.idle \in [SERVER -> Int] /\ q.pending \in [SERVER -> Int]
      /\ q.ping \in [SERVER -> Int] /\ q.allowed \in [SERVER -> BOOLEAN]
  BY <1>1 DEF QueueState
<1>3. PICK pending \in [SERVER -> Int] : /\ pending = [q.pending EXCEPT ![s] = @ - 1]
                                         /\ \A u \in SERVER : pending[u] <= q.pending[u]
  BY <1>2, OneLess
<1>4. PICK allowed \in [SERVER -> BOOLEAN] :
        allowed = [q.allowed EXCEPT ![s] = @ /\ ~lockout]
  BY <1>2
<1>5. q' = [q EXCEPT !.pending = pending, !.allowed = allowed]
  BY <1>3, <1>4 DEF ConnectFailed
<1>6. q' = [q EXCEPT !.idle = q.idle, !.pending = pending, !.ping = q.ping,
                     !.allowed = allowed]
  BY <1>1, <1>5 DEF QueueState
<1>7. Counted(q, q')
  BY <1>2, <1>3, <1>6 DEF Counted
<1> QED
  BY <1>7, PoolCalmStep

LEMMA LockoutEndsStep ==
  ASSUME Inv, NEW s \in SERVER, LockoutEnds(s)
  PROVE  Inv' /\ Quiet(q, q')
<1>1. q \in QueueState
  BY DEF Inv, Fine, Sound
<1>2. /\ q.idle \in [SERVER -> Int] /\ q.pending \in [SERVER -> Int]
      /\ q.ping \in [SERVER -> Int] /\ q.allowed \in [SERVER -> BOOLEAN]
  BY <1>1 DEF QueueState
<1>3. PICK allowed \in [SERVER -> BOOLEAN] : allowed = [q.allowed EXCEPT ![s] = TRUE]
  BY <1>2
<1>4. q' = [q EXCEPT !.allowed = allowed]
  BY <1>3 DEF LockoutEnds
<1>5. q' = [q EXCEPT !.idle = q.idle, !.pending = q.pending, !.ping = q.ping,
                     !.allowed = allowed]
  BY <1>1, <1>4 DEF QueueState
<1>6. \A u \in SERVER : q.pending[u] <= q.pending[u]
  BY <1>2
<1>7. Counted(q, q')
  BY <1>2, <1>5, <1>6 DEF Counted
<1> QED
  BY <1>7, PoolCalmStep

LEMMA KeepaliveStep ==
  ASSUME Inv, NEW s \in SERVER, NEW h, KeepaliveDone(s, h)
  PROVE  Inv' /\ Quiet(q, q')
<1>1. Fine(q) /\ Sound(q) /\ q \in QueueState
  BY DEF Inv, Fine, Sound
<1>2. PICK y : y = [q EXCEPT !.ping[s] = @ - 1]
  OBVIOUS
<1>3. q' = PoolCheckIn(y, s, h)
  BY <1>2 DEF KeepaliveDone
<1>4. /\ q.idle \in [SERVER -> Int] /\ q.pending \in [SERVER -> Int]
      /\ q.ping \in [SERVER -> Int] /\ q.allowed \in [SERVER -> BOOLEAN]
  BY <1>1 DEF QueueState
<1>5. PICK ping \in [SERVER -> Int] : ping = [q.ping EXCEPT ![s] = @ - 1]
  BY <1>4, OneLess
<1>6. y = [q EXCEPT !.ping = ping]
  BY <1>2, <1>5
<1>7. y = [q EXCEPT !.idle = q.idle, !.pending = q.pending, !.ping = ping,
                    !.allowed = q.allowed]
  BY <1>1, <1>6 DEF QueueState
<1>8. \A u \in SERVER : q.pending[u] <= q.pending[u]
  BY <1>4
<1>9. Counted(q, y)
  BY <1>4, <1>7, <1>8 DEF Counted
<1>10. Goes(q, y, {}) /\ y.tasks = q.tasks /\ Stays(y, q')
  BY <1>1, <1>3, <1>9, CountedGoes, PoolCheckInServes
<1> QED
  BY <1>10, PoolStep

----------------------------------------------------------------------------
(* The theorems.                                                           *)

LEMMA Initially ==
  ASSUME Init
  PROVE  Inv
<1>1. /\ q.tasks = <<>> /\ q.stopped = {} /\ q.removing = {} /\ q.uploads = {}
      /\ q.coder_task = [c \in CODER |-> None] /\ ~q.dangling
      /\ q.work = [t \in TASK |-> "COMPLETED"] /\ q.health = [t \in TASK |-> "OK"]
      /\ q.ran = [t \in TASK |-> FALSE] /\ q.parts = [t \in TASK |-> <<>>]
  BY DEF Init
<1>2. <<>> \in Needed
  <2>1. <<>> \in [{} -> Part] /\ {} \in SUBSET (1..MaxParts)
    OBVIOUS
  <2> QED
    BY <2>1 DEF Needed
<1>3. q \in QueueState
  <2>1. "COMPLETED" \in Works /\ "OK" \in Health
    BY DEF Works, Health
  <2> QED
    BY <1>2, <2>1 DEF Init, QueueState
<1>4. Known(q) = {} /\ Distinct(q.tasks)
  BY <1>1 DEF Known, Distinct, ToSet
<1>5. ASSUME NEW t \in TASK PROVE Each(q, t)
  <2>1. ~HasCoder(q, t)
    BY <1>1, QueueAssumption DEF HasCoder
  <2>2. q.parts[t] = <<>> /\ DOMAIN q.parts[t] = {}
    BY <1>1
  <2> QED
    BY <1>1, <1>4, <2>1, <2>2 DEF Each, Absent
<1> QED
  BY <1>1, <1>3, <1>4, <1>5 DEF Inv, Fine, Sound, Slots

LEMMA Stepwise ==
  ASSUME Inv, Next
  PROVE  Inv' /\ Calm(q, q') /\ (SetOnline \/ Quiet(q, q'))
<1>1. CASE \E t \in TASK : AddTask(t)
  BY <1>1, AddStep DEF Quiet
<1>2. CASE \E t \in TASK : StopTasks(t) \/ RestartTasks(t)
  BY <1>2, StopStep DEF Quiet
<1>3. CASE \E t \in TASK : RemoveTasks(t)
  BY <1>3, RemoveStep DEF Quiet
<1>4. CASE \E t \in TASK, h \in Health : NntpDone(t, h)
  BY <1>4, NntpDoneStep DEF Quiet
<1>5. CASE \E i \in DOMAIN q.tasks : MoveTasks(i)
  BY <1>5, MoveStep DEF Quiet
<1>6. CASE SetOnline
  BY <1>6, SetOnlineStep
<1>7. CASE Upkeep
  BY <1>7, UpkeepStep DEF Quiet
<1>8. CASE \E c \in CODER : \E result : CoderDone(c, result)
  BY <1>8, CoderDoneStep DEF Quiet
<1>9. CASE \E s \in SERVER : Connected(s)
  BY <1>9, ConnectedStep DEF Quiet
<1>10. CASE \E s \in SERVER, lockout \in BOOLEAN : ConnectFailed(s, lockout)
  BY <1>10, ConnectFailedStep DEF Quiet
<1>11. CASE \E s \in SERVER : LockoutEnds(s)
  BY <1>11, LockoutEndsStep DEF Quiet
<1>12. CASE \E s \in SERVER : \E h : KeepaliveDone(s, h)
  BY <1>12, KeepaliveStep DEF Quiet
<1>13. {"OK"} \cup (FAILURES \cap {"ERR_NETWORK", "ERR_COMMAND", "ERR_NOSPACE",
                                  "ERR_LOCAL"}) \subseteq Health
  BY DEF Health, Unwell
<1>14. {FALSE, "lockout" \in FAILURES} \subseteq BOOLEAN
  OBVIOUS
<1> QED
  BY <1>1, <1>2, <1>3, <1>4, <1>5, <1>6, <1>7, <1>8, <1>9, <1>10, <1>11, <1>12,
     <1>13, <1>14, Zenon DEF Next

\* The inductive invariant holds in every state: the queue and its tasks agree
\* about who has what, and nothing that could be done now waits.
THEOREM Invariance == Spec => []Inv
<1>1. Init => Inv
  BY Initially
<1>2. Inv /\ [Next]_q => Inv'
  <2> SUFFICES ASSUME Inv, [Next]_q PROVE Inv'
    OBVIOUS
  <2>1. CASE Next
    BY <2>1, Stepwise
  <2>2. CASE UNCHANGED q
    BY <2>2 DEF Inv
  <2> QED
    BY <2>1, <2>2
<1> QED
  BY <1>1, <1>2, PTL DEF Spec

\* No callback of a connection or a coder, and no function of queue.cc, is left
\* with a task that the queue has deleted.
THEOREM NoDanglingTaskIsInvariant == Spec => []NoDanglingTask
<1>1. Inv => NoDanglingTask
  <2> SUFFICES ASSUME Inv PROVE NoDanglingTask
    OBVIOUS
  <2>1. Sound(q) /\ ~q.dangling /\ q \in QueueState
    BY DEF Inv, Fine, Sound
  <2>2. \A t \in TASK : task_is_active(q, t) \/ t \in q.stopped \cup q.removing \cup q.uploads
                          => t \in ToSet(q.tasks)
    BY <2>1, HasIsKnown DEF Known
  <2>3. q.stopped \cup q.removing \cup q.uploads \subseteq TASK
    BY <2>1 DEF QueueState
  <2> QED
    BY <2>1, <2>2, <2>3 DEF NoDanglingTask
<1> QED
  BY <1>1, Invariance, PTL

\* check_in passes the decoder and the encoder on, and update_work's assertion
\* never fails.
THEOREM CoderNeverIdleIsInvariant == Spec => []CoderNeverIdle
<1>1. Inv => CoderNeverIdle
  <2> SUFFICES ASSUME Inv PROVE CoderNeverIdle
    OBVIOUS
  <2>1. Sound(q) /\ q \in QueueState /\ \A t \in Known(q) : Served(q, t)
    BY DEF Inv, Fine, Sound
  <2>2. ASSUME NEW c \in CODER, q.coder_task[c] = None
        PROVE  FirstNeedingCoder(q, c) = None
    <3>1. PICK t : t = FirstNeedingCoder(q, c)
      OBVIOUS
    <3>2. t # None => t \in Known(q) /\ q.work[t] = Needs(c) /\ Unhindered(q, t)
      BY <2>1, <3>1, FirstCoderIs
    <3> QED
      BY <2>1, <2>2, <3>1, <3>2 DEF Served, Coded
  <2>3. ASSUME NEW t \in TASK PROVE q.work[t] # "MISSED"
    <3>1. CASE t \notin Known(q)
      BY <2>1, <3>1 DEF Sound, Each, Absent
    <3>2. CASE t \in Known(q)
      <4>1. TaskSound(q, t)
        BY <2>1, <3>2, KnownFacts
      <4>2. CASE HasCoder(q, t)
        BY <4>1, <4>2 DEF HasCoder, TaskSound, CoderSound
      <4>3. CASE ~HasCoder(q, t)
        <5>1. q.coder_task["decoder"] # t /\ q.coder_task["encoder"] # t
          BY <4>3, CoderNames DEF HasCoder
        <5>2. ArticleWork(q, t) # "MISSED"
          BY <5>1 DEF ArticleWork
        <5>3. t \in ARTICLE => q.work[t] # "MISSED"
          BY <4>1, <4>3, <5>2 DEF TaskSound, ArticleSound
        <5>4. t \in UPLOAD /\ t \notin q.uploads => q.work[t] # "MISSED"
          BY <4>1 DEF TaskSound, UploadSound
        <5>5. t \in UPLOAD /\ t \in q.uploads => q.work[t] # "MISSED"
          <6>1. UploadWork(q, t) # "MISSED"
            BY <5>1 DEF UploadWork
          <6> QED
            BY <4>1, <4>3, <6>1 DEF TaskSound, UploadSound
        <5>6. t \in POST => q.work[t] # "MISSED"
          BY <4>1 DEF TaskSound, PostSound
        <5> QED
          BY <5>3, <5>4, <5>5, <5>6 DEF TASK
      <4> QED
        BY <4>2, <4>3
    <3> QED
      BY <3>1, <3>2
  <2> QED
    BY <2>2, <2>3 DEF CoderNeverIdle
<1> QED
  BY <1>1, Invariance, PTL

\* give_task_an_upload_slot and remove_task keep the uploads going and within
\* the servers' limits.
THEOREM UploadsKeepGoingIsInvariant == Spec => []UploadsKeepGoing
<1>1. Inv => UploadsKeepGoing
  <2> SUFFICES ASSUME Inv PROVE UploadsKeepGoing
    OBVIOUS
  <2>1. Sound(q) /\ Slots(q) /\ q \in QueueState /\ \A t \in Known(q) : Served(q, t)
    BY DEF Inv, Fine, Sound
  <2> DEFINE queued == Known(q) \cap UPLOAD
             waiting == {t \in queued : q.work[t] = "INITIAL"}
  <2>2. ASSUME NEW t \in q.uploads PROVE t \in queued \ waiting
    <3>1. t \in UPLOAD /\ t \in TASK
      BY <2>1, <2>2 DEF Slots, TASK
    <3>2. t \in Known(q)
      BY <2>1, <2>2, <3>1, HasIsKnown
    <3>3. q.work[t] # "INITIAL"
      BY <2>1, <2>2, <3>2, InitialFacts
    <3> QED
      BY <3>1, <3>2, <3>3
  <2>3. ASSUME NEW t \in queued \ waiting PROVE t \in q.uploads
    <3>1. TaskSound(q, t) /\ q.work[t] # "INITIAL" /\ t \in UPLOAD
      BY <2>1, <2>3, KnownFacts
    <3> QED
      BY <3>1 DEF TaskSound, UploadSound
  <2>4. ASSUME NEW s \in SERVER
        PROVE  \/ Cardinality(q.uploads) <= Limit[s]
               \/ \E o \in SERVER : Limit[o] > Limit[s]
    <3>1. \A o \in SERVER : Limit[o] \in Nat
      BY QueueAssumption
    <3>2. Cardinality(q.uploads) \in Nat /\ (q.uploads = {} => Cardinality(q.uploads) = 0)
      BY <2>1, FewUploads
    <3>3. CASE q.uploads = {}
      BY <3>1, <3>2, <3>3
    <3>4. CASE q.uploads # {}
      <4>1. PICK o \in SERVER : Cardinality(q.uploads) <= Limit[o]
        BY <2>1, <3>4 DEF Slots
      <4>2. Limit[o] \in Nat /\ Limit[s] \in Nat
        BY <3>1
      <4> QED
        BY <3>2, <4>1, <4>2
    <3> QED
      BY <3>3, <3>4
  <2>5. q.uploads = {} => waiting \subseteq q.stopped
    BY <2>1 DEF Served, Slotted
  <2>6. queued \ waiting = q.uploads
    BY <2>2, <2>3
  <2> QED
    BY <2>4, <2>5, <2>6 DEF UploadsKeepGoing, Known
<1> QED
  BY <1>1, Invariance, PTL

\* What NntpDone does to its own task, whatever else happens.
LEMMA NotShotBack ==
  ASSUME Inv, NEW t \in TASK, t \in q.stopped \cup q.removing \/ ~q.is_online
  PROVE  (\E h \in Health : NntpDone(t, h)) => Lent(q', t) # Lent(q, t)
  BY NntpDoneStep

\* process_task and check_in lend nothing to a task that is stopped or being
\* removed.
THEOREM StoppedGetNothingHolds == Spec => StoppedGetNothing
<1>1. Inv /\ [Next]_q =>
        [\A t \in TASK :
           t \in (q.stopped \cap q'.stopped) \cup (q.removing \cap q'.removing)
             => LentNothing(t) /\ Coders(q', t) \subseteq Coders(q, t)]_q
  <2> SUFFICES ASSUME Inv, Next, NEW t \in TASK,
                      t \in (q.stopped \cap q'.stopped) \cup (q.removing \cap q'.removing)
               PROVE  LentNothing(t) /\ Coders(q', t) \subseteq Coders(q, t)
    OBVIOUS
  <2>1. Got(q, q', t)
    BY Stepwise DEF Calm
  <2>2. (\E h \in Health : NntpDone(t, h)) => Lent(q', t) # Lent(q, t)
    BY NotShotBack
  <2> QED
    BY <2>1, <2>2, Zenon DEF Got, LentNothing
<1> QED
  BY <1>1, Invariance, PTL DEF Spec, StoppedGetNothing

\* While it is offline the queue opens no connection and lends none.
THEOREM OfflineIsQuietHolds == Spec => OfflineIsQuiet
<1>1. Inv /\ [Next]_q =>
        [~q.is_online /\ ~q'.is_online /\ ~SetOnline
           => /\ \A t \in TASK : LentNothing(t)
              /\ \A s \in SERVER : q'.pending[s] <= q.pending[s]]_q
  <2> SUFFICES ASSUME Inv, Next, ~q.is_online, ~q'.is_online, ~SetOnline
               PROVE  /\ \A t \in TASK : LentNothing(t)
                      /\ \A s \in SERVER : q'.pending[s] <= q.pending[s]
    OBVIOUS
  <2>1. Offline(q, q')
    BY Stepwise DEF Quiet
  <2>2. ASSUME NEW t \in TASK PROVE LentNothing(t)
    <3>1. (\E h \in Health : NntpDone(t, h)) => Lent(q', t) # Lent(q, t)
      BY NotShotBack
    <3> QED
      BY <2>1, <3>1, Zenon DEF Offline, LentNothing
  <2> QED
    BY <2>1, <2>2, Zenon DEF Offline
<1> QED
  BY <1>1, Invariance, PTL DEF Spec, OfflineIsQuiet

=============================================================================
