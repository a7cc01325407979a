-------------------------- MODULE TaskXOverProofs ---------------------------
(***************************************************************************)
(* TaskXOver for any servers, connections and tasks, any ranges, and any   *)
(* of the faults: what the numbers pan keeps take to be known is known, or *)
(* was left out on purpose, by its date or by a fault the model names.     *)
(***************************************************************************)
EXTENDS TaskXOver, FiniteSetTheorems, WellFoundedInduction, TLAPS

----------------------------------------------------------------------------
(* The invariant.                                                          *)

RANGE == [low : Nat, high : Nat]
HEADERS == SUBSET (SERVER \X Nat)
MODE == {"ALL", "NEW", "SAMPLE", "DAYS"}
TASKXOVER ==
  [work : {"NONE", "NEED_NNTP", "WORKING", "COMPLETED", "GONE"},
   mode : MODE \cup {None}, reffed : BOOLEAN, removing : BOOLEAN,
   need : SUBSET SERVER, mini : [SERVER -> Seq(RANGE)],
   started : SUBSET SERVER, high : [SERVER -> Nat],
   asked : [SERVER -> SUBSET Nat], sample : Nat]

\* Every variable has its type.
Types ==
  /\ server \in [SERVER -> [low : Nat \ {0}, high : Nat]]
  /\ task \in [TASK -> TASKXOVER]
  /\ conn \in [CONN ->
       [task : TASK \cup {None}, stage : {"idle", "group", "enter", "lines"},
        range : RANGE, todo : SUBSET Nat]]
  /\ store \in [refs : Nat, shown : BOOLEAN, saving : BOOLEAN, have : HEADERS,
                high : [SERVER -> Nat]]
  /\ disk \in [have : HEADERS, high : [SERVER -> Nat]]
  /\ unwanted \in HEADERS /\ missed \in HEADERS

\* A connection that is not idle works for a queued task that holds the
\* store, and asks for the headers of the range it was given.
Working(c) ==
  /\ conn[c].task \in TASK /\ conn[c].stage # "idle"
  /\ Queued(conn[c].task) /\ task[conn[c].task].reffed
  /\ conn[c].stage \in {"enter", "lines"} => conn[c].range # GROUP
  /\ conn[c].stage = "group" => conn[c].range = GROUP
  /\ conn[c].stage # "lines" => conn[c].todo = {}
  /\ conn[c].todo \subseteq Headers(ServerOf[c], conn[c].range)

Connected == \A c \in CONN : conn[c] = IdleConn \/ Working(c)

\* The tasks that hold the store.
Holders == {t \in TASK : Queued(t) /\ task[t].reffed}

\* The store is counted, and what is on disk is in it while it is loaded.
Store ==
  /\ store.refs = Cardinality(Holders)
  /\ store.saving => ~Loaded(store)
  /\ Loaded(store) => disk.have \subseteq store.have

Accounted == Known \cup unwanted \cup missed \cup CORRUPT

\* Up to the number that is known of a server every header is accounted for,
\* by the store and by what a restart finds.
HighIsTrue ==
  \A s \in SERVER :
    /\ store.high[s] <= server[s].high /\ disk.high[s] <= server[s].high
    /\ \A n \in Existing(s) :
         /\ n <= store.high[s] => <<s, n>> \in Accounted
         /\ n <= disk.high[s] => <<s, n>> \in disk.have \cup unwanted \cup missed \cup CORRUPT

\* What a task has yet to receive of a server.
InConn(c) == CASE conn[c].stage = "enter" -> Headers(ServerOf[c], conn[c].range)
               [] OTHER -> conn[c].todo
Pending(t, s) == Left(task[t], s)
                 \cup UNION {InConn(c) : c \in {x \in Conns(t) : ServerOf[x] = s}}

\* How far a task knows of a server's headers, asks for them or has been
\* answered.
Reached(t, s, n) ==
  \/ n <= task[t].high[s]
  \/ \E m \in task[t].asked[s] \cup Pending(t, s) : n <= m

\* Up to there every header is accounted for or has yet to be received.
Frontier(t, s) ==
  /\ task[t].high[s] <= server[s].high
  /\ task[t].asked[s] \subseteq Existing(s)
  /\ \A n \in Existing(s) :
       Reached(t, s, n) => <<s, n>> \in Accounted \/ n \in Pending(t, s)

\* The ranges start within what was asked for, which only a started server
\* was; the newest come first, and those in the answers are newer still.
Order(t, s) ==
  LET k == task[t]
      mini == k.mini[s]
  IN  /\ k.asked[s] # {} => s \in k.started /\ k.reffed
      /\ \A i \in DOMAIN mini : mini[i] # GROUP => mini[i].low \in k.asked[s]
      /\ \A i, j \in DOMAIN mini : i < j => mini[j].high <= mini[i].low
      /\ \A c \in Conns(t) : ServerOf[c] = s /\ conn[c].stage \in {"enter", "lines"} =>
           /\ conn[c].range.low \in k.asked[s]
           /\ \A i \in DOMAIN mini : mini[i].high <= conn[c].range.low

\* A queued task knows its mode, and one that is complete has nothing left.
Sound(t) ==
  /\ task[t].mode \in MODE
  /\ \A s \in SERVER : Frontier(t, s) /\ Order(t, s)
  /\ task[t].work = "COMPLETED" =>
       Conns(t) = {} /\ \A s \in SERVER : task[t].mini[s] = <<>>

Tasks == \A t \in TASK : Queued(t) => Sound(t)

Inv == Types /\ Connected /\ Store /\ HighIsTrue /\ Tasks

LEMMA PairExtremes ==
  ASSUME NEW a \in Int, NEW b \in Int
  PROVE  /\ Max({a, b}) \in {a, b} /\ Max({a, b}) >= a /\ Max({a, b}) >= b
         /\ Min({a, b}) \in {a, b} /\ Min({a, b}) <= a /\ Min({a, b}) <= b
<1>1. \E x \in {a, b} : \A y \in {a, b} : x >= y
  OBVIOUS
<1>2. \E x \in {a, b} : \A y \in {a, b} : x =< y
  OBVIOUS
<1> QED
  BY <1>1, <1>2 DEF Max, Min

LEMMA Extremes ==
  ASSUME NEW S \in SUBSET Int, IsFiniteSet(S), S # {}
  PROVE  /\ Max(S) \in S /\ \A y \in S : Max(S) >= y
         /\ Min(S) \in S /\ \A y \in S : Min(S) =< y
<1> DEFINE Above(a) == {y \in S : y >= a}
           Below(a) == {y \in S : y <= a}
           R == StrictSubsetOrdering(S)
           F == FiniteSubsetsOf(S)
<1>1. IsWellFoundedOn(R, F)
  BY FS_StrictSubsetOrderingWellFounded
<1>2. \A a \in S : Above(a) \in F /\ Below(a) \in F
  <2> TAKE a \in S
  <2>1. Above(a) \in SUBSET S /\ Below(a) \in SUBSET S
    OBVIOUS
  <2>2. IsFiniteSet(Above(a)) /\ IsFiniteSet(Below(a))
    BY <2>1, FS_Subset
  <2> QED
    BY <2>1, <2>2 DEF FiniteSubsetsOf
<1>3. PICK x \in S : \A y \in S : ~ (<<Above(y), Above(x)>> \in R)
  <2>1. PICK A \in {Above(a) : a \in S} : \A B \in {Above(a) : a \in S} : ~ (<<B, A>> \in R)
    <3> DEFINE T == {Above(a) : a \in S}
    <3>1. T \subseteq F /\ T # {}
      BY <1>2
    <3> HIDE DEF T, R, F
    <3> QED
      BY <1>1, <3>1, WFMin DEF T
  <2> QED
    BY <2>1
<1>4. \A y \in S : x >= y
  <2> SUFFICES ASSUME NEW y \in S, y > x PROVE FALSE
    OBVIOUS
  <2>0. x \in Int /\ y \in Int /\ S \subseteq Int
    OBVIOUS
  <2>1. /\ \A w \in S : w >= y => w >= x
        /\ x >= x /\ ~(x >= y)
    BY <2>0
  <2>2. Above(y) \subseteq Above(x) /\ x \in Above(x) /\ x \notin Above(y)
    BY <2>1
  <2> QED
    BY <1>3, <2>2 DEF StrictSubsetOrdering
<1>5. PICK z \in S : \A y \in S : ~ (<<Below(y), Below(z)>> \in R)
  <2>1. PICK A \in {Below(a) : a \in S} : \A B \in {Below(a) : a \in S} : ~ (<<B, A>> \in R)
    <3> DEFINE T == {Below(a) : a \in S}
    <3>1. T \subseteq F /\ T # {}
      BY <1>2
    <3> HIDE DEF T, R, F
    <3> QED
      BY <1>1, <3>1, WFMin DEF T
  <2> QED
    BY <2>1
<1>6. \A y \in S : z =< y
  <2> SUFFICES ASSUME NEW y \in S, y < z PROVE FALSE
    OBVIOUS
  <2>0. z \in Int /\ y \in Int /\ S \subseteq Int
    OBVIOUS
  <2>1. /\ \A w \in S : w <= y => w <= z
        /\ z <= z /\ ~(z <= y)
    BY <2>0
  <2>2. Below(y) \subseteq Below(z) /\ z \in Below(z) /\ z \notin Below(y)
    BY <2>1
  <2> QED
    BY <1>5, <2>2 DEF StrictSubsetOrdering
<1> QED
  BY <1>4, <1>6 DEF Max, Min

LEMMA Steps ==
  ASSUME NEW c \in Nat \ {0}, NEW x \in Nat, NEW y \in Nat, x < y
  PROVE  x * c + c <= y * c
<1>1. PICK d \in Nat : y = x + 1 + d
  <2>1. y - x - 1 \in Nat /\ y = x + 1 + (y - x - 1)
    OBVIOUS
  <2> QED
    BY <2>1
<1>2. y * c = x * c + c + d * c
  BY <1>1
<1>3. d * c >= 0 /\ x * c \in Nat /\ d * c \in Nat
  OBVIOUS
<1> QED
  BY <1>2, <1>3

LEMMA Division ==
  ASSUME NEW a \in Nat, NEW c \in Nat \ {0}
  PROVE  /\ a \div c \in Nat
         /\ (a \div c) * c <= a /\ a < (a \div c) * c + c
  OBVIOUS

LEMMA DivisionGrows ==
  ASSUME NEW a \in Nat, NEW b \in Nat, NEW c \in Nat \ {0}, a <= b
  PROVE  a \div c <= b \div c
<1>1. /\ a \div c \in Nat /\ b \div c \in Nat
      /\ (a \div c) * c <= a /\ b < (b \div c) * c + c
  BY Division
<1> SUFFICES ASSUME b \div c < a \div c PROVE FALSE
  BY <1>1
<1>2. (b \div c) * c + c <= (a \div c) * c
  BY <1>1, Steps
<1>3. (a \div c) * c \in Nat /\ (b \div c) * c \in Nat
  BY <1>1
<1> QED
  BY <1>1, <1>2, <1>3

----------------------------------------------------------------------------
(* The operators of the task.                                              *)

\* The ranges of on_nntp_group start within what is asked for, leave none of
\* it out, and go down.
RangesOf(R, low, high) ==
  /\ R \in Seq(RANGE)
  /\ \A i \in DOMAIN R : R[i] # GROUP /\ R[i].low \in low..high
  /\ \A i, j \in DOMAIN R : i < j => R[j].high <= R[i].low
  /\ \A n \in low..high : \E i \in DOMAIN R : n \in R[i].low..R[i].high

LEMMA RangesCover ==
  ASSUME NEW low \in Nat \ {0}, NEW high \in Nat, low <= high
  PROVE  RangesOf(Ranges(low, high), low, high)
<1> DEFINE last == (high - low) \div INCREMENT
           qty == last + 1
           At(i) == low + (qty - i) * INCREMENT
           R == Ranges(low, high)
<1>1. INCREMENT \in Nat \ {0}
  BY TaskXOverAssumption
<1>2. high - low \in Nat
  OBVIOUS
<1>3. last \in Nat /\ last * INCREMENT <= high - low /\ qty = last + 1 /\ qty \in Nat
  BY <1>1, <1>2, Division
<1>4. R = [i \in 1..qty |-> [low |-> At(i), high |-> At(i) + INCREMENT]]
  BY DEF Ranges
<1> HIDE DEF last, qty
<1>5. \A i \in 1..qty : At(i) \in Nat /\ At(i) >= low /\ At(i) <= high
  <2> TAKE i \in 1..qty
  <2>1. qty - i \in Nat /\ qty - i <= last
    BY <1>3
  <2>2. (qty - i) * INCREMENT \in Nat
    BY <1>1, <2>1
  <2>3. (qty - i) * INCREMENT <= last * INCREMENT
    <3>1. CASE qty - i = last
      BY <3>1, <1>1, <1>3
    <3>2. CASE qty - i < last
      <4>1. (qty - i) * INCREMENT + INCREMENT <= last * INCREMENT
        BY <3>2, <2>1, <1>1, <1>3, Steps
      <4>2. last * INCREMENT \in Nat
        BY <1>1, <1>3
      <4> QED
        BY <4>1, <4>2, <2>2, <1>1
    <3> QED
      BY <3>1, <3>2, <2>1, <1>3
  <2>4. last * INCREMENT \in Nat
    BY <1>1, <1>3
  <2> HIDE DEF last
  <2> QED
    BY <2>2, <2>3, <2>4, <1>3
<1> HIDE DEF R
<1>6. R \in Seq(RANGE)
  <2> HIDE DEF At
  <2>1. \A i \in 1..qty : R[i] \in RANGE
    BY <1>1, <1>4, <1>5 DEF RANGE
  <2> QED
    BY <2>1, <1>3, <1>4
<1>7. \A i \in DOMAIN R : R[i] # GROUP /\ R[i].low \in low..high
  <2> TAKE i \in DOMAIN R
  <2>1. i \in 1..qty /\ R[i] = [low |-> At(i), high |-> At(i) + INCREMENT]
    BY <1>4
  <2> HIDE DEF At
  <2> QED
    BY <2>1, <1>5 DEF GROUP
<1>8. \A i, j \in DOMAIN R : i < j => R[j].high <= R[i].low
  <2> SUFFICES ASSUME NEW i \in DOMAIN R, NEW j \in DOMAIN R, i < j
               PROVE  R[j].high <= R[i].low
    OBVIOUS
  <2>1. /\ i \in 1..qty /\ j \in 1..qty
        /\ R[i].low = At(i) /\ R[j].high = At(j) + INCREMENT
    BY <1>4
  <2>2. qty - j \in Nat /\ qty - i \in Nat /\ qty - j < qty - i
    BY <2>1, <1>3
  <2>3. (qty - j) * INCREMENT + INCREMENT <= (qty - i) * INCREMENT
    BY <2>2, <1>1, Steps
  <2>4. (qty - j) * INCREMENT \in Nat /\ (qty - i) * INCREMENT \in Nat
    BY <2>2, <1>1
  <2> QED
    BY <2>1, <2>3, <2>4, <1>1
<1>9. \A n \in low..high : \E i \in DOMAIN R : n \in R[i].low..R[i].high
  <2> TAKE n \in low..high
  <2>1. PICK q \in Nat : q = (n - low) \div INCREMENT
    BY <1>1, Division
  <2>2. q * INCREMENT <= n - low /\ n - low < q * INCREMENT + INCREMENT
    BY <2>1, <1>1, Division
  <2>3. q <= last
    <3>1. n - low \in Nat /\ n - low <= high - low
      OBVIOUS
    <3> QED
      BY <2>1, <3>1, <1>1, <1>2, DivisionGrows DEF last
  <2>4. PICK i \in 1..qty : qty - i = q
    <3>1. qty - q \in 1..qty /\ qty - (qty - q) = q
      BY <2>3, <1>3
    <3> QED
      BY <3>1
  <2>5. At(i) = low + q * INCREMENT /\ q * INCREMENT \in Nat
    BY <2>4, <1>1
  <2>6. n \in At(i)..(At(i) + INCREMENT)
    BY <2>2, <2>5, <1>1
  <2>7. i \in DOMAIN R /\ R[i].low = At(i) /\ R[i].high = At(i) + INCREMENT
    BY <1>4
  <2> QED
    BY <2>6, <2>7
<1> QED
  BY <1>6, <1>7, <1>8, <1>9 DEF R, RangesOf

\* Sequences put together.
Joined(q, R, m) ==
  /\ q \in Seq(RANGE)
  /\ Len(R) \in Nat /\ DOMAIN R = 1..Len(R)
  /\ \A i \in DOMAIN R : i \in DOMAIN q /\ q[i] = R[i]
  /\ \A i \in DOMAIN q : i \in Nat /\ (i \in 1..Len(R) \/ (i > Len(R) /\ i - Len(R) \in DOMAIN m
                                                        /\ q[i] = m[i - Len(R)]))

LEMMA Concatenation ==
  ASSUME NEW R \in Seq(RANGE), NEW m \in Seq(RANGE)
  PROVE  Joined(R \o m, R, m)
<1> DEFINE q == R \o m
<1>1. /\ q \in Seq(RANGE) /\ Len(R) \in Nat /\ Len(m) \in Nat
      /\ DOMAIN R = 1..Len(R) /\ DOMAIN m = 1..Len(m)
      /\ DOMAIN q = 1..(Len(R) + Len(m))
  OBVIOUS
<1>2. \A i \in DOMAIN R : i \in DOMAIN q /\ q[i] = R[i]
  BY <1>1
<1>3. \A i \in DOMAIN q : ~(i \in 1..Len(R)) =>
        i > Len(R) /\ i - Len(R) \in DOMAIN m /\ q[i] = m[i - Len(R)]
  BY <1>1
<1>4. \A i \in DOMAIN q : i \in Nat
  BY <1>1
<1> HIDE DEF q
<1> QED
  BY <1>1, <1>2, <1>3, <1>4 DEF q, Joined

\* update_work keeps all but the needs, and is done without ranges and
\* connections only.
LEMMA UpdateWorkKeeps ==
  ASSUME NEW k \in TASKXOVER, NEW n \in Int
  PROVE  LET u == UpdateWork(k, n) IN
         /\ u \in TASKXOVER
         /\ u.mode = k.mode /\ u.reffed = k.reffed /\ u.removing = k.removing
         /\ u.mini = k.mini /\ u.started = k.started /\ u.high = k.high
         /\ u.asked = k.asked /\ u.sample = k.sample
         /\ u.work \in {"NEED_NNTP", "WORKING", "COMPLETED"}
         /\ u.work = "COMPLETED" => n <= 0 /\ \A s \in SERVER : u.mini[s] = <<>>
<1> DEFINE servers == {s \in SERVER : k.mini[s] # <<>>}
           work == CASE servers # {} -> "NEED_NNTP"
                     [] servers = {} /\ n > 0 -> "WORKING"
                     [] OTHER -> "COMPLETED"
           u == UpdateWork(k, n)
<1>1. u = [k EXCEPT !.need = servers, !.work = work]
  BY DEF UpdateWork
<1>2. /\ work \in {"NEED_NNTP", "WORKING", "COMPLETED"}
      /\ work = "COMPLETED" => servers = {} /\ ~(n > 0)
  OBVIOUS
<1>3. servers \in SUBSET SERVER /\ (servers = {} => \A s \in SERVER : k.mini[s] = <<>>)
  OBVIOUS
<1> HIDE DEF servers, work, u
<1>4. /\ u \in TASKXOVER
      /\ u.mode = k.mode /\ u.reffed = k.reffed /\ u.removing = k.removing
      /\ u.mini = k.mini /\ u.started = k.started /\ u.high = k.high
      /\ u.asked = k.asked /\ u.sample = k.sample /\ u.work = work
  BY <1>1, <1>2, <1>3 DEF TASKXOVER
<1> QED
  BY <1>2, <1>3, <1>4 DEF u

\* The first number that is asked for: a header below it is left out by the
\* mode, or was known.
LEMMA FirstIsRight ==
  ASSUME Types, NEW k \in TASKXOVER, NEW s \in SERVER, k.mode \in MODE
  PROVE  /\ SampleSize(k, s) \in Nat
         /\ First(k, s) \in Nat \ {0}
         /\ First(k, s) >= server[s].low
         /\ \A n \in Existing(s) : n < First(k, s) =>
              k.mode = "SAMPLE" \/ n <= store.high[s]
<1> DEFINE low == server[s].low
           high == server[s].high
           size == SampleSize(k, s)
           first == First(k, s)
<1>1. /\ low \in Nat \ {0} /\ high \in Nat /\ store.high[s] \in Nat /\ k.sample \in Nat
  BY DEF Types, TASKXOVER
<1>2. size \in Nat
  <2>1. CASE low <= high
    <3>1. size = Min({k.sample, high - low})
      BY <2>1 DEF SampleSize
    <3>2. PICK d \in Nat : d = high - low
      BY <2>1, <1>1
    <3>3. PICK e \in Nat : e = k.sample
      BY <1>1
    <3>4. Min({e, d}) \in {e, d}
      BY PairExtremes
    <3> HIDE DEF size, high, low
    <3> QED
      BY <3>1, <3>2, <3>3, <3>4
  <2>2. CASE ~(low <= high)
    BY <2>2, <1>1 DEF SampleSize
  <2> QED
    BY <2>1, <2>2
<1>3. CASE k.mode \in {"ALL", "DAYS"}
  <2>1. first = low
    BY <1>3 DEF First
  <2> QED
    BY <2>1, <1>1, <1>2 DEF Existing
<1>4. CASE k.mode = "SAMPLE"
  <2>1. first = Max({low, high + 1 - size})
    BY <1>4 DEF First
  <2>2. PICK d \in Int : d = high + 1 - size
    BY <1>1, <1>2
  <2>3. Max({low, d}) \in {low, d} /\ Max({low, d}) >= low
    <3>1. low \in Int /\ d \in Int
      BY <1>1
    <3> HIDE DEF low
    <3> QED
      BY <3>1, PairExtremes
  <2>4. first \in {low, d} /\ first >= low
    <3> HIDE DEF first, low, high, size
    <3> QED
      BY <2>1, <2>2, <2>3
  <2> QED
    BY <2>4, <1>1, <1>2, <1>4
<1>5. CASE k.mode = "NEW"
  <2>1. first = Max({store.high[s] + 1, low})
    BY <1>5 DEF First
  <2>2. PICK d \in Nat : d = store.high[s] + 1
    BY <1>1
  <2>3. Max({d, low}) \in {d, low} /\ Max({d, low}) >= low
    <3>1. low \in Int /\ d \in Int
      BY <1>1
    <3> HIDE DEF low
    <3> QED
      BY <3>1, PairExtremes
  <2>4. first \in {d, low} /\ first >= low
    <3> HIDE DEF first, low
    <3> QED
      BY <2>1, <2>2, <2>3
  <2> QED
    BY <2>2, <2>4, <1>1, <1>2 DEF Existing
<1> QED
  BY <1>3, <1>4, <1>5 DEF MODE

\* on_nntp_group of a server that has answered changes nothing.
LEMMA OnGroupAgain ==
  ASSUME NEW k, NEW s, s \in k.started
  PROVE  OnGroup(k, s) = k
BY DEF OnGroup

\* The first answer of a server adds its ranges, or only its last number.
Grouped(k, s, u) ==
  LET low == First(k, s)
      high == server[s].high
  IN  /\ u \in TASKXOVER
      /\ u.mode = k.mode /\ u.reffed = k.reffed /\ u.removing = k.removing
      /\ u.work = k.work
      /\ u.started = k.started \cup {s}
      /\ \A x \in SERVER \ {s} :
           u.mini[x] = k.mini[x] /\ u.high[x] = k.high[x] /\ u.asked[x] = k.asked[x]
      /\ low <= high => /\ u.mini[s] = Ranges(low, high) \o k.mini[s]
                        /\ u.high[s] = k.high[s] /\ u.asked[s] = low..high
      /\ low > high => /\ u.mini[s] = k.mini[s]
                       /\ u.high[s] = high /\ u.asked[s] = k.asked[s]

LEMMA OnGroupFirst ==
  ASSUME Types, NEW k \in TASKXOVER, NEW s \in SERVER, k.mode \in MODE, s \notin k.started
  PROVE  Grouped(k, s, OnGroup(k, s))
<1> DEFINE low == First(k, s)
           high == server[s].high
           sample == IF k.mode = "SAMPLE" THEN SampleSize(k, s) ELSE k.sample
           mini == Ranges(low, high) \o k.mini[s]
           u == OnGroup(k, s)
<1>1. low \in Nat \ {0} /\ high \in Nat /\ sample \in Nat
  BY FirstIsRight DEF Types, TASKXOVER
<1>2. /\ u \in TASKXOVER
      /\ u.mode = k.mode /\ u.reffed = k.reffed /\ u.removing = k.removing
      /\ u.work = k.work
      /\ u.started = k.started \cup {s}
      /\ \A x \in SERVER \ {s} :
           u.mini[x] = k.mini[x] /\ u.high[x] = k.high[x] /\ u.asked[x] = k.asked[x]
      /\ low <= high => /\ u.mini[s] = Ranges(low, high) \o k.mini[s]
                        /\ u.high[s] = k.high[s] /\ u.asked[s] = low..high
      /\ low > high => /\ u.mini[s] = k.mini[s]
                       /\ u.high[s] = high /\ u.asked[s] = k.asked[s]
  <2>1. CASE low <= high
    <3>1. u = [k EXCEPT !.started = @ \cup {s}, !.asked[s] = low..high,
                        !.mini[s] = mini, !.sample = sample]
      BY <2>1 DEF OnGroup
    <3>2. mini \in Seq(RANGE) /\ low..high \in SUBSET Nat
      <4>1. Ranges(low, high) \in Seq(RANGE)
        BY <1>1, <2>1, RangesCover DEF RangesOf
      <4>2. k.mini[s] \in Seq(RANGE)
        BY DEF TASKXOVER
      <4> QED
        BY <4>1, <4>2, <1>1
    <3>3. u.mini[s] = mini
      <4> HIDE DEF mini, sample, low, high
      <4> QED
        BY <3>1, <3>2 DEF TASKXOVER
    <3>4. /\ u \in TASKXOVER
          /\ u.mode = k.mode /\ u.reffed = k.reffed /\ u.removing = k.removing
          /\ u.work = k.work /\ u.started = k.started \cup {s} /\ u.high = k.high
          /\ u.asked[s] = low..high
          /\ \A x \in SERVER \ {s} : u.mini[x] = k.mini[x] /\ u.asked[x] = k.asked[x]
      <4> HIDE DEF mini, sample, u, low, high
      <4> QED
        BY <3>1, <3>2, <1>1 DEF TASKXOVER
    <3> HIDE DEF u, low, high
    <3> QED
      BY <3>3, <3>4, <2>1, <1>1 DEF mini
  <2>2. CASE ~(low <= high)
    <3>1. u = [k EXCEPT !.started = @ \cup {s}, !.high[s] = high, !.sample = sample]
      BY <2>2 DEF OnGroup
    <3>2. /\ u \in TASKXOVER
          /\ u.mode = k.mode /\ u.reffed = k.reffed /\ u.removing = k.removing
          /\ u.work = k.work /\ u.started = k.started \cup {s} /\ u.mini = k.mini
          /\ u.high[s] = high /\ u.asked = k.asked
          /\ \A x \in SERVER \ {s} : u.high[x] = k.high[x]
      <4> HIDE DEF sample, u, high, low
      <4> QED
        BY <3>1, <1>1 DEF TASKXOVER
    <3> HIDE DEF u, low, high
    <3> QED
      BY <3>2, <2>2, <1>1
  <2> QED
    BY <2>1, <2>2
<1> HIDE DEF u, low, high
<1> QED
  BY <1>2 DEF u, low, high, Grouped

\* Taking lines moves the number that is known no further than the lines.
Taken(k, s, ns, u) ==
  /\ u \in TASKXOVER
  /\ u.mode = k.mode /\ u.reffed = k.reffed /\ u.removing = k.removing
  /\ u.work = k.work /\ u.started = k.started /\ u.asked = k.asked
  /\ \A x \in SERVER \ {s} : u.mini[x] = k.mini[x] /\ u.high[x] = k.high[x]
  /\ Outdated(k, s, ns) = {} => u.mini[s] = k.mini[s]
  /\ Outdated(k, s, ns) # {} => u.mini[s] = <<>>
  /\ u.high[s] \in {k.high[s]} \cup ns

LEMMA TakeMoves ==
  ASSUME NEW k \in TASKXOVER, NEW s \in SERVER, NEW ns \in SUBSET Nat, IsFiniteSet(ns)
  PROVE  Taken(k, s, ns, Take(k, s, ns))
<1> DEFINE mini == IF Outdated(k, s, ns) = {} THEN k.mini[s] ELSE <<>>
           read == Readable(s, ns)
           high == Max({k.high[s]} \cup read)
           u == Take(k, s, ns)
<1>0. read \in SUBSET Nat /\ IsFiniteSet(read) /\ read \subseteq ns
  <2>1. read \subseteq ns
    BY DEF Readable
  <2> HIDE DEF read
  <2> QED
    BY <2>1, FS_Subset
<1> HIDE DEF read
<1>1. high \in {k.high[s]} \cup ns
  <2>1. k.high[s] \in Nat
    BY DEF TASKXOVER
  <2>2. PICK S : S = {k.high[s]} \cup read
    OBVIOUS
  <2>3. S \in SUBSET Int /\ S # {}
    <3> HIDE DEF mini, high, u
    <3>1. \A x \in S : x \in Nat
      BY <1>0, <2>1, <2>2
    <3>2. k.high[s] \in S
      BY <2>2
    <3> QED
      BY <3>1, <3>2
  <2>4. IsFiniteSet(S)
    <3>1. S = read \cup {k.high[s]}
      BY <2>2, Zenon
    <3> QED
      BY <1>0, <3>1, FS_AddElement
  <2>5. Max(S) \in S
    BY <2>3, <2>4, Extremes
  <2> QED
    BY <1>0, <2>2, <2>5
<1>2. high \in Nat /\ mini \in Seq(RANGE)
  <2>1. k.high[s] \in Nat /\ k.mini[s] \in Seq(RANGE) /\ <<>> \in Seq(RANGE)
    BY DEF TASKXOVER
  <2> HIDE DEF high
  <2> QED
    BY <1>1, <2>1
<1>3. u = [k EXCEPT !.high[s] = high, !.mini[s] = mini]
  BY DEF Take, read
<1>4. /\ Outdated(k, s, ns) = {} => mini = k.mini[s]
      /\ Outdated(k, s, ns) # {} => mini = <<>>
  OBVIOUS
<1>5. /\ u \in TASKXOVER
      /\ u.mode = k.mode /\ u.reffed = k.reffed /\ u.removing = k.removing
      /\ u.work = k.work /\ u.started = k.started /\ u.asked = k.asked
      /\ \A x \in SERVER \ {s} : u.mini[x] = k.mini[x] /\ u.high[x] = k.high[x]
      /\ u.mini[s] = mini /\ u.high[s] = high
  <2> HIDE DEF mini, high, u
  <2> QED
    BY <1>2, <1>3 DEF TASKXOVER
<1> HIDE DEF mini, high, u
<1>6. /\ u \in TASKXOVER
      /\ u.mode = k.mode /\ u.reffed = k.reffed /\ u.removing = k.removing
      /\ u.work = k.work /\ u.started = k.started /\ u.asked = k.asked
      /\ \A x \in SERVER \ {s} : u.mini[x] = k.mini[x] /\ u.high[x] = k.high[x]
      /\ Outdated(k, s, ns) = {} => u.mini[s] = k.mini[s]
      /\ Outdated(k, s, ns) # {} => u.mini[s] = <<>>
      /\ u.high[s] \in {k.high[s]} \cup ns
  BY <1>1, <1>4, <1>5
<1> QED
  BY <1>6 DEF u, Taken

----------------------------------------------------------------------------
(* What a task has yet to receive.                                         *)

LEMMA NoneIsNoTask == None \notin TASK
BY TaskXOverAssumption

LEMMA ServerOfType == \A c \in CONN : ServerOf[c] \in SERVER
BY TaskXOverAssumption

\* A header that has yet to be received is in a range of the task, or in one
\* that a connection of its was given.
LEMMA PendingIs ==
  ASSUME NEW t, NEW s, NEW n
  PROVE  /\ n \in Pending(t, s) <=>
              \/ \E i \in DOMAIN task[t].mini[s] : n \in Headers(s, task[t].mini[s][i])
              \/ \E c \in CONN : conn[c].task = t /\ ServerOf[c] = s /\ n \in InConn(c)
         /\ n \in Pending(t, s)' <=>
              \/ \E i \in DOMAIN task'[t].mini[s] : n \in Headers(s, task[t].mini[s][i])'
              \/ \E c \in CONN : conn'[c].task = t /\ ServerOf[c] = s /\ n \in InConn(c)'
<1>1. n \in Left(task[t], s) <=>
        \E i \in DOMAIN task[t].mini[s] : n \in Headers(s, task[t].mini[s][i])
  BY DEF Left, ToSet
<1>2. n \in Left(task[t], s)' <=>
        \E i \in DOMAIN task'[t].mini[s] : n \in Headers(s, task[t].mini[s][i])'
  <2> DEFINE E == Existing(s)'
  <2>1. PICK q : q = task'[t].mini[s]
    OBVIOUS
  <2>2. Left(task[t], s)' = UNION {E \cap (r.low..r.high) : r \in ToSet(q)}
    BY <2>1 DEF Left, Headers
  <2>3. \A r : r \in ToSet(q) <=> \E i \in DOMAIN q : r = q[i]
    BY DEF ToSet
  <2>4. \A i \in DOMAIN q : Headers(s, task[t].mini[s][i])' = E \cap (q[i].low..q[i].high)
    BY <2>1 DEF Headers
  <2> HIDE DEF E
  <2>5. n \in UNION {E \cap (r.low..r.high) : r \in ToSet(q)} <=>
          \E i \in DOMAIN q : n \in E \cap (q[i].low..q[i].high)
    BY <2>3
  <2> QED
    BY <2>1, <2>2, <2>4, <2>5
<1>3. n \in UNION {InConn(c) : c \in {x \in Conns(t) : ServerOf[x] = s}} <=>
        \E c \in CONN : conn[c].task = t /\ ServerOf[c] = s /\ n \in InConn(c)
  BY DEF Conns
<1>4. n \in (UNION {InConn(c) : c \in {x \in Conns(t) : ServerOf[x] = s}})' <=>
        \E c \in CONN : conn'[c].task = t /\ ServerOf[c] = s /\ n \in InConn(c)'
  BY DEF Conns, InConn, Headers, Existing
<1> QED
  BY <1>1, <1>2, <1>3, <1>4 DEF Pending

\* The two places it waits in.
WaitsInMini(t, s, n) ==
  \E i \in DOMAIN task[t].mini[s] : n \in Headers(s, task[t].mini[s][i])
WaitsInConn(t, s, n) ==
  \E c \in CONN : conn[c].task = t /\ ServerOf[c] = s /\ n \in InConn(c)

LEMMA PendingWaits ==
  ASSUME NEW t, NEW s, NEW n
  PROVE  /\ n \in Pending(t, s) <=> WaitsInMini(t, s, n) \/ WaitsInConn(t, s, n)
         /\ n \in Pending(t, s)' <=> WaitsInMini(t, s, n)' \/ WaitsInConn(t, s, n)'
BY PendingIs DEF WaitsInMini, WaitsInConn

\* It exists.
LEMMA PendingExists ==
  ASSUME Connected, NEW t \in TASK, NEW s \in SERVER
  PROVE  Pending(t, s) \subseteq Existing(s)
<1> SUFFICES ASSUME NEW n \in Pending(t, s) PROVE n \in Existing(s)
  OBVIOUS
<1>1. CASE \E i \in DOMAIN task[t].mini[s] : n \in Headers(s, task[t].mini[s][i])
  BY <1>1 DEF Headers
<1>2. CASE \E c \in CONN : conn[c].task = t /\ ServerOf[c] = s /\ n \in InConn(c)
  <2>1. PICK c \in CONN : conn[c].task = t /\ ServerOf[c] = s /\ n \in InConn(c)
    BY <1>2
  <2>2. Working(c)
    BY <2>1, NoneIsNoTask DEF Connected, IdleConn
  <2> QED
    BY <2>1, <2>2 DEF InConn, Working, Headers
<1> QED
  BY <1>1, <1>2, PendingIs

LEMMA PendingExistsThen ==
  ASSUME Connected', NEW t \in TASK, NEW s \in SERVER
  PROVE  Pending(t, s)' \subseteq Existing(s)'
<1> SUFFICES ASSUME NEW n, n \in Pending(t, s)' PROVE n \in Existing(s)'
  OBVIOUS
<1>1. CASE WaitsInMini(t, s, n)'
  BY <1>1 DEF WaitsInMini, Headers
<1>2. CASE WaitsInConn(t, s, n)'
  <2>1. PICK c \in CONN : conn'[c].task = t /\ ServerOf[c] = s /\ n \in InConn(c)'
    BY <1>2 DEF WaitsInConn
  <2>2. Working(c)'
    BY <2>1, NoneIsNoTask DEF Connected, IdleConn
  <2> QED
    BY <2>1, <2>2 DEF InConn, Working, Headers
<1> QED
  BY <1>1, <1>2, PendingWaits

\* A task that a step does not touch stays sound.
LEMMA Undisturbed ==
  ASSUME NEW t \in TASK, Queued(t) => Sound(t), task'[t] = task[t],
         \A c \in CONN : conn'[c].task = t \/ conn[c].task = t => conn'[c] = conn[c],
         server' = server, Accounted \subseteq Accounted'
  PROVE  (Queued(t) => Sound(t))'
<1> SUFFICES ASSUME Queued(t)' PROVE Sound(t)'
  OBVIOUS
<1>1. Sound(t)
  BY DEF Queued
<1>2. Conns(t)' = Conns(t) /\ \A c \in Conns(t) : conn'[c] = conn[c]
  BY DEF Conns
<1>3. \A s : Existing(s)' = Existing(s)
  BY DEF Existing
<1>4. \A s : Pending(t, s)' = Pending(t, s)
  <2>1. \A c \in Conns(t) : InConn(c)' = InConn(c)
    BY <1>2, <1>3 DEF InConn, Headers
  <2>2. \A s : Left(task[t], s)' = Left(task[t], s)
    BY <1>3 DEF Left, Headers
  <2> QED
    BY <1>2, <2>1, <2>2 DEF Pending
<1>5. \A s \in SERVER : Frontier(t, s)'
  BY <1>1, <1>3, <1>4 DEF Sound, Frontier, Reached
<1>6. \A s \in SERVER : Order(t, s)'
  BY <1>1, <1>2 DEF Sound, Order
<1> QED
  BY <1>1, <1>2, <1>5, <1>6 DEF Sound

\* The frontier of a task stays true when what it no longer waits for is
\* accounted for, and its number moves no further than what it waited for.
LEMMA Advances ==
  ASSUME Types, Types', Connected, NEW t \in TASK, NEW s \in SERVER, Frontier(t, s),
         server' = server, Accounted \subseteq Accounted',
         task'[t].asked[s] = task[t].asked[s],
         task'[t].high[s] \in {task[t].high[s]} \cup Pending(t, s),
         Pending(t, s)' \subseteq Pending(t, s),
         \A n \in Pending(t, s) : n \notin Pending(t, s)' => <<s, n>> \in Accounted'
  PROVE  Frontier(t, s)'
<1>1. Existing(s)' = Existing(s) /\ Pending(t, s) \subseteq Existing(s)
  BY PendingExists DEF Existing
<1>2. /\ server[s].low \in Nat /\ server[s].high \in Nat
      /\ task[t].high[s] \in Nat /\ task[t].asked[s] \subseteq Nat
  BY DEF Types, TASKXOVER
<1>3. task'[t].high[s] <= server'[s].high
  BY <1>1, <1>2 DEF Frontier, Existing
<1>4. \A n \in Existing(s) : Reached(t, s, n)' => Reached(t, s, n)
  BY DEF Reached
<1> QED
  BY <1>1, <1>3, <1>4 DEF Frontier

\* The connections with a range of the task had it before.
RangesKept(t, s) ==
  \A c \in CONN : /\ conn'[c].task = t /\ ServerOf[c] = s
                  /\ conn'[c].stage \in {"enter", "lines"}
                  => /\ conn[c].task = t /\ conn[c].stage \in {"enter", "lines"}
                     /\ conn'[c].range = conn[c].range

\* The order of its ranges stays when they are kept or dropped.
LEMMA OrderKept ==
  ASSUME NEW t \in TASK, NEW s \in SERVER, Order(t, s),
         task'[t].mini[s] = task[t].mini[s] \/ task'[t].mini[s] = <<>>,
         task'[t].asked[s] = task[t].asked[s],
         task[t].reffed => task'[t].reffed, task[t].started \subseteq task'[t].started,
         RangesKept(t, s)
  PROVE  Order(t, s)'
<1>1. DOMAIN <<>> = {}
  OBVIOUS
<1>2. \A c \in Conns(t)' : c \in CONN /\ conn'[c].task = t
  BY DEF Conns
<1>3. \A c \in CONN : conn[c].task = t => c \in Conns(t)
  BY DEF Conns
<1>4. CASE task'[t].mini[s] = task[t].mini[s]
  BY <1>2, <1>3, <1>4 DEF Order, RangesKept
<1>5. CASE task'[t].mini[s] = <<>>
  BY <1>1, <1>2, <1>3, <1>5 DEF Order, RangesKept
<1> QED
  BY <1>4, <1>5

\* What of a server a task must keep.
SameFor(t, s) ==
  /\ task'[t].mini[s] = task[t].mini[s] /\ task'[t].high[s] = task[t].high[s]
  /\ task'[t].asked[s] = task[t].asked[s]
  /\ task[t].reffed => task'[t].reffed
  /\ task[t].started \subseteq task'[t].started

\* A step of a connection leaves what its task has of other servers alone.
LEMMA OtherServers ==
  ASSUME Types, Types', Connected,
         NEW t \in TASK, NEW c \in CONN, NEW s \in SERVER, s # ServerOf[c],
         Frontier(t, s), Order(t, s),
         \A d \in CONN \ {c} : conn'[d] = conn[d],
         server' = server, Accounted \subseteq Accounted', SameFor(t, s)
  PROVE  Frontier(t, s)' /\ Order(t, s)'
<1>1. \A d \in CONN : ServerOf[d] = s => conn'[d] = conn[d] /\ InConn(d)' = InConn(d)
  BY DEF InConn, Headers, Existing
<1>2. \A r : Headers(s, r)' = Headers(s, r)
  BY DEF Headers, Existing
<1>3. Pending(t, s)' = Pending(t, s)
  <2>1. ASSUME NEW n PROVE n \in Pending(t, s)' <=> n \in Pending(t, s)
    <3>1. (\E i \in DOMAIN task'[t].mini[s] : n \in Headers(s, task[t].mini[s][i])')
          <=> \E i \in DOMAIN task[t].mini[s] : n \in Headers(s, task[t].mini[s][i])
      BY <1>2 DEF SameFor
    <3>2. (\E d \in CONN : conn'[d].task = t /\ ServerOf[d] = s /\ n \in InConn(d)')
          <=> \E d \in CONN : conn[d].task = t /\ ServerOf[d] = s /\ n \in InConn(d)
      BY <1>1
    <3> QED
      BY <3>1, <3>2, PendingIs
  <2> QED
    BY <2>1
<1>4. Frontier(t, s)'
  BY <1>3, Advances DEF SameFor
<1>5. Order(t, s)'
  <2>1. RangesKept(t, s)
    BY <1>1 DEF RangesKept
  <2> QED
    BY <2>1, OrderKept DEF SameFor
<1> QED
  BY <1>4, <1>5

----------------------------------------------------------------------------
(* The store and the step of a connection.                                 *)

\* The store is loaded while a task holds it.
LEMMA HolderLoads ==
  ASSUME Types, Store, NEW t \in Holders
  PROVE  store.refs > 0 /\ Loaded(store) /\ IsFiniteSet(Holders)
<1>1. IsFiniteSet(Holders)
  <2>1. IsFiniteSet(TASK) /\ Holders \in SUBSET TASK
    BY TaskXOverAssumption DEF Holders
  <2> QED
    BY <2>1, FS_Subset
<1>2. Cardinality(Holders) # 0 /\ Cardinality(Holders) \in Nat
  BY <1>1, FS_EmptySet, FS_CardinalityType
<1> QED
  BY <1>1, <1>2 DEF Store, Loaded

\* The store of a working connection is loaded.
LEMMA WorkingLoads ==
  ASSUME Inv, NEW c \in CONN, conn[c].stage # "idle"
  PROVE  /\ Working(c) /\ conn[c].task \in Holders /\ Loaded(store)
         /\ Queued(conn[c].task) /\ Sound(conn[c].task)
         /\ task[conn[c].task] \in TASKXOVER /\ task[conn[c].task].mode \in MODE
<1>1. Working(c)
  BY DEF Inv, Connected, IdleConn
<1>2. conn[c].task \in Holders
  BY <1>1 DEF Working, Holders
<1>3. Loaded(store)
  BY <1>2, HolderLoads DEF Inv
<1>4. Queued(conn[c].task) /\ Sound(conn[c].task) /\ conn[c].task \in TASK
  BY <1>1 DEF Working, Inv, Tasks
<1> QED
  BY <1>1, <1>2, <1>3, <1>4 DEF Inv, Types, Sound

\* More is accounted for, and nothing else of the store changes.
LEMMA MoreIsKnown ==
  ASSUME Store, HighIsTrue, server' = server, disk' = disk, Holders' = Holders,
         store'.refs = store.refs, store'.shown = store.shown,
         store'.saving = store.saving, store'.high = store.high,
         store.have \subseteq store'.have,
         unwanted \subseteq unwanted', missed \subseteq missed'
  PROVE  Store' /\ HighIsTrue' /\ Accounted \subseteq Accounted'
<1>1. Loaded(store)' <=> Loaded(store)
  BY DEF Loaded
<1>2. Store'
  BY <1>1 DEF Store
<1>3. Accounted \subseteq Accounted'
  BY <1>1 DEF Accounted, Known
<1>4. HighIsTrue'
  BY <1>3 DEF HighIsTrue, Existing
<1> QED
  BY <1>2, <1>3, <1>4

\* What a step for one server leaves of the task, and what it must leave of a
\* task it completes.
LeavesOthers(t, s, u) ==
  /\ u.mode = task[t].mode
  /\ task[t].reffed => u.reffed
  /\ task[t].started \subseteq u.started
  /\ \A x \in SERVER \ {s} :
       /\ u.mini[x] = task[t].mini[x] /\ u.high[x] = task[t].high[x]
       /\ u.asked[x] = task[t].asked[x]

CompletesEmpty(t, u) ==
  u.work = "COMPLETED" => Conns(t)' = {} /\ \A x \in SERVER : u.mini[x] = <<>>

\* The tasks are sound after a connection's step if its task is, for its
\* server.
LEMMA TasksAfter ==
  ASSUME Inv, Types', NEW c \in CONN, NEW t \in TASK, Queued(t),
         NEW u \in TASKXOVER, NEW v,
         conn[c].task = t \/ conn[c] = IdleConn, v.task = t \/ v = IdleConn,
         task' = [task EXCEPT ![t] = u], conn' = [conn EXCEPT ![c] = v],
         server' = server, Accounted \subseteq Accounted',
         NEW s, s = ServerOf[c], LeavesOthers(t, s, u),
         Frontier(t, s)', Order(t, s)', CompletesEmpty(t, u)
  PROVE  Tasks'
<1>1. task \in [TASK -> TASKXOVER] /\ DOMAIN conn = CONN
  BY DEF Inv, Types
<1>2. /\ task'[t] = u /\ \A x \in TASK \ {t} : task'[x] = task[x]
      /\ conn'[c] = v /\ \A d \in CONN \ {c} : conn'[d] = conn[d]
  BY <1>1
<1>3. ASSUME NEW x \in TASK, x # t PROVE (Queued(x) => Sound(x))'
  <2>1. \A d \in CONN : conn'[d].task = x \/ conn[d].task = x => conn'[d] = conn[d]
    BY <1>2, <1>3, NoneIsNoTask DEF IdleConn
  <2>2. Queued(x) => Sound(x)
    BY DEF Inv, Tasks
  <2>3. task'[x] = task[x]
    BY <1>2, <1>3
  <2> QED
    BY <2>1, <2>2, <2>3, Undisturbed
<1>4. Sound(t)
  BY DEF Inv, Tasks
<1>5. ASSUME NEW x \in SERVER, x # s PROVE Frontier(t, x)' /\ Order(t, x)'
  <2>1. Frontier(t, x) /\ Order(t, x)
    BY <1>4 DEF Sound
  <2>2. SameFor(t, x)
    BY <1>2, <1>5 DEF LeavesOthers, SameFor
  <2> QED
    <3>1. x # ServerOf[c] /\ \A d \in CONN \ {c} : conn'[d] = conn[d]
      BY <1>2, <1>5
    <3>2. Types /\ Connected
      BY DEF Inv
    <3> QED
      BY <2>1, <2>2, <3>1, <3>2, OtherServers
<1>6. Sound(t)'
  BY <1>2, <1>4, <1>5 DEF Sound, LeavesOthers, CompletesEmpty
<1> QED
  BY <1>3, <1>6 DEF Tasks

\* The connections are right after a step of one if that one is.
LEMMA ConnectedAfter ==
  ASSUME Inv, NEW c \in CONN, NEW t \in TASK,
         NEW u \in TASKXOVER, NEW v,
         task' = [task EXCEPT ![t] = u], conn' = [conn EXCEPT ![c] = v],
         server' = server, u.work \notin {"NONE", "GONE"},
         task[t].reffed => u.reffed,
         v = IdleConn \/ Working(c)'
  PROVE  Connected'
<1>1. task \in [TASK -> TASKXOVER] /\ DOMAIN conn = CONN
  BY DEF Inv, Types
<1>2. /\ task'[t] = u /\ \A x \in TASK \ {t} : task'[x] = task[x]
      /\ conn'[c] = v /\ \A d \in CONN \ {c} : conn'[d] = conn[d]
  BY <1>1
<1>3. ASSUME NEW d \in CONN, d # c PROVE conn'[d] = IdleConn \/ Working(d)'
  <2>1. conn[d] = IdleConn \/ Working(d)
    BY DEF Inv, Connected
  <2>2. conn'[d] = conn[d]
    BY <1>2, <1>3
  <2>3. ASSUME Working(d) PROVE Working(d)'
    <3>1. /\ conn'[d].task \in TASK /\ conn'[d].stage # "idle"
          /\ conn'[d].stage \in {"enter", "lines"} => conn'[d].range # GROUP
          /\ conn'[d].stage = "group" => conn'[d].range = GROUP
          /\ conn'[d].stage # "lines" => conn'[d].todo = {}
      BY <2>2, <2>3 DEF Working
    <3>2. conn'[d].todo \subseteq Headers(ServerOf[d], conn[d].range)'
      BY <2>2, <2>3 DEF Working, Headers, Existing
    <3>3. Queued(conn[d].task)' /\ task'[conn'[d].task].reffed
      BY <1>2, <2>2, <2>3 DEF Working, Queued
    <3> QED
      BY <3>1, <3>2, <3>3 DEF Working
  <2> QED
    BY <2>1, <2>2, <2>3
<1>4. IdleConn' = IdleConn
  BY DEF IdleConn, GROUP
<1> QED
  BY <1>2, <1>3, <1>4 DEF Connected

\* on_nntp_done takes the connection from the task, which is complete only
\* if that was its last.
LEMMA DoneTakes ==
  ASSUME Inv, NEW c \in CONN, conn[c].stage # "idle", NEW t \in TASK, t = conn[c].task,
         NEW k \in TASKXOVER, Done(c, k)
  PROVE  \E u \in TASKXOVER :
           /\ task' = [task EXCEPT ![t] = u]
           /\ conn' = [conn EXCEPT ![c] = IdleConn]
           /\ u.mode = k.mode /\ u.reffed = k.reffed /\ u.removing = k.removing
           /\ u.mini = k.mini /\ u.started = k.started /\ u.high = k.high
           /\ u.asked = k.asked
           /\ u.work \in {"NEED_NNTP", "WORKING", "COMPLETED"}
           /\ CompletesEmpty(t, u)
<1>2. PICK n : n = Cardinality(Conns(t)) - 1
  OBVIOUS
<1>3. PICK u : u = UpdateWork(k, n)
  OBVIOUS
<1>4. IsFiniteSet(Conns(t)) /\ c \in Conns(t)
  <2>1. Conns(t) \in SUBSET CONN /\ IsFiniteSet(CONN)
    BY TaskXOverAssumption DEF Conns
  <2> QED
    BY <2>1, FS_Subset DEF Conns
<1>5. Cardinality(Conns(t)) \in Nat
  BY <1>4, FS_CardinalityType
<1>6. n \in Int
  BY <1>2, <1>5
<1>7. task' = [task EXCEPT ![t] = u] /\ conn' = [conn EXCEPT ![c] = IdleConn]
  BY <1>2, <1>3 DEF Done
<1>8. Conns(t)' = Conns(t) \ {c}
  <2>1. conn'[c].task # t /\ \A d \in CONN \ {c} : conn'[d] = conn[d]
    BY <1>7, NoneIsNoTask DEF IdleConn, Inv, Types
  <2> QED
    BY <2>1 DEF Conns
<1>9. n <= 0 => Conns(t)' = {}
  <2>1. /\ IsFiniteSet(Conns(t) \ {c})
        /\ Cardinality(Conns(t) \ {c}) = Cardinality(Conns(t)) - 1
    BY <1>4, FS_RemoveElement
  <2>2. Cardinality(Conns(t) \ {c}) \in Nat
    BY <2>1, FS_CardinalityType
  <2>3. n <= 0 => Cardinality(Conns(t) \ {c}) = 0
    BY <1>2, <1>5, <2>1, <2>2
  <2> QED
    BY <1>8, <2>1, <2>3, FS_EmptySet
<1>10. /\ u \in TASKXOVER
       /\ u.mode = k.mode /\ u.reffed = k.reffed /\ u.removing = k.removing
       /\ u.mini = k.mini /\ u.started = k.started /\ u.high = k.high
       /\ u.asked = k.asked
       /\ u.work \in {"NEED_NNTP", "WORKING", "COMPLETED"}
       /\ u.work = "COMPLETED" => n <= 0 /\ \A x \in SERVER : u.mini[x] = <<>>
  BY <1>3, <1>6, UpdateWorkKeeps
<1>11. u.work = "COMPLETED" => Conns(t)' = {}
  BY <1>9, <1>10
<1> QED
  BY <1>7, <1>10, <1>11 DEF CompletesEmpty

\* What a connection's answer or its loss leaves of what its task waited for.
Answered(c, t, n) == n \in InConn(c) /\ (conn'[c].task = t => n \notin InConn(c)')
Unasked(t, s, n) ==
  /\ task'[t].mini[s] = <<>> /\ task[t].mini[s] # <<>>
  /\ \E i \in DOMAIN task[t].mini[s] : n \in Headers(s, task[t].mini[s][i])

LEMMA PendingShrinks ==
  ASSUME NEW c \in CONN, NEW t, NEW s, s = ServerOf[c], conn[c].task = t,
         server' = server, \A d \in CONN \ {c} : conn'[d] = conn[d],
         task'[t].mini[s] = task[t].mini[s] \/ task'[t].mini[s] = <<>>,
         conn'[c].task = t => InConn(c)' \subseteq InConn(c)
  PROVE  /\ Pending(t, s)' \subseteq Pending(t, s)
         /\ \A n \in Pending(t, s) : n \notin Pending(t, s)' =>
              Answered(c, t, n) \/ Unasked(t, s, n)
<1> DEFINE OfMini(n) == \E i \in DOMAIN task[t].mini[s] : n \in Headers(s, task[t].mini[s][i])
           OfConn(d, n) == conn[d].task = t /\ ServerOf[d] = s /\ n \in InConn(d)
<1>1. \A n : n \in Pending(t, s) <=> OfMini(n) \/ \E d \in CONN : OfConn(d, n)
  BY PendingIs
<1>2. \A n : n \in Pending(t, s)' <=> OfMini(n)' \/ \E d \in CONN : OfConn(d, n)'
  BY PendingIs
<1>3. \A n : OfMini(n)' => OfMini(n)
  BY DEF Headers, Existing
<1>4. \A n : task'[t].mini[s] = task[t].mini[s] => (OfMini(n) => OfMini(n)')
  BY DEF Headers, Existing
<1>5. \A d \in CONN \ {c} : \A n : OfConn(d, n)' <=> OfConn(d, n)
  BY DEF InConn, Headers, Existing
<1>6. \A n : /\ OfConn(c, n) <=> n \in InConn(c)
             /\ OfConn(c, n)' <=> conn'[c].task = t /\ n \in InConn(c)'
  OBVIOUS
<1> HIDE DEF OfMini, OfConn
<1>7. \A n : n \in Pending(t, s)' => n \in Pending(t, s)
  BY <1>1, <1>2, <1>3, <1>5, <1>6
<1>8. ASSUME NEW n, n \in Pending(t, s), n \notin Pending(t, s)'
      PROVE  Answered(c, t, n) \/ (task'[t].mini[s] # task[t].mini[s] /\ OfMini(n))
  BY <1>1, <1>2, <1>4, <1>5, <1>6, <1>8 DEF Answered
<1> QED
  BY <1>7, <1>8 DEF OfMini, Unasked

CONNECTION ==
  [task : TASK \cup {None}, stage : {"idle", "group", "enter", "lines"},
   range : RANGE, todo : SUBSET Nat]

LEMMA IdleConnType == IdleConn \in CONNECTION /\ GROUP \in RANGE
BY DEF IdleConn, CONNECTION, GROUP, RANGE

\* Headers have the type of the store's.
LEMMA OfType ==
  ASSUME NEW s \in SERVER, NEW ns \in SUBSET Nat
  PROVE  Of(s, ns) \in HEADERS
BY DEF Of, HEADERS

\* A lost connection, or a refusal.
LEMMA DropKeeps ==
  ASSUME Inv, NEW c \in CONN, Drop(c)
  PROVE  Inv'
<1>0. PICK t, s : t = conn[c].task /\ s = ServerOf[c]
  OBVIOUS
<1>1. /\ conn[c].stage # "idle" /\ Done(c, task[t])
      /\ server' = server /\ store' = store /\ disk' = disk /\ unwanted' = unwanted
  BY <1>0 DEF Drop
<1>2. /\ Working(c) /\ t \in TASK /\ s \in SERVER /\ Queued(t) /\ Sound(t)
      /\ task[t] \in TASKXOVER /\ task[t].reffed
  BY <1>0, <1>1, WorkingLoads, ServerOfType DEF Working
<1>3. PICK u \in TASKXOVER :
        /\ task' = [task EXCEPT ![t] = u] /\ conn' = [conn EXCEPT ![c] = IdleConn]
        /\ u.mode = task[t].mode /\ u.reffed = task[t].reffed
        /\ u.removing = task[t].removing
        /\ u.mini = task[t].mini /\ u.started = task[t].started
        /\ u.high = task[t].high /\ u.asked = task[t].asked
        /\ u.work \in {"NEED_NNTP", "WORKING", "COMPLETED"}
        /\ CompletesEmpty(t, u)
  <2>1. PICK k \in TASKXOVER : k = task[t]
    BY <1>2
  <2>2. conn[c].stage # "idle" /\ t \in TASK /\ t = conn[c].task /\ Done(c, k)
    BY <1>0, <1>1, <1>2, <2>1
  <2>3. \E u \in TASKXOVER :
           /\ task' = [task EXCEPT ![t] = u]
           /\ conn' = [conn EXCEPT ![c] = IdleConn]
           /\ u.mode = k.mode /\ u.reffed = k.reffed /\ u.removing = k.removing
           /\ u.mini = k.mini /\ u.started = k.started /\ u.high = k.high
           /\ u.asked = k.asked
           /\ u.work \in {"NEED_NNTP", "WORKING", "COMPLETED"}
           /\ CompletesEmpty(t, u)
    BY <2>2, DoneTakes
  <2> QED
    BY <2>1, <2>3
<1>4. missed' = missed \cup Of(s, InConn(c)) /\ InConn(c) \subseteq Nat
  <2>1. InConn(c) \subseteq Nat
    <3>1. Existing(s) \subseteq Nat /\ conn[c].todo \subseteq Nat
      BY <1>2 DEF Existing, Inv, Types
    <3> QED
      BY <1>0, <3>1 DEF InConn, Headers
  <2>2. CASE conn[c].stage = "group"
    <3>1. InConn(c) = {} /\ missed' = missed \cup Of(s, {})
      BY <1>0, <1>2, <2>2 DEF InConn, Working, Drop
    <3> QED
      BY <2>1, <3>1
  <2>3. CASE conn[c].stage = "lines"
    BY <1>0, <2>1, <2>3 DEF Drop, InConn
  <2>4. CASE conn[c].stage = "enter"
    BY <1>0, <2>1, <2>4 DEF Drop, InConn
  <2> QED
    BY <1>1, <2>2, <2>3, <2>4 DEF Inv, Types
<1>5. task'[t] = u /\ conn'[c] = IdleConn /\ \A d \in CONN \ {c} : conn'[d] = conn[d]
  BY <1>2, <1>3 DEF Inv, Types
<1>6. Types'
  <2>1. task' \in [TASK -> TASKXOVER]
    BY <1>3 DEF Inv, Types
  <2>2. conn' \in [CONN -> CONNECTION]
    BY <1>3, IdleConnType DEF Inv, Types, CONNECTION
  <2>3. missed' \in HEADERS
    BY <1>2, <1>4, OfType DEF Inv, Types, HEADERS
  <2> QED
    BY <1>1, <2>1, <2>2, <2>3 DEF Inv, Types, CONNECTION
<1>7. Holders' = Holders
  BY <1>2, <1>3 DEF Holders, Queued, Inv, Types
<1>8. Store' /\ HighIsTrue' /\ Accounted \subseteq Accounted'
  <2>1. missed \subseteq missed' /\ unwanted \subseteq unwanted'
    BY <1>1, <1>4
  <2> QED
    BY <1>1, <1>7, <2>1, MoreIsKnown DEF Inv
<1>9. Frontier(t, s)' /\ Order(t, s)'
  <2>1. conn'[c].task # t
    BY <1>2, <1>5, NoneIsNoTask DEF IdleConn
  <2>2. /\ Pending(t, s)' \subseteq Pending(t, s)
        /\ \A n \in Pending(t, s) : n \notin Pending(t, s)' => n \in InConn(c)
    <3>1. task'[t].mini[s] = task[t].mini[s]
      BY <1>3, <1>5
    <3> QED
      BY <1>0, <1>1, <1>2, <1>5, <2>1, <3>1, PendingShrinks DEF Answered, Unasked
  <2>3. \A n \in InConn(c) : <<s, n>> \in Accounted'
    BY <1>4 DEF Accounted, Of
  <2>4. Frontier(t, s) /\ Order(t, s)
    BY <1>2 DEF Sound
  <2>5. /\ task'[t].asked[s] = task[t].asked[s] /\ task'[t].high[s] = task[t].high[s]
        /\ task'[t].mini[s] = task[t].mini[s]
        /\ task'[t].reffed = task[t].reffed /\ task'[t].started = task[t].started
    BY <1>3, <1>5
  <2>6. \A d \in CONN : conn'[d].task = t => conn'[d] = conn[d]
    BY <1>5, <2>1
  <2>7. Frontier(t, s)'
    BY <1>1, <1>2, <1>6, <1>8, <2>2, <2>3, <2>4, <2>5, Advances DEF Inv
  <2>8. Order(t, s)'
    <3>1. RangesKept(t, s)
      BY <2>6 DEF RangesKept
    <3> QED
      BY <1>2, <2>4, <2>5, <3>1, OrderKept
  <2> QED
    BY <2>7, <2>8
<1>10. Connected'
  <2>1. u.work \notin {"NONE", "GONE"}
    BY <1>3
  <2> QED
    BY <1>1, <1>2, <1>3, <2>1, ConnectedAfter
<1>11. Tasks'
  <2>1. LeavesOthers(t, s, u)
    BY <1>2, <1>3 DEF LeavesOthers
  <2> QED
    BY <1>0, <1>1, <1>2, <1>3, <1>6, <1>8, <1>9, <2>1, TasksAfter
<1> QED
  BY <1>6, <1>8, <1>10, <1>11 DEF Inv

\* gone are the lines that the task no longer waits for, and ns those of them
\* that it was given.
StoredLines(t, s, ns, gone) ==
  /\ Accounted \subseteq Accounted'
  /\ \A n \in gone : <<s, n>> \in Accounted'
  /\ Outdated(task[t], s, ns) # {} =>
       \A i \in DOMAIN task[t].mini[s] :
         \A n \in Headers(s, task[t].mini[s][i]) : <<s, n>> \in Accounted'

STORE == [refs : Nat, shown : BOOLEAN, saving : BOOLEAN, have : HEADERS,
          high : [SERVER -> Nat]]

\* Headers that arrive are stored, corrupt or too old, those that do not are
\* noted, and so are those of the ranges that are dropped: all of them are
\* below the one that is too old.
LEMMA LinesAreStored ==
  ASSUME Inv, NEW c \in CONN, NEW t \in TASK, NEW s \in SERVER,
         NEW gone \in SUBSET conn[c].todo, NEW ns \in SUBSET gone,
         t = conn[c].task, s = ServerOf[c], conn[c].stage = "lines",
         Lines(c, ns, gone \ ns),
         server' = server, disk' = disk, Holders' = Holders
  PROVE  /\ Store' /\ HighIsTrue' /\ StoredLines(t, s, ns, gone)
         /\ store' \in STORE /\ unwanted' \in HEADERS /\ missed' \in HEADERS
<1> DEFINE old == Outdated(task[t], s, ns)
           below == Dropped(task[t], s, ns)
           more == Of(s, Readable(s, ns) \ old)
           dropped == Of(s, below)
           early == Of(s, old) \cup (dropped \cap OLD)
           lost == Of(s, gone \ ns) \cup (dropped \ OLD)
<1>1. /\ Working(c) /\ Loaded(store) /\ Sound(t) /\ task[t] \in TASKXOVER
  BY WorkingLoads
<1>2. /\ server[s].low \in Nat \ {0} /\ server[s].high \in Nat
      /\ conn[c].range \in RANGE
  BY DEF Inv, Types
<1>3. /\ gone \subseteq Headers(s, conn[c].range) /\ gone \in SUBSET Nat
      /\ ns \in SUBSET Nat
  BY <1>1, <1>2 DEF Working, Headers, Existing
<1>4. /\ store' = [store EXCEPT !.have = @ \cup more]
      /\ unwanted' = unwanted \cup early /\ missed' = missed \cup lost
  <2>1. /\ unwanted' = unwanted \cup Of(s, old) \cup (dropped \cap OLD)
        /\ missed' = missed \cup Of(s, gone \ ns) \cup (dropped \ OLD)
        /\ store' = [store EXCEPT !.have = @ \cup more]
    BY DEF Lines
  <2> HIDE DEF old, below, more, dropped
  <2> QED
    BY <2>1
<1>5. old \subseteq ns /\ Readable(s, ns) \subseteq ns /\ below \subseteq Nat
  <2>1. old \subseteq ns /\ Readable(s, ns) \subseteq ns
    BY DEF Outdated, Readable
  <2>2. below \subseteq Existing(s)
    BY DEF Dropped, Left, Headers
  <2> QED
    BY <1>2, <2>1, <2>2 DEF Existing
<1>6. more \in HEADERS /\ early \in HEADERS /\ lost \in HEADERS
  <2>1. /\ Readable(s, ns) \ old \in SUBSET Nat /\ old \in SUBSET Nat
        /\ below \in SUBSET Nat /\ gone \ ns \in SUBSET Nat
    <3> HIDE DEF old, below
    <3> QED
      BY <1>3, <1>5
  <2>2. /\ more \in HEADERS /\ Of(s, old) \in HEADERS
        /\ dropped \in HEADERS /\ Of(s, gone \ ns) \in HEADERS
    BY <2>1, OfType
  <2> HIDE DEF old, below, more, dropped
  <2> QED
    BY <2>2 DEF HEADERS
<1> HIDE DEF old, below, more, dropped, early, lost
<1>7. /\ store' \in STORE
      /\ unwanted' \in HEADERS /\ missed' \in HEADERS
      /\ store'.refs = store.refs /\ store'.shown = store.shown
      /\ store'.saving = store.saving /\ store'.high = store.high
      /\ store'.have = store.have \cup more
  BY <1>4, <1>6 DEF Inv, Types, STORE, HEADERS
<1>8. Store' /\ HighIsTrue' /\ Accounted \subseteq Accounted'
  <2>1. /\ store.have \subseteq store'.have
        /\ unwanted \subseteq unwanted' /\ missed \subseteq missed'
    BY <1>4, <1>7
  <2> QED
    BY <1>7, <2>1, MoreIsKnown DEF Inv
<1>9. more \cup early \cup lost \cup CORRUPT \subseteq Accounted'
  <2>1. Loaded(store)'
    BY <1>1, <1>7 DEF Loaded
  <2> QED
    BY <1>4, <1>7, <2>1 DEF Accounted, Known
<1>10. ASSUME NEW n \in gone PROVE <<s, n>> \in Accounted'
  <2>1. CASE n \in old
    BY <1>9, <2>1 DEF early, Of
  <2>2. CASE n \in ns /\ n \notin Readable(s, ns)
    BY <1>9, <2>2 DEF Readable
  <2>3. CASE n \in Readable(s, ns) \ old
    BY <1>9, <2>3 DEF more, Of
  <2>4. CASE n \notin ns
    BY <1>9, <2>4 DEF lost, Of
  <2> QED
    BY <2>1, <2>2, <2>3, <2>4
<1>11. ASSUME old # {}, NEW i \in DOMAIN task[t].mini[s],
              NEW n \in Headers(s, task[t].mini[s][i])
       PROVE  <<s, n>> \in Accounted'
  <2>1. PICK m \in old : m \in ns
    BY <1>5, <1>11
  <2>2. m \in Nat /\ m >= conn[c].range.low
    BY <1>2, <1>3, <2>1 DEF Headers, Existing, RANGE
  <2>3. task[t].mini[s][i].high <= conn[c].range.low
    <3>1. Order(t, s) /\ c \in Conns(t)
      BY <1>1 DEF Sound, Conns
    <3> QED
      BY <3>1 DEF Order
  <2>4. task[t].mini[s][i] \in RANGE
    BY <1>1 DEF TASKXOVER
  <2>5. n \in Nat /\ n <= task[t].mini[s][i].high
    BY <1>2, <2>4 DEF Headers, Existing, RANGE
  <2>6. n <= m
    BY <1>2, <2>2, <2>3, <2>4, <2>5 DEF RANGE
  <2>7. n \in below
    <3>1. n \in Left(task[t], s)
      BY DEF Left, ToSet
    <3> QED
      BY <2>1, <2>6, <3>1 DEF below, Dropped, old
  <2>8. <<s, n>> \in dropped
    BY <2>7 DEF dropped, Of
  <2> QED
    BY <1>9, <2>8 DEF early, lost
<1> QED
  BY <1>7, <1>8, <1>10, <1>11 DEF old, StoredLines

\* The task after these headers: its number is that of one of them, at most.
LEMMA FrontierAfterLines ==
  ASSUME Inv, Types', NEW c \in CONN, NEW t \in TASK, NEW s \in SERVER,
         t = conn[c].task, s = ServerOf[c], conn[c].stage = "lines",
         NEW gone \in SUBSET conn[c].todo, NEW ns \in SUBSET gone,
         StoredLines(t, s, ns, gone),
         server' = server, \A d \in CONN \ {c} : conn'[d] = conn[d],
         conn'[c].task # t => gone = conn[c].todo,
         conn'[c].task = t => /\ conn'[c].stage = "lines" /\ conn'[c].range = conn[c].range
                              /\ conn'[c].todo = conn[c].todo \ gone,
         NEW u, Taken(task[t], s, ns, u),
         task'[t].mini = u.mini, task'[t].high = u.high, task'[t].asked = u.asked,
         task'[t].reffed = u.reffed, task'[t].started = u.started
  PROVE  Frontier(t, s)' /\ Order(t, s)'
<1>0. /\ Outdated(task[t], s, ns) = {} => task'[t].mini[s] = task[t].mini[s]
      /\ Outdated(task[t], s, ns) # {} => task'[t].mini[s] = <<>>
      /\ task'[t].high[s] \in {task[t].high[s]} \cup ns
      /\ task'[t].asked = task[t].asked /\ task'[t].reffed = task[t].reffed
      /\ task'[t].started = task[t].started
  BY DEF Taken
<1>1. /\ Working(c) /\ Sound(t) /\ task[t] \in TASKXOVER
  BY WorkingLoads
<1>2. InConn(c) = conn[c].todo
  BY DEF InConn
<1>3. conn'[c].task = t => InConn(c)' = InConn(c) \ gone
  BY <1>2 DEF InConn
<1>4. ns \subseteq Pending(t, s)
  <2>1. \A n \in ns : n \in Pending(t, s)
    BY <1>2, PendingIs
  <2> QED
    BY <2>1
<1>5. task'[t].mini[s] = task[t].mini[s] \/ task'[t].mini[s] = <<>>
  BY <1>0
<1>6. /\ Pending(t, s)' \subseteq Pending(t, s)
      /\ \A n \in Pending(t, s) : n \notin Pending(t, s)' =>
           Answered(c, t, n) \/ Unasked(t, s, n)
  <2>1. conn'[c].task = t => InConn(c)' \subseteq InConn(c)
    BY <1>3
  <2> QED
    BY <1>5, <2>1, PendingShrinks
<1>7. ASSUME NEW n \in Pending(t, s), n \notin Pending(t, s)'
      PROVE  <<s, n>> \in Accounted'
  <2>1. CASE Answered(c, t, n)
    <3>1. n \in gone
      BY <1>2, <1>3, <2>1 DEF Answered
    <3> QED
      BY <3>1 DEF StoredLines
  <2>2. CASE Unasked(t, s, n)
    BY <1>0, <2>2 DEF Unasked, StoredLines
  <2> QED
    BY <1>6, <1>7, <2>1, <2>2
<1>8. Frontier(t, s)'
  <2>1. Frontier(t, s)
    BY <1>1 DEF Sound
  <2>2. task'[t].high[s] \in {task[t].high[s]} \cup Pending(t, s)
    BY <1>0, <1>4
  <2>3. task'[t].asked[s] = task[t].asked[s]
    BY <1>0
  <2>4. Accounted \subseteq Accounted'
    BY DEF StoredLines
  <2> QED
    BY <1>6, <1>7, <2>1, <2>2, <2>3, <2>4, Advances DEF Inv
<1>9. Order(t, s)'
  <2>1. Order(t, s)
    BY <1>1 DEF Sound
  <2>2. RangesKept(t, s)
    BY DEF RangesKept
  <2>3. /\ task'[t].asked[s] = task[t].asked[s]
        /\ task[t].reffed => task'[t].reffed
        /\ task[t].started \subseteq task'[t].started
    BY <1>0
  <2> QED
    BY <1>5, <2>1, <2>2, <2>3, OrderKept
<1> QED
  BY <1>8, <1>9

\* A line.
LEMMA LineKeeps ==
  ASSUME Inv, NEW c \in CONN, Line(c)
  PROVE  Inv'
<1>0. PICK t, s, n : t = conn[c].task /\ s = ServerOf[c] /\ n = Min(conn[c].todo)
  OBVIOUS
<1>1. conn[c].stage = "lines"
  BY DEF Line, Inv, Connected, IdleConn, Working
<1>2. /\ Working(c) /\ t \in TASK /\ s \in SERVER /\ Queued(t) /\ Sound(t)
      /\ task[t] \in TASKXOVER /\ task[t].reffed
  BY <1>0, <1>1, WorkingLoads, ServerOfType DEF Working
<1>3. n \in conn[c].todo /\ n \in Nat
  <2>1. conn[c].todo \in SUBSET Int /\ conn[c].todo # {} /\ conn[c].todo \in SUBSET Nat
    BY DEF Line, Inv, Types
  <2>2. IsFiniteSet(conn[c].todo)
    <3>1. server[s].low \in Int /\ server[s].high \in Int
      BY <1>2 DEF Inv, Types
    <3>2. IsFiniteSet(Existing(s))
      BY <3>1, FS_Interval DEF Existing
    <3>3. conn[c].todo \in SUBSET Existing(s)
      BY <1>0, <1>2 DEF Working, Headers
    <3> QED
      BY <3>2, <3>3, FS_Subset
  <2> QED
    BY <1>0, <2>1, <2>2, Extremes
<1>4. PICK u : u = Take(task[t], s, {n})
  OBVIOUS
<1>5. /\ Lines(c, {n}, {n} \ {n}) /\ task' = [task EXCEPT ![t] = u]
      /\ conn' = [conn EXCEPT ![c].todo = @ \ {n}]
      /\ server' = server /\ disk' = disk
  <2>1. {n} \ {n} = {}
    OBVIOUS
  <2> QED
    BY <1>0, <1>4, <2>1 DEF Line, Inv, Types
<1>6. /\ u \in TASKXOVER
      /\ Taken(task[t], s, {n}, u)
      /\ u.reffed = task[t].reffed /\ u.work = task[t].work
  <2>1. {n} \in SUBSET Nat /\ IsFiniteSet({n})
    BY <1>3, FS_Singleton
  <2>2. Taken(task[t], s, {n}, u)
    BY <1>2, <1>4, <2>1, TakeMoves
  <2> QED
    BY <2>2 DEF Taken
<1>7. PICK v : v = [conn[c] EXCEPT !.todo = @ \ {n}]
  OBVIOUS
<1>8. /\ conn[c] \in CONNECTION /\ v \in CONNECTION
      /\ v.task = t /\ v.stage = "lines" /\ v.range = conn[c].range
      /\ v.todo = conn[c].todo \ {n}
  <2>1. conn[c] \in CONNECTION
    BY DEF Inv, Types, CONNECTION
  <2> QED
    BY <1>0, <1>1, <1>7, <2>1 DEF CONNECTION
<1>9. /\ conn' = [conn EXCEPT ![c] = v] /\ conn'[c] = v
      /\ \A d \in CONN \ {c} : conn'[d] = conn[d]
      /\ task'[t] = u
  BY <1>2, <1>5, <1>7 DEF Inv, Types
<1>10. Holders' = Holders
  BY <1>2, <1>5, <1>6 DEF Holders, Queued, Inv, Types
<1>11. /\ Store' /\ HighIsTrue' /\ StoredLines(t, s, {n}, {n})
       /\ store' \in STORE /\ unwanted' \in HEADERS /\ missed' \in HEADERS
  <2>1. {n} \in SUBSET conn[c].todo /\ {n} \in SUBSET {n}
    BY <1>3
  <2> QED
    BY <1>0, <1>1, <1>2, <1>5, <1>10, <2>1, LinesAreStored
<1>12. Types'
  <2>1. task' \in [TASK -> TASKXOVER]
    BY <1>5, <1>6 DEF Inv, Types
  <2>2. conn' \in [CONN -> CONNECTION]
    BY <1>8, <1>9 DEF Inv, Types, CONNECTION
  <2> QED
    BY <1>5, <1>11, <2>1, <2>2 DEF Inv, Types, CONNECTION, STORE
<1>13. Frontier(t, s)' /\ Order(t, s)'
  <2>1. {n} \in SUBSET conn[c].todo /\ {n} \in SUBSET {n}
    BY <1>3
  <2>2. /\ conn'[c].task = t /\ conn'[c].stage = "lines" /\ conn'[c].range = conn[c].range
        /\ conn'[c].todo = conn[c].todo \ {n}
    BY <1>8, <1>9
  <2>3. /\ task'[t].mini = u.mini /\ task'[t].high = u.high /\ task'[t].asked = u.asked
        /\ task'[t].reffed = u.reffed /\ task'[t].started = u.started
    BY <1>9
  <2> QED
    BY <1>0, <1>1, <1>2, <1>5, <1>6, <1>9, <1>11, <1>12, <2>1, <2>2, <2>3, FrontierAfterLines
<1>14. Connected'
  <2>1. Working(c)'
    <3>1. conn'[c].todo \subseteq Headers(ServerOf[c], conn[c].range)'
      BY <1>2, <1>5, <1>8, <1>9 DEF Working, Headers, Existing
    <3>2. Queued(conn[c].task)' /\ task'[conn'[c].task].reffed
      BY <1>2, <1>6, <1>8, <1>9 DEF Queued
    <3> QED
      BY <1>1, <1>2, <1>8, <1>9, <3>1, <3>2 DEF Working
  <2>2. u.work \notin {"NONE", "GONE"}
    BY <1>2, <1>6 DEF Queued
  <2>3. task[t].reffed => u.reffed
    BY <1>6
  <2> QED
    BY <1>2, <1>5, <1>6, <1>9, <2>1, <2>2, <2>3, ConnectedAfter
<1>15. Tasks'
  <2>1. c \in Conns(t) /\ u.work # "COMPLETED"
    BY <1>0, <1>2, <1>6 DEF Conns, Sound
  <2>2. LeavesOthers(t, s, u) /\ CompletesEmpty(t, u)
    BY <1>6, <2>1 DEF LeavesOthers, CompletesEmpty, Taken
  <2>3. Accounted \subseteq Accounted'
    BY <1>11 DEF StoredLines
  <2> QED
    BY <1>0, <1>2, <1>5, <1>6, <1>8, <1>9, <1>12, <1>13, <2>2, <2>3, TasksAfter
<1> QED
  BY <1>11, <1>12, <1>14, <1>15 DEF Inv

\* The end of an answer.
LEMMA FinishKeeps ==
  ASSUME Inv, NEW c \in CONN, conn[c].stage = "lines",
         NEW ns \in SUBSET conn[c].todo, Finish(c, ns)
  PROVE  Inv'
<1>0. PICK t, s, gone : t = conn[c].task /\ s = ServerOf[c] /\ gone = conn[c].todo
  OBVIOUS
<1>1. conn[c].stage = "lines" /\ gone \in SUBSET conn[c].todo /\ ns \in SUBSET gone
  BY <1>0
<1>2. /\ Working(c) /\ t \in TASK /\ s \in SERVER /\ Queued(t) /\ Sound(t)
      /\ task[t] \in TASKXOVER /\ task[t].reffed
  BY <1>0, <1>1, WorkingLoads, ServerOfType DEF Working
<1>3. ns \in SUBSET Nat /\ IsFiniteSet(ns)
  <2>1. server[s].low \in Int /\ server[s].high \in Int
    BY <1>2 DEF Inv, Types
  <2>2. IsFiniteSet(Existing(s))
    BY <2>1, FS_Interval DEF Existing
  <2>3. ns \in SUBSET Existing(s)
    BY <1>0, <1>2 DEF Working, Headers
  <2>4. IsFiniteSet(ns)
    BY <2>2, <2>3, FS_Subset
  <2> QED
    BY <2>4 DEF Inv, Types
<1>4. PICK k : k = Take(task[t], s, ns)
  OBVIOUS
<1>5. /\ Lines(c, ns, gone \ ns) /\ Done(c, k)
      /\ server' = server /\ disk' = disk
  BY <1>0, <1>4 DEF Finish
<1>6. Taken(task[t], s, ns, k) /\ k \in TASKXOVER
  <2>1. Taken(task[t], s, ns, k)
    BY <1>2, <1>3, <1>4, TakeMoves
  <2> QED
    BY <2>1 DEF Taken
<1>7. PICK u \in TASKXOVER :
        /\ task' = [task EXCEPT ![t] = u] /\ conn' = [conn EXCEPT ![c] = IdleConn]
        /\ u.mode = k.mode /\ u.reffed = k.reffed /\ u.removing = k.removing
        /\ u.mini = k.mini /\ u.started = k.started /\ u.high = k.high
        /\ u.asked = k.asked
        /\ u.work \in {"NEED_NNTP", "WORKING", "COMPLETED"}
        /\ CompletesEmpty(t, u)
  <2>1. conn[c].stage # "idle"
    BY <1>1
  <2> QED
    BY <1>0, <1>2, <1>5, <1>6, <2>1, DoneTakes
<1>8. task'[t] = u /\ conn'[c] = IdleConn /\ \A d \in CONN \ {c} : conn'[d] = conn[d]
  BY <1>2, <1>7 DEF Inv, Types
<1>9. u.reffed = TRUE /\ u.mode = task[t].mode
  BY <1>2, <1>6, <1>7 DEF Taken
<1>10. Holders' = Holders
  BY <1>2, <1>7, <1>9 DEF Holders, Queued, Inv, Types
<1>11. /\ Store' /\ HighIsTrue' /\ StoredLines(t, s, ns, gone)
       /\ store' \in STORE /\ unwanted' \in HEADERS /\ missed' \in HEADERS
  <2>1. /\ Inv /\ t \in TASK /\ s \in SERVER /\ t = conn[c].task /\ s = ServerOf[c]
        /\ conn[c].stage = "lines" /\ gone \in SUBSET conn[c].todo /\ ns \in SUBSET gone
        /\ Lines(c, ns, gone \ ns) /\ server' = server /\ disk' = disk /\ Holders' = Holders
    BY <1>0, <1>1, <1>2, <1>5, <1>10
  <2> QED
    BY <2>1, LinesAreStored
<1>12. Types'
  <2>1. task' \in [TASK -> TASKXOVER]
    BY <1>7 DEF Inv, Types
  <2>2. conn' \in [CONN -> CONNECTION]
    BY <1>7, IdleConnType DEF Inv, Types, CONNECTION
  <2> QED
    BY <1>5, <1>11, <2>1, <2>2 DEF Inv, Types, CONNECTION, STORE
<1>13. Frontier(t, s)' /\ Order(t, s)'
  <2>1. conn'[c].task # t /\ gone = conn[c].todo
    BY <1>0, <1>2, <1>8, NoneIsNoTask DEF IdleConn
  <2>2. /\ task'[t].mini = k.mini /\ task'[t].high = k.high /\ task'[t].asked = k.asked
        /\ task'[t].reffed = k.reffed /\ task'[t].started = k.started
    BY <1>7, <1>8
  <2> QED
    BY <1>0, <1>1, <1>2, <1>5, <1>6, <1>8, <1>11, <1>12, <2>1, <2>2, FrontierAfterLines
<1>14. Connected'
  <2>1. u.work \notin {"NONE", "GONE"} /\ (task[t].reffed => u.reffed)
    BY <1>7, <1>9
  <2> QED
    BY <1>2, <1>5, <1>7, <2>1, ConnectedAfter
<1>15. Tasks'
  <2>1. LeavesOthers(t, s, u)
    BY <1>6, <1>7, <1>9 DEF LeavesOthers, Taken
  <2>2. Accounted \subseteq Accounted'
    BY <1>11 DEF StoredLines
  <2> QED
    BY <1>0, <1>2, <1>5, <1>7, <1>12, <1>13, <2>1, <2>2, TasksAfter
<1> QED
  BY <1>11, <1>12, <1>14, <1>15 DEF Inv

\* A whole answer, and one that cannot be unpacked to its end.
LEMMA AllLinesKeeps ==
  ASSUME Inv, NEW c \in CONN, AllLines(c) \/ Garbled(c)
  PROVE  Inv'
<1>1. \A ns : Fitting(ServerOf[c], ns) \subseteq ns
  BY DEF Fitting
<1>2. CASE AllLines(c)
  <2>1. Fitting(ServerOf[c], conn[c].todo) \in SUBSET conn[c].todo
    BY <1>1
  <2> QED
    BY <1>2, <2>1, FinishKeeps DEF AllLines
<1>3. CASE Garbled(c)
  <2>1. PICK m \in conn[c].todo : Finish(c, Fitting(ServerOf[c], {n \in conn[c].todo : n < m}))
    BY <1>3 DEF Garbled
  <2>2. Fitting(ServerOf[c], {n \in conn[c].todo : n < m}) \in SUBSET conn[c].todo
    BY <1>1
  <2> QED
    BY <1>3, <2>1, <2>2, FinishKeeps DEF Garbled
<1> QED
  BY <1>2, <1>3

\* A first answer to a SAMPLE leaves the older headers out.
Sampled(t, s) ==
  task[t].mode = "SAMPLE" /\ s \notin task[t].started =>
    Of(s, 1..(First(task[t], s) - 1)) \subseteq Accounted'

\* What a server's first answer asks for: of a header below it, the mode says
\* that it is left out, or the store has it.
LEMMA FrontierAfterGroup ==
  ASSUME Inv, Types', NEW c \in CONN, NEW t \in TASK, NEW s \in SERVER,
         t = conn[c].task, s = ServerOf[c], conn[c].stage = "group",
         s \notin task[t].started, server' = server, Accounted \subseteq Accounted',
         conn' = [conn EXCEPT ![c] = IdleConn],
         Sampled(t, s),
         NEW u, u = OnGroup(task[t], s),
         task'[t].mini = u.mini, task'[t].high = u.high, task'[t].asked = u.asked,
         task'[t].reffed = u.reffed, task'[t].started = u.started
  PROVE  Frontier(t, s)' /\ Order(t, s)'
<1> DEFINE low == First(task[t], s)
           high == server[s].high
           mini == task[t].mini[s]
<1>1. /\ Working(c) /\ Sound(t) /\ task[t] \in TASKXOVER /\ task[t].mode \in MODE
      /\ task[t].reffed
  BY WorkingLoads DEF Working
<1>2. /\ server[s].low \in Nat \ {0} /\ high \in Nat /\ store.high[s] \in Nat
      /\ Existing(s)' = Existing(s)
  BY DEF Inv, Types, Existing
<1>3. /\ low \in Nat \ {0} /\ low >= server[s].low
      /\ \A n \in Existing(s) : n < low => task[t].mode = "SAMPLE" \/ n <= store.high[s]
  BY <1>1, FirstIsRight DEF Inv
<1>4. Grouped(task[t], s, u)
  BY <1>1, OnGroupFirst DEF Inv
<1>5. u.reffed /\ s \in u.started
  BY <1>1, <1>4 DEF Grouped
<1>6. \A n \in Existing(s) : n < low => <<s, n>> \in Accounted'
  <2> SUFFICES ASSUME NEW n \in Existing(s), n < low PROVE <<s, n>> \in Accounted'
    OBVIOUS
  <2>1. CASE task[t].mode = "SAMPLE"
    <3>1. n \in 1..(low - 1)
      BY <1>2, <1>3 DEF Existing
    <3> HIDE DEF low
    <3> QED
      BY <2>1, <3>1 DEF Sampled, Of, low
  <2>2. CASE n <= store.high[s]
    BY <2>2 DEF Inv, HighIsTrue
  <2> QED
    BY <1>3, <2>1, <2>2
<1>7. task[t].asked[s] = {}
  BY <1>1 DEF Sound, Order
<1>8. \A i \in DOMAIN mini : mini[i] = GROUP
  BY <1>1, <1>7 DEF Sound, Order
<1>9. \A d \in CONN : conn'[d].task = t => d # c /\ conn'[d] = conn[d]
  BY NoneIsNoTask DEF IdleConn, Inv, Types
<1>10. \A d \in CONN : conn'[d].task = t /\ ServerOf[d] = s =>
         conn[d].stage \notin {"enter", "lines"}
  <2>1. \A d \in Conns(t) : ServerOf[d] = s => conn[d].stage \notin {"enter", "lines"}
    BY <1>1, <1>7 DEF Sound, Order
  <2> QED
    BY <1>9, <2>1 DEF Conns
<1>11. ASSUME NEW n, n \in Pending(t, s)'
       PROVE  \E i \in DOMAIN u.mini[s] : u.mini[s][i] # GROUP /\ n \in Headers(s, u.mini[s][i])
  <2>1. \A r : Headers(s, r)' = Headers(s, r)
    BY <1>2 DEF Headers
  <2>2. CASE WaitsInMini(t, s, n)'
    <3>1. PICK i \in DOMAIN u.mini[s] : n \in Headers(s, u.mini[s][i])
      BY <2>1, <2>2 DEF WaitsInMini, Headers, Existing
    <3>2. Headers(s, GROUP) = {}
      BY <1>2 DEF Headers, Existing, GROUP
    <3> QED
      BY <3>1, <3>2
  <2>3. CASE WaitsInConn(t, s, n)'
    <3>1. PICK d \in CONN : conn'[d].task = t /\ ServerOf[d] = s /\ n \in InConn(d)'
      BY <2>3 DEF WaitsInConn
    <3>2. conn'[d] = conn[d] /\ conn[d].stage \notin {"enter", "lines"} /\ Working(d)
      BY <1>9, <1>10, <3>1, NoneIsNoTask DEF Inv, Connected, IdleConn
    <3>3. InConn(d)' = {}
      BY <3>2 DEF InConn, Working
    <3> QED
      BY <3>1, <3>3
  <2> QED
    <3>1. WaitsInMini(t, s, n)' \/ WaitsInConn(t, s, n)'
      BY <1>11, PendingWaits
    <3> QED
      BY <2>2, <2>3, <3>1
<1>12. CASE low <= high
  <2>1. /\ u.mini[s] = Ranges(low, high) \o mini
        /\ u.high[s] = task[t].high[s] /\ u.asked[s] = low..high
    BY <1>4, <1>12 DEF Grouped
  <2>2. PICK R : R = Ranges(low, high) /\ RangesOf(R, low, high)
    <3> HIDE DEF low, high
    <3> QED
      BY <1>2, <1>3, <1>12, RangesCover
  <2>3. mini \in Seq(RANGE)
    BY <1>1 DEF TASKXOVER
  <2> HIDE DEF low, high, mini
  <2>4. PICK q : q = R \o mini /\ Joined(q, R, mini)
    BY <2>2, <2>3, Concatenation DEF RangesOf
  <2>6. \A i \in DOMAIN q : (i \in DOMAIN R /\ q[i] = R[i]) \/ (i > Len(R) /\ q[i] = GROUP)
    BY <1>8, <2>4 DEF Joined
  <2>7. \A i \in DOMAIN q : q[i] # GROUP => q[i].low \in low..high
    BY <2>2, <2>6 DEF RangesOf
  <2>8. \A i, j \in DOMAIN q : i < j => q[j].high <= q[i].low
    <3> SUFFICES ASSUME NEW i \in DOMAIN q, NEW j \in DOMAIN q, i < j
                 PROVE  q[j].high <= q[i].low
      OBVIOUS
    <3>1. CASE q[j] = GROUP
      <4>1. q[i].low \in Nat
        <5>1. q[i] \in RANGE
          BY <2>4 DEF Joined
        <5> QED
          BY <5>1 DEF RANGE
      <4> QED
        BY <3>1, <4>1 DEF GROUP
    <3>2. CASE j \in DOMAIN R /\ q[j] = R[j]
      <4>1. i \in DOMAIN R /\ q[i] = R[i]
        BY <2>4, <3>2 DEF Joined
      <4> QED
        BY <2>2, <3>2, <4>1 DEF RangesOf
    <3> QED
      BY <2>6, <3>1, <3>2
  <2>9. \A n \in Existing(s) : n >= low => n \in Pending(t, s)'
    <3> SUFFICES ASSUME NEW n \in Existing(s), n >= low PROVE n \in Pending(t, s)'
      OBVIOUS
    <3>1. n \in low..high
      BY <1>2, <1>3 DEF Existing, high
    <3>2. PICK i \in DOMAIN R : n \in R[i].low..R[i].high
      BY <2>2, <3>1 DEF RangesOf
    <3>3. i \in DOMAIN q /\ q[i] = R[i]
      BY <2>4, <3>2 DEF Joined
    <3>4. task'[t].mini[s] = q
      BY <2>1, <2>2, <2>4
    <3>5. n \in Headers(s, task[t].mini[s][i])'
      BY <1>2, <3>2, <3>3, <3>4 DEF Headers
    <3> QED
      BY <3>3, <3>4, <3>5, PendingIs
  <2>10. Frontier(t, s)'
    <3>1. task'[t].high[s] <= server'[s].high
      BY <1>1, <2>1 DEF Sound, Frontier
    <3>2. task'[t].asked[s] \subseteq Existing(s)
      <4>1. task'[t].asked[s] = low..high /\ Existing(s) = server[s].low..high
        BY <2>1 DEF Existing, high
      <4> QED
        BY <1>2, <1>3, <4>1
    <3>3. \A n \in Existing(s) : <<s, n>> \in Accounted' \/ n \in Pending(t, s)'
      BY <1>2, <1>3, <1>6, <2>9 DEF Existing
    <3> QED
      BY <1>2, <3>1, <3>2, <3>3 DEF Frontier
  <2>11. Order(t, s)'
    <3>1. task'[t].mini[s] = q /\ task'[t].asked[s] = low..high
      BY <2>1, <2>2, <2>4
    <3>2. \A d \in Conns(t)' : d \in CONN /\ conn'[d].task = t
      BY DEF Conns
    <3>3. \A d \in Conns(t)' : ~(ServerOf[d] = s /\ conn'[d].stage \in {"enter", "lines"})
      BY <1>9, <1>10, <3>2
    <3> QED
      BY <1>5, <2>7, <2>8, <3>1, <3>3 DEF Order
  <2> QED
    BY <2>10, <2>11
<1>13. CASE low > high
  <2>1. u.mini[s] = mini /\ u.high[s] = high /\ u.asked[s] = {}
    BY <1>4, <1>7, <1>13 DEF Grouped
  <2>2. \A n \in Existing(s) : <<s, n>> \in Accounted'
    BY <1>2, <1>3, <1>6, <1>13 DEF Existing
  <2>3. Frontier(t, s)'
    <3>1. task'[t].high[s] = server[s].high /\ task'[t].asked[s] = {}
      BY <2>1
    <3>2. task'[t].high[s] <= server'[s].high
      BY <1>2, <3>1
    <3> QED
      BY <1>2, <2>2, <3>1, <3>2 DEF Frontier
  <2>4. Order(t, s)'
    <3>1. task'[t].mini[s] = mini /\ task'[t].asked[s] = {}
      BY <2>1
    <3>2. \A d \in Conns(t)' : d \in CONN /\ conn'[d].task = t
      BY DEF Conns
    <3>3. \A d \in Conns(t)' : ~(ServerOf[d] = s /\ conn'[d].stage \in {"enter", "lines"})
      BY <1>9, <1>10, <3>2
    <3> HIDE DEF mini
    <3>4. \A i, j \in DOMAIN mini : mini[j].high <= mini[i].low
      BY <1>8 DEF GROUP
    <3>5. PICK q : q = mini
      OBVIOUS
    <3>6. /\ task'[t].mini[s] = q
          /\ \A i \in DOMAIN q : q[i] = GROUP
          /\ \A i, j \in DOMAIN q : q[j].high <= q[i].low
      BY <1>8, <3>1, <3>4, <3>5
    <3> QED
      BY <3>1, <3>3, <3>6 DEF Order
  <2> QED
    BY <2>3, <2>4
<1> QED
  BY <1>2, <1>3, <1>12, <1>13

\* An answer that changes nothing of the task for its server.
Noted(c, t) ==
  /\ conn'[c].task = t =>
       /\ conn[c].stage \in {"enter", "lines"} /\ conn'[c].range = conn[c].range
       /\ InConn(c)' = InConn(c)
  /\ conn'[c].task # t => InConn(c) = {}

LEMMA SoundWhenNoted ==
  ASSUME Types, Types', Connected, NEW c \in CONN, NEW t \in TASK, NEW s \in SERVER,
         t = conn[c].task, s = ServerOf[c], Frontier(t, s), Order(t, s),
         server' = server, Accounted \subseteq Accounted',
         \A d \in CONN \ {c} : conn'[d] = conn[d], SameFor(t, s), Noted(c, t)
  PROVE  Frontier(t, s)' /\ Order(t, s)'
<1>1. /\ task'[t].mini[s] = task[t].mini[s] /\ task'[t].high[s] = task[t].high[s]
      /\ task'[t].asked[s] = task[t].asked[s]
      /\ task[t].reffed => task'[t].reffed
      /\ task[t].started \subseteq task'[t].started
  BY DEF SameFor
<1>2. \A n : ~Answered(c, t, n) /\ ~Unasked(t, s, n)
  BY <1>1 DEF Answered, Unasked, Noted
<1>3. Pending(t, s)' \subseteq Pending(t, s) /\ Pending(t, s) \subseteq Pending(t, s)'
  <2>1. conn'[c].task = t => InConn(c)' \subseteq InConn(c)
    BY DEF Noted
  <2> QED
    BY <1>1, <1>2, <2>1, PendingShrinks
<1>4. Frontier(t, s)'
  BY <1>1, <1>3, Advances
<1>5. RangesKept(t, s)
  <2>1. \A d \in CONN : d # c => conn'[d] = conn[d]
    OBVIOUS
  <2> QED
    BY <2>1 DEF RangesKept, Noted
<1>6. Order(t, s)'
  BY <1>1, <1>5, OrderKept
<1> QED
  BY <1>4, <1>6

LEMMA GroupIsNoted ==
  ASSUME Inv, NEW c \in CONN, NEW t \in TASK, NEW s \in SERVER,
         t = conn[c].task, s = ServerOf[c], GroupAnswer(c), Holders' = Holders
  PROVE  /\ Store' /\ HighIsTrue' /\ Accounted \subseteq Accounted'
         /\ Sampled(t, s) /\ unwanted' \in HEADERS
<1> DEFINE early == Of(s, 1..(First(task[t], s) - 1))
           sampled == task[t].mode = "SAMPLE" /\ s \notin task[t].started
<1>1. conn[c].stage # "idle"
  BY DEF GroupAnswer
<1>2. task[t] \in TASKXOVER /\ task[t].mode \in MODE
  BY <1>1, WorkingLoads
<1>3. /\ server' = server /\ store' = store /\ disk' = disk /\ missed' = missed
      /\ sampled => unwanted' = unwanted \cup early
      /\ ~sampled => unwanted' = unwanted
  BY DEF GroupAnswer
<1>4. early \in HEADERS
  <2>1. First(task[t], s) \in Nat \ {0}
    BY <1>2, FirstIsRight DEF Inv
  <2>2. 1..(First(task[t], s) - 1) \in SUBSET Nat
    BY <2>1
  <2> QED
    BY <2>2, OfType
<1> HIDE DEF early
<1>5. unwanted' \in HEADERS
  <2>1. unwanted \in HEADERS
    BY DEF Inv, Types
  <2> QED
    BY <1>3, <1>4, <2>1 DEF HEADERS
<1>6. Store' /\ HighIsTrue' /\ Accounted \subseteq Accounted'
  <2>1. unwanted \subseteq unwanted'
    BY <1>3
  <2> QED
    BY <1>3, <2>1, MoreIsKnown DEF Inv
<1>7. Sampled(t, s)
  <2>1. sampled => early \subseteq Accounted'
    BY <1>3 DEF Accounted
  <2> QED
    BY <2>1 DEF Sampled, early
<1> QED
  BY <1>5, <1>6, <1>7

\* The answer to a range's group tells nothing new: the server has answered.
LEMMA EnterKeeps ==
  ASSUME Inv, NEW c \in CONN, GroupAnswer(c), conn[c].stage = "enter"
  PROVE  Inv'
<1>0. PICK t, s : t = conn[c].task /\ s = ServerOf[c]
  OBVIOUS
<1>1. /\ Working(c) /\ t \in TASK /\ s \in SERVER /\ Queued(t) /\ Sound(t)
      /\ task[t] \in TASKXOVER /\ task[t].reffed
  BY <1>0, WorkingLoads, ServerOfType DEF Working
<1>2. s \in task[t].started
  <2>1. c \in Conns(t)
    BY <1>0 DEF Conns
  <2> QED
    BY <1>0, <1>1, <2>1 DEF Sound, Order
<1>3. task' = [task EXCEPT ![t] = task[t]]
  <2>1. task' = [task EXCEPT ![t] = OnGroup(task[t], s)]
    BY <1>0 DEF GroupAnswer
  <2> QED
    BY <1>2, <2>1, OnGroupAgain
<1>4. PICK v : v = [conn[c] EXCEPT !.stage = "lines", !.todo = Headers(s, conn[c].range)]
  OBVIOUS
<1>5. conn' = [conn EXCEPT ![c] = v] /\ server' = server
  BY <1>0, <1>4 DEF GroupAnswer, Inv, Types
<1>6. /\ v \in CONNECTION /\ v.task = t /\ v.stage = "lines" /\ v.range = conn[c].range
      /\ v.todo = Headers(s, conn[c].range)
  <2>1. Headers(s, conn[c].range) \in SUBSET Nat
    BY <1>1 DEF Headers, Existing, Inv, Types
  <2>2. conn[c] \in CONNECTION
    BY DEF Inv, Types, CONNECTION
  <2> QED
    BY <1>0, <1>4, <2>1, <2>2 DEF CONNECTION
<1>7. task' = task /\ conn'[c] = v /\ \A d \in CONN \ {c} : conn'[d] = conn[d]
  BY <1>1, <1>3, <1>5 DEF Inv, Types
<1>8. Holders' = Holders
  BY <1>7 DEF Holders, Queued
<1>9. /\ Store' /\ HighIsTrue' /\ Accounted \subseteq Accounted'
      /\ unwanted' \in HEADERS
  BY <1>0, <1>1, <1>8, GroupIsNoted
<1>10. Types'
  <2>1. conn' \in [CONN -> CONNECTION]
    BY <1>5, <1>6 DEF Inv, Types, CONNECTION
  <2>2. store' = store /\ disk' = disk /\ missed' = missed
    BY DEF GroupAnswer
  <2> QED
    BY <1>5, <1>7, <1>9, <2>1, <2>2 DEF Inv, Types, CONNECTION
<1>11. Frontier(t, s)' /\ Order(t, s)'
  <2>1. InConn(c)' = InConn(c)
    BY <1>0, <1>5, <1>6, <1>7 DEF InConn, Headers, Existing
  <2>2. Noted(c, t)
    BY <1>0, <1>6, <1>7, <2>1 DEF Noted
  <2>3. SameFor(t, s)
    BY <1>7 DEF SameFor
  <2>4. Frontier(t, s) /\ Order(t, s) /\ Types /\ Connected
    BY <1>1 DEF Sound, Inv
  <2> QED
    BY <1>0, <1>1, <1>5, <1>7, <1>9, <1>10, <2>2, <2>3, <2>4, SoundWhenNoted
<1>12. Connected'
  <2>1. Working(c)'
    <3>1. /\ conn'[c].task = t /\ conn'[c].stage = "lines"
          /\ conn'[c].range = conn[c].range
          /\ conn'[c].todo = Headers(s, conn[c].range)
      BY <1>6, <1>7
    <3>2. conn'[c].todo = Headers(ServerOf[c], conn[c].range)'
      BY <1>0, <1>5, <3>1 DEF Headers, Existing
    <3>3. conn[c].range # GROUP
      BY <1>1 DEF Working
    <3> QED
      BY <1>1, <1>7, <3>1, <3>2, <3>3 DEF Working, Queued
  <2>2. task[t].work \notin {"NONE", "GONE"}
    BY <1>1 DEF Queued
  <2> QED
    BY <1>1, <1>3, <1>5, <2>1, <2>2, ConnectedAfter
<1>13. Tasks'
  <2>1. LeavesOthers(t, s, task[t])
    BY DEF LeavesOthers
  <2>2. CompletesEmpty(t, task[t])
    <3>1. c \in Conns(t)
      BY <1>0 DEF Conns
    <3> QED
      BY <1>1, <3>1 DEF CompletesEmpty, Sound
  <2>3. conn[c].task = t /\ v.task = t
    BY <1>0, <1>6
  <2> QED
    BY <1>0, <1>1, <1>3, <1>5, <1>9, <1>10, <1>11, <2>1, <2>2, <2>3, TasksAfter
<1> QED
  BY <1>9, <1>10, <1>12, <1>13 DEF Inv

\* The answer to the task's own GROUP.
LEMMA GroupKeeps ==
  ASSUME Inv, NEW c \in CONN, GroupAnswer(c), conn[c].stage = "group"
  PROVE  Inv'
<1>0. PICK t, s : t = conn[c].task /\ s = ServerOf[c]
  OBVIOUS
<1>1. /\ Working(c) /\ t \in TASK /\ s \in SERVER /\ Queued(t) /\ Sound(t)
      /\ task[t] \in TASKXOVER /\ task[t].mode \in MODE /\ task[t].reffed
  BY <1>0, WorkingLoads, ServerOfType DEF Working
<1>2. PICK k : k = OnGroup(task[t], s)
  OBVIOUS
<1>3. Done(c, k) /\ server' = server
  BY <1>0, <1>2 DEF GroupAnswer
<1>4. s \in task[t].started => k = task[t]
  BY <1>2, OnGroupAgain
<1>5. s \notin task[t].started => Grouped(task[t], s, k)
  BY <1>1, <1>2, OnGroupFirst DEF Inv
<1>6. /\ k \in TASKXOVER /\ k.reffed = TRUE /\ LeavesOthers(t, s, k)
  BY <1>1, <1>4, <1>5 DEF Grouped, LeavesOthers
<1>7. PICK u \in TASKXOVER :
        /\ task' = [task EXCEPT ![t] = u] /\ conn' = [conn EXCEPT ![c] = IdleConn]
        /\ u.mode = k.mode /\ u.reffed = k.reffed /\ u.removing = k.removing
        /\ u.mini = k.mini /\ u.started = k.started /\ u.high = k.high
        /\ u.asked = k.asked
        /\ u.work \in {"NEED_NNTP", "WORKING", "COMPLETED"}
        /\ CompletesEmpty(t, u)
  <2>1. conn[c].stage # "idle"
    OBVIOUS
  <2> QED
    BY <1>0, <1>1, <1>3, <1>6, <2>1, DoneTakes
<1>8. task'[t] = u /\ conn'[c] = IdleConn /\ \A d \in CONN \ {c} : conn'[d] = conn[d]
  BY <1>1, <1>7 DEF Inv, Types
<1>9. Holders' = Holders
  BY <1>1, <1>6, <1>7 DEF Holders, Queued, Inv, Types
<1>10. /\ Store' /\ HighIsTrue' /\ Accounted \subseteq Accounted'
       /\ Sampled(t, s) /\ unwanted' \in HEADERS
  BY <1>0, <1>1, <1>9, GroupIsNoted
<1>11. Types'
  <2>1. task' \in [TASK -> TASKXOVER]
    BY <1>7 DEF Inv, Types
  <2>2. conn' \in [CONN -> CONNECTION]
    BY <1>7, IdleConnType DEF Inv, Types, CONNECTION
  <2>3. store' = store /\ disk' = disk /\ missed' = missed
    BY DEF GroupAnswer
  <2> QED
    BY <1>3, <1>10, <2>1, <2>2, <2>3 DEF Inv, Types, CONNECTION
<1>12. Frontier(t, s)' /\ Order(t, s)'
  <2>1. CASE s \in task[t].started
    <3>1. SameFor(t, s)
      BY <1>4, <1>7, <1>8, <2>1 DEF SameFor
    <3>2. Noted(c, t)
      <4>1. conn'[c].task # t
        BY <1>1, <1>8, NoneIsNoTask DEF IdleConn
      <4>2. InConn(c) = {}
        BY <1>1 DEF InConn, Working
      <4> QED
        BY <4>1, <4>2 DEF Noted
    <3>3. Frontier(t, s) /\ Order(t, s) /\ Types /\ Connected
      BY <1>1 DEF Sound, Inv
    <3> QED
      BY <1>0, <1>1, <1>3, <1>8, <1>10, <1>11, <3>1, <3>2, <3>3, SoundWhenNoted
  <2>2. CASE s \notin task[t].started
    <3>1. /\ task'[t].mini = k.mini /\ task'[t].high = k.high
          /\ task'[t].asked = k.asked /\ task'[t].reffed = k.reffed
          /\ task'[t].started = k.started
      BY <1>7, <1>8
    <3>2. conn' = [conn EXCEPT ![c] = IdleConn]
      BY <1>7
    <3> QED
      BY <1>0, <1>1, <1>2, <1>3, <1>10, <1>11, <2>2, <3>1, <3>2, FrontierAfterGroup
  <2> QED
    BY <2>1, <2>2
<1>13. Connected'
  <2>1. u.work \notin {"NONE", "GONE"} /\ (task[t].reffed => u.reffed)
    BY <1>6, <1>7
  <2> QED
    BY <1>1, <1>3, <1>7, <2>1, ConnectedAfter
<1>14. Tasks'
  <2>1. LeavesOthers(t, s, u)
    BY <1>6, <1>7 DEF LeavesOthers
  <2> QED
    BY <1>0, <1>1, <1>3, <1>7, <1>10, <1>11, <1>12, <2>1, TasksAfter
<1> QED
  BY <1>10, <1>11, <1>13, <1>14 DEF Inv


----------------------------------------------------------------------------
(* A connection for a task.                                                *)

\* What a task keeps on a step that is not of a connection.
LEMMA SoundWhenSame ==
  ASSUME NEW t \in TASK, NEW s \in SERVER, Frontier(t, s), Order(t, s), SameFor(t, s),
         server' = server, conn' = conn, Accounted \subseteq Accounted'
  PROVE  Frontier(t, s)' /\ Order(t, s)'
<1>1. /\ task'[t].mini[s] = task[t].mini[s] /\ task'[t].high[s] = task[t].high[s]
      /\ task'[t].asked[s] = task[t].asked[s]
      /\ task[t].reffed => task'[t].reffed
      /\ task[t].started \subseteq task'[t].started
  BY DEF SameFor
<1>2. Existing(s)' = Existing(s) /\ Conns(t)' = Conns(t)
  BY DEF Existing, Conns
<1>3. Pending(t, s)' = Pending(t, s)
  <2>1. \A c \in CONN : ServerOf[c] = s => InConn(c)' = InConn(c)
    BY <1>2 DEF InConn, Headers
  <2>2. Left(task[t], s)' = Left(task[t], s)
    BY <1>1, <1>2 DEF Left, Headers
  <2>3. \A c \in Conns(t) : c \in CONN
    BY DEF Conns
  <2> QED
    BY <1>2, <2>1, <2>2, <2>3 DEF Pending
<1>4. Frontier(t, s)'
  BY <1>1, <1>2, <1>3 DEF Frontier, Reached
<1>5. Order(t, s)'
  BY <1>1, <1>2 DEF Order
<1> QED
  BY <1>4, <1>5

\* The first connection of a task makes it hold the store.
LEMMA FirstUseKeeps ==
  ASSUME Inv, NEW t \in TASK, Queued(t), ~store.saving, store' = FirstUse(task[t]),
         server' = server, disk' = disk, unwanted' = unwanted, missed' = missed,
         Holders' = Holders \cup {t}
  PROVE  Store' /\ HighIsTrue' /\ Accounted \subseteq Accounted' /\ store' \in STORE
<1>1. task[t].reffed \in BOOLEAN /\ store \in STORE /\ disk.have \in HEADERS
  BY DEF Inv, Types, TASKXOVER, STORE
<1>2. CASE task[t].reffed
  <2>1. store' = store
    BY <1>2 DEF FirstUse
  <2>2. Holders' = Holders
    BY <1>2 DEF Holders
  <2>3. Store' /\ HighIsTrue' /\ Accounted \subseteq Accounted'
    BY <2>1, <2>2, MoreIsKnown DEF Inv
  <2> QED
    BY <1>1, <2>1, <2>3
<1>3. CASE ~task[t].reffed
  <2> DEFINE have == IF Loaded(store) THEN store.have ELSE disk.have
  <2>1. store' = [store EXCEPT !.refs = @ + 1, !.have = have]
    BY <1>1, <1>3 DEF FirstUse, Ref, STORE
  <2>2. have \in HEADERS /\ have = Known
    BY <1>1 DEF Known, STORE
  <2> HIDE DEF have
  <2>3. /\ store' \in STORE
        /\ store'.refs = store.refs + 1 /\ store'.shown = store.shown
        /\ store'.saving = store.saving /\ store'.high = store.high
        /\ store'.have = have /\ store'.refs > 0
    <3>1. PICK n \in Nat : n = store.refs + 1 /\ n > 0
      BY <1>1 DEF STORE
    <3>2. store' = [store EXCEPT !.refs = n, !.have = have]
      BY <2>1, <3>1
    <3>3. store' \in STORE
      BY <1>1, <2>2, <3>1, <3>2 DEF STORE
    <3>4. /\ store'.refs = n /\ store'.shown = store.shown
          /\ store'.saving = store.saving /\ store'.high = store.high
          /\ store'.have = have
      BY <1>1, <3>2 DEF STORE
    <3> QED
      BY <3>1, <3>3, <3>4
  <2>4. Loaded(store)'
    BY <2>3 DEF Loaded
  <2>5. Accounted' = Accounted
    BY <2>2, <2>3, <2>4 DEF Accounted, Known
  <2>6. HighIsTrue'
    BY <2>3, <2>5 DEF Inv, HighIsTrue, Existing
  <2>7. store'.refs = Cardinality(Holders')
    <3>1. IsFiniteSet(Holders) /\ t \notin Holders
      <4>1. IsFiniteSet(TASK) /\ Holders \in SUBSET TASK
        BY TaskXOverAssumption DEF Holders
      <4> QED
        BY <1>3, <4>1, FS_Subset DEF Holders
    <3>2. Cardinality(Holders \cup {t}) = Cardinality(Holders) + 1
      BY <3>1, FS_AddElement
    <3> QED
      BY <2>3, <3>2 DEF Inv, Store
  <2>8. disk'.have \subseteq store'.have
    BY <2>2, <2>3 DEF Inv, Store, Known
  <2>9. Store'
    BY <2>3, <2>7, <2>8 DEF Store
  <2> QED
    BY <2>3, <2>5, <2>6, <2>9
<1> QED
  BY <1>2, <1>3

\* A connection that is not needed after all.
LEMMA UnneededKeeps ==
  ASSUME Inv, NEW t \in TASK, NEW c \in CONN, UseNntp(t, c),
         task[t].mini[ServerOf[c]] = <<>>
  PROVE  Inv'
<1>0. PICK s : s = ServerOf[c]
  OBVIOUS
<1>1. s \in SERVER /\ task[t] \in TASKXOVER
  BY <1>0, ServerOfType DEF Inv, Types
<1>2. PICK u : u = [[task[t] EXCEPT !.reffed = TRUE] EXCEPT !.need = @ \ {s}]
  OBVIOUS
<1>3. /\ u \in TASKXOVER /\ u.reffed = TRUE /\ u.work = task[t].work
      /\ u.mode = task[t].mode /\ u.mini = task[t].mini /\ u.started = task[t].started
      /\ u.high = task[t].high /\ u.asked = task[t].asked
  BY <1>1, <1>2 DEF TASKXOVER
<1>4. /\ task' = [task EXCEPT ![t] = u] /\ conn' = conn /\ server' = server
      /\ disk' = disk /\ unwanted' = unwanted /\ missed' = missed
      /\ store' = FirstUse(task[t]) /\ ~store.saving
      /\ conn[c] = IdleConn /\ task[t].work = "NEED_NNTP"
  <2>1. [task[t] EXCEPT !.reffed = TRUE].mini = task[t].mini
    BY <1>1 DEF TASKXOVER
  <2> QED
    BY <1>0, <1>1, <1>2, <2>1 DEF UseNntp, TASKXOVER
<1>5. task'[t] = u /\ Queued(t) /\ \A x \in TASK \ {t} : task'[x] = task[x]
  BY <1>4 DEF Inv, Types, Queued
<1>6. Holders' = Holders \cup {t}
  BY <1>3, <1>4, <1>5 DEF Holders, Queued
<1>7. Store' /\ HighIsTrue' /\ Accounted \subseteq Accounted' /\ store' \in STORE
  BY <1>4, <1>5, <1>6, FirstUseKeeps
<1>8. Types'
  <2>1. task' \in [TASK -> TASKXOVER]
    BY <1>3, <1>4 DEF Inv, Types
  <2> QED
    BY <1>4, <1>7, <2>1 DEF Inv, Types, STORE
<1>9. conn' = [conn EXCEPT ![c] = IdleConn]
  BY <1>4 DEF Inv, Types
<1>10. Connected'
  <2>1. u.work \notin {"NONE", "GONE"}
    BY <1>3, <1>4
  <2> QED
    BY <1>3, <1>4, <1>9, <2>1, ConnectedAfter
<1>11. Tasks'
  <2>1. LeavesOthers(t, s, u)
    BY <1>3 DEF LeavesOthers
  <2>2. CompletesEmpty(t, u)
    BY <1>3, <1>4 DEF CompletesEmpty
  <2>3. Frontier(t, s)' /\ Order(t, s)'
    <3>1. SameFor(t, s)
      BY <1>3, <1>5 DEF SameFor
    <3>2. Frontier(t, s) /\ Order(t, s)
      BY <1>1, <1>5 DEF Inv, Tasks, Sound
    <3> QED
      BY <1>1, <1>4, <1>7, <3>1, <3>2, SoundWhenSame
  <2> QED
    BY <1>0, <1>3, <1>4, <1>5, <1>7, <1>8, <1>9, <2>1, <2>2, <2>3, TasksAfter
<1> QED
  BY <1>7, <1>8, <1>10, <1>11 DEF Inv


\* What is left of a task's ranges once the first is given to a connection.
Rest(q, r) ==
  /\ r \in Seq(RANGE) /\ q[1] \in RANGE /\ Head(q) = q[1]
  /\ \A i \in DOMAIN r : i + 1 \in DOMAIN q /\ r[i] = q[i + 1]
  /\ 1 \in DOMAIN q /\ \A i \in DOMAIN q : i = 1 \/ (i - 1 \in DOMAIN r /\ q[i] = r[i - 1])
  /\ DOMAIN q \subseteq Nat /\ DOMAIN r \subseteq Nat \ {0}

LEMMA TailIsRest ==
  ASSUME NEW q \in Seq(RANGE), q # <<>>
  PROVE  Rest(q, Tail(q))
<1>1. Len(q) \in Nat \ {0} /\ DOMAIN q = 1..Len(q)
  OBVIOUS
<1>2. /\ Tail(q) \in Seq(RANGE) /\ DOMAIN Tail(q) = 1..(Len(q) - 1)
      /\ \A i \in 1..(Len(q) - 1) : Tail(q)[i] = q[i + 1]
  BY <1>1
<1>3. Head(q) = q[1] /\ q[1] \in RANGE
  BY <1>1
<1>4. \A i \in DOMAIN Tail(q) : i + 1 \in DOMAIN q /\ Tail(q)[i] = q[i + 1]
  BY <1>1, <1>2
<1>5. \A i \in DOMAIN q : i = 1 \/ (i - 1 \in DOMAIN Tail(q) /\ q[i] = Tail(q)[i - 1])
  <2> SUFFICES ASSUME NEW i \in 1..Len(q), i # 1
               PROVE  i - 1 \in 1..(Len(q) - 1) /\ q[i] = Tail(q)[i - 1]
    BY <1>1, <1>2
  <2>1. i - 1 \in 1..(Len(q) - 1) /\ (i - 1) + 1 = i
    BY <1>1
  <2> QED
    BY <1>2, <2>1
<1> QED
  BY <1>1, <1>2, <1>3, <1>4, <1>5 DEF Rest

\* The connection asks for the first of the task's ranges.
Lent(c, s, q) ==
  /\ conn'[c].stage \in {"group", "enter", "lines"}
  /\ conn'[c].stage = "group" <=> q[1] = GROUP
  /\ conn'[c].range = q[1] /\ conn'[c].todo \subseteq Nat
  /\ conn'[c].stage = "lines" => conn'[c].todo = Headers(s, q[1])
  /\ conn'[c].stage # "lines" => conn'[c].todo = {}

LEMMA FrontierAfterUse ==
  ASSUME Types, Types', Connected, NEW c \in CONN, NEW t \in TASK, NEW s \in SERVER,
         s = ServerOf[c], conn[c] = IdleConn, conn'[c].task = t,
         \A d \in CONN \ {c} : conn'[d] = conn[d],
         server' = server, Accounted \subseteq Accounted',
         Frontier(t, s), Order(t, s),
         NEW q, NEW r, q = task[t].mini[s], r = task'[t].mini[s], Rest(q, r), Lent(c, s, q),
         task'[t].high = task[t].high, task'[t].asked = task[t].asked,
         task'[t].started = task[t].started, task'[t].reffed
  PROVE  Frontier(t, s)' /\ Order(t, s)'
<1>1. Existing(s)' = Existing(s) /\ \A x : Headers(s, x)' = Headers(s, x)
  BY DEF Existing, Headers
<1>2. InConn(c)' = Headers(s, q[1])
  <2>1. Headers(s, GROUP) = {}
    BY DEF Headers, Existing, GROUP, Types
  <2> QED
    BY <1>1, <2>1 DEF InConn, Lent
<1>3. conn[c].task # t
  BY NoneIsNoTask DEF IdleConn
<1>4. ASSUME NEW n PROVE n \in Pending(t, s)' <=> n \in Pending(t, s)
  <2>1. WaitsInMini(t, s, n)' => WaitsInMini(t, s, n)
    BY <1>1 DEF WaitsInMini, Rest
  <2>2. WaitsInMini(t, s, n) => WaitsInMini(t, s, n)' \/ n \in InConn(c)'
    BY <1>1, <1>2 DEF WaitsInMini, Rest
  <2>3. n \in InConn(c)' => WaitsInMini(t, s, n)
    BY <1>2 DEF WaitsInMini, Rest
  <2>4. WaitsInConn(t, s, n)' <=> n \in InConn(c)' \/ WaitsInConn(t, s, n)
    <3>1. \A d \in CONN \ {c} : ServerOf[d] = s => InConn(d)' = InConn(d)
      BY <1>1 DEF InConn
    <3>2. WaitsInConn(t, s, n)' => n \in InConn(c)' \/ WaitsInConn(t, s, n)
      BY <3>1 DEF WaitsInConn
    <3>3. WaitsInConn(t, s, n) => WaitsInConn(t, s, n)'
      BY <1>3, <3>1 DEF WaitsInConn
    <3>4. n \in InConn(c)' => WaitsInConn(t, s, n)'
      BY DEF WaitsInConn
    <3> QED
      BY <3>2, <3>3, <3>4
  <2> QED
    BY <2>1, <2>2, <2>3, <2>4, PendingWaits
<1>5. Frontier(t, s)'
  BY <1>4, Advances
<1>6. Order(t, s)'
  <2>0. /\ \A i \in DOMAIN q : q[i] # GROUP => q[i].low \in task[t].asked[s]
        /\ \A i, j \in DOMAIN q : i < j => q[j].high <= q[i].low
    BY DEF Order
  <2>1. \A i \in DOMAIN r : r[i] # GROUP => r[i].low \in task[t].asked[s]
    BY <2>0 DEF Rest
  <2>2. \A i, j \in DOMAIN r : i < j => r[j].high <= r[i].low
    <3> SUFFICES ASSUME NEW i \in DOMAIN r, NEW j \in DOMAIN r, i < j
                 PROVE  r[j].high <= r[i].low
      OBVIOUS
    <3>1. /\ i + 1 \in DOMAIN q /\ r[i] = q[i + 1] /\ i \in Nat
          /\ j + 1 \in DOMAIN q /\ r[j] = q[j + 1] /\ j \in Nat
      BY DEF Rest
    <3>2. i + 1 < j + 1
      BY <3>1
    <3> QED
      BY <2>0, <3>1, <3>2
  <2>3. ASSUME NEW d \in CONN, conn'[d].task = t, ServerOf[d] = s,
               conn'[d].stage \in {"enter", "lines"}
        PROVE  /\ conn'[d].range.low \in task[t].asked[s]
               /\ \A i \in DOMAIN r : r[i].high <= conn'[d].range.low
    <3>1. CASE d = c
      <4>1. q[1] # GROUP /\ conn'[d].range = q[1] /\ 1 \in DOMAIN q
        BY <2>3, <3>1 DEF Lent, Rest
      <4>2. \A i \in DOMAIN r : i + 1 \in DOMAIN q /\ 1 < i + 1 /\ r[i] = q[i + 1]
        BY DEF Rest
      <4> QED
        BY <4>1, <4>2 DEF Order
    <3>2. CASE d # c
      <4>1. conn'[d] = conn[d] /\ d \in Conns(t)
        BY <2>3, <3>2 DEF Conns
      <4>2. \A i \in DOMAIN r : i + 1 \in DOMAIN q /\ r[i] = q[i + 1]
        BY DEF Rest
      <4> QED
        BY <2>3, <4>1, <4>2 DEF Order
    <3> QED
      BY <3>1, <3>2
  <2>4. task[t].asked[s] # {} => s \in task'[t].started
    BY DEF Order
  <2>5. \A d \in Conns(t)' : d \in CONN /\ conn'[d].task = t
    BY DEF Conns
  <2> QED
    BY <2>1, <2>2, <2>3, <2>4, <2>5 DEF Order
<1> QED
  BY <1>5, <1>6


\* A connection that is given the first range.
LEMMA LentKeeps ==
  ASSUME Inv, NEW t \in TASK, NEW c \in CONN, UseNntp(t, c),
         task[t].mini[ServerOf[c]] # <<>>
  PROVE  Inv'
<1>0. PICK s, q : s = ServerOf[c] /\ q = task[t].mini[s]
  OBVIOUS
<1>1. s \in SERVER /\ task[t] \in TASKXOVER /\ q \in Seq(RANGE) /\ q # <<>>
  BY <1>0, ServerOfType DEF Inv, Types, TASKXOVER
<1>2. PICK r : r = Tail(q) /\ r \in Seq(RANGE) /\ Rest(q, r)
  BY <1>1, TailIsRest DEF Rest
<1>3. PICK k : k = [task[t] EXCEPT !.reffed = TRUE, !.mini[s] = r]
  OBVIOUS
<1>4. /\ k \in TASKXOVER /\ k.reffed = TRUE /\ k.mode = task[t].mode
      /\ k.started = task[t].started /\ k.high = task[t].high /\ k.asked = task[t].asked
      /\ k.mini[s] = r /\ \A x \in SERVER \ {s} : k.mini[x] = task[t].mini[x]
  BY <1>1, <1>2, <1>3 DEF TASKXOVER
<1>5. PICK n : n = Cardinality(Conns(t)) + 1
  OBVIOUS
<1>6. n \in Int /\ n > 0
  <2>1. Conns(t) \in SUBSET CONN /\ IsFiniteSet(CONN)
    BY TaskXOverAssumption DEF Conns
  <2>2. Cardinality(Conns(t)) \in Nat
    BY <2>1, FS_Subset, FS_CardinalityType
  <2> QED
    BY <1>5, <2>2
<1>7. PICK u : u = UpdateWork(k, n)
  OBVIOUS
<1>8. /\ u \in TASKXOVER /\ u.mode = k.mode /\ u.reffed = k.reffed
      /\ u.mini = k.mini /\ u.started = k.started /\ u.high = k.high
      /\ u.asked = k.asked
      /\ u.work \in {"NEED_NNTP", "WORKING", "COMPLETED"} /\ u.work # "COMPLETED"
  <2>1. k \in TASKXOVER
    BY <1>4
  <2> QED
    BY <1>6, <1>7, <2>1, UpdateWorkKeeps
<1>9. /\ task' = [task EXCEPT ![t] = u]
      /\ \E stage \in IF q[1] = GROUP THEN {"group"} ELSE {"enter", "lines"} :
           conn' = [conn EXCEPT ![c] =
             [task |-> t, stage |-> stage, range |-> q[1],
              todo |-> IF stage = "lines" THEN Headers(s, q[1]) ELSE {}]]
      /\ server' = server /\ disk' = disk /\ unwanted' = unwanted /\ missed' = missed
      /\ store' = FirstUse(task[t]) /\ ~store.saving
      /\ conn[c] = IdleConn /\ task[t].work = "NEED_NNTP"
  <2> DEFINE held == [task[t] EXCEPT !.reffed = TRUE]
  <2>1. held.mini[s] = q
    BY <1>0, <1>1 DEF TASKXOVER
  <2>2. [held EXCEPT !.mini[s] = Tail(@)] = k
    BY <1>0, <1>1, <1>2, <1>3 DEF TASKXOVER
  <2>3. Head(q) = q[1]
    BY <1>2 DEF Rest
  <2>4. held.work = task[t].work
    BY <1>1 DEF TASKXOVER
  <2> HIDE DEF held
  <2> QED
    BY <1>0, <1>1, <1>5, <1>7, <2>1, <2>2, <2>3, <2>4 DEF UseNntp, held
<1>10. PICK v :
         /\ conn' = [conn EXCEPT ![c] = v] /\ v \in CONNECTION
         /\ v.task = t /\ v.stage \in {"group", "enter", "lines"}
         /\ v.stage = "group" <=> q[1] = GROUP
         /\ v.range = q[1]
         /\ v.stage = "lines" => v.todo = Headers(s, q[1])
         /\ v.stage # "lines" => v.todo = {}
  <2>1. PICK stage \in {"group", "enter", "lines"} :
          /\ stage = "group" <=> q[1] = GROUP
          /\ conn' = [conn EXCEPT ![c] =
               [task |-> t, stage |-> stage, range |-> q[1],
                todo |-> IF stage = "lines" THEN Headers(s, q[1]) ELSE {}]]
    BY <1>9
  <2>2. q[1] \in RANGE /\ Headers(s, q[1]) \in SUBSET Nat
    BY <1>1, <1>2 DEF Rest, Headers, Existing, Inv, Types
  <2>3. PICK todo \in SUBSET Nat : todo = IF stage = "lines" THEN Headers(s, q[1]) ELSE {}
    BY <2>2
  <2>4. PICK v : v = [task |-> t, stage |-> stage, range |-> q[1], todo |-> todo]
    OBVIOUS
  <2>5. v \in CONNECTION
    BY <2>2, <2>3, <2>4 DEF CONNECTION
  <2>6. conn' = [conn EXCEPT ![c] = v]
    BY <2>1, <2>3, <2>4
  <2>7. v.task = t /\ v.stage = stage /\ v.range = q[1] /\ v.todo = todo
    BY <2>4
  <2>8. /\ v.stage = "lines" => v.todo = Headers(s, q[1])
        /\ v.stage # "lines" => v.todo = {}
    BY <2>3, <2>7
  <2> QED
    BY <2>1, <2>5, <2>6, <2>7, <2>8
<1>11. /\ task'[t] = u /\ Queued(t) /\ \A x \in TASK \ {t} : task'[x] = task[x]
       /\ conn'[c] = v /\ \A d \in CONN \ {c} : conn'[d] = conn[d]
  BY <1>9, <1>10 DEF Inv, Types, Queued
<1>12. Holders' = Holders \cup {t}
  BY <1>4, <1>8, <1>11 DEF Holders, Queued
<1>13. Store' /\ HighIsTrue' /\ Accounted \subseteq Accounted' /\ store' \in STORE
  BY <1>9, <1>11, <1>12, FirstUseKeeps
<1>14. Types'
  <2>1. task' \in [TASK -> TASKXOVER]
    BY <1>8, <1>9 DEF Inv, Types
  <2>2. conn' \in [CONN -> CONNECTION]
    BY <1>10 DEF Inv, Types, CONNECTION
  <2> QED
    BY <1>9, <1>13, <2>1, <2>2 DEF Inv, Types, CONNECTION, STORE
<1>15. Lent(c, s, q)
  BY <1>10, <1>11 DEF Lent, CONNECTION
<1>16. Frontier(t, s)' /\ Order(t, s)'
  <2>1. Frontier(t, s) /\ Order(t, s) /\ Types /\ Connected
    BY <1>1, <1>11 DEF Inv, Tasks, Sound
  <2>2. /\ task'[t].high = task[t].high /\ task'[t].asked = task[t].asked
        /\ task'[t].started = task[t].started /\ task'[t].reffed = TRUE
        /\ r = task'[t].mini[s]
    BY <1>4, <1>8, <1>11
  <2>3. /\ conn'[c].task = t /\ conn[c] = IdleConn /\ server' = server
        /\ \A d \in CONN \ {c} : conn'[d] = conn[d]
    BY <1>9, <1>10, <1>11
  <2>4. s \in SERVER /\ s = ServerOf[c] /\ q = task[t].mini[s] /\ Rest(q, r)
    BY <1>0, <1>1, <1>2
  <2> QED
    BY <1>13, <1>14, <1>15, <2>1, <2>2, <2>3, <2>4, FrontierAfterUse
<1>17. Connected'
  <2>1. Working(c)'
    <3>1. \A x : Headers(s, x)' = Headers(s, x)
      BY <1>9 DEF Headers, Existing
    <3>2. /\ conn'[c].task = t /\ conn'[c].stage # "idle"
          /\ conn'[c].stage \in {"enter", "lines"} => conn'[c].range # GROUP
          /\ conn'[c].stage = "group" => conn'[c].range = GROUP
          /\ conn'[c].stage # "lines" => conn'[c].todo = {}
          /\ conn'[c].todo \subseteq Headers(s, q[1]) /\ conn'[c].range = q[1]
      BY <1>10, <1>11
    <3>3. conn'[c].todo \subseteq Headers(ServerOf[c], conn[c].range)'
      BY <1>0, <3>1, <3>2
    <3>4. task'[t].reffed /\ Queued(t)'
      BY <1>4, <1>8, <1>11 DEF Queued
    <3> QED
      BY <3>2, <3>3, <3>4 DEF Working
  <2>2. u.work \notin {"NONE", "GONE"} /\ (task[t].reffed => u.reffed)
    BY <1>4, <1>8
  <2> QED
    BY <1>8, <1>9, <1>10, <2>1, <2>2, ConnectedAfter
<1>18. Tasks'
  <2>1. LeavesOthers(t, s, u)
    BY <1>4, <1>8 DEF LeavesOthers
  <2>2. CompletesEmpty(t, u)
    BY <1>8 DEF CompletesEmpty
  <2>3. v.task = t /\ conn' = [conn EXCEPT ![c] = v]
    BY <1>10
  <2> QED
    BY <1>0, <1>8, <1>9, <1>11, <1>13, <1>14, <1>16, <2>1, <2>2, <2>3, TasksAfter
<1> QED
  BY <1>13, <1>14, <1>17, <1>18 DEF Inv


----------------------------------------------------------------------------
(* Tasks begin and end.                                                    *)

\* Connections stay right when no task that holds the store lets it go.
LEMMA ConnectedWhenSame ==
  ASSUME Connected, conn' = conn, \A s \in SERVER : Existing(s) \subseteq Existing(s)',
         \A c \in CONN : Working(c) =>
           (Queued(conn[c].task) /\ task[conn[c].task].reffed)'
  PROVE  Connected'
<1>1. ASSUME NEW c \in CONN, Working(c) PROVE Working(c)'
  <2>1. conn[c].todo \subseteq Headers(ServerOf[c], conn[c].range)'
    BY <1>1, ServerOfType DEF Working, Headers
  <2> QED
    BY <1>1, <2>1 DEF Working
<1> QED
  BY <1>1 DEF Connected, IdleConn, GROUP

\* A task that no connection works for waits for its ranges only.
LEMMA PendingAlone ==
  ASSUME NEW t \in TASK, NEW s \in SERVER, Conns(t) = {}
  PROVE  Pending(t, s) = Left(task[t], s)
BY DEF Pending

\* A task that has not begun, or is gone.
LEMMA AbsentType ==
  Absent \in TASKXOVER /\ Absent.reffed = FALSE /\ Absent.asked = [s \in SERVER |-> {}]
<1>1. PICK none \in [SERVER -> Seq(RANGE)] : none = [s \in SERVER |-> <<>>]
  <2>1. <<>> \in Seq(RANGE)
    OBVIOUS
  <2> QED
    BY <2>1
<1>2. PICK zero \in [SERVER -> Nat] : zero = [s \in SERVER |-> 0]
  OBVIOUS
<1>3. PICK empty \in [SERVER -> SUBSET Nat] : empty = [s \in SERVER |-> {}]
  OBVIOUS
<1>4. Absent = [work |-> "NONE", mode |-> None, reffed |-> FALSE, removing |-> FALSE,
                need |-> {}, mini |-> none, started |-> {}, high |-> zero,
                asked |-> empty, sample |-> Sample]
  BY <1>1, <1>2, <1>3 DEF Absent
<1>5. Sample \in Nat
  BY TaskXOverAssumption
<1>6. Absent \in TASKXOVER
  BY <1>4, <1>5 DEF TASKXOVER
<1> QED
  BY <1>3, <1>4, <1>6

\* A new task asks every server for the group first.
NewTask(mode) ==
  [Absent EXCEPT !.mode = mode, !.high = store.high, !.mini = [s \in SERVER |-> <<GROUP>>]]

LEMMA NewTaskIs ==
  ASSUME Types, NEW mode \in MODE
  PROVE  /\ NewTask(mode) \in TASKXOVER
         /\ NewTask(mode).mode = mode /\ NewTask(mode).reffed = FALSE
         /\ NewTask(mode).mini = [s \in SERVER |-> <<GROUP>>]
         /\ NewTask(mode).high = store.high
         /\ NewTask(mode).asked = [s \in SERVER |-> {}]
<1> DEFINE mini == [s \in SERVER |-> <<GROUP>>]
<1>1. mini \in [SERVER -> Seq(RANGE)] /\ store.high \in [SERVER -> Nat]
  <2>1. <<GROUP>> \in Seq(RANGE)
    BY IdleConnType
  <2> QED
    BY <2>1 DEF Types
<1>2. Absent \in TASKXOVER /\ Absent.reffed = FALSE /\ Absent.asked = [s \in SERVER |-> {}]
  BY AbsentType
<1>3. NewTask(mode) = [Absent EXCEPT !.mode = mode, !.high = store.high, !.mini = mini]
  BY DEF NewTask
<1> HIDE DEF mini
<1>4. /\ NewTask(mode) \in TASKXOVER
      /\ NewTask(mode).mode = mode /\ NewTask(mode).reffed = FALSE
      /\ NewTask(mode).mini = mini /\ NewTask(mode).high = store.high
      /\ NewTask(mode).asked = [s \in SERVER |-> {}]
  BY <1>1, <1>2, <1>3 DEF TASKXOVER
<1> QED
  BY <1>4 DEF mini

LEMMA StartKeeps ==
  ASSUME Inv, NEW t \in TASK, Start(t)
  PROVE  Inv'
<1>1. PICK mode \in MODES[t] : task' = [task EXCEPT ![t] = UpdateWork(NewTask(mode), 0)]
  BY DEF Start, NewTask
<1>2. mode \in MODE
  BY TaskXOverAssumption DEF MODE
<1>3. PICK k \in TASKXOVER :
        /\ k = NewTask(mode) /\ k.mode = mode /\ k.reffed = FALSE
        /\ k.mini = [s \in SERVER |-> <<GROUP>>] /\ k.high = store.high
        /\ k.asked = [s \in SERVER |-> {}]
  BY <1>2, NewTaskIs DEF Inv
<1>4. PICK u \in TASKXOVER :
        /\ task' = [task EXCEPT ![t] = u]
        /\ u.mode = mode /\ u.reffed = FALSE /\ u.mini = [s \in SERVER |-> <<GROUP>>]
        /\ u.high = store.high /\ u.asked = [s \in SERVER |-> {}]
        /\ u.work = "COMPLETED" => \A s \in SERVER : u.mini[s] = <<>>
  <2>1. PICK u : u = UpdateWork(k, 0)
    OBVIOUS
  <2>2. /\ u \in TASKXOVER /\ u.mode = k.mode /\ u.reffed = k.reffed
        /\ u.mini = k.mini /\ u.high = k.high /\ u.asked = k.asked
        /\ u.work = "COMPLETED" => \A s \in SERVER : u.mini[s] = <<>>
    BY <2>1, UpdateWorkKeeps
  <2>3. task' = [task EXCEPT ![t] = u]
    BY <1>1, <1>3, <2>1
  <2> QED
    BY <1>3, <2>2, <2>3
<1>5. task'[t] = u /\ \A x \in TASK \ {t} : task'[x] = task[x]
  BY <1>4 DEF Inv, Types
<1>6. /\ server' = server /\ conn' = conn /\ store' = store /\ disk' = disk
      /\ unwanted' = unwanted /\ missed' = missed /\ ~Queued(t)
  BY DEF Start, Queued
<1>7. Conns(t) = {} /\ Conns(t)' = {}
  <2>1. \A c \in CONN : conn[c].task # t
    BY <1>6, NoneIsNoTask DEF Inv, Connected, Working, IdleConn
  <2> QED
    BY <1>6, <2>1 DEF Conns
<1>8. Types'
  BY <1>4, <1>6 DEF Inv, Types
<1>9. Holders' = Holders
  BY <1>4, <1>5, <1>6 DEF Holders, Queued
<1>10. Store' /\ HighIsTrue' /\ Accounted \subseteq Accounted'
  BY <1>6, <1>9, MoreIsKnown DEF Inv
<1>11. Connected'
  <2>1. \A c \in CONN : Working(c) => (Queued(conn[c].task) /\ task[conn[c].task].reffed)'
    BY <1>5, <1>6 DEF Working, Queued
  <2> QED
    BY <1>6, <2>1, ConnectedWhenSame DEF Inv, Existing
<1>12. ASSUME NEW s \in SERVER PROVE Frontier(t, s)' /\ Order(t, s)'
  <2>1. Pending(t, s)' = {}
    <3>1. \A i \in DOMAIN task'[t].mini[s] : task'[t].mini[s][i] = GROUP
      BY <1>4, <1>5
    <3>2. Headers(s, GROUP)' = {}
      BY <1>8 DEF Headers, Existing, GROUP, Types
    <3>3. \A n : ~WaitsInMini(t, s, n)'
      BY <3>1, <3>2 DEF WaitsInMini, Headers
    <3>4. \A n : ~WaitsInConn(t, s, n)'
      BY <1>7 DEF WaitsInConn, Conns
    <3> QED
      BY <3>3, <3>4, PendingWaits
  <2>2. task'[t].asked[s] = {} /\ task'[t].high[s] = store.high[s]
    BY <1>4, <1>5
  <2>3. Frontier(t, s)'
    BY <1>6, <2>1, <2>2 DEF Frontier, Reached, Inv, HighIsTrue, Existing, Accounted, Known, Loaded
  <2>4. Order(t, s)'
    <3>1. PICK q : q = task'[t].mini[s]
      OBVIOUS
    <3>2. DOMAIN q = {1} /\ q[1] = GROUP
      BY <1>4, <1>5, <3>1
    <3> QED
      BY <1>7, <2>2, <3>1, <3>2 DEF Order
  <2> QED
    BY <2>3, <2>4
<1>13. Sound(t)'
  BY <1>2, <1>4, <1>5, <1>7, <1>12 DEF Sound
<1>14. Tasks'
  <2>1. ASSUME NEW x \in TASK, x # t PROVE (Queued(x) => Sound(x))'
    BY <1>5, <1>6, <1>10, <2>1, Undisturbed DEF Inv, Tasks
  <2> QED
    BY <1>13, <2>1 DEF Tasks
<1> QED
  BY <1>8, <1>10, <1>11, <1>14 DEF Inv

\* The user removes a task.
LEMMA RemoveTaskKeeps ==
  ASSUME Inv, NEW t \in TASK, RemoveTask(t)
  PROVE  Inv'
<1>1. PICK u : u = [task[t] EXCEPT !.removing = TRUE]
  OBVIOUS
<1>2. task[t] \in TASKXOVER
  BY DEF Inv, Types
<1>3. /\ u \in TASKXOVER /\ u.reffed = task[t].reffed /\ u.work = task[t].work
      /\ u.mode = task[t].mode /\ u.mini = task[t].mini /\ u.started = task[t].started
      /\ u.high = task[t].high /\ u.asked = task[t].asked
  BY <1>1, <1>2 DEF TASKXOVER
<1>4. /\ task' = [task EXCEPT ![t] = u] /\ server' = server /\ conn' = conn
      /\ store' = store /\ disk' = disk /\ unwanted' = unwanted /\ missed' = missed
      /\ Queued(t)
  BY <1>1, <1>2 DEF RemoveTask, TASKXOVER
<1>5. task'[t] = u /\ \A x \in TASK \ {t} : task'[x] = task[x]
  BY <1>4 DEF Inv, Types
<1>6. Types'
  BY <1>3, <1>4 DEF Inv, Types
<1>7. Holders' = Holders
  BY <1>3, <1>5 DEF Holders, Queued
<1>8. Store' /\ HighIsTrue' /\ Accounted \subseteq Accounted'
  BY <1>4, <1>7, MoreIsKnown DEF Inv
<1>9. Connected'
  <2>1. \A c \in CONN : Working(c) => (Queued(conn[c].task) /\ task[conn[c].task].reffed)'
    BY <1>3, <1>4, <1>5 DEF Working, Queued
  <2> QED
    BY <1>4, <2>1, ConnectedWhenSame DEF Inv, Existing
<1>10. Sound(t)'
  <2>1. Sound(t)
    BY <1>4 DEF Inv, Tasks
  <2>2. \A s \in SERVER : Frontier(t, s)' /\ Order(t, s)'
    <3> SUFFICES ASSUME NEW s \in SERVER PROVE Frontier(t, s)' /\ Order(t, s)'
      OBVIOUS
    <3>1. SameFor(t, s)
      BY <1>3, <1>5 DEF SameFor
    <3> QED
      BY <1>4, <1>8, <2>1, <3>1, SoundWhenSame DEF Sound
  <2>3. Conns(t)' = Conns(t)
    BY <1>4 DEF Conns
  <2> QED
    BY <1>3, <1>5, <2>1, <2>2, <2>3 DEF Sound
<1>11. Tasks'
  <2>1. ASSUME NEW x \in TASK, x # t PROVE (Queued(x) => Sound(x))'
    BY <1>4, <1>5, <1>8, <2>1, Undisturbed DEF Inv, Tasks
  <2> QED
    BY <1>10, <2>1 DEF Tasks
<1> QED
  BY <1>6, <1>8, <1>9, <1>11 DEF Inv


DISK == [have : HEADERS, high : [SERVER -> Nat]]

\* The numbers that a store is left with are true.
TrueHigh(st) ==
  \A s \in SERVER :
    /\ st.high[s] <= server[s].high
    /\ \A n \in Existing(s) : n <= st.high[s] => <<s, n>> \in Accounted \cup missed'

\* Whether the store's last user leaves or not, what was known is known: it
\* is written before it is freed.
LEMMA UnrefKeeps ==
  ASSUME Inv, Loaded(store), NEW new \in STORE, Unref(new),
         new.have = store.have, new.saving = FALSE, new.refs = Cardinality(Holders'),
         TrueHigh(new), server' = server, unwanted' = unwanted, missed \subseteq missed'
  PROVE  /\ Store' /\ HighIsTrue' /\ Accounted \subseteq Accounted'
         /\ store' \in STORE /\ disk' \in DISK
<1>1. Known = store.have /\ disk \in DISK /\ disk.have \subseteq store.have
  BY DEF Known, Inv, Types, Store, DISK
<1>2. CASE Loaded(new)
  <2>1. store' = new /\ disk' = disk
    BY <1>2 DEF Unref
  <2>2. Known' = Known
    BY <1>1, <1>2, <2>1 DEF Known, Loaded
  <2>3. Accounted \subseteq Accounted' /\ missed' \subseteq Accounted'
    BY <2>2 DEF Accounted
  <2>4. HighIsTrue'
    BY <2>1, <2>3 DEF Inv, HighIsTrue, TrueHigh, Existing
  <2>5. Store'
    BY <1>1, <2>1 DEF Store
  <2> QED
    BY <1>1, <2>1, <2>3, <2>4, <2>5
<1>3. CASE ~Loaded(new)
  <2>1. /\ store' = [new EXCEPT !.have = {}, !.saving = TRUE]
        /\ disk' = [disk EXCEPT !.have = new.have]
    BY <1>3 DEF Unref
  <2>2. /\ store' \in STORE /\ store'.refs = new.refs /\ store'.shown = new.shown
        /\ store'.high = new.high
    <3>1. {} \in HEADERS
      BY DEF HEADERS
    <3> QED
      BY <2>1, <3>1 DEF STORE
  <2>3. disk' \in DISK /\ disk'.have = store.have /\ disk'.high = disk.high
    BY <1>1, <2>1 DEF DISK, STORE
  <2>4. ~Loaded(store)'
    BY <1>3, <2>2 DEF Loaded
  <2>5. Known' = Known
    BY <1>1, <2>3, <2>4 DEF Known
  <2>6. Accounted \subseteq Accounted' /\ missed' \subseteq Accounted'
    BY <2>5 DEF Accounted
  <2>7. HighIsTrue'
    <3>1. ASSUME NEW s \in SERVER
          PROVE  store'.high[s] <= server'[s].high /\ disk'.high[s] <= server'[s].high
      BY <2>2, <2>3 DEF TrueHigh, Inv, HighIsTrue
    <3>2. ASSUME NEW s \in SERVER, NEW n \in Existing(s), n <= store'.high[s]
          PROVE  <<s, n>> \in Accounted'
      BY <2>2, <2>6, <3>2 DEF TrueHigh
    <3>3. ASSUME NEW s \in SERVER, NEW n \in Existing(s), n <= disk'.high[s]
          PROVE  <<s, n>> \in (disk.have \cup unwanted \cup missed \cup CORRUPT)'
      <4>1. <<s, n>> \in disk.have \cup unwanted \cup missed \cup CORRUPT
        BY <2>3, <3>3 DEF Inv, HighIsTrue
      <4> QED
        BY <1>1, <2>3, <4>1
    <3>4. \A s : Existing(s)' = Existing(s)
      BY DEF Existing
    <3> QED
      BY <3>1, <3>2, <3>3, <3>4 DEF HighIsTrue
  <2>8. Store'
    BY <2>2, <2>4 DEF Store
  <2> QED
    BY <2>2, <2>3, <2>6, <2>7, <2>8
<1> QED
  BY <1>2, <1>3

\* A step that leaves the tasks and connections alone.
LEMMA TasksWhenSame ==
  ASSUME Inv, task' = task, conn' = conn, server' = server, Accounted \subseteq Accounted'
  PROVE  Tasks' /\ Connected' /\ Holders' = Holders
<1>1. Tasks'
  BY Undisturbed DEF Inv, Tasks
<1>2. Connected'
  BY ConnectedWhenSame DEF Inv, Existing, Working, Queued
<1> QED
  BY <1>1, <1>2 DEF Holders, Queued

\* A task that ends leaves the number up to which it knows the headers.
LEMMA EndKeeps ==
  ASSUME Inv, NEW t \in TASK, End(t)
  PROVE  Inv'
<1>1. PICK k : k = task[t]
  OBVIOUS
<1>2. k \in TASKXOVER /\ Queued(t) /\ Conns(t) = {} /\ Sound(t) /\ store \in STORE
  BY <1>1 DEF End, Inv, Types, Tasks, STORE
<1>3. PICK u \in TASKXOVER : u = [Absent EXCEPT !.work = "GONE"] /\ u.work = "GONE"
  <2>1. PICK a \in TASKXOVER : a = Absent
    BY AbsentType
  <2>2. PICK u : u = [a EXCEPT !.work = "GONE"]
    OBVIOUS
  <2>3. u \in TASKXOVER /\ u.work = "GONE"
    BY <2>2 DEF TASKXOVER
  <2> QED
    BY <2>1, <2>2, <2>3
<1>4. /\ task' = [task EXCEPT ![t] = u] /\ server' = server /\ conn' = conn
      /\ unwanted' = unwanted
      /\ missed' = missed \cup UNION {Of(s, Left(k, s)) : s \in SERVER}
  BY <1>1, <1>3 DEF End, Left
<1>5. task'[t] = u /\ ~Queued(t)' /\ \A x \in TASK \ {t} : task'[x] = task[x]
  BY <1>3, <1>4 DEF Inv, Types, Queued
<1>6. Holders' = Holders \ {t}
  BY <1>5 DEF Holders, Queued
<1>7. missed \subseteq missed' /\ missed' \in HEADERS
  <2>1. \A s \in SERVER : Left(k, s) \in SUBSET Nat
    BY DEF Left, Headers, Existing, Inv, Types
  <2>2. \A s \in SERVER : Of(s, Left(k, s)) \in HEADERS
    BY <2>1, OfType
  <2> QED
    BY <1>4, <2>2 DEF HEADERS, Inv, Types
<1>8. \A s \in SERVER : \A n \in Pending(t, s) : <<s, n>> \in missed'
  BY <1>1, <1>2, <1>4, PendingAlone DEF Of
<1>9. /\ Store' /\ HighIsTrue' /\ Accounted \subseteq Accounted'
      /\ store' \in STORE /\ disk' \in DISK
  <2>1. CASE k.reffed
    <3>1. t \in Holders
      BY <1>1, <1>2, <2>1 DEF Holders
    <3>2. store.refs > 0 /\ Loaded(store) /\ IsFiniteSet(Holders)
      BY <3>1, HolderLoads DEF Inv
    <3>3. PICK new : new = [store EXCEPT !.high = k.high, !.refs = @ - 1]
      OBVIOUS
    <3>4. PICK n \in Nat : n = store.refs - 1
      BY <1>2, <3>2 DEF STORE
    <3>5. new = [store EXCEPT !.high = k.high, !.refs = n]
      BY <3>3, <3>4
    <3>6. /\ new \in STORE /\ new.high = k.high /\ new.refs = n /\ new.have = store.have
          /\ new.saving = store.saving /\ new.shown = store.shown
      BY <1>2, <3>5 DEF STORE, TASKXOVER
    <3>7. Unref(new) /\ ~store.saving
      BY <1>1, <2>1, <3>3 DEF End
    <3>8. new.refs = Cardinality(Holders')
      BY <1>6, <3>1, <3>2, <3>4, <3>6, FS_RemoveElement DEF Inv, Store
    <3>9. TrueHigh(new)
      <4>1. ASSUME NEW s \in SERVER
            PROVE  /\ new.high[s] <= server[s].high
                   /\ \A m \in Existing(s) : m <= new.high[s] =>
                        <<s, m>> \in Accounted \cup missed'
        <5>1. Frontier(t, s)
          BY <1>2 DEF Sound
        <5> QED
          BY <1>1, <1>8, <3>6, <5>1 DEF Frontier, Reached
      <4> QED
        BY <4>1 DEF TrueHigh
    <3>10. new.saving = FALSE
      BY <3>6, <3>7 DEF STORE
    <3> QED
      BY <1>4, <1>7, <3>2, <3>6, <3>7, <3>8, <3>9, <3>10, UnrefKeeps
  <2>2. CASE ~k.reffed
    <3>1. store' = store /\ disk' = disk /\ Holders' = Holders
      BY <1>1, <1>6, <2>2 DEF End, Holders
    <3>2. Store' /\ HighIsTrue' /\ Accounted \subseteq Accounted'
      BY <1>4, <1>7, <3>1, MoreIsKnown DEF Inv
    <3> QED
      BY <1>2, <3>1, <3>2 DEF Inv, Types, DISK
  <2> QED
    BY <2>1, <2>2
<1>10. Types'
  <2>1. task' \in [TASK -> TASKXOVER]
    BY <1>4 DEF Inv, Types
  <2> QED
    BY <1>4, <1>7, <1>9, <2>1 DEF Inv, Types, STORE, DISK
<1>11. Connected'
  <2>1. \A c \in CONN : conn[c].task # t
    BY <1>2 DEF Conns
  <2>2. \A c \in CONN : Working(c) => (Queued(conn[c].task) /\ task[conn[c].task].reffed)'
    BY <1>4, <1>5, <2>1 DEF Working, Queued
  <2> QED
    BY <1>4, <2>2, ConnectedWhenSame DEF Inv, Existing
<1>12. Tasks'
  <2>1. ASSUME NEW x \in TASK, x # t PROVE (Queued(x) => Sound(x))'
    BY <1>4, <1>5, <1>9, <2>1, Undisturbed DEF Inv, Tasks
  <2> QED
    BY <1>5, <2>1 DEF Tasks
<1> QED
  BY <1>9, <1>10, <1>11, <1>12 DEF Inv


----------------------------------------------------------------------------
(* The user, the servers and the machine.                                  *)

LEMMA ShowKeeps ==
  ASSUME Inv, Show
  PROVE  Inv'
<1>1. /\ server' = server /\ task' = task /\ conn' = conn
      /\ unwanted' = unwanted /\ missed' = missed /\ ~store.saving
  BY DEF Show
<1>2. store \in STORE /\ disk \in DISK /\ store.saving = FALSE
  <2>1. store \in STORE /\ disk \in DISK
    BY DEF Inv, Types, STORE, DISK
  <2> QED
    BY <1>1, <2>1 DEF STORE
<1>3. Holders' = Holders
  BY <1>1 DEF Holders, Queued
<1>4. /\ Store' /\ HighIsTrue' /\ Accounted \subseteq Accounted'
      /\ store' \in STORE /\ disk' \in DISK
  <2>1. CASE ~store.shown
    <3> DEFINE have == IF Loaded(store) THEN store.have ELSE disk.have
    <3>1. disk' = disk /\ store' = [store EXCEPT !.shown = TRUE, !.have = have]
      <4>1. store' = Ref(store, [store EXCEPT !.shown = TRUE]) /\ disk' = disk
        BY <2>1 DEF Show
      <4> QED
        BY <1>2, <4>1 DEF Ref, STORE
    <3>2. have \in HEADERS /\ have = Known
      BY <1>2 DEF Known, STORE, DISK
    <3> HIDE DEF have
    <3>3. /\ store' \in STORE
          /\ store'.refs = store.refs /\ store'.shown = TRUE /\ store'.have = have
          /\ store'.saving = store.saving /\ store'.high = store.high
      BY <1>2, <3>1, <3>2 DEF STORE
    <3>4. Loaded(store)'
      BY <3>3 DEF Loaded
    <3>5. Accounted' = Accounted
      BY <1>1, <3>2, <3>3, <3>4 DEF Accounted, Known
    <3>6. HighIsTrue'
      BY <1>1, <3>1, <3>3, <3>5 DEF Inv, HighIsTrue, Existing
    <3>7. disk'.have \subseteq store'.have
      BY <3>1, <3>2, <3>3 DEF Inv, Store, Known
    <3>8. Store'
      BY <1>2, <1>3, <3>3, <3>7 DEF Inv, Store
    <3> QED
      BY <1>2, <3>1, <3>3, <3>5, <3>6, <3>8
  <2>2. CASE store.shown
    <3>1. PICK new : new = [store EXCEPT !.shown = FALSE]
      OBVIOUS
    <3>2. /\ new \in STORE /\ new.high = store.high /\ new.refs = store.refs
          /\ new.have = store.have /\ new.saving = FALSE
      BY <1>2, <3>1 DEF STORE
    <3>3. Unref(new)
      <4>1. [store EXCEPT !.shown = ~@] = new
        BY <2>2, <3>1
      <4>2. Unref([store EXCEPT !.shown = ~@])
        BY <2>2 DEF Show
      <4> QED
        BY <4>1, <4>2
    <3>4. Loaded(store)
      BY <2>2 DEF Loaded
    <3>5. TrueHigh(new)
      BY <3>2 DEF TrueHigh, Inv, HighIsTrue
    <3>6. new.refs = Cardinality(Holders')
      BY <1>3, <3>2 DEF Inv, Store
    <3> QED
      BY <1>1, <3>2, <3>3, <3>4, <3>5, <3>6, UnrefKeeps
  <2> QED
    BY <2>1, <2>2
<1>5. Tasks' /\ Connected'
  BY <1>1, <1>4, TasksWhenSame
<1>6. Types'
  BY <1>1, <1>4 DEF Inv, Types, STORE, DISK
<1> QED
  BY <1>4, <1>5, <1>6 DEF Inv

LEMMA SaveXoversKeeps ==
  ASSUME Inv, SaveXovers
  PROVE  Inv'
<1>1. /\ server' = server /\ task' = task /\ conn' = conn
      /\ unwanted' = unwanted /\ missed' = missed /\ store.saving
      /\ store' = [store EXCEPT !.saving = FALSE]
      /\ disk' = [disk EXCEPT !.high = store.high]
  BY DEF SaveXovers
<1>2. store \in STORE /\ disk \in DISK /\ ~Loaded(store) /\ Known = disk.have
  BY <1>1 DEF Inv, Types, STORE, DISK, Store, Known
<1>3. /\ store' \in STORE /\ store'.refs = store.refs /\ store'.shown = store.shown
      /\ store'.saving = FALSE /\ store'.high = store.high
  BY <1>1, <1>2 DEF STORE
<1>4. disk' \in DISK /\ disk'.have = disk.have /\ disk'.high = store.high
  BY <1>1, <1>2 DEF DISK, STORE
<1>5. ~Loaded(store)'
  BY <1>2, <1>3 DEF Loaded
<1>6. Accounted' = Accounted
  BY <1>1, <1>2, <1>4, <1>5 DEF Accounted, Known
<1>7. HighIsTrue'
  <2>1. Accounted = disk'.have \cup unwanted' \cup missed' \cup CORRUPT
    BY <1>1, <1>2, <1>4 DEF Accounted
  <2>2. \A s : Existing(s)' = Existing(s)
    BY <1>1 DEF Existing
  <2> QED
    BY <1>1, <1>3, <1>4, <1>6, <2>1, <2>2 DEF Inv, HighIsTrue
<1>8. Tasks' /\ Connected' /\ Holders' = Holders
  BY <1>1, <1>6, TasksWhenSame
<1>9. Store'
  BY <1>3, <1>5, <1>8 DEF Inv, Store
<1>10. Types'
  BY <1>1, <1>3, <1>4 DEF Inv, Types, STORE, DISK
<1> QED
  BY <1>7, <1>8, <1>9, <1>10 DEF Inv

LEMMA MarkOtherGroupsKeeps ==
  ASSUME Inv, MarkOtherGroups
  PROVE  Inv'
<1> DEFINE more == IF Loaded(store) THEN store.have \ disk.have ELSE {}
<1>1. /\ server' = server /\ task' = task /\ conn' = conn /\ store' = store
      /\ unwanted' = unwanted /\ missed' = missed \cup more
      /\ disk' = [disk EXCEPT !.high = store.high]
  BY DEF MarkOtherGroups
<1>2. store \in STORE /\ disk \in DISK /\ missed \in HEADERS
  BY DEF Inv, Types, STORE, DISK
<1>3. more \in HEADERS /\ Known \subseteq disk.have \cup more
  BY <1>2 DEF Known, STORE, HEADERS
<1> HIDE DEF more
<1>4. disk' \in DISK /\ disk'.have = disk.have /\ disk'.high = store.high
  BY <1>1, <1>2 DEF DISK, STORE
<1>5. Known' = Known
  BY <1>1, <1>4 DEF Known, Loaded
<1>6. Accounted \subseteq Accounted'
  BY <1>1, <1>5 DEF Accounted
<1>7. HighIsTrue'
  <2>1. Accounted \subseteq disk'.have \cup unwanted' \cup missed' \cup CORRUPT
    BY <1>1, <1>3, <1>4 DEF Accounted
  <2>2. \A s : Existing(s)' = Existing(s)
    BY <1>1 DEF Existing
  <2> QED
    BY <1>1, <1>4, <1>6, <2>1, <2>2 DEF Inv, HighIsTrue
<1>8. Tasks' /\ Connected' /\ Holders' = Holders
  BY <1>1, <1>6, TasksWhenSame
<1>9. Store'
  BY <1>1, <1>4, <1>8 DEF Inv, Store, Loaded
<1>10. Types'
  <2>1. missed' \in HEADERS
    BY <1>1, <1>2, <1>3 DEF HEADERS
  <2> QED
    BY <1>1, <1>4, <2>1 DEF Inv, Types, DISK
<1> QED
  BY <1>7, <1>8, <1>9, <1>10 DEF Inv

\* A restart finds what is on disk.
LEMMA CrashKeeps ==
  ASSUME Inv, Crash
  PROVE  Inv'
<1>1. /\ server' = server /\ disk' = disk /\ unwanted' = unwanted /\ missed' = missed
      /\ conn' = [c \in CONN |-> IdleConn]
      /\ store' = [refs |-> 0, shown |-> FALSE, saving |-> FALSE, have |-> {},
                   high |-> disk.high]
      /\ task' = [t \in TASK |-> IF Queued(t) THEN [Absent EXCEPT !.work = "GONE"]
                                 ELSE task[t]]
  BY DEF Crash
<1>2. \A t \in TASK : task'[t] \in TASKXOVER /\ ~Queued(t)'
  <2>1. PICK a \in TASKXOVER : a = Absent
    BY AbsentType
  <2>2. PICK u : u = [a EXCEPT !.work = "GONE"]
    OBVIOUS
  <2>3. u \in TASKXOVER /\ u.work = "GONE"
    BY <2>2 DEF TASKXOVER
  <2>4. \A t \in TASK : task'[t] = IF Queued(t) THEN u ELSE task[t]
    BY <1>1, <2>1, <2>2
  <2> QED
    BY <2>3, <2>4 DEF Inv, Types, Queued
<1>3. store' \in STORE /\ ~Loaded(store)'
  <2>1. {} \in HEADERS /\ disk.high \in [SERVER -> Nat]
    BY DEF HEADERS, Inv, Types
  <2> QED
    BY <1>1, <2>1 DEF STORE, Loaded
<1>4. Types'
  <2>1. task' \in [TASK -> TASKXOVER]
    BY <1>1, <1>2
  <2>2. conn' \in [CONN -> CONNECTION]
    BY <1>1, IdleConnType
  <2> QED
    BY <1>1, <1>3, <2>1, <2>2 DEF Inv, Types, STORE, CONNECTION
<1>5. Connected'
  BY <1>1 DEF Connected, IdleConn, GROUP
<1>6. Store'
  <2>1. Holders' = {}
    BY <1>2 DEF Holders
  <2> QED
    BY <1>1, <1>3, <2>1, FS_EmptySet DEF Store
<1>7. HighIsTrue'
  <2>1. Accounted' = disk.have \cup unwanted \cup missed \cup CORRUPT
    BY <1>1, <1>3 DEF Accounted, Known
  <2>2. \A s : Existing(s)' = Existing(s)
    BY <1>1 DEF Existing
  <2>3. store'.high = disk.high
    BY <1>1
  <2> QED
    BY <1>1, <2>1, <2>2, <2>3 DEF Inv, HighIsTrue
<1>8. Tasks'
  BY <1>2 DEF Tasks
<1> QED
  BY <1>4, <1>5, <1>6, <1>7, <1>8 DEF Inv


\* An article arrives: who waits for it has asked for what is below it.
LEMMA ArriveKeeps ==
  ASSUME Inv, NEW s \in SERVER, Arrive(s)
  PROVE  Inv'
<1>1. /\ task' = task /\ conn' = conn /\ store' = store /\ disk' = disk
      /\ unwanted' = unwanted /\ missed' = missed
      /\ server' = [server EXCEPT ![s].high = @ + 1]
  BY DEF Arrive
<1>2. \A x \in SERVER : server[x] \in [low : Nat \ {0}, high : Nat]
  BY DEF Inv, Types
<1>3. /\ server'[s].low = server[s].low /\ server'[s].high = server[s].high + 1
      /\ \A x \in SERVER \ {s} : server'[x] = server[x]
      /\ server' \in [SERVER -> [low : Nat \ {0}, high : Nat]]
  <2>1. PICK v : v = [server[s] EXCEPT !.high = @ + 1]
    OBVIOUS
  <2>2. /\ v \in [low : Nat \ {0}, high : Nat]
        /\ v.low = server[s].low /\ v.high = server[s].high + 1
    BY <1>2, <2>1
  <2>3. server' = [server EXCEPT ![s] = v]
    BY <1>1, <2>1
  <2> QED
    BY <2>2, <2>3 DEF Inv, Types
<1>4. \A x \in SERVER : /\ server'[x].low = server[x].low
                        /\ server'[x].high >= server[x].high
                        /\ server'[x].high <= server[x].high + 1
                        /\ Existing(x) \subseteq Existing(x)'
  <2>1. ASSUME NEW x \in SERVER
        PROVE  /\ server'[x].low = server[x].low /\ server'[x].high \in Nat
               /\ server'[x].high >= server[x].high
               /\ server'[x].high <= server[x].high + 1
    BY <1>2, <1>3
  <2> QED
    BY <1>2, <2>1 DEF Existing
<1>5. Types'
  BY <1>1, <1>3 DEF Inv, Types
<1>6. Connected'
  BY <1>1, <1>4, ConnectedWhenSame DEF Inv, Working, Queued
<1>7. Store' /\ Holders' = Holders /\ Accounted' = Accounted
  BY <1>1 DEF Inv, Store, Holders, Queued, Loaded, Accounted, Known
<1>8. HighIsTrue'
  <2> SUFFICES ASSUME NEW x \in SERVER
               PROVE  /\ store.high[x] <= server'[x].high
                      /\ disk.high[x] <= server'[x].high
                      /\ \A n \in Existing(x)' :
                           /\ n <= store.high[x] => <<x, n>> \in Accounted
                           /\ n <= disk.high[x] =>
                                <<x, n>> \in disk.have \cup unwanted \cup missed \cup CORRUPT
    BY <1>1, <1>7 DEF HighIsTrue
  <2>1. /\ store.high[x] \in Nat /\ disk.high[x] \in Nat
        /\ store.high[x] <= server[x].high /\ disk.high[x] <= server[x].high
    BY DEF Inv, Types, HighIsTrue
  <2>2. \A n \in Existing(x)' : n <= server[x].high => n \in Existing(x)
    BY <1>2, <1>4, <1>5 DEF Existing, Types
  <2>3. \A n \in Existing(x)' : n \in Nat
    BY <1>5 DEF Existing, Types
  <2>4. ASSUME NEW n \in Existing(x)', n <= store.high[x] PROVE <<x, n>> \in Accounted
    <3>1. n \in Existing(x)
      BY <1>2, <2>1, <2>2, <2>3, <2>4
    <3> QED
      BY <2>4, <3>1 DEF Inv, HighIsTrue
  <2>5. ASSUME NEW n \in Existing(x)', n <= disk.high[x]
        PROVE  <<x, n>> \in disk.have \cup unwanted \cup missed \cup CORRUPT
    <3>1. n \in Existing(x)
      BY <1>2, <2>1, <2>2, <2>3, <2>5
    <3> QED
      BY <2>5, <3>1 DEF Inv, HighIsTrue
  <2> QED
    BY <1>2, <1>4, <1>5, <2>1, <2>4, <2>5 DEF Types
<1>9. ASSUME NEW t \in TASK, NEW x \in SERVER, Queued(t) PROVE Frontier(t, x)'
  <2>1. Frontier(t, x) /\ Order(t, x) /\ task[t] \in TASKXOVER
    BY <1>9 DEF Inv, Tasks, Sound, Types
  <2>2. Pending(t, x) \subseteq Pending(t, x)'
    <3> SUFFICES ASSUME NEW n \in Pending(t, x) PROVE n \in Pending(t, x)'
      OBVIOUS
    <3>1. WaitsInMini(t, x, n) => WaitsInMini(t, x, n)'
      BY <1>1, <1>4 DEF WaitsInMini, Headers
    <3>2. WaitsInConn(t, x, n) => WaitsInConn(t, x, n)'
      BY <1>1, <1>4 DEF WaitsInConn, InConn, Headers
    <3> QED
      BY <3>1, <3>2, PendingWaits
  <2>3. ASSUME NEW n \in Existing(x)', NEW m \in Pending(t, x)', m \notin Existing(x), n <= m
        PROVE  (Reached(t, x, n) /\ n \in Existing(x)) \/ n \in Pending(t, x)'
    <3>1. m \in Nat /\ n \in Nat
      BY <1>5, <1>6, <2>3, PendingExistsThen DEF Existing, Types
    <3>2. PICK r \in RANGE :
            /\ r # GROUP => r.low \in task[t].asked[x]
            /\ m \in r.low..r.high
            /\ \A i \in r.low..r.high : i \in Existing(x)' => i \in Pending(t, x)'
      <4>1. CASE WaitsInMini(t, x, m)'
        <5>1. PICK i \in DOMAIN task[t].mini[x] : m \in Headers(x, task[t].mini[x][i])'
          BY <1>1, <4>1 DEF WaitsInMini
        <5>2. PICK r \in RANGE : r = task[t].mini[x][i]
          BY <2>1, <5>1 DEF TASKXOVER
        <5>3. \A j \in r.low..r.high : j \in Existing(x)' => WaitsInMini(t, x, j)'
          BY <1>1, <5>1, <5>2 DEF WaitsInMini, Headers
        <5>4. r # GROUP => r.low \in task[t].asked[x]
          BY <2>1, <5>1, <5>2 DEF Order
        <5>5. m \in r.low..r.high
          BY <1>1, <5>1, <5>2 DEF Headers
        <5> QED
          BY <5>3, <5>4, <5>5, PendingWaits
      <4>2. CASE WaitsInConn(t, x, m)'
        <5>1. PICK c \in CONN : conn[c].task = t /\ ServerOf[c] = x /\ m \in InConn(c)'
          BY <1>1, <4>2 DEF WaitsInConn
        <5>2. Working(c)
          BY <5>1, NoneIsNoTask DEF Inv, Connected, IdleConn
        <5>3. conn[c].stage = "enter"
          BY <1>1, <2>3, <5>1, <5>2 DEF InConn, Working, Headers
        <5>4. PICK r \in RANGE : r = conn[c].range
          BY DEF Inv, Types
        <5>5. InConn(c)' = Existing(x)' \cap (r.low..r.high)
          BY <1>1, <5>1, <5>3, <5>4 DEF InConn, Headers
        <5>6. \A j \in r.low..r.high : j \in Existing(x)' => WaitsInConn(t, x, j)'
          BY <1>1, <5>1, <5>5 DEF WaitsInConn
        <5>7. r.low \in task[t].asked[x]
          BY <2>1, <5>1, <5>3, <5>4 DEF Order, Conns
        <5> QED
          BY <5>1, <5>5, <5>6, <5>7, PendingWaits
      <4> QED
        BY <2>3, <4>1, <4>2, PendingWaits
    <3>3. CASE n >= r.low
      BY <2>3, <3>1, <3>2, <3>3 DEF RANGE
    <3>4. CASE n < r.low
      <4>1. r # GROUP
        BY <3>1, <3>4 DEF GROUP
      <4>2. r.low \in Existing(x) /\ r.low \in task[t].asked[x]
        BY <2>1, <3>2, <4>1 DEF Frontier
      <4>3. n \in Existing(x)
        BY <1>2, <1>4, <1>5, <2>3, <3>1, <3>4, <4>2 DEF Existing, Types
      <4> QED
        BY <3>1, <3>4, <4>2, <4>3 DEF Reached, RANGE
    <3> QED
      BY <3>1, <3>2, <3>3, <3>4 DEF RANGE
  <2>4. task[t].high[x] <= server'[x].high /\ task[t].asked[x] \subseteq Existing(x)'
    <3>1. task[t].high[x] \in Nat
      BY <2>1 DEF TASKXOVER
    <3> QED
      BY <1>2, <1>4, <1>5, <2>1, <3>1 DEF Frontier, Types
  <2>5. ASSUME NEW n \in Existing(x)', Reached(t, x, n)'
        PROVE  <<x, n>> \in Accounted \/ n \in Pending(t, x)'
    <3>1. CASE Reached(t, x, n) /\ n \in Existing(x)
      BY <2>1, <2>2, <3>1 DEF Frontier
    <3>2. CASE \E m \in Pending(t, x)' : m \notin Existing(x) /\ n <= m
      BY <2>1, <2>2, <2>3, <3>1, <3>2
    <3>3. CASE ~(\E m \in Pending(t, x)' : m \notin Existing(x) /\ n <= m)
      <4>1. n \in Nat /\ \A m \in Existing(x) : m \in Nat /\ m <= server[x].high
        BY <1>2, <1>5 DEF Existing, Types
      <4>2. ASSUME NEW m \in Pending(t, x)', m \in Existing(x) PROVE m \in Pending(t, x)
        <5>1. WaitsInMini(t, x, m)' => WaitsInMini(t, x, m)
          BY <1>1, <4>2 DEF WaitsInMini, Headers
        <5>2. WaitsInConn(t, x, m)' => WaitsInConn(t, x, m)
          BY <1>1, <4>2 DEF WaitsInConn, InConn, Headers
        <5> QED
          BY <4>2, <5>1, <5>2, PendingWaits
      <4>3. Reached(t, x, n)
        BY <1>1, <2>5, <3>3, <4>2 DEF Reached
      <4>4. n <= server[x].high
        <5>1. task[t].high[x] \in Nat /\ task[t].high[x] <= server[x].high
          BY <2>1 DEF Frontier, TASKXOVER
        <5>2. \A m \in task[t].asked[x] \cup Pending(t, x) : m \in Existing(x)
          BY <2>1, PendingExists DEF Frontier, Inv
        <5> QED
          BY <1>2, <4>1, <4>3, <5>1, <5>2 DEF Reached
      <4>5. n \in Existing(x)
        BY <1>2, <1>4, <1>5, <4>1, <4>4 DEF Existing, Types
      <4> QED
        BY <3>1, <4>3, <4>5
    <3> QED
      BY <3>2, <3>3
  <2> QED
    BY <1>1, <1>7, <2>4, <2>5 DEF Frontier
<1>10. Tasks'
  BY <1>1, <1>9 DEF Inv, Tasks, Sound, Order, Queued, Conns
<1> QED
  BY <1>5, <1>6, <1>7, <1>8, <1>10 DEF Inv


----------------------------------------------------------------------------
(* The specification.                                                      *)

LEMMA InitIsInv ==
  ASSUME Init
  PROVE  Inv
<1>1. /\ server = [s \in SERVER |-> [low |-> 1, high |-> Last0[s]]]
      /\ task = [t \in TASK |-> Absent] /\ conn = [c \in CONN |-> IdleConn]
      /\ unwanted = {} /\ missed = {}
      /\ store = [refs |-> 0, shown |-> FALSE, saving |-> FALSE, have |-> {},
                  high |-> [s \in SERVER |-> 0]]
      /\ disk = [have |-> {}, high |-> [s \in SERVER |-> 0]]
  BY DEF Init
<1>2. Absent \in TASKXOVER /\ \A t \in TASK : ~Queued(t)
  BY <1>1, AbsentType DEF Queued, Absent
<1>3. PICK zero \in [SERVER -> Nat] : zero = [s \in SERVER |-> 0]
  OBVIOUS
<1>4. {} \in HEADERS
  BY DEF HEADERS
<1>5. Types
  <2>1. server \in [SERVER -> [low : Nat \ {0}, high : Nat]]
    <3>1. \A s \in SERVER : [low |-> 1, high |-> Last0[s]] \in [low : Nat \ {0}, high : Nat]
      <4>1. \A s \in SERVER : Last0[s] \in Nat
        BY TaskXOverAssumption
      <4> QED
        BY <4>1
    <3> QED
      BY <1>1, <3>1
  <2>2. conn \in [CONN -> CONNECTION]
    BY <1>1, IdleConnType
  <2>3. store \in STORE /\ disk \in DISK
    BY <1>1, <1>3, <1>4 DEF STORE, DISK
  <2>4. task \in [TASK -> TASKXOVER]
    BY <1>1, <1>2
  <2> QED
    BY <1>1, <1>4, <2>1, <2>2, <2>3, <2>4 DEF Types, CONNECTION, STORE, DISK
<1>6. Connected
  BY <1>1 DEF Connected
<1>7. Store
  <2>1. Holders = {}
    BY <1>2 DEF Holders
  <2> QED
    BY <1>1, <2>1, FS_EmptySet DEF Store, Loaded
<1>8. HighIsTrue
  BY <1>1, <1>5 DEF HighIsTrue, Existing, Types
<1>9. Tasks
  BY <1>2 DEF Tasks
<1> QED
  BY <1>5, <1>6, <1>7, <1>8, <1>9 DEF Inv

LEMMA StutterKeeps ==
  ASSUME Inv, UNCHANGED vars
  PROVE  Inv'
<1>1. /\ server' = server /\ task' = task /\ conn' = conn /\ store' = store
      /\ disk' = disk /\ unwanted' = unwanted /\ missed' = missed
  BY DEF vars
<1>2. Accounted' = Accounted
  BY <1>1 DEF Accounted, Known, Loaded
<1>3. Tasks' /\ Connected' /\ Holders' = Holders
  BY <1>1, <1>2, TasksWhenSame
<1>4. Store' /\ HighIsTrue'
  BY <1>1, <1>2, <1>3 DEF Inv, Store, Loaded, HighIsTrue, Existing
<1>5. Types'
  BY <1>1 DEF Inv, Types
<1> QED
  BY <1>3, <1>4, <1>5 DEF Inv

LEMMA StepKeepsInv ==
  ASSUME Inv, [Next]_vars
  PROVE  Inv'
<1>1. ASSUME NEW c \in CONN, Answer(c) PROVE Inv'
  <2>1. CASE GroupAnswer(c)
    <3>1. conn[c].stage \in {"group", "enter"}
      BY <2>1 DEF GroupAnswer
    <3> QED
      BY <2>1, <3>1, GroupKeeps, EnterKeeps
  <2>2. CASE Line(c)
    BY <2>2, LineKeeps
  <2>3. CASE AllLines(c)
    BY <2>3, AllLinesKeeps
  <2> QED
    BY <1>1, <2>1, <2>2, <2>3 DEF Answer
<1>2. ASSUME NEW t \in TASK, NEW c \in CONN, UseNntp(t, c) PROVE Inv'
  <2>1. CASE task[t].mini[ServerOf[c]] = <<>>
    BY <1>2, <2>1, UnneededKeeps
  <2>2. CASE task[t].mini[ServerOf[c]] # <<>>
    BY <1>2, <2>2, LentKeeps
  <2> QED
    BY <2>1, <2>2
<1>3. ASSUME NEW t \in TASK, End(t) \/ Start(t) \/ RemoveTask(t) PROVE Inv'
  BY <1>3, EndKeeps, StartKeeps, RemoveTaskKeeps
<1>4. ASSUME NEW c \in CONN, Lost(c) \/ Refused(c) \/ Garbled(c) PROVE Inv'
  BY <1>4, DropKeeps, AllLinesKeeps DEF Lost, Refused
<1>5. ASSUME NEW s \in SERVER, Arrive(s) PROVE Inv'
  BY <1>5, ArriveKeeps
<1>6. CASE SaveXovers \/ Show \/ MarkOtherGroups \/ Crash
  BY <1>6, SaveXoversKeeps, ShowKeeps, MarkOtherGroupsKeeps, CrashKeeps
<1>7. CASE UNCHANGED vars
  BY <1>7, StutterKeeps
<1> QED
  BY <1>1, <1>2, <1>3, <1>4, <1>5, <1>6, <1>7 DEF Next, Work

\* In every state the store is counted and what is on disk is in it, every
\* connection works within its range, and every header up to a number that
\* pan takes to be known is known, corrupt, left out by a mode, a misdated
\* header or a fault, or still waited for by the task that will raise the
\* number (xover.cc, task-xover.cc).
THEOREM Invariance == Spec => []Inv
<1>1. Init => Inv
  BY InitIsInv
<1>2. Inv /\ [Next]_vars => Inv'
  BY StepKeepsInv
<1> QED
  BY <1>1, <1>2, PTL DEF Spec

\* Whatever the servers, the ranges and the tasks, whatever dates the headers
\* bear, which of them are corrupt or too long, and whatever is refused, lost,
\* garbled, removed or cut off by a crash: no header that the next request
\* for new headers leaves out is absent without one of these to blame.
THEOREM SkippedOnlyByFaultsIsInvariant == Spec => []SkippedOnlyByFaults
<1>1. Inv => SkippedOnlyByFaults
  <2> SUFFICES ASSUME Inv, NEW h \in Gaps PROVE h \in unwanted \cup missed \cup CORRUPT
    BY DEF SkippedOnlyByFaults
  <2>1. PICK s \in SERVER :
          h \in Of(s, server[s].low..Min({server[s].high, store.high[s]}))
    BY DEF Gaps
  <2>2. PICK n \in server[s].low..Min({server[s].high, store.high[s]}) : h = <<s, n>>
    BY <2>1 DEF Of
  <2>3. PICK a \in Nat, b \in Nat : a = server[s].high /\ b = store.high[s]
    BY DEF Inv, Types
  <2>4. Min({a, b}) \in {a, b} /\ Min({a, b}) <= a /\ Min({a, b}) <= b
    BY PairExtremes
  <2>5. server[s].low \in Nat /\ n \in server[s].low..Min({a, b})
    BY <2>2, <2>3 DEF Inv, Types
  <2>6. n \in Nat /\ server[s].low <= n /\ n <= a /\ n <= b
    BY <2>4, <2>5
  <2>7. n \in Existing(s) /\ n <= store.high[s]
    BY <2>3, <2>5, <2>6 DEF Existing
  <2>8. h \in Accounted
    BY <2>2, <2>7 DEF Inv, HighIsTrue
  <2>9. h \notin Known
    <3> DEFINE all == UNION {Of(x, server[x].low..Min({server[x].high, store.high[x]}))
                             : x \in SERVER}
    <3>1. Gaps = all \ Known
      BY DEF Gaps
    <3> HIDE DEF all
    <3> QED
      BY <3>1
  <2> QED
    BY <2>8, <2>9 DEF Accounted
<1> QED
  BY <1>1, Invariance, PTL

\* A task is complete only when everything it found its servers to have is
\* stored, unless one of the same has happened to it (update_work,
\* on_nntp_done).
THEOREM EndsCompleteIsInvariant == Spec => []EndsComplete
<1>1. Inv => EndsComplete
  <2> SUFFICES ASSUME Inv, NEW t \in TASK, NEW s \in SERVER, task[t].work = "COMPLETED",
                      NEW n \in task[t].asked[s] \cap Existing(s)
               PROVE  <<s, n>> \in store.have \cup unwanted \cup missed \cup CORRUPT
    BY DEF EndsComplete, Of
  <2>1. Queued(t) /\ Sound(t) /\ task[t] \in TASKXOVER
    BY DEF Queued, Inv, Tasks, Types
  <2>2. Pending(t, s) = {}
    <3>1. Conns(t) = {} /\ task[t].mini[s] = <<>>
      BY <2>1 DEF Sound
    <3>2. Left(task[t], s) = {}
      BY <3>1 DEF Left, ToSet
    <3> QED
      BY <3>1, <3>2, PendingAlone
  <2>3. n \in Nat
    BY <2>1 DEF TASKXOVER
  <2>4. <<s, n>> \in Accounted
    BY <2>1, <2>2, <2>3 DEF Sound, Frontier, Reached
  <2>5. t \in Holders
    BY <2>1 DEF Sound, Order, Holders
  <2>6. Loaded(store)
    BY <2>5, HolderLoads DEF Inv
  <2> QED
    BY <2>4, <2>6 DEF Accounted, Known
<1> QED
  BY <1>1, Invariance, PTL


----------------------------------------------------------------------------
(* The types.                                                              *)

\* No step changes what a task was asked for.
Modes == \A t \in TASK : task[t].mode \in MODES[t] \cup {None}
SameMode(k, u) == "mode" \in DOMAIN u /\ u.mode = k.mode

LEMMA OperationsKeepMode ==
  ASSUME NEW k, "mode" \in DOMAIN k, NEW s, NEW ns, NEW n
  PROVE  /\ SameMode(k, UpdateWork(k, n)) /\ SameMode(k, OnGroup(k, s))
         /\ SameMode(k, Take(k, s, ns)) /\ SameMode(k, [k EXCEPT !.removing = TRUE])
         /\ SameMode(k, [k EXCEPT !.reffed = TRUE])
         /\ SameMode(k, [k EXCEPT !.need = @ \ {s}])
         /\ SameMode(k, [k EXCEPT !.mini[s] = Tail(@)])
<1>1. SameMode(k, UpdateWork(k, n))
  <2> DEFINE servers == {x \in SERVER : k.mini[x] # <<>>}
             work == CASE servers # {} -> "NEED_NNTP"
                       [] servers = {} /\ n > 0 -> "WORKING"
                       [] OTHER -> "COMPLETED"
  <2>1. UpdateWork(k, n) = [k EXCEPT !.need = servers, !.work = work]
    BY DEF UpdateWork
  <2> HIDE DEF servers, work
  <2> QED
    BY <2>1 DEF SameMode
<1>2. SameMode(k, OnGroup(k, s))
  <2> DEFINE low == First(k, s)
             high == server[s].high
             sample == IF k.mode = "SAMPLE" THEN SampleSize(k, s) ELSE k.sample
  <2>1. CASE s \in k.started
    BY <2>1 DEF OnGroup, SameMode
  <2>2. CASE s \notin k.started /\ low <= high
    <3>1. OnGroup(k, s) = [k EXCEPT !.started = @ \cup {s}, !.asked[s] = low..high,
                                    !.mini[s] = Ranges(low, high) \o @, !.sample = sample]
      BY <2>2 DEF OnGroup
    <3> HIDE DEF low, high, sample
    <3> QED
      BY <3>1 DEF SameMode
  <2>3. CASE s \notin k.started /\ ~(low <= high)
    <3>1. OnGroup(k, s) = [k EXCEPT !.started = @ \cup {s}, !.high[s] = high,
                                    !.sample = sample]
      BY <2>3 DEF OnGroup
    <3> HIDE DEF low, high, sample
    <3> QED
      BY <3>1 DEF SameMode
  <2> QED
    BY <2>1, <2>2, <2>3
<1>3. SameMode(k, Take(k, s, ns))
  BY DEF Take, SameMode
<1> QED
  BY <1>1, <1>2, <1>3 DEF SameMode

\* What a connection's step makes of its task.
OfOperations(t, u) ==
  \/ \E n : u = UpdateWork(task[t], n)
  \/ \E n, s : u = UpdateWork(OnGroup(task[t], s), n) \/ u = OnGroup(task[t], s)
  \/ \E n, s, ns : u = UpdateWork(Take(task[t], s, ns), n) \/ u = Take(task[t], s, ns)

LEMMA ConnectionKeepsModes ==
  ASSUME Inv, Modes, NEW t \in TASK, NEW u, OfOperations(t, u), task' = [task EXCEPT ![t] = u]
  PROVE  Modes'
<1>1. "mode" \in DOMAIN task[t]
  BY DEF Inv, Types, TASKXOVER
<1>2. SameMode(task[t], u)
  <2>1. CASE \E n : u = UpdateWork(task[t], n)
    <3>1. PICK n : u = UpdateWork(task[t], n)
      BY <2>1
    <3>2. SameMode(task[t], UpdateWork(task[t], n))
      BY <1>1, OperationsKeepMode
    <3> QED
      BY <3>1, <3>2
  <2>2. CASE \E n, s : u = UpdateWork(OnGroup(task[t], s), n) \/ u = OnGroup(task[t], s)
    <3>1. PICK n, s : u = UpdateWork(OnGroup(task[t], s), n) \/ u = OnGroup(task[t], s)
      BY <2>2
    <3>2. PICK v : v = OnGroup(task[t], s)
      OBVIOUS
    <3>3. SameMode(task[t], v)
      BY <1>1, <3>2, OperationsKeepMode
    <3>4. SameMode(v, UpdateWork(v, n))
      BY <3>3, OperationsKeepMode DEF SameMode
    <3> QED
      BY <3>1, <3>2, <3>3, <3>4 DEF SameMode
  <2>3. CASE \E n, s, ns : u = UpdateWork(Take(task[t], s, ns), n) \/ u = Take(task[t], s, ns)
    <3>1. PICK n, s, ns : u = UpdateWork(Take(task[t], s, ns), n) \/ u = Take(task[t], s, ns)
      BY <2>3
    <3>2. PICK v : v = Take(task[t], s, ns)
      OBVIOUS
    <3>3. SameMode(task[t], v)
      BY <1>1, <3>2, OperationsKeepMode
    <3>4. SameMode(v, UpdateWork(v, n))
      BY <3>3, OperationsKeepMode DEF SameMode
    <3> QED
      BY <3>1, <3>2, <3>3, <3>4 DEF SameMode
  <2> QED
    BY <2>1, <2>2, <2>3 DEF OfOperations
<1>3. task'[t] = u /\ \A x \in TASK \ {t} : task'[x] = task[x]
  BY DEF Inv, Types
<1> QED
  BY <1>2, <1>3 DEF Modes, SameMode

LEMMA StepKeepsModes ==
  ASSUME Inv, Modes, [Next]_vars
  PROVE  Modes'
<1>1. task \in [TASK -> TASKXOVER]
  BY DEF Inv, Types
<1>2. ASSUME NEW c \in CONN, Answer(c) \/ Lost(c) \/ Refused(c) \/ Garbled(c) PROVE Modes'
  <2>1. PICK t : t = conn[c].task
    OBVIOUS
  <2>2. conn[c].stage # "idle"
    BY <1>2 DEF Answer, GroupAnswer, Line, AllLines, Lost, Refused, Garbled, Drop, Inv,
                Connected, IdleConn, Working
  <2>3. t \in TASK
    BY <2>1, <2>2, WorkingLoads DEF Working
  <2>4. PICK u : OfOperations(t, u) /\ task' = [task EXCEPT ![t] = u]
    BY <1>1, <1>2, <2>1, <2>3
       DEF OfOperations, Answer, GroupAnswer, Line, AllLines, Finish, Lost, Refused, Garbled,
           Drop, Done
  <2> QED
    BY <2>3, <2>4, ConnectionKeepsModes
<1>3. ASSUME NEW t \in TASK, NEW u, u.mode \in MODES[t] \cup {None},
             task' = [task EXCEPT ![t] = u]
      PROVE  Modes'
  BY <1>1, <1>3 DEF Modes
<1>4. ASSUME NEW t \in TASK, NEW c \in CONN, UseNntp(t, c) PROVE Modes'
  <2>1. PICK s, held : s = ServerOf[c] /\ held = [task[t] EXCEPT !.reffed = TRUE]
    OBVIOUS
  <2>2. SameMode(task[t], held)
    BY <1>1, <2>1, OperationsKeepMode DEF TASKXOVER
  <2>3. PICK rest : rest = [held EXCEPT !.mini[s] = Tail(@)]
    OBVIOUS
  <2>4. SameMode(held, rest) /\ SameMode(held, [held EXCEPT !.need = @ \ {s}])
    BY <2>2, <2>3, OperationsKeepMode DEF SameMode
  <2>5. \A n : SameMode(rest, UpdateWork(rest, n))
    BY <2>4, OperationsKeepMode DEF SameMode
  <2>6. \/ task' = [task EXCEPT ![t] = [held EXCEPT !.need = @ \ {s}]]
        \/ \E n : task' = [task EXCEPT ![t] = UpdateWork(rest, n)]
    BY <1>4, <2>1, <2>3 DEF UseNntp
  <2> QED
    BY <1>3, <2>2, <2>4, <2>5, <2>6 DEF SameMode, Modes
<1>5. ASSUME NEW t \in TASK, Start(t) PROVE Modes'
  <2>1. PICK mode \in MODES[t] : task' = [task EXCEPT ![t] = UpdateWork(NewTask(mode), 0)]
    BY <1>5 DEF Start, NewTask
  <2>2. mode \in MODE
    BY TaskXOverAssumption DEF MODE
  <2>3. "mode" \in DOMAIN NewTask(mode) /\ NewTask(mode).mode = mode
    BY <2>2, NewTaskIs DEF Inv, TASKXOVER
  <2>4. UpdateWork(NewTask(mode), 0).mode = mode
    BY <2>3, OperationsKeepMode DEF SameMode
  <2> QED
    BY <1>3, <2>1, <2>4
<1>6. ASSUME NEW t \in TASK, RemoveTask(t) PROVE Modes'
  <2>1. task' = [task EXCEPT ![t] = [task[t] EXCEPT !.removing = TRUE]]
    BY <1>1, <1>6 DEF RemoveTask
  <2>2. [task[t] EXCEPT !.removing = TRUE].mode = task[t].mode
    BY <1>1 DEF TASKXOVER
  <2> QED
    BY <1>3, <2>1, <2>2 DEF Modes
<1>7. [Absent EXCEPT !.work = "GONE"].mode = None
  BY DEF Absent
<1>8. ASSUME NEW t \in TASK, End(t) PROVE Modes'
  BY <1>3, <1>7, <1>8 DEF End
<1>9. CASE Crash
  <2>1. \A t \in TASK : task'[t] = [Absent EXCEPT !.work = "GONE"] \/ task'[t] = task[t]
    BY <1>9 DEF Crash
  <2> QED
    BY <1>7, <2>1 DEF Modes
<1>10. CASE task' = task
  BY <1>10 DEF Modes
<1> QED
  BY <1>2, <1>4, <1>5, <1>6, <1>8, <1>9, <1>10
     DEF Next, Work, SaveXovers, Show, MarkOtherGroups, Arrive, vars

\* Every variable has its type, and the store of the group is loaded while a
\* connection works for one of its tasks.
THEOREM TypeCorrect == Spec => []TypeOK
<1>1. Init => Modes
  <2>1. Absent.mode = None
    BY DEF Absent
  <2> QED
    BY <2>1 DEF Init, Modes
<1>2. Inv /\ Modes /\ [Next]_vars => Modes'
  BY StepKeepsModes
<1>3. Inv /\ Modes => TypeOK
  <2> SUFFICES ASSUME Inv, Modes PROVE TypeOK
    OBVIOUS
  <2>1. ASSUME NEW t \in TASK
        PROVE  /\ task[t].work \in {"NONE", "NEED_NNTP", "WORKING", "COMPLETED", "GONE"}
               /\ task[t].mode \in MODES[t] \cup {None}
               /\ task[t].need \subseteq SERVER /\ task[t].started \subseteq SERVER
    <3>1. task[t] \in TASKXOVER
      BY DEF Inv, Types
    <3> QED
      BY <3>1 DEF TASKXOVER, Modes
  <2>2. \A c \in CONN : conn[c].stage \in {"idle", "group", "enter", "lines"}
    BY DEF Inv, Types
  <2>3. store.refs = Cardinality({t \in TASK : Queued(t) /\ task[t].reffed})
    BY DEF Inv, Store, Holders
  <2>4. ASSUME NEW c \in CONN, conn[c] # IdleConn PROVE Loaded(store)
    BY <2>4, WorkingLoads DEF Inv, Connected, Working
  <2> QED
    BY <2>1, <2>2, <2>3, <2>4 DEF TypeOK
<1> QED
  BY <1>1, <1>2, <1>3, Invariance, PTL DEF Spec

=============================================================================
