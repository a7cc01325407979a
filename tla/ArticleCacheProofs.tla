------------------------- MODULE ArticleCacheProofs -------------------------
(***************************************************************************)
(* Theorems about ArticleCache, for any parts, sizes, tasks and limit and  *)
(* for every fault: locks count the tasks that hold a part, and what a     *)
(* task has stopped waiting for stays in the cache until the task ends.    *)
(*                                                                         *)
(* The second follows from the first: the parts of a task that exists are  *)
(* locked because they are counted, and resize() passes over what is       *)
(* locked.  Only restarting forgets locks, and it ends every task.         *)
(* The bytes that are counted are never fewer than those in the index, so  *)
(* that the limit holds.                                                   *)
(***************************************************************************)
EXTENDS ArticleCache, FiniteSetTheorems, TLAPS

\* The index never names a file that is not there: a message-id without a file
\* is no copy yet.
IndexOnDisk == \A m \in MID : info[m] # None => disk[m] # None

Inv == Types /\ IndexOnDisk /\ LocksMatch /\ PartsPresent /\ CopiesKept

\* The tasks that lock a part.
Holders(m) == {t \in tasks : m \in Parts[t]}

-----------------------------------------------------------------------------
\* resize() keeps what is locked and changes no lock.
LEMMA ResizeKeepsLocked ==
  ASSUME NEW files \in [MID -> File \cup {None}],
         NEW index \in [MID -> File \cup {None}],
         \A m \in MID : index[m] # None => files[m] # None,
         NEW held, NEW bytes, NEW max,
         Resize(files, index, held, bytes, max)
  PROVE  /\ locks' = held
         /\ disk' \in [MID -> File \cup {None}]
         /\ info' \in [MID -> File \cup {None}]
         /\ IndexOnDisk'
         /\ \A m \in MID : index[m] # None /\ held[m] # 0 => info'[m] # None
  BY Zenon DEF Resize, Expires, IndexOnDisk

\* add() makes its part and what was cached before stay, if they are locked.
LEMMA AddKeepsLocked ==
  ASSUME CacheAssumption, Types, IndexOnDisk, NEW m \in MID, NEW held,
         Add(m, held)
  PROVE  /\ locks' = held
         /\ disk' \in [MID -> File \cup {None}]
         /\ info' \in [MID -> File \cup {None}]
         /\ IndexOnDisk'
         /\ \A o \in Cached \cup {m} : held[o] # 0 => o \in Cached'
<1> DEFINE file == [size |-> Size[m], date |-> now]
           files == [disk EXCEPT ![m] = file]
           index == IF m \in Cached THEN info ELSE [info EXCEPT ![m] = file]
<1>1. file \in File /\ file # None
  BY DEF CacheAssumption, Types, File
<1>2. files \in [MID -> File \cup {None}] /\ index \in [MID -> File \cup {None}]
  BY <1>1 DEF Types
<1>3. \A o \in Cached \cup {m} : o \in MID /\ index[o] # None
  BY <1>1 DEF Cached, Types
<1>0. \A o \in MID : index[o] # None => files[o] # None
  BY <1>1 DEF Types, IndexOnDisk
<1>4. Resize(files, index, held, current_bytes + Size[m], max_bytes)
  BY DEF Add
<1> HIDE DEF files, index
<1>5. /\ locks' = held
      /\ disk' \in [MID -> File \cup {None}]
      /\ info' \in [MID -> File \cup {None}]
      /\ IndexOnDisk'
      /\ \A o \in MID : index[o] # None /\ held[o] # 0 => info'[o] # None
  BY <1>0, <1>2, <1>4, ResizeKeepsLocked
<1> QED
  BY <1>3, <1>5 DEF Cached

\* What is locked: the parts of the tasks that exist, and the copies.
LEMMA InUseIsLocked ==
  ASSUME CacheAssumption, Inv
  PROVE  /\ \A t \in tasks : \A m \in Parts[t] : m \in MID /\ locks[m] # 0
         /\ \A m \in copied : m \in MID /\ locks[m] # 0
<1>1. \A m \in MID : /\ IsFiniteSet(Holders(m))
                     /\ Cardinality(Holders(m)) \in Nat
  <2>1. \A m \in MID : Holders(m) \subseteq TASK
    BY DEF Inv, Types, Holders
  <2> QED
    BY <2>1, FS_Subset, FS_CardinalityType DEF CacheAssumption
<1>2. \A m \in MID : locks[m] = Cardinality(Holders(m))
                                + IF m \in copied THEN 1 ELSE 0
  BY DEF Inv, LocksMatch, Holders
<1>3. ASSUME NEW t \in tasks, NEW m \in Parts[t]
      PROVE  m \in MID /\ locks[m] # 0
  <2>1. t \in TASK /\ m \in MID
    BY <1>3 DEF Inv, Types, CacheAssumption
  <2>2. t \in Holders(m)
    BY <1>3 DEF Holders
  <2>3. Cardinality(Holders(m)) # 0
    BY <1>1, <2>1, <2>2, FS_EmptySet
  <2> QED
    BY <1>1, <1>2, <2>1, <2>3
<1>4. \A m \in copied : m \in MID /\ locks[m] # 0
  BY <1>1, <1>2 DEF Inv, Types, CacheAssumption
<1> QED
  BY <1>3, <1>4

\* One task more, or less, among those that lock a part.
LEMMA HoldersOfOneMore ==
  ASSUME CacheAssumption
  PROVE  \A S \in SUBSET TASK, t \in TASK, m \in MID : t \notin S =>
           /\ Cardinality({u \in S : m \in Parts[u]}) \in Nat
           /\ Cardinality({u \in S \cup {t} : m \in Parts[u]})
                = Cardinality({u \in S : m \in Parts[u]})
                  + IF m \in Parts[t] THEN 1 ELSE 0
<1> SUFFICES ASSUME NEW S \in SUBSET TASK, NEW t \in TASK, NEW m \in MID,
                    t \notin S
             PROVE  /\ Cardinality({u \in S : m \in Parts[u]}) \in Nat
                    /\ Cardinality({u \in S \cup {t} : m \in Parts[u]})
                         = Cardinality({u \in S : m \in Parts[u]})
                           + IF m \in Parts[t] THEN 1 ELSE 0
  OBVIOUS
<1> DEFINE Hold(T) == {u \in T : m \in Parts[u]}
<1>1. IsFiniteSet(Hold(S)) /\ Cardinality(Hold(S)) \in Nat
  <2>1. Hold(S) \subseteq TASK
    OBVIOUS
  <2> QED
    BY <2>1, FS_Subset, FS_CardinalityType DEF CacheAssumption
<1>2. CASE m \in Parts[t]
  <2>1. Hold(S \cup {t}) = Hold(S) \cup {t} /\ t \notin Hold(S)
    BY <1>2
  <2>2. Cardinality(Hold(S) \cup {t}) = Cardinality(Hold(S)) + 1
    BY <1>1, <2>1, FS_AddElement
  <2> QED
    BY <1>1, <1>2, <2>1, <2>2
<1>3. CASE m \notin Parts[t]
  <2>1. Hold(S \cup {t}) = Hold(S)
    BY <1>3
  <2>2. Cardinality(Hold(S \cup {t})) = Cardinality(Hold(S))
    BY <2>1
  <2>3. Cardinality(Hold(S)) = Cardinality(Hold(S)) + 0
    BY <1>1
  <2> QED
    BY <1>1, <1>3, <2>2, <2>3
<1> QED
  BY <1>2, <1>3

-----------------------------------------------------------------------------
\* Actions that add parts to the cache, or only expire some, keep what is locked.
LEMMA ResizeKeepsInv ==
  ASSUME CacheAssumption, Inv,
         disk' \in [MID -> File \cup {None}],
         info' \in [MID -> File \cup {None}],
         tasks' = tasks, missing' = missing, now' = now,
         IndexOnDisk', NEW done,
         needed' \in [TASK -> SUBSET MID],
         \A t \in TASK : needed[t] \subseteq needed'[t] \cup done,
         \A t \in tasks : \A o \in Parts[t] : o \in Cached \cup done => o \in Cached',
         LocksMatch', locks' \in [MID -> Nat],
         copied' \subseteq COPY, copied' \subseteq Cached'
  PROVE  Inv'
<1>1. Types'
  BY DEF Inv, Types
<1>2. PartsPresent'
  <2> SUFFICES ASSUME NEW t \in tasks, NEW o \in Parts[t]
               PROVE  o \in needed'[t] \cup missing[t] \cup Cached'
    BY DEF PartsPresent
  <2>1. t \in TASK
    BY DEF Inv, Types
  <2>2. o \in needed[t] \cup missing[t] \cup Cached
    BY DEF Inv, PartsPresent
  <2> QED
    BY <2>1, <2>2
<1> QED
  BY <1>1, <1>2 DEF Inv, CopiesKept

\* An empty cache that nobody uses.
LEMMA InitInv == ASSUME CacheAssumption, Init PROVE Inv
<1>1. Types
  BY DEF Init, Types
<1>2. LocksMatch
  <2>1. \A m \in MID : {t \in tasks : m \in Parts[t]} = {}
    BY DEF Init
  <2>2. Cardinality({}) = 0
    BY FS_EmptySet
  <2> QED
    BY <2>1, <2>2 DEF Init, LocksMatch
<1>3. IndexOnDisk /\ PartsPresent /\ CopiesKept
  BY DEF Init, IndexOnDisk, PartsPresent, CopiesKept
<1> QED
  BY <1>1, <1>2, <1>3 DEF Inv

\* A new task locks its parts and waits for those the cache lacks.
LEMMA NewTaskKeepsInv ==
  ASSUME CacheAssumption, Inv, NEW t \in TASK, NewTask(t)
  PROVE  Inv'
<1>1. /\ tasks' = tasks \cup {t} /\ t \notin tasks
      /\ locks' = Reserve(t)
      /\ needed' = [needed EXCEPT ![t] = Parts[t] \ Cached]
      /\ missing' = [missing EXCEPT ![t] = {}]
      /\ disk' = disk /\ info' = info /\ copied' = copied /\ now' = now
      /\ Cached' = Cached
  BY DEF NewTask, Cached
<1>2. Types'
  BY <1>1 DEF Inv, Types, Reserve, CacheAssumption
<1>3. LocksMatch'
  <2> SUFFICES ASSUME NEW m \in MID
               PROVE  locks'[m] = Cardinality({u \in tasks' : m \in Parts[u]})
                                  + IF m \in copied' THEN 1 ELSE 0
    BY DEF LocksMatch
  <2>1. tasks \in SUBSET TASK /\ t \in TASK \ tasks
    BY <1>1 DEF Inv, Types
  <2>2. /\ Cardinality({u \in tasks : m \in Parts[u]}) \in Nat
        /\ Cardinality({u \in tasks' : m \in Parts[u]})
             = Cardinality({u \in tasks : m \in Parts[u]})
               + IF m \in Parts[t] THEN 1 ELSE 0
    BY <1>1, <2>1, HoldersOfOneMore
  <2>3. locks'[m] = locks[m] + IF m \in Parts[t] THEN 1 ELSE 0
    BY <1>1 DEF Reserve
  <2>4. locks[m] = Cardinality({u \in tasks : m \in Parts[u]})
                   + IF m \in copied THEN 1 ELSE 0
    BY DEF Inv, LocksMatch
  <2> QED
    BY <1>1, <2>2, <2>3, <2>4
<1>4. PartsPresent'
  BY <1>1 DEF Inv, Types, PartsPresent
<1>5. CopiesKept' /\ IndexOnDisk'
  BY <1>1 DEF Inv, CopiesKept, IndexOnDisk
<1> QED
  BY <1>2, <1>3, <1>4, <1>5 DEF Inv

\* A task's end takes back exactly the locks its beginning took.
LEMMA DeleteTaskKeepsInv ==
  ASSUME CacheAssumption, Inv, NEW t \in TASK, DeleteTask(t)
  PROVE  Inv'
<1>1. /\ tasks' = tasks \ {t} /\ t \in tasks
      /\ locks' = Release(t)
      /\ needed' = needed /\ missing' = missing
      /\ disk' = disk /\ info' = info /\ copied' = copied /\ now' = now
      /\ Cached' = Cached
  BY DEF DeleteTask, Cached
<1>2. ASSUME NEW m \in MID
      PROVE  /\ Cardinality({u \in tasks' : m \in Parts[u]}) \in Nat
             /\ locks'[m] = Cardinality({u \in tasks' : m \in Parts[u]})
                            + IF m \in copied' THEN 1 ELSE 0
  <2>1. tasks' \in SUBSET TASK /\ t \in TASK \ tasks' /\ tasks = tasks' \cup {t}
    BY <1>1 DEF Inv, Types
  <2>2. /\ Cardinality({u \in tasks' : m \in Parts[u]}) \in Nat
        /\ Cardinality({u \in tasks : m \in Parts[u]})
             = Cardinality({u \in tasks' : m \in Parts[u]})
               + IF m \in Parts[t] THEN 1 ELSE 0
    BY <2>1, HoldersOfOneMore
  <2>3. locks'[m] = locks[m] - IF m \in Parts[t] THEN 1 ELSE 0
    BY <1>1 DEF Release
  <2>4. locks[m] = Cardinality({u \in tasks : m \in Parts[u]})
                   + IF m \in copied THEN 1 ELSE 0
    BY DEF Inv, LocksMatch
  <2> QED
    BY <1>1, <2>2, <2>3, <2>4
<1>3. LocksMatch'
  BY <1>2 DEF LocksMatch
<1>4. Types'
  <2>1. ASSUME NEW m \in MID PROVE locks'[m] \in Nat
    <3> DEFINE count == Cardinality({u \in tasks' : m \in Parts[u]})
    <3>1. count \in Nat /\ locks'[m] = count + IF m \in copied' THEN 1 ELSE 0
      BY <1>2
    <3> HIDE DEF count
    <3> QED
      BY <3>1
  <2>2. locks' = [m \in MID |-> locks'[m]]
    BY <1>1 DEF Release
  <2> QED
    BY <1>1, <2>1, <2>2 DEF Inv, Types
<1>5. PartsPresent'
  BY <1>1 DEF Inv, Types, PartsPresent
<1>6. CopiesKept' /\ IndexOnDisk'
  BY <1>1 DEF Inv, CopiesKept, IndexOnDisk
<1> QED
  BY <1>3, <1>4, <1>5, <1>6 DEF Inv

\* The part that arrives is locked by the task that waited for it.
LEMMA FetchedKeepsInv ==
  ASSUME CacheAssumption, Inv, NEW t \in TASK, NEW m \in MID, Fetched(t, m)
  PROVE  Inv'
<1>1. /\ t \in tasks /\ m \in needed[t]
      /\ Add(m, locks)
      /\ needed' = [needed EXCEPT ![t] = @ \ {m}]
      /\ copied' = copied /\ tasks' = tasks /\ missing' = missing /\ now' = now
  BY DEF Fetched
<1>2. /\ locks' = locks
      /\ disk' \in [MID -> File \cup {None}]
      /\ info' \in [MID -> File \cup {None}]
      /\ IndexOnDisk'
      /\ \A o \in Cached \cup {m} : locks[o] # 0 => o \in Cached'
  BY <1>1, AddKeepsLocked DEF Inv
<1>3. needed' \in [TASK -> SUBSET MID]
  BY <1>1 DEF Inv, Types
<1>4. \A u \in TASK : needed[u] \subseteq needed'[u] \cup {m}
  BY <1>1 DEF Inv, Types
<1>5. \A u \in tasks : \A o \in Parts[u] : o \in Cached \cup {m} => o \in Cached'
  BY <1>2, InUseIsLocked
<1>6. LocksMatch' /\ locks' \in [MID -> Nat]
  BY <1>1, <1>2 DEF Inv, Types, LocksMatch
<1>7. copied' \subseteq COPY /\ copied' \subseteq Cached'
  BY <1>1, <1>2, InUseIsLocked DEF Inv, Types, CopiesKept
<1> QED
  BY <1>1, <1>2, <1>3, <1>4, <1>5, <1>6, <1>7, ResizeKeepsInv

\* A write that fails leaves the index as it was.
LEMMA FullDiskKeepsInv ==
  ASSUME CacheAssumption, Inv, NEW m \in MID, AddToFullDisk(m),
         tasks' = tasks, needed' = needed, missing' = missing, copied' = copied,
         now' = now
  PROVE  Inv'
<1>1. PICK size \in 0..(Size[m] - 1) :
        disk' = [disk EXCEPT ![m] = [size |-> size, date |-> now]]
  BY DEF AddToFullDisk
<1>2. info' = info /\ locks' = locks /\ Cached' = Cached
  BY DEF AddToFullDisk, Cached
<1>3. size \in Nat
  BY DEF CacheAssumption
<1>4. [size |-> size, date |-> now] \in File \ {None}
  BY <1>3 DEF Inv, Types, File, CacheAssumption
<1>5. Types' /\ IndexOnDisk'
  BY <1>1, <1>2, <1>4 DEF Inv, Types, IndexOnDisk
<1>6. LocksMatch' /\ PartsPresent' /\ CopiesKept'
  BY <1>2 DEF Inv, LocksMatch, PartsPresent, CopiesKept
<1> QED
  BY <1>5, <1>6 DEF Inv

\* A copy's lock is set before the cache is resized.
LEMMA CopySentKeepsInv ==
  ASSUME CacheAssumption, Inv, NEW m \in MID, CopySent(m)
  PROVE  Inv'
<1> DEFINE held == [locks EXCEPT ![m] = @ + 1]
<1>1. /\ m \in COPY /\ disk[m] = None
      /\ tasks' = tasks /\ needed' = needed /\ missing' = missing /\ now' = now
  BY DEF CopySent
<1>2. CASE Add(m, held) /\ copied' = copied \cup {m}
  <2>1. /\ locks' = held
        /\ disk' \in [MID -> File \cup {None}]
        /\ info' \in [MID -> File \cup {None}]
        /\ IndexOnDisk'
        /\ \A o \in Cached \cup {m} : held[o] # 0 => o \in Cached'
    <3> HIDE DEF held
    <3> QED
      BY <1>2, AddKeepsLocked DEF Inv
  <2>2. /\ \A o \in MID : locks[o] # 0 => held[o] # 0
        /\ held[m] # 0 /\ held \in [MID -> Nat]
    BY DEF Inv, Types
  <2>3. m \notin copied
    BY <1>1 DEF Inv, CopiesKept, Cached, IndexOnDisk
  <2>4. LocksMatch'
    <3> SUFFICES ASSUME NEW o \in MID
                 PROVE  locks'[o] = Cardinality({u \in tasks : o \in Parts[u]})
                                    + IF o \in copied' THEN 1 ELSE 0
      BY <1>1 DEF LocksMatch
    <3> DEFINE count == Cardinality({u \in tasks : o \in Parts[u]})
    <3>1. locks[o] = count + (IF o \in copied THEN 1 ELSE 0) /\ locks[o] \in Nat
      BY DEF Inv, Types, LocksMatch
    <3>2. count \in Nat
      <4>1. {u \in tasks : o \in Parts[u]} \subseteq TASK
        BY DEF Inv, Types
      <4> QED
        BY <4>1, FS_Subset, FS_CardinalityType DEF CacheAssumption
    <3>3. locks'[o] = IF o = m THEN locks[o] + 1 ELSE locks[o]
      BY <2>1 DEF Inv, Types
    <3> HIDE DEF count
    <3>4. locks'[o] = count + IF o \in copied' THEN 1 ELSE 0
      BY <1>2, <2>3, <3>1, <3>2, <3>3
    <3> QED
      BY <3>4 DEF count
  <2>5. \A u \in tasks : \A o \in Parts[u] : o \in Cached \cup {} => o \in Cached'
    BY <2>1, <2>2, InUseIsLocked
  <2>6. copied' \subseteq COPY /\ copied' \subseteq Cached'
    BY <1>1, <1>2, <2>1, <2>2, InUseIsLocked DEF Inv, Types, CopiesKept
  <2>7. /\ needed' \in [TASK -> SUBSET MID]
        /\ \A u \in TASK : needed[u] \subseteq needed'[u] \cup {}
    BY <1>1 DEF Inv, Types
  <2>8. locks' \in [MID -> Nat]
    BY <2>1, <2>2
  <2> HIDE DEF held
  <2> QED
    BY <1>1, <2>1, <2>4, <2>5, <2>6, <2>7, <2>8, ResizeKeepsInv
<1>3. CASE AddToFullDisk(m) /\ copied' = copied
  BY <1>1, <1>3, FullDiskKeepsInv
<1> QED
  BY <1>2, <1>3 DEF CopySent

\* Clearing the cache leaves what is locked.
LEMMA ClearKeepsInv == ASSUME CacheAssumption, Inv, Clear PROVE Inv'
<1>1. /\ Resize(disk, info, locks, current_bytes, 0)
      /\ tasks' = tasks /\ needed' = needed /\ missing' = missing
      /\ copied' = copied /\ now' = now
  BY DEF Clear
<1>2. /\ locks' = locks
      /\ disk' \in [MID -> File \cup {None}]
      /\ info' \in [MID -> File \cup {None}]
      /\ IndexOnDisk'
      /\ \A o \in MID : info[o] # None /\ locks[o] # 0 => info'[o] # None
  BY <1>1, ResizeKeepsLocked DEF Inv, Types, IndexOnDisk
<1>3. \A u \in tasks : \A o \in Parts[u] : o \in Cached \cup {} => o \in Cached'
  BY <1>2, InUseIsLocked DEF Cached
<1>4. /\ needed' \in [TASK -> SUBSET MID]
      /\ \A u \in TASK : needed[u] \subseteq needed'[u] \cup {}
  BY <1>1 DEF Inv, Types
<1>5. LocksMatch' /\ locks' \in [MID -> Nat]
  BY <1>1, <1>2 DEF Inv, Types, LocksMatch
<1>6. copied' \subseteq COPY /\ copied' \subseteq Cached'
  BY <1>1, <1>2, InUseIsLocked DEF Inv, Types, CopiesKept, Cached
<1> QED
  BY <1>1, <1>2, <1>3, <1>4, <1>5, <1>6, ResizeKeepsInv

\* A restart forgets all locks, tasks and copies at once.
LEMMA RestartKeepsInv == ASSUME CacheAssumption, Inv, Restart PROVE Inv'
<1>1. /\ info' = disk /\ disk' = disk
      /\ locks' = [m \in MID |-> 0] /\ copied' = {} /\ tasks' = {}
      /\ needed' = needed /\ missing' = missing /\ now' = now
  BY DEF Restart
<1>2. Types' /\ IndexOnDisk' /\ PartsPresent' /\ CopiesKept'
  BY <1>1 DEF Inv, Types, IndexOnDisk, PartsPresent, CopiesKept
<1>3. LocksMatch'
  <2>1. \A m \in MID : {t \in tasks' : m \in Parts[t]} = {}
    BY <1>1
  <2>2. Cardinality({}) = 0
    BY FS_EmptySet
  <2> QED
    BY <1>1, <2>1, <2>2 DEF LocksMatch
<1> QED
  BY <1>2, <1>3 DEF Inv

\* The actions that leave the cache alone.
LEMMA IdleStepKeepsInv ==
  ASSUME CacheAssumption, Inv, cache' = cache, copied' = copied, tasks' = tasks,
         needed' \in [TASK -> SUBSET MID], missing' \in [TASK -> SUBSET MID],
         now' \in Nat,
         \A t \in TASK : needed[t] \cup missing[t] \subseteq needed'[t] \cup missing'[t]
  PROVE  Inv'
<1>1. disk' = disk /\ info' = info /\ locks' = locks /\ Cached' = Cached
  BY DEF cache, Cached
<1>2. Types' /\ IndexOnDisk'
  BY <1>1 DEF Inv, Types, IndexOnDisk
<1>3. LocksMatch' /\ PartsPresent' /\ CopiesKept'
  BY <1>1 DEF Inv, Types, LocksMatch, PartsPresent, CopiesKept
<1> QED
  BY <1>2, <1>3 DEF Inv

\* Every step keeps the invariant.
LEMMA NextKeepsInv == ASSUME CacheAssumption, Inv, [Next]_vars PROVE Inv'
<1>1. CASE \E t \in TASK : NewTask(t) \/ DeleteTask(t)
  BY <1>1, NewTaskKeepsInv, DeleteTaskKeepsInv
<1>2. CASE \E t \in TASK, m \in MID : Fetched(t, m)
  BY <1>2, FetchedKeepsInv
<1>3. CASE \E t \in TASK, m \in MID : FetchedInVain(t, m)
  BY <1>3, FullDiskKeepsInv DEF FetchedInVain
<1>4. CASE \E t \in TASK, m \in MID : NotFound(t, m)
  <2>1. PICK t \in TASK, m \in MID :
          /\ needed' = [needed EXCEPT ![t] = @ \ {m}]
          /\ missing' = [missing EXCEPT ![t] = @ \cup {m}]
          /\ cache' = cache /\ copied' = copied /\ tasks' = tasks /\ now' = now
    BY <1>4 DEF NotFound
  <2>2. /\ needed' \in [TASK -> SUBSET MID] /\ missing' \in [TASK -> SUBSET MID]
        /\ now' \in Nat
        /\ \A u \in TASK : needed[u] \cup missing[u] \subseteq needed'[u] \cup missing'[u]
    BY <2>1 DEF Inv, Types
  <2> QED
    BY <2>1, <2>2, IdleStepKeepsInv
<1>5. CASE \E m \in MID : CopySent(m)
  BY <1>5, CopySentKeepsInv
<1>6. CASE Clear \/ Restart
  BY <1>6, ClearKeepsInv, RestartKeepsInv
<1>7. CASE Tick \/ UNCHANGED vars
  <2>1. /\ cache' = cache /\ copied' = copied /\ tasks' = tasks
        /\ needed' = needed /\ missing' = missing /\ now' \in Nat
    BY <1>7 DEF Tick, vars, Inv, Types
  <2>2. needed' \in [TASK -> SUBSET MID] /\ missing' \in [TASK -> SUBSET MID]
    BY <2>1 DEF Inv, Types
  <2> QED
    BY <2>1, <2>2, IdleStepKeepsInv
<1> QED
  BY <1>1, <1>2, <1>3, <1>4, <1>5, <1>6, <1>7 DEF Next

-----------------------------------------------------------------------------
\* The theorems.

\* Inv holds in every behaviour, whatever fails and whenever the program dies.
THEOREM Invariance == Spec => []Inv
<1>1. Init => Inv
  BY InitInv, CacheAssumption
<1>2. Inv /\ [Next]_vars => Inv'
  BY NextKeepsInv, CacheAssumption
<1> QED
  BY <1>1, <1>2, PTL DEF Spec

\* reserve() and release() balance: a part is locked exactly as often as there
\* are tasks and copies that use it.
THEOREM LocksCorrect == Spec => []LocksMatch
<1>1. Inv => LocksMatch
  BY DEF Inv
<1> QED
  BY <1>1, Invariance, PTL

\* What a task has fetched, or found in the cache when it was created, is there
\* when it reads its article: resize() and clear() cannot have taken it.
THEOREM PartsCorrect == Spec => []PartsPresent
<1>1. Inv => PartsPresent
  BY DEF Inv
<1> QED
  BY <1>1, Invariance, PTL

\* The copy of a sent message is not aged out while the program runs.
THEOREM CopiesCorrect == Spec => []CopiesKept
<1>1. Inv => CopiesKept
  BY DEF Inv
<1> QED
  BY <1>1, Invariance, PTL
-----------------------------------------------------------------------------
(* Bytes.  Parts are counted twice at times, but never left out.  So what  *)
(* resize() takes away was counted, and what it leaves is within the limit *)
(* if its count is.                                                        *)

Files == [MID -> File \cup {None}]
Held(files) == {m \in MID : files[m] # None}
Places(files, mids) == UNION {{m} \X (1..files[m].size) : m \in mids}

Counted == current_bytes \in Nat /\ Bytes(info) <= current_bytes

LEMMA FileBytes ==
  ASSUME NEW m, NEW n \in Nat
  PROVE  IsFiniteSet({m} \X (1..n)) /\ Cardinality({m} \X (1..n)) = n
<1>1. IsFiniteSet({m}) /\ Cardinality({m}) = 1
  BY FS_Singleton
<1>2. IsFiniteSet(1..n) /\ Cardinality(1..n) = n
  <2>1. 1 \in Int /\ n \in Int
    OBVIOUS
  <2>2. /\ IsFiniteSet(1..n)
        /\ Cardinality(1..n) = IF 1 > n THEN 0 ELSE n - 1 + 1
    BY <2>1, FS_Interval
  <2> QED
    BY <2>2
<1> DEFINE T == 1..n
<1>3. IsFiniteSet({m} \X T) /\ Cardinality({m} \X T) = Cardinality({m}) * Cardinality(T)
  <2> HIDE DEF T
  <2> QED
    BY <1>1, <1>2, FS_Product DEF T
<1>4. Cardinality({m}) * Cardinality(T) = n
  BY <1>1, <1>2
<1> QED
  BY <1>3, <1>4

LEMMA PlacesAre ==
  ASSUME CacheAssumption, NEW files \in Files, NEW S \in SUBSET Held(files)
  PROVE  /\ IsFiniteSet(Places(files, S)) /\ Total(files, S) \in Nat
         /\ Total(files, S) = Cardinality(Places(files, S))
<1>1. \A m \in S : m \in MID /\ files[m].size \in Nat
  BY DEF Files, Held, File
<1>2. IsFiniteSet(S)
  <2>1. S \subseteq MID
    BY DEF Held
  <2> QED
    BY <2>1, FS_Subset DEF CacheAssumption
<1> DEFINE Of(m) == {m} \X (1..files[m].size)
           T == {Of(m) : m \in S}
<1>3. IsFiniteSet(T)
  <2>1. PICK f : f = [m \in S |-> Of(m)]
    OBVIOUS
  <2>2. f \in Surjection(S, T)
    BY <2>1 DEF Surjection
  <2> QED
    BY <1>2, <2>2, FS_Surjection
<1>4. ASSUME NEW m \in S PROVE IsFiniteSet(Of(m))
  BY <1>1, FileBytes
<1>5. IsFiniteSet(UNION T)
  <2>1. \A x \in T : IsFiniteSet(x)
    BY <1>4
  <2> HIDE DEF T
  <2> QED
    BY <1>3, <2>1, FS_UNION
<1>6. Places(files, S) = UNION T
  BY DEF Places
<1>7. Total(files, S) = Cardinality(Places(files, S))
  BY DEF Total, Places
<1> QED
  BY <1>5, <1>6, <1>7, FS_CardinalityType

LEMMA TotalWithout ==
  ASSUME CacheAssumption, NEW files \in Files, NEW S \in SUBSET Held(files),
         NEW T \in SUBSET S
  PROVE  /\ Total(files, S \ T) = Total(files, S) - Total(files, T)
         /\ Total(files, T) <= Total(files, S)
         /\ Total(files, S) \in Nat /\ Total(files, T) \in Nat
         /\ Total(files, S \ T) \in Nat
<1> DEFINE P(mids) == Places(files, mids)
<1>1. /\ \A mids \in {S, T, S \ T} :
           /\ IsFiniteSet(P(mids)) /\ Total(files, mids) \in Nat
           /\ Total(files, mids) = Cardinality(P(mids))
  BY PlacesAre
<1>2. P(S \ T) = P(S) \ P(T) /\ P(S) \cap P(T) = P(T)
  <2>1. \A mids, x : x \in P(mids) <=> \E m \in mids : x \in {m} \X (1..files[m].size)
    BY DEF Places
  <2>2. ASSUME NEW x, NEW m, NEW n, x \in {m} \X (1..files[m].size),
               x \in {n} \X (1..files[n].size)
        PROVE  m = n
    <3> DEFINE I == 1..files[m].size
               J == 1..files[n].size
    <3>1. x \in {m} \X I /\ x \in {n} \X J
      BY <2>2
    <3> HIDE DEF I, J
    <3> QED
      BY <3>1
  <2> HIDE DEF P
  <2> QED
    BY <2>1, <2>2
<1>3. Cardinality(P(S) \ P(T)) = Cardinality(P(S)) - Cardinality(P(S) \cap P(T))
  BY <1>1, FS_Difference
<1>4. Cardinality(P(T)) <= Cardinality(P(S))
  BY <1>1, <1>2, FS_Subset
<1> QED
  BY <1>1, <1>2, <1>3, <1>4

LEMMA TotalSame ==
  ASSUME NEW x, NEW y, NEW S, \A m \in S : x[m] = y[m]
  PROVE  Total(x, S) = Total(y, S)
<1>1. {{m} \X (1..x[m].size) : m \in S} = {{m} \X (1..y[m].size) : m \in S}
  OBVIOUS
<1> QED
  BY <1>1 DEF Total

LEMMA TotalOfOne ==
  ASSUME CacheAssumption, NEW files \in Files, NEW m \in Held(files)
  PROVE  Total(files, {m}) = files[m].size
<1>1. files[m].size \in Nat
  BY DEF Files, Held, File
<1>2. UNION {{k} \X (1..files[k].size) : k \in {m}} = {m} \X (1..files[m].size)
  <2>1. {{k} \X (1..files[k].size) : k \in {m}} = {{m} \X (1..files[m].size)}
    OBVIOUS
  <2>2. \A x : UNION {x} = x
    OBVIOUS
  <2> QED
    BY <2>1, <2>2, Zenon
<1>3. Cardinality({m} \X (1..files[m].size)) = files[m].size
  BY <1>1, FileBytes
<1> QED
  BY <1>2, <1>3, Zenon DEF Total

\* resize() subtracts no more than was counted, and stops above the limit only
\* when nothing is left that is not locked.
LEMMA ResizeCounts ==
  ASSUME CacheAssumption, NEW files, NEW index \in Files, NEW held,
         NEW bytes \in Nat, Bytes(index) <= bytes, NEW max \in Nat,
         Resize(files, index, held, bytes, max)
  PROVE  /\ Counted'
         /\ Bytes(info') <= max \/ \A m \in Cached' : held[m] # 0
<1>1. PICK gone \in SUBSET MID :
        /\ Expires(gone, index, held, bytes, max)
        /\ info' = [m \in MID |-> IF m \in gone THEN None ELSE index[m]]
        /\ current_bytes' = bytes - Total(index, gone)
  BY DEF Resize
<1>2. /\ gone \subseteq {m \in MID : index[m] # None /\ held[m] = 0}
      /\ gone # {m \in MID : index[m] # None /\ held[m] = 0}
           => bytes - Total(index, gone) <= max
  BY <1>1 DEF Expires
<1>3. Held(info') = Held(index) \ gone
  BY <1>1 DEF Held
<1>4. gone \in SUBSET Held(index)
  BY <1>2 DEF Held
<1>5. Bytes(info') = Total(index, Held(index) \ gone)
  <2>1. \A m \in Held(index) \ gone : info'[m] = index[m]
    BY <1>1 DEF Held
  <2>2. Total(info', Held(index) \ gone) = Total(index, Held(index) \ gone)
    BY <2>1, TotalSame
  <2> QED
    BY <1>3, <2>2 DEF Bytes, Held
<1>6. Bytes(index) = Total(index, Held(index))
  BY DEF Bytes, Held
<1>7. /\ Total(index, Held(index) \ gone) = Total(index, Held(index)) - Total(index, gone)
      /\ Total(index, gone) <= Total(index, Held(index))
      /\ Total(index, gone) \in Nat /\ Total(index, Held(index)) \in Nat
  BY <1>4, TotalWithout
<1>8. Counted'
  BY <1>1, <1>5, <1>6, <1>7 DEF Counted
<1>9. CASE gone = {m \in MID : index[m] # None /\ held[m] = 0}
  <2>1. \A m \in Cached' : m \in MID /\ index[m] # None /\ m \notin gone
    BY <1>1 DEF Cached
  <2> QED
    BY <1>8, <1>9, <2>1
<1>10. CASE gone # {m \in MID : index[m] # None /\ held[m] = 0}
  BY <1>1, <1>2, <1>5, <1>6, <1>7, <1>8, <1>10
<1> QED
  BY <1>9, <1>10

LEMMA AddCounts ==
  ASSUME CacheAssumption, Types, Counted, NEW m \in MID, NEW held, Add(m, held)
  PROVE  /\ Counted'
         /\ Bytes(info') <= max_bytes \/ \A o \in Cached' : held[o] # 0
<1> DEFINE file == [size |-> Size[m], date |-> now]
           files == [disk EXCEPT ![m] = file]
           index == IF m \in Cached THEN info ELSE [info EXCEPT ![m] = file]
<1>1. file \in File /\ file # None /\ file.size = Size[m] /\ Size[m] \in Nat
  BY DEF CacheAssumption, Types, File
<1>2. index \in Files
  BY <1>1 DEF Types, Files
<1>3. Resize(files, index, held, current_bytes + Size[m], max_bytes)
  BY DEF Add
<1>4. Bytes(index) <= current_bytes + Size[m]
  <2>1. CASE m \in Cached
    <3>1. info \in Files
      BY DEF Types, Files
    <3>2. Bytes(info) \in Nat
      BY <3>1, PlacesAre DEF Bytes, Held
    <3> QED
      BY <1>1, <2>1, <3>2 DEF Counted
  <2>2. CASE m \notin Cached
    <3>1. PICK x \in Files : x = index
      BY <1>2
    <3>2. x[m] = file /\ \A o \in MID : o # m => x[o] = info[o]
      BY <2>2, <3>1 DEF Types
    <3>3. info[m] = None
      BY <2>2 DEF Cached
    <3> HIDE DEF file, index
    <3>4. Held(x) \ {m} = Held(info) /\ m \in Held(x)
      BY <1>1, <3>2, <3>3 DEF Held
    <3>5. /\ Total(x, Held(x) \ {m}) = Total(x, Held(x)) - Total(x, {m})
          /\ Total(x, Held(x)) \in Nat
      BY <3>4, TotalWithout
    <3>6. Total(x, {m}) = Size[m]
      BY <1>1, <3>2, <3>4, TotalOfOne
    <3>7. Total(x, Held(info)) = Total(info, Held(info))
      <4>1. \A o \in Held(info) : x[o] = info[o]
        BY <3>2, <3>3 DEF Held
      <4> QED
        BY <4>1, TotalSame
    <3>8. Bytes(x) = Total(x, Held(x)) /\ Bytes(info) = Total(info, Held(info))
      BY DEF Bytes, Held
    <3> QED
      BY <1>1, <3>1, <3>4, <3>5, <3>6, <3>7, <3>8 DEF Counted
  <2> QED
    BY <2>1, <2>2
<1> HIDE DEF files, index
<1>5. current_bytes + Size[m] \in Nat /\ max_bytes \in Nat
  BY <1>1 DEF Counted, CacheAssumption
<1> QED
  BY <1>2, <1>3, <1>4, <1>5, ResizeCounts

\* A step that leaves index and count alone.
LEMMA CountStays ==
  ASSUME Counted, info' = info, current_bytes' = current_bytes
  PROVE  Counted'
BY DEF Counted, Bytes, Total

\* The count is never less than what the index names.
LEMMA NextCounts == ASSUME CacheAssumption, Inv, Counted, [Next]_vars PROVE Counted'
<1>1. CASE \E t \in TASK : \/ NewTask(t) \/ DeleteTask(t)
                           \/ \E m \in MID : FetchedInVain(t, m) \/ NotFound(t, m)
  <2>1. info' = info /\ current_bytes' = current_bytes
    BY <1>1 DEF NewTask, DeleteTask, FetchedInVain, AddToFullDisk, NotFound, cache
  <2> QED
    BY <2>1, CountStays
<1>2. CASE \E t \in TASK, m \in MID : Fetched(t, m)
  BY <1>2, AddCounts DEF Inv, Fetched
<1>3. CASE \E m \in MID : CopySent(m)
  <2>1. PICK m \in MID : CopySent(m)
    BY <1>3
  <2>2. CASE Add(m, [locks EXCEPT ![m] = @ + 1])
    BY <2>2, AddCounts DEF Inv
  <2>3. CASE AddToFullDisk(m)
    BY <2>3, CountStays DEF AddToFullDisk
  <2> QED
    BY <2>1, <2>2, <2>3 DEF CopySent
<1>4. CASE Clear
  <2>1. info \in Files /\ 0 \in Nat
    BY DEF Inv, Types, Files
  <2> QED
    BY <1>4, <2>1, ResizeCounts DEF Clear, Counted
<1>5. CASE Restart
  <2>1. disk \in Files /\ info' = disk /\ current_bytes' = Bytes(disk)
    BY <1>5 DEF Restart, Inv, Types, Files
  <2>2. Bytes(disk) \in Nat
    BY <2>1, PlacesAre DEF Bytes, Held
  <2> QED
    BY <2>1, <2>2 DEF Counted
<1>6. CASE Tick \/ UNCHANGED vars
  BY <1>6, CountStays DEF Tick, vars, cache
<1> QED
  BY <1>1, <1>2, <1>3, <1>4, <1>5, <1>6 DEF Next

LEMMA InitCounts == ASSUME CacheAssumption, Init PROVE Counted
<1>1. info \in Files /\ Held(info) = {}
  BY DEF Init, Files, Held
<1>2. UNION {{m} \X (1..info[m].size) : m \in {}} = {}
  OBVIOUS
<1>3. Total(info, {}) = 0
  BY <1>2, FS_EmptySet DEF Total
<1>4. Bytes(info) = 0
  BY <1>1, <1>3 DEF Bytes, Held
<1> QED
  BY <1>4 DEF Init, Counted

\* After an add the cache is within its limit, or all it has is locked.
LEMMA AddHolds ==
  ASSUME CacheAssumption, Inv, Counted, [Next]_vars,
         copied' \ copied # {} \/ \E t \in TASK, m \in MID : Fetched(t, m)
  PROVE  Bytes(info') <= max_bytes \/ \A m \in Cached' : locks'[m] # 0
<1>1. CASE \E t \in TASK, m \in MID : Fetched(t, m)
  <2>1. PICK t \in TASK, m \in MID : Fetched(t, m)
    BY <1>1
  <2>2. Add(m, locks)
    BY <2>1 DEF Fetched
  <2>3. locks' = locks
    BY <2>2, AddKeepsLocked DEF Inv
  <2> QED
    BY <2>2, <2>3, AddCounts DEF Inv
<1>2. CASE copied' \ copied # {}
  <2>1. \/ \E m \in MID : CopySent(m)
        \/ \E t \in TASK, m \in MID : Fetched(t, m)
    BY <1>2 DEF Next, vars, NewTask, DeleteTask, FetchedInVain, NotFound, Clear, Restart, Tick
  <2>2. CASE \E m \in MID : CopySent(m)
    <3>1. PICK m \in MID : Add(m, [locks EXCEPT ![m] = @ + 1])
      BY <1>2, <2>2 DEF CopySent
    <3>2. locks' = [locks EXCEPT ![m] = @ + 1]
      BY <3>1, AddKeepsLocked DEF Inv
    <3> QED
      BY <3>1, <3>2, AddCounts DEF Inv
  <2> QED
    BY <1>1, <2>1, <2>2
<1> QED
  BY <1>1, <1>2

LEMMA CountedAlways == Spec => [](Inv /\ Counted)
<1>1. Init => Inv /\ Counted
  BY InitInv, InitCounts, CacheAssumption
<1>2. Inv /\ Counted /\ [Next]_vars => (Inv /\ Counted)'
  BY NextKeepsInv, NextCounts, CacheAssumption
<1> QED
  BY <1>1, <1>2, PTL DEF Spec

\* _current_bytes, which is unsigned, never falls below zero: resize()
\* subtracts what add() or the constructor has counted.
THEOREM TypeCorrect == Spec => []TypeOK
<1>1. Inv /\ Counted => TypeOK
  BY DEF Inv, Counted, TypeOK
<1> QED
  BY <1>1, CountedAlways, PTL

\* add() leaves more than the limit only if every part in the cache is locked,
\* although parts that are added again are counted again.
THEOREM LimitCorrect == Spec => HoldsToLimit
<1>1. Inv /\ Counted /\ [Next]_vars =>
        (copied' \ copied # {} \/ (\E t \in TASK, m \in MID : Fetched(t, m))
           => Bytes(info') <= max_bytes \/ \A m \in Cached' : locks'[m] # 0)
  BY AddHolds, CacheAssumption
<1> QED
  BY <1>1, CountedAlways, PTL DEF Spec, HoldsToLimit
=============================================================================
