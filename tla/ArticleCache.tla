---------------------------- MODULE ArticleCache ----------------------------
(***************************************************************************)
(* The disk cache of article parts (pan/data/article-cache.cc) with those  *)
(* who use it: the tasks that fetch, read and display articles             *)
(* (pan/tasks/task-article.cc), the copies of sent messages                *)
(* (pan/gui/post-ui.cc) and the user who clears it.                        *)
(*                                                                         *)
(* A task reserves the parts of its article when it is created, notes      *)
(* which the cache lacks, adds each as it arrives, reads them all and      *)
(* releases them when it is deleted.  In between, every other add may age  *)
(* parts out, and the program may die: the index is rebuilt from the files *)
(* that are there, whatever a write that failed has left of them.          *)
(***************************************************************************)
EXTENDS Integers, FiniteSets

CONSTANTS MID,        \* message-ids, in their order
          TASK, None,
          Parts,      \* the parts of each task's article
          COPY,       \* message-ids of copies of sent messages
          Size,       \* bytes of each part
          max_bytes,  \* 80% of _max_megs
          FAULTS,     \* what goes wrong in this instance
          MaxTwice,   \* bound on the bytes that are counted twice
          MaxNow      \* bound on the seconds that pass

ASSUME CacheAssumption ==
  /\ MID \subseteq Nat /\ IsFiniteSet(MID)
  /\ IsFiniteSet(TASK)
  /\ None \notin [size : Nat, date : Nat]
  /\ COPY \subseteq MID
  /\ Parts \in [TASK -> SUBSET (MID \ COPY)]
  /\ Size \in [MID -> Nat \ {0}]
  /\ max_bytes \in Nat /\ MaxTwice \in Nat /\ MaxNow \in Nat
  /\ FAULTS \subseteq {"full", "restart"}

VARIABLES
  disk,          \* the files
  info,          \* _mid_to_info
  current_bytes, \* _current_bytes
  locks,         \* _locks
  copied,        \* copies made since the program was started
  tasks,         \* the tasks that exist
  needed,        \* TaskArticle::_needed
  missing,       \* parts no server has
  now

cache == <<disk, info, current_bytes, locks>>
vars == <<cache, copied, tasks, needed, missing, now>>

\* A file, and what MsgInfo knows of it.
File == [size : Nat, date : Nat]

Cached == {m \in MID : info[m] # None}
\* The bytes of these files, each as a place in its file.
Total(files, mids) == Cardinality(UNION {{m} \X (1..files[m].size) : m \in mids})
Bytes(files) == Total(files, {m \in MID : files[m] # None})

Init ==
  /\ disk = [m \in MID |-> None] /\ info = disk
  /\ current_bytes = 0
  /\ locks = [m \in MID |-> 0]
  /\ copied = {} /\ tasks = {}
  /\ needed = [t \in TASK |-> {}] /\ missing = needed
  /\ now = 0

-----------------------------------------------------------------------------
\* The cache.

\* MsgInfoCompare.
Older(index, m, o) == \/ index[m].date < index[o].date
                      \/ index[m].date = index[o].date /\ m < o

\* The loop of resize(): unlocked files go, oldest first, while there are more
\* than "max" bytes.  "gone" is what it removes.
Expires(gone, index, held, bytes, max) ==
  LET free == {m \in MID : index[m] # None /\ held[m] = 0}
      Left(s) == bytes - Total(index, s)
  IN  /\ gone \subseteq free
      /\ \A m \in gone, o \in free : Older(index, o, m) => o \in gone
      /\ gone # free => Left(gone) <= max
      /\ \A m \in gone :
           (\A o \in gone : ~Older(index, m, o)) => Left(gone \ {m}) > max

\* Locks are not looked at.
BadResize(files, index, held, bytes, max) ==
  \E gone \in SUBSET MID :
    /\ Expires(gone, index, [m \in MID |-> 0], bytes, max)
    /\ disk' = [m \in MID |-> IF m \in gone THEN None ELSE files[m]]
    /\ info' = [m \in MID |-> IF m \in gone THEN None ELSE index[m]]
    /\ current_bytes' = bytes - Total(index, gone)
    /\ locks' = held

\* resize(max_bytes), of what the caller left.
Resize(files, index, held, bytes, max) ==
  \E gone \in SUBSET MID :
    /\ Expires(gone, index, held, bytes, max)
    /\ disk' = [m \in MID |-> IF m \in gone THEN None ELSE files[m]]
    /\ info' = [m \in MID |-> IF m \in gone THEN None ELSE index[m]]
    /\ current_bytes' = bytes - Total(index, gone)
    /\ locks' = held

\* The cache is resized before the bytes are counted.
BadAdd(m, held) ==
  LET file == [size |-> Size[m], date |-> now]
  IN  Resize([disk EXCEPT ![m] = file],
             IF m \in Cached THEN info ELSE [info EXCEPT ![m] = file],
             held, current_bytes, max_bytes)

\* add() when the file could be written.  The insertion into _mid_to_info does
\* nothing if the part is there already; its bytes are counted all the same.
Add(m, held) ==
  LET file == [size |-> Size[m], date |-> now]
  IN  Resize([disk EXCEPT ![m] = file],
             IF m \in Cached THEN info ELSE [info EXCEPT ![m] = file],
             held, current_bytes + Size[m], max_bytes)

\* add() when it could not: fopen() has emptied the file, fwrite() filled what
\* there was room for, and nobody removes it.  (When fopen() fails, nothing
\* changes at all.)
AddToFullDisk(m) ==
  \E size \in 0..(Size[m] - 1) :
    /\ disk' = [disk EXCEPT ![m] = [size |-> size, date |-> now]]
    /\ UNCHANGED <<info, current_bytes, locks>>

-----------------------------------------------------------------------------
\* Its users.

Reserve(t) == [m \in MID |-> locks[m] + IF m \in Parts[t] THEN 1 ELSE 0]
Release(t) == [m \in MID |-> locks[m] - IF m \in Parts[t] THEN 1 ELSE 0]

\* TaskArticle's constructor.  Another task may be fetching the same parts.
NewTask(t) ==
  /\ t \notin tasks
  /\ tasks' = tasks \cup {t}
  /\ locks' = Reserve(t)
  /\ needed' = [needed EXCEPT ![t] = Parts[t] \ Cached]
  /\ missing' = [missing EXCEPT ![t] = {}]
  /\ UNCHANGED <<disk, info, current_bytes, copied, now>>

\* on_nntp_done, health OK.
Fetched(t, m) ==
  /\ t \in tasks /\ m \in needed[t]
  /\ m \in Cached => current_bytes + Size[m] <= Bytes(info) + MaxTwice
  /\ Add(m, locks)
  /\ needed' = [needed EXCEPT ![t] = @ \ {m}]
  /\ UNCHANGED <<copied, tasks, missing, now>>

\* on_nntp_done, when add() answers CACHE_DISK_FULL: "try again".
FetchedInVain(t, m) ==
  /\ "full" \in FAULTS
  /\ t \in tasks /\ m \in needed[t]
  /\ AddToFullDisk(m)
  /\ UNCHANGED <<copied, tasks, needed, missing, now>>

\* on_nntp_done, ERR_COMMAND of the last server: go on without the part.
NotFound(t, m) ==
  /\ t \in tasks /\ m \in needed[t]
  /\ needed' = [needed EXCEPT ![t] = @ \ {m}]
  /\ missing' = [missing EXCEPT ![t] = @ \cup {m}]
  /\ UNCHANGED <<cache, copied, tasks, now>>

\* Parts that are not in the cache are not released.
BadDeleteTask(t) ==
  /\ t \in tasks
  /\ tasks' = tasks \ {t}
  /\ locks' = [m \in MID |-> locks[m] - IF m \in Parts[t] \cap Cached
                                        THEN 1 ELSE 0]
  /\ UNCHANGED <<disk, info, current_bytes, copied, needed, missing, now>>

\* ~TaskArticle: the article was saved or shown, or the user removed the task.
DeleteTask(t) ==
  /\ t \in tasks
  /\ tasks' = tasks \ {t}
  /\ locks' = Release(t)
  /\ UNCHANGED <<disk, info, current_bytes, copied, needed, missing, now>>

\* A message goes to the "sent" folder under a message-id of its own: add() with
\* virtual_file, which locks it for as long as the program runs.
CopySent(m) ==
  /\ m \in COPY /\ disk[m] = None
  /\ \/ /\ Add(m, [locks EXCEPT ![m] = @ + 1])
        /\ copied' = copied \cup {m}
     \/ /\ "full" \in FAULTS
        /\ AddToFullDisk(m)
        /\ UNCHANGED copied
  /\ UNCHANGED <<tasks, needed, missing, now>>

\* do_clear_article_cache.
Clear ==
  /\ Resize(disk, info, locks, current_bytes, 0)
  /\ UNCHANGED <<copied, tasks, needed, missing, now>>

\* The program ends, or dies, and is started again: the constructor.
Restart ==
  /\ "restart" \in FAULTS
  /\ info' = disk
  /\ current_bytes' = Bytes(disk)
  /\ locks' = [m \in MID |-> 0]
  /\ copied' = {} /\ tasks' = {}
  /\ UNCHANGED <<disk, needed, missing, now>>

Tick == /\ now < MaxNow
        /\ now' = now + 1
        /\ UNCHANGED <<cache, copied, tasks, needed, missing>>

Next ==
  \/ \E t \in TASK : \/ NewTask(t) \/ DeleteTask(t)
                     \/ \E m \in MID : \/ Fetched(t, m) \/ FetchedInVain(t, m)
                                       \/ NotFound(t, m)
  \/ \E m \in MID : CopySent(m)
  \/ Clear \/ Restart \/ Tick

Spec == Init /\ [][Next]_vars

-----------------------------------------------------------------------------
\* Properties.

Types ==
  /\ disk \in [MID -> File \cup {None}] /\ info \in [MID -> File \cup {None}]
  /\ locks \in [MID -> Nat]
  /\ copied \subseteq COPY /\ tasks \subseteq TASK
  /\ needed \in [TASK -> SUBSET MID] /\ missing \in [TASK -> SUBSET MID]
  /\ now \in Nat

\* _current_bytes is unsigned: no eviction subtracts more than was counted.
TypeOK == Types /\ current_bytes \in Nat

\* Every part is locked once for each task whose article has it, fetched or
\* not, and once for a copy, whatever way tasks end (reserve, release, _locks).
LocksMatch ==
  \A m \in MID :
    locks[m] = Cardinality({t \in tasks : m \in Parts[t]})
               + IF m \in copied THEN 1 ELSE 0

\* What a task no longer waits for is in the cache when it reads its article,
\* whatever was added, aged out or cleared meanwhile, or no server had it.
PartsPresent ==
  \A t \in tasks : Parts[t] \subseteq needed[t] \cup missing[t] \cup Cached

\* A copy of a sent message, which is nowhere else, stays while the program runs
\* (virtual_file).
CopiesKept == copied \subseteq Cached

\* The lock mechanism allows "the cache to grow past its limit briefly": after
\* an add only locked parts are beyond it, whatever was counted before.
HoldsToLimit ==
  [][copied' \ copied # {} \/ (\E t \in TASK, m \in MID : Fetched(t, m))
       => Bytes(info') <= max_bytes \/ \A m \in Cached' : locks'[m] # 0]_vars

\* "The oldest articles will be aged out when the cache is full": an add makes
\* parts leave only if the cache would hold more than the limit otherwise.
\* (What the code does instead: README, section 6.)
AgesOutOnlyWhenFull ==
  [][\A m \in MID :
       /\ CopySent(m) \/ \E t \in TASK : Fetched(t, m)
       /\ \E o \in Cached : info'[o] = None
       => Bytes(info) + (IF m \in Cached THEN 0 ELSE Size[m]) > max_bytes]_vars

\* A task that has nothing left to fetch reads whole files: the parts that were
\* saved to the cache are those that were downloaded.
\* (What the code does instead: README, section 6.)
ReadsWhole ==
  \A t \in tasks : \A m \in Parts[t] \ (needed[t] \cup missing[t]) :
    disk[m] # None /\ disk[m].size = Size[m]
=============================================================================
