---------------------------- MODULE UploadsProofs ----------------------------
(***************************************************************************)
(* What becomes of the parts of any batch of files, whatever the encoder,  *)
(* the server, the connections and the user do.                            *)
(***************************************************************************)
EXTENDS Uploads, FiniteSetTheorems, SequenceTheorems, TLAPS

Works == {"NONE", "INITIAL", "NEED_ENCODER", "WORKING", "NEED_NNTP",
          "COMPLETED", "GONE"}
Datum == [of : TASK \cup {None}, part : Nat]

TaskRecord ==
  [work : Works, needed : SUBSET Nat, wanted : SUBSET Nat, nntp : Nat,
   sent : Datum \cup {None}, ran : BOOLEAN, stopped : BOOLEAN,
   removing : BOOLEAN, erred : BOOLEAN, upload_list : Nat,
   said : {"nothing", "error", "ok"}]

EncoderRecord ==
  [task : FILE \cup {None}, todo : SUBSET Nat, cnt : Nat, writing : Nat,
   failed : BOOLEAN, errors : BOOLEAN, cancelled : BOOLEAN, ended : BOOLEAN]

CacheRecord == [info : SUBSET KEY, locks : [KEY -> Int], disk : [KEY -> Datum]]

Types ==
  /\ ui \in [window : {"open", "hidden", "closed"}, saving : BOOLEAN,
             running : Int, nzb : Seq(FILE \cup {"header", "footer"})]
  /\ task \in [TASK -> TaskRecord]
  /\ encoder \in EncoderRecord
  /\ cache \in CacheRecord
  /\ server \in [TASK -> SUBSET [part : Nat, content : Datum \cup {None}]]
  /\ history \in [refused : [TASK -> SUBSET Nat], unencoded : SUBSET TASK,
                  removed : SUBSET TASK, stops : Nat]

Sent(t) == {a.part : a \in server[t]}

\* Only a task at work has a connection, and it is sending a part it needs to.
Transfer(t) ==
  /\ task[t].nntp # 0 => task[t].work = "WORKING"
  /\ t \in FILE /\ task[t].nntp # 0 => task[t].ran /\ task[t].nntp \in task[t].needed
  /\ t \in FILE /\ task[t].work = "NEED_NNTP" => task[t].ran

\* Who needs the encoder, or has it, has not been encoded.
Coding(t) ==
  /\ task[t].work = "NEED_ENCODER" => t \in FILE /\ ~task[t].ran
  /\ encoder.task = t =>
       /\ task[t].work = "WORKING" /\ ~task[t].ran
       /\ encoder.todo \subseteq Parts(t) /\ encoder.writing \in Parts(t) \cup {0}

\* What became of the parts of a file.
Account(f) ==
  /\ task[f].needed \subseteq task[f].wanted /\ task[f].wanted \subseteq Parts(f)
  /\ f \notin history.unencoded \cup history.removed =>
       task[f].wanted = task[f].needed \cup Sent(f) \cup history.refused[f]
  /\ Queued(f) /\ ~task[f].ran => task[f].needed = task[f].wanted
  /\ Queued(f) /\ ~task[f].erred => task[f].wanted \subseteq task[f].needed \cup Sent(f)
  /\ task[f].said = "ok" => task[f].wanted \subseteq Sent(f)

Untouched(t) == task[t].work = "NONE" /\ server[t] = {} /\ history.refused[t] = {}

TaskSound(t) ==
  /\ Transfer(t) /\ Coding(t)
  /\ t \in FILE => Account(t)
  /\ task[t].removing => t \in history.removed
  /\ ui.window = "open" => Untouched(t)

InQueue == {t \in TASK : Queued(t)}

\* No more tasks are in the queue than the window waits for.
Reports ==
  /\ ui.window = "open" => InQueue = {}
  /\ ui.window = "hidden" => ui.running >= Cardinality(InQueue)
  /\ ui.window = "closed" => InQueue = {}

Inv == Types /\ (\A t \in TASK : TaskSound(t)) /\ Reports

USE UploadsAssumption

----------------------------------------------------------------------------

\* Nothing is uploaded at first.
LEMMA InvInit == Init => Inv
<1> SUFFICES ASSUME Init PROVE Inv
  OBVIOUS
<1>1. Types
  BY DEF Init, Types, NewTask, Idle, TaskRecord, EncoderRecord, Works,
         CacheRecord, C!Empty, Datum, NoFile
<1>2. \A t \in TASK : TaskSound(t)
  BY DEF Init, TaskSound, Transfer, Coding, Account, Untouched, NewTask, Idle,
         Sent, Queued, TASK
<1>3. InQueue = {}
  BY DEF Init, InQueue, Queued, NewTask
<1> QED BY <1>1, <1>2, <1>3 DEF Inv, Reports, Init

\* The cache keeps its type.
LEMMA CacheTyped ==
  ASSUME NEW c \in CacheRecord, NEW keys \in SUBSET KEY
  PROVE  /\ C!Add(c, keys) \in CacheRecord
         /\ \A n \in [KEY -> Nat] : C!Reserve(c, n) \in CacheRecord
         /\ C!Release(c, keys) \in CacheRecord
         /\ C!Dropped(c, keys) \in CacheRecord
<1>1. NoFile \in Datum
  BY DEF NoFile, Datum
<1>2. C!Add(c, keys) \in CacheRecord
  BY DEF CacheRecord, C!Add
<1>3. \A n \in [KEY -> Nat] : C!Reserve(c, n) \in CacheRecord
  BY DEF CacheRecord, C!Reserve
<1>4. C!Release(c, keys) \in CacheRecord
  BY DEF CacheRecord, C!Release
<1>5. C!Dropped(c, keys) \in CacheRecord
  BY <1>1 DEF CacheRecord, C!Dropped
<1> QED BY <1>2, <1>3, <1>4, <1>5

\* It does when the encoder writes.
LEMMA CacheWritten ==
  ASSUME NEW c \in CacheRecord, NEW k \in KEY
  PROVE  /\ C!Opened(c, k) \in CacheRecord
         /\ \A d \in Datum : C!Finalized(c, k, d) \in CacheRecord
<1>1. Torn \in Datum
  BY DEF Torn, Datum
<1>2. C!Opened(c, k) \in CacheRecord
  BY <1>1 DEF CacheRecord, C!Opened
<1>3. \A d \in Datum : C!Finalized(c, k, d) \in CacheRecord
  BY DEF CacheRecord, C!Finalized
<1> QED BY <1>2, <1>3

\* Shrinking and clearing drop unlocked files.
LEMMA Shrunk ==
  ASSUME NEW c \in CacheRecord
  PROVE  /\ C!Unlocked(c) \subseteq KEY
         /\ \A d \in C!Resized(c) : d \in CacheRecord
         /\ C!Cleared(c) \in CacheRecord
<1>1. C!Unlocked(c) \subseteq KEY
  BY DEF C!Unlocked, CacheRecord
<1>2. \A d \in C!Resized(c) : d \in CacheRecord
  BY <1>1, CacheTyped DEF C!Resized
<1> QED BY <1>1, <1>2, CacheTyped DEF C!Cleared

\* The parts of a file are keys.
LEMMA KeysAreKeys ==
  ASSUME NEW f \in FILE
  PROVE  /\ \A p \in Parts(f) : Key(f, p) \in KEY
         /\ \A parts \in SUBSET Parts(f) : Keys(f, parts) \subseteq KEY
BY DEF KEY, Keys

\* A step that changes one task, t, leaves the others sound.
LEMMA OneTask ==
  ASSUME Inv, NEW t \in TASK, NEW x \in TaskRecord, task' = [task EXCEPT ![t] = x],
         \A u \in TASK : u # t =>
           /\ server'[u] = server[u] /\ history'.refused[u] = history.refused[u]
           /\ u \in history'.removed <=> u \in history.removed
           /\ u \in history'.unencoded <=> u \in history.unencoded
           /\ encoder'.task = u => encoder' = encoder,
         ui'.window = "open" => ui.window = "open",
         TaskSound(t)'
  PROVE  \A u \in TASK : TaskSound(u)'
<1> SUFFICES ASSUME NEW u \in TASK, u # t PROVE TaskSound(u)'
  OBVIOUS
<1>1. task'[u] = task[u]
  BY DEF Inv, Types
<1>2. TaskSound(u)
  BY DEF Inv
<1>3. Transfer(u)' /\ Coding(u)'
  BY <1>1, <1>2 DEF TaskSound, Transfer, Coding
<1>4. ASSUME u \in FILE PROVE Account(u)'
  BY <1>1, <1>2, <1>4 DEF TaskSound, Account, Sent, Queued
<1>5. Untouched(u) => Untouched(u)'
  BY <1>1 DEF Untouched
<1> QED BY <1>1, <1>2, <1>3, <1>4, <1>5 DEF TaskSound

\* There are finitely many tasks in the queue.
LEMMA QueueFinite == IsFiniteSet(InQueue) /\ Cardinality(InQueue) \in Nat
<1>1. IsFiniteSet(InQueue)
  BY FS_Subset DEF InQueue
<1> QED BY <1>1, FS_CardinalityType

\* A task that leaves the queue without a word is still waited for.
LEMMA QuietReports ==
  ASSUME Inv, InQueue' \subseteq InQueue, ui' = ui
  PROVE  Reports'
<1>1. Cardinality(InQueue') <= Cardinality(InQueue) /\ Cardinality(InQueue') \in Nat
  BY QueueFinite, FS_Subset, FS_CardinalityType
<1> QED BY <1>1, QueueFinite DEF Inv, Reports, Types

Gone(x) == [NewTask EXCEPT !.work = "GONE", !.wanted = x.wanted, !.said = x.said]

\* The task after a callback.
Left(x) == IF x.work = "COMPLETED" \/ x.removing THEN Gone(x) ELSE x

LEMMA ShortSequences ==
  ASSUME NEW S, NEW e \in S PROVE <<>> \in Seq(S) /\ <<e>> \in Seq(S)
OBVIOUS

\* The window keeps its type when it is told of a file.
LEMMA WindowTyped ==
  ASSUME Types, NEW t \in TASK, NEW x \in TaskRecord
  PROVE  /\ ProgressFinished(t, x) \in
              [window : {"open", "hidden", "closed"}, saving : BOOLEAN,
               running : Int, nzb : Seq(FILE \cup {"header", "footer"})]
         /\ ProgressFinished(t, x).running = ui.running - 1
         /\ ProgressFinished(t, x).window =
              IF t \notin MASTER /\ ui.running - 1 = 0 THEN "closed" ELSE ui.window
<1>1. CASE t \in MASTER
  BY <1>1 DEF ProgressFinished, Types
<1>2. CASE t \notin MASTER
  <2> DEFINE listed == [i \in 1..x.upload_list |-> t]
             end == IF ui.running - 1 = 0 THEN <<"footer">> ELSE <<>>
  <2>1. listed \in Seq(FILE \cup {"header", "footer"})
    BY <1>2 DEF TASK, TaskRecord
  <2>2. end \in Seq(FILE \cup {"header", "footer"})
    BY ShortSequences
  <2> DEFINE nzb == IF ~ui.saving THEN ui.nzb ELSE ui.nzb \o listed \o end
  <2>3. nzb \in Seq(FILE \cup {"header", "footer"})
    <3> HIDE DEF listed, end
    <3> QED BY <2>1, <2>2 DEF Types
  <2>4. ProgressFinished(t, x) =
          [ui EXCEPT !.running = ui.running - 1, !.nzb = nzb,
                     !.window = IF ui.running - 1 = 0 THEN "closed" ELSE @]
    BY <1>2, Zenon DEF ProgressFinished
  <2> HIDE DEF nzb
  <2> DEFINE now == IF ui.running - 1 = 0 THEN "closed" ELSE ui.window
  <2>5. ProgressFinished(t, x) =
          [window |-> now, saving |-> ui.saving, running |-> ui.running - 1, nzb |-> nzb]
    BY <2>4 DEF Types
  <2>6. now \in {"open", "hidden", "closed"} /\ ui.running - 1 \in Int
    BY DEF Types
  <2> QED BY <1>2, <2>3, <2>5, <2>6 DEF Types
<1> QED BY <1>1, <1>2

\* A callback changes its task, and tells the window of a task that is done.
LEMMA CheckedIn ==
  ASSUME Inv, NEW t \in TASK, NEW x \in TaskRecord, Queued(t), CheckIn(t, x),
         t \in FILE => x.wanted \subseteq Parts(t)
  PROVE  /\ task' = [task EXCEPT ![t] = Left(x)] /\ Left(x) \in TaskRecord
         /\ ui' \in [window : {"open", "hidden", "closed"}, saving : BOOLEAN,
                     running : Int, nzb : Seq(FILE \cup {"header", "footer"})]
         /\ ui'.window = "open" => ui.window = "open"
         /\ cache' \in CacheRecord
         /\ Reports'
<1>0. cache' \in CacheRecord
  <2>1. CASE t \in MASTER \/ UNCHANGED cache
    BY <2>1 DEF CheckIn, Delete, Inv, Types
  <2>2. CASE t \in FILE
    <3>1. Keys(t, x.wanted) \subseteq KEY
      BY <2>2, KeysAreKeys
    <3>2. cache \in CacheRecord
      BY DEF Inv, Types
    <3>3. C!Release(cache, Keys(t, x.wanted)) \in CacheRecord
      BY <3>1, <3>2, CacheTyped
    <3> QED BY <3>2, <3>3, <2>2, Shrunk DEF CheckIn, Delete
  <2> QED BY <2>1, <2>2 DEF TASK
<1>1. task' = [task EXCEPT ![t] = Left(x)]
  BY DEF CheckIn, Delete, Left, Gone
<1>2. Left(x) \in TaskRecord
  BY DEF Left, Gone, NewTask, TaskRecord, Works
<1>3. ui' = IF x.work = "COMPLETED" THEN ProgressFinished(t, x) ELSE ui
  BY DEF CheckIn
<1>4. InQueue' \subseteq InQueue
  BY <1>1 DEF InQueue, Queued, Inv, Types
<1>5. CASE x.work # "COMPLETED"
  BY <1>0, <1>1, <1>2, <1>3, <1>4, <1>5, QuietReports DEF Inv, Types
<1>6. CASE x.work = "COMPLETED"
  <2>1. t \in InQueue /\ InQueue' = InQueue \ {t}
    BY <1>1, <1>6 DEF InQueue, Queued, Inv, Types, Left, Gone, NewTask
  <2>2. Cardinality(InQueue') = Cardinality(InQueue) - 1 /\ IsFiniteSet(InQueue')
    BY <2>1, QueueFinite, FS_RemoveElement
  <2>3. ui.window = "hidden" /\ ui.running >= Cardinality(InQueue)
    BY <2>1 DEF Inv, Reports, Types
  <2>4. /\ ui'.running = ui.running - 1
        /\ ui'.window = IF t \notin MASTER /\ ui.running - 1 = 0 THEN "closed" ELSE ui.window
        /\ ui' \in [window : {"open", "hidden", "closed"}, saving : BOOLEAN,
                    running : Int, nzb : Seq(FILE \cup {"header", "footer"})]
    BY <1>3, <1>6, WindowTyped DEF Inv
  <2>5. Reports'
    <3>1. Cardinality(InQueue') \in Nat
      BY <2>2, FS_CardinalityType
    <3>2. CASE ui'.window = "closed"
      <4>1. Cardinality(InQueue') = 0
        BY <2>2, <2>3, <2>4, <3>1, <3>2, QueueFinite DEF Inv, Types
      <4> QED BY <2>2, <3>2, <4>1, FS_EmptySet DEF Reports
    <3>3. CASE ui'.window # "closed"
      BY <2>2, <2>3, <2>4, <3>3, QueueFinite DEF Inv, Types, Reports
    <3> QED BY <3>2, <3>3
  <2> QED BY <1>0, <1>1, <1>2, <2>3, <2>4, <2>5
<1> QED BY <1>5, <1>6

----------------------------------------------------------------------------

\* update_work sets nothing but the state, and to what.
LEMMA Updated ==
  ASSUME NEW t \in TASK, NEW x \in TaskRecord
  PROVE  LET y == UpdateWork(t, x, FALSE)
         IN  /\ y \in TaskRecord /\ y = [x EXCEPT !.work = y.work]
             /\ y.work \in {"NEED_ENCODER", "WORKING", "NEED_NNTP", "COMPLETED"}
             /\ t \in FILE => (y.work = "NEED_ENCODER" <=> ~x.ran)
             /\ y.work = "NEED_ENCODER" => t \in FILE
             /\ y.work = "COMPLETED" => x.needed = {}
             /\ (t \in FILE => x.ran) /\ x.nntp = 0 /\ x.needed = {} => y.work = "COMPLETED"
             /\ x.nntp # 0 /\ (t \in FILE => x.ran) => y.work = "WORKING"
<1> DEFINE y == UpdateWork(t, x, FALSE)
<1>1. CASE t \in FILE /\ ~x.ran
  <2>1. y = [x EXCEPT !.work = "NEED_ENCODER"]
    BY <1>1 DEF UpdateWork
  <2> QED BY <1>1, <2>1 DEF TaskRecord, Works
<1>2. CASE ~(t \in FILE /\ ~x.ran) /\ x.nntp # 0
  <2>1. y = [x EXCEPT !.work = "WORKING"]
    BY <1>2 DEF UpdateWork
  <2> QED BY <1>2, <2>1 DEF TaskRecord, Works
<1>3. CASE ~(t \in FILE /\ ~x.ran) /\ x.nntp = 0 /\ x.needed # {}
  <2>1. y = [x EXCEPT !.work = "NEED_NNTP"]
    BY <1>3 DEF UpdateWork
  <2> QED BY <1>3, <2>1 DEF TaskRecord, Works
<1>4. CASE ~(t \in FILE /\ ~x.ran) /\ x.nntp = 0 /\ x.needed = {}
  <2>1. y = [x EXCEPT !.work = "COMPLETED"]
    BY <1>4 DEF UpdateWork
  <2> QED BY <1>4, <2>1 DEF TaskRecord, Works
<1> QED BY <1>1, <1>2, <1>3, <1>4

\* The batch is all the queue has.
LEMMA PostInv ==
  ASSUME Inv, Post
  PROVE  Inv'
<1>1. PICK master \in SUBSET MASTER, wanted \in Selections :
        PostBatch(FILE \cup master, wanted)
  BY DEF Post
<1> DEFINE batch == FILE \cup master
           parts == [t \in TASK |-> IF t \in FILE THEN wanted[t] ELSE {1}]
           new(t) == [NewTask EXCEPT !.work = "INITIAL", !.needed = parts[t],
                                     !.wanted = parts[t]]
<1>a. /\ ui.window = "open" /\ ui'.window = "hidden" /\ ui'.running = Cardinality(batch)
      /\ ui' = [window |-> "hidden", saving |-> "save" \in USER,
                running |-> Cardinality(batch), nzb |-> ui'.nzb]
      /\ ui'.nzb \in {<<"header">>, <<>>}
  BY <1>1 DEF PostBatch, Running
<1>b. task' = [t \in TASK |-> IF t \notin batch THEN task[t] ELSE new(t)]
  BY <1>1 DEF PostBatch
<1>c. UNCHANGED <<encoder, server, history>>
  BY <1>1 DEF PostBatch
<1>2. \A t \in TASK : parts[t] \subseteq Nat /\ (t \in FILE => parts[t] \subseteq Parts(t))
  BY DEF Selections, Parts, TASK
<1>3. \A t \in TASK : new(t) \in TaskRecord
  <2> HIDE DEF parts
  <2> QED BY <1>2 DEF NewTask, TaskRecord, Works
<1>4. IsFiniteSet(batch) /\ Cardinality(batch) \in Nat
  BY FS_Subset, FS_CardinalityType DEF TASK
<1>5. Types'
  <2>1. <<>> \in Seq(FILE \cup {"header", "footer"}) /\ <<"header">> \in Seq(FILE \cup {"header", "footer"})
    BY ShortSequences
  <2>2. ui' \in [window : {"open", "hidden", "closed"}, saving : BOOLEAN,
                running : Int, nzb : Seq(FILE \cup {"header", "footer"})]
    <3> DEFINE saving == "save" \in USER
               list == ui'.nzb
    <3>1. saving \in BOOLEAN
      OBVIOUS
    <3>2. list \in Seq(FILE \cup {"header", "footer"})
      BY <1>a, <2>1
    <3>3. ui' = [window |-> "hidden", saving |-> saving,
                 running |-> Cardinality(batch), nzb |-> list]
      BY <1>a, Zenon
    <3> HIDE DEF saving, list
    <3> QED BY <3>1, <3>2, <3>3, <1>4
  <2>3. task' \in [TASK -> TaskRecord]
    <3> HIDE DEF new
    <3> QED BY <1>b, <1>3 DEF Inv, Types
  <2>4. cache' \in CacheRecord
    <3>1. cache' = BuildNeeded(cache, wanted)
      BY <1>1 DEF PostBatch
    <3>2. \A f \in FILE : wanted[f] \subseteq Parts(f)
      BY DEF Selections
    <3>3. UNION {Keys(f, wanted[f]) : f \in FILE} \subseteq KEY
      BY <3>2, KeysAreKeys
    <3>4. ASSUME NEW k \in KEY
          PROVE  Cardinality({f \in FILE : k \in Keys(f, wanted[f])}) \in Nat
      BY FS_Subset, FS_CardinalityType DEF TASK
    <3>5. Takers(wanted) \in [KEY -> Nat]
      BY <3>4 DEF Takers
    <3> QED BY <3>1, <3>3, <3>5, CacheTyped DEF BuildNeeded, Inv, Types
  <2> QED BY <1>c, <2>2, <2>3, <2>4 DEF Inv, Types
<1>6. \A t \in TASK : Untouched(t) /\ TaskSound(t) /\ encoder.task # t
  BY <1>a DEF Inv, TaskSound, Coding, Untouched
<1>7. ASSUME NEW t \in TASK PROVE TaskSound(t)'
  <2>1. CASE t \notin batch
    BY <1>a, <1>b, <1>c, <1>6, <2>1 DEF TaskSound, Transfer, Coding, TASK
  <2>2. CASE t \in batch
    <3>1. task'[t] = new(t)
      BY <1>b, <2>2
    <3>2. /\ task'[t].work = "INITIAL" /\ task'[t].nntp = 0 /\ ~task'[t].removing
          /\ task'[t].needed = parts[t] /\ task'[t].wanted = parts[t]
          /\ task'[t].said = "nothing"
      BY <3>1 DEF NewTask
    <3>3. Transfer(t)' /\ Coding(t)'
      BY <1>c, <1>6, <3>2 DEF Transfer, Coding
    <3>4. ASSUME t \in FILE PROVE Account(t)'
      BY <1>c, <1>2, <1>6, <3>2, <3>4 DEF Account, Untouched, Sent
    <3> QED BY <1>a, <3>2, <3>3, <3>4 DEF TaskSound
  <2> QED BY <2>1, <2>2
<1>8. Reports'
  <2>1. InQueue' = batch
    BY <1>b, <1>6 DEF InQueue, Queued, Untouched, TASK, NewTask
  <2> QED BY <1>a, <1>4, <2>1 DEF Reports
<1> QED BY <1>5, <1>7, <1>8 DEF Inv

\* A step of which the window does not hear.
LEMMA SilentStep ==
  ASSUME Inv, NEW t \in TASK, Queued(t),
         NEW x \in TaskRecord, task' = [task EXCEPT ![t] = x],
         UNCHANGED <<ui, server>>, encoder' \in EncoderRecord,
         cache' \in CacheRecord,
         history' \in [refused : [TASK -> SUBSET Nat], unencoded : SUBSET TASK,
                      removed : SUBSET TASK, stops : Nat],
         \A u \in TASK : u # t =>
           /\ history'.refused[u] = history.refused[u]
           /\ u \in history'.removed <=> u \in history.removed
           /\ u \in history'.unencoded <=> u \in history.unencoded
           /\ encoder'.task = u => encoder' = encoder,
         TaskSound(t)'
  PROVE  Inv'
<1>1. Types'
  BY DEF Inv, Types
<1>2. \A u \in TASK : TaskSound(u)'
  BY OneTask
<1>3. InQueue' \subseteq InQueue
  BY DEF InQueue, Queued, Inv, Types
<1> QED BY <1>1, <1>2, <1>3, QuietReports DEF Inv

\* Serving a task.
LEMMA ServeInv ==
  ASSUME Inv, NEW t \in TASK, Serve(t)
  PROVE  Inv'
<1>1. /\ UNCHANGED <<ui, server, history>> /\ Queued(t) /\ ui.window # "open"
      /\ TaskSound(t) /\ task[t] \in TaskRecord /\ encoder \in EncoderRecord
      /\ task[t].nntp = 0
  BY DEF Serve, WakeUp, UseEncoder, UseNntp, Inv, Types, TaskSound, Untouched,
         Queued, Transfer
<1>2. CASE WakeUp(t)
  <2> DEFINE x == UpdateWork(t, task[t], FALSE)
  <2>1. task' = [task EXCEPT ![t] = x] /\ task'[t] = x /\ UNCHANGED <<encoder, cache>>
    BY <1>2 DEF WakeUp, Inv, Types
  <2>2. encoder.task # t
    BY <1>1, <1>2 DEF WakeUp, TaskSound, Coding
  <2>3. /\ x \in TaskRecord /\ x = [task[t] EXCEPT !.work = x.work]
        /\ t \in FILE => (x.work = "NEED_ENCODER" <=> ~task[t].ran)
        /\ x.work = "NEED_ENCODER" => t \in FILE
    BY <1>1, Updated
  <2> HIDE DEF x
  <2>4. /\ x.nntp = 0 /\ x.needed = task[t].needed /\ x.wanted = task[t].wanted
        /\ x.ran = task[t].ran /\ x.removing = task[t].removing
        /\ x.erred = task[t].erred /\ x.said = task[t].said
    BY <1>1, <2>3 DEF TaskRecord
  <2>5. TaskSound(t)'
    BY <1>1, <2>1, <2>2, <2>3, <2>4 DEF TaskSound, Transfer, Coding, Account, Sent
  <2> QED BY <1>1, <2>1, <2>3, <2>5, SilentStep DEF Inv, Types
<1>3. CASE UseEncoder(t)
  <2> DEFINE x == [task[t] EXCEPT !.work = "WORKING"]
  <2>1. task' = [task EXCEPT ![t] = x] /\ task'[t] = x /\ x \in TaskRecord
    BY <1>1, <1>3 DEF UseEncoder, Inv, Types, TaskRecord, Works
  <2>2. /\ t \in FILE /\ encoder' \in EncoderRecord /\ encoder'.task = t
        /\ ~task[t].ran /\ UNCHANGED cache
        /\ encoder'.todo \subseteq Parts(t) /\ encoder'.writing = 0
    BY <1>1, <1>3 DEF UseEncoder, Idle, EncoderRecord, TaskRecord, TaskSound, Coding,
                      Account
  <2>3. TaskSound(t)'
    BY <1>1, <2>1, <2>2 DEF TaskSound, Transfer, Coding, Account, Sent, TaskRecord
  <2> QED BY <1>1, <2>1, <2>2, <2>3, SilentStep DEF Inv, Types
<1>4. CASE UseNntp(t)
  <2>1. PICK p \in task[t].needed :
          task' = [task EXCEPT ![t] = UpdateWork(t,
            [task[t] EXCEPT !.nntp = p,
               !.sent = IF t \in MASTER THEN Content(t, 1) ELSE cache.disk[Key(t, p)]],
            FALSE)]
    BY <1>4 DEF UseNntp, Inv, Types
  <2> DEFINE d == IF t \in MASTER THEN Content(t, 1) ELSE cache.disk[Key(t, p)]
             y == [task[t] EXCEPT !.nntp = p, !.sent = d]
             x == UpdateWork(t, y, FALSE)
  <2>2. d \in Datum
    <3>1. CASE t \in MASTER
      BY <3>1 DEF Content, Datum
    <3>2. CASE t \notin MASTER
      <4>1. t \in FILE /\ Key(t, p) \in KEY
        BY <1>1, <3>2, KeysAreKeys DEF TASK, TaskSound, Account
      <4> QED BY <3>2, <4>1 DEF Inv, Types, CacheRecord
    <3> QED BY <3>1, <3>2
  <2>3. p \in Nat /\ (t \in FILE => p \in Parts(t) /\ p # 0 /\ task[t].ran)
    BY <1>1, <1>4 DEF UseNntp, TaskRecord, TaskSound, Account, Transfer, Parts
  <2> HIDE DEF d
  <2>4. y \in TaskRecord
    BY <1>1, <2>2 DEF TaskRecord
  <2>5. /\ task' = [task EXCEPT ![t] = x] /\ task'[t] = x
        /\ UNCHANGED <<encoder, cache>>
    BY <1>4, <2>1 DEF UseNntp, d, Inv, Types
  <2>6. encoder.task # t
    BY <1>1, <1>4 DEF UseNntp, TaskSound, Coding
  <2>7. /\ x \in TaskRecord /\ x = [y EXCEPT !.work = x.work]
        /\ t \in FILE => (x.work = "NEED_ENCODER" <=> ~y.ran)
        /\ x.work = "NEED_ENCODER" => t \in FILE
        /\ y.nntp # 0 /\ (t \in FILE => y.ran) => x.work = "WORKING"
    <3> HIDE DEF y
    <3> QED BY <2>4, Updated
  <2> HIDE DEF x
  <2>8. /\ x.nntp = p /\ x.needed = task[t].needed /\ x.wanted = task[t].wanted
        /\ x.ran = task[t].ran /\ x.removing = task[t].removing
        /\ x.erred = task[t].erred /\ x.said = task[t].said
        /\ y.nntp = p /\ y.ran = task[t].ran
    BY <1>1, <2>4, <2>7 DEF TaskRecord
  <2>9. TaskSound(t)'
    BY <1>1, <2>3, <2>5, <2>6, <2>7, <2>8
       DEF TaskSound, Transfer, Coding, Account, Sent
  <2> QED BY <1>1, <2>5, <2>7, <2>9, SilentStep DEF Inv, Types
<1> QED BY <1>2, <1>3, <1>4 DEF Serve

\* The end of a callback that leaves the task's parts accounted for.
LEMMA CheckInInv ==
  ASSUME Inv, NEW t \in TASK, Queued(t), NEW r \in TaskRecord,
         CheckIn(t, UpdateWork(t, r, FALSE)),
         r.nntp = 0, r.wanted = task[t].wanted, r.removing = task[t].removing,
         encoder' \in EncoderRecord, encoder'.task # t,
         server' \in [TASK -> SUBSET [part : Nat, content : Datum \cup {None}]],
         history' \in [refused : [TASK -> SUBSET Nat], unencoded : SUBSET TASK,
                      removed : SUBSET TASK, stops : Nat],
         history'.removed = history.removed,
         \A u \in TASK : u # t =>
           /\ server'[u] = server[u] /\ history'.refused[u] = history.refused[u]
           /\ u \in history'.unencoded <=> u \in history.unencoded
           /\ encoder'.task = u => encoder' = encoder,
         t \in FILE =>
           /\ r.needed \subseteq task[t].wanted
           /\ t \notin history'.unencoded \cup history.removed =>
                task[t].wanted = r.needed \cup Sent(t)' \cup history'.refused[t]
           /\ r.ran /\ r.needed # {} /\ ~r.erred => task[t].wanted \subseteq r.needed \cup Sent(t)'
           /\ ~r.ran => r.needed = task[t].wanted
           /\ r.said = "ok" => task[t].wanted \subseteq Sent(t)'
  PROVE  Inv'
<1> DEFINE x == UpdateWork(t, r, FALSE)
<1>1. /\ x \in TaskRecord /\ x = [r EXCEPT !.work = x.work]
      /\ x.work \in {"NEED_ENCODER", "WORKING", "NEED_NNTP", "COMPLETED"}
      /\ t \in FILE => (x.work = "NEED_ENCODER" <=> ~r.ran)
      /\ x.work = "NEED_ENCODER" => t \in FILE
      /\ x.work = "COMPLETED" => r.needed = {}
      /\ (t \in FILE => r.ran) /\ r.needed = {} => x.work = "COMPLETED"
  BY Updated
<1> HIDE DEF x
<1>2. /\ x.nntp = 0 /\ x.needed = r.needed /\ x.wanted = task[t].wanted
      /\ x.ran = r.ran /\ x.removing = task[t].removing
      /\ x.erred = r.erred /\ x.said = r.said
  BY <1>1 DEF TaskRecord
<1>3. TaskSound(t) /\ (t \in FILE => task[t].wanted \subseteq Parts(t))
  BY DEF Inv, TaskSound, Account
<1>4. /\ task' = [task EXCEPT ![t] = Left(x)] /\ Left(x) \in TaskRecord
      /\ ui' \in [window : {"open", "hidden", "closed"}, saving : BOOLEAN,
                  running : Int, nzb : Seq(FILE \cup {"header", "footer"})]
      /\ ui'.window = "open" => ui.window = "open"
      /\ cache' \in CacheRecord
      /\ Reports'
  BY <1>1, <1>2, <1>3, CheckedIn DEF x
<1>5. Types'
  BY <1>4 DEF Inv, Types
<1>6. task'[t] = Left(x) /\ ui.window # "open"
  BY <1>3, <1>4 DEF Inv, Types, TaskSound, Untouched, Queued
<1>7. TaskSound(t)'
  <2>1. CASE x.work = "COMPLETED" \/ x.removing
    <3>1. /\ task'[t].work = "GONE" /\ task'[t].nntp = 0 /\ task'[t].needed = {}
          /\ task'[t].wanted = task[t].wanted /\ task'[t].said = r.said
          /\ ~task'[t].removing
      BY <1>2, <1>6, <2>1 DEF Left, Gone, NewTask
    <3>2. r.needed = {} \/ t \in history.removed
      BY <1>1, <1>2, <1>3, <2>1 DEF TaskSound
    <3> QED BY <1>3, <1>4, <1>6, <3>1, <3>2
            DEF TaskSound, Transfer, Coding, Account, Queued
  <2>2. CASE ~(x.work = "COMPLETED" \/ x.removing)
    <3>1. task'[t] = x
      BY <1>6, <2>2 DEF Left
    <3>2. Transfer(t)' /\ Coding(t)'
      BY <1>1, <1>2, <3>1 DEF Transfer, Coding
    <3>3. ASSUME t \in FILE PROVE Account(t)'
      BY <1>1, <1>2, <1>3, <2>2, <3>1, <3>3 DEF Account
    <3> QED BY <1>2, <1>4, <1>6, <2>2, <3>1, <3>2, <3>3 DEF TaskSound
  <2> QED BY <2>1, <2>2
<1>8. \A u \in TASK : TaskSound(u)'
  BY <1>4, <1>7, OneTask
<1> QED BY <1>4, <1>5, <1>8 DEF Inv

\* The server's answer.
LEMMA NntpDoneInv ==
  ASSUME Inv, NEW t \in TASK, NEW answer \in ANSWERS, NntpDone(t, answer)
  PROVE  Inv'
<1> DEFINE p == task[t].nntp
           freed == [task[t] EXCEPT !.nntp = 0, !.sent = None]
           dropped == [freed EXCEPT !.needed = @ \ {p}]
           result == CASE t \in MASTER           -> dropped
                       [] t \in FILE /\ answer = "posted"  -> Posted(freed, p)
                       [] t \in FILE /\ answer = "refused" -> Refused(freed, p)
                       [] t \in FILE /\ answer = "lost"    -> Lost(freed, p)
                       [] OTHER                  -> dropped
           article == [part |-> p, content |-> task[t].sent]
<1>1. /\ p # 0 /\ task[t] \in TaskRecord /\ TaskSound(t) /\ Queued(t) /\ p \in Nat
      /\ task[t].sent \in Datum \cup {None} /\ UNCHANGED encoder /\ encoder.task # t
      /\ encoder \in EncoderRecord
  <2>1. p # 0 /\ UNCHANGED encoder
    BY Zenon DEF NntpDone
  <2>2. /\ task[t] \in TaskRecord /\ TaskSound(t) /\ encoder \in EncoderRecord
    BY DEF Inv, Types
  <2> QED BY <2>1, <2>2 DEF TaskRecord, EncoderRecord, TaskSound, Transfer, Coding, Queued
<1>2. /\ \/ /\ answer = "posted" \/ answer = "lost"
            /\ server' = [server EXCEPT ![t] = @ \cup {article}]
         \/ answer # "posted" /\ UNCHANGED server
      /\ history' = [history EXCEPT !.refused[t] =
                       IF answer = "refused" THEN @ \cup {p} ELSE @]
      /\ CheckIn(t, UpdateWork(t, result, FALSE))
      /\ answer = "duplicate" => \E a \in server[t] : a.part = p
  BY Zenon DEF NntpDone
<1>3. server' \in [TASK -> SUBSET [part : Nat, content : Datum \cup {None}]]
  <2>1. article \in [part : Nat, content : Datum \cup {None}]
    BY <1>1
  <2> HIDE DEF article
  <2> QED BY <1>2, <2>1 DEF Inv, Types
<1>4. /\ history' \in [refused : [TASK -> SUBSET Nat], unencoded : SUBSET TASK,
                       removed : SUBSET TASK, stops : Nat]
      /\ history'.removed = history.removed /\ history'.unencoded = history.unencoded
      /\ history'.refused[t] = IF answer = "refused" THEN history.refused[t] \cup {p}
                               ELSE history.refused[t]
      /\ \A u \in TASK : u # t => history'.refused[u] = history.refused[u]
  BY <1>1, <1>2 DEF Inv, Types
<1>5. /\ \A u \in TASK : u # t => server'[u] = server[u]
      /\ server'[t] = server[t] \cup {article} \/ (server'[t] = server[t] /\ answer # "posted")
  BY <1>2 DEF Inv, Types
<1>6. /\ Sent(t) \subseteq Sent(t)' /\ Sent(t)' \subseteq Sent(t) \cup {p}
      /\ answer = "posted" => p \in Sent(t)'
      /\ answer = "duplicate" => p \in Sent(t)
  <2>1. article.part = p
    OBVIOUS
  <2> HIDE DEF article
  <2> QED BY <1>2, <1>5, <2>1 DEF Sent
<1>7. /\ freed \in TaskRecord /\ freed.nntp = 0
      /\ freed.needed = task[t].needed /\ freed.wanted = task[t].wanted
      /\ freed.ran = task[t].ran /\ freed.removing = task[t].removing
      /\ freed.erred = task[t].erred /\ freed.said = task[t].said
  BY <1>1 DEF TaskRecord
<1> HIDE DEF freed, article
<1>8. /\ dropped \in TaskRecord /\ dropped.nntp = 0
      /\ dropped.needed = task[t].needed \ {p} /\ dropped.wanted = task[t].wanted
      /\ dropped.ran = task[t].ran /\ dropped.removing = task[t].removing
      /\ dropped.erred = task[t].erred /\ dropped.said = task[t].said
  BY <1>7 DEF TaskRecord
<1>9. t \in FILE => task[t].ran /\ p \in task[t].needed
  BY <1>1 DEF TaskSound, Transfer
<1> DEFINE fits(r) ==
      /\ r \in TaskRecord /\ r.nntp = 0 /\ r.wanted = task[t].wanted
      /\ r.removing = task[t].removing
      /\ t \in FILE =>
           /\ r.needed \subseteq task[t].wanted /\ r.ran
           /\ t \notin history.unencoded \cup history.removed =>
                task[t].wanted = r.needed \cup Sent(t)' \cup history'.refused[t]
           /\ r.needed # {} /\ ~r.erred => task[t].wanted \subseteq r.needed \cup Sent(t)'
           /\ r.said = "ok" => task[t].wanted \subseteq Sent(t)'
<1>10. fits(result)
  <2>1. CASE t \in MASTER
    <3>1. result = dropped /\ t \notin FILE
      BY <2>1, Zenon
    <3> QED BY <1>8, <3>1
  <2>2. CASE t \in FILE /\ answer = "posted"
    <3> DEFINE r == Posted(freed, p)
    <3>1. result = r
      BY <2>2
    <3>2. /\ r \in TaskRecord /\ r.nntp = 0 /\ r.wanted = task[t].wanted
          /\ r.removing = task[t].removing /\ r.ran = task[t].ran
          /\ r.needed = task[t].needed \ {p}
          /\ r.needed # {} /\ ~r.erred => ~task[t].erred
          /\ r.said = "ok" => task[t].said = "ok" \/ (r.needed = {} /\ ~task[t].erred)
      BY <1>7 DEF Posted, TaskRecord
    <3> HIDE DEF r
    <3> QED BY <1>1, <1>4, <1>6, <1>9, <2>2, <3>1, <3>2 DEF TaskSound, Account
  <2>3. CASE t \in FILE /\ answer = "refused"
    <3> DEFINE r == Refused(freed, p)
    <3>1. result = r
      BY <2>3
    <3>2. /\ r \in TaskRecord /\ r.nntp = 0 /\ r.wanted = task[t].wanted
          /\ r.removing = task[t].removing /\ r.ran = task[t].ran
          /\ r.needed = task[t].needed \ {p} /\ r.erred /\ r.said = task[t].said
      BY <1>7 DEF Refused, TaskRecord
    <3> HIDE DEF r
    <3> QED BY <1>1, <1>4, <1>6, <1>9, <2>3, <3>1, <3>2 DEF TaskSound, Account
  <2>4. CASE t \in FILE /\ answer = "lost"
    <3>1. result = freed
      BY <2>4 DEF Lost
    <3> QED BY <1>1, <1>4, <1>6, <1>7, <1>9, <2>4, <3>1 DEF TaskSound, Account
  <2>5. CASE t \in FILE /\ answer \notin {"posted", "refused", "lost"}
    <3>1. answer = "duplicate"
      BY <2>5
    <3>2. result = dropped
      BY <2>5, Zenon
    <3> HIDE DEF dropped
    <3>3. fits(dropped)
      BY <1>1, <1>4, <1>6, <1>8, <1>9, <2>5, <3>1 DEF TaskSound, Account
    <3> HIDE DEF result, fits
    <3> QED BY <3>2, <3>3
  <2> QED BY <2>1, <2>2, <2>3, <2>4, <2>5 DEF TASK
<1>11. PICK r \in TaskRecord : fits(r) /\ CheckIn(t, UpdateWork(t, r, FALSE))
  <2> HIDE DEF result
  <2> QED BY <1>2, <1>10
<1> HIDE DEF result, p
<1>12. /\ encoder' \in EncoderRecord /\ encoder'.task # t
       /\ \A u \in TASK : u # t =>
           /\ server'[u] = server[u] /\ history'.refused[u] = history.refused[u]
           /\ u \in history'.unencoded <=> u \in history.unencoded
           /\ encoder'.task = u => encoder' = encoder
  BY <1>1, <1>4, <1>5
<1> QED BY <1>1, <1>3, <1>4, <1>11, <1>12, CheckInInv

\* The encoder's answer.
LEMMA EncoderDoneInv ==
  ASSUME Inv, EncoderDone
  PROVE  Inv'
<1>0. PICK t \in FILE : t = encoder.task
  BY DEF EncoderDone, Inv, Types, EncoderRecord
<1> DEFINE r == Encoded(task[t])
<1>1. /\ t # None /\ encoder' = Idle /\ UNCHANGED server
      /\ history' = [history EXCEPT !.unencoded =
                       IF encoder.errors /\ ~encoder.cancelled THEN @ \cup {t} ELSE @]
      /\ CheckIn(t, UpdateWork(t, r, FALSE))
  BY <1>0, Zenon DEF EncoderDone
<1>2. /\ t \in TASK /\ task[t] \in TaskRecord /\ TaskSound(t)
      /\ task[t].work = "WORKING" /\ ~task[t].ran /\ task[t].nntp = 0
  BY <1>0 DEF Inv, Types, TASK, TaskSound, Transfer, Coding
<1>3. /\ Queued(t) /\ task[t].needed = task[t].wanted
      /\ ~task[t].erred => task[t].wanted \subseteq task[t].needed \cup Sent(t)
      /\ t \notin history.unencoded \cup history.removed =>
           task[t].wanted = task[t].needed \cup Sent(t) \cup history.refused[t]
      /\ task[t].said = "ok" => task[t].wanted \subseteq Sent(t)
  BY <1>2 DEF Queued, TaskSound, Account
<1>4. /\ history' \in [refused : [TASK -> SUBSET Nat], unencoded : SUBSET TASK,
                      removed : SUBSET TASK, stops : Nat]
      /\ history'.removed = history.removed /\ history'.refused = history.refused
      /\ history'.unencoded = IF encoder.errors /\ ~encoder.cancelled
                              THEN history.unencoded \cup {t} ELSE history.unencoded
  BY <1>1, <1>2 DEF Inv, Types
<1>5. encoder' \in EncoderRecord /\ encoder'.task = None
  BY <1>1 DEF Idle, EncoderRecord
<1>6. Sent(t)' = Sent(t)
  BY <1>1 DEF Sent
<1> DEFINE fits(y) ==
      /\ y \in TaskRecord /\ y.nntp = 0 /\ y.wanted = task[t].wanted
      /\ y.removing = task[t].removing
      /\ y.needed \subseteq task[t].wanted
      /\ t \notin history'.unencoded \cup history.removed =>
           task[t].wanted = y.needed \cup Sent(t)' \cup history'.refused[t]
      /\ y.ran /\ y.needed # {} /\ ~y.erred => task[t].wanted \subseteq y.needed \cup Sent(t)'
      /\ ~y.ran => y.needed = task[t].wanted
      /\ y.said = "ok" => task[t].wanted \subseteq Sent(t)'
<1>7. fits(r)
  <2>1. CASE encoder.cancelled
    <3>1. r = task[t]
      BY <2>1 DEF Encoded
    <3> HIDE DEF r
    <3> QED BY <1>2, <1>3, <1>4, <1>6, <2>1, <3>1
  <2>2. CASE ~encoder.cancelled
    <3>1. /\ r \in TaskRecord /\ r.nntp = 0 /\ r.wanted = task[t].wanted
          /\ r.removing = task[t].removing /\ r.ran /\ r.said = task[t].said
          /\ r.erred = task[t].erred
          /\ r.needed = IF encoder.errors THEN {} ELSE task[t].needed
      BY <1>2, <2>2 DEF Encoded, TaskRecord
    <3> HIDE DEF r
    <3>2. CASE encoder.errors
      BY <1>3, <1>4, <1>6, <2>2, <3>1, <3>2
    <3>3. CASE ~encoder.errors
      BY <1>3, <1>4, <1>6, <2>2, <3>1, <3>3
    <3> QED BY <3>2, <3>3
  <2> QED BY <2>1, <2>2
<1>8. PICK y \in TaskRecord : fits(y) /\ CheckIn(t, UpdateWork(t, y, FALSE))
  <2> HIDE DEF r
  <2> QED BY <1>1, <1>7
<1> HIDE DEF r
<1>9. \A u \in TASK : u # t =>
         /\ server'[u] = server[u] /\ history'.refused[u] = history.refused[u]
         /\ u \in history'.unencoded <=> u \in history.unencoded
         /\ encoder'.task = u => encoder' = encoder
  BY <1>1, <1>4, <1>5
<1>10. /\ t \in TASK /\ Queued(t) /\ encoder'.task # t
       /\ server' \in [TASK -> SUBSET [part : Nat, content : Datum \cup {None}]]
  BY <1>1, <1>2, <1>3, <1>5 DEF TASK, Inv, Types
<1> QED BY <1>4, <1>5, <1>8, <1>9, <1>10, CheckInInv

\* The encoder's thread changes no more than the file it works on.
LEMMA EncoderStepInv ==
  ASSUME Inv, EncoderOpens \/ EncoderWrites \/ EncoderEnds
  PROVE  Inv'
<1>0. PICK t \in FILE : t = encoder.task
  BY DEF EncoderOpens, EncoderWrites, EncoderEnds, Encoding, Inv, Types, EncoderRecord
<1>1. /\ t \in TASK /\ task[t] \in TaskRecord /\ TaskSound(t)
      /\ task[t].work = "WORKING" /\ ~task[t].ran /\ encoder \in EncoderRecord
      /\ encoder.todo \subseteq Parts(t) /\ encoder.writing \in Parts(t) \cup {0}
      /\ UNCHANGED <<ui, server, history>>
  <2>1. UNCHANGED <<ui, server, history>>
    BY Zenon DEF EncoderOpens, EncoderWrites, EncoderEnds
  <2> QED BY <1>0, <2>1 DEF Inv, Types, TASK, TaskSound, Coding
<1>3. /\ encoder' \in EncoderRecord /\ encoder'.task = t
      /\ encoder'.todo \subseteq Parts(t) /\ encoder'.writing \in Parts(t) \cup {0}
  <2> DEFINE next == encoder.cnt + 1
  <2>1. Parts(t) \subseteq Nat /\ next \in Nat
    BY <1>0, <1>1 DEF Parts, EncoderRecord
  <2> HIDE DEF next
  <2>2. CASE EncoderOpens
    <3>1. PICK p \in encoder.todo :
            \/ encoder' = [encoder EXCEPT !.todo = @ \ {p}, !.writing = p]
            \/ encoder' = [encoder EXCEPT !.todo = @ \ {p}, !.cnt = next,
                                          !.errors = TRUE] /\ encoder.writing = 0
      BY <2>2, Zenon DEF EncoderOpens, next
    <3>2. p \in Nat /\ p \in Parts(t)
      BY <1>1, <2>1
    <3>3. CASE encoder' = [encoder EXCEPT !.todo = @ \ {p}, !.writing = p]
      BY <1>0, <1>1, <2>1, <3>2, <3>3 DEF EncoderRecord
    <3>4. CASE /\ encoder' = [encoder EXCEPT !.todo = @ \ {p}, !.cnt = next,
                                             !.errors = TRUE]
               /\ encoder.writing = 0
      BY <1>0, <1>1, <2>1, <3>2, <3>4 DEF EncoderRecord
    <3> QED BY <3>1, <3>3, <3>4
  <2>3. CASE EncoderWrites
    <3>1. \/ encoder' = [encoder EXCEPT !.writing = 0, !.cnt = next, !.todo = {}]
          \/ encoder' = [encoder EXCEPT !.writing = 0, !.cnt = next]
          \/ encoder' = [encoder EXCEPT !.writing = 0, !.cnt = next, !.todo = {},
                                        !.failed = TRUE, !.errors = TRUE]
      BY <2>3, Zenon DEF EncoderWrites, next
    <3>2. CASE encoder' = [encoder EXCEPT !.writing = 0, !.cnt = next, !.todo = {}]
      BY <1>0, <1>1, <2>1, <3>2 DEF EncoderRecord
    <3>3. CASE encoder' = [encoder EXCEPT !.writing = 0, !.cnt = next]
      BY <1>0, <1>1, <2>1, <3>3 DEF EncoderRecord
    <3>4. CASE encoder' = [encoder EXCEPT !.writing = 0, !.cnt = next, !.todo = {},
                                        !.failed = TRUE, !.errors = TRUE]
      BY <1>0, <1>1, <2>1, <3>4 DEF EncoderRecord
    <3> QED BY <3>1, <3>2, <3>3, <3>4
  <2>4. CASE EncoderEnds
    BY <1>0, <1>1, <2>4 DEF EncoderEnds, EncoderRecord
  <2> QED BY <2>2, <2>3, <2>4
<1>4. cache' \in CacheRecord
  <2>1. CASE EncoderOpens
    <3>1. PICK p \in encoder.todo : cache' = C!Opened(cache, Key(t, p)) \/ cache' = cache
      BY <1>0, <2>1, Zenon DEF EncoderOpens
    <3>2. Key(t, p) \in KEY
      BY <1>1, KeysAreKeys
    <3> QED BY <3>1, <3>2, CacheWritten DEF Inv, Types
  <2>2. CASE EncoderWrites
    <3> DEFINE data == IF encoder.errors THEN Torn ELSE Content(t, encoder.cnt)
    <3>1. data \in Datum
      BY <1>0, <1>1 DEF EncoderRecord, Torn, Content, Datum
    <3> HIDE DEF data
    <3>2. \/ cache' = C!Finalized(cache, Key(t, encoder.writing), data)
          \/ cache' = cache
      BY <1>0, <2>2, Zenon DEF EncoderWrites, data
    <3>3. Key(t, encoder.writing) \in KEY
      BY <1>0, <1>1, <2>2, KeysAreKeys DEF EncoderWrites
    <3> QED BY <3>1, <3>2, <3>3, CacheWritten DEF Inv, Types
  <2>3. CASE EncoderEnds
    BY <2>3 DEF EncoderEnds, Inv, Types
  <2> QED BY <2>1, <2>2, <2>3
<1>5. PICK x \in TaskRecord, n \in Nat :
        task' = [task EXCEPT ![t] = x] /\ x = [task[t] EXCEPT !.upload_list = n]
  <2>1. CASE EncoderOpens \/ EncoderWrites
    <3>1. task' = [task EXCEPT ![t] = task[t]]
      BY <2>1 DEF EncoderOpens, EncoderWrites, Inv, Types
    <3>2. task[t] = [task[t] EXCEPT !.upload_list = task[t].upload_list]
      BY <1>1, <1>0 DEF TaskRecord
    <3> QED BY <1>1, <1>0, <3>1, <3>2 DEF TaskRecord
  <2>2. CASE EncoderEnds
    <3> DEFINE n == IF encoder.failed THEN task[t].upload_list
                    ELSE task[t].upload_list + 1
               x == [task[t] EXCEPT !.upload_list = n]
    <3>1. n \in Nat /\ x \in TaskRecord
      BY <1>1, <1>0 DEF TaskRecord
    <3>2. task' = [task EXCEPT ![t] = x]
      BY <1>0, <2>2 DEF EncoderEnds, Inv, Types
    <3> HIDE DEF n
    <3> QED BY <3>1, <3>2
  <2> QED BY <2>1, <2>2
<1>6. /\ task'[t] = x /\ x.work = "WORKING" /\ ~x.ran /\ x.nntp = task[t].nntp
      /\ x.needed = task[t].needed /\ x.wanted = task[t].wanted
      /\ x.removing = task[t].removing /\ x.erred = task[t].erred
      /\ x.said = task[t].said
  BY <1>1, <1>0, <1>5 DEF Inv, Types, TaskRecord
<1>7. TaskSound(t)'
  BY <1>1, <1>0, <1>3, <1>6 DEF TaskSound, Transfer, Coding, Account, Sent, Queued, Untouched
<1> QED BY <1>1, <1>0, <1>3, <1>4, <1>5, <1>7, SilentStep DEF Queued, Inv, Types

\* A task that is stopped or let go on.
LEMMA StopInv ==
  ASSUME Inv, NEW t \in TASK, StopTask(t) \/ RestartTask(t)
  PROVE  Inv'
<1>1. PICK stopped \in BOOLEAN : task' = [task EXCEPT ![t].stopped = stopped]
  BY DEF StopTask, RestartTask
<1> DEFINE x == [task[t] EXCEPT !.stopped = stopped]
<1>2. /\ Queued(t) /\ TaskSound(t) /\ task[t] \in TaskRecord /\ UNCHANGED <<ui, cache, server>>
      /\ encoder \in EncoderRecord
  BY DEF StopTask, RestartTask, Inv, Types
<1>3. /\ task' = [task EXCEPT ![t] = x] /\ x \in TaskRecord /\ task'[t] = x
      /\ x.work = task[t].work /\ x.nntp = task[t].nntp /\ x.ran = task[t].ran
      /\ x.needed = task[t].needed /\ x.wanted = task[t].wanted
      /\ x.removing = task[t].removing /\ x.erred = task[t].erred /\ x.said = task[t].said
  BY <1>1, <1>2 DEF Inv, Types, TaskRecord
<1>4. \/ encoder' = encoder
      \/ encoder' = [encoder EXCEPT !.cancelled = TRUE] /\ encoder.task = t
  BY DEF StopTask, RestartTask, Cancel
<1>5. /\ encoder' \in EncoderRecord /\ encoder'.task = encoder.task
      /\ encoder'.todo = encoder.todo /\ encoder'.writing = encoder.writing
      /\ \A u \in TASK : u # t /\ encoder'.task = u => encoder' = encoder
  BY <1>2, <1>4 DEF EncoderRecord
<1>6. \/ history' = history
      \/ history' = [history EXCEPT !.stops = @ + 1]
  BY DEF StopTask, RestartTask
<1>7. /\ history' \in [refused : [TASK -> SUBSET Nat], unencoded : SUBSET TASK,
                      removed : SUBSET TASK, stops : Nat]
      /\ history'.refused = history.refused /\ history'.removed = history.removed
      /\ history'.unencoded = history.unencoded
  <2>1. history \in [refused : [TASK -> SUBSET Nat], unencoded : SUBSET TASK,
                     removed : SUBSET TASK, stops : Nat]
    BY DEF Inv, Types
  <2> HIDE DEF Inv
  <2>2. CASE history' = [history EXCEPT !.stops = @ + 1]
    BY <2>1, <2>2
  <2> QED
    BY <1>6, <2>1, <2>2
<1> HIDE DEF x
<1>8. TaskSound(t)'
  BY <1>2, <1>3, <1>5, <1>7 DEF TaskSound, Transfer, Coding, Account, Sent, Queued, Untouched
<1>9. \A u \in TASK : u # t =>
        /\ history'.refused[u] = history.refused[u]
        /\ u \in history'.removed <=> u \in history.removed
        /\ u \in history'.unencoded <=> u \in history.unencoded
        /\ encoder'.task = u => encoder' = encoder
  BY <1>5, <1>7
<1>10. cache' \in CacheRecord
  BY <1>2 DEF Inv, Types
<1> QED BY <1>2, <1>3, <1>5, <1>7, <1>8, <1>9, <1>10, SilentStep

\* A task that the user removes, now or when its callback comes.
LEMMA RemoveInv ==
  ASSUME Inv, NEW t \in TASK, RemoveTask(t)
  PROVE  Inv'
<1>1. /\ Queued(t) /\ TaskSound(t) /\ task[t] \in TaskRecord /\ UNCHANGED <<ui, server>>
      /\ encoder \in EncoderRecord /\ cache \in CacheRecord
  BY DEF RemoveTask, Inv, Types
<1>2. /\ history' \in [refused : [TASK -> SUBSET Nat], unencoded : SUBSET TASK,
                      removed : SUBSET TASK, stops : Nat]
      /\ history'.refused = history.refused
      /\ history'.removed = history.removed \cup {t}
      /\ history'.unencoded = history.unencoded
  BY DEF RemoveTask, Inv, Types
<1>3. CASE encoder.task = t \/ task[t].nntp # 0
  <2> DEFINE x == [task[t] EXCEPT !.removing = TRUE]
  <2>1. /\ task' = [task EXCEPT ![t] = x] /\ x \in TaskRecord /\ task'[t] = x
        /\ x.work = task[t].work /\ x.nntp = task[t].nntp /\ x.ran = task[t].ran
        /\ x.needed = task[t].needed /\ x.wanted = task[t].wanted
        /\ x.erred = task[t].erred /\ x.said = task[t].said
        /\ UNCHANGED cache
    BY <1>1, <1>3 DEF RemoveTask, Inv, Types, TaskRecord
  <2>2. \/ encoder' = encoder
        \/ encoder' = [encoder EXCEPT !.cancelled = TRUE] /\ encoder.task = t
    BY <1>3 DEF RemoveTask, Cancel
  <2>3. /\ encoder' \in EncoderRecord /\ encoder'.task = encoder.task
        /\ encoder'.todo = encoder.todo /\ encoder'.writing = encoder.writing
        /\ \A u \in TASK : u # t /\ encoder'.task = u => encoder' = encoder
    BY <1>1, <2>2 DEF EncoderRecord
  <2> HIDE DEF x
  <2>4. TaskSound(t)'
    BY <1>1, <1>2, <2>1, <2>3
       DEF TaskSound, Transfer, Coding, Account, Sent, Queued, Untouched
  <2> QED BY <1>1, <1>2, <2>1, <2>3, <2>4, SilentStep
<1>4. CASE ~(encoder.task = t \/ task[t].nntp # 0)
  <2> DEFINE x == Gone(task[t])
  <2>1. Delete(t, task[t]) /\ UNCHANGED encoder
    BY <1>4 DEF RemoveTask
  <2>2. /\ task' = [task EXCEPT ![t] = x] /\ x \in TaskRecord /\ task'[t] = x
        /\ x.work = "GONE" /\ x.nntp = 0 /\ x.needed = {} /\ ~x.removing
        /\ x.wanted = task[t].wanted /\ x.said = task[t].said
    BY <1>1, <2>1 DEF Delete, Gone, NewTask, Inv, Types, TaskRecord, Works
  <2>3. cache' \in CacheRecord
    <3>1. CASE t \in MASTER
      BY <1>1, <2>1, <3>1 DEF Delete
    <3>2. CASE t \notin MASTER
      <4>1. Keys(t, task[t].wanted) \subseteq KEY
        BY <1>1, <3>2, KeysAreKeys DEF TASK, TaskSound, Account
      <4>2. C!Release(cache, Keys(t, task[t].wanted)) \in CacheRecord
        BY <1>1, <4>1, CacheTyped
      <4> QED BY <2>1, <3>2, <4>2, Shrunk DEF Delete
    <3> QED BY <3>1, <3>2
  <2> HIDE DEF x
  <2>4. TaskSound(t)'
    BY <1>1, <1>2, <1>4, <2>1, <2>2
       DEF TaskSound, Transfer, Coding, Account, Sent, Queued, Untouched
  <2> QED BY <1>1, <1>2, <2>1, <2>2, <2>3, <2>4, SilentStep DEF Inv, Types
<1> QED BY <1>3, <1>4

\* Steps that change no more than the cache.
LEMMA CacheStep ==
  ASSUME Inv, UNCHANGED <<ui, task, encoder, server, history>>, cache' \in CacheRecord
  PROVE  Inv'
<1>1. Types'
  BY DEF Inv, Types
<1>2. ASSUME NEW t \in TASK PROVE TaskSound(t)'
  BY DEF Inv, TaskSound, Transfer, Coding, Account, Sent, Queued, Untouched
<1>3. Reports'
  BY QuietReports DEF InQueue, Queued
<1> QED BY <1>1, <1>2, <1>3 DEF Inv

LEMMA InvNext == Inv /\ [Next]_vars => Inv'
<1> SUFFICES ASSUME Inv, [Next]_vars PROVE Inv'
  OBVIOUS
<1>1. CASE UNCHANGED vars
  BY <1>1, CacheStep DEF vars, Inv, Types
<1>2. CASE ClearCache
  BY <1>2, CacheStep, Shrunk DEF ClearCache, Inv, Types
<1>3. CASE Post
  BY <1>3, PostInv
<1>4. CASE EncoderWorks
  BY <1>4, EncoderStepInv, EncoderDoneInv DEF EncoderWorks
<1>5. ASSUME NEW t \in TASK,
             \/ Serve(t)
             \/ \E answer \in ANSWERS : NntpDone(t, answer)
             \/ StopTask(t) \/ RestartTask(t) \/ RemoveTask(t)
      PROVE  Inv'
  BY <1>5, ServeInv, NntpDoneInv, StopInv, RemoveInv
<1> QED BY <1>1, <1>2, <1>3, <1>4, <1>5 DEF Next

\* The strengthening that the theorems need.
THEOREM Invariance == Spec => []Inv
<1> QED BY InvInit, InvNext, PTL DEF Spec

----------------------------------------------------------------------------

\* Whatever the batch, the answers and the moments at which connections are
\* lost, no part of a file is forgotten (on_nntp_done).
THEOREM NoPartForgotten == Spec => []PartsAccounted
<1>1. Inv => PartsAccounted
  BY DEF Inv, TaskSound, Account, PartsAccounted, Sent, TASK
<1> QED BY <1>1, Invariance, PTL

\* A file is said to be posted only when all its parts are on the server.
THEOREM LogIsTrue == Spec => []SuccessIsTrue
<1>1. Inv => SuccessIsTrue
  BY DEF Inv, TaskSound, Account, SuccessIsTrue, Sent, TASK
<1> QED BY <1>1, Invariance, PTL

\* The hidden window is there as long as a task may report to it.
THEOREM WindowOutlivesTasks == Spec => []ListenerOutlivesTasks
<1>1. Inv => ListenerOutlivesTasks
  BY DEF Inv, Reports, InQueue, ListenerOutlivesTasks
<1> QED BY <1>1, Invariance, PTL

----------------------------------------------------------------------------
(* The NZB.                                                                *)

\* A file of which something was sent is in the list of its uploads, and in
\* the NZB once it has left the queue by itself.
Listed(f) ==
  /\ task[f].ran => Queued(f)
  /\ task[f].work # "GONE" /\ ~task[f].ran => server[f] = {}
  /\ task[f].ran /\ task[f].needed # {} => task[f].upload_list > 0
  /\ Queued(f) /\ server[f] # {} => task[f].upload_list > 0
  /\ encoder.task = f /\ encoder.ended /\ ~encoder.errors => task[f].upload_list > 0
  /\ task[f].work = "GONE" /\ f \notin history.removed /\ server[f] # {} /\ ui.saving =>
       f \in ToSet(ui.nzb)

\* The NZB is ended with the window.
Entries ==
  /\ encoder.failed => encoder.errors
  /\ ui.window = "open" => ui.nzb = <<>>
  /\ ui.nzb # <<>> => ui.saving
  /\ "footer" \in ToSet(ui.nzb) => ui.window = "closed" /\ Last(ui.nzb) = "footer"

NzbSound == Entries /\ \A f \in FILE : Listed(f)

Lines == FILE \cup {"header", "footer"}

\* What two lists together hold.
LEMMA Joined ==
  ASSUME NEW S, NEW a \in Seq(S), NEW b \in Seq(S)
  PROVE  /\ ToSet(a \o b) = ToSet(a) \cup ToSet(b)
         /\ b # <<>> => Last(a \o b) = Last(b)
<1>1. /\ a \o b \in Seq(S) /\ Len(a \o b) = Len(a) + Len(b)
      /\ \A i \in 1..(Len(a) + Len(b)) :
           (a \o b)[i] = IF i <= Len(a) THEN a[i] ELSE b[i - Len(a)]
  BY ConcatProperties
<1>2. /\ DOMAIN (a \o b) = 1..(Len(a) + Len(b)) /\ DOMAIN a = 1..Len(a) /\ DOMAIN b = 1..Len(b)
      /\ Len(a) \in Nat /\ Len(b) \in Nat
  BY <1>1, LenProperties
<1>3. ASSUME NEW e \in ToSet(a \o b) PROVE e \in ToSet(a) \cup ToSet(b)
  <2>1. PICK i \in 1..(Len(a) + Len(b)) : e = (a \o b)[i]
    BY <1>2 DEF ToSet
  <2>2. i <= Len(a) => i \in 1..Len(a)
    BY <1>2
  <2>3. ~(i <= Len(a)) => i - Len(a) \in 1..Len(b)
    BY <1>2
  <2> QED BY <1>1, <1>2, <2>1, <2>2, <2>3 DEF ToSet
<1>4. ASSUME NEW e \in ToSet(a) PROVE e \in ToSet(a \o b)
  <2>1. PICK i \in 1..Len(a) : e = a[i]
    BY <1>2 DEF ToSet
  <2>2. i \in 1..(Len(a) + Len(b)) /\ i <= Len(a)
    BY <1>2
  <2> QED BY <1>1, <1>2, <2>1, <2>2 DEF ToSet
<1>5. ASSUME NEW e \in ToSet(b) PROVE e \in ToSet(a \o b)
  <2>1. PICK i \in 1..Len(b) : e = b[i]
    BY <1>2 DEF ToSet
  <2>2. i + Len(a) \in 1..(Len(a) + Len(b)) /\ ~(i + Len(a) <= Len(a)) /\ (i + Len(a)) - Len(a) = i
    BY <1>2
  <2> QED BY <1>1, <1>2, <2>1, <2>2 DEF ToSet
<1>6. b # <<>> => Last(a \o b) = Last(b)
  <2> SUFFICES ASSUME b # <<>> PROVE Last(a \o b) = Last(b)
    OBVIOUS
  <2>1. Len(b) # 0
    BY EmptySeq
  <2>2. /\ Len(a) + Len(b) \in 1..(Len(a) + Len(b)) /\ ~(Len(a) + Len(b) <= Len(a))
        /\ (Len(a) + Len(b)) - Len(a) = Len(b)
    BY <1>2, <2>1
  <2> QED BY <1>1, <2>2 DEF Last
<1> QED BY <1>3, <1>4, <1>5, <1>6

\* What is added to the NZB for a file that is done.
LEMMA NzbFinished ==
  ASSUME Types, NEW t \in TASK, NEW x \in TaskRecord
  PROVE  /\ ProgressFinished(t, x).saving = ui.saving
         /\ ToSet(ui.nzb) \subseteq ToSet(ProgressFinished(t, x).nzb)
         /\ ProgressFinished(t, x).nzb # <<>> => ui.nzb # <<>> \/ ui.saving
         /\ t \in FILE /\ ui.saving /\ x.upload_list > 0 =>
              t \in ToSet(ProgressFinished(t, x).nzb)
         /\ "footer" \in ToSet(ProgressFinished(t, x).nzb) =>
              \/ "footer" \in ToSet(ui.nzb)
              \/ /\ ProgressFinished(t, x).window = "closed"
                 /\ Last(ProgressFinished(t, x).nzb) = "footer"
<1>0. ui \in [window : {"open", "hidden", "closed"}, saving : BOOLEAN,
              running : Int, nzb : Seq(Lines)]
  BY DEF Types, Lines
<1>1. CASE t \in MASTER
  <2>1. ProgressFinished(t, x) = [ui EXCEPT !.running = @ - 1] /\ t \notin FILE
    BY <1>1 DEF ProgressFinished
  <2>2. ProgressFinished(t, x).saving = ui.saving /\ ProgressFinished(t, x).nzb = ui.nzb
    BY <1>0, <2>1
  <2> QED BY <2>1, <2>2
<1>2. CASE t \notin MASTER
  <2> DEFINE listed == [i \in 1..x.upload_list |-> t]
             end == IF ui.running - 1 = 0 THEN <<"footer">> ELSE <<>>
             more == listed \o end
             nzb == IF ~ui.saving THEN ui.nzb ELSE ui.nzb \o listed \o end
             now == IF ui.running - 1 = 0 THEN "closed" ELSE ui.window
  <2>1. t \in FILE /\ x.upload_list \in Nat
    BY <1>2 DEF TASK, TaskRecord
  <2>2. /\ listed \in Seq(Lines) /\ ToSet(listed) \subseteq {t}
        /\ x.upload_list > 0 => t \in ToSet(listed)
    <3>1. PICK n \in Nat : n = x.upload_list
      BY <2>1
    <3>2. DOMAIN [i \in 1..n |-> t] = 1..n /\ \A i \in 1..n : [j \in 1..n |-> t][i] = t
      OBVIOUS
    <3>3. n > 0 => 1 \in 1..n
      OBVIOUS
    <3>4. t \in Lines
      BY <2>1 DEF Lines
    <3>5. [i \in 1..n |-> t] \in Seq(Lines)
      BY <3>4
    <3> QED BY <3>1, <3>2, <3>3, <3>5 DEF ToSet
  <2>3. /\ end \in Seq(Lines)
        /\ "footer" \in ToSet(end) => ui.running - 1 = 0
        /\ ui.running - 1 = 0 => end # <<>> /\ Last(end) = "footer"
    <3>1. <<>> \in Seq(Lines) /\ <<"footer">> \in Seq(Lines)
      BY ShortSequences DEF Lines
    <3>2. ToSet(<<>>) = {} /\ <<"footer">> # <<>> /\ Last(<<"footer">>) = "footer"
      BY DEF ToSet, Last
    <3> QED BY <3>1, <3>2
  <2>4. ProgressFinished(t, x) =
          [ui EXCEPT !.running = ui.running - 1, !.nzb = nzb,
                     !.window = IF ui.running - 1 = 0 THEN "closed" ELSE @]
    BY <1>2, Zenon DEF ProgressFinished
  <2> HIDE DEF nzb
  <2>5. /\ ProgressFinished(t, x).saving = ui.saving /\ ProgressFinished(t, x).nzb = nzb
        /\ ProgressFinished(t, x).window = now
    BY <1>0, <2>4
  <2>6. "footer" # t
    BY <2>1, NzbAssumption
  <2>7. CASE ~ui.saving
    <3>1. nzb = ui.nzb
      BY <2>7 DEF nzb
    <3> QED BY <2>5, <2>7, <3>1
  <2>8. CASE ui.saving
    <3>1. nzb = (ui.nzb \o listed) \o end
      BY <2>8 DEF nzb
    <3> HIDE DEF listed, end
    <3>2. ui.nzb \in Seq(Lines) /\ ui.nzb \o listed \in Seq(Lines)
      BY <1>0, <2>2, ConcatProperties
    <3>3. /\ ToSet(nzb) = ToSet(ui.nzb) \cup ToSet(listed) \cup ToSet(end)
          /\ end # <<>> => Last(nzb) = Last(end)
      <4>1. ToSet(ui.nzb \o listed) = ToSet(ui.nzb) \cup ToSet(listed)
        BY <2>2, <3>2, Joined
      <4>2. /\ ToSet((ui.nzb \o listed) \o end) = ToSet(ui.nzb \o listed) \cup ToSet(end)
            /\ end # <<>> => Last((ui.nzb \o listed) \o end) = Last(end)
        <5>1. PICK both \in Seq(Lines) : both = ui.nzb \o listed
          BY <3>2
        <5>2. PICK last \in Seq(Lines) : last = end
          BY <2>3
        <5>3. /\ ToSet(both \o last) = ToSet(both) \cup ToSet(last)
              /\ last # <<>> => Last(both \o last) = Last(last)
          BY Joined
        <5> QED BY <5>1, <5>2, <5>3
      <4> QED BY <3>1, <4>1, <4>2
    <3> QED BY <2>2, <2>3, <2>5, <2>6, <2>8, <3>3
  <2> QED BY <2>7, <2>8
<1> QED BY <1>1, <1>2

\* Nothing is written, listed or sent at first.
LEMMA NzbInit == Init => NzbSound
<1> SUFFICES ASSUME Init PROVE NzbSound
  OBVIOUS
<1>1. Entries
  BY DEF Init, Entries, Idle, ToSet
<1>2. ASSUME NEW f \in FILE PROVE Listed(f)
  BY DEF Init, Listed, NewTask, Idle, Queued, TASK
<1> QED BY <1>1, <1>2 DEF NzbSound

\* A step of which the window does not hear.
LEMMA SilentNzb ==
  ASSUME Inv, NzbSound, NEW t \in TASK, NEW x \in TaskRecord,
         task' = [task EXCEPT ![t] = x], UNCHANGED <<ui, server>>,
         encoder'.failed => encoder'.errors,
         \A u \in TASK : u # t /\ encoder'.task = u => encoder' = encoder,
         history.removed \subseteq history'.removed,
         t \in FILE => Listed(t)'
  PROVE  NzbSound'
<1>1. Entries'
  BY DEF NzbSound, Entries
<1>2. ASSUME NEW f \in FILE, f # t PROVE Listed(f)'
  <2>1. task'[f] = task[f] /\ f \in TASK
    BY <1>2 DEF Inv, Types, TASK
  <2> QED BY <1>2, <2>1 DEF NzbSound, Listed, Queued
<1> QED BY <1>1, <1>2 DEF NzbSound

\* The end of a callback.
LEMMA CheckInNzb ==
  ASSUME Inv, NzbSound, NEW t \in TASK, Queued(t), NEW r \in TaskRecord,
         CheckIn(t, UpdateWork(t, r, FALSE)),
         r.nntp = 0, r.removing = task[t].removing,
         encoder'.failed => encoder'.errors, encoder'.task # t,
         \A u \in TASK : encoder'.task = u => encoder' = encoder,
         \A u \in TASK : u # t => server'[u] = server[u],
         history'.removed = history.removed,
         t \in FILE => r.wanted = task[t].wanted,
         t \in FILE =>
           /\ ~r.ran => server'[t] = {}
           /\ r.ran /\ r.needed # {} => r.upload_list > 0
           /\ server'[t] # {} => r.upload_list > 0
  PROVE  NzbSound'
<1> DEFINE x == UpdateWork(t, r, FALSE)
<1>1. /\ x \in TaskRecord /\ x = [r EXCEPT !.work = x.work]
      /\ x.work \in {"NEED_ENCODER", "WORKING", "NEED_NNTP", "COMPLETED"}
  BY Updated
<1>a. ui' = IF x.work = "COMPLETED" THEN ProgressFinished(t, x) ELSE ui
  BY DEF CheckIn
<1>b. task' = [task EXCEPT ![t] = Left(x)]
  BY DEF CheckIn, Delete, Left, Gone
<1> HIDE DEF x
<1>2. /\ x.needed = r.needed /\ x.ran = r.ran /\ x.removing = task[t].removing
      /\ x.upload_list = r.upload_list
  BY <1>1 DEF TaskRecord
<1>3. TaskSound(t) /\ ui.window = "hidden"
  <2>1. TaskSound(t) /\ t \in InQueue /\ ui.window \in {"open", "hidden", "closed"}
    BY DEF Inv, InQueue, Types
  <2> QED BY <2>1 DEF Inv, Reports
<1>4. task'[t] = Left(x) /\ \A u \in TASK : u # t => task'[u] = task[u]
  BY <1>b DEF Inv, Types
<1>5. "footer" \notin ToSet(ui.nzb)
  BY <1>3 DEF NzbSound, Entries
<1>6. /\ ui'.saving = ui.saving /\ ToSet(ui.nzb) \subseteq ToSet(ui'.nzb)
      /\ ui'.nzb # <<>> => ui.nzb # <<>> \/ ui.saving
      /\ t \in FILE /\ x.work = "COMPLETED" /\ ui.saving /\ x.upload_list > 0 =>
           t \in ToSet(ui'.nzb)
      /\ "footer" \in ToSet(ui'.nzb) => ui'.window = "closed" /\ Last(ui'.nzb) = "footer"
      /\ ui'.window # "open"
  <2>1. CASE x.work = "COMPLETED"
    <3>1. ui' = ProgressFinished(t, x)
      BY <1>a, <2>1
    <3>2. ProgressFinished(t, x).window =
            IF t \notin MASTER /\ ui.running - 1 = 0 THEN "closed" ELSE ui.window
      BY <1>1, WindowTyped DEF Inv
    <3> QED BY <1>1, <1>3, <1>5, <3>1, <3>2, NzbFinished DEF Inv
  <2>2. CASE x.work # "COMPLETED"
    BY <1>a, <1>3, <1>5, <2>2
  <2> QED BY <2>1, <2>2
<1>7. Entries'
  BY <1>6 DEF NzbSound, Entries
<1>8. ASSUME NEW f \in FILE PROVE Listed(f)'
  <2>1. CASE f # t
    BY <1>4, <1>6, <2>1 DEF NzbSound, Listed, Queued, TASK
  <2>2. CASE f = t
    <3>1. CASE x.work = "COMPLETED" \/ x.removing
      <4>1. task'[t].work = "GONE" /\ ~task'[t].ran
        BY <1>4, <3>1 DEF Left, Gone, NewTask
      <4>2. ~x.removing \/ t \in history'.removed
        BY <1>2, <1>3 DEF TaskSound
      <4> QED BY <1>2, <1>6, <2>2, <3>1, <4>1, <4>2 DEF Listed, Queued
    <3>2. CASE ~(x.work = "COMPLETED" \/ x.removing)
      <4>1. task'[t] = x
        BY <1>4, <3>2 DEF Left
      <4> QED BY <1>1, <1>2, <2>2, <4>1 DEF Listed, Queued
    <3> QED BY <3>1, <3>2
  <2> QED BY <2>1, <2>2
<1> QED BY <1>7, <1>8 DEF NzbSound

\* Nothing of a batch has been sent when it is posted.
LEMMA PostNzb ==
  ASSUME Inv, NzbSound, Post
  PROVE  NzbSound'
<1>1. PICK master \in SUBSET MASTER, wanted \in Selections :
        PostBatch(FILE \cup master, wanted)
  BY DEF Post
<1>2. /\ ui' = [window |-> "hidden", saving |-> "save" \in USER,
                running |-> Running(FILE \cup master),
                nzb |-> IF "save" \in USER THEN <<"header">> ELSE <<>>]
      /\ ui.window = "open" /\ UNCHANGED <<encoder, server, history>>
  BY <1>1 DEF PostBatch
<1>3. Entries'
  <2>1. ToSet(<<>>) = {} /\ ToSet(<<"header">>) = {"header"}
    BY DEF ToSet
  <2>2. ui'.window = "hidden" /\ "footer" \notin ToSet(ui'.nzb)
    BY <1>2, <2>1
  <2>3. ui'.nzb # <<>> => ui'.saving
    BY <1>2
  <2> QED BY <1>2, <2>2, <2>3 DEF NzbSound, Entries
<1>4. ASSUME NEW f \in FILE PROVE Listed(f)'
  <2>1. task'[f].work = "INITIAL" /\ ~task'[f].ran
    BY <1>1 DEF PostBatch, NewTask, TASK
  <2>2. server[f] = {} /\ encoder.task # f
    BY <1>2 DEF Inv, TaskSound, Coding, Untouched, TASK
  <2> QED BY <1>2, <2>1, <2>2 DEF Listed, Queued
<1> QED BY <1>3, <1>4 DEF NzbSound

LEMMA ServeNzb ==
  ASSUME Inv, NzbSound, NEW t \in TASK, Serve(t)
  PROVE  NzbSound'
<1>1. /\ UNCHANGED <<ui, server, history>> /\ Queued(t) /\ task[t] \in TaskRecord
      /\ TaskSound(t)
  BY DEF Serve, WakeUp, UseEncoder, UseNntp, Inv, Types, Queued
<1>2. encoder' = encoder \/ (encoder' = [Idle EXCEPT !.task = t, !.todo = task[t].needed])
  BY DEF Serve, WakeUp, UseEncoder, UseNntp
<1>3. /\ encoder'.failed => encoder'.errors
      /\ \A u \in TASK : u # t /\ encoder'.task = u => encoder' = encoder
      /\ encoder' = encoder \/ ~encoder'.ended
  BY <1>2 DEF NzbSound, Entries, Idle
<1>4. PICK x \in TaskRecord :
        /\ task' = [task EXCEPT ![t] = x] /\ x.work \notin {"NONE", "GONE"}
        /\ x.ran = task[t].ran /\ x.needed = task[t].needed
        /\ x.upload_list = task[t].upload_list
  <2>1. CASE WakeUp(t)
    <3> DEFINE x == UpdateWork(t, task[t], FALSE)
    <3>1. task' = [task EXCEPT ![t] = x]
      BY <2>1 DEF WakeUp
    <3>2. /\ x \in TaskRecord /\ x = [task[t] EXCEPT !.work = x.work]
          /\ x.work \in {"NEED_ENCODER", "WORKING", "NEED_NNTP", "COMPLETED"}
      BY <1>1, Updated
    <3> HIDE DEF x
    <3>3. x.ran = task[t].ran /\ x.needed = task[t].needed /\ x.upload_list = task[t].upload_list
      BY <1>1, <3>2 DEF TaskRecord
    <3> QED BY <3>1, <3>2, <3>3
  <2>2. CASE UseEncoder(t)
    <3> DEFINE x == [task[t] EXCEPT !.work = "WORKING"]
    <3>1. task' = [task EXCEPT ![t] = x]
      BY <2>2 DEF UseEncoder, Inv, Types
    <3>2. x \in TaskRecord /\ x.work = "WORKING" /\ x.ran = task[t].ran
          /\ x.needed = task[t].needed /\ x.upload_list = task[t].upload_list
      BY <1>1 DEF TaskRecord, Works
    <3> HIDE DEF x
    <3> QED BY <3>1, <3>2
  <2>3. CASE UseNntp(t)
    <3>1. PICK p \in task[t].needed :
            task' = [task EXCEPT ![t] = UpdateWork(t,
              [task[t] EXCEPT !.nntp = p,
                 !.sent = IF t \in MASTER THEN Content(t, 1) ELSE cache.disk[Key(t, p)]],
              FALSE)]
      BY <2>3 DEF UseNntp, Inv, Types
    <3> DEFINE d == IF t \in MASTER THEN Content(t, 1) ELSE cache.disk[Key(t, p)]
               y == [task[t] EXCEPT !.nntp = p, !.sent = d]
               x == UpdateWork(t, y, FALSE)
    <3>2. d \in Datum
      <4>1. CASE t \in MASTER
        BY <4>1 DEF Content, Datum
      <4>2. CASE t \notin MASTER
        <5>1. t \in FILE /\ Key(t, p) \in KEY
          BY <1>1, <4>2, KeysAreKeys DEF TASK, TaskSound, Account
        <5> QED BY <4>2, <5>1 DEF Inv, Types, CacheRecord
      <4> QED BY <4>1, <4>2
    <3>3. p \in Nat
      BY <1>1 DEF TaskRecord
    <3>4. task' = [task EXCEPT ![t] = x]
      BY <3>1
    <3> HIDE DEF d
    <3>5. /\ y \in TaskRecord /\ y.ran = task[t].ran /\ y.needed = task[t].needed
          /\ y.upload_list = task[t].upload_list
      BY <1>1, <3>2, <3>3 DEF TaskRecord
    <3> HIDE DEF y
    <3>6. /\ x \in TaskRecord /\ x = [y EXCEPT !.work = x.work]
          /\ x.work \in {"NEED_ENCODER", "WORKING", "NEED_NNTP", "COMPLETED"}
      BY <3>5, Updated
    <3> HIDE DEF x
    <3>7. x.ran = task[t].ran /\ x.needed = task[t].needed /\ x.upload_list = task[t].upload_list
      BY <3>5, <3>6 DEF TaskRecord
    <3> QED BY <3>4, <3>6, <3>7
  <2> QED BY <2>1, <2>2, <2>3 DEF Serve
<1>5. task'[t] = x
  BY <1>4 DEF Inv, Types
<1>6. t \in FILE => Listed(t)'
  BY <1>1, <1>3, <1>4, <1>5 DEF NzbSound, Listed, Queued
<1> QED BY <1>1, <1>3, <1>4, <1>6, SilentNzb

\* Only a file that was encoded without an error has parts that are sent.
LEMMA NntpDoneNzb ==
  ASSUME Inv, NzbSound, NEW t \in TASK, NEW answer \in ANSWERS, NntpDone(t, answer)
  PROVE  NzbSound'
<1> DEFINE p == task[t].nntp
           freed == [task[t] EXCEPT !.nntp = 0, !.sent = None]
           dropped == [freed EXCEPT !.needed = @ \ {p}]
           result == CASE t \in MASTER           -> dropped
                       [] t \in FILE /\ answer = "posted"  -> Posted(freed, p)
                       [] t \in FILE /\ answer = "refused" -> Refused(freed, p)
                       [] t \in FILE /\ answer = "lost"    -> Lost(freed, p)
                       [] OTHER                  -> dropped
           article == [part |-> p, content |-> task[t].sent]
<1>1. /\ p # 0 /\ UNCHANGED encoder
      /\ (server' = [server EXCEPT ![t] = @ \cup {article}] \/ UNCHANGED server)
      /\ history' = [history EXCEPT !.refused[t] =
                       IF answer = "refused" THEN @ \cup {p} ELSE @]
      /\ CheckIn(t, UpdateWork(t, result, FALSE))
  BY Zenon DEF NntpDone
<1>2. /\ task[t] \in TaskRecord /\ TaskSound(t) /\ Queued(t) /\ encoder.task # t
      /\ t \in FILE => task[t].ran /\ task[t].upload_list > 0
  <2>1. task[t] \in TaskRecord /\ TaskSound(t)
    BY DEF Inv, Types
  <2>2. t \in FILE => task[t].ran /\ p \in task[t].needed
    BY <1>1, <2>1 DEF TaskSound, Transfer
  <2>3. t \in FILE => task[t].upload_list > 0
    BY <2>2 DEF NzbSound, Listed
  <2>4. task[t].work = "WORKING" /\ Queued(t)
    BY <1>1, <2>1 DEF TaskSound, Transfer, Queued
  <2>5. encoder.task # t
    <3>1. encoder.task \in FILE \cup {None} /\ t # None
      BY DEF Inv, Types, EncoderRecord
    <3> QED BY <2>1, <2>2, <3>1 DEF TaskSound, Coding
  <2> QED BY <2>1, <2>2, <2>3, <2>4, <2>5
<1>3. /\ \A u \in TASK : u # t => server'[u] = server[u]
      /\ history'.removed = history.removed
  BY <1>1 DEF Inv, Types
<1> DEFINE fits(r) == /\ r \in TaskRecord /\ r.nntp = 0 /\ r.wanted = task[t].wanted
                      /\ r.removing = task[t].removing /\ r.ran = task[t].ran
                      /\ r.upload_list = task[t].upload_list
<1>4. fits(freed)
  BY <1>2 DEF TaskRecord
<1> HIDE DEF freed, article
<1>5. fits(dropped) /\ fits(Posted(freed, p)) /\ fits(Refused(freed, p)) /\ fits(Lost(freed, p))
  BY <1>4 DEF TaskRecord, Posted, Refused, Lost
<1>6. result \in {dropped, Posted(freed, p), Refused(freed, p), Lost(freed, p)}
  BY Zenon
<1>7. fits(result)
  <2> HIDE DEF fits, result, dropped
  <2> QED BY <1>5, <1>6
<1>8. PICK r \in TaskRecord : fits(r) /\ CheckIn(t, UpdateWork(t, r, FALSE))
  <2> HIDE DEF result
  <2> QED BY <1>1, <1>7
<1> HIDE DEF result, p
<1>9. /\ encoder'.failed => encoder'.errors
      /\ \A u \in TASK : encoder'.task = u => encoder' = encoder
      /\ encoder'.task # t
  BY <1>1, <1>2 DEF NzbSound, Entries
<1> QED BY <1>2, <1>3, <1>8, <1>9, CheckInNzb

\* A file that was encoded without an error is in the list of its uploads.
LEMMA EncoderDoneNzb ==
  ASSUME Inv, NzbSound, EncoderDone
  PROVE  NzbSound'
<1>0. PICK t \in FILE : t = encoder.task
  BY DEF EncoderDone, Inv, Types, EncoderRecord
<1> DEFINE r == Encoded(task[t])
<1>1. /\ t # None /\ encoder.ended /\ encoder' = Idle /\ UNCHANGED server
      /\ history' = [history EXCEPT !.unencoded =
                       IF encoder.errors /\ ~encoder.cancelled THEN @ \cup {t} ELSE @]
      /\ CheckIn(t, UpdateWork(t, r, FALSE))
  BY <1>0, Zenon DEF EncoderDone
<1>2. /\ t \in TASK /\ task[t] \in TaskRecord /\ TaskSound(t) /\ Queued(t)
      /\ ~task[t].ran /\ task[t].nntp = 0
  BY <1>0 DEF Inv, Types, TASK, TaskSound, Transfer, Coding, Queued
<1>3. server[t] = {} /\ (~encoder.errors => task[t].upload_list > 0)
  <2>1. Listed(t) /\ task[t].work \notin {"NONE", "GONE"}
    BY <1>2 DEF NzbSound, Queued
  <2> QED BY <1>0, <1>1, <1>2, <2>1 DEF Listed
<1>4. history'.removed = history.removed
  BY <1>1 DEF Inv, Types
<1>5. /\ encoder'.failed => encoder'.errors
      /\ encoder'.task = None
  BY <1>1 DEF Idle
<1>6. /\ r \in TaskRecord /\ r.nntp = 0 /\ r.wanted = task[t].wanted
      /\ r.removing = task[t].removing /\ r.upload_list = task[t].upload_list
      /\ r.ran /\ r.needed # {} => ~encoder.errors
  <2>1. CASE encoder.cancelled
    <3>1. r = task[t]
      BY <2>1 DEF Encoded
    <3> HIDE DEF r
    <3> QED BY <1>2, <3>1
  <2>2. CASE ~encoder.cancelled
    <3>1. r = [task[t] EXCEPT !.ran = TRUE,
                              !.needed = IF encoder.errors THEN {} ELSE @]
      BY <2>2 DEF Encoded
    <3> HIDE DEF r
    <3> QED BY <1>2, <3>1 DEF TaskRecord
  <2> QED BY <2>1, <2>2
<1> HIDE DEF r
<1>7. /\ \A u \in TASK : encoder'.task = u => encoder' = encoder
      /\ encoder'.task # t
      /\ \A u \in TASK : u # t => server'[u] = server[u]
  BY <1>1, <1>2, <1>5
<1>8. /\ ~r.ran => server'[t] = {}
      /\ r.ran /\ r.needed # {} => r.upload_list > 0
      /\ server'[t] # {} => r.upload_list > 0
  BY <1>1, <1>3, <1>6
<1> QED BY <1>1, <1>2, <1>4, <1>5, <1>6, <1>7, <1>8, CheckInNzb

\* The encoder's last deed lists what it has made.
LEMMA EncoderStepNzb ==
  ASSUME Inv, NzbSound, EncoderOpens \/ EncoderWrites \/ EncoderEnds
  PROVE  NzbSound'
<1>0. PICK t \in FILE : t = encoder.task
  BY DEF EncoderOpens, EncoderWrites, EncoderEnds, Encoding, Inv, Types, EncoderRecord
<1>1. /\ t \in TASK /\ task[t] \in TaskRecord /\ TaskSound(t) /\ encoder \in EncoderRecord
      /\ task[t].work = "WORKING" /\ ~task[t].ran /\ ~encoder.ended
      /\ UNCHANGED <<ui, server, history>>
      /\ server[t] = {}
  <2>1. UNCHANGED <<ui, server, history>> /\ ~encoder.ended
    BY Zenon DEF EncoderOpens, EncoderWrites, EncoderEnds, Encoding
  <2>2. task[t].work = "WORKING" /\ ~task[t].ran
    BY <1>0 DEF Inv, TASK, TaskSound, Coding
  <2>3. server[t] = {}
    BY <2>2 DEF NzbSound, Listed, Queued
  <2> QED BY <1>0, <2>1, <2>2, <2>3 DEF Inv, Types, TASK
<1>2. CASE EncoderOpens \/ EncoderWrites
  <2>1. task' = [task EXCEPT ![t] = task[t]]
    BY <1>2 DEF EncoderOpens, EncoderWrites, Inv, Types
  <2>2. /\ encoder'.failed => encoder'.errors
        /\ encoder'.task = t /\ ~encoder'.ended
    <3>1. encoder.failed => encoder.errors
      BY DEF NzbSound, Entries
    <3>2. CASE EncoderOpens
      <4>1. PICK p \in encoder.todo :
              \/ encoder' = [encoder EXCEPT !.todo = @ \ {p}, !.writing = p]
              \/ encoder' = [encoder EXCEPT !.todo = @ \ {p}, !.cnt = @ + 1, !.errors = TRUE]
        BY <3>2, Zenon DEF EncoderOpens
      <4> QED BY <1>0, <1>1, <3>1, <4>1 DEF EncoderRecord
    <3>3. CASE EncoderWrites
      <4> DEFINE next == encoder.cnt + 1
      <4>1. \/ encoder' = [encoder EXCEPT !.writing = 0, !.cnt = next, !.todo = {}]
            \/ encoder' = [encoder EXCEPT !.writing = 0, !.cnt = next]
            \/ encoder' = [encoder EXCEPT !.writing = 0, !.cnt = next, !.todo = {},
                                          !.failed = TRUE, !.errors = TRUE]
        BY <3>3, Zenon DEF EncoderWrites
      <4> HIDE DEF next
      <4> QED BY <1>0, <1>1, <3>1, <4>1 DEF EncoderRecord
    <3> QED BY <1>2, <3>2, <3>3
  <2>3. task'[t] = task[t]
    BY <1>1, <2>1 DEF Inv, Types
  <2>4. Listed(t)'
    BY <1>1, <2>2, <2>3 DEF Listed, Queued
  <2> QED BY <1>1, <2>1, <2>2, <2>4, SilentNzb
<1>3. CASE EncoderEnds
  <2>1. PICK n \in Nat : /\ n = IF encoder.failed THEN task[t].upload_list
                                ELSE task[t].upload_list + 1
                         /\ task' = [task EXCEPT ![t].upload_list = n]
    <3> DEFINE n == IF encoder.failed THEN task[t].upload_list
                    ELSE task[t].upload_list + 1
    <3>1. n \in Nat
      BY <1>1 DEF TaskRecord
    <3>2. task' = [task EXCEPT ![t].upload_list = n]
      BY <1>0, <1>3 DEF EncoderEnds, Inv, Types
    <3> HIDE DEF n
    <3>3. n = IF encoder.failed THEN task[t].upload_list ELSE task[t].upload_list + 1
      BY DEF n
    <3> QED BY <3>1, <3>2, <3>3
  <2> DEFINE x == [task[t] EXCEPT !.upload_list = n]
  <2>2. task' = [task EXCEPT ![t] = x] /\ task'[t] = x
    BY <1>1, <2>1 DEF Inv, Types
  <2>3. /\ x \in TaskRecord /\ x.work = "WORKING" /\ ~x.ran /\ x.upload_list = n
    BY <1>1 DEF TaskRecord
  <2> HIDE DEF x
  <2>4. /\ encoder'.failed = encoder.failed /\ encoder'.errors = encoder.errors
        /\ encoder'.task = t
    BY <1>0, <1>1, <1>3 DEF EncoderEnds, EncoderRecord
  <2>5. encoder.failed => encoder.errors
    BY DEF NzbSound, Entries
  <2>6. ~encoder'.errors => n > 0
    BY <1>1, <2>1, <2>4, <2>5 DEF TaskRecord
  <2>7. Listed(t)'
    BY <1>1, <2>2, <2>3, <2>6 DEF Listed, Queued
  <2> QED BY <1>1, <2>2, <2>3, <2>4, <2>5, <2>7, SilentNzb
<1> QED BY <1>2, <1>3

\* The user stops, lets go on or removes a task.
LEMMA UserNzb ==
  ASSUME Inv, NzbSound, NEW t \in TASK, StopTask(t) \/ RestartTask(t) \/ RemoveTask(t)
  PROVE  NzbSound'
<1>1. /\ Queued(t) /\ task[t] \in TaskRecord /\ UNCHANGED <<ui, server>>
      /\ encoder \in EncoderRecord
  BY DEF StopTask, RestartTask, RemoveTask, Inv, Types
<1>2. \/ history' = history
      \/ history' = [history EXCEPT !.stops = @ + 1]
      \/ history' = [history EXCEPT !.removed = @ \cup {t}]
  BY DEF StopTask, RestartTask, RemoveTask
<1>3. history.removed \subseteq history'.removed
  BY <1>2 DEF Inv, Types
<1>4. \/ encoder' = encoder
      \/ encoder' = [encoder EXCEPT !.cancelled = TRUE] /\ encoder.task = t
  BY DEF StopTask, RestartTask, RemoveTask, Cancel
<1>5. /\ encoder'.failed = encoder.failed /\ encoder'.errors = encoder.errors
      /\ encoder'.ended = encoder.ended /\ encoder'.task = encoder.task
      /\ \A u \in TASK : u # t /\ encoder'.task = u => encoder' = encoder
  BY <1>1, <1>4 DEF EncoderRecord
<1>6. encoder'.failed => encoder'.errors
  BY <1>5 DEF NzbSound, Entries
<1>7. CASE \E b \in BOOLEAN : \/ task' = [task EXCEPT ![t].stopped = b]
                              \/ task' = [task EXCEPT ![t].removing = b]
  <2>1. PICK x \in TaskRecord :
          /\ task' = [task EXCEPT ![t] = x] /\ x.work = task[t].work
          /\ x.ran = task[t].ran /\ x.needed = task[t].needed
          /\ x.upload_list = task[t].upload_list
    <3>1. PICK b \in BOOLEAN : \/ task' = [task EXCEPT ![t].stopped = b]
                               \/ task' = [task EXCEPT ![t].removing = b]
      BY <1>7
    <3> DEFINE y == [task[t] EXCEPT !.stopped = b]
               z == [task[t] EXCEPT !.removing = b]
    <3>2. task' = [task EXCEPT ![t] = y] \/ task' = [task EXCEPT ![t] = z]
      BY <3>1 DEF Inv, Types
    <3>3. /\ y \in TaskRecord /\ y.work = task[t].work /\ y.ran = task[t].ran
          /\ y.needed = task[t].needed /\ y.upload_list = task[t].upload_list
      BY <1>1 DEF TaskRecord
    <3>4. /\ z \in TaskRecord /\ z.work = task[t].work /\ z.ran = task[t].ran
          /\ z.needed = task[t].needed /\ z.upload_list = task[t].upload_list
      BY <1>1 DEF TaskRecord
    <3> HIDE DEF y, z
    <3> QED BY <3>2, <3>3, <3>4
  <2>2. task'[t] = x
    BY <2>1 DEF Inv, Types
  <2>3. t \in FILE => Listed(t)'
    BY <1>1, <1>3, <1>5, <2>1, <2>2 DEF NzbSound, Listed, Queued
  <2> QED BY <1>1, <1>3, <1>5, <1>6, <2>1, <2>3, SilentNzb
<1>8. CASE RemoveTask(t) /\ ~(encoder.task = t \/ task[t].nntp # 0)
  <2> DEFINE x == Gone(task[t])
  <2>1. Delete(t, task[t]) /\ encoder' = encoder
    BY <1>8 DEF RemoveTask
  <2>2. /\ task' = [task EXCEPT ![t] = x] /\ x \in TaskRecord /\ task'[t] = x
        /\ x.work = "GONE" /\ ~x.ran
    BY <1>1, <2>1 DEF Delete, Gone, NewTask, Inv, Types, TaskRecord, Works
  <2>3. t \in history'.removed /\ encoder'.task # t
    BY <1>8, <2>1 DEF RemoveTask, Inv, Types
  <2> HIDE DEF x
  <2>4. t \in FILE => Listed(t)'
    BY <2>2, <2>3 DEF Listed, Queued
  <2> QED BY <1>1, <1>3, <1>5, <1>6, <2>2, <2>4, SilentNzb
<1>9. ~(RemoveTask(t) /\ ~(encoder.task = t \/ task[t].nntp # 0)) =>
        \E b \in BOOLEAN : \/ task' = [task EXCEPT ![t].stopped = b]
                           \/ task' = [task EXCEPT ![t].removing = b]
  BY DEF StopTask, RestartTask, RemoveTask
<1> QED BY <1>7, <1>8, <1>9

LEMMA NzbNext == Inv /\ NzbSound /\ [Next]_vars => NzbSound'
<1> SUFFICES ASSUME Inv, NzbSound, [Next]_vars PROVE NzbSound'
  OBVIOUS
<1>1. CASE UNCHANGED vars \/ ClearCache
  BY <1>1 DEF vars, ClearCache, NzbSound, Entries, Listed, Queued
<1>2. CASE Post
  BY <1>2, PostNzb
<1>3. CASE EncoderWorks
  BY <1>3, EncoderStepNzb, EncoderDoneNzb DEF EncoderWorks
<1>4. ASSUME NEW t \in TASK,
             \/ Serve(t)
             \/ \E answer \in ANSWERS : NntpDone(t, answer)
             \/ StopTask(t) \/ RestartTask(t) \/ RemoveTask(t)
      PROVE  NzbSound'
  BY <1>4, ServeNzb, NntpDoneNzb, UserNzb
<1> QED BY <1>1, <1>2, <1>3, <1>4 DEF Next

\* A finished NZB names every file of which a part was posted, whatever errors,
\* refusals, lost connections and cancellations it took (on_progress_finished).
THEOREM NzbIsComplete == Spec => []NzbComplete
<1>1. Inv /\ NzbSound => NzbComplete
  <2> SUFFICES ASSUME Inv, NzbSound, "footer" \in ToSet(ui.nzb) PROVE NzbComplete
    BY DEF NzbComplete
  <2>1. /\ ui.window = "closed" /\ Last(ui.nzb) = "footer"
        /\ ui.nzb # <<>> /\ ui.saving
    <3>1. ToSet(<<>>) = {}
      BY DEF ToSet
    <3> QED BY <3>1 DEF NzbSound, Entries
  <2>2. ASSUME NEW f \in FILE \ history.removed, server[f] # {}
        PROVE  f \in ToSet(ui.nzb)
    <3>1. ~Queued(f)
      BY <2>1 DEF Inv, Reports, InQueue, TASK
    <3>2. task[f].work # "NONE"
      <4>1. Listed(f)
        BY DEF NzbSound
      <4> QED BY <2>2, <3>1, <4>1 DEF Listed
    <3> QED BY <2>1, <2>2, <3>1, <3>2 DEF NzbSound, Listed, Queued
  <2> QED BY <2>1, <2>2 DEF NzbComplete
<1> QED BY <1>1, InvInit, InvNext, NzbInit, NzbNext, PTL DEF Spec

----------------------------------------------------------------------------
(* What is sent of the parts: for batches of files that all have names of  *)
(* their own and are uploaded whole, for which alone it is true.           *)

\* No two files of the batch share their keys in the cache.
DistinctNames == \A f, g \in FILE : Basename[f] = Basename[g] => f = g

\* The user has selected all parts of each file.
AllParts == \A f \in FILE : SELECTED[f] = {Parts(f)}

Present(f, p) == cache.disk[Key(f, p)] = Content(f, p)

\* The cache keeps what a file in the queue has put there, and what of it is
\* encoded is whole.
Stored(f) ==
  /\ Queued(f) => task[f].wanted = Parts(f)
  /\ task[f].ran => Queued(f)
  /\ \A p \in Parts(f) :
       /\ cache.locks[Key(f, p)] = IF Queued(f) THEN 1 ELSE 0
       /\ Queued(f) => Key(f, p) \in cache.info
       /\ task[f].ran /\ p \in task[f].needed => Present(f, p)

\* Without errors the encoder is at the part it counts, and those before it
\* are there.
Progress(f) ==
  encoder.task = f /\ ~encoder.errors =>
    /\ \A p \in Parts(f) : p < encoder.cnt => Present(f, p)
    /\ \A p \in Parts(f) : p \in encoder.todo <=>
         IF encoder.writing = 0 THEN p >= encoder.cnt ELSE p > encoder.cnt
    /\ encoder.writing \in {0, encoder.cnt} /\ encoder.cnt # 0

\* A job that has ended leaves nothing to do.
Ended == /\ encoder.ended => encoder.writing = 0 /\ encoder.todo = {}
         /\ encoder.failed => encoder.errors

\* A transfer, and what the server has, is the part that it says.
Honest(t) ==
  /\ t \in MASTER => task[t].needed \subseteq {1}
  /\ task[t].nntp # 0 => task[t].sent = Content(t, task[t].nntp)
  /\ \A a \in server[t] : a.content = Content(t, a.part)

FileSound(f) == Stored(f) /\ Progress(f)

Whole == Ended /\ (\A f \in FILE : FileSound(f)) /\ (\A t \in TASK : Honest(t))

USE UploadsAssumption

----------------------------------------------------------------------------

\* A key is one part of one file.
LEMMA KeysDiffer ==
  ASSUME DistinctNames, NEW f \in FILE, NEW g \in FILE, NEW p, NEW q,
         Key(f, p) = Key(g, q)
  PROVE  f = g /\ p = q
BY DEF DistinctNames, Key

\* Nothing is stored, encoded or sent at first.
LEMMA WholeInit == Init => Whole
<1> SUFFICES ASSUME Init PROVE Whole
  OBVIOUS
<1>1. \A f \in FILE : ~Queued(f) /\ ~task[f].ran /\ encoder.task # f
  <2> SUFFICES ASSUME NEW f \in FILE PROVE ~Queued(f) /\ ~task[f].ran /\ encoder.task # f
    OBVIOUS
  <2>1. task[f] = NewTask /\ encoder.task = None /\ f \in TASK
    BY DEF Init, Idle, TASK
  <2> QED BY <2>1 DEF Queued, NewTask
<1>2. \A f \in FILE : \A p \in Parts(f) : cache.locks[Key(f, p)] = 0
  BY KeysAreKeys DEF Init, C!Empty
<1>3. Ended
  BY DEF Init, Idle, Ended
<1>4. \A t \in TASK : Honest(t)
  BY DEF Init, NewTask, Honest
<1> QED BY <1>1, <1>2, <1>3, <1>4 DEF Whole, FileSound, Stored, Progress

\* What the cache keeps of a file for another file's step.
Kept(f) ==
  \A p \in Parts(f) :
    /\ cache'.locks[Key(f, p)] = cache.locks[Key(f, p)]
    /\ Queued(f) /\ Key(f, p) \in cache.info =>
         /\ Key(f, p) \in cache'.info
         /\ cache'.disk[Key(f, p)] = cache.disk[Key(f, p)]

\* A step that leaves a file's task and its files alone, and the encoder while
\* it has it.
LEMMA OtherFile ==
  ASSUME Inv, NEW f \in FILE, FileSound(f), task'[f] = task[f], Kept(f),
         encoder'.task = f => encoder' = encoder
  PROVE  FileSound(f)'
<1>1. Queued(f)' <=> Queued(f)
  BY DEF Queued
<1>2. Queued(f) => \A p \in Parts(f) : Present(f, p)' <=> Present(f, p)
  BY DEF Kept, Present, FileSound, Stored
<1>3. Stored(f)'
  BY <1>1, <1>2 DEF FileSound, Stored, Kept
<1>4. Progress(f)'
  <2> SUFFICES ASSUME encoder'.task = f, ~encoder'.errors PROVE Progress(f)'
    BY DEF Progress
  <2>1. encoder' = encoder
    OBVIOUS
  <2>2. Queued(f)
    BY <2>1 DEF Inv, TaskSound, Coding, Queued, TASK
  <2> QED BY <1>2, <2>1, <2>2 DEF FileSound, Progress
<1> QED BY <1>3, <1>4 DEF FileSound

\* Dropping unlocked files leaves the files in the queue alone.
LEMMA DroppedKeeps ==
  ASSUME NEW c \in CacheRecord, NEW old \in SUBSET C!Unlocked(c), NEW k \in KEY,
         c.locks[k] # 0
  PROVE  LET d == C!Dropped(c, old)
         IN  /\ d.locks = c.locks /\ d.disk[k] = c.disk[k]
             /\ k \in c.info => k \in d.info
BY DEF C!Dropped, C!Unlocked, CacheRecord

\* A task that is deleted gives up its own files, and no others.
LEMMA DeleteKeeps ==
  ASSUME DistinctNames, Inv, Whole, NEW t \in TASK, Queued(t),
         NEW x \in TaskRecord, x.wanted = task[t].wanted, Delete(t, x)
  PROVE  /\ \A f \in FILE : f # t => Kept(f)
         /\ t \in FILE => \A p \in Parts(t) : cache'.locks[Key(t, p)] = 0
<1>1. CASE t \in MASTER
  <2>1. cache' = cache /\ t \notin FILE
    BY <1>1 DEF Delete
  <2> QED BY <2>1 DEF Kept
<1>2. CASE t \in FILE
  <2> DEFINE mine == Keys(t, Parts(t))
             c == C!Release(cache, mine)
  <2>1. cache \in CacheRecord /\ mine \subseteq KEY /\ x.wanted = Parts(t)
    BY <1>2, KeysAreKeys DEF Inv, Types, Whole, FileSound, Stored
  <2>2. c \in CacheRecord
    BY <2>1, CacheTyped
  <2>3. /\ c.info = cache.info /\ c.disk = cache.disk
        /\ \A k \in KEY : c.locks[k] = IF k \in mine THEN cache.locks[k] - 1
                                       ELSE cache.locks[k]
    BY <2>1 DEF C!Release, CacheRecord
  <2>4. PICK old \in SUBSET C!Unlocked(c) : cache' = C!Dropped(c, old)
    <3>1. cache' \in C!Resized(c) /\ t \notin MASTER
      BY <1>2, <2>1 DEF Delete
    <3> HIDE DEF c
    <3> QED BY <3>1 DEF C!Resized
  <2>5. cache'.locks = c.locks
    BY <2>4 DEF C!Dropped
  <2>6. ASSUME NEW p \in Parts(t) PROVE cache'.locks[Key(t, p)] = 0
    <3>1. Key(t, p) \in mine
      BY DEF Keys
    <3>2. cache.locks[Key(t, p)] = 1
      BY <1>2 DEF Whole, FileSound, Stored
    <3> HIDE DEF mine, c
    <3> QED BY <2>1, <2>3, <2>5, <3>1, <3>2
  <2>7. ASSUME NEW f \in FILE, f # t PROVE Kept(f)
    <3> SUFFICES ASSUME NEW p \in Parts(f)
                 PROVE  /\ cache'.locks[Key(f, p)] = cache.locks[Key(f, p)]
                        /\ Queued(f) /\ Key(f, p) \in cache.info =>
                             /\ Key(f, p) \in cache'.info
                             /\ cache'.disk[Key(f, p)] = cache.disk[Key(f, p)]
      BY DEF Kept
    <3>1. Key(f, p) \in KEY /\ Key(f, p) \notin mine
      BY <1>2, <2>7, KeysAreKeys, KeysDiffer DEF Keys
    <3>2. Queued(f) => cache.locks[Key(f, p)] = 1
      BY DEF Whole, FileSound, Stored
    <3> HIDE DEF mine, c
    <3>3. c.locks[Key(f, p)] = cache.locks[Key(f, p)]
      BY <2>3, <3>1
    <3>4. c.locks[Key(f, p)] # 0 =>
            /\ cache'.disk[Key(f, p)] = c.disk[Key(f, p)]
            /\ Key(f, p) \in c.info => Key(f, p) \in cache'.info
      BY <2>2, <2>4, <3>1, DroppedKeeps
    <3> QED BY <2>3, <2>5, <3>2, <3>3, <3>4
  <2> QED BY <1>2, <2>6, <2>7
<1> QED BY <1>1, <1>2 DEF TASK

\* The end of a callback that keeps the task's parts whole.
LEMMA CheckInWhole ==
  ASSUME DistinctNames, Inv, Whole, NEW t \in TASK, Queued(t), NEW r \in TaskRecord,
         CheckIn(t, UpdateWork(t, r, FALSE)),
         r.nntp = 0, r.wanted = task[t].wanted,
         t \in MASTER => r.needed \subseteq {1},
         t \in FILE /\ r.ran => \A p \in Parts(t) : p \in r.needed => Present(t, p),
         encoder'.task # t, Ended',
         \A u \in TASK : encoder'.task = u => encoder' = encoder,
         \A u \in TASK : u # t => server'[u] = server[u],
         \A a \in server'[t] : a.content = Content(t, a.part)
  PROVE  Whole'
<1> DEFINE x == UpdateWork(t, r, FALSE)
<1>1. /\ x \in TaskRecord /\ x = [r EXCEPT !.work = x.work]
      /\ x.work \in {"NEED_ENCODER", "WORKING", "NEED_NNTP", "COMPLETED"}
  BY Updated
<1> HIDE DEF x
<1>2. /\ x.nntp = 0 /\ x.needed = r.needed /\ x.wanted = task[t].wanted
      /\ x.ran = r.ran
  BY <1>1 DEF TaskRecord
<1>3. task' = [task EXCEPT ![t] = Left(x)]
  BY DEF CheckIn, Delete, Left, Gone, x
<1>4. task'[t] = Left(x) /\ \A u \in TASK : u # t => task'[u] = task[u]
  BY <1>3 DEF Inv, Types
<1>5. \/ /\ x.work = "COMPLETED" \/ x.removing
         /\ Delete(t, x)
      \/ /\ ~(x.work = "COMPLETED" \/ x.removing)
         /\ cache' = cache
  BY DEF CheckIn, x
<1>6. /\ \A f \in FILE : f # t => Kept(f)
      /\ t \in FILE /\ (x.work = "COMPLETED" \/ x.removing) =>
           \A p \in Parts(t) : cache'.locks[Key(t, p)] = 0
  BY <1>1, <1>2, <1>5, DeleteKeeps DEF Kept
<1>7. ASSUME NEW u \in TASK PROVE Honest(u)'
  <2>1. CASE u # t
    BY <1>4, <2>1 DEF Whole, Honest
  <2>2. CASE u = t
    <3>1. \/ task'[t] = Gone(x)
          \/ task'[t] = x
      BY <1>4 DEF Left
    <3>2. Gone(x).nntp = 0 /\ Gone(x).needed = {}
      BY DEF Gone, NewTask
    <3> QED BY <1>2, <2>2, <3>1, <3>2 DEF Honest
  <2> QED BY <2>1, <2>2
<1>8. ASSUME NEW f \in FILE PROVE FileSound(f)'
  <2>0. f \in TASK /\ FileSound(f)
    BY DEF TASK, Whole
  <2>1. CASE f # t
    BY <1>4, <1>6, <2>0, <2>1, OtherFile
  <2>2. CASE f = t
    <3>1. Progress(f)'
      BY <2>2 DEF Progress
    <3>2. CASE x.work = "COMPLETED" \/ x.removing
      <4>1. ~Queued(f)' /\ ~task'[f].ran
        <5>1. task'[f] = Gone(x)
          BY <1>4, <2>2, <3>2 DEF Left
        <5>2. Gone(x).work = "GONE" /\ ~Gone(x).ran
          BY DEF Gone, NewTask
        <5> QED BY <5>1, <5>2 DEF Queued
      <4> QED BY <1>6, <2>2, <3>1, <3>2, <4>1 DEF FileSound, Stored
    <3>3. CASE ~(x.work = "COMPLETED" \/ x.removing)
      <4>1. task'[f] = x /\ cache' = cache /\ Queued(f)'
        BY <1>1, <1>4, <1>5, <2>2, <3>3 DEF Left, Queued
      <4> QED BY <1>2, <2>0, <2>2, <3>1, <4>1 DEF FileSound, Stored, Present
    <3> QED BY <3>2, <3>3
  <2> QED BY <2>1, <2>2
<1> QED BY <1>7, <1>8 DEF Whole

\* A step of one task, or of the encoder that has it.
LEMMA OneFile ==
  ASSUME Inv, Whole, NEW t \in TASK, NEW x, task' = [task EXCEPT ![t] = x],
         \A f \in FILE : f # t => Kept(f),
         \A u \in TASK : u # t => server'[u] = server[u],
         \A u \in TASK : u # t /\ encoder'.task = u => encoder' = encoder,
         Ended', Honest(t)', t \in FILE => FileSound(t)'
  PROVE  Whole'
<1>1. \A u \in TASK : u # t => task'[u] = task[u]
  BY DEF Inv, Types
<1>2. ASSUME NEW u \in TASK PROVE Honest(u)'
  BY <1>1 DEF Whole, Honest
<1>3. ASSUME NEW f \in FILE PROVE FileSound(f)'
  BY <1>1, OtherFile DEF TASK, Whole
<1> QED BY <1>2, <1>3 DEF Whole

\* All files of the batch are reserved once.
LEMMA PostWhole ==
  ASSUME DistinctNames, AllParts, Inv, Whole, Post
  PROVE  Whole'
<1>1. PICK master \in SUBSET MASTER, wanted \in Selections :
        PostBatch(FILE \cup master, wanted)
  BY DEF Post
<1>2. \A f \in FILE : wanted[f] = Parts(f)
  BY DEF Selections, AllParts
<1> DEFINE parts == [t \in TASK |-> IF t \in FILE THEN wanted[t] ELSE {1}]
           new(t) == [NewTask EXCEPT !.work = "INITIAL", !.needed = parts[t],
                                     !.wanted = parts[t]]
<1>3. /\ \A t \in TASK : task'[t] = IF t \in FILE \cup master THEN new(t) ELSE task[t]
      /\ UNCHANGED <<encoder, server>> /\ cache' = BuildNeeded(cache, wanted)
      /\ ui.window = "open"
  BY <1>1 DEF PostBatch
<1>4. \A t \in TASK : Untouched(t) /\ encoder.task # t
  BY <1>3 DEF Inv, TaskSound, Coding, Untouched
<1>5. ASSUME NEW t \in TASK PROVE Honest(t)'
  <2>1. CASE t \in FILE \cup master
    <3>1. task'[t].nntp = 0 /\ task'[t].needed = parts[t]
      <4>1. task'[t] = new(t)
        BY <1>3, <2>1
      <4> HIDE DEF parts
      <4> QED BY <4>1 DEF NewTask
    <3>2. server'[t] = {}
      BY <1>3, <1>4 DEF Untouched
    <3>3. t \in MASTER => parts[t] = {1}
      OBVIOUS
    <3> QED BY <3>1, <3>2, <3>3 DEF Honest
  <2>2. CASE t \notin FILE \cup master
    BY <1>3, <2>2 DEF Whole, Honest
  <2> QED BY <2>1, <2>2
<1>6. ASSUME NEW f \in FILE PROVE FileSound(f)'
  <2>1. f \in TASK /\ ~Queued(f) /\ encoder'.task # f /\ FileSound(f)
    BY <1>3, <1>4 DEF Untouched, Queued, TASK, Whole
  <2>2. /\ task'[f].work = "INITIAL" /\ ~task'[f].ran /\ task'[f].wanted = Parts(f)
    <3>1. task'[f] = new(f) /\ parts[f] = Parts(f)
      BY <1>2, <1>3, <2>1
    <3> HIDE DEF parts
    <3> QED BY <3>1 DEF NewTask
  <2>3. ASSUME NEW p \in Parts(f)
        PROVE  cache'.locks[Key(f, p)] = 1 /\ Key(f, p) \in cache'.info
    <3> DEFINE k == Key(f, p)
               all == UNION {Keys(g, wanted[g]) : g \in FILE}
    <3>1. cache.locks[k] = 0 /\ k \in KEY /\ cache \in CacheRecord
      BY <2>1, KeysAreKeys DEF FileSound, Stored, Inv, Types
    <3>2. k \in all
      BY <1>2 DEF Keys
    <3>3. {g \in FILE : k \in Keys(g, wanted[g])} = {f}
      <4>1. k \in Keys(f, wanted[f])
        BY <1>2 DEF Keys
      <4>2. ASSUME NEW g \in FILE, k \in Keys(g, wanted[g]) PROVE g = f
        <5>1. PICK q : k = Key(g, q)
          BY <4>2 DEF Keys
        <5> QED BY <5>1, KeysDiffer
      <4> HIDE DEF k
      <4> QED BY <4>1, <4>2
    <3>4. Takers(wanted)[k] = 1
      BY <3>1, <3>3, FS_Singleton DEF Takers
    <3>5. cache' = C!Reserve(C!Add(cache, all), Takers(wanted))
      BY <1>3 DEF BuildNeeded
    <3> HIDE DEF k, all
    <3>6. cache'.info = cache.info \cup all /\ cache'.locks[k] = cache.locks[k] + Takers(wanted)[k]
      BY <3>1, <3>5 DEF C!Reserve, C!Add, CacheRecord
    <3> QED BY <3>1, <3>2, <3>4, <3>6 DEF k
  <2> QED BY <2>1, <2>2, <2>3 DEF FileSound, Stored, Progress, Queued
<1> QED BY <1>3, <1>5, <1>6 DEF Whole, Ended

\* Serving a task.
LEMMA ServeWhole ==
  ASSUME Inv, Whole, NEW t \in TASK, Serve(t)
  PROVE  Whole'
<1>1. /\ UNCHANGED <<cache, server>> /\ Queued(t) /\ Honest(t) /\ TaskSound(t)
      /\ task[t] \in TaskRecord /\ encoder \in EncoderRecord /\ task[t].nntp = 0
      /\ t \in FILE => FileSound(t)
      /\ \A f \in FILE : Kept(f)
  BY DEF Serve, WakeUp, UseEncoder, UseNntp, Inv, Types, TaskSound, Transfer, Queued,
         Whole, Kept
<1>2. CASE WakeUp(t)
  <2> DEFINE x == UpdateWork(t, task[t], FALSE)
  <2>1. task' = [task EXCEPT ![t] = x] /\ task'[t] = x /\ UNCHANGED encoder
    BY <1>2 DEF WakeUp, Inv, Types
  <2>2. /\ x \in TaskRecord /\ x = [task[t] EXCEPT !.work = x.work]
        /\ x.work \in {"NEED_ENCODER", "WORKING", "NEED_NNTP", "COMPLETED"}
    BY <1>1, Updated
  <2> HIDE DEF x
  <2>3. /\ x.nntp = 0 /\ x.needed = task[t].needed /\ x.wanted = task[t].wanted
        /\ x.ran = task[t].ran
    BY <1>1, <2>2 DEF TaskRecord
  <2>4. Honest(t)'
    BY <1>1, <2>1, <2>3 DEF Honest
  <2>5. t \in FILE => FileSound(t)'
    BY <1>1, <2>1, <2>2, <2>3 DEF FileSound, Stored, Progress, Present, Queued
  <2> QED BY <1>1, <2>1, <2>4, <2>5, OneFile DEF Whole, Ended
<1>3. CASE UseEncoder(t)
  <2> DEFINE x == [task[t] EXCEPT !.work = "WORKING"]
  <2>1. /\ task' = [task EXCEPT ![t] = x] /\ task'[t] = x /\ x \in TaskRecord
        /\ x.nntp = 0 /\ x.needed = task[t].needed /\ x.wanted = task[t].wanted
        /\ x.ran = task[t].ran /\ x.work = "WORKING"
    BY <1>1, <1>3 DEF UseEncoder, Inv, Types, TaskRecord, Works
  <2>2. /\ t \in FILE /\ ~task[t].ran /\ task[t].needed = Parts(t)
    BY <1>1, <1>3 DEF UseEncoder, TaskSound, Coding, Account, FileSound, Stored
  <2>3. /\ encoder'.task = t /\ encoder'.todo = Parts(t) /\ encoder'.cnt = 1
        /\ encoder'.writing = 0 /\ ~encoder'.ended /\ ~encoder'.failed
    BY <1>3, <2>2 DEF UseEncoder, Idle
  <2> HIDE DEF x
  <2>4. Honest(t)'
    BY <1>1, <2>1 DEF Honest
  <2>5. FileSound(t)'
    BY <1>1, <2>1, <2>2, <2>3 DEF FileSound, Stored, Progress, Present, Queued, Parts
  <2> QED BY <1>1, <2>1, <2>3, <2>4, <2>5, OneFile DEF Ended
<1>4. CASE UseNntp(t)
  <2>1. PICK p \in task[t].needed :
          task' = [task EXCEPT ![t] = UpdateWork(t,
            [task[t] EXCEPT !.nntp = p,
               !.sent = IF t \in MASTER THEN Content(t, 1) ELSE cache.disk[Key(t, p)]],
            FALSE)]
    BY <1>4 DEF UseNntp, Inv, Types
  <2> DEFINE d == IF t \in MASTER THEN Content(t, 1) ELSE cache.disk[Key(t, p)]
             y == [task[t] EXCEPT !.nntp = p, !.sent = d]
             x == UpdateWork(t, y, FALSE)
  <2>2. d = Content(t, p)
    <3>1. CASE t \in MASTER
      BY <1>1, <3>1 DEF Honest
    <3>2. CASE t \notin MASTER
      <4>1. t \in FILE /\ task[t].ran /\ p \in Parts(t)
        BY <1>1, <1>4, <3>2 DEF UseNntp, TASK, TaskSound, Transfer, Account
      <4> QED BY <1>1, <3>2, <4>1 DEF FileSound, Stored, Present
    <3> QED BY <3>1, <3>2
  <2> HIDE DEF d
  <2>3. y \in TaskRecord
    BY <1>1, <2>2 DEF TaskRecord, Content, Datum
  <2>4. /\ task' = [task EXCEPT ![t] = x] /\ task'[t] = x /\ UNCHANGED encoder
    BY <1>4, <2>1 DEF UseNntp, d, Inv, Types
  <2>5. /\ x \in TaskRecord /\ x = [y EXCEPT !.work = x.work]
        /\ x.work \in {"NEED_ENCODER", "WORKING", "NEED_NNTP", "COMPLETED"}
    <3> HIDE DEF y
    <3> QED BY <2>3, Updated
  <2> HIDE DEF x
  <2>6. /\ x.nntp = p /\ x.needed = task[t].needed /\ x.wanted = task[t].wanted
        /\ x.ran = task[t].ran /\ x.sent = d
    BY <1>1, <2>3, <2>5 DEF TaskRecord
  <2>7. Honest(t)'
    BY <1>1, <2>2, <2>4, <2>6 DEF Honest
  <2>8. t \in FILE => FileSound(t)'
    BY <1>1, <2>4, <2>5, <2>6 DEF FileSound, Stored, Progress, Present, Queued
  <2> QED BY <1>1, <2>4, <2>7, <2>8, OneFile DEF Whole, Ended
<1> QED BY <1>2, <1>3, <1>4 DEF Serve

\* The server's answer.
LEMMA NntpDoneWhole ==
  ASSUME DistinctNames, Inv, Whole, NEW t \in TASK, NEW answer \in ANSWERS,
         NntpDone(t, answer)
  PROVE  Whole'
<1> DEFINE p == task[t].nntp
           freed == [task[t] EXCEPT !.nntp = 0, !.sent = None]
           dropped == [freed EXCEPT !.needed = @ \ {p}]
           result == CASE t \in MASTER           -> dropped
                       [] t \in FILE /\ answer = "posted"  -> Posted(freed, p)
                       [] t \in FILE /\ answer = "refused" -> Refused(freed, p)
                       [] t \in FILE /\ answer = "lost"    -> Lost(freed, p)
                       [] OTHER                  -> dropped
           article == [part |-> p, content |-> task[t].sent]
<1>1. /\ p # 0 /\ UNCHANGED encoder
      /\ CheckIn(t, UpdateWork(t, result, FALSE))
      /\ server' = [server EXCEPT ![t] = @ \cup {article}] \/ UNCHANGED server
  BY Zenon DEF NntpDone
<1>2. /\ task[t] \in TaskRecord /\ TaskSound(t) /\ encoder \in EncoderRecord
      /\ Honest(t)
      /\ t \in FILE => FileSound(t)
  BY DEF Inv, Types, Whole
<1>3. Queued(t) /\ encoder.task # t
  BY <1>1, <1>2 DEF TaskRecord, EncoderRecord, TaskSound, Transfer, Coding, Queued
<1>4. /\ freed \in TaskRecord /\ freed.nntp = 0
      /\ freed.needed = task[t].needed /\ freed.wanted = task[t].wanted
      /\ freed.ran = task[t].ran
  BY <1>2 DEF TaskRecord
<1> HIDE DEF freed
<1> DEFINE fits(r) == /\ r \in TaskRecord /\ r.nntp = 0 /\ r.wanted = task[t].wanted
                      /\ r.ran = task[t].ran /\ r.needed \subseteq task[t].needed
<1>5. fits(result)
  <2>1. fits(dropped)
    BY <1>4 DEF TaskRecord
  <2>2. fits(Posted(freed, p))
    BY <1>4 DEF Posted, TaskRecord
  <2>3. fits(Refused(freed, p))
    BY <1>4 DEF Refused, TaskRecord
  <2>4. fits(Lost(freed, p))
    BY <1>4 DEF Lost
  <2> HIDE DEF fits, dropped
  <2> QED BY <2>1, <2>2, <2>3, <2>4
<1>6. PICK r \in TaskRecord : fits(r) /\ CheckIn(t, UpdateWork(t, r, FALSE))
  <2> HIDE DEF result
  <2> QED BY <1>1, <1>5
<1> HIDE DEF result
<1>7. /\ \A u \in TASK : u # t => server'[u] = server[u]
      /\ \A a \in server'[t] : a.content = Content(t, a.part)
  <2>1. /\ \A a \in server[t] : a.content = Content(t, a.part)
        /\ article.part = p /\ article.content = Content(t, p)
    BY <1>1, <1>2 DEF Honest
  <2>2. server \in [TASK -> SUBSET [part : Nat, content : Datum \cup {None}]]
    BY DEF Inv, Types
  <2> HIDE DEF article
  <2> QED BY <1>1, <2>1, <2>2
<1>8. /\ t \in MASTER => r.needed \subseteq {1}
      /\ t \in FILE /\ r.ran => \A q \in Parts(t) : q \in r.needed => Present(t, q)
  <2>1. r.needed \subseteq task[t].needed /\ (r.ran <=> task[t].ran)
    BY <1>6
  <2>2. t \in MASTER => task[t].needed \subseteq {1}
    BY <1>2 DEF Honest
  <2>3. t \in FILE /\ task[t].ran =>
          \A q \in Parts(t) : q \in task[t].needed => Present(t, q)
    BY <1>2 DEF FileSound, Stored
  <2> HIDE DEF fits
  <2> QED BY <2>1, <2>2, <2>3
<1>9. Ended' /\ encoder'.task # t /\ encoder' = encoder
  BY <1>1, <1>3 DEF Whole, Ended
<1> QED BY <1>3, <1>6, <1>7, <1>8, <1>9, CheckInWhole

\* The encoder's answer: without errors, every part of the file is there.
LEMMA EncoderDoneWhole ==
  ASSUME DistinctNames, Inv, Whole, EncoderDone
  PROVE  Whole'
<1>0. PICK t \in FILE : t = encoder.task
  BY DEF EncoderDone, Inv, Types, EncoderRecord
<1> DEFINE r == Encoded(task[t])
<1>1. /\ encoder.ended /\ encoder' = Idle /\ UNCHANGED server
      /\ CheckIn(t, UpdateWork(t, r, FALSE))
  BY <1>0, Zenon DEF EncoderDone
<1>2. /\ t \in TASK /\ task[t] \in TaskRecord /\ TaskSound(t) /\ FileSound(t)
      /\ task[t].work = "WORKING" /\ ~task[t].ran /\ task[t].nntp = 0
      /\ encoder \in EncoderRecord /\ Honest(t)
  BY <1>0 DEF Inv, Types, TASK, TaskSound, Transfer, Coding, Whole
<1>3. ~encoder.errors => \A p \in Parts(t) : Present(t, p)
  <2> SUFFICES ASSUME ~encoder.errors, NEW p \in Parts(t) PROVE Present(t, p)
    OBVIOUS
  <2>1. encoder.writing = 0 /\ p \notin encoder.todo
    BY <1>1 DEF Whole, Ended
  <2>2. ~(p >= encoder.cnt)
    BY <1>0, <1>2, <2>1 DEF FileSound, Progress
  <2>3. p < encoder.cnt
    BY <1>2, <2>2 DEF Parts, EncoderRecord
  <2> QED BY <1>0, <1>2, <2>3 DEF FileSound, Progress
<1>4. /\ r \in TaskRecord /\ r.nntp = 0 /\ r.wanted = task[t].wanted
      /\ r.ran /\ encoder.errors => r.needed = {}
  <2>1. CASE encoder.cancelled
    BY <1>2, <2>1 DEF Encoded
  <2>2. CASE ~encoder.cancelled
    BY <1>2, <2>2 DEF Encoded, TaskRecord
  <2> QED BY <2>1, <2>2
<1>5. PICK y \in TaskRecord : y = r
  BY <1>4
<1> HIDE DEF r
<1>6. /\ Queued(t) /\ encoder'.task # t /\ Ended'
      /\ \A u \in TASK : encoder'.task # u
      /\ \A a \in server'[t] : a.content = Content(t, a.part)
  <2>1. encoder'.task = None /\ ~encoder'.ended /\ ~encoder'.failed
    BY <1>1 DEF Idle
  <2> QED BY <1>1, <1>2, <2>1 DEF Queued, Ended, TASK, Honest
<1>7. /\ y.ran => \A p \in Parts(t) : p \in y.needed => Present(t, p)
      /\ y.nntp = 0 /\ y.wanted = task[t].wanted /\ t \notin MASTER
      /\ CheckIn(t, UpdateWork(t, y, FALSE))
  BY <1>1, <1>3, <1>4, <1>5
<1> QED BY <1>1, <1>2, <1>6, <1>7, CheckInWhole

\* The encoder's thread writes the part it counts, as long as it met no error.
LEMMA EncoderStepWhole ==
  ASSUME DistinctNames, Inv, Whole, EncoderOpens \/ EncoderWrites \/ EncoderEnds
  PROVE  Whole'
<1>0. PICK t \in FILE : t = encoder.task
  BY DEF EncoderOpens, EncoderWrites, EncoderEnds, Encoding, Inv, Types, EncoderRecord
<1>1. /\ t \in TASK /\ task[t] \in TaskRecord /\ TaskSound(t) /\ FileSound(t) /\ Honest(t)
      /\ Queued(t) /\ ~task[t].ran /\ encoder \in EncoderRecord /\ ~encoder.ended
      /\ encoder.todo \subseteq Parts(t) /\ encoder.writing \in Parts(t) \cup {0}
      /\ cache \in CacheRecord /\ Parts(t) \subseteq Nat
  <2>1. ~encoder.ended
    BY Zenon DEF EncoderOpens, EncoderWrites, EncoderEnds, Encoding
  <2>2. t \in TASK /\ TaskSound(t) /\ task[t] \in TaskRecord /\ FileSound(t) /\ Honest(t)
    BY DEF TASK, Inv, Types, Whole
  <2>3. Parts(t) \subseteq Nat
    BY DEF Parts
  <2> QED BY <1>0, <2>1, <2>2, <2>3 DEF Inv, Types, TaskSound, Coding, Queued
<1>2. UNCHANGED server
  BY Zenon DEF EncoderOpens, EncoderWrites, EncoderEnds
\* Only the file in hand changes.
<1>3. ASSUME NEW k \in KEY, NEW p \in Parts(t), k = Key(t, p),
             cache'.locks = cache.locks, cache.info \subseteq cache'.info,
             \A j \in KEY \ {k} : cache'.disk[j] = cache.disk[j]
      PROVE  \A f \in FILE : f # t => Kept(f)
  BY <1>3, KeysAreKeys, KeysDiffer DEF Kept
<1> SUFFICES ASSUME NEW x, task' = [task EXCEPT ![t] = x], x.nntp = task[t].nntp,
                    x.needed = task[t].needed, x.wanted = task[t].wanted, ~x.ran,
                    x.work = task[t].work, x.sent = task[t].sent
             PROVE  Whole'
  <2>1. CASE EncoderOpens \/ EncoderWrites
    <3>1. task' = [task EXCEPT ![t] = task[t]]
      BY <2>1 DEF EncoderOpens, EncoderWrites, Inv, Types
    <3> QED BY <1>1, <3>1
  <2>2. CASE EncoderEnds
    <3> DEFINE n == IF encoder.failed THEN task[t].upload_list
                    ELSE task[t].upload_list + 1
    <3>1. task' = [task EXCEPT ![t] = [task[t] EXCEPT !.upload_list = n]]
      BY <1>0, <2>2 DEF EncoderEnds, Inv, Types
    <3> DEFINE x == [task[t] EXCEPT !.upload_list = n]
    <3>2. /\ x.nntp = task[t].nntp /\ x.needed = task[t].needed
          /\ x.wanted = task[t].wanted /\ ~x.ran /\ x.work = task[t].work
          /\ x.sent = task[t].sent
      <4> HIDE DEF n
      <4> QED BY <1>1 DEF TaskRecord
    <3>3. task' = [task EXCEPT ![t] = x]
      BY <3>1
    <3> HIDE DEF x
    <3> QED BY <3>2, <3>3
  <2> QED BY <2>1, <2>2
<1>4. task'[t] = x /\ Queued(t)' /\ Honest(t)'
  BY <1>1, <1>2 DEF Inv, Types, Queued, Honest
<1> SUFFICES /\ \A f \in FILE : f # t => Kept(f)
             /\ encoder'.task = t /\ Ended' /\ Progress(t)'
             /\ cache'.locks = cache.locks /\ cache.info \subseteq cache'.info
  <2>1. Stored(t)'
    BY <1>1, <1>4 DEF FileSound, Stored
  <2> QED BY <1>1, <1>2, <1>4, <2>1, OneFile DEF FileSound
<1>5. CASE EncoderOpens
  <2>1. PICK p \in encoder.todo :
          /\ First(p, encoder.todo)
          /\ \/ /\ encoder' = [encoder EXCEPT !.todo = @ \ {p}, !.writing = p]
                /\ cache' = C!Opened(cache, Key(t, p))
             \/ /\ encoder' = [encoder EXCEPT !.todo = @ \ {p}, !.cnt = @ + 1,
                                              !.errors = TRUE]
                /\ UNCHANGED cache
    BY <1>0, <1>5, Zenon DEF EncoderOpens
  <2>2. p \in Parts(t) /\ p \in Nat /\ Key(t, p) \in KEY /\ encoder.writing = 0
    BY <1>1, <1>5, KeysAreKeys DEF EncoderOpens
  <2>3. CASE UNCHANGED cache /\ encoder' = [encoder EXCEPT !.todo = @ \ {p},
                                              !.cnt = @ + 1, !.errors = TRUE]
    BY <1>0, <1>1, <2>2, <2>3 DEF EncoderRecord, Ended, Progress, Kept
  <2>4. CASE /\ encoder' = [encoder EXCEPT !.todo = @ \ {p}, !.writing = p]
             /\ cache' = C!Opened(cache, Key(t, p))
    <3>1. /\ cache'.locks = cache.locks /\ cache'.info = cache.info
          /\ \A j \in KEY \ {Key(t, p)} : cache'.disk[j] = cache.disk[j]
      BY <1>1, <2>2, <2>4 DEF C!Opened, CacheRecord
    <3>2. \A f \in FILE : f # t => Kept(f)
      BY <1>3, <2>2, <3>1
    <3>3. /\ encoder'.task = t /\ encoder'.todo = encoder.todo \ {p}
          /\ encoder'.writing = p /\ encoder'.cnt = encoder.cnt
          /\ (encoder'.errors <=> encoder.errors) /\ (encoder'.failed <=> encoder.failed)
          /\ ~encoder'.ended
      BY <1>0, <1>1, <2>4 DEF EncoderRecord
    <3>4. Ended'
      BY <3>3 DEF Ended, Whole
    <3>5. ASSUME ~encoder.errors PROVE p = encoder.cnt
      <4>1. \A q \in Parts(t) : q \in encoder.todo <=> q >= encoder.cnt
        BY <1>0, <1>1, <2>2, <3>5 DEF FileSound, Progress
      <4>2. p >= encoder.cnt /\ encoder.cnt \in Nat
        BY <1>1, <2>2, <4>1 DEF EncoderRecord
      <4>3. encoder.cnt \in Parts(t)
        BY <1>0, <1>1, <2>2, <3>5, <4>2 DEF FileSound, Progress, Parts
      <4> QED BY <2>1, <2>2, <4>1, <4>2, <4>3 DEF First
    <3>6. \A q \in Parts(t) : q # p => Present(t, q)' = Present(t, q)
      BY <1>1, <3>1, KeysAreKeys, KeysDiffer DEF Present
    <3>7. Progress(t)'
      <4> SUFFICES ASSUME ~encoder.errors PROVE Progress(t)'
        BY <3>3 DEF Progress
      <4>1. p # 0 /\ encoder.cnt \in Nat
        BY <1>1, <2>2 DEF EncoderRecord, Parts
      <4>2. /\ \A q \in Parts(t) : q \in encoder.todo <=> q >= encoder.cnt
            /\ \A q \in Parts(t) : q < encoder.cnt => Present(t, q)
        BY <1>0, <1>1, <2>2 DEF FileSound, Progress
      <4>3. \A q \in Parts(t) : q \in encoder'.todo <=> q > encoder'.cnt
        BY <1>1, <3>3, <3>5, <4>1, <4>2
      <4>4. \A q \in Parts(t) : q < encoder'.cnt => Present(t, q)'
        BY <1>1, <3>3, <3>5, <3>6, <4>1, <4>2
      <4> QED BY <3>3, <3>5, <4>1, <4>3, <4>4 DEF Progress
    <3> QED BY <3>1, <3>2, <3>3, <3>4, <3>7
  <2> QED BY <2>1, <2>3, <2>4
<1>6. CASE EncoderWrites
  <2>0. PICK p \in Parts(t) \cup {0} : p = encoder.writing
    BY <1>1
  <2> DEFINE data == IF encoder.errors THEN Torn ELSE Content(t, encoder.cnt)
             next == [encoder EXCEPT !.writing = 0, !.cnt = @ + 1]
  <2>1. /\ p # 0
        /\ \/ /\ encoder' = IF encoder.cnt = Total[t] THEN [next EXCEPT !.todo = {}]
                                                      ELSE next
              /\ cache' = C!Finalized(cache, Key(t, p), data)
           \/ /\ encoder' = [next EXCEPT !.todo = {}, !.failed = TRUE, !.errors = TRUE]
              /\ UNCHANGED cache
    BY <1>0, <1>6, <2>0, Zenon DEF EncoderWrites
  <2>2. p \in Parts(t) /\ Key(t, p) \in KEY /\ encoder.cnt \in Nat
    BY <1>1, <2>1, KeysAreKeys DEF EncoderRecord
  <2>3. CASE /\ encoder' = [next EXCEPT !.todo = {}, !.failed = TRUE, !.errors = TRUE]
             /\ UNCHANGED cache
    BY <1>0, <1>1, <2>3 DEF EncoderRecord, Ended, Progress, Kept
  <2>4. CASE /\ encoder' = IF encoder.cnt = Total[t] THEN [next EXCEPT !.todo = {}]
                                                     ELSE next
             /\ cache' = C!Finalized(cache, Key(t, p), data)
    <3>1. /\ cache'.locks = cache.locks /\ cache.info \subseteq cache'.info
          /\ \A j \in KEY \ {Key(t, p)} : cache'.disk[j] = cache.disk[j]
          /\ cache'.disk[Key(t, p)] = data
      <4> HIDE DEF data
      <4> QED BY <1>1, <2>2, <2>4 DEF C!Finalized, CacheRecord
    <3>2. \A f \in FILE : f # t => Kept(f)
      BY <1>3, <2>2, <3>1
    <3>3. /\ encoder'.task = t /\ encoder'.writing = 0 /\ encoder'.cnt = encoder.cnt + 1
          /\ encoder'.todo = IF encoder.cnt = Total[t] THEN {} ELSE encoder.todo
          /\ (encoder'.errors <=> encoder.errors) /\ (encoder'.failed <=> encoder.failed)
          /\ ~encoder'.ended
      BY <1>0, <1>1, <2>4 DEF EncoderRecord
    <3>4. Ended'
      BY <3>3 DEF Ended, Whole
    <3>5. \A q \in Parts(t) : q # p => Present(t, q)' = Present(t, q)
      BY <1>1, <2>2, <3>1, KeysAreKeys, KeysDiffer DEF Present
    <3>6. Progress(t)'
      <4> SUFFICES ASSUME ~encoder.errors PROVE Progress(t)'
        BY <3>3 DEF Progress
      <4>1. /\ \A q \in Parts(t) : q \in encoder.todo <=> q > encoder.cnt
            /\ \A q \in Parts(t) : q < encoder.cnt => Present(t, q)
            /\ p = encoder.cnt
        BY <1>0, <1>1, <2>0, <2>1 DEF FileSound, Progress
      <4>2. Present(t, p)'
        BY <3>1, <4>1 DEF Present
      <4>3. \A q \in Parts(t) : q <= Total[t] /\ q \in Nat
        BY <1>0, <1>1 DEF Parts
      <4>4. \A q \in Parts(t) : q \in encoder'.todo <=> q >= encoder'.cnt
        BY <1>1, <2>2, <3>3, <4>1, <4>3
      <4>5. \A q \in Parts(t) : q < encoder'.cnt => Present(t, q)'
        BY <2>2, <3>3, <3>5, <4>1, <4>2, <4>3
      <4> QED BY <2>2, <3>3, <4>4, <4>5 DEF Progress
    <3> QED BY <3>1, <3>2, <3>3, <3>4, <3>6
  <2> QED BY <2>1, <2>3, <2>4
<1>7. CASE EncoderEnds
  <2>1. /\ encoder.writing = 0 /\ encoder.todo = {} /\ UNCHANGED cache
        /\ encoder' = [encoder EXCEPT !.ended = TRUE]
    BY <1>7, Zenon DEF EncoderEnds
  <2>2. /\ encoder'.task = t /\ encoder'.writing = 0 /\ encoder'.cnt = encoder.cnt
        /\ encoder'.todo = {}
        /\ (encoder'.errors <=> encoder.errors) /\ (encoder'.failed <=> encoder.failed)
    BY <1>0, <1>1, <2>1 DEF EncoderRecord
  <2> QED BY <1>0, <1>1, <2>1, <2>2 DEF Ended, Progress, Present, Kept, Whole, FileSound
<1> QED BY <1>5, <1>6, <1>7

\* The user's steps.
LEMMA UserWhole ==
  ASSUME DistinctNames, Inv, Whole, NEW t \in TASK,
         StopTask(t) \/ RestartTask(t) \/ RemoveTask(t)
  PROVE  Whole'
<1>1. /\ UNCHANGED server /\ Queued(t) /\ Honest(t) /\ TaskSound(t)
      /\ task[t] \in TaskRecord /\ encoder \in EncoderRecord
      /\ t \in FILE => FileSound(t)
  BY DEF StopTask, RestartTask, RemoveTask, Inv, Types, Whole
<1>2. \/ encoder' = encoder
      \/ encoder' = [encoder EXCEPT !.cancelled = TRUE] /\ encoder.task = t
  BY DEF StopTask, RestartTask, RemoveTask, Cancel
<1>3. /\ \A u \in TASK : u # t /\ encoder'.task = u => encoder' = encoder
      /\ encoder'.task = encoder.task /\ encoder'.todo = encoder.todo
      /\ encoder'.cnt = encoder.cnt /\ encoder'.writing = encoder.writing
      /\ (encoder'.errors <=> encoder.errors) /\ (encoder'.failed <=> encoder.failed)
      /\ (encoder'.ended <=> encoder.ended)
  BY <1>1, <1>2 DEF EncoderRecord
<1>4. Ended'
  BY <1>3 DEF Ended, Whole
<1>5. CASE /\ UNCHANGED cache
           /\ \E s, r \in BOOLEAN :
                task' = [task EXCEPT ![t] = [@ EXCEPT !.stopped = s, !.removing = r]]
  <2>1. PICK s \in BOOLEAN, r \in BOOLEAN :
          task' = [task EXCEPT ![t] = [task[t] EXCEPT !.stopped = s, !.removing = r]]
    BY <1>5 DEF Inv, Types
  <2> DEFINE x == [task[t] EXCEPT !.stopped = s, !.removing = r]
  <2>2. /\ task' = [task EXCEPT ![t] = x] /\ task'[t] = x /\ x.nntp = task[t].nntp
        /\ x.needed = task[t].needed /\ x.wanted = task[t].wanted
        /\ x.ran = task[t].ran /\ x.work = task[t].work /\ x.sent = task[t].sent
    BY <1>1, <2>1 DEF TaskRecord, Inv, Types
  <2> HIDE DEF x
  <2>3. Honest(t)'
    BY <1>1, <2>2 DEF Honest
  <2>4. t \in FILE => FileSound(t)'
    BY <1>1, <1>3, <1>5, <2>2 DEF FileSound, Stored, Progress, Present, Queued
  <2>5. \A f \in FILE : Kept(f)
    BY <1>5 DEF Kept
  <2> QED BY <1>1, <1>3, <1>4, <2>2, <2>3, <2>4, <2>5, OneFile
<1>6. CASE Delete(t, task[t]) /\ encoder.task # t
  <2> DEFINE x == Gone(task[t])
  <2>1. task' = [task EXCEPT ![t] = x] /\ task'[t] = x
    BY <1>6 DEF Delete, Gone, Inv, Types
  <2>2. x.work = "GONE" /\ x.nntp = 0 /\ x.needed = {} /\ ~x.ran
    BY DEF Gone, NewTask
  <2>3. /\ \A f \in FILE : f # t => Kept(f)
        /\ t \in FILE => \A p \in Parts(t) : cache'.locks[Key(t, p)] = 0
    BY <1>1, <1>6, DeleteKeeps
  <2> HIDE DEF x
  <2>4. Honest(t)'
    BY <1>1, <2>1, <2>2 DEF Honest
  <2>5. t \in FILE => FileSound(t)'
    BY <1>3, <1>6, <2>1, <2>2, <2>3 DEF FileSound, Stored, Progress, Queued
  <2> QED BY <1>1, <1>3, <1>4, <2>1, <2>3, <2>4, <2>5, OneFile
<1>7. CASE StopTask(t) \/ RestartTask(t)
  <2>1. PICK s \in BOOLEAN : task' = [task EXCEPT ![t].stopped = s]
    BY <1>7 DEF StopTask, RestartTask
  <2>2. [task[t] EXCEPT !.stopped = s]
          = [task[t] EXCEPT !.stopped = s, !.removing = task[t].removing]
    BY <1>1 DEF TaskRecord
  <2>3. task' = [task EXCEPT ![t] = [@ EXCEPT !.stopped = s, !.removing = task[t].removing]]
    BY <2>1, <2>2
  <2> QED BY <1>1, <1>5, <1>7, <2>3 DEF StopTask, RestartTask, TaskRecord
<1>8. CASE RemoveTask(t)
  <2>1. CASE encoder.task = t \/ task[t].nntp # 0
    <3>1. task' = [task EXCEPT ![t].removing = TRUE] /\ UNCHANGED cache
      BY <1>8, <2>1 DEF RemoveTask
    <3>2. [task[t] EXCEPT !.removing = TRUE]
            = [task[t] EXCEPT !.stopped = task[t].stopped, !.removing = TRUE]
      BY <1>1 DEF TaskRecord
    <3>3. task' = [task EXCEPT ![t] = [@ EXCEPT !.stopped = task[t].stopped,
                                                !.removing = TRUE]]
      BY <3>1, <3>2
    <3> QED BY <1>1, <1>5, <3>1, <3>3 DEF TaskRecord
  <2>2. CASE ~(encoder.task = t \/ task[t].nntp # 0)
    BY <1>6, <1>8, <2>2 DEF RemoveTask
  <2> QED BY <2>1, <2>2
<1> QED BY <1>7, <1>8

\* Clearing the cache takes no file that is reserved.
LEMMA ClearWhole ==
  ASSUME Inv, Whole, ClearCache
  PROVE  Whole'
<1>1. UNCHANGED <<ui, task, encoder, server, history>>
  BY DEF ClearCache
<1>2. ASSUME NEW f \in FILE PROVE Kept(f)
  <2> SUFFICES ASSUME NEW p \in Parts(f)
               PROVE  /\ cache'.locks[Key(f, p)] = cache.locks[Key(f, p)]
                      /\ Queued(f) /\ Key(f, p) \in cache.info =>
                           /\ Key(f, p) \in cache'.info
                           /\ cache'.disk[Key(f, p)] = cache.disk[Key(f, p)]
    BY DEF Kept
  <2>1. Key(f, p) \in KEY /\ cache \in CacheRecord
    BY KeysAreKeys DEF Inv, Types
  <2>2. Queued(f) => cache.locks[Key(f, p)] = 1
    BY DEF Whole, FileSound, Stored
  <2>3. cache' = C!Dropped(cache, C!Unlocked(cache))
    BY DEF ClearCache, C!Cleared
  <2>4. cache'.locks = cache.locks
    BY <2>3 DEF C!Dropped
  <2> QED BY <2>1, <2>2, <2>3, <2>4, DroppedKeeps
<1>3. \A f \in FILE : FileSound(f)'
  BY <1>1, <1>2, OtherFile DEF Whole
<1> QED BY <1>1, <1>3 DEF Whole, Ended, Honest

LEMMA WholeNext ==
  ASSUME DistinctNames, AllParts, Inv, Whole, [Next]_vars
  PROVE  Whole'
<1>1. CASE UNCHANGED vars
  BY <1>1 DEF vars, Whole, Ended, Honest, FileSound, Stored, Progress, Present, Queued
<1>2. CASE ClearCache
  BY <1>2, ClearWhole
<1>3. CASE Post
  BY <1>3, PostWhole
<1>4. CASE EncoderWorks
  BY <1>4, EncoderStepWhole, EncoderDoneWhole DEF EncoderWorks
<1>5. ASSUME NEW t \in TASK,
             \/ Serve(t)
             \/ \E answer \in ANSWERS : NntpDone(t, answer)
             \/ StopTask(t) \/ RestartTask(t) \/ RemoveTask(t)
      PROVE  Whole'
  BY <1>5, ServeWhole, NntpDoneWhole, UserWhole
<1> QED BY <1>1, <1>2, <1>3, <1>4, <1>5 DEF Next

THEOREM WholeInvariance ==
  ASSUME DistinctNames, AllParts
  PROVE  Spec => []Whole
<1>1. Inv /\ Whole /\ [Next]_vars => Whole'
  BY WholeNext
<1> QED BY <1>1, WholeInit, Invariance, PTL DEF Spec

----------------------------------------------------------------------------

\* Whatever is cleared, shrunk, cancelled and encoded again meanwhile, what the
\* encoder has left for the server is in the cache, and whole, until it is sent.
THEOREM EncodedPartsStay ==
  ASSUME DistinctNames, AllParts
  PROVE  Spec => []NeededInCache
<1>1. Inv /\ Whole => NeededInCache
  <2> SUFFICES ASSUME Inv, Whole, NEW f \in FILE, task[f].ran, NEW p \in task[f].needed
               PROVE  Key(f, p) \in cache.info /\ cache.disk[Key(f, p)] = Content(f, p)
    BY DEF NeededInCache
  <2>1. p \in Parts(f)
    BY DEF Inv, TaskSound, Account, TASK
  <2> QED BY <2>1 DEF Whole, FileSound, Stored, Present
<1> QED BY <1>1, Invariance, WholeInvariance, PTL

\* The server never has an article that holds another part than it says.
THEOREM ArticlesHoldTheirParts ==
  ASSUME DistinctNames, AllParts
  PROVE  Spec => []PostedAsAnnounced
<1>1. Whole => PostedAsAnnounced
  BY DEF Whole, Honest, PostedAsAnnounced
<1> QED BY <1>1, WholeInvariance, PTL
=============================================================================
