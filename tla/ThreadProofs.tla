----------------------------- MODULE ThreadProofs ----------------------------
(***************************************************************************)
(* Theorems about the main thread and its helpers: the jobs that are       *)
(* handed to and fro (WorkerPool), and the strings that they share         *)
(* (Quark), for any coders, openers and threads, Quarks, strings and       *)
(* addresses.                                                              *)
(***************************************************************************)
EXTENDS WorkerPool, FiniteSetTheorems, TLAPS

----------------------------------------------------------------------------
(* Jobs.  Every operation adds workers that had no job to those that have  *)
(* one, or takes one away (Busy, in the lemmas); who is lent, exists, is   *)
(* in the register and was asked to stop follows from who is busy.         *)

Types ==
  /\ waiting \in [WORKER -> Nat] /\ running \in [WORKER -> Nat]
  /\ done \in [WORKER -> Nat]
  /\ my_workers \subseteq WORKER /\ alive \subseteq WORKER
  /\ lent \subseteq CODER /\ asked \subseteq WORKER
  /\ cancelled \in [WORKER -> BOOLEAN] /\ silent \in [WORKER -> BOOLEAN]
  /\ phase \in {"loop", "quit", "queueless", "freeing", "over"}

Jobs(w) == waiting[w] + running[w] + done[w]

\* Who is busy, and what follows from it.
JobCounts == \A w \in WORKER : Jobs(w) <= 1
LentIsBusy == phase = "loop" => lent = Busy \cap CODER
Registered == my_workers \subseteq Busy
Existing == phase \in {"loop", "quit"} => Busy \subseteq alive
Asked == phase = "loop" => asked \subseteq Busy

Sets == LentIsBusy /\ Registered /\ Existing /\ Asked
Inv == Types /\ JobCounts /\ Sets /\ CancelIsTheJobs

\* Whoever may be pushed has no job.
LEMMA FreeIsIdle ==
  ASSUME Inv, phase = "loop", NEW w \in WORKER, Free(w, lent)
  PROVE  w \notin Busy
<1>1. CASE w \in CODER
  BY <1>1 DEF Free, Inv, Sets, LentIsBusy
<1>2. CASE w \notin CODER
  BY <1>2 DEF Free, Inv, Sets, Existing
<1> QED BY <1>1, <1>2

LEMMA BusyJobs ==
  ASSUME Types, NEW w \in WORKER
  PROVE  w \in Busy <=> Jobs(w) > 0
BY DEF Busy, Jobs, Types

LEMMA JobsNat ==
  ASSUME Types, NEW w \in WORKER
  PROVE  Jobs(w) \in Nat
BY DEF Jobs, Types

LEMMA BusyJobsPrime ==
  ASSUME Types', NEW w \in WORKER
  PROVE  w \in Busy' <=> Jobs(w)' > 0
BY DEF Busy, Jobs, Types

----------------------------------------------------------------------------

\* What each operation does to the counts and to Busy.
LEMMA PushJobs ==
  ASSUME Inv, NEW w \in WORKER, Push(w)
  PROVE  /\ Types' /\ JobCounts'
         /\ Busy' = Busy \cup {w} /\ w \notin Busy
<1>1. w \notin Busy
  BY FreeIsIdle DEF Push
<1>2. Types'
  BY DEF Inv, Types, Push, Pushed, WORKER
<1>3. \A x \in WORKER : Jobs(x)' = Jobs(x) + IF x = w THEN 1 ELSE 0
  BY DEF Inv, Types, Push, Pushed, Jobs
<1>4. Jobs(w) = 0
  BY <1>1, BusyJobs, JobsNat DEF Inv
<1>5. JobCounts'
  <2> SUFFICES ASSUME NEW x \in WORKER PROVE Jobs(x)' <= 1
    BY DEF JobCounts
  <2>1. Jobs(x) <= 1 /\ Jobs(x) \in Nat
    BY JobsNat DEF Inv, JobCounts
  <2> QED BY <1>3, <1>4, <2>1
<1>6. ASSUME NEW x \in WORKER PROVE Jobs(x) \in Nat
  BY JobsNat DEF Inv
<1>7. ASSUME NEW x \in WORKER PROVE x \in Busy' <=> x \in Busy \cup {w}
  BY <1>2, <1>3, <1>6, BusyJobs, BusyJobsPrime DEF Inv
<1>8. Busy' = Busy \cup {w}
  BY <1>7 DEF Busy
<1> QED BY <1>1, <1>2, <1>5, <1>8

LEMMA StartJobs ==
  ASSUME Inv, NEW w \in WORKER, Start(w) \/ Finish(w)
  PROVE  Types' /\ JobCounts' /\ Busy' = Busy
<1>1. Types'
  BY DEF Inv, Types, Start, Finish
<1>2. \A x \in WORKER : Jobs(x)' = Jobs(x)
  BY DEF Inv, Types, Start, Finish, Jobs
<1>3. JobCounts'
  BY <1>2 DEF JobCounts, Inv
<1>4. ASSUME NEW x \in WORKER PROVE x \in Busy' <=> x \in Busy
  BY <1>1, <1>2, BusyJobs, BusyJobsPrime DEF Inv
<1>5. Busy' = Busy
  BY <1>4 DEF Busy
<1> QED BY <1>1, <1>3, <1>5

LEMMA CleanupJobs ==
  ASSUME Inv, NEW w \in WORKER, NEW pushed \in SUBSET WORKER, Cleanup(w, pushed)
  PROVE  /\ Types' /\ JobCounts'
         /\ Busy' = (Busy \ {w}) \cup pushed
         /\ w \in Busy /\ (Busy \ {w}) \cap pushed = {}
         /\ w \in pushed => w \in CODER
<1>1. w \in Busy /\ Jobs(w) = 1 /\ done[w] = 1
  BY DEF Cleanup, Inv, Types, Busy, JobCounts, Jobs
<1>2. \A x \in pushed : x # w => x \notin Busy
  <2> SUFFICES ASSUME NEW x \in pushed, x # w PROVE x \notin Busy
    OBVIOUS
  <2>1. Free(x, lent)
    BY DEF Cleanup, Free
  <2> QED BY <2>1, FreeIsIdle DEF Cleanup
<1>3. w \in pushed => w \in CODER
  BY <1>1 DEF Cleanup, Free, Inv, Sets, Existing
<1>4. Types'
  BY DEF Inv, Types, Cleanup, Pushed, Unregistered, WORKER
<1>5. \A x \in WORKER : Jobs(x)' = (IF x = w THEN 0 ELSE Jobs(x))
                                   + (IF x \in pushed THEN 1 ELSE 0)
  BY <1>1 DEF Inv, Types, Cleanup, Pushed, Jobs
<1>6. ASSUME NEW x \in WORKER PROVE Jobs(x) \in Nat
  BY JobsNat DEF Inv
<1>7. \A x \in pushed : x # w => Jobs(x) = 0
  BY <1>2, <1>6, BusyJobs DEF Inv
<1>8. JobCounts'
  BY <1>5, <1>6, <1>7 DEF JobCounts, Inv
<1>9. ASSUME NEW x \in WORKER PROVE x \in Busy' <=> x \in (Busy \ {w}) \cup pushed
  BY <1>4, <1>5, <1>6, BusyJobs, BusyJobsPrime DEF Inv
<1>10. Busy' = (Busy \ {w}) \cup pushed
  BY <1>9 DEF Busy
<1> QED BY <1>1, <1>2, <1>3, <1>4, <1>8, <1>10

\* Nothing else touches a job.
LEMMA OtherJobs ==
  ASSUME Inv, jobs' = jobs
  PROVE  JobCounts' /\ Busy' = Busy
BY DEF jobs, JobCounts, Jobs, Busy, Inv

----------------------------------------------------------------------------

LEMMA InvInit == Init => Inv
<1> SUFFICES ASSUME Init PROVE Inv
  OBVIOUS
<1>1. Types
  BY DEF Init, Types, WORKER
<1>2. Busy = {} /\ JobCounts
  BY DEF Init, Busy, JobCounts, Jobs
<1>3. Sets /\ CancelIsTheJobs
  BY <1>2 DEF Init, Sets, LentIsBusy, Registered, Existing, Asked, CancelIsTheJobs
<1> QED BY <1>1, <1>2, <1>3 DEF Inv

LEMMA PushInv ==
  ASSUME Inv, NEW w \in WORKER, Push(w)
  PROVE  Inv'
<1>1. Types' /\ JobCounts' /\ Busy' = Busy \cup {w} /\ w \notin Busy
  BY PushJobs
<1>2. Sets'
  BY <1>1 DEF Inv, Sets, Push, LentIsBusy, Registered, Existing, Asked
<1>3. CancelIsTheJobs'
  <2> SUFFICES ASSUME NEW x \in Busy' PROVE cancelled'[x] <=> x \in asked'
    BY DEF CancelIsTheJobs
  <2>1. x \in WORKER
    BY DEF Busy
  <2>2. asked' = asked /\ w \notin asked
    BY <1>1 DEF Push, Inv, Sets, Asked
  <2>3. cancelled'[x] <=> cancelled[x] /\ x # w
    BY <2>1 DEF Push, Pushed
  <2>4. x # w => (cancelled[x] <=> x \in asked)
    BY <1>1 DEF Push, Inv, CancelIsTheJobs
  <2> QED BY <2>2, <2>3, <2>4
<1> QED BY <1>1, <1>2, <1>3 DEF Inv

LEMMA StartInv ==
  ASSUME Inv, NEW w \in WORKER, Start(w) \/ Finish(w)
  PROVE  Inv'
<1>1. Types' /\ JobCounts' /\ Busy' = Busy
  BY StartJobs
<1>2. Sets' /\ CancelIsTheJobs'
  BY <1>1 DEF Inv, Sets, Start, Finish, LentIsBusy, Registered, Existing, Asked,
              CancelIsTheJobs
<1> QED BY <1>1, <1>2 DEF Inv

LEMMA CancelInv ==
  ASSUME Inv, NEW w \in WORKER, Cancel(w)
  PROVE  Inv'
<1>1. JobCounts' /\ Busy' = Busy
  BY OtherJobs DEF Cancel
<1>2. Types'
  BY DEF Inv, Types, Cancel, jobs
<1>3. Sets'
  BY <1>1 DEF Inv, Sets, Cancel, LentIsBusy, Registered, Existing, Asked
<1>4. CancelIsTheJobs'
  BY <1>1 DEF Inv, Types, Cancel, CancelIsTheJobs, Busy
<1> QED BY <1>1, <1>2, <1>3, <1>4 DEF Inv

LEMMA CleanupInv ==
  ASSUME Inv, NEW w \in WORKER, NEW pushed \in SUBSET WORKER, Cleanup(w, pushed)
  PROVE  Inv'
<1>1. /\ Types' /\ JobCounts' /\ Busy' = (Busy \ {w}) \cup pushed /\ w \in Busy
      /\ (Busy \ {w}) \cap pushed = {} /\ (w \in pushed => w \in CODER)
  BY CleanupJobs
<1>2. LentIsBusy'
  BY <1>1 DEF Inv, Sets, Cleanup, LentIsBusy
<1>3. Registered'
  BY <1>1 DEF Inv, Sets, Cleanup, Unregistered, Registered
<1>4. Existing'
  BY <1>1, WorkerPoolAssumption DEF WorkerPoolAssumption, Inv, Sets, Cleanup, Existing
<1>5. Asked'
  BY <1>1 DEF Inv, Sets, Cleanup, Asked
<1>6. CancelIsTheJobs'
  <2> SUFFICES ASSUME NEW x \in Busy' PROVE cancelled'[x] <=> x \in asked'
    BY DEF CancelIsTheJobs
  <2>1. x \in WORKER
    BY DEF Busy
  <2>2. asked' = asked \ {w} /\ (cancelled'[x] <=> cancelled[x] /\ x \notin pushed)
    BY <2>1 DEF Cleanup, Pushed
  <2>3. CASE x \in pushed
    BY <1>1, <2>2, <2>3 DEF Cleanup, Inv, Sets, Asked
  <2>4. CASE x \notin pushed
    BY <1>1, <2>2, <2>4 DEF Cleanup, Inv, CancelIsTheJobs
  <2> QED BY <2>3, <2>4
<1> QED BY <1>1, <1>2, <1>3, <1>4, <1>5, <1>6 DEF Inv, Sets

LEMMA EndInv ==
  ASSUME Inv, Quit \/ DestroyQueue \/ DestroyPool \/ Over
  PROVE  Inv'
<1>1. JobCounts' /\ Busy' = Busy
  BY OtherJobs DEF Quit, DestroyQueue, DestroyPool, Over
<1>2. Types'
  BY DEF Inv, Types, Quit, DestroyQueue, DestroyPool, Over, jobs
<1>3. Sets' /\ CancelIsTheJobs'
  BY <1>1 DEF Inv, Sets, Quit, DestroyQueue, DestroyPool, Over, LentIsBusy,
              Registered, Existing, Asked, CancelIsTheJobs
<1> QED BY <1>1, <1>2, <1>3 DEF Inv

LEMMA InvNext == Inv /\ [Next]_vars => Inv'
<1> SUFFICES ASSUME Inv, [Next]_vars PROVE Inv'
  OBVIOUS
<1>1. ASSUME NEW w \in WORKER, Push(w) PROVE Inv'
  BY <1>1, PushInv
<1>2. ASSUME NEW w \in WORKER, Start(w) \/ Finish(w) PROVE Inv'
  BY <1>2, StartInv
<1>3. ASSUME NEW w \in WORKER, Cancel(w) PROVE Inv'
  BY <1>3, CancelInv
<1>4. ASSUME NEW w \in WORKER, NEW pushed \in SUBSET WORKER, Cleanup(w, pushed)
      PROVE Inv'
  BY <1>4, CleanupInv
<1>5. CASE Quit \/ DestroyQueue \/ DestroyPool \/ Over
  BY <1>5, EndInv
<1>6. CASE UNCHANGED vars
  BY <1>6 DEF vars, jobs, Inv, Types, JobCounts, Jobs, Busy, Sets, LentIsBusy,
              Registered, Existing, Asked, CancelIsTheJobs
<1> QED BY <1>1, <1>2, <1>3, <1>4, <1>5, <1>6 DEF Next

LEMMA Invariance == Spec => []Inv
<1>1. Init => Inv
  BY InvInit
<1>2. Inv /\ [Next]_vars => Inv'
  BY InvNext
<1> QED BY <1>1, <1>2, PTL DEF Spec

----------------------------------------------------------------------------

\* No worker ever has two jobs, and a coder has one while a task has it:
\* on_worker_done may push the worker that reports.
THEOREM JobsCorrect == Spec => []OneJobEach
<1>1. Inv => OneJobEach
  BY DEF Inv, JobCounts, Jobs, Sets, LentIsBusy, OneJobEach
<1> QED BY <1>1, Invariance, PTL

\* Until the queue is destroyed, nobody is deleted who has a job or is in the
\* register of main_thread_cleanup.
THEOREM LifetimesCorrect == Spec => []WorkersOutliveJobs
<1>1. Inv => WorkersOutliveJobs
  BY DEF Inv, Sets, Registered, Existing, WorkersOutliveJobs
<1> QED BY <1>1, Invariance, PTL

\* The flag that cancel sets reaches the job it was meant for, and no other:
\* push_work clears it.
THEOREM CancelCorrect == Spec => []CancelIsTheJobs
<1>1. Inv => CancelIsTheJobs
  BY DEF Inv
<1> QED BY <1>1, Invariance, PTL

----------------------------------------------------------------------------
(* Strings.  Until two threads are in a call at once, strings are kept     *)
(* exactly as long as they are needed, and Quarks are equal exactly if     *)
(* their strings are.  From then on it is not so: README, section 6.       *)

CONSTANTS QUARK, STRING_, IMPL, THREAD, Owner, None
VARIABLES impl, entry, count, text, call, apart

Q == INSTANCE Quark

Counting == {"load", "store"}            \* the new string is being counted
Dropping == {"unload", "unstore", "erase"}  \* the old one is being given up

Calls == [stage : Counting \cup Dropping, q : QUARK,
          new : IMPL \cup {None}, of : STRING_ \cup {None}, n : Nat]

StringTypes ==
  /\ impl \in [QUARK -> IMPL \cup {None}]
  /\ text \in [QUARK -> STRING_ \cup {None}]
  /\ entry \in [IMPL -> STRING_ \cup {None}]
  /\ count \in [IMPL -> Nat]
  /\ call \in [THREAD -> {Q!Idle} \cup Calls]

\* A program has a thread, and finitely many Quarks.
Program ==
  /\ THREAD # {}
  /\ IsFiniteSet(QUARK)
  /\ None \notin IMPL \cup STRING_

\* Only t may be in a call.
Alone(t) == \A u \in THREAD : u # t => call[u] = Q!Idle

Holders(i) == {q \in QUARK : impl[q] = i}

\* What the count of i has besides its holders: the one to come, and not the
\* one that is going.
Extra(t, i) ==
  (IF call[t].stage \in Dropping /\ i = call[t].new THEN 1 ELSE 0)
  - (IF call[t].stage = "erase" /\ i = impl[call[t].q] THEN 1 ELSE 0)

Entries == \A q \in QUARK : IF impl[q] = None THEN text[q] = None
                            ELSE text[q] # None /\ entry[impl[q]] = text[q]

OneEntryEach == \A i, j \in IMPL : entry[i] # None /\ entry[i] = entry[j] => i = j

\* The string that q is about to have is there, and so is the one it loses.
Pending(t) ==
  LET now == call[t]
  IN  /\ now.stage \in Counting \cup Dropping =>
           IF now.new = None THEN now.of = None
           ELSE now.of # None /\ entry[now.new] = now.of
      /\ now.stage \in Counting => now.new # None
      /\ now.stage \in Dropping => impl[now.q] # None
      /\ now.stage = "store" => now.n = count[now.new]
      /\ now.stage = "unstore" => now.n = count[impl[now.q]]
      /\ now.stage = "erase" => count[impl[now.q]] = 0

Counted(t) == \A i \in IMPL :
  entry[i] # None => count[i] = Cardinality(Holders(i)) + Extra(t, i)

\* No entry stays with a count of 0 but while it is made or erased.
Positive(t) == \A i \in IMPL :
  entry[i] # None => \/ count[i] > 0
                     \/ call[t].stage \in Counting /\ i = call[t].new
                     \/ call[t].stage = "erase" /\ i = impl[call[t].q]

\* What is true while t is in a call, if anybody is.
StringInv(t) ==
  /\ StringTypes /\ Alone(t) /\ Entries /\ OneEntryEach
  /\ Pending(t) /\ Counted(t) /\ Positive(t)

ApartInv == apart => \E t \in THREAD : StringInv(t)

----------------------------------------------------------------------------

\* There are finitely many holders of an address.
LEMMA HoldersFinite ==
  ASSUME Program, NEW i
  PROVE  IsFiniteSet(Holders(i)) /\ Cardinality(Holders(i)) \in Nat
<1>1. IsFiniteSet(Holders(i))
  BY FS_Subset DEF Holders, Program
<1> QED BY <1>1, FS_CardinalityType

\* When q points elsewhere the old address has one holder less and the new
\* one one more.
LEMMA HoldersMove ==
  ASSUME Program, StringTypes, NEW q \in QUARK, NEW v, NEW i \in IMPL,
         impl' = [impl EXCEPT ![q] = v]
  PROVE  Cardinality(Holders(i)') = Cardinality(Holders(i))
           - (IF impl[q] = i THEN 1 ELSE 0) + (IF v = i THEN 1 ELSE 0)
<1>1. IsFiniteSet(Holders(i)) /\ Cardinality(Holders(i)) \in Nat
  BY HoldersFinite
<1>2. CASE impl[q] = i /\ v = i
  <2>1. Holders(i)' = Holders(i)
    BY <1>2 DEF Holders, StringTypes
  <2> QED BY <1>1, <1>2, <2>1
<1>3. CASE impl[q] = i /\ v # i
  <2>1. q \in Holders(i) /\ Holders(i)' = Holders(i) \ {q}
    BY <1>3 DEF Holders, StringTypes
  <2>2. Cardinality(Holders(i) \ {q}) = Cardinality(Holders(i)) - 1
    BY <1>1, <2>1, FS_RemoveElement
  <2> QED BY <1>1, <1>3, <2>1, <2>2
<1>4. CASE impl[q] # i /\ v = i
  <2>1. q \notin Holders(i) /\ Holders(i)' = Holders(i) \cup {q}
    BY <1>4 DEF Holders, StringTypes
  <2>2. Cardinality(Holders(i) \cup {q}) = Cardinality(Holders(i)) + 1
    BY <1>1, <2>1, FS_AddElement
  <2> QED BY <1>1, <1>4, <2>1, <2>2
<1>5. CASE impl[q] # i /\ v # i
  <2>1. Holders(i)' = Holders(i)
    BY <1>5 DEF Holders, StringTypes
  <2> QED BY <1>1, <1>5, <2>1
<1> QED BY <1>2, <1>3, <1>4, <1>5

\* Who points to an address is among its holders, and if it is alone there is
\* no other.
LEMMA HoldersCount ==
  ASSUME Program, NEW q \in QUARK, NEW i, impl[q] = i
  PROVE  /\ Cardinality(Holders(i)) >= 1
         /\ Cardinality(Holders(i)) = 1 =>
              \A p \in QUARK : impl[p] = i => p = q
<1>1. q \in Holders(i)
  BY DEF Holders
<1>2. IsFiniteSet(Holders(i)) /\ Cardinality(Holders(i)) \in Nat
  BY HoldersFinite
<1>3. Cardinality(Holders(i)) # 0
  BY <1>1, <1>2, FS_EmptySet
<1>4. ASSUME Cardinality(Holders(i)) = 1, NEW p \in QUARK, impl[p] = i
      PROVE  p = q
  <2>1. PICK x : Holders(i) = {x}
    BY <1>2, <1>4, FS_Singleton
  <2> QED BY <1>1, <1>4, <2>1 DEF Holders
<1> QED BY <1>2, <1>3, <1>4

----------------------------------------------------------------------------

\* The table is empty at first.
LEMMA StringInvInit ==
  ASSUME Program, NEW t \in THREAD, Q!Init
  PROVE  StringInv(t) /\ apart
<1>1. StringTypes /\ Alone(t) /\ apart
  BY DEF Q!Init, StringTypes, Alone
<1>2. call[t] = Q!Idle
  BY DEF Q!Init
<1>3. Entries /\ OneEntryEach /\ Counted(t) /\ Positive(t)
  BY DEF Q!Init, Entries, OneEntryEach, Counted, Positive
<1>4. Pending(t)
  BY <1>2 DEF Pending, Q!Idle, Counting, Dropping
<1> QED BY <1>1, <1>3, <1>4 DEF StringInv

\* A thread's steps.
Begins(t) == \E q \in QUARK : \/ \E w \in STRING_, i \in IMPL : Q!Intern(t, q, w, i)
                              \/ \E p \in QUARK : Q!Assign(t, q, p)
                              \/ Q!Clear(t, q)
GoesOn(t) == Q!Load(t) \/ Q!Store(t) \/ Q!Unstore(t) \/ Q!Erase(t)

\* They leave the other threads' calls alone.
LEMMA AloneKept ==
  ASSUME NEW t \in THREAD, StringInv(t), Begins(t) \/ GoesOn(t)
  PROVE  Alone(t)'
<1>1. \E c : call' = [call EXCEPT ![t] = c]
  <2>1. CASE Begins(t)
    BY <2>1 DEF Begins, Q!Intern, Q!Assign, Q!Clear, Q!Change
  <2>2. CASE GoesOn(t)
    <3>1. CASE Q!Load(t)
      BY <3>1 DEF Q!Load
    <3>2. CASE Q!Store(t)
      BY <3>2 DEF Q!Store, Q!Return
    <3>3. CASE Q!Unstore(t)
      BY <3>3 DEF Q!Unstore, Q!Return
    <3>4. CASE Q!Erase(t)
      BY <3>4 DEF Q!Erase, Q!Return
    <3> QED BY <2>2, <3>1, <3>2, <3>3, <3>4 DEF GoesOn
  <2> QED BY <2>1, <2>2
<1> QED BY <1>1 DEF StringInv, StringTypes, Alone

\* A new entry has no holders and its count starts at 0.
LEMMA InternInv ==
  ASSUME Program, NEW t \in THREAD, StringInv(t), NEW q \in QUARK, NEW s \in STRING_, NEW i \in IMPL,
         Q!Intern(t, q, s, i)
  PROVE  StringInv(t)'
<1>0. Alone(t)'
  BY AloneKept DEF Begins
<1> USE DEF StringInv, Program, Calls
<1>1. /\ call[t]' = [stage |-> "load", q |-> q, new |-> i, of |-> s, n |-> 0]
      /\ call[t].stage = "idle" /\ s # None /\ i # None
  BY DEF Q!Intern, Q!Change, Q!MayChange, Q!Stage, StringTypes
<1>2. StringTypes'
  BY <1>1 DEF StringTypes, Q!Intern, Q!Change, Q!MayChange, Counting, Dropping
<1>3. /\ impl' = impl /\ text' = text /\ entry' = [entry EXCEPT ![i] = s]
      /\ entry[i] \in {s, None}
      /\ \A j \in IMPL : j # i => entry[j] # s
  BY DEF Q!Intern, Q!Found, OneEntryEach
<1>4. Entries'
  BY <1>3 DEF Entries, StringTypes
<1>5. OneEntryEach'
  BY <1>3 DEF OneEntryEach, StringTypes
<1>6. Pending(t)'
  BY <1>1, <1>3 DEF Pending, Counting, Dropping, StringTypes
<1>7. ASSUME NEW j \in IMPL, entry'[j] # None
      PROVE  count'[j] = Cardinality(Holders(j)') + Extra(t, j)'
  <2>1. Holders(j)' = Holders(j)
    BY <1>3 DEF Holders
  <2>2. Extra(t, j) = 0 /\ Extra(t, j)' = 0
    BY <1>1 DEF Extra, Dropping
  <2>3. CASE entry[j] # None
    <3>1. count'[j] = count[j]
      BY <2>3 DEF Q!Intern, StringTypes
    <3> QED BY <2>1, <2>2, <2>3, <3>1 DEF Counted
  <2>4. CASE entry[j] = None
    <3>1. j = i /\ count'[j] = 0
      BY <1>3, <1>7, <2>4 DEF Q!Intern, StringTypes
    <3>2. Holders(j) = {}
      BY <2>4, <1>1 DEF Holders, Entries
    <3> QED BY <2>1, <2>2, <3>1, <3>2, FS_EmptySet
  <2> QED BY <2>3, <2>4
<1>8. Positive(t)'
  BY <1>1, <1>3 DEF Positive, Q!Intern, StringTypes, Counting
<1> QED BY <1>0, <1>2, <1>4, <1>5, <1>6, <1>7, <1>8 DEF Counted

\* Copying and clearing begin with what there is.
LEMMA BeginInv ==
  ASSUME Program, NEW t \in THREAD, StringInv(t), NEW q \in QUARK,
         Q!Clear(t, q) \/ \E p \in QUARK : Q!Assign(t, q, p)
  PROVE  StringInv(t)'
<1>0. Alone(t)'
  BY AloneKept DEF Begins
<1> USE DEF StringInv, Program, Calls
<1>1. UNCHANGED <<impl, entry, count, text>> /\ call[t].stage = "idle"
  BY DEF Q!Clear, Q!Assign, Q!MayChange, Q!Stage
<1>2. PICK new \in IMPL \cup {None}, of \in STRING_ \cup {None}, st \in {"load", "unload"} :
        /\ call' = [call EXCEPT ![t] =
                     [stage |-> st, q |-> q, new |-> new, of |-> of, n |-> 0]]
        /\ IF new = None THEN of = None ELSE of # None /\ entry[new] = of
        /\ st = "load" => new # None
        /\ st = "unload" => new = None /\ impl[q] # None
  <2>1. CASE Q!Clear(t, q)
    BY <2>1 DEF Q!Clear, Q!Change
  <2>2. ASSUME NEW p \in QUARK, Q!Assign(t, q, p)
        PROVE  /\ impl[p] \in IMPL /\ text[p] \in STRING_ \cup {None}
               /\ impl[p] # None /\ text[p] # None /\ entry[impl[p]] = text[p]
               /\ call' = [call EXCEPT ![t] =
                    [stage |-> "load", q |-> q, new |-> impl[p], of |-> text[p], n |-> 0]]
    BY <2>2 DEF Q!Assign, Q!Change, Entries, StringTypes
  <2> QED BY <2>1, <2>2
<1>3. call[t]' = [stage |-> st, q |-> q, new |-> new, of |-> of, n |-> 0]
  BY <1>2 DEF StringTypes
<1>4. StringTypes'
  BY <1>1, <1>2 DEF StringTypes, Counting, Dropping
<1>5. Pending(t)'
  BY <1>1, <1>2, <1>3 DEF Pending, Counting, Dropping
<1>6. ASSUME NEW i \in IMPL
      PROVE  Extra(t, i) = 0 /\ Extra(t, i)' = 0 /\ Holders(i)' = Holders(i)
  BY <1>1, <1>2, <1>3 DEF Extra, Holders, Dropping
<1>7. Entries' /\ OneEntryEach'
  BY <1>1 DEF Entries, OneEntryEach
<1>8. Counted(t)' /\ Positive(t)'
  BY <1>1, <1>6 DEF Counted, Positive, Counting
<1> QED BY <1>0, <1>4, <1>5, <1>7, <1>8

\* What the thread is doing, as far as the types say.
LEMMA Doing ==
  ASSUME Program, NEW t \in THREAD, StringInv(t), call[t].stage # "idle"
  PROVE  /\ call[t] \in Calls
         /\ impl[call[t].q] \in IMPL \cup {None}
BY DEF Program, StringInv, StringTypes, Q!Idle, Calls

\* One step of the call keeps its type.
LEMMA CallTyped ==
  ASSUME StringTypes, NEW t \in THREAD, NEW c \in Calls, call' = [call EXCEPT ![t] = c]
  PROVE  call' \in [THREAD -> {Q!Idle} \cup Calls]
BY DEF StringTypes

\* Reading a count changes nothing else.
LEMMA LoadInv ==
  ASSUME Program, NEW t \in THREAD, StringInv(t), Q!Load(t)
  PROVE  StringInv(t)'
<1>0. Alone(t)'
  BY AloneKept DEF GoesOn
<1> USE DEF StringInv, Program, Calls
<1>1. UNCHANGED <<impl, entry, count, text>> /\ call[t].stage \in {"load", "unload"}
  BY DEF Q!Load, Q!Stage
<1>2. /\ call[t] \in Calls
      /\ impl[call[t].q] \in IMPL \cup {None}
  BY <1>1, Doing
<1>3. CASE call[t].stage = "load"
  <2>1. call[t].new \in IMPL
    BY <1>2, <1>3 DEF Pending, Counting
  <2>2. /\ call[t]' = [call[t] EXCEPT !.stage = "store", !.n = count[call[t].new]]
        /\ count[call[t].new] \in Nat
    BY <1>2, <1>3, <2>1 DEF Q!Load, Q!Stage, StringTypes
  <2>3. call' = [call EXCEPT ![t] = call[t]'] /\ call[t]' \in
          Calls
    <3>1. call' = [call EXCEPT ![t] = call[t]']
      BY <1>3 DEF Q!Load, Q!Stage, StringTypes
    <3> QED BY <3>1, <1>2, <2>2 DEF Counting
  <2>4. StringTypes'
    BY <1>1, <2>3 DEF StringTypes
  <2>5. Pending(t)'
    BY <1>1, <1>2, <1>3, <2>2 DEF Pending, Counting, Dropping
  <2>6. ASSUME NEW i \in IMPL
        PROVE  Extra(t, i) = 0 /\ Extra(t, i)' = 0 /\ Holders(i)' = Holders(i)
    BY <1>1, <1>2, <1>3, <2>2 DEF Extra, Holders, Dropping
  <2>7. Counted(t)'
    BY <1>1, <2>6 DEF Counted
  <2>8. Positive(t)'
    BY <1>1, <1>2, <1>3, <2>2 DEF Positive, Counting
  <2> QED BY <1>0, <1>1, <2>4, <2>5, <2>7, <2>8 DEF Entries, OneEntryEach
<1>4. CASE call[t].stage = "unload"
  <2>1. impl[call[t].q] \in IMPL
    BY <1>2, <1>4 DEF Pending, Dropping
  <2>2. /\ call[t]' = [call[t] EXCEPT !.stage = "unstore", !.n = count[impl[call[t].q]]]
        /\ count[impl[call[t].q]] \in Nat
    BY <1>2, <1>4, <2>1 DEF Q!Load, Q!Stage, Q!Old, StringTypes
  <2>3. call' = [call EXCEPT ![t] = call[t]'] /\ call[t]' \in
          Calls
    <3>1. call' = [call EXCEPT ![t] = call[t]']
      BY <1>4 DEF Q!Load, Q!Stage, StringTypes
    <3> QED BY <3>1, <1>2, <2>2 DEF Dropping
  <2>4. StringTypes'
    BY <1>1, <2>3 DEF StringTypes
  <2>5. Pending(t)'
    BY <1>1, <1>2, <1>4, <2>2 DEF Pending, Counting, Dropping
  <2>6. ASSUME NEW i \in IMPL
        PROVE  Extra(t, i)' = Extra(t, i) /\ Holders(i)' = Holders(i)
    BY <1>1, <1>2, <1>4, <2>2 DEF Extra, Holders, Dropping
  <2>7. Counted(t)'
    BY <1>1, <2>6 DEF Counted
  <2>8. Positive(t)'
    BY <1>1, <1>2, <1>4, <2>2 DEF Positive, Counting
  <2> QED BY <1>0, <1>1, <2>4, <2>5, <2>7, <2>8 DEF Entries, OneEntryEach
<1> QED BY <1>1, <1>3, <1>4

\* The call returns: q holds the new entry, and nothing is pending.
LEMMA ReturnTypes ==
  ASSUME Program, NEW t \in THREAD, StringInv(t), call[t].stage # "idle", Q!Return(t)
  PROVE  /\ call[t]' = Q!Idle /\ Pending(t)'
         /\ impl' \in [QUARK -> IMPL \cup {None}]
         /\ text' \in [QUARK -> STRING_ \cup {None}]
         /\ call' \in [THREAD -> {Q!Idle} \cup Calls]
         /\ \A i \in IMPL : Extra(t, i)' = 0
         /\ \A i \in IMPL :
              Cardinality(Holders(i)') = Cardinality(Holders(i))
                - (IF impl[call[t].q] = i THEN 1 ELSE 0) + (IF call[t].new = i THEN 1 ELSE 0)
<1> USE DEF StringInv, Program, Calls
<1>1. call[t] \in Calls
  BY Doing
<1>2. /\ impl' = [impl EXCEPT ![call[t].q] = call[t].new]
      /\ text' = [text EXCEPT ![call[t].q] = call[t].of]
      /\ call' = [call EXCEPT ![t] = Q!Idle]
  BY DEF Q!Return
<1>3. call[t]' = Q!Idle /\ call' \in [THREAD -> {Q!Idle} \cup Calls]
  BY <1>2 DEF StringTypes
<1>4. Pending(t)' /\ \A i \in IMPL : Extra(t, i)' = 0
  BY <1>3 DEF Pending, Extra, Q!Idle, Counting, Dropping
<1>5. impl' \in [QUARK -> IMPL \cup {None}] /\ text' \in [QUARK -> STRING_ \cup {None}]
  BY <1>1, <1>2 DEF StringTypes
<1>6. ASSUME NEW i \in IMPL
      PROVE  Cardinality(Holders(i)') = Cardinality(Holders(i))
               - (IF impl[call[t].q] = i THEN 1 ELSE 0) + (IF call[t].new = i THEN 1 ELSE 0)
  <2>1. StringTypes
    OBVIOUS
  <2>2. PICK q \in QUARK, v \in IMPL \cup {None} : q = call[t].q /\ v = call[t].new
    BY <1>1
  <2> HIDE DEF StringInv, Program, Calls
  <2>3. impl' = [impl EXCEPT ![q] = v]
    BY <1>2, <2>2
  <2>4. Cardinality(Holders(i)') = Cardinality(Holders(i))
          - (IF impl[q] = i THEN 1 ELSE 0) + (IF v = i THEN 1 ELSE 0)
    BY <2>1, <2>3, HoldersMove
  <2> QED BY <2>2, <2>4
<1> QED BY <1>3, <1>4, <1>5, <1>6

\* The new string is counted: with its holder, if q had none before, or for
\* the holder to come.
LEMMA StoreInv ==
  ASSUME Program, NEW t \in THREAD, StringInv(t), Q!Store(t)
  PROVE  StringInv(t)'
<1>0. Alone(t)'
  BY AloneKept DEF GoesOn
<1> USE DEF StringInv, Program, Calls
<1>1. call[t].stage = "store"
  BY DEF Q!Store, Q!Stage
<1>2. /\ call[t] \in Calls
      /\ impl[call[t].q] \in IMPL \cup {None}
  BY <1>1, Doing
<1>3. /\ call[t].new \in IMPL /\ call[t].new # None /\ call[t].of # None
      /\ entry[call[t].new] = call[t].of /\ call[t].n = count[call[t].new]
  BY <1>1, <1>2 DEF Pending, Counting
<1>4. /\ entry' = entry /\ count' = [count EXCEPT ![call[t].new] = count[call[t].new] + 1]
      /\ count' \in [IMPL -> Nat]
  BY <1>3 DEF Q!Store, StringTypes
<1>5. OneEntryEach'
  BY <1>4 DEF OneEntryEach
<1>6. \A i \in IMPL : Extra(t, i) = 0
  BY <1>1 DEF Extra, Dropping
<1>7. \A i \in IMPL : Cardinality(Holders(i)) \in Nat
  BY HoldersFinite
<1>8. CASE Q!Old(t) = None /\ Q!Return(t)
  <2>1. /\ call[t]' = Q!Idle /\ Pending(t)'
        /\ impl' \in [QUARK -> IMPL \cup {None}]
        /\ text' \in [QUARK -> STRING_ \cup {None}]
        /\ call' \in [THREAD -> {Q!Idle} \cup Calls]
        /\ \A i \in IMPL : Extra(t, i)' = 0
        /\ \A i \in IMPL :
             Cardinality(Holders(i)') = Cardinality(Holders(i))
               - (IF impl[call[t].q] = i THEN 1 ELSE 0) + (IF call[t].new = i THEN 1 ELSE 0)
    BY <1>1, <1>8, ReturnTypes
  <2>2. StringTypes'
    BY <1>4, <2>1 DEF StringTypes
  <2>3. impl[call[t].q] = None
    BY <1>8 DEF Q!Old
  <2>4. Entries'
    BY <1>2, <1>3, <1>4, <1>8 DEF Entries, Q!Return, StringTypes
  <2>5. ASSUME NEW i \in IMPL, entry'[i] # None
        PROVE  count'[i] = Cardinality(Holders(i)') + Extra(t, i)'
    <3>1. count[i] = Cardinality(Holders(i))
      BY <1>4, <1>6, <1>7, <2>5 DEF Counted, StringTypes
    <3>2. Cardinality(Holders(i)') = Cardinality(Holders(i)) + (IF call[t].new = i THEN 1 ELSE 0)
      BY <1>7, <2>1, <2>3
    <3> QED BY <1>4, <1>7, <2>1, <3>1, <3>2 DEF StringTypes
  <2>6. Positive(t)'
    BY <1>1, <1>4 DEF Positive, StringTypes
  <2> QED BY <1>0, <1>5, <2>1, <2>2, <2>4, <2>5, <2>6 DEF Counted
<1>9. CASE /\ Q!Old(t) # None /\ call' = [call EXCEPT ![t].stage = "unload"]
           /\ UNCHANGED <<impl, text>>
  <2>1. /\ call[t]' = [call[t] EXCEPT !.stage = "unload"] /\ impl[call[t].q] # None
        /\ call' = [call EXCEPT ![t] = call[t]']
    BY <1>9, <1>2 DEF Q!Old, StringTypes
  <2>2. call[t]' \in Calls
    BY <1>2, <2>1 DEF Dropping
  <2>3. StringTypes'
    <3>1. call' \in [THREAD -> {Q!Idle} \cup Calls]
      BY <2>1, <2>2, CallTyped
    <3> HIDE DEF Calls
    <3> QED BY <1>4, <1>9, <3>1 DEF StringTypes
  <2>4. Entries'
    BY <1>4, <1>9 DEF Entries
  <2>5. Pending(t)'
    BY <1>2, <1>3, <1>4, <1>9, <2>1 DEF Pending, Counting, Dropping
  <2>6. ASSUME NEW i \in IMPL, entry'[i] # None
        PROVE  count'[i] = Cardinality(Holders(i)') + Extra(t, i)'
    <3>1. Holders(i)' = Holders(i)
      BY <1>9 DEF Holders
    <3>2. Extra(t, i)' = IF i = call[t].new THEN 1 ELSE 0
      BY <1>2, <2>1 DEF Extra, Dropping
    <3>3. count[i] = Cardinality(Holders(i))
      BY <1>4, <1>6, <1>7, <2>6 DEF Counted, StringTypes
    <3> QED BY <1>4, <1>7, <3>1, <3>2, <3>3 DEF StringTypes
  <2>7. Positive(t)'
    BY <1>1, <1>4 DEF Positive, StringTypes
  <2> QED BY <1>0, <1>5, <2>3, <2>4, <2>5, <2>6, <2>7 DEF Counted
<1> QED BY <1>8, <1>9 DEF Q!Store

\* The old string is counted no more.  If q was not the last to have it the
\* call is over.
LEMMA UnstoreInv ==
  ASSUME Program, NEW t \in THREAD, StringInv(t), Q!Unstore(t)
  PROVE  StringInv(t)'
<1>0. Alone(t)'
  BY AloneKept DEF GoesOn
<1> USE DEF StringInv, Program, Calls
<1>1. call[t].stage = "unstore"
  BY DEF Q!Unstore, Q!Stage
<1>2. /\ call[t] \in Calls
      /\ impl[call[t].q] \in IMPL \cup {None}
  BY <1>1, Doing
<1> DEFINE old == impl[call[t].q]
<1>3. old \in IMPL /\ old # None /\ call[t].n = count[old]
  BY <1>1, <1>2 DEF Pending, Dropping
<1>4. /\ entry' = entry /\ count[old] > 0
      /\ count' = [count EXCEPT ![old] = count[old] - 1]
      /\ count' \in [IMPL -> Nat]
  BY <1>3 DEF Q!Unstore, Q!Old, StringTypes
<1>5. OneEntryEach'
  BY <1>4 DEF OneEntryEach
<1>6. \A i \in IMPL : Extra(t, i) = IF i = call[t].new THEN 1 ELSE 0
  BY <1>1 DEF Extra, Dropping
<1>7. \A i \in IMPL : Cardinality(Holders(i)) \in Nat
  BY HoldersFinite
<1>8. CASE call[t].n > 1 /\ Q!Return(t)
  <2>1. /\ call[t]' = Q!Idle /\ Pending(t)'
        /\ impl' \in [QUARK -> IMPL \cup {None}]
        /\ text' \in [QUARK -> STRING_ \cup {None}]
        /\ call' \in [THREAD -> {Q!Idle} \cup Calls]
        /\ \A i \in IMPL : Extra(t, i)' = 0
        /\ \A i \in IMPL :
             Cardinality(Holders(i)') = Cardinality(Holders(i))
               - (IF impl[call[t].q] = i THEN 1 ELSE 0) + (IF call[t].new = i THEN 1 ELSE 0)
    BY <1>1, <1>8, ReturnTypes
  <2>2. StringTypes'
    BY <1>4, <2>1 DEF StringTypes
  <2>3. Entries'
    BY <1>1, <1>2, <1>4, <1>8 DEF Entries, Pending, Dropping, Q!Return, StringTypes
  <2>4. ASSUME NEW i \in IMPL, entry'[i] # None
        PROVE  count'[i] = Cardinality(Holders(i)') + Extra(t, i)'
    <3>1. count[i] = Cardinality(Holders(i)) + (IF i = call[t].new THEN 1 ELSE 0)
      BY <1>4, <1>6, <2>4 DEF Counted
    <3> QED BY <1>4, <1>7, <2>1, <3>1 DEF StringTypes
  <2>5. Positive(t)'
    BY <1>1, <1>3, <1>4, <1>8 DEF Positive, StringTypes, Counting
  <2> QED BY <1>0, <1>5, <2>1, <2>2, <2>3, <2>4, <2>5 DEF Counted
<1>9. CASE /\ call[t].n = 1 /\ call' = [call EXCEPT ![t].stage = "erase"]
           /\ UNCHANGED <<impl, text>>
  <2>1. /\ call[t]' = [call[t] EXCEPT !.stage = "erase"]
        /\ call' = [call EXCEPT ![t] = call[t]']
    BY <1>9, <1>2 DEF StringTypes
  <2>2. call[t]' \in Calls
    BY <1>2, <2>1 DEF Dropping
  <2>3. StringTypes'
    <3>1. call' \in [THREAD -> {Q!Idle} \cup Calls]
      BY <2>1, <2>2, CallTyped
    <3> HIDE DEF Calls
    <3> QED BY <1>4, <1>9, <3>1 DEF StringTypes
  <2>4. Entries'
    BY <1>4, <1>9 DEF Entries
  <2>5. count'[old] = 0
    BY <1>3, <1>4, <1>9 DEF StringTypes
  <2>6. Pending(t)'
    BY <1>1, <1>2, <1>3, <1>4, <1>9, <2>1, <2>5 DEF Pending, Counting, Dropping
  <2>7. ASSUME NEW i \in IMPL, entry'[i] # None
        PROVE  count'[i] = Cardinality(Holders(i)') + Extra(t, i)'
    <3>1. Holders(i)' = Holders(i)
      BY <1>9 DEF Holders
    <3>2. Extra(t, i)' = (IF i = call[t].new THEN 1 ELSE 0) - (IF i = old THEN 1 ELSE 0)
      BY <1>2, <1>9, <2>1 DEF Extra, Dropping
    <3>3. count[i] = Cardinality(Holders(i)) + (IF i = call[t].new THEN 1 ELSE 0)
      BY <1>4, <1>6, <2>7 DEF Counted
    <3> QED BY <1>3, <1>4, <1>7, <3>1, <3>2, <3>3 DEF StringTypes
  <2>8. Positive(t)'
    BY <1>1, <1>2, <1>3, <1>4, <1>9, <2>1 DEF Positive, StringTypes, Counting
  <2> QED BY <1>0, <1>5, <2>3, <2>4, <2>6, <2>7, <2>8 DEF Counted
<1> QED BY <1>8, <1>9 DEF Q!Unstore

\* The old string has no holder but q, which leaves it.
LEMMA EraseInv ==
  ASSUME Program, NEW t \in THREAD, StringInv(t), Q!Erase(t)
  PROVE  StringInv(t)'
<1>0. Alone(t)'
  BY AloneKept DEF GoesOn
<1> USE DEF StringInv, Program, Calls
<1>1. call[t].stage = "erase"
  BY DEF Q!Erase, Q!Stage
<1>2. call[t] \in Calls /\ impl[call[t].q] \in IMPL \cup {None}
  BY <1>1, Doing
<1> DEFINE old == impl[call[t].q]
<1>3. old \in IMPL /\ old # None /\ count[old] = 0
  BY <1>1, <1>2 DEF Pending, Dropping
<1>4. /\ count' = count /\ entry' = [entry EXCEPT ![old] = None]
      /\ entry' \in [IMPL -> STRING_ \cup {None}] /\ Q!Return(t)
  BY <1>3 DEF Q!Erase, Q!Old, StringTypes
<1>5. /\ call[t]' = Q!Idle /\ Pending(t)'
      /\ impl' \in [QUARK -> IMPL \cup {None}]
      /\ text' \in [QUARK -> STRING_ \cup {None}]
      /\ call' \in [THREAD -> {Q!Idle} \cup Calls]
      /\ \A i \in IMPL : Extra(t, i)' = 0
      /\ \A i \in IMPL :
           Cardinality(Holders(i)') = Cardinality(Holders(i))
             - (IF impl[call[t].q] = i THEN 1 ELSE 0) + (IF call[t].new = i THEN 1 ELSE 0)
  BY <1>1, <1>4, ReturnTypes
<1>6. StringTypes'
  BY <1>4, <1>5 DEF StringTypes
<1>7. entry[old] # None
  BY <1>2, <1>3 DEF Entries
<1>8. \A i \in IMPL : Cardinality(Holders(i)) \in Nat
  BY HoldersFinite
<1>9. \A i \in IMPL : Extra(t, i) = (IF i = call[t].new THEN 1 ELSE 0) - (IF i = old THEN 1 ELSE 0)
  BY <1>1 DEF Extra, Dropping
<1>10. /\ call[t].new # old /\ \A p \in QUARK : impl[p] = old => p = call[t].q
  <2>1. /\ Cardinality(Holders(old)) >= 1
        /\ Cardinality(Holders(old)) = 1 => \A p \in QUARK : impl[p] = old => p = call[t].q
    BY <1>2, HoldersCount
  <2>2. 0 = Cardinality(Holders(old)) + (IF old = call[t].new THEN 1 ELSE 0) - 1
    BY <1>3, <1>7, <1>8, <1>9 DEF Counted
  <2> QED BY <1>3, <1>8, <2>1, <2>2
<1>11. Entries'
  BY <1>1, <1>2, <1>3, <1>4, <1>10 DEF Entries, Pending, Dropping, Q!Return, StringTypes
<1>12. OneEntryEach'
  BY <1>3, <1>4 DEF OneEntryEach, StringTypes
<1>13. ASSUME NEW i \in IMPL, entry'[i] # None
       PROVE  count'[i] = Cardinality(Holders(i)') + Extra(t, i)'
  <2>1. i # old /\ entry[i] # None
    BY <1>3, <1>4, <1>13 DEF StringTypes
  <2>2. count[i] = Cardinality(Holders(i)) + (IF i = call[t].new THEN 1 ELSE 0)
    BY <1>8, <1>9, <2>1 DEF Counted
  <2> QED BY <1>4, <1>5, <1>8, <2>1, <2>2
<1>14. Positive(t)'
  BY <1>1, <1>3, <1>4 DEF Positive, StringTypes, Counting
<1> QED BY <1>0, <1>5, <1>6, <1>11, <1>12, <1>13, <1>14 DEF Counted

\* While nobody is in a call, any thread will do.
LEMMA AnyThread ==
  ASSUME NEW t \in THREAD, StringInv(t), call[t].stage = "idle", NEW u \in THREAD
  PROVE  StringInv(u)
<1>1. \A v \in THREAD : call[v] = Q!Idle
  BY DEF StringInv, StringTypes, Alone, Calls, Counting, Dropping
<1>2. call[u] = call[t] /\ Alone(u)
  BY <1>1 DEF Alone
<1> QED BY <1>2 DEF StringInv, Pending, Counted, Positive, Extra

\* A step of the thread that is in a call, or of any if none is, keeps the
\* invariant.
LEMMA StepInv ==
  ASSUME Program, NEW t \in THREAD, StringInv(t), Begins(t) \/ GoesOn(t)
  PROVE  StringInv(t)'
<1>1. CASE Begins(t)
  BY <1>1, InternInv, BeginInv DEF Begins
<1>2. CASE GoesOn(t)
  BY <1>2, LoadInv, StoreInv, UnstoreInv, EraseInv DEF GoesOn
<1> QED BY <1>1, <1>2

\* A step after which no two calls have overlapped is one of those.
LEMMA ApartNext ==
  ASSUME Program PROVE ApartInv /\ [Q!Next]_Q!vars => ApartInv'
<1> SUFFICES ASSUME ApartInv, [Q!Next]_Q!vars, apart' PROVE \E t \in THREAD : StringInv(t)'
  BY DEF ApartInv
<1>1. ASSUME NEW u \in THREAD, Begins(u) \/ GoesOn(u)
      PROVE  \E t \in THREAD : StringInv(t)'
  <2>1. /\ apart
        /\ Begins(u) => \A v \in THREAD : call[v].stage = "idle"
        /\ GoesOn(u) => call[u].stage # "idle"
    BY <1>1 DEF Begins, GoesOn, Q!Intern, Q!Assign, Q!Clear, Q!Change, Q!Load, Q!Store,
                Q!Unstore, Q!Erase, Q!Stage
  <2>2. PICK t \in THREAD : StringInv(t)
    BY <2>1 DEF ApartInv
  <2>3. u = t \/ call[u].stage = "idle"
    BY <2>2 DEF StringInv, Alone, Q!Idle
  <2>4. StringInv(u)
    BY <1>1, <2>1, <2>2, <2>3, AnyThread
  <2> QED BY <1>1, <2>4, StepInv
<1>2. CASE UNCHANGED Q!vars
  <2>1. PICK t \in THREAD : StringInv(t)
    BY <1>2 DEF Q!vars, ApartInv
  <2>2. StringInv(t)'
    BY <1>2, <2>1 DEF Q!vars, StringInv, StringTypes, Alone, Entries, OneEntryEach, Pending,
                      Counted, Positive, Holders, Extra
  <2> QED BY <2>2
<1>3. Q!Next => \E u \in THREAD : Begins(u) \/ GoesOn(u)
  BY DEF Q!Next, Begins, GoesOn
<1> QED BY <1>1, <1>2, <1>3

\* So it holds in every behaviour, until calls overlap.
LEMMA ApartInvariance == ASSUME Program PROVE Q!Spec => []ApartInv
<1>1. Q!Init => ApartInv
  BY StringInvInit DEF ApartInv, Program
<1>2. ApartInv /\ [Q!Next]_Q!vars => ApartInv'
  BY ApartNext
<1> QED BY <1>1, <1>2, PTL DEF Q!Spec

----------------------------------------------------------------------------

\* In any number of threads, until two of them are in a call at once, the
\* string of a Quark is kept.
THEOREM StringsCorrect == ASSUME Program PROVE Q!Spec => [](apart => Q!StringsKept)
<1>1. ApartInv => (apart => Q!StringsKept)
  BY DEF ApartInv, StringInv, Entries, Q!StringsKept
<1> QED BY <1>1, ApartInvariance, PTL

\* In any number of threads, until two of them are in a call at once, comparing
\* addresses is comparing strings.
THEOREM EqualityCorrect == ASSUME Program PROVE Q!Spec => [](apart => Q!EqualAsStrings)
<1>1. ApartInv => (apart => Q!EqualAsStrings)
  <2> SUFFICES ASSUME NEW t \in THREAD, StringInv(t), NEW p \in QUARK, NEW q \in QUARK
               PROVE  impl[p] = impl[q] <=> text[p] = text[q]
    BY DEF ApartInv, Q!EqualAsStrings
  <2>1. /\ IF impl[p] = None THEN text[p] = None
            ELSE text[p] # None /\ entry[impl[p]] = text[p] /\ impl[p] \in IMPL
        /\ IF impl[q] = None THEN text[q] = None
            ELSE text[q] # None /\ entry[impl[q]] = text[q] /\ impl[q] \in IMPL
    BY DEF StringInv, Entries, StringTypes
  <2> QED BY <2>1 DEF StringInv, OneEntryEach
<1> QED BY <1>1, ApartInvariance, PTL

\* In any number of threads, until two of them are in a call at once, no string
\* outlives its last Quark.
THEOREM NoLeaks == ASSUME Program PROVE Q!Spec => [](apart => Q!NothingLeaks)
<1>1. Program /\ ApartInv => (apart => Q!NothingLeaks)
  <2> SUFFICES ASSUME Program, NEW t \in THREAD, StringInv(t), call[t].stage = "idle",
                      NEW i \in IMPL, entry[i] # None
               PROVE  \E q \in QUARK : impl[q] = i
    BY DEF ApartInv, Q!NothingLeaks, Q!Stage
  <2>1. Extra(t, i) = 0 /\ count[i] > 0
    BY DEF StringInv, Extra, Positive, Counting, Dropping
  <2>2. Cardinality(Holders(i)) # 0
    BY <2>1, HoldersFinite DEF StringInv, Counted
  <2> QED BY <2>2, HoldersFinite, FS_EmptySet DEF Holders
<1> QED BY <1>1, ApartInvariance, PTL
=============================================================================
