----------------------------- MODULE WorkerPool -----------------------------
(***************************************************************************)
(* The threads that open sockets, decode and encode                        *)
(* (pan/general/worker-pool.cc), with those who use them: the one decoder  *)
(* and the one encoder, which Queue lends to a task at a time, and a       *)
(* worker for each socket, which is deleted when it has reported.  A job   *)
(* waits, runs in a thread, and is reported by an idle callback of the     *)
(* main loop, whose listener may push the next job.  It ends as main() in  *)
(* pan.cc does.                                                            *)
(***************************************************************************)
EXTENDS Integers, FiniteSets

CONSTANTS CODER,        \* Queue's _decoder and _encoder
          OPENER,       \* the ThreadWorkers that open sockets
          MaxThreads    \* threads of the pool

WORKER == CODER \cup OPENER

ASSUME WorkerPoolAssumption ==
  /\ CODER \cap OPENER = {}
  /\ IsFiniteSet(WORKER)
  /\ MaxThreads \in Nat \ {0}

VARIABLES
  waiting, running, done,  \* how often each worker waits, runs, is to report
  my_workers,              \* the pool's register
  alive,                   \* the workers that exist
  lent,                    \* coders a task has (_decoder_task, _encoder_task)
  cancelled, silent,       \* Worker's flags
  asked,                   \* jobs that somebody wanted cancelled
  phase                    \* "loop", "quit", "queueless", "freeing", "over"

jobs == <<waiting, running, done>>
vars == <<jobs, my_workers, alive, lent, cancelled, silent, asked, phase>>

Init ==
  /\ waiting = [w \in WORKER |-> 0] /\ running = waiting /\ done = waiting
  /\ my_workers = {} /\ alive = CODER /\ lent = {}
  /\ cancelled = [w \in WORKER |-> FALSE] /\ silent = cancelled
  /\ asked = {}
  /\ phase = "loop"

Threads == Cardinality({w \in WORKER : running[w] > 0})
Busy == {w \in WORKER : waiting[w] + running[w] + done[w] > 0}

\* push_work, of each of some workers.  The flags keep what the last job left.
BadPushed(workers) ==
  /\ waiting' = [w \in WORKER |-> waiting[w] + IF w \in workers THEN 1 ELSE 0]
  /\ UNCHANGED <<cancelled, silent>>

\* push_work, of each of some workers
Pushed(workers) ==
  /\ waiting' = [w \in WORKER |-> waiting[w] + IF w \in workers THEN 1 ELSE 0]
  /\ cancelled' = [w \in WORKER |-> cancelled[w] /\ w \notin workers]
  /\ silent' = [w \in WORKER |-> silent[w] /\ w \notin workers]

\* Who may be pushed: a coder that no task has, or a worker made for the job.
Free(w, who) == IF w \in CODER THEN w \notin who ELSE w \notin alive

\* A timer or the user sets a job going.
Push(w) ==
  /\ phase = "loop" /\ Free(w, lent)
  /\ Pushed({w})
  /\ my_workers' = my_workers \cup {w} /\ alive' = alive \cup {w}
  /\ lent' = lent \cup ({w} \cap CODER)
  /\ UNCHANGED <<running, done, asked, phase>>

\* A job that was cancelled while it waited is passed over.
BadStart(w) ==
  /\ waiting[w] > 0 /\ Threads < MaxThreads /\ ~ cancelled[w]
  /\ waiting' = [waiting EXCEPT ![w] = @ - 1]
  /\ running' = [running EXCEPT ![w] = @ + 1]
  /\ UNCHANGED <<done, my_workers, alive, lent, cancelled, silent, asked, phase>>

\* A thread takes a job that waits (GThreadPool).
Start(w) ==
  /\ waiting[w] > 0 /\ Threads < MaxThreads
  /\ waiting' = [waiting EXCEPT ![w] = @ - 1]
  /\ running' = [running EXCEPT ![w] = @ + 1]
  /\ UNCHANGED <<done, my_workers, alive, lent, cancelled, silent, asked, phase>>

\* worker_thread_func: do_work returns.
Finish(w) ==
  /\ running[w] > 0
  /\ running' = [running EXCEPT ![w] = @ - 1]
  /\ done' = [done EXCEPT ![w] = @ + 1]
  /\ UNCHANGED <<waiting, my_workers, alive, lent, cancelled, silent, asked, phase>>

\* The coder is free as soon as its job is cancelled.
BadCancel(w) ==
  /\ phase = "loop" /\ w \in lent
  /\ cancelled' = [cancelled EXCEPT ![w] = TRUE]
  /\ asked' = asked \cup {w} /\ lent' = lent \ {w}
  /\ UNCHANGED <<jobs, my_workers, alive, silent, phase>>

\* stop: the task that has the coder is stopped.
Cancel(w) ==
  /\ phase = "loop" /\ w \in lent
  /\ cancelled' = [cancelled EXCEPT ![w] = TRUE]
  /\ asked' = asked \cup {w}
  /\ UNCHANGED <<jobs, my_workers, alive, lent, silent, phase>>

\* Workers that delete themselves stay in the register.
BadUnregistered(w, pushed) ==
  IF w \in OPENER THEN my_workers \cup pushed ELSE (my_workers \cup pushed) \ {w}

\* What the listener has pushed is registered, then w is not.
Unregistered(w, pushed) == (my_workers \cup pushed) \ {w}

\* main_thread_cleanup.  The coder is checked in to the queue, which may give
\* it to the next task at once; an opened socket may lead to another.
Cleanup(w, pushed) ==
  /\ phase = "loop" /\ done[w] > 0
  /\ \A x \in pushed : Free(x, lent \ {w})
  /\ done' = [done EXCEPT ![w] = @ - 1]
  /\ Pushed(pushed)
  /\ my_workers' = Unregistered(w, pushed)
  /\ alive' = (alive \cup pushed) \ ({w} \cap OPENER)
  /\ lent' = (lent \ {w}) \cup (pushed \cap CODER)
  /\ asked' = asked \ {w}
  /\ UNCHANGED <<running, phase>>

\* The main loop has ended; cancel_all_silently follows.
Quit ==
  /\ phase = "loop" /\ phase' = "quit"
  /\ cancelled' = [w \in WORKER |-> cancelled[w] \/ w \in my_workers]
  /\ silent' = [w \in WORKER |-> silent[w] \/ w \in my_workers]
  /\ UNCHANGED <<jobs, my_workers, alive, lent, asked>>

\* ~Queue: each task cancels the job of its coder, then the coders go.
DestroyQueue ==
  /\ phase = "quit" /\ phase' = "queueless"
  /\ cancelled' = [w \in WORKER |-> cancelled[w] \/ w \in lent]
  /\ silent' = [w \in WORKER |-> silent[w] \/ w \in lent]
  /\ alive' = alive \ CODER /\ lent' = {}
  /\ UNCHANGED <<jobs, my_workers, asked>>

\* ~WorkerPool cancels what is registered, and waits for the threads.
DestroyPool ==
  /\ phase = "queueless" /\ phase' = "freeing"
  /\ cancelled' = [w \in WORKER |-> cancelled[w] \/ w \in my_workers]
  /\ UNCHANGED <<jobs, my_workers, alive, lent, silent, asked>>

\* g_thread_pool_free (tpool, false, true): jobs that wait are run as well.
NothingRuns == \A w \in WORKER : waiting[w] = 0 /\ running[w] = 0

Over ==
  /\ phase = "freeing" /\ NothingRuns /\ phase' = "over"
  /\ UNCHANGED <<jobs, my_workers, alive, lent, cancelled, silent, asked>>

Next ==
  \/ \E w \in WORKER :
       \/ Push(w) \/ Start(w) \/ Finish(w) \/ Cancel(w)
       \/ \E pushed \in SUBSET WORKER : Cleanup(w, pushed)
  \/ Quit \/ DestroyQueue \/ DestroyPool \/ Over

Spec == Init /\ [][Next]_vars

\* Jobs are started in the order they were pushed, each is worked off, and the
\* main loop makes every callback; at the end main() goes on.
FairSpec ==
  /\ Spec
  /\ \A w \in WORKER :
       /\ SF_vars(Start(w)) /\ WF_vars(Finish(w))
       /\ WF_vars(\E pushed \in SUBSET WORKER : Cleanup(w, pushed))
  /\ WF_vars(DestroyQueue \/ DestroyPool \/ Over)

----------------------------------------------------------------------------

\* A worker, which has one set of flags and results, never has two jobs: the
\* next is pushed from the report of the last at the earliest, and a coder has
\* a job exactly while a task has the coder.
OneJobEach ==
  /\ \A w \in WORKER : waiting[w] + running[w] + done[w] <= 1
  /\ phase = "loop" => lent = Busy \cap CODER

\* While tasks and queue exist, whoever has a job exists, and so does whoever
\* is in the register, which cancel_all_silently goes through.
WorkersOutliveJobs ==
  /\ my_workers \subseteq Busy
  /\ phase \in {"loop", "quit"} => Busy \subseteq alive

\* A job is reported as cancelled if and only if it was that job that
\* somebody cancelled: a cancel is neither lost nor left to the next task.
CancelIsTheJobs ==
  phase = "loop" => \A w \in Busy : cancelled[w] <=> w \in asked

\* However few the threads and however often listeners push again, each job is
\* worked off, and reported while the main loop runs; and the program's end,
\* which waits for its threads, comes although nothing is reported any more.
EveryJobReports ==
  /\ \A w \in WORKER :
       /\ waiting[w] > 0 ~> (done[w] > 0 \/ phase = "over")
       /\ done[w] > 0 ~> (done[w] = 0 \/ phase # "loop")
  /\ phase = "quit" ~> phase = "over"

\* cancel_all_silently reaches every job ("Calls each of this pool's workers'
\* cancel_silently()").  What the code does instead: README, section 6.
QuitCancelsAll == phase = "quit" => \A w \in Busy : silent[w]
=============================================================================
