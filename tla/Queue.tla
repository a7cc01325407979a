------------------------------- MODULE Queue --------------------------------
(***************************************************************************)
(* Queue (pan/tasks/queue.cc): decides which task gets a connection, the   *)
(* decoder, the encoder or an upload slot.  Everything runs in the main    *)
(* thread, but every callback nests into others: a connection checked in   *)
(* wakes a task, whose removal frees a slot, which starts an upload.  One  *)
(* action is one entry from the main loop with all it calls, so the state  *)
(* is one record "q" and the functions of queue.cc are operators on it.    *)
(*                                                                         *)
(* Tasks are reduced to what the queue sees of them: the parts a task      *)
(* still has to transfer, the servers that may carry each, and the state   *)
(* that update_work() computes.  The pools are reduced to their counts;    *)
(* NntpPool.tla is the full model.  Connections have no identity: a part   *)
(* in transfer remembers the server its connection leads to.               *)
(***************************************************************************)
EXTENDS Integers, FiniteSets, FiniteSetsExt, Sequences, SequencesExt

CONSTANTS SAVE, BODIES, UPLOAD, POST, \* tasks, by Task::get_type()
          SERVER, None,
          ServersOf,                  \* the servers a task's parts may use
          Limit,                      \* get_server_limits
          MaxParts,                   \* bound on the parts of a task
          USER,                       \* what the user of this instance does
          FAILURES                    \* how transfers of this instance fail

ARTICLE == SAVE \cup BODIES
TASK == ARTICLE \cup UPLOAD \cup POST
CODER == {"decoder", "encoder"}

ASSUME QueueAssumption ==
  /\ IsFiniteSet(TASK) /\ IsFiniteSet(SERVER) /\ MaxParts \in Nat
  /\ SAVE \cap BODIES = {} /\ ARTICLE \cap UPLOAD = {}
  /\ (ARTICLE \cup UPLOAD) \cap POST = {}
  /\ ServersOf \in [TASK -> (SUBSET SERVER) \ {{}}]
  /\ \A t \in UPLOAD \cup POST : Cardinality(ServersOf[t]) = 1
  /\ Limit \in [SERVER -> Nat \ {0}]
  /\ None \notin SERVER \cup TASK
  /\ USER \subseteq {"add", "insert", "stop", "remove", "move", "online"}
  /\ FAILURES \subseteq {"ERR_NETWORK", "ERR_COMMAND", "ERR_NOSPACE",
                         "ERR_LOCAL", "encoding", "lockout"}

VARIABLE q

\* _needed is in the order of the parts' numbers.  A part has its xref, the
\* servers that may have it, and its nntp, the connection it is transferred on
\* or None.
Init == q =
  [tasks |-> <<>>, stopped |-> {}, removing |-> {}, uploads |-> {},
   is_online |-> TRUE,
   coder_task |-> [c \in CODER |-> None],   \* _decoder_task, _encoder_task
   cancelled |-> [c \in CODER |-> FALSE],   \* Worker::cancelled
   work |-> [t \in TASK |-> "COMPLETED"],
   health |-> [t \in TASK |-> "OK"],
   ran |-> [t \in TASK |-> FALSE],          \* _decoder/_encoder_has_run
   parts |-> [t \in TASK |-> <<>>],         \* _needed
   idle |-> [s \in SERVER |-> 0],
   pending |-> [s \in SERVER |-> 0],
   ping |-> [s \in SERVER |-> 0],           \* lent to the keepalive
   allowed |-> [s \in SERVER |-> TRUE],     \* new_connections_are_allowed
   dangling |-> FALSE]                      \* a deleted task was touched

\* One call after another: "Later" of what "first" leaves.  (It is Later(first);
\* TLC evaluates the elements of a set once, and an argument at every use.)
Then(first, Later(_)) == CHOOSE x \in {Later(r) : r \in {first}} : TRUE

\* What is left of r after Step(r, i) for each i up to n.
Repeated(r, n, Step(_, _)) ==
  LET after[i \in 0..n] == IF i = 0 THEN r
                           ELSE Then(after[i - 1], LAMBDA x : Step(x, i))
  IN  after[n]

----------------------------------------------------------------------------
(* The task's side: Task, TaskArticle, TaskUpload, TaskPost.               *)

\* The parts of t in transfer, and those that wait.
Lent(r, t) == {i \in DOMAIN r.parts[t] : r.parts[t][i].nntp # None}
Waiting(r, t) == DOMAIN r.parts[t] \ Lent(r, t)

Servers(r, t) == UNION {r.parts[t][i].xref : i \in Waiting(r, t)}

Holds(r, t) == Lent(r, t) # {}

CoderOf(t) == IF t \in UPLOAD THEN "encoder" ELSE "decoder"

\* update_work: what the task needs next.  "MISSED" is the failed assertion
\* at the end of TaskArticle's.
ArticleWork(r, t) ==
  CASE Servers(r, t) # {}                     -> "NEED_NNTP"
    [] Servers(r, t) = {} /\ Holds(r, t)      -> "WORKING"
    [] OTHER ->
         IF t \in SAVE /\ ~r.ran[t]
         THEN IF r.coder_task["decoder"] = t THEN "MISSED" ELSE "NEED_DECODER"
         ELSE "COMPLETED"

UploadWork(r, t) ==
  CASE ~r.ran[t] /\ r.coder_task["encoder"] # t -> "NEED_ENCODER"
    [] r.ran[t] /\ Holds(r, t)                  -> "WORKING"
    [] r.ran[t] /\ ~Holds(r, t) /\ Waiting(r, t) # {} -> "NEED_NNTP"
    [] r.ran[t] /\ ~Holds(r, t) /\ Waiting(r, t) = {} -> "COMPLETED"
    [] OTHER                                    -> r.work[t]

UpdateWork(r, t) ==
  [r EXCEPT !.work[t] = IF t \in ARTICLE THEN ArticleWork(r, t)
                        ELSE UploadWork(r, t)]

\* use_nntp: the first waiting part that this server has is transferred.
UseNntp(r, t, s) ==
  LET usable == {i \in Waiting(r, t) : s \in r.parts[t][i].xref}
      sent == [r EXCEPT !.parts[t][Min(usable)].nntp = s]
  IN  IF t \in POST THEN [sent EXCEPT !.work[t] = "WORKING"]
                    ELSE Then(sent, LAMBDA x : UpdateWork(x, t))

\* stop: cancel the decoder or encoder, if it is ours.
StopTask(r, t) == IF r.coder_task[CoderOf(t)] = t
                  THEN [r EXCEPT !.cancelled[CoderOf(t)] = TRUE] ELSE r

\* Part i is done with, or to be transferred again.
Dropped(r, t, i) == [r EXCEPT !.parts[t] = Restrict(@, DOMAIN @ \ {i})]
Again(r, t, i) == [r EXCEPT !.parts[t][i].nntp = None]

\* TaskArticle::on_nntp_done, up to the check_in.  A part that no server has is
\* done without.
ArticleDone(r, t, i, health) ==
  LET s == r.parts[t][i].nntp
      elsewhere == [Again(r, t, i) EXCEPT !.parts[t][i].xref = @ \ {s}]
      result == CASE health = "OK"          -> Dropped(r, t, i)
                  [] health = "ERR_COMMAND" ->
                       IF r.parts[t][i].xref = {s} THEN Dropped(r, t, i)
                                                   ELSE elsewhere
                  [] health = "ERR_NOSPACE" ->
                       [Again(r, t, i) EXCEPT !.health[t] = health]
                  [] OTHER                  -> Again(r, t, i)
  IN  Then(result, LAMBDA x : UpdateWork(x, t))

\* TaskUpload::on_nntp_done, for the answers a server gives to a post.
UploadDone(r, t, i, health) ==
  Then(IF health = "ERR_NETWORK" THEN Again(r, t, i) ELSE Dropped(r, t, i),
       LAMBDA x : UpdateWork(x, t))

\* TaskPost::on_nntp_done.
PostDone(r, t, i, health) ==
  [Again(r, t, i) EXCEPT
     !.health[t] = health,
     !.work[t] = IF health = "OK" THEN "COMPLETED" ELSE "NEED_NNTP"]

PartDone(r, t, i, health) ==
  CASE t \in ARTICLE -> ArticleDone(r, t, i, health)
    [] t \in UPLOAD  -> UploadDone(r, t, i, health)
    [] t \in POST    -> PostDone(r, t, i, health)

----------------------------------------------------------------------------
(* The queue's side.                                                       *)

ActiveCount(r, s) ==
  r.ping[s] + Cardinality({p \in TASK \X (1..MaxParts) :
                             /\ p[2] \in Lent(r, p[1])
                             /\ r.parts[p[1]][p[2]].nntp = s})

task_is_active(r, t) == Holds(r, t) \/ \E c \in CODER : r.coder_task[c] = t

Unwell == {"ERR_COMMAND", "ERR_LOCAL", "ERR_NOSPACE"}
Health == Unwell \cup {"OK", "ERR_NETWORK"}

Unhindered(r, t) == t \notin r.stopped \cup r.removing

\* The first task of the queue that satisfies P, or None.
First(r, P(_)) ==
  LET places == {i \in DOMAIN r.tasks : P(r.tasks[i])}
  IN  IF places = {} THEN None ELSE r.tasks[Min(places)]

FirstNeedingCoder(r, c) ==
  First(r, LAMBDA t : /\ r.work[t] = (IF c = "decoder" THEN "NEED_DECODER"
                                                       ELSE "NEED_ENCODER")
                      /\ Unhindered(r, t))

FirstNeedingServer(r, s) ==
  First(r, LAMBDA t : /\ r.health[t] \notin Unwell
                      /\ r.work[t] = "NEED_NNTP"
                      /\ s \in Servers(r, t)
                      /\ Unhindered(r, t))

\* NNTP_Pool::request_nntp opens a connection.
RequestNntp(r, s) ==
  /\ r.idle[s] = 0 /\ r.pending[s] + ActiveCount(r, s) < Limit[s]
  /\ r.allowed[s]

\* find_best_server
Score(r, s) ==
  LET empty_slots == Limit[s] - (r.idle[s] + ActiveCount(r, s))
  IN  10 * r.idle[s] + empty_slots

BestServer(r, servers) ==
  LET best == Max({Score(r, s) : s \in servers})
  IN  IF best <= 0 THEN None
      ELSE CHOOSE s \in servers : Score(r, s) = best

\* process_task requests a connection from every server the task can use.
AskServers(r, t) ==
  [r EXCEPT !.pending = [s \in SERVER |->
     IF s \in Servers(r, t) /\ RequestNntp(r, s) THEN @[s] + 1 ELSE @[s]]]

\* One turn of its loop: request, choose, check out, lend.  "going" says that
\* the loop has not ended.
Turn(state, t) ==
  IF ~(/\ state.going /\ state.queue.is_online
       /\ state.queue.work[t] = "NEED_NNTP")
  THEN [state EXCEPT !.going = FALSE]
  ELSE Then(AskServers(state.queue, t), LAMBDA r :
         LET s == BestServer(r, Servers(r, t))
             free == IF s = None THEN 0 ELSE r.idle[s]
         IN  [queue |-> IF free = 0 THEN r
                        ELSE UseNntp([r EXCEPT !.idle[s] = @ - 1], t, s),
              going |-> free > 0])

\* Each turn but the last takes a part that waited.
GiveConnections(r, t) ==
  Repeated([queue |-> r, going |-> TRUE], MaxParts,
           LAMBDA x, i : Turn(x, t)).queue

\* give_task_a_decoder, give_task_a_encoder
GiveCoder(r, t, c) ==
  IF r.coder_task[c] # None THEN r
  ELSE [r EXCEPT !.coder_task[c] = t, !.cancelled[c] = FALSE,
                 !.work[t] = "WORKING"]

\* process_task, once the task is neither finished nor waiting for a slot.
Serve(r, t) ==
  CASE t \in r.stopped -> StopTask(r, t)
    [] t \notin r.stopped /\ r.health[t] = "ERR_NOSPACE" ->
         [r EXCEPT !.is_online = FALSE]
    [] t \notin r.stopped /\ r.health[t] \notin Unwell ->
         CASE r.work[t] = "NEED_DECODER" -> GiveCoder(r, t, "decoder")
           [] r.work[t] = "NEED_ENCODER" -> GiveCoder(r, t, "encoder")
           [] r.work[t] = "NEED_NNTP"    -> GiveConnections(r, t)
           [] OTHER                      -> r
    [] OTHER -> r

\* give_task_an_upload_slot.  The nested process_task finds the task in need
\* of the encoder, or stopped.
GiveSlot(r, t) ==
  IF \A s \in ServersOf[t] : Cardinality(r.uploads) < Limit[s]
  THEN Then(UpdateWork([r EXCEPT !.uploads = @ \cup {t}], t),
            LAMBDA x : Serve(x, t))
  ELSE r

\* The freed slot is left empty.
BadRefillSlots(r, t) == [r EXCEPT !.uploads = @ \ {t}]

\* remove_task, for a task nobody works for.
RefillSlots(r, t) ==
  LET next == First(r, LAMBDA u : r.work[u] = "INITIAL")
      freed == [r EXCEPT !.uploads = @ \ {t}]
  IN  IF t \in UPLOAD /\ next # None
      THEN Then(freed, LAMBDA x : GiveSlot(x, next)) ELSE freed

Place(r, t) == CHOOSE i \in DOMAIN r.tasks : r.tasks[i] = t

Erase(r, t) ==
  Then([r EXCEPT !.stopped = @ \ {t}, !.removing = @ \ {t},
                 !.tasks = RemoveAt(@, Place(r, t)),
                 !.work[t] = "COMPLETED", !.health[t] = "OK", !.ran[t] = FALSE,
                 !.parts[t] = Restrict(@, Lent(r, t))],
       LAMBDA x : RefillSlots(x, t))

\* The task's connections and coder are not waited for.
BadRemoveTask(r, t) ==
  IF ~Contains(r.tasks, t) THEN [r EXCEPT !.dangling = TRUE]
  ELSE Erase(r, t)

RemoveTask(r, t) ==
  IF ~Contains(r.tasks, t) THEN [r EXCEPT !.dangling = TRUE]
  ELSE IF task_is_active(r, t)
       THEN [StopTask(r, t) EXCEPT !.removing = @ \cup {t}]
       ELSE Erase(r, t)

ProcessTask(r, t) ==
  IF ~Contains(r.tasks, t) THEN [r EXCEPT !.dangling = TRUE]
  ELSE IF r.work[t] = "COMPLETED" \/ t \in r.removing THEN RemoveTask(r, t)
  ELSE IF /\ r.work[t] = "INITIAL" /\ t \notin r.stopped
       THEN GiveSlot(r, t)
       ELSE Serve(r, t)

\* on_pool_has_nntp_available
OnPoolHasNntpAvailable(r, s) ==
  LET t == FirstNeedingServer(r, s)
  IN  IF t = None THEN r ELSE ProcessTask(r, t)

\* NNTP_Pool::check_in; the limit never shrinks here, so it never discards
\* for "too many".
PoolCheckIn(r, s, health) ==
  CASE health = "ERR_NETWORK" -> [r EXCEPT !.allowed[s] = TRUE]
    [] health = "ERR_NOSPACE" -> r
    [] OTHER -> Then([r EXCEPT !.idle[s] = @ + 1],
                     LAMBDA x : OnPoolHasNntpAvailable(x, s))

\* The connection is shot straight back to the task whatever the queue wants.
BadKeepsConnection(r, t, s, health) ==
  /\ health # "ERR_NETWORK"
  /\ r.health[t] \notin Unwell
  /\ r.work[t] = "NEED_NNTP"
  /\ s \in Servers(r, t)

\* The fast path of check_in (NNTP*): the task uses the connection again.
KeepsConnection(r, t, s, health) ==
  /\ health # "ERR_NETWORK"
  /\ r.is_online
  /\ r.health[t] \notin Unwell
  /\ r.work[t] = "NEED_NNTP"
  /\ t \notin r.removing
  /\ s \in Servers(r, t)
  /\ FirstNeedingServer(r, s) = t

CheckInNntp(r, t, s, health) ==
  IF KeepsConnection(r, t, s, health) THEN UseNntp(r, t, s)
  ELSE Then(PoolCheckIn(r, s, health), LAMBDA x : ProcessTask(x, t))

\* The coder is not passed on to the next task in line.
BadCheckInCoder(r, c, t) == ProcessTask(r, t)

\* check_in (Decoder*), check_in (Encoder*)
CheckInCoder(r, c, t) ==
  LET next == FirstNeedingCoder(r, c)
  IN  Then(IF next \in {None, t} THEN r ELSE ProcessTask(r, next),
           LAMBDA x : ProcessTask(x, t))

\* clean_n_save: tasks deleted by the sweep are still in the list it saves.
Clean(r) ==
  LET Sweep(x, i) == LET t == r.tasks[i]
                     IN  IF x.work[t] = "COMPLETED" \/ t \in x.removing
                         THEN RemoveTask(x, t) ELSE x
  IN  Then(Repeated(r, Len(r.tasks), Sweep),
           LAMBDA x : [x EXCEPT !.dangling = @ \/ x.tasks # r.tasks])

\* upkeep serves the tasks that have connections in the order of their
\* addresses: any order.
ServeRunning(r) ==
  {Repeated(r, Len(order), LAMBDA x, i : ProcessTask(x, order[i])) :
     order \in SetToSeqs({t \in TASK : Holds(r, t)})}

\* idle_upkeep: which idle connections are due for a keepalive is a matter
\* of time.
IdleUpkeep(r) ==
  {[r EXCEPT !.idle = [s \in SERVER |-> @[s] - old[s]],
             !.ping = [s \in SERVER |-> @[s] + old[s]]] :
     old \in {f \in [SERVER -> 0..Max({Limit[s] : s \in SERVER})] :
                \A s \in SERVER : f[s] <= r.idle[s]}}

\* Only running tasks are looked after.
BadWakeFirst(r) == r

\* upkeep: the first task that needs a connection, and no other, is processed.
WakeFirst(r) ==
  LET first == First(r, LAMBDA t : r.work[t] = "NEED_NNTP")
  IN  IF first = None THEN r ELSE ProcessTask(r, first)

Upkept(r) == UNION {IdleUpkeep(x) : x \in ServeRunning(
               Then(Then(r, Clean), WakeFirst))}

----------------------------------------------------------------------------
(* What the main loop calls.                                               *)

NewTask(r, t, parts, paused) ==
  LET fresh == [r EXCEPT !.parts[t] = parts,
                         !.stopped = IF paused THEN @ \cup {t} ELSE @]
  IN  CASE t \in ARTICLE -> UpdateWork(fresh, t)
        [] t \in UPLOAD  -> [fresh EXCEPT !.work[t] = "INITIAL"]
        [] t \in POST    -> [fresh EXCEPT !.work[t] = "NEED_NNTP"]

\* add_tasks: an article whose parts are all cached has none left to fetch;
\* only articles can be added paused.
AddTask(t) ==
  \E count \in 0..MaxParts, pos \in 1..Len(q.tasks) + 1, paused \in BOOLEAN :
    /\ "insert" \in USER \/ ("add" \in USER /\ pos = Len(q.tasks) + 1)
    /\ ~Contains(q.tasks, t)
    /\ t \notin ARTICLE => count > 0
    /\ t \in POST => count = 1
    /\ paused => t \in ARTICLE /\ "stop" \in USER
    /\ q' = LET part == [xref |-> ServersOf[t], nntp |-> None]
                new == NewTask(q, t, [i \in 1..count |-> part], paused)
            IN  Then([new EXCEPT !.tasks = InsertAt(@, pos, t)],
                     LAMBDA x : ProcessTask(x, t))

StopTasks(t) ==
  /\ "stop" \in USER
  /\ Contains(q.tasks, t)
  /\ q' = Then([q EXCEPT !.stopped = @ \cup {t}], LAMBDA x : ProcessTask(x, t))

RestartTasks(t) ==
  /\ "stop" \in USER
  /\ Contains(q.tasks, t)
  /\ q' = Then([q EXCEPT !.stopped = @ \ {t}], LAMBDA x : ProcessTask(x, t))

RemoveTasks(t) ==
  /\ "remove" \in USER
  /\ Contains(q.tasks, t)
  /\ q' = RemoveTask(q, t)

\* move_up, move_down, move_top, move_bottom
MoveTasks(i) ==
  /\ "move" \in USER
  /\ \E pos \in {1, i - 1, i + 1, Len(q.tasks)} \cap 1..Len(q.tasks) :
       q' = [q EXCEPT !.tasks = InsertAt(RemoveAt(@, i), pos, @[i])]

SetOnline ==
  /\ "online" \in USER
  /\ IF q.is_online THEN q' = [q EXCEPT !.is_online = FALSE]
     ELSE q' \in Upkept([q EXCEPT !.is_online = TRUE])

Upkeep == q' \in Upkept(q)

NntpDone(t, health) ==
  \E i \in Lent(q, t) :
    /\ health \in {"ERR_NOSPACE", "ERR_LOCAL"} => t \in ARTICLE
    /\ q' = Then(PartDone(q, t, i, health), LAMBDA x :
                   CheckInNntp(x, t, q.parts[t][i].nntp, health))

\* on_worker_done: "result" is what the worker thread made of the job; if it
\* was cancelled meanwhile, that is ignored and the job is still to be done.
CoderDone(c, result) ==
  LET t == q.coder_task[c]
      free == [q EXCEPT !.coder_task[c] = None, !.cancelled[c] = FALSE]
      done == [free EXCEPT !.ran[t] = TRUE, !.health[t] = "OK",
                           !.parts[t] = IF result = "encoding" THEN <<>> ELSE @]
  IN  /\ t # None
      /\ result = "encoding" => c = "encoder"
      /\ q' = Then(UpdateWork(IF q.cancelled[c] THEN free ELSE done, t),
                   LAMBDA x : CheckInCoder(x, c, t))

Connected(s) ==
  /\ q.pending[s] > 0
  /\ q' = Then([q EXCEPT !.pending[s] = @ - 1, !.idle[s] = @ + 1],
               LAMBDA x : OnPoolHasNntpAvailable(x, s))

\* The socket, the login or the handshake failed; "lockout": the server has
\* too many connections.
ConnectFailed(s, lockout) ==
  /\ q.pending[s] > 0
  /\ q' = [q EXCEPT !.pending[s] = @ - 1, !.allowed[s] = @ /\ ~lockout]

LockoutEnds(s) == ~q.allowed[s] /\ q' = [q EXCEPT !.allowed[s] = TRUE]

KeepaliveDone(s, health) ==
  /\ q.ping[s] > 0
  /\ q' = PoolCheckIn([q EXCEPT !.ping[s] = @ - 1], s, health)

Next ==
  \/ \E t \in TASK : \/ AddTask(t) \/ StopTasks(t) \/ RestartTasks(t)
                     \/ RemoveTasks(t)
                     \/ \E h \in {"OK"} \cup (FAILURES \cap
                           {"ERR_NETWORK", "ERR_COMMAND", "ERR_NOSPACE",
                            "ERR_LOCAL"}) : NntpDone(t, h)
  \/ \E i \in DOMAIN q.tasks : MoveTasks(i)
  \/ SetOnline
  \/ Upkeep
  \/ \E c \in CODER, res \in {"OK"} \cup (FAILURES \cap {"encoding"}) :
       CoderDone(c, res)
  \/ \E s \in SERVER :
       \/ Connected(s)
       \/ "ERR_NETWORK" \in FAILURES
            /\ \E lockout \in {FALSE, "lockout" \in FAILURES} :
                 ConnectFailed(s, lockout)
       \/ LockoutEnds(s)
       \/ \E h \in {"OK"} \cup (FAILURES \cap {"ERR_NETWORK"}) :
            KeepaliveDone(s, h)

Spec == Init /\ [][Next]_q

----------------------------------------------------------------------------
\* No function of the queue is handed a task that has been deleted, and every
\* task that has a connection or a coder, is stopped, being removed or holds
\* an upload slot is still in the queue: its answer will not come back to
\* freed memory.  clean_n_save never deletes what it then saves.
NoDanglingTask ==
  LET known == ToSet(q.tasks)
  IN  /\ ~q.dangling
      /\ q.stopped \cup q.removing \cup q.uploads \subseteq known
      /\ \A t \in TASK : task_is_active(q, t) => t \in known

\* The decoder and the encoder are passed on: neither is idle while a task
\* that nothing hinders waits for it; and no task comes to need the coder that
\* it has, which update_work's assertion is about.
CoderNeverIdle ==
  /\ \A c \in CODER : q.coder_task[c] = None => FirstNeedingCoder(q, c) = None
  /\ \A t \in TASK : q.work[t] # "MISSED"

\* Uploads that wait for a slot are started as slots become free: none waits
\* when no slot is taken.  A slot is held from start to deletion, and there
\* are never more than the servers' limits allow.
UploadsKeepGoing ==
  LET queued == ToSet(q.tasks) \cap UPLOAD
      waiting == {t \in queued : q.work[t] = "INITIAL"}
  IN  /\ queued \ waiting = q.uploads
      /\ \A s \in SERVER : \/ Cardinality(q.uploads) <= Limit[s]
                           \/ \E o \in SERVER : Limit[o] > Limit[s]
      /\ q.uploads = {} => waiting \subseteq q.stopped

Coders(r, t) == {c \in CODER : r.coder_task[c] = t}

\* t is lent no connection in this step; the one that came back was not shot
\* back to it.
LentNothing(t) ==
  /\ Lent(q', t) \subseteq Lent(q, t)
  /\ (\E h \in Health : NntpDone(t, h)) => Lent(q', t) # Lent(q, t)

\* A stopped task, or one being removed, is lent nothing new.
StoppedGetNothing ==
  [][\A t \in TASK :
       t \in (q.stopped \cap q'.stopped) \cup (q.removing \cap q'.removing)
         => LentNothing(t) /\ Coders(q', t) \subseteq Coders(q, t)]_q

\* While the queue is offline no connection is opened and none is lent, be it
\* by the fast path of check_in; unless the user tries to go online and a task
\* short of disk space sends the queue back.
OfflineIsQuiet ==
  [][~q.is_online /\ ~q'.is_online /\ ~SetOnline
       => /\ \A t \in TASK : LentNothing(t)
          /\ \A s \in SERVER : q'.pending[s] <= q.pending[s]]_q

----------------------------------------------------------------------------
\* The main loop calls upkeep from a timer; transfers, handshakes and jobs
\* end (a socket by its timeout at the latest), and what is tried again and
\* again succeeds sometimes.  The others are WF_q(Upkeep),
\* WF_q(CoderDone(c, "OK")), SF_q(NntpDone(t, "OK")) and SF_q(Connected(s))
\* with the action's guard written out for ENABLED, which TLC evaluates
\* without sharing the operators' arguments.
Fairness ==
  /\ []<>(Upkept(q) \subseteq {q}) \/ []<><<Upkeep>>_q
  /\ \A c \in CODER :
       []<>(q.coder_task[c] = None) \/ []<><<CoderDone(c, "OK")>>_q
  /\ \A t \in TASK : <>[]~Holds(q, t) \/ []<><<NntpDone(t, "OK")>>_q
  /\ \A s \in SERVER :
       /\ <>[](q.pending[s] = 0) \/ []<><<Connected(s)>>_q
       /\ []<>(q.ping[s] = 0) \/ []<><<KeepaliveDone(s, "OK")>>_q
       /\ WF_q(LockoutEnds(s))

FairSpec == Spec /\ Fairness

\* A task that the user leaves alone is finished in the end, however often
\* connections fail on the way.
EveryTaskEnds ==
  \A t \in TASK : Contains(q.tasks, t) ~> ~Contains(q.tasks, t)

\* As FairSpec, and the user goes online again whenever the queue is offline
\* and that makes a difference.
OnlineSpec ==
  /\ FairSpec
  /\ \/ []<>(q.is_online \/ Upkept([q EXCEPT !.is_online = TRUE]) \subseteq {q})
     \/ []<><<SetOnline /\ ~q.is_online>>_q

\* "If there's no space, try again, but pause the queue": once the user has
\* gone back online the article is fetched again.
\* (What the code does instead: README, section 6.)
TriesAgain ==
  \A t \in TASK : q.health[t] = "ERR_NOSPACE"
                    ~> Holds(q, t) \/ ~Contains(q.tasks, t)

\* upkeep "wakes up the queue if it's stuck from a bad connection": a healthy
\* task that nothing hinders does not wait forever while the queue is online.
\* (What the code does instead: README, section 6.)
Wakes ==
  \A t \in TASK :
    <>[](/\ q.is_online /\ Contains(q.tasks, t) /\ Unhindered(q, t)
         /\ q.health[t] \notin Unwell)
      => []<>(q.work[t] # "NEED_NNTP" \/ Holds(q, t))
=============================================================================
