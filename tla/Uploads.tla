------------------------------ MODULE Uploads -------------------------------
(***************************************************************************)
(* The upload of a batch of files, from the post window that starts it to  *)
(* the window's end: PostUI (pan/gui/post-ui.cc), TaskUpload               *)
(* (pan/tasks/task-upload.cc), the Encoder and its thread                  *)
(* (pan/tasks/encoder.cc, pan/general/worker-pool.cc) and the EncodeCache. *)
(*                                                                         *)
(* The main thread runs one callback at a time; the encoder's thread works *)
(* through one file between them.  The queue is the environment: it wakes  *)
(* a task, lends it the encoder or a connection when the task asks for it, *)
(* and deletes it when it is done (Queue.tla has the queue's own rules).   *)
(* update_work lets no task have two parts in transfer.                    *)
(***************************************************************************)
EXTENDS Integers, FiniteSets, Sequences, SequencesExt

CONSTANTS FILE,         \* the files in the queue of the post window
          MASTER,       \* the article the files reply to: one task, or none
          Basename,     \* of each file
          Total,        \* parts of each file, by its size
          None,
          SELECTED,     \* what the user may select: sets of parts, by file
          ANSWERS,      \* what the server may answer in this instance
          FAULTS,       \* how the encoder fails in this instance
          USER,         \* what the user of this instance does
          TOUCHED,      \* the uploads the user stops or removes
          MaxStops      \* bound on the times an upload is stopped

TASK == FILE \cup MASTER
Parts(t) == IF t \in MASTER THEN {1} ELSE 1..Total[t]
Key(t, p) == <<Basename[t], p>>   \* Needed::message_id
Keys(t, parts) == {Key(t, p) : p \in parts}
Content(t, p) == [of |-> t, part |-> p]

ASSUME UploadsAssumption ==
  /\ IsFiniteSet(TASK) /\ FILE \cap MASTER = {} /\ Cardinality(MASTER) <= 1
  /\ FILE # {} /\ None \notin TASK
  /\ Total \in [FILE -> Nat \ {0}]
  /\ DOMAIN Basename = FILE
  /\ \A f \in FILE : SELECTED[f] \subseteq SUBSET Parts(f)
  /\ ANSWERS \subseteq {"posted", "duplicate", "refused", "lost"}
  /\ FAULTS \subseteq {"open", "encode"}
  /\ USER \subseteq {"save", "stop", "remove", "master"}
  /\ TOUCHED \subseteq TASK /\ MaxStops \in Nat

\* What the NZB has besides its files' entries is none of them.
ASSUME NzbAssumption == "header" \notin FILE /\ "footer" \notin FILE

KEY == UNION {Keys(f, Parts(f)) : f \in FILE}
\* What a file holds that is no encoded part.
NoFile == [of |-> None, part |-> 0]
Torn == [of |-> None, part |-> 1]

C == INSTANCE EncodeCache

VARIABLES
  ui,       \* PostUI: its window, _save_file, _running_uploads and the NZB
  task,     \* TaskUpload
  encoder,  \* Encoder and its job
  cache,    \* EncodeCache
  server,   \* what the server has stored of each task
  history   \* what became of the parts

vars == <<ui, task, encoder, cache, server, history>>

NewTask == [work |-> "NONE", needed |-> {}, wanted |-> {},
            nntp |-> 0,             \* the part in transfer, by number
            sent |-> None,          \* and what was sent of it
            ran |-> FALSE,          \* _encoder_has_run
            stopped |-> FALSE, removing |-> FALSE,
            erred |-> FALSE,        \* an error in _logfile
            upload_list |-> 0,      \* length of _upload_list
            said |-> "nothing"]     \* what the log was told of the whole file

Idle == [task |-> None, todo |-> {}, cnt |-> 1, writing |-> 0,
         failed |-> FALSE,          \* the last result is an error
         errors |-> FALSE,          \* log_errors
         cancelled |-> FALSE, ended |-> FALSE]

Init ==
  /\ ui = [window |-> "open", saving |-> FALSE, running |-> 0, nzb |-> <<>>]
  /\ task = [t \in TASK |-> NewTask]
  /\ encoder = Idle
  /\ cache = C!Empty
  /\ server = [t \in TASK |-> {}]
  /\ history = [refused |-> [t \in TASK |-> {}], unencoded |-> {},
                removed |-> {}, stops |-> 0]

Queued(t) == task[t].work \notin {"NONE", "GONE"}
Unhindered(t) == ~task[t].stopped /\ ~task[t].removing

----------------------------------------------------------------------------
(* The window.                                                             *)

\* The article the files reply to is not among the running uploads.
BadRunning(batch) == Cardinality(batch \ MASTER)

\* The reply is counted even when there is none.
BadRunningAll(batch) == Cardinality(batch \cup MASTER)

Running(batch) == Cardinality(batch)

\* The files that want a part; only files of one name have parts in common.
Takers(wanted) ==
  [k \in KEY |-> Cardinality({f \in FILE : k \in Keys(f, wanted[f])})]

\* The parts are not reserved.
BadBuildNeeded(c, wanted) == C!Add(c, UNION {Keys(f, wanted[f]) : f \in FILE})

\* build_needed_tasks, of each file
BuildNeeded(c, wanted) ==
  C!Reserve(C!Add(c, UNION {Keys(f, wanted[f]) : f \in FILE}), Takers(wanted))

\* maybe_post_message, with files in the queue of the window: a batch of tasks
\* of which the files want some parts each.
PostBatch(batch, wanted) ==
  LET saving == "save" \in USER
      parts == [t \in TASK |-> IF t \in FILE THEN wanted[t] ELSE {1}]
  IN  /\ ui.window = "open"
      /\ ui' = [window |-> "hidden", saving |-> saving,
                running |-> Running(batch),
                nzb |-> IF saving THEN <<"header">> ELSE <<>>]
      /\ task' = [t \in TASK |->
           IF t \notin batch THEN task[t]
           ELSE [NewTask EXCEPT !.work = "INITIAL", !.needed = parts[t],
                                !.wanted = parts[t]]]
      /\ cache' = BuildNeeded(cache, wanted)
      /\ UNCHANGED <<encoder, server, history>>

Selections == {wanted \in [FILE -> UNION {SELECTED[f] : f \in FILE}] :
                 \A f \in FILE : wanted[f] \in SELECTED[f]}

Post == \E master \in SUBSET MASTER, wanted \in Selections :
          /\ master # {} => "master" \in USER
          /\ PostBatch(FILE \cup master, wanted)

\* The end of the NZB is written before the last file's entry.
BadProgressFinished(t, x) ==
  IF t \in MASTER THEN [ui EXCEPT !.running = @ - 1]
  ELSE LET left == ui.running - 1
           listed == [i \in 1..x.upload_list |-> t]
       IN  [ui EXCEPT !.running = left,
                      !.nzb = IF ~ui.saving THEN @
                              ELSE @ \o (IF left = 0 THEN <<"footer">> ELSE <<>>)
                                     \o listed,
                      !.window = IF left = 0 THEN "closed" ELSE @]

\* on_progress_finished: the window closes with the last of the files, but not
\* when the article they reply to comes last.
ProgressFinished(t, x) ==
  IF t \in MASTER THEN [ui EXCEPT !.running = @ - 1]
  ELSE LET left == ui.running - 1
           listed == [i \in 1..x.upload_list |-> t]
       IN  [ui EXCEPT !.running = left,
                      !.nzb = IF ~ui.saving THEN @
                              ELSE @ \o listed
                                     \o IF left = 0 THEN <<"footer">> ELSE <<>>,
                      !.window = IF left = 0 THEN "closed" ELSE @]

----------------------------------------------------------------------------
(* The task.                                                               *)

\* update_work: t's state, when its fields are those of x and "encoding" says
\* whether the encoder is at work on it.
UpdateWork(t, x, encoding) ==
  LET to_encode == t \in FILE /\ ~x.ran
  IN  [x EXCEPT !.work =
         CASE to_encode /\ ~encoding             -> "NEED_ENCODER"
           [] to_encode /\ encoding              -> @
           [] ~to_encode /\ x.nntp # 0           -> "WORKING"
           [] ~to_encode /\ x.nntp = 0 /\ x.needed # {} -> "NEED_NNTP"
           [] ~to_encode /\ x.nntp = 0 /\ x.needed = {} -> "COMPLETED"]

\* ~TaskUpload: the parts are released, and the cache may now be shrunk.
Delete(t, x) ==
  /\ task' = [task EXCEPT ![t] =
       [NewTask EXCEPT !.work = "GONE", !.wanted = x.wanted, !.said = x.said]]
  /\ cache' \in IF t \in MASTER THEN {cache}
                ELSE C!Resized(C!Release(cache, Keys(t, x.wanted)))

\* The end of every callback: the task is x now.  A finished task tells the
\* window; finished, or to be removed, it is deleted as it is checked in.
CheckIn(t, x) ==
  /\ ui' = IF x.work = "COMPLETED" THEN ProgressFinished(t, x) ELSE ui
  /\ IF x.work = "COMPLETED" \/ x.removing THEN Delete(t, x)
     ELSE task' = [task EXCEPT ![t] = x] /\ UNCHANGED cache

\* The queue gives it an upload slot: wakeup().
WakeUp(t) ==
  /\ task[t].work = "INITIAL" /\ Unhindered(t)
  /\ task' = [task EXCEPT ![t] = UpdateWork(t, @, FALSE)]
  /\ UNCHANGED <<ui, encoder, cache, server, history>>

\* The parts are kept by their numbers (needed_t).
First(p, parts) == p \in parts /\ \A q \in parts : p <= q

\* use_nntp: the first part is read from the cache and sent.
UseNntp(t) ==
  /\ task[t].work = "NEED_NNTP" /\ Unhindered(t)
  /\ \E p \in task[t].needed :
       LET data == IF t \in MASTER THEN Content(t, 1) ELSE cache.disk[Key(t, p)]
       IN  /\ First(p, task[t].needed)
           /\ task' = [task EXCEPT ![t] =
                UpdateWork(t, [@ EXCEPT !.nntp = p, !.sent = data], FALSE)]
  /\ UNCHANGED <<ui, encoder, cache, server, history>>

\* A part of the file is done with: the last one tells how the file fared.
Posted(x, p) ==
  LET left == x.needed \ {p}
  IN  [x EXCEPT !.needed = left,
                !.said = IF left # {} THEN @ ELSE IF x.erred THEN "error" ELSE "ok",
                !.erred = @ /\ left # {}]

\* The failure is not kept in _logfile.
BadRefused(x, p) == [x EXCEPT !.needed = @ \ {p}]

Refused(x, p) == [x EXCEPT !.needed = @ \ {p}, !.erred = TRUE]

\* The part of a lost connection is given up.
BadLost(x, p) == [x EXCEPT !.needed = @ \ {p}]

\* Needed::reset
Lost(x, p) == x

\* on_nntp_done, for each answer.  The article the files reply to is never sent
\* again.  Refusals other than 441 are left out: there the code erases the part
\* a second time, and anything may follow.
NntpDone(t, answer) ==
  LET p == task[t].nntp
      freed == [task[t] EXCEPT !.nntp = 0, !.sent = None]
      dropped == [freed EXCEPT !.needed = @ \ {p}]
      result == CASE t \in MASTER           -> dropped
                  [] t \in FILE /\ answer = "posted"  -> Posted(freed, p)
                  [] t \in FILE /\ answer = "refused" -> Refused(freed, p)
                  [] t \in FILE /\ answer = "lost"    -> Lost(freed, p)
                  [] OTHER                  -> dropped
      article == [part |-> p, content |-> task[t].sent]
  IN  /\ p # 0
      /\ answer = "duplicate" => \E a \in server[t] : a.part = p
      /\ \/ /\ answer = "posted" \/ answer = "lost"
            /\ server' = [server EXCEPT ![t] = @ \cup {article}]
         \/ answer # "posted" /\ UNCHANGED server
      /\ history' = [history EXCEPT !.refused[t] =
                                IF answer = "refused" THEN @ \cup {p} ELSE @]
      /\ CheckIn(t, UpdateWork(t, result, FALSE))
      /\ UNCHANGED encoder

----------------------------------------------------------------------------
(* The encoder.                                                            *)

\* use_encoder, Encoder::enqueue and WorkerPool::push_work
UseEncoder(t) ==
  /\ task[t].work = "NEED_ENCODER" /\ Unhindered(t)
  /\ encoder.task = None
  /\ encoder' = [Idle EXCEPT !.task = t, !.todo = task[t].needed]
  /\ task' = [task EXCEPT ![t].work = "WORKING"]
  /\ UNCHANGED <<ui, cache, server, history>>

Encoding == encoder.task # None /\ ~encoder.ended

\* The thread opens the next part's file, or cannot and goes on to the next.
EncoderOpens ==
  /\ Encoding /\ encoder.writing = 0
  /\ \E p \in encoder.todo :
       /\ First(p, encoder.todo)
       /\ \/ /\ encoder' = [encoder EXCEPT !.todo = @ \ {p}, !.writing = p]
             /\ cache' = C!Opened(cache, Key(encoder.task, p))
          \/ /\ "open" \in FAULTS
             /\ encoder' = [encoder EXCEPT !.todo = @ \ {p}, !.cnt = @ + 1,
                                          !.errors = TRUE]
             /\ UNCHANGED cache
  /\ UNCHANGED <<ui, task, server, history>>

\* It encodes part "cnt" of the file into it.  The last part of the file, an
\* error or a cancellation (when uulib looks) ends the loop.  Once a part
\* could not be opened uulib's own file handle is a stale one.
EncoderWrites ==
  LET t == encoder.task
      p == encoder.writing
      data == IF encoder.errors THEN Torn ELSE Content(t, encoder.cnt)
      next == [encoder EXCEPT !.writing = 0, !.cnt = @ + 1]
  IN  /\ Encoding /\ p # 0
      /\ \/ /\ encoder' = IF encoder.cnt = Total[t] THEN [next EXCEPT !.todo = {}]
                                                  ELSE next
            /\ cache' = C!Finalized(cache, Key(t, p), data)
         \/ /\ "encode" \in FAULTS \/ encoder.cancelled
            /\ encoder' = [next EXCEPT !.todo = {}, !.failed = TRUE,
                                      !.errors = TRUE]
            /\ UNCHANGED cache
      /\ UNCHANGED <<ui, task, server, history>>

\* Its last deed: the article joins the task's _upload_list.
EncoderEnds ==
  /\ Encoding /\ encoder.writing = 0 /\ encoder.todo = {}
  /\ encoder' = [encoder EXCEPT !.ended = TRUE]
  /\ task' = [task EXCEPT ![encoder.task].upload_list =
                                       IF encoder.failed THEN @ ELSE @ + 1]
  /\ UNCHANGED <<ui, cache, server, history>>

\* What could not be encoded is sent all the same.
BadEncoded(x) == IF encoder.cancelled THEN x ELSE [x EXCEPT !.ran = TRUE]

\* What the finished job makes of the task.
Encoded(x) == IF encoder.cancelled THEN x
              ELSE [x EXCEPT !.ran = TRUE,
                             !.needed = IF encoder.errors THEN {} ELSE @]

\* The work that is left is only computed after a job that was not cancelled.
BadEncoderDone ==
  LET t == encoder.task
  IN  /\ t # None /\ encoder.ended
      /\ encoder' = Idle
      /\ CheckIn(t, IF encoder.cancelled THEN task[t]
                    ELSE UpdateWork(t, Encoded(task[t]), FALSE))
      /\ UNCHANGED <<server, history>>

\* on_worker_done, from the main loop
EncoderDone ==
  LET t == encoder.task
  IN  /\ t # None /\ encoder.ended
      /\ encoder' = Idle
      /\ history' = [history EXCEPT !.unencoded =
           IF encoder.errors /\ ~encoder.cancelled THEN @ \cup {t} ELSE @]
      /\ CheckIn(t, UpdateWork(t, Encoded(task[t]), FALSE))
      /\ UNCHANGED server

----------------------------------------------------------------------------
(* The user.                                                               *)

\* stop(): the encoder is cancelled if it is ours.
Cancel(t) == encoder' = IF encoder.task = t
                        THEN [encoder EXCEPT !.cancelled = TRUE] ELSE encoder

StopTask(t) ==
  /\ "stop" \in USER /\ t \in TOUCHED /\ history.stops < MaxStops
  /\ Queued(t) /\ ~task[t].stopped
  /\ task' = [task EXCEPT ![t].stopped = TRUE]
  /\ Cancel(t)
  /\ history' = [history EXCEPT !.stops = @ + 1]
  /\ UNCHANGED <<ui, cache, server>>

RestartTask(t) ==
  /\ Queued(t) /\ task[t].stopped
  /\ task' = [task EXCEPT ![t].stopped = FALSE]
  /\ UNCHANGED <<ui, encoder, cache, server, history>>

\* A task that has a connection or the encoder waits for its last callback.
RemoveTask(t) ==
  /\ "remove" \in USER /\ t \in TOUCHED /\ Queued(t)
  /\ IF encoder.task = t \/ task[t].nntp # 0
     THEN /\ task' = [task EXCEPT ![t].removing = TRUE]
          /\ Cancel(t)
          /\ UNCHANGED cache
     ELSE Delete(t, task[t]) /\ UNCHANGED encoder
  /\ history' = [history EXCEPT !.removed = @ \cup {t}]
  /\ UNCHANGED <<ui, server>>

ClearCache ==
  /\ cache' = C!Cleared(cache)
  /\ UNCHANGED <<ui, task, encoder, server, history>>

\* The queue gives the task what it asks for.
Serve(t) == WakeUp(t) \/ UseEncoder(t) \/ UseNntp(t)

EncoderWorks == EncoderOpens \/ EncoderWrites \/ EncoderEnds \/ EncoderDone

Next ==
  \/ Post
  \/ \E t \in TASK :
       \/ Serve(t)
       \/ \E answer \in ANSWERS : NntpDone(t, answer)
       \/ StopTask(t) \/ RestartTask(t) \/ RemoveTask(t)
  \/ EncoderWorks
  \/ ClearCache

Spec == Init /\ [][Next]_vars

----------------------------------------------------------------------------
Data == {NoFile, Torn} \cup UNION {{Content(t, p) : p \in Parts(t)} : t \in TASK}

\* Every variable has its type: no file is locked less than never.
TypeOK ==
  /\ ui.window \in {"open", "hidden", "closed"}
  /\ ui.running \in Nat
  /\ ToSet(ui.nzb) \subseteq FILE \cup {"header", "footer"}
  /\ \A t \in TASK :
       /\ task[t].work \in {"NONE", "INITIAL", "NEED_ENCODER", "WORKING",
                            "NEED_NNTP", "COMPLETED", "GONE"}
       /\ task[t].needed \subseteq Parts(t)
       /\ task[t].nntp \in {0} \cup task[t].needed
       /\ \A a \in server[t] : a.part \in Parts(t) /\ a.content \in Data
  /\ encoder.task \in FILE \cup {None}
  /\ cache.locks \in [KEY -> Nat]
  /\ cache.disk \in [KEY -> Data]

\* What the encoder has left for the server is still there, whole, when it is
\* sent, however often the cache was shrunk or cleared meanwhile and whatever
\* the encoder has been given since (TaskUpload's reservations).
NeededInCache ==
  \A f \in FILE : task[f].ran =>
    \A p \in task[f].needed :
      /\ Key(f, p) \in cache.info
      /\ cache.disk[Key(f, p)] = Content(f, p)

\* An article holds the part its subject announces.
PostedAsAnnounced ==
  \A t \in TASK : \A a \in server[t] : a.content = Content(t, a.part)

\* Every part the user wanted is still to be sent, on the server, or refused
\* by it, unless the file could not be encoded or was removed: a connection
\* lost at any moment loses no part (on_nntp_done).
PartsAccounted ==
  \A f \in FILE \ (history.unencoded \cup history.removed) :
    task[f].wanted = task[f].needed \cup {a.part : a \in server[f]}
                                   \cup history.refused[f]

\* The log says that a file was posted only if all its parts are on the
\* server.
SuccessIsTrue ==
  \A f \in FILE : task[f].said = "ok" =>
    task[f].wanted \subseteq {a.part : a \in server[f]}

\* The window is not deleted under the tasks that report to it.
ListenerOutlivesTasks ==
  ui.window = "closed" => \A t \in TASK : ~Queued(t)

\* A finished NZB names every file of which a part was posted, and nothing
\* follows its end.
NzbComplete ==
  "footer" \in ToSet(ui.nzb) =>
    /\ Last(ui.nzb) = "footer"
    /\ \A f \in FILE \ history.removed :
         server[f] # {} => f \in ToSet(ui.nzb)

----------------------------------------------------------------------------
\* Serve(t) is possible.
Asks(t) ==
  /\ Unhindered(t)
  /\ \/ task[t].work \in {"INITIAL", "NEED_NNTP"}
     \/ /\ task[t].work = "NEED_ENCODER"
        /\ encoder.task = None

\* The queue serves what the tasks ask for, the encoder's thread runs and the
\* main loop calls back; a transfer ends, and among those tried again and again
\* some succeed.  (Weak fairness of Serve(t) and EncoderWorks, strong fairness
\* of NntpDone(t, "posted"), with the guards written out for ENABLED.)
Fairness ==
  /\ \A t \in TASK :
       /\ []<>(~Asks(t)) \/ []<><<Serve(t)>>_vars
       /\ <>[](task[t].nntp = 0) \/ []<><<NntpDone(t, "posted")>>_vars
  /\ []<>(encoder.task = None) \/ []<><<EncoderWorks>>_vars

FairSpec == Spec /\ Fairness

\* An upload comes to an end, whatever failed on the way and however often its
\* encoder was cancelled, unless the user has it stopped.
EveryUploadEnds ==
  \A t \in TASK : Queued(t) ~> ~Queued(t) \/ task[t].stopped

\* The hidden window is closed in the end, unless an upload is stopped or was
\* removed, or all files reply to an article of their own (which may come
\* last, and then nothing closes it).
WindowCloses ==
  ui.window = "hidden" ~>
    \/ ui.window = "closed"
    \/ history.removed # {}
    \/ \E t \in TASK : task[t].stopped \/ (t \in MASTER /\ task[t].work # "NONE")

\* A transfer that a lost connection ended is left as it was "so that it can
\* retry when the network clears up" (ERR_NETWORK).
\* (What the code does instead: README, section 6.)
LostIsRetried ==
  [][\A t \in TASK : NntpDone(t, "lost") /\ server' = server
       => task'[t].needed = task[t].needed]_vars
=============================================================================
