# Formal models of Pan's task engine

Pan is a newsreader. A user asks for articles, headers or posts; Pan turns each
wish into a *task*, lends the tasks connections to news servers, decoding and
encoding threads and upload slots, keeps what they fetch in a disk cache, and
goes on when servers refuse, vanish or fill the disk. This directory models that
engine in TLA+ (`src/pan/tasks`, and the parts of `src/pan/data`,
`src/pan/data-impl` and `src/pan/gui` that touch it), together with the headers
and threads it fills and the read marks of `newsrc`, checks it with TLC and
proves its invariants with TLAPS.

## 1. Inventory

Everything runs in the main thread of GLib's main loop except three kinds of
jobs: opening a socket, decoding and encoding run in a `WorkerPool` thread and
report back through an idle callback. What makes the code hard is not
parallelism but *nesting* and *time*: a callback calls a listener, which calls
back into the caller before the caller has finished; and between asking and
being answered, minutes and other callbacks pass.

| Component | State | Operations | Talks to |
|---|---|---|---|
| `Queue` (`queue.cc`) | list of tasks, `_stopped`, `_removing`, `_uploads`, `_nntp_to_task`, one decoder and one encoder with their task, online flag | add, remove, stop, restart, move, go online; timer `upkeep`; `check_in` of a connection, decoder, encoder; `on_pool_has_nntp_available` | lends to tasks; requests from pools; is called back by both |
| `Task` and its kinds | parts still to transfer with the servers that may have each, work state, health | `give_nntp`, `on_nntp_line`, `on_nntp_done`, `give_decoder`, `on_worker_done`, `stop` | sessions, caches, decoder; checks in to the queue |
| `NNTP_Pool` (`nntp-pool.cc`) | connections, two counters, lockout time | request, check out, check in, `idle_upkeep`, socket created, handshake done | worker pool (sockets), sessions, queue |
| `NNTP` (`nntp.cc`) | listener, queue of commands, group, parser modes | one per request; `on_socket_response`, `on_socket_error` | socket below, listener above |
| sockets (`socket-impl-gio.cc`) | output buffer, watch, timer | write command, do_write, do_read, timeout, error | session; the server |
| `WorkerPool`, `Decoder`, `Encoder` | jobs that wait or run, the register of workers, their `cancelled` and `silent` | push, cancel, finish, report, end | tasks and sockets, in other threads |
| `Quark` (`quark.h`) | a table of strings with counts | make, copy, assign, clear | message-ids, groups and servers everywhere, in every thread |
| `ArticleCache` (`article-cache.cc`) | index, byte count, locks; the files themselves | add, reserve, release, resize, clear, start | tasks, display, copies of sent messages |
| `EncodeCache` | the same for encoded parts | the same, and `finalize` from the encoder's thread | uploads, encoder |
| `PostUI` (`post-ui.cc`) and `UploadQueue` | the files of a batch, a count of running uploads, the NZB | post, `on_progress_finished`, close | creates the upload tasks, which report to the hidden window |
| `TaskXOver` (`task-xover.cc`) | ranges of headers still to fetch per server, the highest number seen | a line at a time into the data store; compressed answers at once | sessions, data store |
| headers (`headers.cc`, `xover.cc`) | articles, nodes with parent and children, the work area of the running header tasks, `_xover_high` of each server | `xover_add`, flushes, ref/unref with load and save, deletion | header tasks; tells the trees |
| `MyTree` (`my-tree.cc`) | the nodes that are shown and their own parents | filter, add, remove | the header pane |
| `Numbers` (`numbers.cc`) | sorted ranges of read article numbers | mark, unmark, is marked | marking, `newsrc` |
| `AdaptableSet`, `Parts`, `Xref` | data structures | | all of the above |
| user interface, saved files, message texts, filters, uulib | | | see 9 |

What makes each of them right:

* *Queue*: never touches a deleted task; deletes what is finished; gives nothing
  to a stopped task or while offline; passes on decoder, encoder and upload
  slots; in the end finishes every task.
* *Pool*: counts what is outstanding; stays within the limit; never lends one
  connection twice; refills; refreshes idle connections.
* *Session*: every request ends once, with its own lines, in the right group,
  and leaves the connection clean for the next one.
* *Uploads*: what the encoder left is there when it is sent, and is what its
  subject says; each part is accounted for, whatever is lost or refused; the
  hidden window outlives what reports to it, and its NZB is complete.
* *Header tasks*: no header is skipped for good but for a reason one can name;
  a task that says it is complete has stored what it asked for.
* *Headers and tree*: a forest whatever the References say; parts of a post
  together; the tree agrees with the articles and with their threads; saving and
  loading changes no thread.
* *Read marks*: the ranges are those of the set of numbers read.
* *Worker pool*: a worker has one job, and exists as long as it; a cancel concerns
  the job it was meant for; every job is reported, and the program can end.
* *Quarks*: a string is kept exactly as long as a Quark of it exists, and Quarks
  are equal exactly if their strings are.
* *Article cache*: what a task waits to read stays; locks balance; the limit
  is kept but for what is locked, and only a full cache ages anything out; files
  are whole.

The hazards behind these, each at its line, are listed in `PROJECT.json`.

## 2. Modules

| Module | Models | Extends / uses |
|---|---|---|
| `ConnectionLedger` | what a pool promises, without counters, sockets or time (abstract) | |
| `NntpPool` | `NNTP_Pool` | implements `ConnectionLedger` |
| `NntpPoolProofs` | theorems about it | `NntpPool` |
| `Queue` | `Queue` with tasks and the pools' counts | |
| `MCQueue` | instances of `Queue` | `Queue` |
| `QueueProofs` | theorems | `Queue` |
| `NntpSession` | `NNTP` on its socket, and a server | |
| `NntpSessionProofs` | theorems | `NntpSession` |
| `ArticleCache` | `ArticleCache` with its users | |
| `MCArticleCache` | instances | `ArticleCache` |
| `ArticleCacheProofs` | theorems | `ArticleCache` |
| `EncodeCache` | `EncodeCache`, as operators on its record | |
| `Uploads` | `PostUI` from sending to closing, `TaskUpload`, `Encoder` with its thread | `EncodeCache` |
| `MCUploads` | instances | `Uploads` |
| `UploadsProofs` | theorems: tasks, parts, window; what is in the cache and what is sent | `Uploads` |
| `TaskXOver` | `TaskXOver`, and what of the store and of the disk it touches | |
| `MCTaskXOver` | instances | `TaskXOver` |
| `TaskXOverProofs` | theorems | `TaskXOver` |
| `Numbers` | `Numbers`, as operators on sequences of ranges | |
| `ReadMarks` | what the program asks of `Numbers` | `Numbers` |
| `Headers` | `GroupHeaders`, `XOverEntry`, `MyTree` | |
| `MCHeaders` | instances | `Headers` |
| `HeadersProofs` | theorems: threads, parts and the tree; read marks | `Headers`, `ReadMarks` |
| `WorkerPool` | `WorkerPool` with `Worker`, those who push jobs, and the end of `main` | |
| `Quark` | `Quark` and its table, in any number of threads | |
| `ThreadProofs` | theorems: the pool; strings | `WorkerPool`, `Quark` |

### NntpPool

`pending_connections` and `active_count` are the program's integers,
`pool_items` and `checked_in` its list and flags, `lockout_secs` and
`idle_secs` its times relative to now. `owner` is a ghost: who will next call
the pool about a connection. Each callback and call is an action; a worker
thread's result is an action of its own since it arrives in the main thread.
`abort_tasks` and `kill_tasks` have no caller and are left out; so is
`CertStore::blacklist`, which never takes effect.

### Queue

The unit of interleaving is one entry from the main loop *with everything it
calls*, because that is what the program executes without interruption. The
state is therefore one record `q`, the functions of `queue.cc` are operators
from record to record and nest as the calls do; an action applies the outermost
one. `Then(first, Later)` is a call followed by another, `Repeated(r, n, Step)` a
loop. Work states have the names of `Task::State`; a task's parts are a function
of their numbers, and a part is the set of servers it may come from and the server
whose connection is transferring it.

A task that was deleted leaves `q.tasks`; any function that would still receive
it sets `q.dangling`. This makes a use after free visible as a state.

The pools are reduced to counts per server. Opening, refusing, lockouts,
keepalives and their failures are there, since each decides whether the queue is
called back: a new connection and a returned one do so, a failed handshake does
not. The limit is fixed here (`NntpPool` changes it).

### NntpSession

`commands` is `_commands`, `previous` is `_previous_command`, `text` and
`compression` the parser's modes, `wire` and `watch` the socket's buffer and
its watch, `inbox` the unread lines. The server is the environment: for each
command it sends one of the answers a server may give, or stays silent, or the
connection breaks. Requests are numbered only so that properties can say whose
lines are whose; no guard looks at the number. A variable the code may read
uninitialized (`nntp.cc:210`) takes any value of its type.

### ArticleCache

`disk` is the files, `info` the index of them in memory; they part company when
a write fails and meet again when the program starts. `tasks`, `needed` and
`missing` are the users: a task reserves all its parts, fetches those the cache
lacked when it was created, whether or not another task is fetching them too, and
releases all when it is deleted. `Expires`
says which set of files the loop of `resize` removes, in one formula instead of
a loop: unlocked ones, oldest first, no more than necessary.

### EncodeCache, Uploads

The batch is one post window's: its files, perhaps with an article they all reply
to (`MASTER`). The encoder's thread opens, writes and finalizes one part at a
time between steps of the main thread; `cancelled` is seen at the places where
the code looks. Files have contents (which part of which file, or torn), so that
an encoder writing over a part that waits to be sent would be seen on the server.
The server stores an article and then answers, or the answer is lost. `Queue` has
the queue's own rules; here the queue is the environment that serves what a
task asks for. `history` is a ghost.

### TaskXOver

A header is known by its server and number. The ranges of `_server_to_minitasks`
keep their order, newest first, and share their ends as in the code; connections
carry a range and the headers still to come. The store has the reference count
that loads and saves the group, `disk` its two files, written one after the
other with the main loop stopped (`saving`), so that the program can die between
them. What decides about a header is given as three sets of headers, any sets:
`OLD` (the poster's date is before the cutoff of DAYS, or cannot be read, whatever
the number), `CORRUPT` (number, subject, author, date or message-id missing) and
`LONG` (the unpacked line does not fit into the 4096 bytes of `on_nntp_done`).
`Take` is `on_nntp_line_process` for the headers of one call or one answer: a corrupt
one leaves no trace, and one of `OLD` clears what is left to ask of its server.
`Finish` ends an answer with the lines up to the first that is too long, `Garbled`
with any part of it that could be unpacked, `Drop` (`Lost`, `Refused`) with none.
`unwanted` and `missed` are ghosts: headers a mode was to leave out, and headers that
were left out otherwise: with a dropped answer or the rest of one, by a header that
looked too old while they were not, with a removed task, or by a save of the
numbers only.

### Numbers, ReadMarks

`LowerBound` is the binary search, `Before` and `After` are the ranges outside the
two indices it gives. The loops are recursive functions of the number of turns:
`MarkOver` and `UnmarkRange` go over the ranges between the indices with `MarkTurn`
and `UnmarkTurn`, `Merged` is `mark_range`'s second loop and `Reread` that of
`mark_str`. A loop keeps what it has left of the ranges instead of erasing and
inserting in place. `ReadMarks` applies them as the program does: single numbers,
ranges from 0, ranges taken out, and a restart that replays the `newsrc` file;
`truth` is the reference, a set. Numbers have no width (`uint64_t`).

### Headers

`graph` is the nodes, which outlive their articles; `Thread` is the loop of
`load_article` that walks up the References, creating parents, moving the node
between parents or taking out a link that would close a circle. `work` is the
area that running header tasks share, with its index of subjects and its
batches. `tree` has its own parents, as `MyTree` has, and hears of batches and
deletions only. `moved` is a ghost: nodes that later References have moved while
the tree was open; a node is `Settled` when neither it nor one above it is among them.

### WorkerPool

A job waits, runs and is done; how many of a worker's jobs do each is counted, so
that two jobs of one worker could be seen. `lent` stands for the tasks that have
the decoder and the encoder: the report of a job checks the coder in, and may
push it again for the next task (`Cleanup`), as it does in `Queue`. An opener is
a worker made for one socket, deleted after its report. `asked` is a ghost: whose
job somebody wanted cancelled. `phase` follows `main` in `pan.cc` from the end of
the main loop over `~Queue` to `~WorkerPool`.

### Quark

A call is a series of steps, as far as two threads could tell them apart: find or
make the entry, read its count, write it back, give up the old string, erase its
entry. `Found` is the hash table: the entry with the string if there is one, else
any free address, also one that was freed just now. With one thread the
interleaving is that of the code; with two it shows what the missing lock
allows. `apart` is a ghost: no two threads have been in a call at once so far. `Quark`
has theorems and no run of its own (section 6 gives the instance): its theorems are
about executions with any number of threads, as long as `apart` is true.

## 3. Runs

| Run | Instance | Shows |
|---|---|---|
| `pool` | 3 connections, limits 1 to 3 changed at will, keepalive after 1 s, hang-up at 3 s, lockout 2 s | counters exact, users hold live connections, refinement of the ledger, the pool refills, idle connections are refreshed |
| `queue_downloads` | an article of up to 2 parts on two servers beside a post; one connection per server; all failures; every user command | nothing dangles, nothing new for stopped tasks or offline |
| `queue_uploads` | 3 uploads for 2 slots beside a download; network and encoder failures; stops and removals | coders and slots are passed on, no task needs the coder it has |
| `queue_liveness` | a saved article, a displayed one and an upload; failures, lockouts, refused parts | every task ends |
| `session` | 5 requests of any kind over all breakdowns, logins, compressed lists, refused posts | clean connections, own lines, lockstep, right group, every request but a post ends |
| `session_stale` | articles on a server that refuses in the middle of a request | violated: lines of another request (5) |
| `article_cache` | 3 parts, one shared by both tasks, one a sent copy; room for 2 bytes of 4; full disks, restarts, clears | locks match, parts stay, an add leaves only locked parts beyond the limit |
| `uploads` | a file of 2 parts and one of 1, of different names, all parts selected, with and without an article above; the encoder fails to open or to encode; answers posted, duplicate, refused, lost; one stop, a removal, clears | what is sent is there and is right, parts are accounted for, the log is true, the window closes last and does close, the NZB is complete, every upload ends |
| `xover` | 2 servers, one over 2 connections, one compressed; a task for all headers or those of some days and then one for new ones or a sample; articles arrive, headers are misdated, corrupt or too long, requests are refused, connections are lost, answers are unpacked in part or not at all, the program dies | nothing is skipped but in the ways that are named, complete is complete, every task ends |
| `read_marks` | numbers 0 to 6, every sequence of calls | the ranges are the set, results count the changes |
| `headers` | 4 headers, two of them parts of one post, a thread of three; References complete, with a hole, or circular; flushes at any time; overlapping tasks one after another; deletions; ARTICLES and THREADS | a forest, the tree as filtered and threaded, parts together, reloads keep threads |
| `worker_pool` | a decoder, an encoder and 2 openers on 2 threads; pushes, reports that push again, cancels, the end at any time | one job each, workers outlive jobs, cancels hit their job, every job is reported and the end comes |

Bounds. Three connections are the least for which "pending", "in use" and "idle"
can all be non-empty and a limit be lowered below what is open; the timers are
short but keep their order (keepalive before hang-up). In the queue what counts
is who else wants the resource: two tasks per resource give every handover, a
third upload the case where the waiting one is not alone; two servers and
two parts give a part refused by one server and carried by the other. A task's
parts are identical to the queue, so two stand for many. `MaxRequests` is five,
so that a handshake, a request, a failure, another handshake and a request in
another group follow each other, with a sixth where refusals are in play. The
cache orders parts by age and then by id, so three parts of unequal sizes and
three different seconds give every order of eviction. Two files, one of two parts, give an encoder that works on one file while
the other is sent, and a part that is sent while its file's other part is
refused. In `xover` one server has one article and gets another, the other
server has two, with ranges of length 1: two ranges to a server, received out of
order over two connections, is what a gap takes, and a second article that looks
too old is enough to drop the range of the first. The first article of one server is
corrupt and that of the other too long; the properties are violated in this instance
as soon as one of the three is left out of them. With
both tasks queued at once it was made by hand, in halves: with lost and refused
requests and removals, and with garbled answers, crashes and the group opened and left. `MaxTasks` is 1 in `headers`, as a work area lives from the first
header task to the last and tasks that overlap share it: one reference stands
for them. A thread of three is the least in which an article
has a grandparent that comes after it, and a hole; References over three
articles of any length up to 2, the mode SUBTHREADS and the filter that lets
all pass were tried by hand as well. Seven numbers make three ranges with
gaps, which is what one call can touch on both sides. Two kinds of workers in
pairs on two threads let a job of each kind wait behind two others, and a report
push one worker or several; who pushes is not bounded. All bounds are in the
configurations; the constants `MaxParts`, `MaxRequests`, `MaxTwice`, `MaxNow`,
`MaxStops`, `MaxQueued` and `MaxTasks` bound what the program does not.

`CHECK_DEADLOCK FALSE` appears where a bound ends the behaviour: on the requests
of the session runs, the one batch of `uploads`, the tasks of the header runs; and where the
program ends, in `worker_pool`.

### Fairness

* `NntpPool`: time passes, the timer runs `idle_upkeep`, a worker thread and a
  handshake end (the socket's timer ends them at the latest), the queue keeps
  asking for connections as it does for a task that needs one. Strong fairness
  of a socket that opens and a handshake that succeeds says that a server tried
  for ever answers once; without it nothing could be promised.
* `Queue`: `upkeep` runs from a timer (`gui/pan.cc:1058`), jobs of the coders end,
  transfers that are tried again and again succeed sometimes (strong fairness
  of success, per task), lockouts and keepalives end. The conditions are written
  out instead of as `WF`/`SF`, with the guard in place of `ENABLED`: TLC
  would otherwise recompute the nested calls at every use.
* `NntpSession`: the socket writes when it can, lines that arrived are read,
  and a watch without traffic times out (`socket-impl-gio.cc:414`). Nothing is
  assumed of the server.
* `Uploads`: the queue serves what a task asks for, the encoder's thread goes on,
  and a part that is sent again and again gets through some day.
* `TaskXOver`: a save ends, and some of the work that is possible infinitely
  often is done (strong, as the main loop stands still during a save). A lost
  connection needs no fairness: it brings the task nearer to its end.
* `WorkerPool`: threads take jobs in the order they were pushed (strong fairness of
  `Start`, as other jobs may be taken first, but not for ever), jobs end, the main
  loop makes its callbacks, and `main` goes on after the loop.
* `Headers` and `ReadMarks` have safety properties only.

Every property is backed by a mutant, a faulty form of a modelled operation
(`Bad...`, beside the operation) under which the same run fails.

## 4. Proofs

`NntpPoolProofs`, for any set of connections, limits and timeouts:

* `TypeCorrect`, `CountersCorrect`, `UsersCorrect`: `TypeOK`, `CountsMatch` and
  `UsersHoldLiveConnections`. Their conjunction is inductive as it stands; none
  alone is: that `--_active_count` keeps the count exact needs that the
  connection coming back really was in use, and that it is a natural number
  needs that the count is exact.
* `Refinement`: the pool implements `ConnectionLedger` (`ImplementsLedger`). The
  lemma `Moves` says how each operation moves a connection between the three
  sets the ledger knows; every other proof about actions cites it. The counter
  guards become the ledger's set guards by `CountsMatch`.
* `GrowthBounded`: `GrowsWithinLimit`, from the same lemma.

`ArticleCacheProofs`, for any parts, sizes, tasks, limit and faults:

* `LocksCorrect`, `PartsCorrect`, `CopiesCorrect`: `LocksMatch`, `PartsPresent`
  and `CopiesKept`. The inductive invariant adds the types and `IndexOnDisk`
  (what the index names has a file; needed because a copy's fresh message-id
  must be new to the index as well). The argument: a part of a task that exists
  is counted in its lock (`InUseIsLocked`), `resize` passes over what is locked
  (`ResizeKeepsLocked`), and adding, which resizes at its end, keeps all of it
  (`AddKeepsLocked`). Restarting forgets locks and tasks together.
* `LimitCorrect`, `TypeCorrect`: `HoldsToLimit` and `TypeOK`. `Counted` is added:
  the count is never less than the bytes of what the index names. So `resize`
  subtracts only what was counted, and the bytes it leaves are within the limit if
  its count is. Sums are sizes of sets of bytes (`Total`), so that the laws of
  cardinalities replace an induction over files (`TotalWithout`).

`NntpSessionProofs`, for any groups, kinds of request, logins and number of
requests:

* `LockstepCorrect`: `Lockstep`, whatever the server says. The inductive
  invariant (`Types`, `InStep`) says that what is unread is the rest of one
  answer, whole or begun, exactly while the socket's watch is for reading.
* `CleanCorrect`, `OwnLinesCorrect`: `ReturnedClean` and `OwnLines`, for servers
  that refuse nothing in the middle of a request (`Gentle`; the run
  `session_stale` has one that does). `Orderly` is added: the queue holds the rest
  of the listener's own request, and the command that ends a request is its
  last. The mode that opens texts, the login in between and the post's body are
  the cases where this is in doubt.
* `ArticleInItsGroupCorrect`: `ArticleInItsGroup`, for the same servers.
  `InItsGroup` is added: the group of NNTP, corrected by an answer it has yet
  to read, is the server's, and every queued command fits the group its
  predecessors lead to.

`ThreadProofs`, for any workers and any number of threads:

* `JobsCorrect`, `LifetimesCorrect`, `CancelCorrect`: `OneJobEach`,
  `WorkersOutliveJobs` and `CancelIsTheJobs`. The invariant says who has a job at
  all: whoever has one exists and, for a coder, is lent. A push goes to a worker
  without a job, so that it may clear the worker's flags.

and, in its second part, for any number of threads, any finite number of Quarks, and any
strings and addresses (`Program`, the hypothesis of each theorem: there is a thread,
and `None` is neither an address nor a string):

* `StringsCorrect`, `EqualityCorrect`, `NoLeaks`: `StringsKept`, `EqualAsStrings`
  and `NothingLeaks` hold as long as no two threads have been in a call at once
  (`apart`). The threads are not restricted: the encoder's thread makes Quarks as
  the main thread does, each of the other's strings too, and the theorems say that
  calls in turn are safe, whoever makes them, and that an overlap is all that can
  do harm; section 6 says what it does. While `apart` is true at most one thread is in a call
  (`ApartInv`), and the count of an entry is the number of objects that point to it
  (`Counted`), give or take the one the call in progress is about
  (`Extra`). `HoldersMove` says how the number changes when one object points
  elsewhere; `OneEntryEach` and `Pending` are what else the steps need.

`QueueProofs`, for any tasks and servers, any limits and failures, whatever the
user does:

* `NoDanglingTaskIsInvariant`, `CoderNeverIdleIsInvariant`,
  `UploadsKeepGoingIsInvariant`: `NoDanglingTask`, `CoderNeverIdle` and
  `UploadsKeepGoing`. The properties are about the queue at rest, the code is
  about states in the middle of a callback; so the invariant has two parts.
  `Sound` is true in the middle as well: a task in the queue has the work that
  `update_work` would give it and at most one of coder and connections
  (`TaskSound`), one that is not has nothing (`Absent`), and slots are within
  bounds (`Slots`). `Served`, of one task, is what `process_task` achieves for
  it: it is not to be deleted, no idle coder is the one it needs, it does not wait
  while no upload has a slot. At rest every task is served; in the middle all but
  those the callback has yet to process.
* Every function of `queue.cc` has a lemma that says it goes from a sound state to
  a sound state in which the tasks it is about are served and the others no worse
  off (`Goes`; `Alone` if it changes one task only): from `UseNntpServes` and
  `GiveConnectionsServes` up to `ServeServes`, `RemoveTaskServes`,
  `ProcessTaskServes`, `CheckInServes` and `UpkeptServes`. These compose
  (`GoesTrans`), so that a callback that nests four calls deep takes four
  citations. The one that does not come down to its own task is deletion: what
  is left must be sound without the task (`WithoutSound`), and the slot it frees
  must go to one that waits (`EraseServes`). The loops of `process_task`, `clean_n_save` and `upkeep` are
  followed turn by turn (`Loop`, `UpTo`: their number of turns is any number).
* `StoppedGetNothingHolds`, `OfflineIsQuietHolds`: the action properties
  `StoppedGetNothing` and `OfflineIsQuiet`. `Keeps` is part of `Goes`: who is
  stopped, being removed or gone gets nothing in between, and offline nobody does.
  `NntpDoneStep` adds that the connection which came back was not kept.

`UploadsProofs`, for any batch, any selection of parts, any answers and faults:

* `NoPartForgotten`, `LogIsTrue`, `WindowOutlivesTasks`: `PartsAccounted`,
  `SuccessIsTrue` and `ListenerOutlivesTasks`. The account of a file's parts needs to
  know what else is true of a task: only one that has been encoded is sent, the
  part in transfer is one it needs, and one that waits for the encoder or has it
  needs all it wanted (`Transfer`, `Coding`, `Account`). The log's summary is
  true because an error is remembered as long as parts are left. That the window
  is not closed too early needs a count of the queue: `running` is never less
  than the number of tasks in it (`Reports`), each of which reports once at most.
  `CheckedIn` and `CheckInInv` say this once for the end of every callback.
* `NzbIsComplete`: `NzbComplete`. A file's lines are written when its task reports,
  from the list of what was encoded, which is not the list of what was posted; so
  `Listed` follows that list (it is not empty once a part is on the server) and
  `Entries` the window: it is closed by the report that writes the footer.

Its last section is for files of different names of which every part is
uploaded (`DistinctNames`, `AllParts`, hypotheses of both theorems: the cache's keys
are names, and the encoder counts parts itself; section 6):

* `EncodedPartsStay`, `ArticlesHoldTheirParts`: `NeededInCache` and
  `PostedAsAnnounced`. A file in the queue has each key reserved exactly once, so
  that neither shrinking nor clearing takes what is its own (`Stored`,
  `DeleteKeeps`, `DroppedKeeps`). Without errors the encoder writes the part it
  counts, and the parts before it are there (`Progress`); after an error nothing
  of the file is sent, and after a cancellation it begins again.

`TaskXOverProofs`, for any servers, connections and tasks, any ranges, modes and
faults, and any sets `OLD`, `CORRUPT` and `LONG`:

* `SkippedOnlyByFaultsIsInvariant`, `EndsCompleteIsInvariant`: `SkippedOnlyByFaults`
  and `EndsComplete`. What is known of a server is a *number*, and a number stands
  for all headers below it; so the invariant speaks of the numbers a task will yet
  write. `Frontier`: whatever lies below what a task has reached is in the store,
  corrupt, in `unwanted` or `missed`, or still in one of its ranges or answers (`Pending`).
  `Order`: the newest range is asked for first, so that what a task has reached is
  given by where its ranges start. `HighIsTrue` is the same for the numbers in
  memory and on disk. A range taken by a connection moves from one half of `Pending`
  to the other; a dropped answer, or the rest of one (`gone`), moves into `missed`. A header
  that looks too old empties the list of ranges: by `Order` all of them begin below its
  number, and what they held below it is what `Dropped` records.
* `TypeCorrect`: `TypeOK`. That the group is loaded while a connection works needs
  `Store` (the reference count is the number of tasks that hold the store, by
  cardinality) and `Connected` (a connection's task holds it).

`HeadersProofs`, for any articles, parts, References, batches and views:

* `ForestSoundIsInvariant`, `ClosestShownIsInvariant`: `ForestSound` and
  `ClosestShown`. The code walks up parents; the proofs speak of the set of a node's
  ancestors, the least set that has the parent and is closed upwards
  (`AncestorsAre`, `AncestorsLeast`). That a walk as long as there are nodes has met
  them all is `Circle`, a pigeonhole argument. Linking keeps out circles because
  a circle would have to pass the new link (`LinkAcyclic`); the walk of
  `load_article` is followed turn by turn (`Threading`). In the tree a settled
  node's ancestors are its ancestors in the group that are shown (`ShownAbove`), so
  that adding and removing give each the closest one (`TreeAddSound`,
  `TreeRemoveSound`), and a circle of settled nodes would be one in the group.
* `ReloadKeepsThreadsHolds`: `ReloadKeepsThreads`, in whatever order the articles
  are written. While they are loaded the new graph has some of the old one's links
  and no other (`Partial`); each article adds all of those above it (`LoadOne`).
* `PartsTogetherIsInvariant`: `PartsTogether`, as the index of a running task has
  every article of several parts (`Indexed`).
* `ShownMatchesIsInvariant`: `ShownMatches`, if every view has a filter (`Filters`);
  without one the tree takes nodes untested (`NoNullArticle`, section 6).

The last part of `HeadersProofs`, for any highest number and any ranges:

* `ReadIsTheSetIsInvariant`: `ReadIsTheSet`. The invariant only adds that the
  ranges are ranges of natural numbers; the work is in the loops. For each, a turn
  keeps a relation between the ranges done so far, the set of the first i ranges and
  the count, and the relation after the last turn is what the call promises.
  `unmark_range` cuts every range for itself (`CutIs`, `Unmarks`). `mark_range` is
  right for the ranges that callers pass (`Simple`: from 0 on, one number, or beyond
  all others, as in `mark_str`), and its proof needs that: the first loop then only
  erases ranges, but for the last, which may cover the new range, be stretched down
  to 0 or lie beyond it (`MarkOverIs`). The inserted range touches at most its two
  neighbours (`InsertFits`), the indices of the second loop include both, and
  merging between them leaves all in order (`MergedIs`, `Splice`, `Marks`). Ranges
  in order and far apart, read again one after the other, are always beyond those
  before (`RereadIs`).

Assumptions are the named `ASSUME`s of the modules proved about, evaluated by TLC in
the runs: finite sets of connections, tasks, servers and parts, positive sizes and
limits, timers in their order; that a task is of one kind, has servers to use, and
an upload or post exactly one; that the article the files reply to is none of
them; that copies of sent messages have message-ids no task fetches; that `None` is
neither a server or task nor a group, request or command; that the header and the
footer of an NZB are no files; that headers are fetched some at a time
(`INCREMENT`); that coders are not openers, that workers are finitely many and that
there is a thread.

Only model-checked: liveness, which is outside the prover's reach. What a recursive
function computes is an induction over data, for which the library's theorems cannot
be instantiated; the lemmas `Smallest`, `UpTo` and `Loop` stand in for them. The
first follows from the natural numbers being well-founded; the second applies it to
the set of turns at which something holds, the third to the turns for which a loop
has states at all.

## 5. What the runs found

* `session_stale` (`nntp.cc:288`): a failed command leaves the commands behind it
  in `_commands`; the next listener's request starts with them.

## 6. Where the code does otherwise

Seen while modelling. The modules still define the properties named here; each
fails in the instance given.

* `Wakes` (`Queue`; a post and an article on one server, `ERR_COMMAND` and
  `ERR_NETWORK`): `upkeep` (`queue.cc:166`) wakes the first task whose work is
  NEED_NNTP and no other. A refused post is such a task for ever; an article
  behind it whose handshake failed is never tried again.
* `TriesAgain` (`Queue`; one article, `ERR_NOSPACE`, a user who goes online
  again and again): ERR_NOSPACE stays in the task's health
  (`task-article.cc:303`) and every `process_task` takes the queue offline.
* `PostEnds` (`NntpSession`; posts only, "noposting"): `state` is unassigned on
  440 and 441 (`nntp.cc:210`), and the request may never end.
* `ReadsWhole` (`ArticleCache`; full disks and restarts): a failed write leaves a
  truncated file that a restart takes for a cached part (`article-cache.cc:242`).
* `AgesOutOnlyWhenFull` (`ArticleCache`, as in its run): adding a part that is
  there already counts its bytes again (`article-cache.cc:260`).
* `LostIsRetried` (`Uploads`, as in its run): the article that the files reply to
  is dropped when its connection is lost (`task-upload.cc:304`), which
  `health.h:29-31` says it should not be.
* `NothingSkipped` (`TaskXOver`, as in its run with `FAULTS = {"lost"}`): the
  connection is returned whatever its health and its range is not put back
  (`task-xover.cc:479`). Newer ranges are asked for first, so the lost one lies below
  the number that is recorded as known. With `FAULTS = {}` it is violated as well: a
  header whose date looks too old, or cannot be read, makes a DAYS task drop all that is
  still to be asked of its server, be it older or not (`task-xover.cc:409`); a
  corrupt header is not stored, and the next number rises over its own (`380`); a line of an
  unpacked answer that does not fit into 4096 bytes ends the answer, with health OK
  (`469`). `SkippedOnlyByFaults` names these, refused, lost and garbled answers,
  removed tasks, and numbers that another group's save writes ahead of their headers, and
  says that in the model a header is skipped in no other way.
* `QuitCancelsAll` (`WorkerPool`, as in its run): a worker is taken off the register
  after its listener was called (`worker-pool.cc:92`), which may have pushed it
  again. Its job is then not known to `cancel_all_silently` ("Calls each of this
  pool's workers' cancel_silently()", `worker-pool.h:50`) nor to the destructor.
* `StringsKept` (`Quark`; three objects of two strings, one of them another
  thread's): the counts are shared and nothing is locked (`quark.h:166`), but the
  encoder's thread makes Quarks of its parts' message-ids (`encoder.cc:151,164`,
  `encode-cache.cc:145`); one thread's count overwrites the other's, or a string is
  freed between being found and being counted. Until two threads are in a call at once it
  holds (`StringsCorrect`).
* `NoNullArticle` (`Headers`, `VIEWS <- NoFilter`): a batch names an article that
  has been deleted since; a tree with an empty filter (`header-pane.cc:1531`)
  takes the node untested and `MyTree::add_articles` reads its null article.
* `TreeAcyclic` (`Headers`; messages 1 to 7, each a post of its own, shown as
  "all", with References <<>>, <<1>>, <<4>>, none yet, <<1, 3, 2>>, <<2, 7, 1>> and <<>>):
  References that come later move a node of the group (`headers.cc:328`), but nobody
  tells the tree, which asks the group only about new nodes and those below them
  (`my-tree.cc:503`). While 1, 2, 3, 5, 6, 7 arrive one by one, 5 moves 2 from 1
  to 3, and 6 puts 1 below 7 and 7 below 2; when 7 comes the tree hangs 7 under 2
  and 1 under 7, while 2 still hangs under 1. `ForestSound` says
  that no circle comes about in another way.

Not in the models:

* Queue: a stopped upload keeps its slot, and a freed slot may be given to a
  stopped upload (`queue.cc:688`); ERR_LOCAL is never stored in a task's health
  (`task-article.cc:301`); `_mids` forgets an article another task still fetches
  (`queue.cc:675`).
* Cache: copies of sent messages are locked only until the next start.
* Uploads: a refusal other than 441 erases its part twice, which is undefined;
  with deselected parts the part count of the subject and the cache's names can
  disagree; the footer of the NZB and the window are forgotten when the article
  above comes last (`post-ui.cc:1009`); a refused last part is never followed by
  the log's summary; a stop after the encoder has ended leaves its entries in
  `_upload_list` to be added again; a file that could not be opened is in the NZB
  all the same; the first article references itself (`post-ui.cc:1292-1299`).
* Header tasks: a compressed answer whose connection is lost ends the program
  (`atoi` of a null pointer); SAMPLE leaves the lowest article out where
  there are fewer than it may take, and `_sample_size` is shared by the servers; the lowest
  number `set_xover_low` is given is marked read with what is below it. `ydecode` tests
  `bad()` only (`compression.cc:54`): it does not return when `=yend` is missing, or after a
  line of more than 511 characters. What `inflate_zlib` returns after an error of
  the library counts as success, so that a part of a garbled answer is taken; and
  `buffer->clear()` (`task-xover.cc:465`) clears the stream's flags only, so that what
  was not decoded stays before the connection's next answer.
* At the program's end `~Queue` deletes decoder and encoder before the pool waits for
  their jobs (`pan.cc:1009-1011`); `WorkersOutliveJobs` is about the time before.
* Numbers: `mark_range` of a range that does not start at 0 can lose a number
  ({0-1},{3} and [1,3] make [0,2]) or leave ranges that touch; no caller passes
  one, since callers mark single numbers and ranges from 0.
* Headers: `unread_count` drifts when articles that were read are fetched again
  or a group is marked read during a download; SHOW_THREADS leaves out a reply
  that does not match and arrives in a thread that does; the tree keeps a parent
  that later References have changed (`Settled`).

## 7. Abstractions worth knowing

* Time is an action. Partial reads and writes of a socket are one step; so is
  the decoding of an article, with its outcome and its cancellation.
* Data are model values: article texts, headers, names. A file is its size and
  date.
* Listeners that only redraw are left out; listeners that change the state of a
  modelled component are inside the action that calls them.
* In `ArticleCache` two tasks may fetch the same part, as an article does that
  is displayed while it is being saved. Each such part is counted twice, without
  end; `MaxTwice` bounds by how much.
* In `WorkerPool` an opener is not cancelled, as the queue's tasks never ask it.
* An upload's refused part is one the server refused with 441.
* `TaskXOver` leaves out the expiry of old numbers, and a compressed answer that begins
  with what an earlier one left behind; `Headers` has one group, no
  crossposts and no rules, and of several candidates for a part's article takes
  the lowest, where the code takes the first of a multimap. The first header of
  a work area is always flushed at once (`_last_flush_time` is 0).
* A user answers no dialogs in the models; what a dialog leads to is an action.

## 8. Plan

1. (done) pool, queue, session, article cache; proofs about pool, session and
   cache.
2. (done) encode cache, encoder and uploads; header tasks; read marks; headers and
   threads; worker pool; Quarks; proofs about the session, the uploads, the worker
   pool and Quarks.
3. (done) proofs about the queue, the NZB, the header tasks, threads and tree, and
   read marks: all safety properties of the runs are proved.
4. The queue's counts as a refinement of `ConnectionLedger` (`idle`, `pending`,
   lent), so that the reduction made in `Queue` is itself checked.
5. `AdaptableSet`'s two indices; the packed parts of an article.

## 9. Not modelled

Most of the user interface (GTK widgets; its commands are actions of the models), servers and profiles (records), file
formats and saved preferences (each one reader and one writer), TLS handshakes
(the library's), filters, scoring, message texts and character sets (functions
of their input, which the repository's tests reach), uulib (vendored),
translations and help. `PROJECT.json` lists them with the reason for each.
