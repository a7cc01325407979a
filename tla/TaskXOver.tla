----------------------------- MODULE TaskXOver ------------------------------
(***************************************************************************)
(* The download of a group's headers (pan/tasks/task-xover.cc): tasks that *)
(* ask several servers, over several connections each, for ranges of       *)
(* article numbers, the store that their headers go to and the number up   *)
(* to which each server's headers are known (pan/data-impl/xover.cc,       *)
(* groups.cc, headers.cc), what of it is on disk, and the user.  A header  *)
(* is known by its server and number: what it says is Headers.tla's.       *)
(***************************************************************************)
EXTENDS Integers, FiniteSets, FiniteSetsExt, Sequences, SequencesExt

CONSTANTS SERVER, CONN, ServerOf,   \* the servers and their connections
          TASK,         \* header tasks, numbered as they are started
          MaxQueued,    \* bound on the tasks that are queued together
          None,
          MODES,        \* what each may be asked for: ALL, NEW, SAMPLE, DAYS
          Sample,       \* how many headers a SAMPLE asks of a server
          OLD,          \* headers whose date is before the cutoff of a DAYS,
                        \* or cannot be read: whatever their number
          CORRUPT,      \* headers without number, subject, author, date or id
          LONG,         \* headers whose line is too long to be unpacked
          COMPRESSED,   \* the servers that answer in compressed mode
          INCREMENT,    \* how far a range reaches
          Last0,        \* the last article of each server at first
          ARRIVING,     \* the servers that get another article
          FAULTS,       \* what goes wrong in this instance
          USER          \* what else the user does

ASSUME TaskXOverAssumption ==
  /\ IsFiniteSet(SERVER) /\ IsFiniteSet(CONN) /\ IsFiniteSet(TASK)
  /\ TASK \subseteq Nat /\ MaxQueued \in Nat
  /\ ServerOf \in [CONN -> SERVER] /\ None \notin TASK
  /\ MODES \in [TASK -> SUBSET {"ALL", "NEW", "SAMPLE", "DAYS"}]
  /\ OLD \cup CORRUPT \cup LONG \subseteq SERVER \X Nat
  /\ Sample \in Nat /\ INCREMENT \in Nat \ {0}
  /\ COMPRESSED \subseteq SERVER /\ ARRIVING \subseteq SERVER
  /\ Last0 \in [SERVER -> Nat]
  /\ FAULTS \subseteq {"lost", "refused", "garbled", "crash"}
  /\ USER \subseteq {"show", "remove", "mark other groups"}

VARIABLES
  server,   \* the numbers of the first and the last article of each server
  task,     \* TaskXOver
  conn,     \* NNTP, and what its answer still has to deliver
  store,    \* GroupHeaders and ReadGroup::Server::_xover_high
  disk,     \* the group's headers file, and newsgroups.xov
  unwanted, \* headers that a mode was to leave out
  missed    \* headers that a fault, or a misdated header, left out

vars == <<server, task, conn, store, disk, unwanted, missed>>

GROUP == [low |-> 0, high |-> 0]
Absent == [work |-> "NONE", mode |-> None, reffed |-> FALSE, removing |-> FALSE,
           need |-> {},         \* Task::State::_servers
           mini |-> [s \in SERVER |-> <<>>],    \* _server_to_minitasks
           started |-> {},      \* _servers_that_got_xover_minitasks
           high |-> [s \in SERVER |-> 0],       \* _high
           asked |-> [s \in SERVER |-> {}],
           sample |-> Sample]
IdleConn == [task |-> None, stage |-> "idle", range |-> GROUP, todo |-> {}]

Init ==
  /\ server = [s \in SERVER |-> [low |-> 1, high |-> Last0[s]]]
  /\ task = [t \in TASK |-> Absent]
  /\ conn = [c \in CONN |-> IdleConn]
  /\ store = [refs |-> 0, shown |-> FALSE, saving |-> FALSE, have |-> {},
              high |-> [s \in SERVER |-> 0]]
  /\ disk = [have |-> {}, high |-> [s \in SERVER |-> 0]]
  /\ unwanted = {} /\ missed = {}

Queued(t) == task[t].work \notin {"NONE", "GONE"}
Conns(t) == {c \in CONN : conn[c].task = t}
IdleConns(s) == {c \in CONN : ServerOf[c] = s /\ conn[c] = IdleConn}
Existing(s) == server[s].low..server[s].high
Headers(s, range) == Existing(s) \cap (range.low..range.high)
Of(s, ns) == {<<s, n>> : n \in ns}

----------------------------------------------------------------------------
(* The task.                                                               *)

\* A task without minitasks is complete even while connections work for it.
BadUpdateWork(k, nntp_count) ==
  LET servers == {s \in SERVER : k.mini[s] # <<>>}
  IN  [k EXCEPT !.need = servers,
                !.work = IF servers # {} THEN "NEED_NNTP" ELSE "COMPLETED"]

\* update_work
UpdateWork(k, nntp_count) ==
  LET servers == {s \in SERVER : k.mini[s] # <<>>}
  IN  [k EXCEPT !.need = servers,
                !.work = CASE servers # {} -> "NEED_NNTP"
                           [] servers = {} /\ nntp_count > 0 -> "WORKING"
                           [] OTHER -> "COMPLETED"]

\* The ranges of on_nntp_group, which share their ends, as push_front leaves
\* them: the newest first.
Ranges(low, high) ==
  LET qty == (high - low) \div INCREMENT + 1
      At(i) == low + (qty - i) * INCREMENT
  IN  [i \in 1..qty |-> [low |-> At(i), high |-> At(i) + INCREMENT]]

SampleSize(k, s) ==
  IF server[s].low <= server[s].high
  THEN Min({k.sample, server[s].high - server[s].low}) ELSE k.sample

\* The number after the known ones is left out.
BadFirst(k, s) ==
  LET low == server[s].low
  IN  CASE k.mode \in {"ALL", "DAYS"} -> low
        [] k.mode = "SAMPLE" -> Max({low, server[s].high + 1 - SampleSize(k, s)})
        [] k.mode = "NEW" -> Max({store.high[s] + 2, low})

\* The first number to ask a server for.
First(k, s) ==
  LET low == server[s].low
  IN  CASE k.mode \in {"ALL", "DAYS"} -> low
        [] k.mode = "SAMPLE" -> Max({low, server[s].high + 1 - SampleSize(k, s)})
        [] k.mode = "NEW" -> Max({store.high[s] + 1, low})

\* on_nntp_group: only the first answer of a server counts.
OnGroup(k, s) ==
  LET low == First(k, s)
      high == server[s].high
  IN  IF s \in k.started THEN k
      ELSE IF low <= high
      THEN [k EXCEPT !.started = @ \cup {s}, !.asked[s] = low..high,
                     !.mini[s] = Ranges(low, high) \o @,
                     !.sample = IF k.mode = "SAMPLE" THEN SampleSize(k, s) ELSE @]
      ELSE [k EXCEPT !.started = @ \cup {s}, !.high[s] = high,
                     !.sample = IF k.mode = "SAMPLE" THEN SampleSize(k, s) ELSE @]

\* on_nntp_line_process, for the headers of these numbers.  A corrupt one is
\* dropped, and its number forgotten.
Readable(s, ns) == {n \in ns : <<s, n>> \notin CORRUPT}
Outdated(k, s, ns) ==
  IF k.mode = "DAYS" THEN {n \in Readable(s, ns) : <<s, n>> \in OLD} ELSE {}

\* One that looks too old drops all that is left to ask of its server.
Take(k, s, ns) ==
  [k EXCEPT !.high[s] = Max({@} \cup Readable(s, ns)),
            !.mini[s] = IF Outdated(k, s, ns) = {} THEN @ ELSE <<>>]

\* The headers that are still to be asked for, and those of them that are
\* dropped because of a later one.
Left(k, s) == UNION {Headers(s, r) : r \in ToSet(k.mini[s])}
Dropped(k, s, ns) == {n \in Left(k, s) : \E m \in Outdated(k, s, ns) : n <= m}

----------------------------------------------------------------------------
(* The store of the group's headers.                                       *)

Loaded(st) == st.refs > 0 \/ st.shown

\* ref_group loads the headers for the first of its users.
Ref(st, new) == [new EXCEPT !.have = IF Loaded(st) THEN @ ELSE disk.have]

\* unref_group: the last user's save_headers writes the headers first and
\* the numbers up to which they are known second, and the memory is freed.
Unref(new) ==
  /\ store' = IF Loaded(new) THEN new
              ELSE [new EXCEPT !.have = {}, !.saving = TRUE]
  /\ disk' = IF Loaded(new) THEN disk ELSE [disk EXCEPT !.have = new.have]

\* The end of save_headers: save_group_xovers.
SaveXovers ==
  /\ store.saving
  /\ store' = [store EXCEPT !.saving = FALSE]
  /\ disk' = [disk EXCEPT !.high = store.high]
  /\ UNCHANGED <<server, task, conn, unwanted, missed>>

----------------------------------------------------------------------------
(* The task and its connections.                                           *)

Start(t) ==
  /\ ~store.saving /\ task[t].work = "NONE"
  /\ Cardinality({u \in TASK : Queued(u)}) < MaxQueued
  /\ \A u \in TASK : u < t => task[u].work # "NONE"
  /\ \E mode \in MODES[t] :
       task' = [task EXCEPT ![t] =
         UpdateWork([Absent EXCEPT !.mode = mode, !.high = store.high,
                                   !.mini = [s \in SERVER |-> <<GROUP>>]], 0)]
  /\ UNCHANGED <<server, conn, store, disk, unwanted, missed>>

\* The task refs the group with the first connection it is given.
FirstUse(k) == IF k.reffed THEN store ELSE Ref(store, [store EXCEPT !.refs = @ + 1])

\* use_nntp.  A connection that is new to the group selects it first.
UseNntp(t, c) ==
  LET s == ServerOf[c]
      k == [task[t] EXCEPT !.reffed = TRUE]
      mini == k.mini[s]
      rest == [k EXCEPT !.mini[s] = Tail(@)]
  IN  /\ ~store.saving
      /\ k.work = "NEED_NNTP" /\ s \in k.need /\ ~k.removing
      /\ conn[c] = IdleConn /\ c = CHOOSE x \in IdleConns(s) : TRUE
      /\ store' = FirstUse(task[t])
      /\ \/ /\ mini = <<>>
            /\ task' = [task EXCEPT ![t] = [k EXCEPT !.need = @ \ {s}]]
            /\ UNCHANGED conn
         \/ /\ mini # <<>>
            /\ task' = [task EXCEPT ![t] = UpdateWork(rest, Cardinality(Conns(t)) + 1)]
            /\ \E stage \in IF Head(mini) = GROUP THEN {"group"} ELSE {"enter", "lines"} :
                 conn' = [conn EXCEPT ![c] =
                   [task |-> t, stage |-> stage, range |-> Head(mini),
                    todo |-> IF stage = "lines" THEN Headers(s, Head(mini)) ELSE {}]]
      /\ UNCHANGED <<server, disk, unwanted, missed>>

\* The connection that is being returned is counted.
BadDone(c, k) ==
  LET t == conn[c].task
  IN  /\ task' = [task EXCEPT ![t] = UpdateWork(k, Cardinality(Conns(t)))]
      /\ conn' = [conn EXCEPT ![c] = IdleConn]

\* on_nntp_done: the task loses its connection, whatever the health.
Done(c, k) ==
  LET t == conn[c].task
  IN  /\ task' = [task EXCEPT ![t] = UpdateWork(k, Cardinality(Conns(t)) - 1)]
      /\ conn' = [conn EXCEPT ![c] = IdleConn]

\* The answer to GROUP, of the task's own or before a range.
GroupAnswer(c) ==
  LET s == ServerOf[c]
      k == task[conn[c].task]
  IN  /\ ~store.saving /\ conn[c].stage \in {"group", "enter"}
      /\ \/ conn[c].stage = "group" /\ Done(c, OnGroup(k, s))
         \/ /\ conn[c].stage = "enter"
            /\ task' = [task EXCEPT ![conn[c].task] = OnGroup(k, s)]
            /\ conn' = [conn EXCEPT ![c].stage = "lines",
                                    ![c].todo = Headers(s, conn[c].range)]
      /\ unwanted' = IF k.mode = "SAMPLE" /\ s \notin k.started
                     THEN unwanted \cup Of(s, 1..(First(k, s) - 1)) ELSE unwanted
      /\ UNCHANGED <<server, store, disk, missed>>

\* The task is given the headers of these numbers, and never those of rest.
Lines(c, ns, rest) ==
  LET s == ServerOf[c]
      k == task[conn[c].task]
      old == Outdated(k, s, ns)
      dropped == Of(s, Dropped(k, s, ns))
  IN  /\ store' = [store EXCEPT !.have = @ \cup Of(s, Readable(s, ns) \ old)]
      /\ unwanted' = unwanted \cup Of(s, old) \cup (dropped \cap OLD)
      /\ missed' = missed \cup Of(s, rest) \cup (dropped \ OLD)

\* on_nntp_line
Line(c) ==
  LET n == Min(conn[c].todo)
      t == conn[c].task
  IN  /\ ~store.saving /\ conn[c].todo # {} /\ ServerOf[c] \notin COMPRESSED
      /\ Lines(c, {n}, {})
      /\ task' = [task EXCEPT ![t] = Take(@, ServerOf[c], {n})]
      /\ conn' = [conn EXCEPT ![c].todo = @ \ {n}]
      /\ UNCHANGED <<server, disk>>

\* The lines before the first that does not fit into the buffer: getline.
Fitting(s, ns) == {n \in ns : \A m \in ns : m <= n => <<s, m>> \notin LONG}

\* on_nntp_done, with these of the headers that were asked for.
Finish(c, ns) ==
  /\ Lines(c, ns, conn[c].todo \ ns)
  /\ Done(c, Take(task[conn[c].task], ServerOf[c], ns))
  /\ UNCHANGED <<server, disk>>

\* The end of an answer, which is unpacked if it came compressed.
AllLines(c) ==
  /\ ~store.saving /\ conn[c].stage = "lines"
  /\ ServerOf[c] \in COMPRESSED \/ conn[c].todo = {}
  /\ Finish(c, Fitting(ServerOf[c], conn[c].todo))

\* A compressed answer cannot be unpacked, or only up to some line.
Garbled(c) ==
  /\ "garbled" \in FAULTS /\ ~store.saving
  /\ conn[c].stage = "lines" /\ ServerOf[c] \in COMPRESSED
  /\ \E m \in conn[c].todo :
       Finish(c, Fitting(ServerOf[c], {n \in conn[c].todo : n < m}))

\* on_nntp_done, without an answer: the range is not asked for again.
Drop(c) ==
  LET ns == CASE conn[c].stage = "group" -> {}
              [] conn[c].stage = "enter" -> Headers(ServerOf[c], conn[c].range)
              [] conn[c].stage = "lines" -> conn[c].todo
  IN  /\ ~store.saving /\ conn[c].stage # "idle"
      /\ Done(c, task[conn[c].task])
      /\ missed' = missed \cup Of(ServerOf[c], ns)
      /\ UNCHANGED <<server, store, disk, unwanted>>

\* The connection is lost.  (During a compressed answer that ends the
\* program: see Crash.)
Lost(c) == "lost" \in FAULTS /\ ServerOf[c] \notin COMPRESSED /\ Drop(c)

\* The server refuses a request, instead of its first line.
Refused(c) ==
  /\ "refused" \in FAULTS
  /\ conn[c].stage = "lines" =>
       \A n \in Headers(ServerOf[c], conn[c].range) : \E m \in conn[c].todo : m <= n
  /\ Drop(c)

\* The queue deletes a task that is complete, or removed and without
\* connections: ~TaskXOver.
End(t) ==
  LET k == task[t]
  IN  /\ ~store.saving /\ Queued(t) /\ Conns(t) = {}
      /\ k.work = "COMPLETED" \/ k.removing
      /\ task' = [task EXCEPT ![t] = [Absent EXCEPT !.work = "GONE"]]
      /\ IF k.reffed
         THEN Unref([store EXCEPT !.high = k.high, !.refs = @ - 1])
         ELSE UNCHANGED <<store, disk>>
      /\ missed' = missed \cup UNION {Of(s, Left(k, s)) : s \in SERVER}
      /\ UNCHANGED <<server, conn, unwanted>>

----------------------------------------------------------------------------
(* The user, the servers and the machine.                                  *)

RemoveTask(t) ==
  /\ "remove" \in USER /\ ~store.saving /\ Queued(t) /\ ~task[t].removing
  /\ task' = [task EXCEPT ![t].removing = TRUE]
  /\ UNCHANGED <<server, conn, store, disk, unwanted, missed>>

\* The user opens the group, or leaves it.
Show ==
  LET new == [store EXCEPT !.shown = ~@]
  IN  /\ "show" \in USER /\ ~store.saving
      /\ \/ ~store.shown /\ store' = Ref(store, new) /\ UNCHANGED disk
         \/ store.shown /\ Unref(new)
      /\ UNCHANGED <<server, task, conn, unwanted, missed>>

\* mark_group_read, and save_headers of another group, write every group's
\* numbers, those of headers that are only in memory too.
MarkOtherGroups ==
  /\ "mark other groups" \in USER /\ ~store.saving
  /\ disk' = [disk EXCEPT !.high = store.high]
  /\ missed' = missed \cup IF Loaded(store) THEN store.have \ disk.have ELSE {}
  /\ UNCHANGED <<server, task, conn, store, unwanted>>

Arrive(s) ==
  /\ ~store.saving /\ s \in ARRIVING
  /\ server[s].high = Last0[s]
  /\ server' = [server EXCEPT ![s].high = @ + 1]
  /\ UNCHANGED <<task, conn, store, disk, unwanted, missed>>

\* The program dies, and starts again.
Crash ==
  /\ "crash" \in FAULTS /\ \E t \in TASK : task[t].work # "NONE"
  /\ task' = [t \in TASK |-> IF Queued(t) THEN [Absent EXCEPT !.work = "GONE"] ELSE task[t]]
  /\ conn' = [c \in CONN |-> IdleConn]
  /\ store' = [refs |-> 0, shown |-> FALSE, saving |-> FALSE, have |-> {}, high |-> disk.high]
  /\ UNCHANGED <<server, disk, unwanted, missed>>

Answer(c) == GroupAnswer(c) \/ Line(c) \/ AllLines(c)

Work == \/ \E c \in CONN : Answer(c) \/ \E t \in TASK : UseNntp(t, c)
        \/ \E t \in TASK : End(t)

Next == \/ Work \/ SaveXovers \/ Show \/ MarkOtherGroups \/ Crash
        \/ \E t \in TASK : Start(t) \/ RemoveTask(t)
        \/ \E c \in CONN : Lost(c) \/ Refused(c) \/ Garbled(c)
        \/ \E s \in SERVER : Arrive(s)

Spec == Init /\ [][Next]_vars

\* save_headers returns, and then the main loop runs: the queue lends the
\* connections that tasks ask for and servers answer.  It is enough that some
\* of this goes on, since a task takes a bounded number of such steps; the
\* fairness is strong because the main loop stands still during each save.
FairSpec == Spec /\ WF_vars(SaveXovers) /\ SF_vars(Work)

----------------------------------------------------------------------------

\* Every variable has its type, and the group is loaded while a task that
\* was given a connection is in the queue, as xover_add requires.
TypeOK ==
  /\ \A t \in TASK :
       /\ task[t].work \in {"NONE", "NEED_NNTP", "WORKING", "COMPLETED", "GONE"}
       /\ task[t].mode \in MODES[t] \cup {None}
       /\ task[t].need \subseteq SERVER /\ task[t].started \subseteq SERVER
  /\ \A c \in CONN :
       conn[c].stage \in {"idle", "group", "enter", "lines"}
  /\ store.refs = Cardinality({t \in TASK : Queued(t) /\ task[t].reffed})
  /\ \A c \in CONN : conn[c] # IdleConn => Loaded(store)

Known == IF Loaded(store) THEN store.have ELSE disk.have

\* What a server has, and pan takes to be known, but it is not.
Gaps == (UNION {Of(s, server[s].low..Min({server[s].high, store.high[s]})) : s \in SERVER})
        \ Known

\* No header of a number that the next request for new headers leaves out is
\* absent, in memory or after a restart, other than
\*   - those a mode was to leave out,
\*   - those that lack what pan wants of a header,
\*   - those of an answer that was refused, lost or unreadable, or that came
\*     in it after a line too long for the buffer,
\*   - those that a DAYS task had still to ask for when a later one, by its
\*     date, was too old,
\*   - those of a removed task, and of a list of numbers saved ahead of them.
SkippedOnlyByFaults == Gaps \subseteq unwanted \cup missed \cup CORRUPT

\* The same without exception for faults: a range that was not received is
\* asked for again, as ERR_NETWORK has it in health.h.
NothingSkipped == Gaps \subseteq unwanted

\* When a task says it is complete, every header that it found a server to
\* have has been stored, unless one of the same has happened to it.
EndsComplete ==
  \A t \in TASK, s \in SERVER : task[t].work = "COMPLETED" =>
    Of(s, task[t].asked[s] \cap Existing(s)) \subseteq
      store.have \cup unwanted \cup missed \cup CORRUPT

\* Every header task ends, although connections are lost while it has others
\* out, ranges are dropped under it and it is lent a connection for nothing.
EveryTaskEnds == \A t \in TASK : Queued(t) ~> ~Queued(t)
=============================================================================
