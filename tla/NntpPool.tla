------------------------------ MODULE NntpPool ------------------------------
(***************************************************************************)
(* NNTP_Pool (pan/tasks/nntp-pool.cc): the connections Pan keeps to one    *)
(* news server.  A connection is opened by a worker thread, greets the     *)
(* server, waits in the pool, is lent to a task or to the pool's own       *)
(* keepalive, and is handed back or thrown away.                           *)
(*                                                                         *)
(* The program counts: _pending_connections and _active_count are integers *)
(* that ten code paths adjust.  "owner" is what is really going on: who    *)
(* will next call the pool about a connection.  The invariants relate them.*)
(***************************************************************************)
EXTENDS Integers, FiniteSets

CONSTANTS NNTP,           \* identities of connections
          LIMITS,         \* the connection limits the user may configure
          MAX_IDLE_SECS,  \* idle longer than this: send a keepalive
          HUP_IDLE_SECS,  \* idle at least this long: hang up
          LOCKOUT_SECS    \* how long a "too many connections" reply is obeyed

ASSUME PoolAssumption == /\ IsFiniteSet(NNTP)
                         /\ LIMITS \subseteq Nat
                         /\ MAX_IDLE_SECS \in Nat
                         /\ HUP_IDLE_SECS \in Nat
                         /\ MAX_IDLE_SECS < HUP_IDLE_SECS
                         /\ LOCKOUT_SECS \in Nat

VARIABLES
  pending_connections, \* _pending_connections
  active_count,        \* _active_count
  pool_items,          \* the connections in _pool_items
  checked_in,          \* those whose is_checked_in is set
  idle_secs,           \* now - last_active_time, up to HUP_IDLE_SECS
  lockout_secs,        \* _time_to_allow_new_connections - now, at least 0
  max,                 \* get_server_limits()
  owner                \* who will next call the pool about the connection

vars == <<pending_connections, active_count, pool_items, checked_in,
          idle_secs, lockout_secs, max, owner>>

Health == {"OK", "ERR_NETWORK", "ERR_COMMAND", "ERR_LOCAL", "ERR_NOSPACE"}

Owner == {"nobody",     \* the connection does not exist
          "socket",     \* a worker thread is opening its socket
          "handshake",  \* the server's greeting is awaited
          "pool",       \* idle in the pool
          "task",       \* checked out by the queue for a task
          "noop",       \* the keepalive's answer is awaited
          "quit"}       \* the answer to QUIT is awaited

With(o) == {n \in NNTP : owner[n] \in o}

Pending == With({"socket", "handshake"})
InUse == pool_items \ checked_in

idle_count == Cardinality(pool_items) - active_count

Init == /\ pending_connections = 0
        /\ active_count = 0
        /\ pool_items = {} /\ checked_in = {}
        /\ idle_secs = [n \in NNTP |-> 0]
        /\ lockout_secs = 0
        /\ max \in LIMITS
        /\ owner = [n \in NNTP |-> "nobody"]

----------------------------------------------------------------------------
\* request_nntp: start one more connection if none is idle, the limit has
\* room and no lockout is in force.
RequestNntp(n) ==
  /\ owner[n] = "nobody"
  /\ idle_count = 0
  /\ pending_connections + active_count < max
  /\ lockout_secs = 0
  /\ pending_connections' = pending_connections + 1
  /\ owner' = [owner EXCEPT ![n] = "socket"]
  /\ UNCHANGED <<active_count, pool_items, checked_in, idle_secs,
                 lockout_secs, max>>

\* Faulty forms of the operations, named Bad..., show that the properties can
\* tell them from the code.  Here: the failed socket stays counted as pending.
BadSocketFailed(n) ==
  /\ owner[n] = "socket"
  /\ owner' = [owner EXCEPT ![n] = "nobody"]
  /\ UNCHANGED <<pending_connections, active_count, pool_items, checked_in,
                 idle_secs, lockout_secs, max>>

\* on_socket_created: the worker thread's result arrives in the main thread.
\* The socket is not ok, or no login could be found for the server.
SocketFailed(n) ==
  /\ owner[n] = "socket"
  /\ owner' = [owner EXCEPT ![n] = "nobody"]
  /\ pending_connections' = pending_connections - 1
  /\ UNCHANGED <<active_count, pool_items, checked_in, idle_secs,
                 lockout_secs, max>>

SocketOpened(n) ==
  /\ owner[n] = "socket"
  /\ owner' = [owner EXCEPT ![n] = "handshake"]
  /\ UNCHANGED <<pending_connections, active_count, pool_items, checked_in,
                 idle_secs, lockout_secs, max>>

\* A refused handshake returns before --_pending_connections.
BadHandshakeFailed(n, tooMany) ==
  /\ owner[n] = "handshake"
  /\ lockout_secs' = IF tooMany THEN LOCKOUT_SECS ELSE lockout_secs
  /\ owner' = [owner EXCEPT ![n] = "nobody"]
  /\ UNCHANGED <<pending_connections, active_count, pool_items, checked_in,
                 idle_secs, max>>

\* on_nntp_done: the handshake ended.  "tooMany" is the recognition of a
\* "too many connections" reply, only looked for when the health is
\* ERR_COMMAND; the session's other failure is ERR_NETWORK.
HandshakeFailed(n, tooMany) ==
  /\ owner[n] = "handshake"
  /\ lockout_secs' = IF tooMany THEN LOCKOUT_SECS ELSE lockout_secs
  /\ owner' = [owner EXCEPT ![n] = "nobody"]
  /\ pending_connections' = pending_connections - 1
  /\ UNCHANGED <<active_count, pool_items, checked_in, idle_secs, max>>

HandshakeDone(n) ==
  /\ owner[n] = "handshake"
  /\ pending_connections' = pending_connections - 1
  /\ pool_items' = pool_items \cup {n}
  /\ checked_in' = checked_in \cup {n}
  /\ idle_secs' = [idle_secs EXCEPT ![n] = 0]
  /\ owner' = [owner EXCEPT ![n] = "pool"]
  /\ UNCHANGED <<active_count, lockout_secs, max>>

\* The item handed out stays marked as checked in.
BadCheckOut(n) ==
  /\ n \in checked_in
  /\ active_count' = active_count + 1
  /\ owner' = [owner EXCEPT ![n] = "task"]
  /\ UNCHANGED <<pending_connections, pool_items, checked_in, idle_secs,
                 lockout_secs, max>>

\* check_out: hand an idle connection to the queue.
CheckOut(n) ==
  /\ n \in checked_in
  /\ checked_in' = checked_in \ {n}
  /\ active_count' = active_count + 1
  /\ owner' = [owner EXCEPT ![n] = "task"]
  /\ UNCHANGED <<pending_connections, pool_items, idle_secs, lockout_secs, max>>

\* The counts are read after --_active_count.
BadMustDiscard(health) == \/ health \in {"ERR_NETWORK", "ERR_NOSPACE"}
                          \/ pending_connections + active_count - 1 > max

\* check_in: the counts are read before --_active_count, so "pending + active"
\* still includes the connection that comes back.
MustDiscard(health) == \/ health \in {"ERR_NETWORK", "ERR_NOSPACE"}
                       \/ pending_connections + active_count > max

CheckIn(n, health) ==
  /\ n \in pool_items
  /\ active_count' = active_count - 1
  /\ \/ /\ MustDiscard(health)
        /\ pool_items' = pool_items \ {n}
        /\ lockout_secs' = IF health = "ERR_NETWORK" THEN 0 ELSE lockout_secs
        /\ owner' = [owner EXCEPT ![n] = "nobody"]
        /\ UNCHANGED <<checked_in, idle_secs>>
     \/ /\ ~MustDiscard(health)
        /\ checked_in' = checked_in \cup {n}
        /\ idle_secs' = [idle_secs EXCEPT ![n] = 0]
        /\ owner' = [owner EXCEPT ![n] = "pool"]
        /\ UNCHANGED <<pool_items, lockout_secs>>
  /\ UNCHANGED <<pending_connections, max>>

TaskDone(n, health) == owner[n] = "task" /\ CheckIn(n, health)

\* NoopListener::on_nntp_done: QUIT's answer counts as a lost connection.
NoopDone(n, health) == /\ owner[n] = "noop"
                       /\ health \in {"OK", "ERR_COMMAND", "ERR_NETWORK"}
                       /\ CheckIn(n, health)

QuitDone(n) == owner[n] = "quit" /\ CheckIn(n, "ERR_NETWORK")

\* The keepalive looks only for connections to hang up on.
BadTooIdle == {n \in checked_in : idle_secs[n] > HUP_IDLE_SECS}

\* idle_upkeep: every connection idle for too long is checked out and sent a
\* keepalive or a QUIT.
TooIdle == {n \in checked_in : idle_secs[n] > MAX_IDLE_SECS}

IdleUpkeep ==
  /\ TooIdle # {}
  /\ checked_in' = checked_in \ TooIdle
  /\ active_count' = active_count + Cardinality(TooIdle)
  /\ owner' = [n \in NNTP |-> IF n \notin TooIdle THEN owner[n]
                              ELSE IF idle_secs[n] >= HUP_IDLE_SECS
                                   THEN "quit" ELSE "noop"]
  /\ UNCHANGED <<pending_connections, pool_items, idle_secs, lockout_secs, max>>

\* A second passes.
Tick ==
  /\ idle_secs' = [n \in NNTP |->
                     IF n \in checked_in /\ idle_secs[n] < HUP_IDLE_SECS
                     THEN idle_secs[n] + 1 ELSE idle_secs[n]]
  /\ lockout_secs' = IF lockout_secs > 0 THEN lockout_secs - 1 ELSE 0
  /\ UNCHANGED <<pending_connections, active_count, pool_items, checked_in,
                 max, owner>>

\* The user edits the server's connection limit.
SetLimit ==
  /\ max' \in LIMITS
  /\ UNCHANGED <<pending_connections, active_count, pool_items, checked_in,
                 idle_secs, lockout_secs, owner>>

Next ==
  \/ \E n \in NNTP : \/ RequestNntp(n) \/ SocketFailed(n) \/ SocketOpened(n)
                     \/ \E tooMany \in BOOLEAN : HandshakeFailed(n, tooMany)
                     \/ HandshakeDone(n)
                     \/ CheckOut(n)
                     \/ \E h \in Health : TaskDone(n, h) \/ NoopDone(n, h)
                     \/ QuitDone(n)
  \/ IdleUpkeep
  \/ Tick
  \/ SetLimit

Spec == Init /\ [][Next]_vars

----------------------------------------------------------------------------
\* Every variable has its type; the counters are naturals.
TypeOK == /\ pending_connections \in Nat
          /\ active_count \in Nat
          /\ pool_items \subseteq NNTP
          /\ checked_in \subseteq pool_items
          /\ idle_secs \in [NNTP -> 0..HUP_IDLE_SECS]
          /\ lockout_secs \in 0..LOCKOUT_SECS
          /\ max \in LIMITS
          /\ owner \in [NNTP -> Owner]

\* The counters the pool decides by agree with what is really outstanding:
\* no code path of on_socket_created, on_nntp_done, check_in, check_out and
\* idle_upkeep loses or repeats an adjustment.
CountsMatch == /\ pending_connections = Cardinality(Pending)
               /\ active_count = Cardinality(InUse)

\* A connection someone uses is still in the pool and is not offered to
\* anyone else: check_in never deletes or lends one that is in use.
UsersHoldLiveConnections ==
  /\ checked_in = With({"pool"})
  /\ InUse = With({"task", "noop", "quit"})

Connections == With(Owner \ {"nobody"})

\* A connection is opened only while the server's limit leaves room for it,
\* even when the limit was lowered below the number already open.
GrowsWithinLimit ==
  [][Cardinality(Connections') > Cardinality(Connections)
       => Cardinality(Connections') <= max']_vars

\* The pool's connections seen as entries of the abstract ledger.
Ledger == INSTANCE ConnectionLedger
            WITH connecting <- Pending, idle <- checked_in, lent <- InUse

\* The pool implements the ledger: the counters and timers decide as the
\* ledger's sets would.
ImplementsLedger == Ledger!Spec

----------------------------------------------------------------------------
\* The main loop runs timers and upkeep forever, the worker threads finish,
\* sockets answer or time out (socket-impl-gio.cc TIMEOUT_SECS), the queue
\* keeps asking; a server that is tried again and again accepts sometimes.
Fairness ==
  /\ WF_vars(Tick) /\ WF_vars(IdleUpkeep)
  /\ WF_vars(\E n \in NNTP : RequestNntp(n))
  /\ \A n \in NNTP : /\ WF_vars(SocketFailed(n) \/ SocketOpened(n))
                     /\ WF_vars(HandshakeDone(n)
                                \/ \E t \in BOOLEAN : HandshakeFailed(n, t))
                     /\ WF_vars(\E h \in Health : NoopDone(n, h))
                     /\ WF_vars(QuitDone(n))
  /\ SF_vars(\E n \in NNTP : SocketOpened(n))
  /\ SF_vars(\E n \in NNTP : HandshakeDone(n))

FairSpec == Spec /\ Fairness

\* A pool that lost all its connections gets one again: neither a lost
\* decrement of the pending counter nor a lockout blocks it for good.
PoolRefills == (pool_items = {}) ~> (pool_items # {})

\* No connection rots in the pool: past the keepalive threshold it is used,
\* pinged or hung up.
IdleIsRefreshed == \A n \in NNTP :
  LET Stale == n \in checked_in /\ idle_secs[n] > MAX_IDLE_SECS
  IN  Stale ~> ~Stale

=============================================================================
