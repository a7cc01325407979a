--------------------------- MODULE NntpPoolProofs ---------------------------
(***************************************************************************)
(* NntpPool for any number of connections, any limits and any timeouts:    *)
(* its counters, its users and its growth are right in every reachable     *)
(* state, and it implements ConnectionLedger.                              *)
(***************************************************************************)
EXTENDS NntpPool, FiniteSetTheorems, TLAPS

Inv == TypeOK /\ CountsMatch /\ UsersHoldLiveConnections

\* The sets the counters count are finite, and the idle count the pool
\* computes from its counters is the number of idle connections.
LEMMA Finite == ASSUME Inv
                PROVE  /\ IsFiniteSet(Pending) /\ IsFiniteSet(InUse)
                       /\ IsFiniteSet(checked_in) /\ IsFiniteSet(pool_items)
                       /\ (idle_count = 0) <=> (checked_in = {})
<1>1. /\ Pending \in SUBSET NNTP /\ InUse \in SUBSET NNTP
      /\ checked_in \in SUBSET NNTP /\ pool_items \in SUBSET NNTP
  BY DEF Inv, TypeOK, Pending, InUse, With
<1>2. /\ IsFiniteSet(Pending) /\ IsFiniteSet(InUse)
      /\ IsFiniteSet(checked_in) /\ IsFiniteSet(pool_items)
  BY <1>1, FS_Subset, PoolAssumption
<1>3. InUse \cup checked_in = pool_items /\ InUse \cap checked_in = {}
  BY DEF Inv, TypeOK, InUse
<1>4. Cardinality(pool_items) = Cardinality(InUse) + Cardinality(checked_in)
                                - Cardinality(InUse \cap checked_in)
  BY <1>2, <1>3, FS_Union
<1>5. Cardinality(InUse \cap checked_in) = 0
  BY <1>3, FS_EmptySet
<1>6. /\ Cardinality(checked_in) \in Nat /\ Cardinality(InUse) \in Nat
  BY <1>2, FS_CardinalityType
<1>7. Cardinality(checked_in) = 0 <=> checked_in = {}
  BY <1>2, FS_EmptySet
<1> QED
  BY <1>2, <1>4, <1>5, <1>6, <1>7 DEF Inv, CountsMatch, idle_count

\* In the initial state nothing is open.
LEMMA InitInv == Init => Inv
<1> SUFFICES ASSUME Init PROVE Inv
  OBVIOUS
<1>1. TypeOK
  BY PoolAssumption DEF Init, TypeOK, Owner
<1>2. Pending = {} /\ InUse = {} /\ UsersHoldLiveConnections
  BY DEF Init, Pending, InUse, With, UsersHoldLiveConnections
<1>3. CountsMatch
  BY <1>2, FS_EmptySet DEF Init, CountsMatch
<1> QED
  BY <1>1, <1>2, <1>3 DEF Inv

\* How each operation moves connections between the three sets the ledger
\* knows: the heart of every proof below.
LEMMA Moves ==
  ASSUME Inv, NEW n \in NNTP
  PROVE  /\ RequestNntp(n) => /\ n \notin Pending /\ n \notin InUse /\ n \notin checked_in
                              /\ Pending' = Pending \cup {n}
                              /\ InUse' = InUse /\ checked_in' = checked_in
         /\ SocketFailed(n) => /\ n \in Pending /\ Pending' = Pending \ {n}
                               /\ InUse' = InUse /\ checked_in' = checked_in
         /\ SocketOpened(n) => /\ Pending' = Pending
                               /\ InUse' = InUse /\ checked_in' = checked_in
         /\ \A t \in BOOLEAN : HandshakeFailed(n, t) =>
                               /\ n \in Pending /\ Pending' = Pending \ {n}
                               /\ InUse' = InUse /\ checked_in' = checked_in
         /\ HandshakeDone(n) => /\ n \in Pending /\ Pending' = Pending \ {n}
                                /\ InUse' = InUse
                                /\ checked_in' = checked_in \cup {n}
         /\ CheckOut(n) => /\ n \in checked_in /\ n \notin InUse
                           /\ Pending' = Pending
                           /\ InUse' = InUse \cup {n}
                           /\ checked_in' = checked_in \ {n}
<1> USE DEF Inv, TypeOK, UsersHoldLiveConnections, Pending, InUse, With, Owner
<1>1. ASSUME RequestNntp(n)
      PROVE  /\ n \notin Pending /\ n \notin InUse /\ n \notin checked_in
             /\ Pending' = Pending \cup {n}
             /\ InUse' = InUse /\ checked_in' = checked_in
  BY <1>1 DEF RequestNntp
<1>2. ASSUME SocketFailed(n)
      PROVE  /\ n \in Pending /\ Pending' = Pending \ {n}
             /\ InUse' = InUse /\ checked_in' = checked_in
  BY <1>2 DEF SocketFailed
<1>3. ASSUME SocketOpened(n)
      PROVE  Pending' = Pending /\ InUse' = InUse /\ checked_in' = checked_in
  BY <1>3 DEF SocketOpened
<1>4. ASSUME NEW t \in BOOLEAN, HandshakeFailed(n, t)
      PROVE  /\ n \in Pending /\ Pending' = Pending \ {n}
             /\ InUse' = InUse /\ checked_in' = checked_in
  BY <1>4 DEF HandshakeFailed
<1>5. ASSUME HandshakeDone(n)
      PROVE  /\ n \in Pending /\ Pending' = Pending \ {n}
             /\ InUse' = InUse /\ checked_in' = checked_in \cup {n}
  BY <1>5 DEF HandshakeDone
<1>6. ASSUME CheckOut(n)
      PROVE  /\ n \in checked_in /\ n \notin InUse
             /\ Pending' = Pending /\ InUse' = InUse \cup {n}
             /\ checked_in' = checked_in \ {n}
  BY <1>6 DEF CheckOut
<1> QED
  BY <1>1, <1>2, <1>3, <1>4, <1>5, <1>6

\* A connection that comes back leaves its user, for the pool or for good.
LEMMA CheckInMoves ==
  ASSUME Inv, NEW n \in NNTP, NEW h \in Health, CheckIn(n, h),
         owner[n] \in {"task", "noop", "quit"}
  PROVE  /\ n \in InUse /\ n \notin checked_in
         /\ InUse' = InUse \ {n} /\ Pending' = Pending
         /\ checked_in' \subseteq pool_items'
         /\ MustDiscard(h) => checked_in' = checked_in
         /\ ~MustDiscard(h) => checked_in' = checked_in \cup {n}
<1> USE DEF Inv, TypeOK, UsersHoldLiveConnections, Pending, InUse, With, Owner, CheckIn
<1>1. n \in InUse /\ n \notin checked_in
  OBVIOUS
<1>2. CASE MustDiscard(h)
  BY <1>1, <1>2
<1>3. CASE ~MustDiscard(h)
  BY <1>1, <1>3
<1> QED
  BY <1>1, <1>2, <1>3

\* The keepalive lends itself every connection that is idle for too long.
LEMMA UpkeepMoves ==
  ASSUME Inv, IdleUpkeep
  PROVE  /\ TooIdle # {} /\ TooIdle \subseteq checked_in
         /\ checked_in' = checked_in \ TooIdle
         /\ InUse' = InUse \cup TooIdle /\ Pending' = Pending
<1>1. TooIdle # {} /\ TooIdle \subseteq checked_in
  BY DEF IdleUpkeep, TooIdle
<1>2. checked_in' = checked_in \ TooIdle /\ InUse' = InUse \cup TooIdle
  BY <1>1 DEF IdleUpkeep, Inv, TypeOK, InUse
<1>3. ASSUME NEW n \in NNTP
      PROVE  n \in Pending' <=> n \in Pending
  BY <1>1 DEF IdleUpkeep, Inv, UsersHoldLiveConnections, Pending, With
<1>4. Pending' = Pending
  BY <1>3 DEF Pending, With
<1> QED
  BY <1>1, <1>2, <1>4

----------------------------------------------------------------------------
\* Each conjunct of the invariant survives every step.
LEMMA TypeStep == Inv /\ [Next]_vars => TypeOK'
<1> SUFFICES ASSUME Inv, [Next]_vars PROVE TypeOK'
  OBVIOUS
<1> USE PoolAssumption DEF Inv, TypeOK, Owner
<1>1. /\ active_count = Cardinality(InUse) /\ Cardinality(InUse) \in Nat
      /\ pending_connections = Cardinality(Pending) /\ Cardinality(Pending) \in Nat
      /\ \A n \in Pending : Cardinality(Pending) > 0
      /\ \A n \in InUse : Cardinality(InUse) > 0
  BY Finite, FS_CardinalityType, FS_EmptySet DEF CountsMatch
<1>2. ASSUME NEW n \in NNTP, RequestNntp(n) PROVE TypeOK'
  BY <1>2 DEF RequestNntp
<1>3. ASSUME NEW n \in NNTP, SocketFailed(n) PROVE TypeOK'
  <2>1. pending_connections > 0
    BY <1>1, <1>3, Moves
  <2> QED
    BY <1>3, <2>1 DEF SocketFailed
<1>4. ASSUME NEW n \in NNTP, SocketOpened(n) PROVE TypeOK'
  BY <1>4 DEF SocketOpened
<1>5. ASSUME NEW n \in NNTP, NEW t \in BOOLEAN, HandshakeFailed(n, t) PROVE TypeOK'
  <2>1. pending_connections > 0
    BY <1>1, <1>5, Moves
  <2> QED
    BY <1>5, <2>1 DEF HandshakeFailed
<1>6. ASSUME NEW n \in NNTP, HandshakeDone(n) PROVE TypeOK'
  <2>1. pending_connections > 0
    BY <1>1, <1>6, Moves
  <2> QED
    BY <1>6, <2>1 DEF HandshakeDone
<1>7. ASSUME NEW n \in NNTP, CheckOut(n) PROVE TypeOK'
  BY <1>7 DEF CheckOut
<1>8. ASSUME NEW n \in NNTP, NEW h \in Health, CheckIn(n, h),
             owner[n] \in {"task", "noop", "quit"}
      PROVE  TypeOK'
  <2>1. active_count > 0 /\ checked_in' \subseteq pool_items'
    BY <1>1, <1>8, CheckInMoves
  <2> QED
    BY <1>8, <2>1 DEF CheckIn
<1>9. ASSUME IdleUpkeep PROVE TypeOK'
  <2>1. Cardinality(TooIdle) \in Nat
    BY <1>9, UpkeepMoves, Finite, FS_Subset, FS_CardinalityType
  <2> QED
    BY <1>9, <2>1 DEF IdleUpkeep
<1>10. ASSUME Tick PROVE TypeOK'
  BY <1>10 DEF Tick
<1>11. ASSUME SetLimit PROVE TypeOK'
  BY <1>11 DEF SetLimit
<1>12. CASE UNCHANGED vars
  BY <1>12 DEF vars
<1> QED
  BY <1>2, <1>3, <1>4, <1>5, <1>6, <1>7, <1>8, <1>9, <1>10, <1>11, <1>12
     DEF Next, TaskDone, NoopDone, QuitDone, Health

\* Nobody loses a connection in use, or shares it.
LEMMA UsersStep == Inv /\ [Next]_vars => UsersHoldLiveConnections'
<1> SUFFICES ASSUME Inv, [Next]_vars PROVE UsersHoldLiveConnections'
  OBVIOUS
<1> USE DEF Inv, TypeOK, UsersHoldLiveConnections, InUse, With, Owner
<1>1. ASSUME NEW n \in NNTP, RequestNntp(n) PROVE UsersHoldLiveConnections'
  BY <1>1 DEF RequestNntp
<1>2. ASSUME NEW n \in NNTP, SocketFailed(n) PROVE UsersHoldLiveConnections'
  BY <1>2 DEF SocketFailed
<1>3. ASSUME NEW n \in NNTP, SocketOpened(n) PROVE UsersHoldLiveConnections'
  BY <1>3 DEF SocketOpened
<1>4. ASSUME NEW n \in NNTP, NEW t \in BOOLEAN, HandshakeFailed(n, t)
      PROVE  UsersHoldLiveConnections'
  BY <1>4 DEF HandshakeFailed
<1>5. ASSUME NEW n \in NNTP, HandshakeDone(n) PROVE UsersHoldLiveConnections'
  BY <1>5 DEF HandshakeDone
<1>6. ASSUME NEW n \in NNTP, CheckOut(n) PROVE UsersHoldLiveConnections'
  BY <1>6 DEF CheckOut
<1>7. ASSUME NEW n \in NNTP, NEW h \in Health, CheckIn(n, h),
             owner[n] \in {"task", "noop", "quit"}
      PROVE  UsersHoldLiveConnections'
  <2>1. CASE MustDiscard(h)
    BY <1>7, <2>1 DEF CheckIn
  <2>2. CASE ~MustDiscard(h)
    BY <1>7, <2>2 DEF CheckIn
  <2> QED
    BY <2>1, <2>2
<1>8. ASSUME IdleUpkeep PROVE UsersHoldLiveConnections'
  BY <1>8, UpkeepMoves DEF IdleUpkeep
<1>9. ASSUME Tick PROVE UsersHoldLiveConnections'
  BY <1>9 DEF Tick
<1>10. ASSUME SetLimit PROVE UsersHoldLiveConnections'
  BY <1>10 DEF SetLimit
<1>11. CASE UNCHANGED vars
  BY <1>11 DEF vars
<1> QED
  BY <1>1, <1>2, <1>3, <1>4, <1>5, <1>6, <1>7, <1>8, <1>9, <1>10, <1>11
     DEF Next, TaskDone, NoopDone, QuitDone, Health

\* The counters move with the sets they count.
LEMMA CountsStep == Inv /\ [Next]_vars => CountsMatch'
<1> SUFFICES ASSUME Inv, [Next]_vars PROVE CountsMatch'
  OBVIOUS
<1> USE DEF CountsMatch
<1>1. /\ IsFiniteSet(Pending) /\ IsFiniteSet(InUse) /\ IsFiniteSet(checked_in)
      /\ Cardinality(Pending) \in Nat /\ Cardinality(InUse) \in Nat
      /\ pending_connections = Cardinality(Pending)
      /\ active_count = Cardinality(InUse)
  BY Finite, FS_CardinalityType DEF Inv
<1>2. ASSUME NEW n \in NNTP
      PROVE  /\ Cardinality(Pending \cup {n}) =
                IF n \in Pending THEN Cardinality(Pending) ELSE Cardinality(Pending) + 1
             /\ Cardinality(Pending \ {n}) =
                IF n \in Pending THEN Cardinality(Pending) - 1 ELSE Cardinality(Pending)
             /\ Cardinality(InUse \cup {n}) =
                IF n \in InUse THEN Cardinality(InUse) ELSE Cardinality(InUse) + 1
             /\ Cardinality(InUse \ {n}) =
                IF n \in InUse THEN Cardinality(InUse) - 1 ELSE Cardinality(InUse)
  BY <1>1, FS_AddElement, FS_RemoveElement
<1>3. ASSUME NEW n \in NNTP, RequestNntp(n) PROVE CountsMatch'
  BY <1>1, <1>2, <1>3, Moves DEF RequestNntp
<1>4. ASSUME NEW n \in NNTP, SocketFailed(n) PROVE CountsMatch'
  BY <1>1, <1>2, <1>4, Moves DEF SocketFailed
<1>5. ASSUME NEW n \in NNTP, SocketOpened(n) PROVE CountsMatch'
  BY <1>1, <1>5, Moves DEF SocketOpened
<1>6. ASSUME NEW n \in NNTP, NEW t \in BOOLEAN, HandshakeFailed(n, t) PROVE CountsMatch'
  BY <1>1, <1>2, <1>6, Moves DEF HandshakeFailed
<1>7. ASSUME NEW n \in NNTP, HandshakeDone(n) PROVE CountsMatch'
  BY <1>1, <1>2, <1>7, Moves DEF HandshakeDone
<1>8. ASSUME NEW n \in NNTP, CheckOut(n) PROVE CountsMatch'
  BY <1>1, <1>2, <1>8, Moves DEF CheckOut
<1>9. ASSUME NEW n \in NNTP, NEW h \in Health, CheckIn(n, h),
             owner[n] \in {"task", "noop", "quit"}
      PROVE  CountsMatch'
  BY <1>1, <1>2, <1>9, CheckInMoves DEF CheckIn
<1>10. ASSUME IdleUpkeep PROVE CountsMatch'
  <2>1. IsFiniteSet(TooIdle) /\ InUse \cap TooIdle = {}
    BY <1>1, <1>10, UpkeepMoves, FS_Subset DEF InUse
  <2>2. Cardinality(InUse \cup TooIdle) =
          Cardinality(InUse) + Cardinality(TooIdle) - Cardinality(InUse \cap TooIdle)
    BY <1>1, <2>1, FS_Union
  <2>3. Cardinality(TooIdle) \in Nat /\ Cardinality(InUse \cap TooIdle) = 0
    BY <2>1, FS_CardinalityType, FS_EmptySet
  <2>4. Cardinality(InUse') = Cardinality(InUse) + Cardinality(TooIdle)
    BY <1>1, <1>10, <2>2, <2>3, UpkeepMoves
  <2> QED
    BY <1>1, <1>10, <2>4, UpkeepMoves DEF IdleUpkeep
<1>11. ASSUME Tick \/ SetLimit \/ UNCHANGED vars PROVE CountsMatch'
  BY <1>1, <1>11 DEF Tick, SetLimit, vars, Pending, InUse, With
<1> QED
  BY <1>3, <1>4, <1>5, <1>6, <1>7, <1>8, <1>9, <1>10, <1>11
     DEF Next, TaskDone, NoopDone, QuitDone, Health

----------------------------------------------------------------------------
\* The pool's counters always agree with its connections (CountsMatch), no
\* connection in use is deleted or lent twice (UsersHoldLiveConnections) and
\* every variable keeps its type, for all of NNTP_Pool's operations.
THEOREM Invariance == Spec => []Inv
<1>1. Inv /\ [Next]_vars => Inv'
  BY TypeStep, UsersStep, CountsStep DEF Inv
<1> QED
  BY InitInv, <1>1, PTL DEF Spec

\* The counters are naturals and every variable keeps its type, whatever the order
\* in which worker threads, handshakes, tasks and timers call the pool.
THEOREM TypeCorrect == Spec => []TypeOK
BY Invariance, PTL DEF Inv

\* check_out, check_in, idle_upkeep and the two callbacks of a new connection
\* keep _pending_connections and _active_count exact.
THEOREM CountersCorrect == Spec => []CountsMatch
BY Invariance, PTL DEF Inv

\* check_in and check_out never give one connection to two users.
THEOREM UsersCorrect == Spec => []UsersHoldLiveConnections
BY Invariance, PTL DEF Inv

\* The ledger counts with the same Cardinality.
LEMMA LedgerCardinality == ASSUME NEW S
                           PROVE  Ledger!Cardinality(S) = Cardinality(S)
BY DEF Ledger!Cardinality, Cardinality

\* Every step of the pool is a step of the ledger.
LEMMA LedgerStep == Inv /\ [Next]_vars => [Ledger!Next]_(Ledger!ledgerVars)
<1> SUFFICES ASSUME Inv, [Next]_vars
             PROVE  [Ledger!Next]_(Ledger!ledgerVars)
  OBVIOUS
<1> USE DEF Ledger!ledgerVars
<1>1. /\ IsFiniteSet(Pending) /\ IsFiniteSet(InUse) /\ Pending \cap InUse = {}
      /\ pending_connections = Cardinality(Pending)
      /\ active_count = Cardinality(InUse)
      /\ idle_count = 0 <=> checked_in = {}
  BY Finite DEF Inv, CountsMatch, UsersHoldLiveConnections, Pending, With
<1>2. /\ Cardinality(Pending) \in Nat /\ Cardinality(InUse) \in Nat
      /\ Cardinality(Pending \cap InUse) = 0
  BY <1>1, FS_CardinalityType, FS_EmptySet
<1>15. Cardinality(Pending \cup InUse) = Cardinality(Pending) + Cardinality(InUse)
                                          - Cardinality(Pending \cap InUse)
  BY <1>1, FS_Union
<1>3. /\ Cardinality(Pending \cup InUse) = pending_connections + active_count
      /\ Ledger!Cardinality(Pending \cup InUse) = pending_connections + active_count
  BY <1>1, <1>2, <1>15, LedgerCardinality
<1>4. ASSUME NEW n \in NNTP, RequestNntp(n) PROVE Ledger!Request(n)
  BY <1>1, <1>3, <1>4, Moves DEF RequestNntp, Ledger!Request, Ledger!Open
<1>5. ASSUME NEW n \in NNTP, SocketFailed(n) PROVE Ledger!Refused(n)
  BY <1>5, Moves DEF SocketFailed, Ledger!Refused
<1>6. ASSUME NEW n \in NNTP, SocketOpened(n) PROVE UNCHANGED Ledger!ledgerVars
  BY <1>6, Moves DEF SocketOpened
<1>7. ASSUME NEW n \in NNTP, NEW t \in BOOLEAN, HandshakeFailed(n, t)
      PROVE  Ledger!Refused(n)
  BY <1>7, Moves DEF HandshakeFailed, Ledger!Refused
<1>8. ASSUME NEW n \in NNTP, HandshakeDone(n) PROVE Ledger!Connected(n)
  BY <1>8, Moves DEF HandshakeDone, Ledger!Connected
<1>9. ASSUME NEW n \in NNTP, CheckOut(n) PROVE Ledger!Lend({n})
  BY <1>9, Moves DEF CheckOut, Ledger!Lend
<1>10. ASSUME NEW n \in NNTP, NEW h \in Health, CheckIn(n, h),
              owner[n] \in {"task", "noop", "quit"}
       PROVE  Ledger!Return(n) \/ Ledger!Discard(n)
  <2>1. CASE MustDiscard(h)
    BY <1>10, <2>1, CheckInMoves DEF CheckIn, Ledger!Discard
  <2>2. CASE ~MustDiscard(h)
    <3>1. Ledger!Cardinality(Pending \cup InUse) <= max
      BY <1>2, <1>1, <1>3, <2>2, PoolAssumption DEF MustDiscard, Inv, TypeOK
    <3> QED
      BY <1>10, <2>2, <3>1, CheckInMoves DEF CheckIn, Ledger!Return
  <2> QED
    BY <2>1, <2>2
<1>11. ASSUME IdleUpkeep PROVE Ledger!Lend(TooIdle)
  BY <1>11, UpkeepMoves DEF IdleUpkeep, Ledger!Lend
<1>12. ASSUME Tick \/ UNCHANGED vars PROVE UNCHANGED Ledger!ledgerVars
  BY <1>12 DEF Tick, vars, Pending, InUse, With
<1>13. ASSUME SetLimit PROVE Ledger!SetLimit
  BY <1>13 DEF SetLimit, Ledger!SetLimit, Pending, InUse, With
<1>14. TooIdle \in SUBSET NNTP /\ \A n \in NNTP : {n} \in SUBSET NNTP
  BY DEF TooIdle, Inv, TypeOK
<1> QED
  BY <1>4, <1>5, <1>6, <1>7, <1>8, <1>9, <1>10, <1>11, <1>12, <1>13, <1>14
     DEF Next, TaskDone, NoopDone, QuitDone, Ledger!Next, Health

\* NNTP_Pool's counters and timers decide as the ledger's sets would: the
\* pool implements the ledger.
THEOREM Refinement == Spec => ImplementsLedger
<1>1. Init => Ledger!Init
  BY InitInv DEF Init, Ledger!Init, Pending, InUse, With
<1> QED
  BY <1>1, LedgerStep, Invariance, PTL DEF Spec, ImplementsLedger, Ledger!Spec

\* A step that leaves the pool with more connections opens one, and leaves no
\* more than the limit in force: request_nntp counts what is really open.
THEOREM GrowthBounded == Spec => GrowsWithinLimit
<1> DEFINE Grows == Cardinality(Connections') > Cardinality(Connections)
                      => Cardinality(Connections') <= max'
<1>1. Inv /\ Inv' /\ [Next]_vars => [Grows]_vars
  <2> SUFFICES ASSUME Inv, Inv', [Next]_vars PROVE Grows
    OBVIOUS
  <2> USE DEF Ledger!ledgerVars
  <2>1. /\ Connections = Pending \cup checked_in \cup InUse
        /\ Connections' = Pending' \cup checked_in' \cup InUse'
    BY DEF Inv, TypeOK, UsersHoldLiveConnections, Connections, Pending, InUse,
       With, Owner
  <2>2. IsFiniteSet(Connections) /\ Connections' \in SUBSET NNTP
    BY FS_Subset, PoolAssumption DEF Connections, With
  <2>3. ASSUME Connections' \subseteq Connections PROVE Grows
    BY <2>2, <2>3, FS_Subset, FS_CardinalityType
  <2>4. ASSUME NEW n \in NNTP, Ledger!Request(n) PROVE Grows
    <3>1. Connections = Pending \cup InUse /\ Connections' = Connections \cup {n}
      BY <2>1, <2>4 DEF Ledger!Request
    <3>2. Cardinality(Connections') = Cardinality(Connections) + 1
      BY <2>2, <2>4, <3>1, FS_AddElement DEF Ledger!Request, Ledger!Open
    <3>3. Cardinality(Connections) \in Nat /\ max \in Nat
      BY <2>2, FS_CardinalityType, PoolAssumption DEF Inv, TypeOK
    <3> QED
      BY <2>4, <3>1, <3>2, <3>3, LedgerCardinality DEF Ledger!Request
  <2>5. ASSUME Ledger!Next, \A n \in NNTP : ~Ledger!Request(n)
        PROVE  Connections' \subseteq Connections
    BY <2>1, <2>5 DEF Ledger!Next, Ledger!Connected, Ledger!Refused,
       Ledger!Return, Ledger!Discard, Ledger!Lend, Ledger!SetLimit
  <2>6. ASSUME UNCHANGED Ledger!ledgerVars PROVE Connections' \subseteq Connections
    BY <2>1, <2>6
  <2> QED
    BY <2>3, <2>4, <2>5, <2>6, LedgerStep
<1> QED
  BY <1>1, Invariance, PTL DEF Spec, GrowsWithinLimit

=============================================================================
