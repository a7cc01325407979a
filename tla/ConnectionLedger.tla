-------------------------- MODULE ConnectionLedger --------------------------
(***************************************************************************)
(* What a pool of connections to one news server promises its users,       *)
(* independent of sockets, handshakes, timers and counters: a connection   *)
(* is being opened, idle or lent to one user; a new one is opened only     *)
(* when none is idle and the server's limit leaves room for it.            *)
(*                                                                         *)
(* NntpPool implements this specification (see NntpPool!Ledger).           *)
(***************************************************************************)
EXTENDS Naturals, FiniteSets

CONSTANTS NNTP,   \* identities of connections
          LIMITS  \* the connection limits the user may configure

VARIABLES connecting, \* connections that are being opened
          idle,       \* connections nobody uses
          lent,       \* connections a task or a keepalive uses
          max         \* the limit in force

ledgerVars == <<connecting, idle, lent, max>>

Open == connecting \cup idle \cup lent

Init == /\ connecting = {} /\ idle = {} /\ lent = {}
        /\ max \in LIMITS

\* Start a new connection: nothing is idle and the limit leaves room.
Request(n) == /\ n \notin Open
              /\ idle = {}
              /\ Cardinality(connecting \cup lent) < max
              /\ connecting' = connecting \cup {n}
              /\ UNCHANGED <<idle, lent, max>>

\* An attempt to connect ends, well or badly.
Connected(n) == /\ n \in connecting
                /\ connecting' = connecting \ {n}
                /\ idle' = idle \cup {n}
                /\ UNCHANGED <<lent, max>>

Refused(n) == /\ n \in connecting
              /\ connecting' = connecting \ {n}
              /\ UNCHANGED <<idle, lent, max>>

\* Idle connections are handed out (several at once to the keepalive).
Lend(S) == /\ S # {} /\ S \subseteq idle
           /\ idle' = idle \ S
           /\ lent' = lent \cup S
           /\ UNCHANGED <<connecting, max>>

\* The user of a connection is done with it; above the limit it must go.
Return(n) == /\ n \in lent
             /\ Cardinality(connecting \cup lent) <= max
             /\ lent' = lent \ {n}
             /\ idle' = idle \cup {n}
             /\ UNCHANGED <<connecting, max>>

Discard(n) == /\ n \in lent
              /\ lent' = lent \ {n}
              /\ UNCHANGED <<connecting, idle, max>>

SetLimit == /\ max' \in LIMITS
            /\ UNCHANGED <<connecting, idle, lent>>

Next == \/ \E n \in NNTP : Request(n) \/ Connected(n) \/ Refused(n)
                             \/ Return(n) \/ Discard(n)
        \/ \E S \in SUBSET NNTP : Lend(S)
        \/ SetLimit

Spec == Init /\ [][Next]_ledgerVars

=============================================================================
