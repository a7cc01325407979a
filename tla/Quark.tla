------------------------------- MODULE Quark --------------------------------
(***************************************************************************)
(* Strings that are kept once, in a table, for all the Quarks that are     *)
(* equal to them, and counted (pan/general/quark.h).  Message-ids, groups, *)
(* servers and authors are Quarks, and are compared as pointers.  Nothing  *)
(* is locked: the encoder's thread makes Quarks of message-ids for each    *)
(* part (encoder.cc, encode-cache.cc), and the threads that open secure    *)
(* sockets copy the server's (socket-impl-openssl.cc).                     *)
(***************************************************************************)
EXTENDS Integers, FiniteSets

CONSTANTS QUARK,     \* objects
          STRING_,   \* what they are made of
          IMPL,      \* addresses in the table
          THREAD,
          Owner,     \* the thread an object belongs to
          None

VARIABLES impl,    \* what each object points to
          entry,   \* _lookup: the string at each address
          count,   \* refcount
          text,    \* what each object was made of
          call,    \* what each thread is doing
          apart    \* no two threads have been in a call at once so far

vars == <<impl, entry, count, text, call, apart>>

Idle == [stage |-> "idle"]

Init == /\ impl = [q \in QUARK |-> None] /\ text = impl
        /\ entry = [i \in IMPL |-> None] /\ count = [i \in IMPL |-> 0]
        /\ call = [t \in THREAD |-> Idle] /\ apart = TRUE

Stage(t) == call[t].stage
Old(t) == impl[call[t].q]

\* A thread does one thing at a time, to its own objects.
MayChange(t, q) == Stage(t) = "idle" /\ Owner[q] = t

\* It is about to replace what q points to, its first step being stage.
Change(t, q, stage, new, of) ==
  /\ call' = [call EXCEPT ![t] =
               [stage |-> stage, q |-> q, new |-> new, of |-> of, n |-> 0]]
  /\ apart' = (apart /\ \A u \in THREAD : Stage(u) = "idle")

\* _lookup.insert: the entry there is, or one at any free address.
Found(s, i) == IF \E j \in IMPL : entry[j] = s THEN entry[i] = s
                                               ELSE entry[i] = None

\* Quark (const StringView&): init
Intern(t, q, s, i) ==
  /\ MayChange(t, q) /\ impl[q] = None
  /\ Found(s, i)
  /\ entry' = [entry EXCEPT ![i] = s]
  /\ count' = [count EXCEPT ![i] = IF entry[i] = None THEN 0 ELSE @]
  /\ Change(t, q, "load", i, s)
  /\ UNCHANGED <<impl, text>>

\* Quark (const Quark&), operator=: of p, which nobody is changing.
Assign(t, q, p) ==
  /\ MayChange(t, q) /\ impl[p] # None
  /\ \A u \in THREAD : Stage(u) # "idle" => call[u].q # p
  /\ Change(t, q, "load", impl[p], text[p])
  /\ UNCHANGED <<impl, entry, count, text>>

\* ~Quark, clear, operator= of an empty one
Clear(t, q) ==
  /\ MayChange(t, q) /\ impl[q] # None
  /\ Change(t, q, "unload", None, None)
  /\ UNCHANGED <<impl, entry, count, text>>

\* q points to the new entry, and the call returns.
Return(t) ==
  /\ impl' = [impl EXCEPT ![call[t].q] = call[t].new]
  /\ text' = [text EXCEPT ![call[t].q] = call[t].of]
  /\ call' = [call EXCEPT ![t] = Idle]

\* ++refcount and --refcount read the count; Store and Unstore write it back.
Load(t) ==
  /\ \/ /\ Stage(t) = "load"
        /\ call' = [call EXCEPT ![t].stage = "store", ![t].n = count[call[t].new]]
     \/ /\ Stage(t) = "unload"
        /\ call' = [call EXCEPT ![t].stage = "unstore", ![t].n = count[Old(t)]]
  /\ UNCHANGED <<impl, entry, count, text, apart>>

\* What q pointed to before is given up after the new one is counted.
Store(t) ==
  /\ Stage(t) = "store"
  /\ count' = [count EXCEPT ![call[t].new] = call[t].n + 1]
  /\ \/ Old(t) = None /\ Return(t)
     \/ /\ Old(t) # None /\ call' = [call EXCEPT ![t].stage = "unload"]
        /\ UNCHANGED <<impl, text>>
  /\ UNCHANGED <<entry, apart>>

\* unref, whose assertion stops the program when there was nothing to count.
Unstore(t) ==
  /\ Stage(t) = "unstore" /\ call[t].n > 0
  /\ count' = [count EXCEPT ![Old(t)] = call[t].n - 1]
  /\ \/ call[t].n > 1 /\ Return(t)
     \/ /\ call[t].n = 1 /\ call' = [call EXCEPT ![t].stage = "erase"]
        /\ UNCHANGED <<impl, text>>
  /\ UNCHANGED <<entry, apart>>

\* The entry is taken out of the table and its string freed.
Erase(t) ==
  /\ Stage(t) = "erase"
  /\ entry' = [entry EXCEPT ![Old(t)] = None]
  /\ Return(t)
  /\ UNCHANGED <<count, apart>>

Next ==
  \E t \in THREAD :
    \/ \E q \in QUARK : \/ \E s \in STRING_, i \in IMPL : Intern(t, q, s, i)
                        \/ \E p \in QUARK : Assign(t, q, p)
                        \/ Clear(t, q)
    \/ Load(t) \/ Store(t) \/ Unstore(t) \/ Erase(t)

Spec == Init /\ [][Next]_vars

----------------------------------------------------------------------------

\* A string is kept as long as a Quark of it exists ("frees its copy of the
\* mapped string when the last corresponding pan::Quark is destroyed").
StringsKept == \A q \in QUARK : impl[q] # None => entry[impl[q]] = text[q]

\* Quarks are equal, as pointers, exactly if their strings are ("Quarks make
\* good keys because comparision operations can be done on the integral type").
EqualAsStrings ==
  \A p, q \in QUARK : impl[p] = impl[q] <=> text[p] = text[q]

\* Between calls the table holds the strings of the Quarks there are.
NothingLeaks ==
  (\A t \in THREAD : Stage(t) = "idle") =>
     \A i \in IMPL : entry[i] # None => \E q \in QUARK : impl[q] = i
=============================================================================
