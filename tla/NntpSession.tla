---------------------------- MODULE NntpSession -----------------------------
(***************************************************************************)
(* One NNTP connection: the protocol engine (pan/tasks/nntp.cc) over its   *)
(* socket (pan/tasks/socket-impl-gio.cc), and the news server it talks to. *)
(*                                                                         *)
(* A listener asks for something; the session queues up to three commands, *)
(* writes the first, reads its answer line by line, writes the next, and   *)
(* calls the listener back once at the end.  The connection then serves    *)
(* whoever the pool lends it to next, so everything that outlives the call *)
(* (queued commands, unread lines, the modes of the parser) belongs to     *)
(* somebody else from then on.                                             *)
(*                                                                         *)
(* Requests are numbered by this module: every command, and every line the *)
(* server sends, carries the request it is "of".  The program has no such  *)
(* number, and no action below looks at it.                                *)
(***************************************************************************)
EXTENDS Naturals, Sequences, SequencesExt

CONSTANTS Group, None,
          KIND,           \* the requests made of this connection
          HasUsername,    \* the server's login is configured
          XFeature,       \* get_server_compression_type: XFEATURE
          SURPRISES,      \* what this instance's server may do beyond duty
          MaxRequests     \* bound on the requests, handshakes included

KINDS == {"article", "list", "group", "post", "noop", "quit"}

VERB == {"hello", "user", "pass", "xfeature", "reader", "group", "article",
         "list", "post", "message", "quit"}
Request == [id : 1..MaxRequests, kind : KINDS \cup {"handshake"},
            group : Group \cup {None}]
Command == [verb : VERB, group : Group \cup {None}, of : 1..MaxRequests]
\* A status line has a code; "says" is what else the code looks for in it.
\* A line of text has code 0, the value atoi() gives one that is not a number.
Line == [code : 0..503, says : {"plain", "gzip", "435", "line", "."},
         group : Group \cup {None}, of : 1..MaxRequests]

ASSUME SessionAssumption ==
  /\ None \notin Group \cup Request \cup Command
  /\ KIND \subseteq KINDS
  /\ HasUsername \in BOOLEAN /\ XFeature \in BOOLEAN
  /\ SURPRISES \subseteq {"refusal", "noposting"}
  /\ MaxRequests \in Nat

VARIABLES
  conn,        \* "down", "up", or "aborted" when the program called abort()
  listener,    \* _listener: the request being served
  commands,    \* _commands
  previous,    \* _previous_command
  group,       \* _group
  text,        \* _nntp_response_text
  compression, \* _compression
  wire,        \* GIOChannelSocket::_out_buf
  watch,       \* its watch: "ignore", "write" or "read"
  inbox,       \* lines the server sent and the session has not read
  sgroup,      \* the group selected at the server
  authed,      \* the server has accepted a login
  heard,       \* the requests whose lines this listener was given
  requests     \* how many requests were made

session == <<listener, commands, previous, group, text, compression>>
server == <<inbox, sgroup, authed>>
vars == <<conn, session, wire, watch, server, heard, requests>>

Cmd(verb, g, r) == [verb |-> verb, group |-> g, of |-> r]

Init ==
  /\ conn = "down" /\ listener = None
  /\ commands = <<>> /\ previous = None
  /\ group = None /\ text = FALSE /\ compression = FALSE
  /\ wire = None /\ watch = "ignore"
  /\ inbox = <<>> /\ sgroup = None /\ authed = FALSE
  /\ heard = {} /\ requests = 0

-----------------------------------------------------------------------------
\* Requests.

\* GIOChannelSocket::write_command.
Write(c) == wire' = c /\ watch' = "write"

\* write_next_command, "cs" being the queue.
WriteNext(cs) ==
  /\ previous' = Head(cs)
  /\ commands' = Tail(cs)
  /\ Write(Head(cs))

\* The group is never entered.
BadEnterGroup(g, r) == IF group = None THEN <<Cmd("group", g, r)>> ELSE <<>>

EnterGroup(g, r) == IF g # group THEN <<Cmd("group", g, r)>> ELSE <<>>

\* What each request queues: article(), list(), group(), post(), noop() and
\* goodbye(); xover() and the other article commands queue what article() does.
Queued(kind, g, r) ==
  CASE kind = "article" -> EnterGroup(g, r) \o <<Cmd("article", g, r)>>
    [] kind = "group" -> <<Cmd("group", g, r)>>
    [] kind = "noop" -> <<Cmd("reader", None, r)>>
    [] OTHER -> <<Cmd(kind, None, r)>>

\* The pool lends a connection to one listener at a time.
Ask(kind, g) ==
  /\ conn = "up" /\ listener = None
  /\ requests < MaxRequests
  /\ (g = None) = (kind \notin {"article", "group"})
  /\ requests' = requests + 1
  /\ listener' = [id |-> requests', kind |-> kind, group |-> g]
  /\ WriteNext(commands \o Queued(kind, g, requests'))
  /\ heard' = {}
  /\ UNCHANGED <<conn, group, text, compression, server>>

\* What handshake() queues.
Handshake(r) ==
  IF HasUsername
  THEN <<Cmd("hello", None, r), Cmd("user", None, r), Cmd("reader", None, r)>>
  ELSE <<Cmd("hello", None, r), Cmd("reader", None, r)>>

\* A new connection: NNTP's constructor, then handshake().
Connect ==
  /\ conn = "down"
  /\ requests < MaxRequests
  /\ conn' = "up"
  /\ requests' = requests + 1
  /\ listener' = [id |-> requests', kind |-> "handshake", group |-> None]
  /\ WriteNext(Handshake(requests'))
  /\ group' = None /\ text' = FALSE /\ compression' = FALSE
  /\ inbox' = <<>> /\ sgroup' = None /\ authed' = FALSE
  /\ heard' = {}

\* The parser stays in the mode the last answer put it in.
BadFireDone(health) ==
  /\ listener' = None
  /\ compression' = compression
  /\ conn' = IF \/ health = "ERR_NETWORK"
                \/ health # "OK" /\ listener.kind = "handshake"
                \/ listener.kind = "quit"
             THEN "down" ELSE "up"
  /\ wire' = None /\ watch' = "ignore"

\* fire_done_func.  Whoever is told deletes the connection after a network
\* error, a failed handshake or a QUIT, and keeps it otherwise.
FireDone(health) ==
  /\ listener' = None
  /\ compression' = FALSE
  /\ conn' = IF \/ health = "ERR_NETWORK"
                \/ health # "OK" /\ listener.kind = "handshake"
                \/ listener.kind = "quit"
             THEN "down" ELSE "up"
  /\ wire' = None /\ watch' = "ignore"

-----------------------------------------------------------------------------
\* The server.  It answers each command it gets, or stays silent.

Status(c, code, says) ==
  [code |-> code, says |-> says, of |-> c.of,
   group |-> IF code = 211 THEN c.group ELSE None]
Answer(c, codes) == {<<Status(c, code, "plain")>> : code \in codes}

\* A list: a status line, some lines, the final ".".  Compressed data is cut
\* into lines where it holds a line end; no piece but the last ends with a dot
\* here, which is all the code looks at.
Text(c) ==
  LET modes == {"plain"} \cup (IF XFeature THEN {"gzip"} ELSE {})
      end == Status(c, 0, ".")
  IN  {<<Status(c, 220, s), end>> : s \in modes}
      \cup {<<Status(c, 220, s), Status(c, 0, "line"), end>> : s \in modes}

\* A server may refuse a command whose request has others to come only if
\* this instance lets it.
MayRefuse == \/ commands = <<>>
             \/ listener.kind = "handshake"
             \/ "refusal" \in SURPRISES
Refusal(c, codes) == IF MayRefuse THEN Answer(c, codes) ELSE {}

Own(c) ==
  CASE c.verb = "hello" -> Answer(c, {200}) \cup Refusal(c, {502})
    [] c.verb = "user" -> Answer(c, {381}) \cup Refusal(c, {482})
    [] c.verb = "pass" -> Answer(c, {281}) \cup Refusal(c, {482})
    [] c.verb = "xfeature" -> Answer(c, {290}) \cup Refusal(c, {503})
    [] c.verb = "reader" -> Answer(c, {200, 500})
    [] c.verb = "group" -> Answer(c, {211}) \cup Refusal(c, {411})
    [] c.verb = "article" /\ sgroup = None -> Answer(c, {412})
    [] c.verb = "article" /\ sgroup # None -> Text(c) \cup Answer(c, {420})
                                              \cup Refusal(c, {430})
    [] c.verb = "list" -> Text(c)
    [] c.verb = "post" -> Answer(c, {340} \cup (IF "noposting" \in SURPRISES
                                                THEN {440} ELSE {}))
    [] c.verb = "message" -> Answer(c, {240}) \cup {<<Status(c, 441, "435")>>}
    [] c.verb = "quit" -> Answer(c, {205})

\* Before the login a server may want one for anything but the login itself.
WantsLogin(c) == /\ ~authed
                 /\ c.verb \notin {"hello", "user", "pass", "xfeature", "message"}
                 /\ HasUsername \/ MayRefuse

Answers(c) == Own(c) \cup Answer(c, {400}) \cup {<<>>}
              \cup (IF WantsLogin(c) THEN Answer(c, {480}) ELSE {})

\* do_write: the command is sent; the listener wants the answer.
DoWrite ==
  /\ watch = "write"
  /\ watch' = "read" /\ wire' = None
  /\ \E answer \in Answers(wire) :
       /\ inbox' = inbox \o answer
       /\ sgroup' = IF \E i \in DOMAIN answer : answer[i].code = 211
                    THEN wire.group ELSE sgroup
       /\ authed' = (authed \/ \E i \in DOMAIN answer : answer[i].code = 281)
  /\ UNCHANGED <<conn, session, heard, requests>>

-----------------------------------------------------------------------------
\* Reading: on_socket_response.

line == Head(inbox)

\* A piece of the text is taken for its end.
BadEndsText == line.says \in {".", "line"}

\* The single "."; while _compression is set, any line that ends with one.
EndsText == line.says = "."

\* The end of on_socket_response: what "state" leads to.  "cs" is _commands and
\* "gz" _compression, which fire_done_func resets.
Conclude(state, cs, gz) ==
  \/ /\ state = "DONE" /\ cs # <<>>
     /\ WriteNext(cs)
     /\ compression' = gz
     /\ UNCHANGED <<conn, listener>>
  \/ /\ state = "MORE"
     /\ commands' = cs /\ compression' = gz
     /\ UNCHANGED <<conn, listener, previous, wire, watch>>
  \/ /\ \/ state = "DONE" /\ cs = <<>> /\ FireDone("OK")
        \/ state = "FAIL" /\ FireDone("ERR_COMMAND")
        \/ state = "RETRY" /\ FireDone("ERR_NETWORK")
     /\ commands' = cs
     /\ UNCHANGED previous

\* CMD_NEXT after the engine wrote a command of its own, outside the queue.
Interpose(verb, cs) ==
  /\ Write(Cmd(verb, None, listener.id))
  /\ commands' = cs
  /\ UNCHANGED <<conn, listener, previous, compression>>

\* A line of a list.
ReadText ==
  /\ text
  /\ heard' = IF line.says = "." /\ ~compression THEN heard
              ELSE heard \cup {line.of}
  /\ text' = ~EndsText
  /\ IF EndsText THEN Conclude("DONE", commands, FALSE)
                 ELSE Conclude("MORE", commands, compression)
  /\ UNCHANGED group

\* The switch on the code, but for the answers that write something.
State(code) ==
  CASE code \in {200, 201, 203, 205, 211, 240, 290, 420} -> "DONE"
    [] code = 500 /\ previous.verb = "reader" -> "DONE"
    [] code = 441 /\ line.says = "435" -> "DONE"
    [] code = 281 /\ ~XFeature -> "DONE"
    [] code \in {215, 220, 224, 231} -> "MORE"
    [] code = 400 -> "RETRY"
    [] OTHER -> "FAIL"

\* The answers after which the engine speaks again by itself.
Interposes == \/ line.code \in {480, 381} /\ HasUsername
              \/ line.code = 281 /\ XFeature
              \/ line.code = 340
\* "state" is never assigned.
Unassigned == line.code \in {440, 441} /\ line.says # "435"

\* "211 qty low high group_name".
GroupAfter == IF line.code = 211 THEN line.group ELSE group

ReadStatus ==
  /\ ~text /\ ~Interposes /\ ~Unassigned
  /\ LET state == State(line.code)
     IN  /\ text' = (state = "MORE")
         /\ Conclude(state, commands, compression \/ line.says = "gzip")
  /\ group' = GroupAfter
  /\ UNCHANGED heard

\* 480 has the refused command sent again after the login.
ReadAuth ==
  /\ ~text /\ Interposes
  /\ CASE line.code = 480 -> Interpose("user", <<previous>> \o commands)
       [] line.code = 381 -> Interpose("pass", commands)
       [] line.code = 281 -> Interpose("xfeature", commands)
       [] line.code = 340 -> Interpose("message", commands)
  /\ UNCHANGED <<text, group, heard>>

\* 440 and 441 leave "state" uninitialized, unless the line tells of a
\* duplicate: whatever the variable holds, or abort().
ReadUnassigned ==
  /\ ~text /\ Unassigned
  /\ \/ \E state \in {"DONE", "FAIL", "RETRY", "MORE"} :
          Conclude(state, commands, compression)
     \/ \* CMD_NEXT: nothing was written, nothing will be read
        /\ watch' = "ignore"
        /\ UNCHANGED <<conn, listener, commands, previous, wire, compression>>
     \/ /\ conn' = "aborted" /\ watch' = "ignore"
        /\ UNCHANGED <<listener, commands, previous, wire, compression>>
  /\ UNCHANGED <<text, group, heard>>

\* do_read: one line.
DoRead ==
  /\ watch = "read" /\ inbox # <<>>
  /\ inbox' = Tail(inbox)
  /\ ReadText \/ ReadStatus \/ ReadAuth \/ ReadUnassigned
  /\ UNCHANGED <<sgroup, authed, requests>>

\* on_socket_error.
Fail == /\ FireDone("ERR_NETWORK")
        /\ UNCHANGED <<commands, previous, group, text, server, heard, requests>>

\* The connection breaks while a watch is set; nobody looks otherwise.
SocketError == watch # "ignore" /\ Fail

\* The timer is only set while writing.
BadTimeout == watch = "write" /\ Fail

\* timeout_func: the watch saw no input or output for TIMEOUT_SECS.
Timeout ==
  /\ watch = "write" \/ (watch = "read" /\ inbox = <<>>)
  /\ Fail

Next == \/ Connect
        \/ \E kind \in KIND, g \in Group \cup {None} : Ask(kind, g)
        \/ DoWrite \/ DoRead \/ SocketError \/ Timeout

Spec == Init /\ [][Next]_vars
FairSpec == Spec /\ WF_vars(DoWrite) /\ WF_vars(DoRead) /\ WF_vars(Timeout)

-----------------------------------------------------------------------------
\* Properties.

TypeOK ==
  /\ conn \in {"down", "up", "aborted"}
  /\ listener \in Request \cup {None}
  /\ commands \in Seq(Command) /\ Len(commands) <= 3 * MaxRequests
  /\ previous \in Command \cup {None}
  /\ group \in Group \cup {None} /\ sgroup \in Group \cup {None}
  /\ {text, compression, authed} \subseteq BOOLEAN
  /\ wire \in Command \cup {None}
  /\ watch \in {"ignore", "write", "read"}
  /\ (watch = "write") = (wire # None)
  /\ inbox \in Seq(Line)
  /\ heard \subseteq 1..MaxRequests
  /\ requests \in 0..MaxRequests

\* A connection that can be lent again is clean: no command is queued, no line
\* unread, and the parser expects a status line (fire_done_func resets only
\* _listener and _compression; the rest must have been used up by then).
ReturnedClean ==
  conn = "up" /\ listener = None =>
    /\ commands = <<>> /\ inbox = <<>>
    /\ ~text /\ ~compression
    /\ watch = "ignore"

\* A listener is only given lines of what it asked for (on_nntp_line).
OwnLines == conn = "up" /\ listener # None => heard \subseteq {listener.id}

\* A command is only written when every answer to the one before was read: the
\* assertion of do_read and do_write that one buffer is empty, over the network.
Lockstep == conn = "up" /\ watch = "write" => inbox = <<>>

\* An article is asked for, by number, in the group the number belongs to.
ArticleInItsGroup ==
  conn = "up" /\ wire # None /\ wire.verb = "article" => sgroup = wire.group

\* on_nntp_done is called whether the command is successful or not, by an
\* answer, an error of the socket or its timer (posting is PostEnds).
EveryRequestEnds ==
  \A kind \in (KINDS \ {"post"}) \cup {"handshake"} :
    (listener # None /\ listener.kind = kind) ~> listener = None

\* The same for post(), when the server does not take the article.
\* (What the code does instead: README, section 6.)
PostEnds == (listener # None /\ listener.kind = "post") ~> listener = None
=============================================================================
