------------------------- MODULE NntpSessionProofs --------------------------
(***************************************************************************)
(* Theorems about NntpSession, for any groups, requests and logins.        *)
(*                                                                         *)
(* Whatever the server says, the session and the server are in lockstep:   *)
(* no command is written before the answer to the last one was read to its *)
(* end.  A server that refuses nothing in the middle of a request leaves   *)
(* the session clean after each one, and its listener hears its own lines  *)
(* only: what is still in the queue of commands when an answer fails is    *)
(* nothing, or belongs to a handshake, whose connection is deleted.        *)
(***************************************************************************)
EXTENDS NntpSession, SequenceTheorems, TLAPS

\* Every variable has its type; somebody waits for what a watch will bring.
EngineTypes ==
  /\ conn \in {"down", "up", "aborted"}
  /\ listener \in Request \cup {None}
  /\ commands \in Seq(Command)
  /\ previous \in Command \cup {None}
  /\ compression \in BOOLEAN
  /\ wire \in Command \cup {None}
  /\ watch \in {"ignore", "write", "read"}
  /\ conn # "up" => watch = "ignore"
  /\ watch = "write" => wire \in Command
  /\ wire # None => watch = "write"
  /\ watch # "ignore" => listener \in Request /\ previous \in Command

OtherTypes ==
  /\ group \in Group \cup {None} /\ sgroup \in Group \cup {None}
  /\ text \in BOOLEAN /\ authed \in BOOLEAN
  /\ inbox \in Seq(Line)
  /\ requests \in 0..MaxRequests

Types == EngineTypes /\ OtherTypes

\* The rest of a text that is being read, and a whole answer.
MoreCodes == {215, 220, 224, 231}
Ending(s) == /\ Len(s) \in {1, 2} /\ s[Len(s)].says = "."
             /\ Len(s) = 2 => s[1].says # "."
Whole(s) == \/ s = <<>>
            \/ Len(s) = 1 /\ s[1].code \notin MoreCodes
            \/ Len(s) \in {2, 3} /\ s[1].code = 220 /\ Ending(Tail(s))

\* What is unread is the rest of one answer, if one is waited for.
InStep ==
  /\ conn = "up" /\ watch # "read" => inbox = <<>> /\ ~text
  /\ watch = "read" => IF text THEN Ending(inbox) ELSE Whole(inbox)

\* The commands that end their requests, and those the engine interposes.
LastVerbs == {"article", "list", "post", "quit", "message"}
LoginVerbs == {"hello", "user", "pass", "xfeature", "message"}

\* Commands of one request, what ends it being last.
OwnRest(q, r) ==
  \A i \in DOMAIN q : /\ q[i].of = r
                      /\ q[i].verb \in LastVerbs => i = Len(q)
                      /\ q[i].verb = "user" => HasUsername

\* The queue holds the rest of the listener's own request.
OwnCommands == OwnRest(commands, listener.id)

OwnWire ==
  /\ wire.of = listener.id
  /\ wire.verb \in LastVerbs => commands = <<>>
  /\ wire.verb = "user" => HasUsername
  /\ wire.verb \notin LoginVerbs => wire = previous

\* An answer that ends the request early finds no command left, or is the end
\* of the connection; one that puts a command back finds it in its place.
OwnAnswer ==
  /\ State(line.code) = "FAIL" /\ ~Interposes
       => commands = <<>> \/ listener.kind = "handshake"
  /\ line.code \in {340, 440, 441} => commands = <<>>
  /\ line.code = 480 => /\ previous.verb # "user"
                        /\ previous.verb \in LastVerbs => commands = <<>>

Orderly ==
  conn = "up" =>
    /\ listener = None => commands = <<>> /\ ~compression /\ watch = "ignore"
    /\ OwnCommands
    /\ watch # "ignore" => previous.of = listener.id
    /\ watch = "write" => OwnWire
    /\ watch = "read" => \A i \in DOMAIN inbox : inbox[i].of = listener.id
    /\ watch = "read" /\ ~text /\ inbox # <<>> => OwnAnswer
    /\ listener # None => heard \subseteq {listener.id}

-----------------------------------------------------------------------------
\* The server.

\* What a server says in one line, and to which command.
Reply(c, k) ==
  \/ k = 400
  \/ k \in {200, 205, 240, 290, 420} /\ c.verb # "group"
  \/ k = 211 /\ c.verb = "group"
  \/ k = 281 /\ c.verb = "pass"
  \/ k = 381 /\ c.verb = "user"
  \/ k \in {340, 440} /\ c.verb = "post"
  \/ k = 412 /\ c.verb = "article"
  \/ k = 500 /\ c.verb = "reader"
  \/ k = 480 /\ c.verb \notin LoginVerbs /\ (HasUsername \/ MayRefuse)
  \/ k \in {411, 430, 482, 502, 503} /\ MayRefuse

LEMMA AnswerForms ==
  ASSUME NEW c \in Command, NEW a \in Answers(c)
  PROVE  \/ a = <<>>
         \/ a \in Text(c) /\ c.verb \in {"article", "list"}
         \/ a = <<Status(c, 441, "435")>> /\ c.verb = "message"
         \/ \E k \in 0..503 : a = <<Status(c, k, "plain")>> /\ Reply(c, k)
<1> DEFINE Goal == \/ a = <<>>
                   \/ a \in Text(c) /\ c.verb \in {"article", "list"}
                   \/ a = <<Status(c, 441, "435")>> /\ c.verb = "message"
                   \/ \E k \in 0..503 : a = <<Status(c, k, "plain")>> /\ Reply(c, k)
           Replies(codes) == codes \subseteq {k \in 0..503 : Reply(c, k)}
<1> SUFFICES Goal
  OBVIOUS
<1>1. ASSUME NEW codes, Replies(codes), a \in Answer(c, codes)
      PROVE  Goal
  BY <1>1 DEF Answer
<1>2. a \in Text(c) /\ c.verb \in {"article", "list"} => Goal
  OBVIOUS
<1>3. a = <<Status(c, 441, "435")>> /\ c.verb = "message" => Goal
  OBVIOUS
<1>4. a = <<>> => Goal
  OBVIOUS
<1> HIDE DEF Goal
<1>5. ASSUME NEW codes, codes \subseteq {411, 430, 482, 502, 503}, a \in Refusal(c, codes)
      PROVE  Goal
  <2>1. MayRefuse /\ a \in Answer(c, codes)
    BY <1>5 DEF Refusal
  <2>2. Replies(codes)
    BY <1>5, <2>1 DEF Reply
  <2> QED
    BY <1>1, <2>1, <2>2
<1>6. CASE a \in Own(c)
  <2>1. CASE c.verb = "hello"
    <3>1. a \in Answer(c, {200}) \cup Refusal(c, {502})
      BY <1>6, <2>1 DEF Own
    <3>2. Replies({200})
      BY <2>1 DEF Reply
    <3> HIDE DEF Replies
    <3> QED
      BY <1>1, <1>5, <2>1, <3>1, <3>2
  <2>2. CASE c.verb = "user"
    <3>1. a \in Answer(c, {381}) \cup Refusal(c, {482})
      BY <1>6, <2>2 DEF Own
    <3>2. Replies({381})
      BY <2>2 DEF Reply
    <3> HIDE DEF Replies
    <3> QED
      BY <1>1, <1>5, <2>2, <3>1, <3>2
  <2>3. CASE c.verb = "pass"
    <3>1. a \in Answer(c, {281}) \cup Refusal(c, {482})
      BY <1>6, <2>3 DEF Own
    <3>2. Replies({281})
      BY <2>3 DEF Reply
    <3> HIDE DEF Replies
    <3> QED
      BY <1>1, <1>5, <2>3, <3>1, <3>2
  <2>4. CASE c.verb = "xfeature"
    <3>1. a \in Answer(c, {290}) \cup Refusal(c, {503})
      BY <1>6, <2>4 DEF Own
    <3>2. Replies({290})
      BY <2>4 DEF Reply
    <3> HIDE DEF Replies
    <3> QED
      BY <1>1, <1>5, <2>4, <3>1, <3>2
  <2>5. CASE c.verb = "reader"
    <3>1. a \in Answer(c, {200, 500})
      BY <1>6, <2>5 DEF Own
    <3>2. Replies({200, 500})
      BY <2>5 DEF Reply
    <3> HIDE DEF Replies
    <3> QED
      BY <1>1, <2>5, <3>1, <3>2
  <2>6. CASE c.verb = "group"
    <3>1. a \in Answer(c, {211}) \cup Refusal(c, {411})
      BY <1>6, <2>6 DEF Own
    <3>2. Replies({211})
      BY <2>6 DEF Reply
    <3> HIDE DEF Replies
    <3> QED
      BY <1>1, <1>5, <2>6, <3>1, <3>2
  <2>7. CASE c.verb = "article"
    <3>1. \/ a \in Answer(c, {412})
          \/ a \in Text(c) \cup Answer(c, {420}) \cup Refusal(c, {430})
      BY <1>6, <2>7 DEF Own
    <3>2. Replies({412}) /\ Replies({420})
      BY <2>7 DEF Reply
    <3> HIDE DEF Replies
    <3> QED
      BY <1>1, <1>2, <1>5, <2>7, <3>1, <3>2
  <2>8. CASE c.verb = "list"
    <3>1. a \in Text(c)
      BY <1>6, <2>8 DEF Own
    <3> HIDE DEF Replies
    <3> QED
      BY <1>2, <2>8, <3>1
  <2>9. CASE c.verb = "post"
    <3>1. a \in Answer(c, {340} \cup (IF "noposting" \in SURPRISES
                                    THEN {440} ELSE {}))
      BY <1>6, <2>9 DEF Own
    <3>2. Replies({340}) /\ Replies({440})
      BY <2>9 DEF Reply
    <3>3. a \in Answer(c, {340}) \/ a \in Answer(c, {440})
      <4>1. \E k \in {340} \cup (IF "noposting" \in SURPRISES THEN {440} ELSE {}) :
              a = <<Status(c, k, "plain")>>
        BY <3>1 DEF Answer
      <4>2. a = <<Status(c, 340, "plain")>> \/ a = <<Status(c, 440, "plain")>>
        BY <4>1
      <4> QED
        BY <4>2 DEF Answer
    <3> HIDE DEF Replies
    <3> QED
      BY <1>1, <2>9, <3>2, <3>3
  <2>10. CASE c.verb = "message"
    <3>1. a \in {<<Status(c, 441, "435")>>} \cup Answer(c, {240})
      BY <1>6, <2>10 DEF Own
    <3>2. Replies({240})
      BY <2>10 DEF Reply
    <3> HIDE DEF Replies
    <3> QED
      BY <1>1, <1>3, <2>10, <3>1, <3>2
  <2>11. CASE c.verb = "quit"
    <3>1. a \in Answer(c, {205})
      BY <1>6, <2>11 DEF Own
    <3>2. Replies({205})
      BY <2>11 DEF Reply
    <3> HIDE DEF Replies
    <3> QED
      BY <1>1, <2>11, <3>1, <3>2
  <2> QED
    BY <1>6, <2>1, <2>2, <2>3, <2>4, <2>5, <2>6, <2>7, <2>8, <2>9, <2>10, <2>11 DEF Command, VERB
<1>7. CASE a \in Answer(c, {400})
  <2>1. Replies({400})
    BY DEF Reply
  <2> QED
    BY <1>1, <1>7, <2>1
<1>8. CASE WantsLogin(c) /\ a \in Answer(c, {480})
  <2>1. Replies({480})
    BY <1>8 DEF Reply, WantsLogin, LoginVerbs
  <2> QED
    BY <1>1, <1>8, <2>1
<1> QED
  BY <1>4, <1>6, <1>7, <1>8 DEF Answers

\* A line of the server's.
LEMMA StatusIsLine ==
  ASSUME NEW c \in Command, NEW k \in 0..503, NEW s \in {"plain", "gzip", "435", "line", "."},
         NEW l, l = Status(c, k, s)
  PROVE  /\ l \in Line /\ l.code = k /\ l.says = s /\ l.of = c.of
         /\ k = 211 => l.group = c.group
  BY DEF Status, Line, Command

\* An answer in one line.
LEMMA OneLine ==
  ASSUME NEW l \in Line, l.code \notin MoreCodes
  PROVE  /\ <<l>> \in Seq(Line) /\ Whole(<<l>>) /\ <<l>> # <<>> /\ Len(<<l>>) = 1
         /\ <<l>>[1] = l /\ Head(<<l>>) = l /\ DOMAIN <<l>> = {1}
<1>1. /\ <<l>> \in Seq(Line) /\ <<l>> # <<>> /\ Len(<<l>>) = 1 /\ <<l>>[1] = l
  OBVIOUS
<1>2. Whole(<<l>>)
  BY <1>1 DEF Whole
<1>3. DOMAIN <<l>> = 1..1
  BY <1>1, LenProperties
<1>4. 1..1 = {1}
  OBVIOUS
<1>5. Head(<<l>>) = l
  BY <1>1, HeadTailProperties
<1> QED
  BY <1>1, <1>2, <1>3, <1>4, <1>5

\* An answer in two or three.
LEMMA MoreLines ==
  ASSUME NEW l \in Line, NEW m \in Line, NEW e \in Line,
         l.code = 220, m.says # ".", e.says = ".",
         NEW a, a = <<l, e>> \/ a = <<l, m, e>>
  PROVE  /\ a \in Seq(Line) /\ Whole(a) /\ a # <<>> /\ Head(a) = l
         /\ \A i \in DOMAIN a : a[i] \in {l, m, e}
<1>1. CASE a = <<l, e>>
  <2>1. /\ a \in Seq(Line) /\ Len(a) = 2 /\ a[1] = l /\ a[2] = e
        /\ Tail(a) = <<e>> /\ a # <<>> /\ Head(a) = l
    BY <1>1
  <2>2. Ending(<<e>>)
    BY DEF Ending
  <2>3. DOMAIN a = 1..2
    BY <2>1, LenProperties
  <2>4. \A i \in DOMAIN a : a[i] \in {l, m, e}
    BY <2>1, <2>3
  <2>5. Whole(a)
    BY <2>1, <2>2 DEF Whole
  <2> QED
    BY <2>1, <2>4, <2>5
<1>2. CASE a = <<l, m, e>>
  <2>1. /\ a \in Seq(Line) /\ Len(a) = 3 /\ a[1] = l /\ a[2] = m /\ a[3] = e
        /\ Tail(a) = <<m, e>> /\ a # <<>> /\ Head(a) = l
    BY <1>2
  <2>2. Ending(<<m, e>>)
    BY DEF Ending
  <2>3. DOMAIN a = 1..3
    BY <2>1, LenProperties
  <2>4. \A i \in DOMAIN a : a[i] \in {l, m, e}
    BY <2>1, <2>3
  <2>5. Whole(a)
    BY <2>1, <2>2 DEF Whole
  <2> QED
    BY <2>1, <2>4, <2>5
<1> QED
  BY <1>1, <1>2

\* A whole answer to the command, and the code it starts with.
GoodAnswer(c, a) ==
  /\ a \in Seq(Line) /\ Whole(a)
  /\ \A i \in DOMAIN a : /\ a[i].of = c.of
                         /\ a[i].code = 211 => i = 1 /\ a[i].group = c.group
  /\ a # <<>> => \/ Head(a).code = 220 /\ c.verb \in {"article", "list"}
                 \/ Head(a).code = 441 /\ Head(a).says = "435" /\ c.verb = "message"
                 \/ Head(a).says = "plain" /\ Reply(c, Head(a).code)

LEMMA TextIsGood ==
  ASSUME NEW c \in Command, NEW a \in Text(c)
  PROVE  /\ a \in Seq(Line) /\ Whole(a) /\ a # <<>>
         /\ \A i \in DOMAIN a : a[i].of = c.of /\ a[i].code # 211
         /\ Head(a).code = 220
<1> DEFINE e == Status(c, 0, ".")
           m == Status(c, 0, "line")
<1>1. PICK s \in {"plain", "gzip"} : \/ a = <<Status(c, 220, s), e>>
                                     \/ a = <<Status(c, 220, s), m, e>>
  BY DEF Text
<1> DEFINE l == Status(c, 220, s)
<1>2. l \in Line /\ l.code = 220 /\ l.of = c.of
  BY DEF Status, Line, Command
<1>3. m \in Line /\ m.says # "." /\ m.of = c.of /\ m.code = 0
  BY DEF Status, Line, Command
<1>4. e \in Line /\ e.says = "." /\ e.of = c.of /\ e.code = 0
  BY DEF Status, Line, Command
<1>5. a = <<l, e>> \/ a = <<l, m, e>>
  BY <1>1
<1> HIDE DEF l, m, e
<1>6. /\ a \in Seq(Line) /\ Whole(a) /\ a # <<>> /\ Head(a) = l
      /\ \A i \in DOMAIN a : a[i] \in {l, m, e}
  BY <1>2, <1>3, <1>4, <1>5, MoreLines
<1> QED
  BY <1>2, <1>3, <1>4, <1>6

LEMMA AnswersAreGood ==
  ASSUME NEW c \in Command, NEW a \in Answers(c)
  PROVE  GoodAnswer(c, a)
<1>1. CASE a = <<>>
  BY <1>1 DEF GoodAnswer, Whole
<1>2. CASE a \in Text(c) /\ c.verb \in {"article", "list"}
  BY <1>2, TextIsGood DEF GoodAnswer
<1>3. ASSUME NEW k \in 0..503, NEW s \in {"plain", "435"}, a = <<Status(c, k, s)>>,
             k \notin MoreCodes
      PROVE  /\ a \in Seq(Line) /\ Whole(a) /\ a # <<>>
             /\ \A i \in DOMAIN a : /\ a[i].of = c.of
                                    /\ a[i].code = 211 => i = 1 /\ a[i].group = c.group
             /\ Head(a).code = k /\ Head(a).says = s
  <2> DEFINE l == Status(c, k, s)
  <2>1. /\ l \in Line /\ l.code = k /\ l.says = s /\ l.of = c.of
        /\ k = 211 => l.group = c.group
    BY DEF Status, Line, Command
  <2>2. a = <<l>>
    BY <1>3
  <2> HIDE DEF l
  <2>3. /\ <<l>> \in Seq(Line) /\ Whole(<<l>>) /\ <<l>> # <<>> /\ <<l>>[1] = l
        /\ Head(<<l>>) = l /\ DOMAIN <<l>> = {1}
    BY <1>3, <2>1, OneLine
  <2>4. /\ a \in Seq(Line) /\ Whole(a) /\ a # <<>> /\ Head(a) = l
        /\ \A i \in DOMAIN a : i = 1 /\ a[i] = l
    BY <2>2, <2>3, Zenon
  <2> QED
    BY <2>1, <2>4
<1>4. CASE a = <<Status(c, 441, "435")>> /\ c.verb = "message"
  <2>1. 441 \in 0..503 /\ 441 \notin MoreCodes
    BY DEF MoreCodes
  <2>2. /\ a \in Seq(Line) /\ Whole(a) /\ a # <<>>
        /\ \A i \in DOMAIN a : /\ a[i].of = c.of
                               /\ a[i].code = 211 => i = 1 /\ a[i].group = c.group
        /\ Head(a).code = 441 /\ Head(a).says = "435"
    BY <1>3, <1>4, <2>1
  <2> QED
    BY <1>4, <2>2 DEF GoodAnswer
<1>5. CASE \E k \in 0..503 : a = <<Status(c, k, "plain")>> /\ Reply(c, k)
  <2>1. PICK k \in 0..503 : a = <<Status(c, k, "plain")>> /\ Reply(c, k)
    BY <1>5
  <2>2. Reply(c, k)
    BY <2>1
  <2>3. k \notin MoreCodes
    BY <2>2 DEF Reply, MoreCodes
  <2>4. /\ a \in Seq(Line) /\ Whole(a) /\ a # <<>>
        /\ \A i \in DOMAIN a : /\ a[i].of = c.of
                               /\ a[i].code = 211 => i = 1 /\ a[i].group = c.group
        /\ Head(a).code = k /\ Head(a).says = "plain"
    BY <1>3, <2>1, <2>3
  <2> QED
    BY <2>2, <2>4 DEF GoodAnswer
<1>6. \/ a = <<>>
      \/ a \in Text(c) /\ c.verb \in {"article", "list"}
      \/ a = <<Status(c, 441, "435")>> /\ c.verb = "message"
      \/ \E k \in 0..503 : a = <<Status(c, k, "plain")>> /\ Reply(c, k)
  BY AnswerForms
<1> QED
  BY <1>1, <1>2, <1>4, <1>5, <1>6

-----------------------------------------------------------------------------
\* Lockstep.

LEMMA NoLine ==
  ASSUME NEW s \in Seq(Line), Len(s) = 0
  PROVE  s = <<>>
  BY EmptySeq

LEMMA WholeTail ==
  ASSUME NEW s \in Seq(Line), Whole(s), s # <<>>
  PROVE  /\ Head(s) \in Line /\ Tail(s) \in Seq(Line)
         /\ Head(s).code \in MoreCodes => Ending(Tail(s))
         /\ Head(s).code \notin MoreCodes => Tail(s) = <<>>
<1>1. /\ Head(s) \in Line /\ Tail(s) \in Seq(Line) /\ Len(s) \in Nat \ {0}
      /\ Len(Tail(s)) = Len(s) - 1 /\ Head(s) = s[1]
  BY HeadTailProperties, EmptySeq, LenProperties
<1>2. CASE Len(s) = 1 /\ s[1].code \notin MoreCodes
  <2>1. Tail(s) \in Seq(Line) /\ Len(Tail(s)) = 0
    BY <1>1, <1>2
  <2>2. Tail(s) = <<>>
    BY <2>1, NoLine
  <2> QED
    BY <1>1, <1>2, <2>2
<1>3. CASE Len(s) \in {2, 3} /\ s[1].code = 220 /\ Ending(Tail(s))
  BY <1>1, <1>3 DEF MoreCodes
<1> QED
  BY <1>2, <1>3 DEF Whole

LEMMA EndingTail ==
  ASSUME NEW s \in Seq(Line), Ending(s)
  PROVE  /\ s # <<>> /\ Head(s) \in Line /\ Tail(s) \in Seq(Line)
         /\ Head(s).says = "." => Tail(s) = <<>>
         /\ Head(s).says # "." => Ending(Tail(s))
<1>1. s # <<>> /\ Len(s) \in {1, 2} /\ s[Len(s)].says = "."
  BY EmptySeq DEF Ending
<1>2. /\ Head(s) \in Line /\ Tail(s) \in Seq(Line)
      /\ Len(Tail(s)) = Len(s) - 1 /\ Head(s) = s[1]
      /\ \A i \in 1..Len(Tail(s)) : Tail(s)[i] = s[i + 1]
  BY <1>1, HeadTailProperties
<1>3. CASE Len(s) = 1
  <2>1. Tail(s) \in Seq(Line) /\ Len(Tail(s)) = 0
    BY <1>2, <1>3
  <2>2. Tail(s) = <<>>
    BY <2>1, NoLine
  <2> QED
    BY <1>1, <1>2, <1>3, <2>2
<1>4. CASE Len(s) = 2
  <2>1. Head(s).says # "."
    BY <1>2, <1>4 DEF Ending
  <2>2. Len(Tail(s)) = 1 /\ Tail(s)[1].says = "."
    BY <1>1, <1>2, <1>4
  <2>3. Ending(Tail(s))
    BY <2>2 DEF Ending
  <2> QED
    BY <1>1, <1>2, <2>1, <2>3
<1> QED
  BY <1>1, <1>3, <1>4

LEMMA StateCodes ==
  ASSUME NEW code \in 0..503
  PROVE  /\ State(code) \in {"DONE", "MORE", "RETRY", "FAIL"}
         /\ State(code) = "MORE" <=> code \in MoreCodes
  BY DEF State, MoreCodes

\* The queue a request makes.
OwnQueue(q, r) == q \in Seq(Command) /\ q # <<>> /\ OwnRest(q, r)

LEMMA CmdIsCommand ==
  ASSUME NEW v \in VERB, NEW g \in Group \cup {None}, NEW r \in 1..MaxRequests
  PROVE  /\ Cmd(v, g, r) \in Command
         /\ Cmd(v, g, r).verb = v /\ Cmd(v, g, r).group = g /\ Cmd(v, g, r).of = r
  BY DEF Cmd, Command

LEMMA OneCommand ==
  ASSUME NEW c \in Command, NEW q, q = <<c>>
  PROVE  q \in Seq(Command) /\ q # <<>> /\ Len(q) = 1 /\ q[1] = c /\ DOMAIN q = {1}
<1>1. q \in Seq(Command) /\ q # <<>> /\ Len(q) = 1 /\ q[1] = c
  OBVIOUS
<1>2. DOMAIN q = 1..1
  BY <1>1, LenProperties
<1> QED
  BY <1>1, <1>2

\* A command put before others.
LEMMA CommandBefore ==
  ASSUME NEW c \in Command, NEW s \in Seq(Command), NEW q, q = <<c>> \o s
  PROVE  /\ q \in Seq(Command) /\ q # <<>> /\ Len(q) = Len(s) + 1 /\ q[1] = c
         /\ \A i \in DOMAIN q \ {1} : i - 1 \in DOMAIN s /\ q[i] = s[i - 1]
<1> DEFINE p == <<c>>
<1>1. p \in Seq(Command) /\ Len(p) = 1 /\ p[1] = c
  OBVIOUS
<1>2. q = p \o s
  OBVIOUS
<1> HIDE DEF p
<1>3. Len(s) \in Nat /\ DOMAIN s = 1..Len(s)
  BY LenProperties
<1>4. /\ q \in Seq(Command) /\ Len(q) = 1 + Len(s)
      /\ \A i \in 1..1 + Len(s) : q[i] = IF i <= 1 THEN p[i] ELSE s[i - 1]
  BY <1>1, <1>2, <1>3, ConcatProperties
<1>5. DOMAIN q = 1..1 + Len(s)
  BY <1>4, LenProperties
<1>6. q[1] = c
  BY <1>1, <1>3, <1>4
<1>7. \A i \in DOMAIN q \ {1} : i - 1 \in DOMAIN s /\ q[i] = s[i - 1]
  BY <1>3, <1>4, <1>5
<1>8. q # <<>>
  BY <1>3, <1>4, EmptySeq
<1> QED
  BY <1>3, <1>4, <1>6, <1>7, <1>8

LEMMA QueuedIsOwn ==
  ASSUME NEW kind \in KINDS, NEW g \in Group \cup {None}, NEW r \in 1..MaxRequests
  PROVE  OwnQueue(Queued(kind, g, r), r)
<1> DEFINE q == Queued(kind, g, r)
<1>1. ASSUME NEW c \in Command, c.of = r, c.verb # "user", NEW p, p = <<c>>
      PROVE  OwnQueue(p, r)
  BY <1>1, OneCommand DEF OwnQueue, OwnRest
<1>2. CASE kind = "article"
  <2> DEFINE e == Cmd("group", g, r)
             a == Cmd("article", g, r)
  <2>1. /\ e \in Command /\ e.of = r /\ e.verb = "group"
        /\ a \in Command /\ a.of = r /\ a.verb = "article"
    BY CmdIsCommand DEF VERB
  <2>2. q = EnterGroup(g, r) \o <<a>>
    BY <1>2 DEF Queued
  <2>3. EnterGroup(g, r) = <<>> \/ EnterGroup(g, r) = <<e>>
    BY DEF EnterGroup
  <2> HIDE DEF e, a, q
  <2> DEFINE s == <<a>>
  <2>4. s \in Seq(Command) /\ Len(s) = 1 /\ s[1] = a /\ DOMAIN s = {1}
    BY <2>1, OneCommand
  <2>5. OwnQueue(s, r)
    BY <1>1, <2>1
  <2>6. q = EnterGroup(g, r) \o s
    BY <2>2
  <2> HIDE DEF s
  <2>7. CASE EnterGroup(g, r) = <<>>
    <3>1. q = s
      BY <2>4, <2>6, <2>7, ConcatEmptySeq
    <3> QED
      BY <2>5, <3>1 DEF q
  <2>8. CASE EnterGroup(g, r) = <<e>>
    <3>1. /\ q \in Seq(Command) /\ q # <<>> /\ Len(q) = 2 /\ q[1] = e
          /\ \A i \in DOMAIN q \ {1} : i - 1 \in DOMAIN s /\ q[i] = s[i - 1]
      BY <2>1, <2>4, <2>6, <2>8, CommandBefore
    <3>2. \A i \in DOMAIN q \ {1} : i = 2 /\ q[i] = a
      <4>1. DOMAIN q = 1..2
        BY <3>1, LenProperties
      <4> QED
        BY <2>4, <3>1, <4>1
    <3>3. OwnQueue(q, r)
      BY <2>1, <3>1, <3>2 DEF OwnQueue, OwnRest, LastVerbs
    <3> QED
      BY <3>3 DEF q
  <2> QED
    BY <2>3, <2>7, <2>8
<1>3. CASE kind = "group"
  <2>1. q = <<Cmd("group", g, r)>>
    BY <1>3 DEF Queued
  <2> QED
    BY <1>1, <2>1, CmdIsCommand DEF VERB
<1>4. CASE kind = "noop"
  <2>1. q = <<Cmd("reader", None, r)>>
    BY <1>4 DEF Queued
  <2> QED
    BY <1>1, <2>1, CmdIsCommand DEF VERB
<1>5. CASE kind \in {"list", "post", "quit"}
  <2>1. q = <<Cmd(kind, None, r)>>
    BY <1>5 DEF Queued
  <2> QED
    BY <1>1, <1>5, <2>1, CmdIsCommand DEF VERB
<1> QED
  BY <1>2, <1>3, <1>4, <1>5 DEF KINDS

\* The queue of a handshake.
LEMMA HelloIsOwn ==
  ASSUME NEW r \in 1..MaxRequests, NEW q, q = Handshake(r)
  PROVE  /\ OwnQueue(q, r)
         /\ \A i \in DOMAIN q : q[i].verb # "article"
<1> DEFINE h == Cmd("hello", None, r)
           u == Cmd("user", None, r)
           e == Cmd("reader", None, r)
<1>1. /\ h \in Command /\ h.of = r /\ h.verb = "hello"
      /\ u \in Command /\ u.of = r /\ u.verb = "user"
      /\ e \in Command /\ e.of = r /\ e.verb = "reader"
  <2>1. {"hello", "user", "reader"} \subseteq VERB
    BY DEF VERB
  <2> QED
    BY <2>1, CmdIsCommand
<1>2. q = IF HasUsername THEN <<h, u, e>> ELSE <<h, e>>
  BY DEF Handshake
<1> HIDE DEF h, u, e
<1>3. CASE HasUsername /\ q = <<h, u, e>>
  <2>1. q \in Seq(Command) /\ q # <<>> /\ Len(q) = 3 /\ q[1] = h /\ q[2] = u /\ q[3] = e
    BY <1>1, <1>3
  <2>2. DOMAIN q = 1..3
    BY <2>1, LenProperties
  <2> QED
    BY <1>1, <1>3, <2>1, <2>2 DEF OwnQueue, OwnRest, LastVerbs
<1>4. CASE q = <<h, e>>
  <2>1. q \in Seq(Command) /\ q # <<>> /\ Len(q) = 2 /\ q[1] = h /\ q[2] = e
    BY <1>1, <1>4
  <2>2. DOMAIN q = 1..2
    BY <2>1, LenProperties
  <2> QED
    BY <1>1, <2>1, <2>2 DEF OwnQueue, OwnRest, LastVerbs
<1> QED
  BY <1>2, <1>3, <1>4

\* The head of such a queue and its rest.
LEMMA NextIsOwn ==
  ASSUME NEW q \in Seq(Command), q # <<>>
  PROVE  /\ Head(q) \in Command /\ Tail(q) \in Seq(Command)
         /\ \A r : OwnRest(q, r) =>
              /\ Head(q).of = r /\ OwnRest(Tail(q), r)
              /\ Head(q).verb \in LastVerbs => Tail(q) = <<>>
              /\ Head(q).verb = "user" => HasUsername
<1>1. /\ Head(q) \in Command /\ Tail(q) \in Seq(Command)
      /\ Len(Tail(q)) = Len(q) - 1 /\ Head(q) = q[1]
      /\ \A i \in 1..Len(Tail(q)) : Tail(q)[i] = q[i + 1]
  BY HeadTailProperties
<1>2. /\ Len(q) \in Nat \ {0} /\ DOMAIN q = 1..Len(q)
      /\ DOMAIN Tail(q) = 1..Len(Tail(q))
  BY <1>1, EmptySeq, LenProperties
<1>3. ASSUME NEW r, OwnRest(q, r)
      PROVE  /\ Head(q).of = r /\ OwnRest(Tail(q), r)
             /\ Head(q).verb \in LastVerbs => Tail(q) = <<>>
             /\ Head(q).verb = "user" => HasUsername
  <2>1. /\ Head(q).of = r
        /\ Head(q).verb \in LastVerbs => Len(q) = 1
        /\ Head(q).verb = "user" => HasUsername
    BY <1>1, <1>2, <1>3 DEF OwnRest
  <2>2. Len(q) = 1 => Tail(q) = <<>>
    <3>1. Len(q) = 1 => Len(Tail(q)) = 0
      BY <1>1
    <3>2. Len(Tail(q)) = 0 => Tail(q) = <<>>
      BY <1>1, EmptySeq
    <3> QED
      BY <3>1, <3>2
  <2>3. OwnRest(Tail(q), r)
    <3>1. SUFFICES ASSUME NEW i \in DOMAIN Tail(q)
                   PROVE  /\ Tail(q)[i].of = r
                          /\ Tail(q)[i].verb \in LastVerbs => i = Len(Tail(q))
                          /\ Tail(q)[i].verb = "user" => HasUsername
      BY DEF OwnRest
    <3>2. i + 1 \in DOMAIN q /\ Tail(q)[i] = q[i + 1] /\ i \in Nat
      BY <1>1, <1>2
    <3>3. /\ q[i + 1].of = r
          /\ q[i + 1].verb \in LastVerbs => i + 1 = Len(q)
          /\ q[i + 1].verb = "user" => HasUsername
      BY <1>3, <3>2 DEF OwnRest
    <3>4. i + 1 = Len(q) => i = Len(Tail(q))
      <4> DEFINE n == Len(q)
                 m == Len(Tail(q))
      <4>1. m = n - 1 /\ n \in Nat /\ i \in Nat
        BY <1>1, <1>2, <3>2
      <4>2. SUFFICES i + 1 = n => i = m
        OBVIOUS
      <4> HIDE DEF m, n
      <4> QED
        BY <4>1
    <3>5. Tail(q)[i].of = r
      BY <3>2, <3>3
    <3>6. Tail(q)[i].verb = "user" => HasUsername
      BY <3>2, <3>3
    <3>7. Tail(q)[i].verb \in LastVerbs => i = Len(Tail(q))
      BY <3>2, <3>3, <3>4
    <3> QED
      BY <3>5, <3>6, <3>7
  <2> QED
    BY <2>1, <2>2, <2>3
<1> QED
  BY <1>1, <1>3

-----------------------------------------------------------------------------
\* Lockstep, action by action.

LEMMA WriteNextTypes ==
  ASSUME NEW cs \in Seq(Command), cs # <<>>, WriteNext(cs)
  PROVE  /\ previous' \in Command /\ previous' = Head(cs)
         /\ commands' \in Seq(Command) /\ commands' = Tail(cs)
         /\ wire' = Head(cs) /\ watch' = "write"
  BY HeadTailProperties DEF WriteNext, Write

LEMMA NewRequest ==
  ASSUME Types, requests < MaxRequests, requests' = requests + 1,
         NEW kind \in KINDS \cup {"handshake"}, NEW g \in Group \cup {None},
         listener' = [id |-> requests', kind |-> kind, group |-> g]
  PROVE  /\ requests' \in 1..MaxRequests /\ requests' \in 0..MaxRequests
         /\ listener' \in Request /\ listener'.id = requests'
         /\ listener' # None
<1>1. requests' \in 1..MaxRequests /\ requests' \in 0..MaxRequests
  BY SessionAssumption DEF Types, OtherTypes
<1>2. listener' \in Request /\ listener'.id = requests'
  BY <1>1 DEF Request
<1> QED
  BY <1>1, <1>2, SessionAssumption

LEMMA ConnectLocked ==
  ASSUME Types, Connect
  PROVE  Types' /\ InStep'
<1> DEFINE q == Handshake(requests')
<1>0. WriteNext(q)
  BY DEF Connect
<1>1. /\ requests' \in 1..MaxRequests /\ requests' \in 0..MaxRequests
      /\ listener' \in Request
  <2>1. "handshake" \in KINDS \cup {"handshake"} /\ None \in Group \cup {None}
    OBVIOUS
  <2> QED
    BY <2>1, NewRequest DEF Connect
<1>3. q \in Seq(Command) /\ q # <<>>
  BY <1>1, HelloIsOwn DEF OwnQueue
<1> HIDE DEF q
<1>4. /\ previous' \in Command /\ commands' \in Seq(Command)
      /\ wire' = previous' /\ watch' = "write"
  BY <1>0, <1>3, WriteNextTypes
<1>5. EngineTypes'
  BY <1>1, <1>4 DEF EngineTypes, Connect
<1>6. OtherTypes'
  BY <1>1, EmptySeq DEF OtherTypes, Connect
<1>7. InStep'
  BY <1>4 DEF InStep, Connect
<1> QED
  BY <1>5, <1>6, <1>7 DEF Types

LEMMA AskLocked ==
  ASSUME Types, InStep, NEW kind \in KIND, NEW g \in Group \cup {None}, Ask(kind, g)
  PROVE  Types' /\ InStep'
<1>0. kind \in KINDS
  BY SessionAssumption
<1>1. /\ requests' \in 1..MaxRequests /\ requests' \in 0..MaxRequests
      /\ listener' \in Request
  BY <1>0, NewRequest DEF Ask
<1> DEFINE r == requests'
           p == Queued(kind, g, r)
           q == commands \o p
<1>2. WriteNext(q)
  BY DEF Ask
<1>3. p \in Seq(Command) /\ p # <<>>
  BY <1>0, <1>1, QueuedIsOwn DEF OwnQueue
<1>4. commands \in Seq(Command)
  BY DEF Types, EngineTypes
<1> HIDE DEF p
<1>5. q \in Seq(Command) /\ q # <<>>
  <2>1. q \in Seq(Command) /\ Len(q) = Len(commands) + Len(p)
    BY <1>3, <1>4, ConcatProperties
  <2>2. Len(commands) \in Nat /\ Len(p) \in Nat \ {0}
    BY <1>3, <1>4, EmptySeq, LenProperties
  <2>3. Len(q) # 0
    BY <2>1, <2>2
  <2> QED
    BY <2>1, <2>3, EmptySeq
<1> HIDE DEF q
<1>6. /\ previous' \in Command /\ commands' \in Seq(Command)
      /\ wire' = previous' /\ watch' = "write"
  BY <1>2, <1>5, WriteNextTypes
<1>7. EngineTypes'
  BY <1>1, <1>6 DEF Types, EngineTypes, Ask
<1>8. OtherTypes'
  BY <1>1 DEF Types, OtherTypes, Ask, server
<1>9. InStep'
  <2>1. conn = "up" /\ watch # "read"
    BY SessionAssumption DEF Types, EngineTypes, Ask
  <2> QED
    BY <1>6, <2>1 DEF InStep, Ask, server
<1> QED
  BY <1>7, <1>8, <1>9 DEF Types

LEMMA FireDoneLocked ==
  ASSUME Types, NEW health, FireDone(health)
  PROVE  /\ conn' \in {"down", "up"} /\ listener' = None /\ compression' = FALSE
         /\ wire' = None /\ watch' = "ignore"
         /\ health = "ERR_NETWORK" => conn' = "down"
  BY DEF FireDone

LEMMA FailLocked ==
  ASSUME Types, Fail
  PROVE  Types' /\ InStep' /\ conn' = "down"
<1>1. /\ conn' = "down" /\ listener' = None /\ compression' = FALSE
      /\ wire' = None /\ watch' = "ignore"
  BY FireDoneLocked DEF Fail
<1>2. EngineTypes'
  BY <1>1 DEF Fail, Types, EngineTypes
<1>3. OtherTypes'
  BY DEF Fail, Types, OtherTypes, server
<1>4. InStep'
  BY <1>1 DEF InStep
<1> QED
  BY <1>1, <1>2, <1>3, <1>4 DEF Types

LEMMA DoWriteLocked ==
  ASSUME Types, InStep, DoWrite
  PROVE  Types' /\ InStep'
<1>1. wire \in Command /\ watch = "write" /\ watch' = "read" /\ wire' = None
  BY DEF Types, EngineTypes, DoWrite
<1>2. conn = "up" /\ inbox = <<>> /\ ~text
  BY <1>1 DEF Types, EngineTypes, InStep
<1>3. PICK a \in Answers(wire) :
        /\ inbox' = inbox \o a
        /\ sgroup' = IF \E i \in DOMAIN a : a[i].code = 211 THEN wire.group ELSE sgroup
        /\ authed' = (authed \/ \E i \in DOMAIN a : a[i].code = 281)
  BY DEF DoWrite
<1>4. a \in Seq(Line) /\ Whole(a)
  BY <1>1, AnswersAreGood DEF GoodAnswer
<1>5. inbox' = a
  BY <1>2, <1>3, <1>4, ConcatEmptySeq
<1>6. sgroup' \in Group \cup {None} /\ authed' \in BOOLEAN
  BY <1>1, <1>3 DEF Types, OtherTypes, Command
<1>7. EngineTypes'
  BY <1>1, <1>2 DEF Types, EngineTypes, DoWrite, session
<1>8. OtherTypes'
  BY <1>4, <1>5, <1>6 DEF Types, OtherTypes, DoWrite, session
<1>9. InStep'
  BY <1>1, <1>2, <1>4, <1>5 DEF InStep, DoWrite, session
<1> QED
  BY <1>7, <1>8, <1>9 DEF Types

\* How a line leaves the engine: with a command to write, with the rest of a
\* text to read, or with nothing to wait for.
Leaves(more) ==
  /\ EngineTypes'
  /\ ~more => watch' # "read"
  /\ more => watch' = "read" /\ conn' = conn

LEMMA ConcludeLeaves ==
  ASSUME Types, watch = "read", NEW gz \in BOOLEAN, NEW state,
         Conclude(state, commands, gz)
  PROVE  Leaves(state = "MORE")
<1>1. EngineTypes /\ conn = "up" /\ listener \in Request /\ previous \in Command
  BY DEF Types, EngineTypes
<1>2. CASE state = "DONE" /\ commands # <<>> /\ WriteNext(commands)
           /\ compression' = gz /\ UNCHANGED <<conn, listener>>
  <2>1. /\ previous' \in Command /\ commands' \in Seq(Command)
        /\ wire' = previous' /\ watch' = "write"
    BY <1>1, <1>2, WriteNextTypes DEF EngineTypes
  <2> QED
    BY <1>1, <1>2, <2>1 DEF EngineTypes, Leaves
<1>3. CASE state = "MORE" /\ commands' = commands /\ compression' = gz
           /\ UNCHANGED <<conn, listener, previous, wire, watch>>
  BY <1>1, <1>3 DEF EngineTypes, Leaves
<1>4. ASSUME NEW health, FireDone(health), state # "MORE", commands' = commands,
             UNCHANGED previous
      PROVE  Leaves(state = "MORE")
  <2>1. /\ conn' \in {"down", "up"} /\ listener' = None /\ compression' = FALSE
        /\ wire' = None /\ watch' = "ignore"
    BY <1>4, FireDoneLocked
  <2> QED
    BY <1>1, <1>4, <2>1 DEF EngineTypes, Leaves
<1> QED
  BY <1>2, <1>3, <1>4 DEF Conclude

LEMMA InterposeLeaves ==
  ASSUME Types, watch = "read", NEW verb \in VERB, NEW cs \in Seq(Command),
         Interpose(verb, cs)
  PROVE  Leaves(FALSE)
<1>1. EngineTypes /\ conn = "up" /\ listener \in Request /\ previous \in Command
  BY DEF Types, EngineTypes
<1>2. listener.id \in 1..MaxRequests
  BY <1>1 DEF Request
<1>3. Cmd(verb, None, listener.id) \in Command
  BY <1>2, CmdIsCommand
<1> QED
  BY <1>1, <1>3 DEF Interpose, Write, EngineTypes, Leaves

LEMMA DoReadLocked ==
  ASSUME Types, InStep, DoRead
  PROVE  Types' /\ InStep'
<1>1. /\ watch = "read" /\ inbox # <<>> /\ inbox' = Tail(inbox)
      /\ UNCHANGED <<sgroup, authed, requests>>
  BY DEF DoRead
<1>2. /\ EngineTypes /\ OtherTypes /\ conn = "up" /\ listener \in Request
      /\ previous \in Command /\ inbox \in Seq(Line) /\ commands \in Seq(Command)
  BY <1>1 DEF Types, EngineTypes, OtherTypes
<1>3. line \in Line /\ inbox' \in Seq(Line)
  BY <1>1, <1>2, HeadTailProperties DEF line
<1>4. ASSUME NEW more \in BOOLEAN,
             Leaves(more), text' \in BOOLEAN, group' \in Group \cup {None},
             ~more => ~text' /\ inbox' = <<>>,
             more => IF text' THEN Ending(inbox') ELSE Whole(inbox')
      PROVE  Types' /\ InStep'
  <2>2. OtherTypes'
    BY <1>1, <1>2, <1>3, <1>4 DEF OtherTypes
  <2>3. InStep'
    BY <1>1, <1>4 DEF InStep, Leaves
  <2> QED
    BY <1>4, <2>2, <2>3 DEF Leaves, Types
<1>5. CASE ReadText
  <2>1. text /\ Ending(inbox) /\ group' = group
    BY <1>1, <1>5 DEF ReadText, InStep
  <2>2. /\ line.says = "." => inbox' = <<>>
        /\ line.says # "." => Ending(inbox')
    BY <1>1, <1>2, <2>1, EndingTail DEF line
  <2>3. CASE EndsText
    <3>1. text' = FALSE /\ Conclude("DONE", commands, FALSE)
      BY <1>5, <2>3 DEF ReadText
    <3>2. Leaves("DONE" = "MORE")
      BY <1>1, <3>1, ConcludeLeaves
    <3>3. Leaves(FALSE)
      BY <3>2
    <3>4. inbox' = <<>> /\ group' \in Group \cup {None}
      BY <1>2, <2>1, <2>2, <2>3 DEF EndsText, OtherTypes
    <3> QED
      BY <1>4, <3>1, <3>3, <3>4
  <2>4. CASE ~EndsText
    <3>1. text' /\ text' \in BOOLEAN /\ Conclude("MORE", commands, compression)
      BY <1>5, <2>4 DEF ReadText
    <3>2. Leaves("MORE" = "MORE")
      BY <1>1, <1>2, <3>1, ConcludeLeaves DEF EngineTypes
    <3>3. Leaves(TRUE)
      BY <3>2
    <3> QED
      BY <1>2, <1>4, <2>1, <2>2, <2>4, <3>1, <3>3 DEF EndsText, OtherTypes
  <2> QED
    BY <2>3, <2>4
<1>6. CASE ~text
  <2>1. Whole(inbox)
    BY <1>1, <1>6 DEF InStep
  <2>2. /\ line.code \in MoreCodes => Ending(inbox')
        /\ line.code \notin MoreCodes => inbox' = <<>>
    BY <1>1, <1>2, <2>1, WholeTail DEF line
  <2>3. line.code \in 0..503 /\ line.group \in Group \cup {None}
    BY <1>3 DEF Line
  <2>4. CASE ReadStatus
    <3>1. /\ text' = (State(line.code) = "MORE")
          /\ Conclude(State(line.code), commands, compression \/ line.says = "gzip")
          /\ group' = GroupAfter
      BY <2>4 DEF ReadStatus
    <3>2. group' \in Group \cup {None}
      BY <1>2, <2>3, <3>1 DEF GroupAfter, OtherTypes
    <3>3. (compression \/ line.says = "gzip") \in BOOLEAN
      OBVIOUS
    <3>4. Leaves(State(line.code) = "MORE")
      BY <1>1, <3>1, <3>3, ConcludeLeaves
    <3>5. State(line.code) = "MORE" <=> line.code \in MoreCodes
      BY <2>3, StateCodes
    <3>6. CASE State(line.code) = "MORE"
      <4>1. Leaves(TRUE) /\ text'
        BY <3>1, <3>4, <3>6
      <4> QED
        BY <1>4, <2>2, <3>1, <3>2, <3>5, <3>6, <4>1
    <3>7. CASE State(line.code) # "MORE"
      <4>1. Leaves(FALSE) /\ ~text'
        BY <3>1, <3>4, <3>7
      <4> QED
        BY <1>4, <2>2, <3>1, <3>2, <3>5, <3>7, <4>1
    <3> QED
      BY <3>6, <3>7
  <2>5. CASE ReadAuth
    <3>1. text' = text /\ group' = group
      BY <2>5 DEF ReadAuth
    <3>2. line.code \in {480, 381, 281, 340} /\ line.code \notin MoreCodes
      BY <2>5 DEF ReadAuth, Interposes, MoreCodes
    <3>3. {"user", "pass", "xfeature", "message"} \subseteq VERB
      BY DEF VERB
    <3>4. \E verb \in VERB, cs \in Seq(Command) : Interpose(verb, cs)
      <4> DEFINE q == <<previous>> \o commands
      <4>1. q \in Seq(Command)
        BY <1>2, CommandBefore
      <4> HIDE DEF q
      <4>2. \/ Interpose("user", q) \/ Interpose("pass", commands)
            \/ Interpose("xfeature", commands) \/ Interpose("message", commands)
        <5>1. line.code = 480 => Interpose("user", q)
          BY <2>5 DEF ReadAuth, q
        <5>2. line.code = 381 => Interpose("pass", commands)
          BY <2>5 DEF ReadAuth
        <5>3. line.code = 281 => Interpose("xfeature", commands)
          BY <2>5 DEF ReadAuth
        <5>4. line.code = 340 => Interpose("message", commands)
          BY <2>5 DEF ReadAuth
        <5> QED
          BY <3>2, <5>1, <5>2, <5>3, <5>4
      <4> QED
        BY <1>2, <3>3, <4>1, <4>2
    <3>5. Leaves(FALSE)
      BY <1>1, <3>4, InterposeLeaves
    <3> QED
      BY <1>2, <1>4, <1>6, <2>2, <3>1, <3>2, <3>5 DEF OtherTypes
  <2>6. CASE ReadUnassigned
    <3>1. text' = text /\ group' = group
      BY <2>6 DEF ReadUnassigned
    <3>2. line.code \notin MoreCodes
      BY <2>6 DEF ReadUnassigned, Unassigned, MoreCodes
    <3>3. CASE \E state \in {"DONE", "FAIL", "RETRY", "MORE"} :
                 Conclude(state, commands, compression)
      <4>1. PICK state \in {"DONE", "FAIL", "RETRY", "MORE"} :
              Conclude(state, commands, compression)
        BY <3>3
      <4>2. Leaves(state = "MORE")
        BY <1>1, <1>2, <4>1, ConcludeLeaves DEF EngineTypes
      <4>3. Whole(<<>>)
        BY DEF Whole
      <4>4. Leaves(TRUE) \/ Leaves(FALSE)
        BY <4>2
      <4> QED
        BY <1>2, <1>4, <1>6, <2>2, <3>1, <3>2, <4>3, <4>4 DEF OtherTypes
    <3>4. CASE /\ watch' = "ignore" /\ conn' \in {"up", "aborted"}
               /\ UNCHANGED <<listener, commands, previous, wire, compression>>
      <4>1. Leaves(FALSE)
        BY <1>1, <1>2, <3>4 DEF EngineTypes, Leaves
      <4> QED
        BY <1>2, <1>4, <1>6, <2>2, <3>1, <3>2, <4>1 DEF OtherTypes
    <3> QED
      BY <1>2, <2>6, <3>3, <3>4 DEF ReadUnassigned
  <2> QED
    BY <1>6, <2>4, <2>5, <2>6 DEF DoRead, ReadText
<1> QED
  BY <1>2, <1>5, <1>6 DEF DoRead, ReadStatus, ReadAuth, ReadUnassigned

LEMMA InitLocked == Init => Types /\ InStep
<1> SUFFICES ASSUME Init PROVE Types /\ InStep
  OBVIOUS
<1>1. <<>> \in Seq(Command) /\ <<>> \in Seq(Line)
  BY EmptySeq
<1>2. EngineTypes
  BY <1>1 DEF Init, EngineTypes
<1>3. OtherTypes
  <2>1. 0 \in 0..MaxRequests
    BY SessionAssumption
  <2> QED
    BY <1>1, <2>1 DEF Init, OtherTypes
<1>4. InStep
  BY DEF Init, InStep
<1> QED
  BY <1>2, <1>3, <1>4 DEF Types

LEMMA NextLocked == Types /\ InStep /\ [Next]_vars => (Types /\ InStep)'
<1> SUFFICES ASSUME Types, InStep, [Next]_vars PROVE Types' /\ InStep'
  OBVIOUS
<1>1. CASE Connect
  BY <1>1, ConnectLocked
<1>2. ASSUME NEW kind \in KIND, NEW g \in Group \cup {None}, Ask(kind, g)
      PROVE  Types' /\ InStep'
  BY <1>2, AskLocked
<1>3. CASE DoWrite
  BY <1>3, DoWriteLocked
<1>4. CASE DoRead
  BY <1>4, DoReadLocked
<1>5. CASE SocketError \/ Timeout
  BY <1>5, FailLocked DEF SocketError, Timeout
<1>6. CASE UNCHANGED vars
  <2>1. UNCHANGED <<conn, listener, commands, previous, compression, wire, watch>>
    BY <1>6 DEF vars, session
  <2>2. UNCHANGED <<group, text, inbox, sgroup, authed, requests>>
    BY <1>6 DEF vars, session, server
  <2>3. EngineTypes'
    BY <2>1 DEF Types, EngineTypes
  <2>4. OtherTypes'
    BY <2>2 DEF Types, OtherTypes
  <2>5. InStep'
    BY <2>1, <2>2 DEF InStep
  <2> QED
    BY <2>3, <2>4, <2>5 DEF Types
<1> QED
  BY <1>1, <1>2, <1>3, <1>4, <1>5, <1>6 DEF Next

LEMMA Locked == Spec => [](Types /\ InStep)
<1>1. Init => Types /\ InStep
  BY InitLocked
<1>2. Types /\ InStep /\ [Next]_vars => (Types /\ InStep)'
  BY NextLocked
<1> QED
  BY <1>1, <1>2, PTL DEF Spec

\* Whatever the server says, and whenever the connection breaks or is timed
\* out, a command is only written when the answer to the one before was read
\* to its end (on_socket_response, write_next_command).
THEOREM LockstepCorrect == Spec => []Lockstep
<1>1. Types /\ InStep => Lockstep
  BY DEF Types, EngineTypes, InStep, Lockstep
<1> QED
  BY <1>1, Locked, PTL

-----------------------------------------------------------------------------
\* The requests do not mix, if the server refuses nothing in their middle.

Gentle == "refusal" \notin SURPRISES

LEMMA InitOrderly == Init => Orderly
  BY DEF Init, Orderly

LEMMA ConnectOrderly ==
  ASSUME Types, Connect
  PROVE  Orderly'
<1>1. /\ requests' \in 1..MaxRequests
      /\ listener' # None /\ listener'.id = requests'
  <2>1. "handshake" \in KINDS \cup {"handshake"} /\ None \in Group \cup {None}
    OBVIOUS
  <2> QED
    BY <2>1, NewRequest DEF Connect
<1> DEFINE q == Handshake(requests')
<1>2. WriteNext(q)
  BY DEF Connect
<1>3. OwnQueue(q, listener'.id)
  BY <1>1, HelloIsOwn
<1> HIDE DEF q
<1>4. /\ previous' = Head(q) /\ commands' = Tail(q)
      /\ wire' = Head(q) /\ watch' = "write"
  BY <1>2, <1>3, WriteNextTypes DEF OwnQueue
<1>5. /\ Head(q).of = listener'.id /\ OwnRest(Tail(q), listener'.id)
      /\ Head(q).verb \in LastVerbs => Tail(q) = <<>>
      /\ Head(q).verb = "user" => HasUsername
  BY <1>3, NextIsOwn DEF OwnQueue
<1>6. heard' = {}
  BY DEF Connect
<1> QED
  BY <1>1, <1>4, <1>5, <1>6 DEF Orderly, OwnCommands, OwnWire

LEMMA AskOrderly ==
  ASSUME Types, Orderly, NEW kind \in KIND, NEW g \in Group \cup {None}, Ask(kind, g)
  PROVE  Orderly'
<1>0. kind \in KINDS
  BY SessionAssumption
<1>1. /\ requests' \in 1..MaxRequests
      /\ listener' # None /\ listener'.id = requests'
  BY <1>0, NewRequest DEF Ask
<1>2. commands = <<>>
  BY DEF Ask, Orderly
<1> DEFINE q == Queued(kind, g, requests')
<1>3. WriteNext(commands \o q)
  BY DEF Ask
<1>4. OwnQueue(q, listener'.id)
  BY <1>0, <1>1, QueuedIsOwn
<1> HIDE DEF q
<1>5. commands \o q = q
  BY <1>2, <1>4, ConcatEmptySeq DEF OwnQueue
<1>6. /\ previous' = Head(q) /\ commands' = Tail(q)
      /\ wire' = Head(q) /\ watch' = "write"
  BY <1>3, <1>4, <1>5, WriteNextTypes DEF OwnQueue
<1>7. /\ Head(q).of = listener'.id /\ OwnRest(Tail(q), listener'.id)
      /\ Head(q).verb \in LastVerbs => Tail(q) = <<>>
      /\ Head(q).verb = "user" => HasUsername
  BY <1>4, NextIsOwn DEF OwnQueue
<1>8. heard' = {}
  BY DEF Ask
<1> QED
  BY <1>1, <1>6, <1>7, <1>8 DEF Orderly, OwnCommands, OwnWire

LEMMA ReplyForms ==
  ASSUME NEW c, NEW k, Reply(c, k)
  PROVE  \/ k \in {200, 205, 240, 290, 400, 420} \/ k = 211
         \/ k = 281
         \/ (k = 381 /\ c.verb = "user") \/ (k = 480 /\ HasUsername) \/ k = 340
         \/ MayRefuse \/ c.verb \in {"post", "article"}
         \/ k = 500 /\ c.verb = "reader"
<1> DEFINE v == c.verb
           Goal == \/ k \in {200, 205, 240, 290, 400, 420} \/ k = 211
                   \/ k = 281
                   \/ (k = 381 /\ v = "user") \/ (k = 480 /\ HasUsername) \/ k = 340
                   \/ MayRefuse \/ v \in {"post", "article"}
                   \/ k = 500 /\ v = "reader"
<1> SUFFICES Goal
  OBVIOUS
<1>1. CASE k \in {200, 205, 240, 290, 400, 420} \/ k = 211 \/ k = 281
  BY <1>1
<1>2. CASE k = 381 /\ v = "user"
  BY <1>2
<1>3. CASE v = "post" \/ v = "article"
  BY <1>3
<1>4. CASE k = 500 /\ v = "reader"
  BY <1>4
<1>5. CASE k = 480 /\ HasUsername
  BY <1>5
<1>6. CASE MayRefuse
  BY <1>6
<1> HIDE DEF Goal
<1>7. \/ k \in {200, 205, 240, 290, 400, 420} \/ k = 211 \/ k = 281
      \/ k = 381 /\ v = "user"
      \/ v = "post" \/ v = "article"
      \/ k = 500 /\ v = "reader"
      \/ k = 480 /\ (HasUsername \/ MayRefuse)
      \/ MayRefuse
  BY DEF Reply
<1> HIDE DEF v
<1> QED
  BY <1>1, <1>2, <1>3, <1>4, <1>5, <1>6, <1>7

LEMMA DoWriteOrderly ==
  ASSUME Gentle, Types, InStep, Orderly, DoWrite
  PROVE  Orderly'
<1>1. /\ wire \in Command /\ watch = "write" /\ watch' = "read"
      /\ conn = "up" /\ inbox = <<>> /\ ~text /\ listener \in Request
  BY DEF Types, EngineTypes, InStep, DoWrite
<1>2. /\ OwnCommands /\ OwnWire /\ heard \subseteq {listener.id}
      /\ previous.of = listener.id /\ listener # None
  BY <1>1, SessionAssumption DEF Orderly
<1>3. /\ conn' = conn /\ listener' = listener /\ commands' = commands
      /\ previous' = previous /\ text' = text /\ heard' = heard
  BY DEF DoWrite, session
<1>4. PICK a \in Answers(wire) : inbox' = inbox \o a
  BY DEF DoWrite
<1>5. GoodAnswer(wire, a)
  BY <1>1, AnswersAreGood
<1>6. inbox' = a
  BY <1>1, <1>4, <1>5, ConcatEmptySeq DEF GoodAnswer
<1>7. \A i \in DOMAIN inbox' : inbox'[i].of = listener'.id
  BY <1>2, <1>3, <1>5, <1>6 DEF GoodAnswer, OwnWire
<1>8. ASSUME a # <<>>
      PROVE  OwnAnswer'
  <2> DEFINE l == Head(a)
             k == Head(a).code
             v == wire.verb
  <2>1. line' = l /\ line'.code = k
    BY <1>6 DEF line
  <2>2. /\ v \in LastVerbs => commands = <<>>
        /\ v = "user" => HasUsername
        /\ v \notin LoginVerbs => previous.verb = v
    BY <1>2 DEF OwnWire
  <2>3. MayRefuse => commands = <<>> \/ listener.kind = "handshake"
    BY DEF MayRefuse, Gentle
  <2>4. \/ k = 220 /\ v \in {"article", "list"}
        \/ k = 441 /\ l.says = "435" /\ v = "message"
        \/ l.says = "plain" /\ Reply(wire, k)
    BY <1>5, <1>8 DEF GoodAnswer
  <2>5. k \in {340, 440, 441} => commands = <<>>
    BY <2>2, <2>4 DEF Reply, LastVerbs
  <2>6. k = 480 => /\ previous.verb # "user"
                   /\ previous.verb \in LastVerbs => commands = <<>>
    BY <2>2, <2>4 DEF Reply, LoginVerbs
  <2>7. \/ State(line.code)' # "FAIL"
        \/ Interposes'
        \/ commands = <<>> \/ listener.kind = "handshake"
    <3> DEFINE Goal == \/ State(line.code)' # "FAIL"
                       \/ Interposes'
                       \/ commands = <<>> \/ listener.kind = "handshake"
    <3> SUFFICES Goal
      OBVIOUS
    <3>1. CASE k = 220 \/ k = 400
      BY <2>1, <3>1 DEF State
    <3>2. CASE k = 441 /\ l.says = "435"
      BY <2>1, <3>2 DEF State
    <3>3. CASE Reply(wire, k)
      <4>1. CASE k \in {200, 205, 240, 290, 400, 420} \/ k = 211
        BY <2>1, <4>1 DEF State
      <4>2. CASE k = 281
        BY <2>1, <4>2 DEF State, Interposes
      <4>3. CASE (k = 381 /\ v = "user") \/ (k = 480 /\ HasUsername) \/ k = 340
        BY <2>1, <2>2, <4>3 DEF Interposes
      <4>4. CASE MayRefuse \/ v \in {"post", "article"}
        BY <2>2, <2>3, <4>4 DEF LastVerbs
      <4>5. CASE k = 500 /\ v = "reader"
        <5>1. previous'.verb = "reader"
          BY <1>3, <2>2, <4>5 DEF LoginVerbs
        <5> QED
          BY <2>1, <4>5, <5>1 DEF State
      <4>6. \/ k \in {200, 205, 240, 290, 400, 420} \/ k = 211
            \/ k = 281
            \/ (k = 381 /\ v = "user") \/ (k = 480 /\ HasUsername) \/ k = 340
            \/ MayRefuse \/ v \in {"post", "article"}
            \/ k = 500 /\ v = "reader"
        BY <3>3, ReplyForms
      <4> HIDE DEF Goal, k, v
      <4> QED
        BY <4>1, <4>2, <4>3, <4>4, <4>5, <4>6
    <3> QED
      BY <2>4, <3>1, <3>2, <3>3
  <2> HIDE DEF l, k, v
  <2> QED
    BY <1>3, <2>1, <2>5, <2>6, <2>7 DEF OwnAnswer
<1> QED
  BY <1>1, <1>2, <1>3, <1>6, <1>7, <1>8 DEF Orderly, OwnCommands, OwnRest

\* How a line leaves the requests, when its answer has not ended too early.
Sorted ==
  conn' = "up" =>
    /\ listener' = None => commands' = <<>> /\ ~compression' /\ watch' = "ignore"
    /\ OwnCommands'
    /\ watch' # "ignore" => previous'.of = listener'.id
    /\ watch' = "write" => OwnWire'
    /\ listener' # None => listener' = listener

LEMMA ConcludeSorted ==
  ASSUME Types, watch = "read", NEW gz, NEW state,
         Conclude(state, commands, gz),
         OwnCommands, previous.of = listener.id,
         state = "FAIL" => commands = <<>> \/ listener.kind = "handshake"
  PROVE  Sorted
<1>1. commands \in Seq(Command) /\ conn = "up" /\ listener # None
  BY SessionAssumption DEF Types, EngineTypes
<1>2. CASE state = "DONE" /\ commands # <<>> /\ WriteNext(commands)
           /\ compression' = gz /\ UNCHANGED <<conn, listener>>
  <2>1. /\ previous' = Head(commands) /\ commands' = Tail(commands)
        /\ wire' = Head(commands) /\ watch' = "write"
    BY <1>1, <1>2, WriteNextTypes
  <2>2. /\ Head(commands).of = listener.id /\ OwnRest(Tail(commands), listener.id)
        /\ Head(commands).verb \in LastVerbs => Tail(commands) = <<>>
        /\ Head(commands).verb = "user" => HasUsername
    BY <1>1, <1>2, NextIsOwn DEF OwnCommands
  <2> QED
    BY <1>1, <1>2, <2>1, <2>2 DEF Sorted, OwnCommands, OwnWire
<1>3. CASE state = "MORE" /\ commands' = commands /\ compression' = gz
           /\ UNCHANGED <<conn, listener, previous, wire, watch>>
  BY <1>1, <1>3 DEF Sorted, OwnCommands
<1>4. ASSUME NEW health, FireDone(health), commands' = commands,
             health = "OK" => commands = <<>>,
             health = "ERR_COMMAND" => commands = <<>> \/ listener.kind = "handshake",
             health \in {"OK", "ERR_COMMAND", "ERR_NETWORK"}
      PROVE  Sorted
  <2>1. listener' = None /\ compression' = FALSE /\ watch' = "ignore"
    BY <1>4, FireDoneLocked
  <2>2. conn' = "up" => commands' = <<>>
    BY <1>4 DEF FireDone
  <2>3. OwnRest(<<>>, listener'.id)
    BY DEF OwnRest
  <2> QED
    BY <2>1, <2>2, <2>3 DEF Sorted, OwnCommands
<1> QED
  BY <1>2, <1>3, <1>4 DEF Conclude

LEMMA InterposeSorted ==
  ASSUME Types, watch = "read", NEW verb \in LoginVerbs, NEW cs,
         Interpose(verb, cs),
         OwnRest(cs, listener.id), previous.of = listener.id,
         verb = "message" => cs = <<>>, verb = "user" => HasUsername
  PROVE  Sorted
<1>1. conn = "up" /\ listener # None
  BY SessionAssumption DEF Types, EngineTypes
<1>2. /\ wire' = Cmd(verb, None, listener.id) /\ commands' = cs
      /\ UNCHANGED <<conn, listener, previous>>
  BY DEF Interpose, Write
<1>3. wire'.of = listener.id /\ wire'.verb = verb
  BY <1>2 DEF Cmd
<1> QED
  BY <1>1, <1>2, <1>3 DEF Sorted, OwnCommands, OwnWire, LoginVerbs, LastVerbs

\* A command sent again goes before the others of its request.
LEMMA SentAgain ==
  ASSUME NEW c \in Command, NEW s \in Seq(Command), NEW r, c.of = r, OwnRest(s, r),
         c.verb \in LastVerbs => s = <<>>, c.verb # "user"
  PROVE  OwnRest(<<c>> \o s, r)
<1> DEFINE q == <<c>> \o s
<1>1. /\ q \in Seq(Command) /\ Len(q) = Len(s) + 1 /\ q[1] = c
      /\ \A i \in DOMAIN q \ {1} : i - 1 \in DOMAIN s /\ q[i] = s[i - 1]
  BY CommandBefore
<1>2. Len(s) \in Nat /\ DOMAIN s = 1..Len(s) /\ DOMAIN q = 1..Len(q)
  BY <1>1, LenProperties
<1> HIDE DEF q
<1>3. ASSUME NEW i \in DOMAIN q
      PROVE  /\ q[i].of = r
             /\ q[i].verb \in LastVerbs => i = Len(q)
             /\ q[i].verb = "user" => HasUsername
  <2>1. CASE i = 1
    <3>1. q[i].verb \in LastVerbs => Len(s) = 0
      BY <1>1, <2>1
    <3> QED
      BY <1>1, <2>1, <3>1
  <2>2. CASE i # 1
    <3>1. i - 1 \in DOMAIN s /\ q[i] = s[i - 1]
      BY <1>1, <2>2
    <3>2. /\ s[i - 1].of = r
          /\ s[i - 1].verb \in LastVerbs => i - 1 = Len(s)
          /\ s[i - 1].verb = "user" => HasUsername
      BY <3>1 DEF OwnRest
    <3>3. i - 1 = Len(s) => i = Len(q)
      BY <1>1, <1>2
    <3> QED
      BY <3>1, <3>2, <3>3
  <2> QED
    BY <2>1, <2>2
<1>4. OwnRest(q, r)
  BY <1>3 DEF OwnRest
<1> QED
  BY <1>4 DEF q

LEMMA DoReadOrderly ==
  ASSUME Types, InStep, Orderly, DoRead
  PROVE  Orderly'
<1>1. /\ watch = "read" /\ inbox # <<>> /\ inbox' = Tail(inbox)
      /\ conn = "up" /\ listener \in Request /\ listener # None
      /\ previous \in Command /\ inbox \in Seq(Line) /\ commands \in Seq(Command)
  BY SessionAssumption DEF DoRead, Types, EngineTypes, OtherTypes
<1>2. /\ OwnCommands /\ previous.of = listener.id /\ heard \subseteq {listener.id}
      /\ \A i \in DOMAIN inbox : inbox[i].of = listener.id
      /\ ~text => OwnAnswer
  BY <1>1 DEF Orderly
<1>3. /\ line.of = listener.id
      /\ \A i \in DOMAIN inbox' : inbox'[i].of = listener.id
  <2>1. /\ Len(inbox) \in Nat \ {0} /\ DOMAIN inbox = 1..Len(inbox)
        /\ Head(inbox) = inbox[1] /\ Tail(inbox) \in Seq(Line)
        /\ Len(Tail(inbox)) = Len(inbox) - 1
        /\ \A i \in 1..Len(Tail(inbox)) : Tail(inbox)[i] = inbox[i + 1]
    BY <1>1, EmptySeq, HeadTailProperties, LenProperties
  <2>2. DOMAIN Tail(inbox) = 1..Len(Tail(inbox))
    BY <2>1, LenProperties
  <2>3. \A i \in DOMAIN Tail(inbox) : i + 1 \in DOMAIN inbox
    BY <2>1, <2>2
  <2> QED
    BY <1>1, <1>2, <2>1, <2>2, <2>3 DEF line
<1>4. heard' \subseteq {listener.id}
  BY <1>2, <1>3 DEF DoRead, ReadText, ReadStatus, ReadAuth, ReadUnassigned
<1>5. CASE ReadText
  <2>1. CASE EndsText
    <3>1. Conclude("DONE", commands, FALSE)
      BY <1>5, <2>1 DEF ReadText
    <3>2. Leaves("DONE" = "MORE")
      BY <1>1, <3>1, ConcludeLeaves
    <3>3. watch' # "read"
      BY <3>2 DEF Leaves
    <3>4. Sorted
      BY <1>1, <1>2, <3>1, ConcludeSorted
    <3> QED
      BY <1>1, <1>3, <1>4, <3>3, <3>4 DEF Orderly, Sorted
  <2>2. CASE ~EndsText
    <3>1. text' /\ Conclude("MORE", commands, compression)
      BY <1>5, <2>2 DEF ReadText
    <3>2. Sorted
      BY <1>1, <1>2, <3>1, ConcludeSorted
    <3>3. watch' = "read"
      BY <1>1, <3>1 DEF Conclude
    <3> QED
      BY <1>1, <1>3, <1>4, <3>1, <3>2, <3>3 DEF Orderly, Sorted
  <2> QED
    BY <2>1, <2>2
<1>6. CASE ReadStatus
  <2>1. /\ ~text /\ ~Interposes
        /\ text' = (State(line.code) = "MORE")
        /\ Conclude(State(line.code), commands, compression \/ line.says = "gzip")
    BY <1>6 DEF ReadStatus
  <2>2. Leaves(State(line.code) = "MORE")
    BY <1>1, <2>1, ConcludeLeaves
  <2>3. watch' = "read" => text'
    BY <2>1, <2>2 DEF Leaves
  <2>4. State(line.code) = "FAIL" => commands = <<>> \/ listener.kind = "handshake"
    BY <1>2, <2>1 DEF OwnAnswer
  <2>5. Sorted
    BY <1>1, <1>2, <2>1, <2>4, ConcludeSorted
  <2> QED
    BY <1>1, <1>3, <1>4, <2>3, <2>5 DEF Orderly, Sorted
<1>7. CASE ReadAuth
  <2>1. ~text /\ Interposes /\ OwnAnswer
    BY <1>2, <1>7 DEF ReadAuth
  <2>2. CASE line.code = 480
    <3> DEFINE q == <<previous>> \o commands
    <3>1. Interpose("user", q) /\ HasUsername
      BY <1>7, <2>1, <2>2 DEF ReadAuth, Interposes
    <3>2. OwnRest(q, listener.id)
      BY <1>1, <1>2, <2>1, <2>2, SentAgain DEF OwnAnswer, OwnCommands
    <3> HIDE DEF q
    <3>3. Sorted
      BY <1>1, <1>2, <3>1, <3>2, InterposeSorted DEF LoginVerbs
    <3>4. watch' = "write"
      BY <3>1 DEF Interpose, Write
    <3> QED
      BY <1>1, <1>3, <1>4, <3>3, <3>4 DEF Orderly, Sorted
  <2>3. CASE line.code \in {381, 281}
    <3>1. \E verb \in {"pass", "xfeature"} : Interpose(verb, commands)
      <4>1. line.code = 381 => Interpose("pass", commands)
        BY <1>7 DEF ReadAuth
      <4>2. line.code = 281 => Interpose("xfeature", commands)
        BY <1>7 DEF ReadAuth
      <4> QED
        BY <2>3, <4>1, <4>2
    <3>2. Sorted
      BY <1>1, <1>2, <3>1, InterposeSorted DEF LoginVerbs, OwnCommands
    <3>3. watch' = "write"
      BY <3>1 DEF Interpose, Write
    <3> QED
      BY <1>1, <1>3, <1>4, <3>2, <3>3 DEF Orderly, Sorted
  <2>4. CASE line.code = 340
    <3>1. Interpose("message", commands) /\ commands = <<>>
      BY <1>7, <2>1, <2>4 DEF ReadAuth, OwnAnswer
    <3>2. Sorted
      BY <1>1, <1>2, <3>1, InterposeSorted DEF LoginVerbs, OwnCommands
    <3>3. watch' = "write"
      BY <3>1 DEF Interpose, Write
    <3> QED
      BY <1>1, <1>3, <1>4, <3>2, <3>3 DEF Orderly, Sorted
  <2> QED
    BY <2>1, <2>2, <2>3, <2>4 DEF Interposes
<1>8. CASE ReadUnassigned
  <2>1. ~text /\ Unassigned /\ commands = <<>>
    BY <1>2, <1>8 DEF ReadUnassigned, Unassigned, OwnAnswer
  <2>2. inbox' = <<>>
    <3>1. Whole(inbox) /\ line.code \notin MoreCodes
      BY <1>1, <2>1 DEF InStep, Unassigned, MoreCodes
    <3> QED
      BY <1>1, <3>1, WholeTail DEF line
  <2>3. CASE \E state \in {"DONE", "FAIL", "RETRY", "MORE"} :
               Conclude(state, commands, compression)
    <3>1. Sorted
      BY <1>1, <1>2, <2>1, <2>3, ConcludeSorted
    <3> QED
      BY <1>1, <1>3, <1>4, <2>2, <3>1 DEF Orderly, Sorted
  <2>4. CASE watch' = "ignore" /\ UNCHANGED <<conn, listener, commands, previous>>
    BY <1>1, <1>2, <1>4, <2>4 DEF Orderly, OwnCommands
  <2>5. CASE conn' = "aborted"
    BY <2>5 DEF Orderly
  <2> QED
    BY <1>8, <2>3, <2>4, <2>5 DEF ReadUnassigned
<1> QED
  BY <1>5, <1>6, <1>7, <1>8 DEF DoRead

LEMMA NextOrderly ==
  ASSUME Gentle
  PROVE  Types /\ InStep /\ Orderly /\ [Next]_vars => Orderly'
<1> SUFFICES ASSUME Types, InStep, Orderly, [Next]_vars PROVE Orderly'
  OBVIOUS
<1>1. CASE Connect
  BY <1>1, ConnectOrderly
<1>2. ASSUME NEW kind \in KIND, NEW g \in Group \cup {None}, Ask(kind, g)
      PROVE  Orderly'
  BY <1>2, AskOrderly
<1>3. CASE DoWrite
  BY <1>3, DoWriteOrderly
<1>4. CASE DoRead
  BY <1>4, DoReadOrderly
<1>5. CASE SocketError \/ Timeout
  <2>1. conn' = "down"
    BY <1>5, FailLocked DEF SocketError, Timeout
  <2> QED
    BY <2>1 DEF Orderly
<1>6. CASE UNCHANGED vars
  BY <1>6 DEF vars, session, server, Orderly, OwnCommands, OwnWire, OwnAnswer, State,
              Interposes, line
<1> QED
  BY <1>1, <1>2, <1>3, <1>4, <1>5, <1>6 DEF Next

LEMMA StaysOrderly ==
  ASSUME Gentle
  PROVE  Spec => [](Types /\ InStep /\ Orderly)
<1>1. Init => Orderly
  BY InitOrderly
<1>2. Types /\ InStep /\ Orderly /\ [Next]_vars => Orderly'
  BY NextOrderly
<1> QED
  BY <1>1, <1>2, Locked, PTL DEF Spec

\* A connection to a server that refuses nothing in the middle of a request is
\* clean whenever the pool can lend it again (fire_done_func, handshake).
THEOREM CleanCorrect ==
  ASSUME Gentle
  PROVE  Spec => []ReturnedClean
<1>1. Types /\ InStep /\ Orderly => ReturnedClean
  BY DEF Types, EngineTypes, InStep, Orderly, ReturnedClean
<1> QED
  BY <1>1, StaysOrderly, PTL

\* The listener of such a connection is only given lines of what it asked for
\* (on_nntp_line); what the other servers do to it is the run session_stale.
THEOREM OwnLinesCorrect ==
  ASSUME Gentle
  PROVE  Spec => []OwnLines
<1>1. Types /\ InStep /\ Orderly => OwnLines
  BY DEF Orderly, OwnLines
<1> QED
  BY <1>1, StaysOrderly, PTL

-----------------------------------------------------------------------------
\* The group.

\* The session's group, once it has read what is unread.
SeenGroup == IF watch = "read" /\ ~text /\ inbox # <<>> /\ line.code = 211
             THEN line.group ELSE group

\* Every article follows the GROUP it belongs to, or is the next command while
\* that group, g, is selected.
Fit(s, g) ==
  \A i \in DOMAIN s : s[i].verb = "article" =>
    IF i = 1 THEN s[i].group = g
             ELSE s[i - 1].verb = "group" /\ s[i - 1].group = s[i].group

\* The same of a command and those behind it.
FitAfter(c, s, g) ==
  /\ c.verb = "article" => c.group = g
  /\ \A i \in DOMAIN s : s[i].verb = "article" =>
       IF i = 1 THEN c.verb = "group" /\ c.group = s[i].group
                ELSE s[i - 1].verb = "group" /\ s[i - 1].group = s[i].group

\* The codes that end a request, but for the one that wants a login.
Refusals == {400, 411, 430, 482, 502, 503}

InItsGroup ==
  conn = "up" =>
    /\ sgroup = SeenGroup
    /\ watch = "write" => IF wire.verb \in LoginVerbs
                          THEN Fit(commands, sgroup)
                          ELSE FitAfter(wire, commands, sgroup)
    /\ watch = "read" /\ text => Fit(commands, sgroup)
    /\ watch = "read" /\ ~text /\ inbox # <<>> =>
         /\ line.code = 480 => FitAfter(previous, commands, sgroup)
         /\ line.code \notin Refusals \cup {480} => Fit(commands, sgroup)

LEMMA FitNext ==
  ASSUME NEW q \in Seq(Command), q # <<>>, NEW g, Fit(q, g)
  PROVE  FitAfter(Head(q), Tail(q), g)
<1> DEFINE c == Head(q)
           s == Tail(q)
<1>1. /\ s \in Seq(Command) /\ Len(s) = Len(q) - 1 /\ c = q[1]
      /\ \A i \in 1..Len(s) : s[i] = q[i + 1]
  BY HeadTailProperties
<1>2. /\ Len(q) \in Nat \ {0} /\ DOMAIN q = 1..Len(q) /\ DOMAIN s = 1..Len(s)
  BY <1>1, EmptySeq, LenProperties
<1>3. 1 \in DOMAIN q /\ \A i \in DOMAIN s : i + 1 \in DOMAIN q /\ i \in Nat /\ i + 1 # 1
  BY <1>1, <1>2
<1>4. \A i \in DOMAIN s \ {1} : i - 1 \in DOMAIN s /\ s[i - 1] = q[i] /\ (i + 1) - 1 = i
  BY <1>1, <1>2
<1> HIDE DEF c, s
<1>5. c.verb = "article" => c.group = g
  BY <1>1, <1>3 DEF Fit
<1>6. ASSUME NEW i \in DOMAIN s, s[i].verb = "article"
      PROVE  IF i = 1 THEN c.verb = "group" /\ c.group = s[i].group
                      ELSE s[i - 1].verb = "group" /\ s[i - 1].group = s[i].group
  <2>1. s[i] = q[i + 1] /\ (i + 1) - 1 = i
    BY <1>1, <1>2
  <2>2. q[i].verb = "group" /\ q[i].group = s[i].group
    BY <1>3, <1>6, <2>1 DEF Fit
  <2>3. CASE i = 1
    BY <1>1, <2>2, <2>3
  <2>4. CASE i # 1
    <3>1. s[i - 1] = q[i]
      BY <1>4, <2>4
    <3> QED
      BY <2>2, <2>4, <3>1
  <2> QED
    BY <2>3, <2>4
<1>7. FitAfter(c, s, g)
  BY <1>5, <1>6 DEF FitAfter
<1> QED
  BY <1>7 DEF c, s

\* A command sent again is still in its place.
LEMMA FitAgain ==
  ASSUME NEW c \in Command, NEW s \in Seq(Command), NEW g, FitAfter(c, s, g)
  PROVE  Fit(<<c>> \o s, g)
<1> DEFINE q == <<c>> \o s
<1>1. /\ q \in Seq(Command) /\ Len(q) = Len(s) + 1 /\ q[1] = c
      /\ \A i \in DOMAIN q \ {1} : i - 1 \in DOMAIN s /\ q[i] = s[i - 1]
  BY CommandBefore
<1>2. Len(s) \in Nat /\ DOMAIN s = 1..Len(s) /\ DOMAIN q = 1..Len(q)
  BY <1>1, LenProperties
<1> HIDE DEF q
<1>3. ASSUME NEW i \in DOMAIN q, q[i].verb = "article"
      PROVE  IF i = 1 THEN q[i].group = g
                      ELSE q[i - 1].verb = "group" /\ q[i - 1].group = q[i].group
  <2>1. CASE i = 1
    BY <1>1, <1>3, <2>1 DEF FitAfter
  <2>2. CASE i = 2
    <3>1. 1 \in DOMAIN s /\ q[2] = s[1]
      BY <1>1, <2>2
    <3>2. c.verb = "group" /\ c.group = s[1].group
      BY <1>3, <2>2, <3>1 DEF FitAfter
    <3> QED
      BY <1>1, <2>2, <3>1, <3>2
  <2>3. CASE i # 1 /\ i # 2
    <3>1. i - 1 \in DOMAIN s /\ q[i] = s[i - 1] /\ i - 1 # 1
      BY <1>1, <1>2, <2>3
    <3>2. i - 1 \in DOMAIN q \ {1}
      BY <1>1, <1>2, <2>3
    <3>3. q[i - 1] = s[(i - 1) - 1]
      BY <1>1, <3>2
    <3>4. /\ s[(i - 1) - 1].verb = "group"
          /\ s[(i - 1) - 1].group = s[i - 1].group
      BY <1>3, <3>1 DEF FitAfter
    <3> QED
      BY <2>3, <3>1, <3>3, <3>4
  <2> QED
    BY <2>1, <2>2, <2>3
<1>4. Fit(q, g)
  BY <1>3 DEF Fit
<1> QED
  BY <1>4 DEF q

\* What is behind a command fits when it has been obeyed.
LEMMA FitThen ==
  ASSUME NEW c, NEW s, NEW g, FitAfter(c, s, g)
  PROVE  /\ c.verb # "group" => Fit(s, g)
         /\ c.verb = "group" => Fit(s, c.group)
<1>1. ASSUME NEW i \in DOMAIN s, s[i].verb = "article"
      PROVE  /\ i = 1 => c.verb = "group" /\ c.group = s[i].group
             /\ i # 1 => s[i - 1].verb = "group" /\ s[i - 1].group = s[i].group
  BY <1>1 DEF FitAfter
<1>2. c.verb # "group" => Fit(s, g)
  BY <1>1 DEF Fit
<1>3. c.verb = "group" => Fit(s, c.group)
  BY <1>1 DEF Fit
<1> QED
  BY <1>2, <1>3

\* What is written next is in its place.
Writes ==
  watch' = "write" => IF wire'.verb \in LoginVerbs
                      THEN Fit(commands', sgroup')
                      ELSE FitAfter(wire', commands', sgroup')

LEMMA WriteNextFits ==
  ASSUME NEW cs \in Seq(Command), cs # <<>>, Fit(cs, sgroup'), WriteNext(cs)
  PROVE  Writes
<1>1. wire' = Head(cs) /\ commands' = Tail(cs)
  BY WriteNextTypes
<1>2. FitAfter(wire', commands', sgroup')
  BY <1>1, FitNext
<1>3. wire'.verb \in LoginVerbs => Fit(commands', sgroup')
  BY <1>2, FitThen DEF LoginVerbs
<1> QED
  BY <1>2, <1>3 DEF Writes

LEMMA QueuedFits ==
  ASSUME NEW kind \in KINDS, NEW g \in Group \cup {None}, NEW r \in 1..MaxRequests
  PROVE  Fit(Queued(kind, g, r), group)
<1> DEFINE q == Queued(kind, g, r)
<1>1. ASSUME NEW c \in Command, c.verb = "article" => c.group = group,
             NEW p, p = <<c>>
      PROVE  Fit(p, group)
  BY <1>1, OneCommand DEF Fit
<1>2. CASE kind = "article"
  <2> DEFINE e == Cmd("group", g, r)
             a == Cmd("article", g, r)
  <2>1. /\ e \in Command /\ e.group = g /\ e.verb = "group"
        /\ a \in Command /\ a.group = g /\ a.verb = "article"
    BY CmdIsCommand DEF VERB
  <2>2. q = EnterGroup(g, r) \o <<a>>
    BY <1>2 DEF Queued
  <2> DEFINE s == <<a>>
  <2>3. s \in Seq(Command) /\ s[1] = a /\ DOMAIN s = {1}
    BY <2>1, OneCommand
  <2>4. CASE g = group
    <3>1. EnterGroup(g, r) = <<>>
      BY <2>4 DEF EnterGroup
    <3>2. q = s
      BY <2>2, <2>3, <3>1, ConcatEmptySeq
    <3>3. Fit(s, group)
      BY <1>1, <2>1, <2>4
    <3> QED
      BY <3>2, <3>3
  <2>5. CASE g # group
    <3>1. EnterGroup(g, r) = <<e>>
      BY <2>5 DEF EnterGroup
    <3>2. q = <<e>> \o s
      BY <2>2, <3>1
    <3> HIDE DEF e, a, s
    <3>3. FitAfter(e, s, group)
      BY <2>1, <2>3 DEF FitAfter
    <3>4. Fit(<<e>> \o s, group)
      BY <2>1, <2>3, <3>3, FitAgain
    <3> QED
      BY <3>2, <3>4
  <2> QED
    BY <2>4, <2>5
<1>3. CASE kind = "group"
  <2>1. q = <<Cmd("group", g, r)>>
    BY <1>3 DEF Queued
  <2> QED
    BY <1>1, <2>1, CmdIsCommand DEF VERB
<1>4. CASE kind = "noop"
  <2>1. q = <<Cmd("reader", None, r)>>
    BY <1>4 DEF Queued
  <2> QED
    BY <1>1, <2>1, CmdIsCommand DEF VERB
<1>5. CASE kind \in {"list", "post", "quit"}
  <2>1. q = <<Cmd(kind, None, r)>>
    BY <1>5 DEF Queued
  <2> QED
    BY <1>1, <1>5, <2>1, CmdIsCommand DEF VERB
<1> QED
  BY <1>2, <1>3, <1>4, <1>5 DEF KINDS

LEMMA InitInGroup == Init => InItsGroup
  BY DEF Init, InItsGroup, SeenGroup

LEMMA ConnectInGroup ==
  ASSUME Types, Connect
  PROVE  InItsGroup'
<1>1. requests' \in 1..MaxRequests
  <2>1. "handshake" \in KINDS \cup {"handshake"} /\ None \in Group \cup {None}
    OBVIOUS
  <2> QED
    BY <2>1, NewRequest DEF Connect
<1> DEFINE q == Handshake(requests')
<1>2. WriteNext(q)
  BY DEF Connect
<1>3. q \in Seq(Command) /\ q # <<>> /\ \A i \in DOMAIN q : q[i].verb # "article"
  BY <1>1, HelloIsOwn DEF OwnQueue
<1> HIDE DEF q
<1>4. Fit(q, sgroup')
  BY <1>3 DEF Fit
<1>5. Writes /\ watch' = "write"
  BY <1>2, <1>3, <1>4, WriteNextFits, WriteNextTypes
<1>6. sgroup' = group'
  BY DEF Connect
<1> QED
  BY <1>5, <1>6 DEF InItsGroup, SeenGroup, Writes

LEMMA AskInGroup ==
  ASSUME Types, Orderly, InItsGroup,
         NEW kind \in KIND, NEW g \in Group \cup {None}, Ask(kind, g)
  PROVE  InItsGroup'
<1>0. kind \in KINDS
  BY SessionAssumption
<1>1. requests' \in 1..MaxRequests
  BY <1>0, NewRequest DEF Ask
<1>2. commands = <<>> /\ watch = "ignore" /\ conn = "up"
  BY DEF Ask, Orderly
<1> DEFINE q == Queued(kind, g, requests')
<1>3. WriteNext(commands \o q)
  BY DEF Ask
<1>4. q \in Seq(Command) /\ q # <<>> /\ Fit(q, group)
  BY <1>0, <1>1, QueuedIsOwn, QueuedFits DEF OwnQueue
<1> HIDE DEF q
<1>5. commands \o q = q
  BY <1>2, <1>4, ConcatEmptySeq
<1>6. group' = group /\ sgroup' = group
  BY <1>2 DEF Ask, server, InItsGroup, SeenGroup
<1>7. Writes /\ watch' = "write"
  BY <1>3, <1>4, <1>5, <1>6, WriteNextFits, WriteNextTypes
<1> QED
  BY <1>6, <1>7 DEF InItsGroup, SeenGroup, Writes

LEMMA DoWriteInGroup ==
  ASSUME Types, InStep, Orderly, InItsGroup, DoWrite
  PROVE  InItsGroup'
<1>1. /\ wire \in Command /\ watch = "write" /\ watch' = "read"
      /\ conn = "up" /\ inbox = <<>> /\ ~text
  BY DEF Types, EngineTypes, InStep, DoWrite
<1>2. /\ group' = group /\ commands' = commands
      /\ previous' = previous /\ text' = text
  BY DEF DoWrite, session
<1>3. /\ sgroup = group
      /\ wire.verb \in LoginVerbs => Fit(commands, sgroup)
      /\ wire.verb \notin LoginVerbs => FitAfter(wire, commands, sgroup) /\ wire = previous
  BY <1>1 DEF InItsGroup, SeenGroup, Orderly, OwnWire
<1>4. PICK a \in Answers(wire) :
        /\ inbox' = inbox \o a
        /\ sgroup' = IF \E i \in DOMAIN a : a[i].code = 211 THEN wire.group ELSE sgroup
  BY DEF DoWrite
<1>5. GoodAnswer(wire, a)
  BY <1>1, AnswersAreGood
<1>6. inbox' = a
  BY <1>1, <1>4, <1>5, ConcatEmptySeq DEF GoodAnswer
<1>7. CASE a = <<>>
  <2>1. sgroup' = sgroup
    BY <1>4, <1>7
  <2> QED
    BY <1>1, <1>2, <1>3, <1>6, <1>7, <2>1 DEF InItsGroup, SeenGroup
<1>8. CASE a # <<>>
  <2> DEFINE l == Head(a)
             k == l.code
  <2>1. line' = l /\ l = a[1] /\ 1 \in DOMAIN a
    <3>1. a \in Seq(Line)
      BY <1>5 DEF GoodAnswer
    <3>2. Head(a) = a[1] /\ Len(a) \in Nat \ {0} /\ DOMAIN a = 1..Len(a)
      BY <1>8, <3>1, EmptySeq, HeadTailProperties, LenProperties
    <3> QED
      BY <1>6, <3>2 DEF line
  <2>2. \A i \in DOMAIN a : a[i].code = 211 => i = 1 /\ a[i].group = wire.group
    BY <1>5 DEF GoodAnswer
  <2>3. \/ k = 220 /\ wire.verb \in {"article", "list"}
        \/ k = 441 /\ wire.verb = "message"
        \/ Reply(wire, k)
    BY <1>5, <1>8 DEF GoodAnswer
  <2>4. wire.verb = "group" => k = 211 \/ k = 480 \/ k \in Refusals
    BY <2>3 DEF Reply, Refusals
  <2>5. /\ k = 211 => wire.verb = "group"
        /\ k = 480 => wire.verb \notin LoginVerbs
    BY <2>3 DEF Reply
  <2> HIDE DEF l, k
  <2>6. CASE k = 211
    <3>1. sgroup' = wire.group /\ l.group = wire.group
      BY <1>4, <2>1, <2>2, <2>6 DEF k
    <3>2. Fit(commands, sgroup')
      BY <1>3, <2>5, <2>6, <3>1, FitThen DEF LoginVerbs
    <3>3. SeenGroup' = l.group
      BY <1>1, <1>2, <1>6, <1>8, <2>1, <2>6 DEF SeenGroup, k
    <3>4. line'.code # 480
      BY <2>1, <2>6 DEF k
    <3> QED
      BY <1>1, <1>2, <3>1, <3>2, <3>3, <3>4 DEF InItsGroup
  <2>7. CASE k # 211
    <3>1. sgroup' = sgroup
      BY <1>4, <2>1, <2>2, <2>7 DEF k
    <3>2. SeenGroup' = group
      BY <1>2, <2>1, <2>7 DEF SeenGroup, k
    <3>3. k = 480 => FitAfter(previous, commands, sgroup)
      BY <1>3, <2>5
    <3>4. k \notin Refusals \cup {480} => Fit(commands, sgroup)
      BY <1>3, <2>4, <2>7, FitThen
    <3>5. line'.code = k
      BY <2>1 DEF k
    <3> QED
      BY <1>1, <1>2, <1>3, <3>1, <3>2, <3>3, <3>4, <3>5 DEF InItsGroup
  <2> QED
    BY <2>6, <2>7
<1> QED
  BY <1>7, <1>8

LEMMA ConcludeFits ==
  ASSUME Types, watch = "read", NEW gz, NEW state, Conclude(state, commands, gz),
         sgroup' = sgroup, state \in {"DONE", "MORE"} => Fit(commands, sgroup)
  PROVE  /\ Writes
         /\ watch' = "read" => state = "MORE" /\ Fit(commands', sgroup')
<1>1. CASE state = "DONE" /\ commands # <<>> /\ WriteNext(commands)
  <2>1. commands \in Seq(Command) /\ Fit(commands, sgroup')
    BY <1>1 DEF Types, EngineTypes
  <2>2. Writes /\ watch' = "write"
    BY <1>1, <2>1, WriteNextFits, WriteNextTypes
  <2> QED
    BY <2>2
<1>2. CASE state = "MORE" /\ commands' = commands /\ watch' = watch
  BY <1>2 DEF Writes
<1>3. ASSUME NEW health, FireDone(health)
      PROVE  watch' = "ignore"
  BY <1>3 DEF FireDone
<1> QED
  BY <1>1, <1>2, <1>3 DEF Conclude, Writes

LEMMA DoReadInGroup ==
  ASSUME Types, InStep, Orderly, InItsGroup, DoRead
  PROVE  InItsGroup'
<1>1. /\ watch = "read" /\ inbox # <<>> /\ inbox' = Tail(inbox) /\ sgroup' = sgroup
      /\ conn = "up" /\ previous \in Command /\ inbox \in Seq(Line)
      /\ commands \in Seq(Command)
  BY DEF DoRead, Types, EngineTypes, OtherTypes
<1>2. /\ sgroup = SeenGroup
      /\ text => Fit(commands, sgroup)
      /\ ~text => /\ line.code = 480 => FitAfter(previous, commands, sgroup)
                  /\ line.code \notin Refusals \cup {480} => Fit(commands, sgroup)
  BY <1>1 DEF InItsGroup
<1>3. ASSUME Writes, sgroup = group',
             watch' = "read" => Fit(commands', sgroup') /\ (text' \/ inbox' = <<>>)
      PROVE  InItsGroup'
  BY <1>1, <1>3 DEF InItsGroup, Writes, SeenGroup
<1>4. CASE ReadText
  <2>1. text /\ group' = group /\ sgroup = group
    BY <1>2, <1>4 DEF ReadText, SeenGroup
  <2>2. CASE EndsText
    <3>1. Conclude("DONE", commands, FALSE)
      BY <1>4, <2>2 DEF ReadText
    <3>2. Writes /\ (watch' = "read" => "DONE" = "MORE")
      BY <1>1, <1>2, <2>1, <3>1, ConcludeFits
    <3> QED
      BY <1>3, <2>1, <3>2
  <2>3. CASE ~EndsText
    <3>1. text' /\ Conclude("MORE", commands, compression)
      BY <1>4, <2>3 DEF ReadText
    <3>2. Writes /\ (watch' = "read" => Fit(commands', sgroup'))
      BY <1>1, <1>2, <2>1, <3>1, ConcludeFits
    <3> QED
      BY <1>3, <2>1, <3>1, <3>2
  <2> QED
    BY <2>2, <2>3
<1>5. CASE ReadStatus
  <2>1. /\ ~text /\ ~Interposes
        /\ text' = (State(line.code) = "MORE")
        /\ Conclude(State(line.code), commands, compression \/ line.says = "gzip")
        /\ group' = GroupAfter
    BY <1>5 DEF ReadStatus
  <2>2. group' = sgroup
    BY <1>1, <1>2, <2>1 DEF GroupAfter, SeenGroup
  <2>3. line.code \in Refusals \cup {480} => State(line.code) \notin {"DONE", "MORE"}
    BY DEF State, Refusals
  <2>4. State(line.code) \in {"DONE", "MORE"} => Fit(commands, sgroup)
    BY <1>2, <2>1, <2>3
  <2>5. /\ Writes
        /\ watch' = "read" => State(line.code) = "MORE" /\ Fit(commands', sgroup')
    BY <1>1, <2>1, <2>4, ConcludeFits
  <2> QED
    BY <1>3, <2>1, <2>2, <2>5
<1>6. CASE ReadAuth
  <2>1. ~text /\ Interposes /\ group' = group /\ line.code \in {480, 381, 281, 340}
    BY <1>6 DEF ReadAuth, Interposes
  <2>2. sgroup = group'
    BY <1>2, <2>1 DEF SeenGroup
  <2>3. ASSUME NEW verb \in LoginVerbs, NEW cs, Interpose(verb, cs), Fit(cs, sgroup)
        PROVE  InItsGroup'
    <3>1. /\ wire' = Cmd(verb, None, listener.id) /\ commands' = cs /\ watch' = "write"
      BY <2>3 DEF Interpose, Write
    <3>2. wire'.verb = verb
      BY <3>1 DEF Cmd
    <3>3. Writes
      BY <1>1, <2>3, <3>1, <3>2 DEF Writes
    <3> QED
      BY <1>3, <2>2, <3>1, <3>3
  <2>4. CASE line.code = 480
    <3>1. Interpose("user", <<previous>> \o commands)
      BY <1>6, <2>4 DEF ReadAuth
    <3>2. Fit(<<previous>> \o commands, sgroup)
      BY <1>1, <1>2, <2>1, <2>4, FitAgain
    <3> QED
      BY <2>3, <3>1, <3>2 DEF LoginVerbs
  <2>5. CASE line.code \in {381, 281, 340}
    <3>1. line.code = 381 => Interpose("pass", commands)
      BY <1>6 DEF ReadAuth
    <3>2. line.code = 281 => Interpose("xfeature", commands)
      BY <1>6 DEF ReadAuth
    <3>3. line.code = 340 => Interpose("message", commands)
      BY <1>6 DEF ReadAuth
    <3>4. Fit(commands, sgroup)
      BY <1>2, <2>1, <2>5 DEF Refusals
    <3> QED
      BY <2>3, <2>5, <3>1, <3>2, <3>3, <3>4 DEF LoginVerbs
  <2> QED
    BY <2>1, <2>4, <2>5
<1>7. CASE ReadUnassigned
  <2>1. ~text /\ Unassigned /\ commands = <<>> /\ group' = group
    BY <1>1, <1>7 DEF ReadUnassigned, Unassigned, Orderly, OwnAnswer
  <2>2. inbox' = <<>>
    <3>1. Whole(inbox) /\ line.code \notin MoreCodes
      BY <1>1, <2>1 DEF InStep, Unassigned, MoreCodes
    <3> QED
      BY <1>1, <3>1, WholeTail DEF line
  <2>3. sgroup = group'
    BY <1>2, <2>1 DEF SeenGroup, Unassigned
  <2>4. Fit(commands, sgroup)
    BY <2>1 DEF Fit
  <2>5. CASE \E state \in {"DONE", "FAIL", "RETRY", "MORE"} :
               Conclude(state, commands, compression)
    <3>1. Writes /\ (watch' = "read" => Fit(commands', sgroup'))
      BY <1>1, <2>4, <2>5, ConcludeFits
    <3> QED
      BY <1>3, <2>2, <2>3, <3>1
  <2>6. CASE watch' = "ignore"
    <3>1. Writes
      BY <2>6 DEF Writes
    <3> QED
      BY <1>3, <2>3, <2>6, <3>1
  <2> QED
    BY <1>7, <2>5, <2>6 DEF ReadUnassigned
<1> QED
  BY <1>4, <1>5, <1>6, <1>7 DEF DoRead

LEMMA NextInGroup ==
  Types /\ InStep /\ Orderly /\ InItsGroup /\ [Next]_vars => InItsGroup'
<1> SUFFICES ASSUME Types, InStep, Orderly, InItsGroup, [Next]_vars PROVE InItsGroup'
  OBVIOUS
<1>1. CASE Connect
  BY <1>1, ConnectInGroup
<1>2. ASSUME NEW kind \in KIND, NEW g \in Group \cup {None}, Ask(kind, g)
      PROVE  InItsGroup'
  BY <1>2, AskInGroup
<1>3. CASE DoWrite
  BY <1>3, DoWriteInGroup
<1>4. CASE DoRead
  BY <1>4, DoReadInGroup
<1>5. CASE SocketError \/ Timeout
  <2>1. conn' = "down"
    BY <1>5, FailLocked DEF SocketError, Timeout
  <2> QED
    BY <2>1 DEF InItsGroup
<1>6. CASE UNCHANGED vars
  <2>1. UNCHANGED <<conn, commands, previous, wire, watch>>
    BY <1>6 DEF vars, session
  <2>2. UNCHANGED <<group, text, inbox, sgroup>>
    BY <1>6 DEF vars, session, server
  <2> QED
    BY <2>1, <2>2 DEF InItsGroup, SeenGroup, line
<1> QED
  BY <1>1, <1>2, <1>3, <1>4, <1>5, <1>6 DEF Next

\* An article is asked for, by its number, in the group the number belongs to,
\* through logins, failures and repeated commands (enter_group, article).
THEOREM ArticleInItsGroupCorrect ==
  ASSUME Gentle
  PROVE  Spec => []ArticleInItsGroup
<1>1. Init => InItsGroup
  BY InitInGroup
<1>2. Types /\ InStep /\ Orderly /\ InItsGroup /\ [Next]_vars => InItsGroup'
  BY NextInGroup
<1>3. Types /\ InItsGroup => ArticleInItsGroup
  BY DEF Types, EngineTypes, InItsGroup, FitAfter, ArticleInItsGroup, LoginVerbs
<1> QED
  BY <1>1, <1>2, <1>3, StaysOrderly, PTL DEF Spec

=============================================================================
