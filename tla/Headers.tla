------------------------------ MODULE Headers -------------------------------
(***************************************************************************)
(* The headers of one group in memory (pan/data-impl/headers.cc), the      *)
(* batches in which a header task delivers them (xover.cc), and the tree   *)
(* that the header pane shows of them (my-tree.cc).  Headers arrive in any *)
(* order: the parts of a post are gathered in one article, and articles    *)
(* are threaded by References that may name articles that have not come,   *)
(* leave out ancestors, or be wrong.                                       *)
(***************************************************************************)
EXTENDS Integers, FiniteSets, FiniteSetsExt, Sequences, SequencesExt

CONSTANTS MID,        \* the message-ids of headers, as numbers
          None,
          Post,       \* the subject, author and part count of each
          PARTS,      \* how many parts each post has
          REFS,       \* the References that a header may have
          MaxTasks,   \* bound on the header tasks of the group
          IGNORED,    \* the articles with the lowest score
          VIEWS       \* the filters that the user may choose, each with what to
                      \* show of the articles that match (Data::ShowType)

ASSUME HeadersAssumption ==
  /\ MID \subseteq Nat /\ IsFiniteSet(MID) /\ None \notin MID
  /\ \A m \in MID : PARTS[Post[m]] \in Nat \ {0}
  /\ MaxTasks \in Nat
  /\ REFS \in [MID -> SUBSET Seq(MID)] /\ IGNORED \subseteq MID
  /\ VIEWS \subseteq {"none", "all", "complete"} \X {"ARTICLES", "THREADS", "SUBTHREADS"}

VARIABLES
  article,  \* the parts of each ArticleNode's article; none, no article
  graph,    \* GroupHeaders::_nodes: _parent and _children
  work,     \* XOverEntry
  tree,     \* MyTree, while the group is open
  moved     \* nodes that References have moved since the tree was made

vars == <<article, graph, work, tree, moved>>

Blank == [parent |-> [m \in MID |-> None], kids |-> [m \in MID |-> {}]]
Closed == [open |-> FALSE, view |-> <<"all", "ARTICLES">>, nodes |-> {},
           parent |-> Blank.parent, kids |-> Blank.kids]

NoWork == [refs |-> 0, flushed |-> FALSE, lookup |-> {}, added |-> {}, changed |-> {}]

Init == /\ article = [m \in MID |-> {}]
        /\ graph = Blank
        /\ work = NoWork
        /\ tree = Closed
        /\ moved = {}

HasArticle(art) == {m \in MID : art[m] # {}}
Articles == HasArticle(article)

\* One node further up.
Climb(parent, path) ==
  LET top == Last(path)
  IN  IF parent[top] = None THEN path ELSE Append(path, parent[top])

\* The nodes above n, the nearest first (no more than there are, if the
\* parents make a circle).
Above(parent, n) ==
  LET climbed[i \in 0..Cardinality(MID)] ==
        IF i = 0 THEN <<n>> ELSE Climb(parent, climbed[i - 1])
  IN  Tail(climbed[Cardinality(MID)])

Ancestors(parent, n) == ToSet(Above(parent, n))
Descendants(parent, S) == {n \in MID : n \in S \/ Ancestors(parent, n) \cap S # {}}

\* The nearest ancestor of n that is in the set.
Closest(parent, n, S) ==
  LET path == Above(parent, n)
      i == SelectInSeq(path, LAMBDA m : m \in S)
  IN  IF i = 0 THEN None ELSE path[i]

----------------------------------------------------------------------------
(* Threading.                                                              *)

\* n becomes a child of new, unless that closes a circle.
Link(acc, new) ==
  LET g == acc.graph
      parent == [g.parent EXCEPT ![acc.node] = new]
  IN  IF new \in Ancestors(parent, new)
      THEN [acc EXCEPT !.graph.parent[acc.node] = None, !.done = TRUE]
      ELSE [acc EXCEPT !.graph = [parent |-> parent,
                                  kids |-> [g.kids EXCEPT ![new] = @ \cup {acc.node}]],
                       !.node = new]

\* The old parent keeps the child.
BadUnlink(acc) == [acc EXCEPT !.graph.parent[acc.node] = None]

Unlink(acc) ==
  LET g == acc.graph
      old == g.parent[acc.node]
  IN  [acc EXCEPT !.graph = [parent |-> [g.parent EXCEPT ![acc.node] = None],
                             kids |-> [g.kids EXCEPT ![old] = @ \ {acc.node}]]]

\* One of the References on the way up; before are those not yet looked at.
Visit(acc, new, before) ==
  LET old == acc.graph.parent[acc.node]
  IN  IF acc.done THEN acc
      ELSE IF old = None THEN Link(acc, new)
      ELSE IF new \in Ancestors(acc.graph.parent, acc.node)
      THEN [acc EXCEPT !.node = new]
      ELSE IF old \in ToSet(before) THEN Link(Unlink(acc), new)
      ELSE acc

\* load_article: the References from the last to the first.
Thread(g, m, refs) ==
  LET visited[i \in 0..Len(refs)] ==
        IF i = 0 THEN [graph |-> g, node |-> m, done |-> FALSE]
        ELSE LET left == Len(refs) - i
             IN  Visit(visited[i - 1], refs[left + 1], SubSeq(refs, 1, left))
  IN  visited[Len(refs)].graph

----------------------------------------------------------------------------
(* The tree.  art is the group's articles and g their graph.               *)

\* Only the new articles are given their place.
BadTreeAdd(t, g, nodes) ==
  LET new == nodes \ t.nodes
      all == t.nodes \cup new
      parent == [n \in MID |-> IF n \in new THEN Closest(g.parent, n, all)
                               ELSE t.parent[n]]
  IN  [t EXCEPT !.nodes = all, !.parent = parent,
                !.kids = [p \in MID |-> @[p] \cup {n \in new : parent[n] = p}]]

\* add_articles: each new article hangs under its closest ancestor in the
\* tree, and its descendants in the tree under theirs.
TreeAdd(t, g, nodes) ==
  LET new == nodes \ t.nodes
      all == t.nodes \cup new
      touched == all \cap Descendants(g.parent, new)
      parent == [n \in MID |-> IF n \in touched THEN Closest(g.parent, n, all)
                               ELSE t.parent[n]]
  IN  IF new = {} THEN t ELSE
      [t EXCEPT
        !.nodes = all, !.parent = parent,
        !.kids = [p \in MID |-> {n \in @[p] : n \in touched => parent[n] = p}
                                \cup {n \in touched : parent[n] = p}]]

\* remove_articles: the children of those that go move up.
TreeRemove(t, mids) ==
  LET gone == mids \cap t.nodes
      left == t.nodes \ gone
      orphans == {n \in left : t.parent[n] \in gone}
      parent == [n \in MID |-> IF n \in gone THEN None
                               ELSE IF n \in orphans THEN Closest(t.parent, n, left)
                               ELSE t.parent[n]]
  IN  IF gone = {} THEN t ELSE
      [t EXCEPT
        !.nodes = left, !.parent = parent,
        !.kids = [p \in MID |-> IF p \in gone THEN {}
                                ELSE (@[p] \ gone) \cup {n \in orphans : parent[n] = p}]]

Matches(t, art, m) ==
  t.view[1] = "complete" => Cardinality(art[m]) = PARTS[Post[m]]

\* apply_filter.  Without a filter, the candidates are not asked whether they
\* have an article.
ApplyFilter(t, art, g, candidates) ==
  LET tested == candidates \cap HasArticle(art)
      pass == IF t.view[1] = "none" THEN candidates
              ELSE {m \in tested : Matches(t, art, m)}
      fail == IF t.view[1] = "none" THEN {} ELSE tested \ pass
      roots == IF t.view[2] = "THREADS"
               THEN {Last(<<m>> \o Above(g.parent, m)) : m \in pass} ELSE pass
      threads == Descendants(g.parent, roots) \cap HasArticle(art)
      kept == {m \in threads : m \notin IGNORED \/ Matches(t, art, m)}
  IN  IF t.view[2] = "ARTICLES" THEN TreeRemove(TreeAdd(t, g, pass), fail)
      ELSE TreeRemove(TreeAdd(t, g, kept), (fail \cup threads) \ kept)

\* The tree of these articles in a group that is open.
Refilter(t, art, g, mids) ==
  IF t.open /\ mids # {} THEN ApplyFilter(t, art, g, mids) ELSE t

----------------------------------------------------------------------------
(* Headers arrive.                                                         *)

\* An article that got a part is not asked again.
BadFlushed(t, art, g, added, changed) == Refilter(t, art, g, added)

\* xover_flush: first the articles that are new, then those that got a part.
Flushed(t, art, g, added, changed) ==
  Refilter(Refilter(t, art, g, added), art, g, changed)

\* Parts that were known before the task are not looked for.
BadXoverRef ==
  /\ work.refs < MaxTasks
  /\ work' = [work EXCEPT !.refs = @ + 1]
  /\ UNCHANGED <<article, graph, tree, moved>>

\* xover_ref, which looks for the posts that later parts may belong to.
XoverRef ==
  /\ work.refs < MaxTasks
  /\ work' = [work EXCEPT !.refs = @ + 1,
                          !.lookup = @ \cup {m \in Articles : PARTS[Post[m]] > 1}]
  /\ UNCHANGED <<article, graph, tree, moved>>

\* xover_unref
XoverUnref ==
  /\ work.refs > 0
  /\ IF work.refs > 1 THEN work' = [work EXCEPT !.refs = @ - 1] /\ UNCHANGED tree
     ELSE /\ work' = NoWork
          /\ tree' = Flushed(tree, article, graph, work.added, work.changed)
  /\ UNCHANGED <<article, graph, moved>>

\* The articles that have other parts of the post of m.
Gathered(m) ==
  {c \in Articles \cap work.lookup : Post[c] = Post[m]}

\* A node that is shown or has children, and another parent in g.
Moves(g, n) ==
  /\ n \in tree.nodes \/ graph.kids[n] # {}
  /\ g.parent[n] # graph.parent[n]

\* xover_add, which flushes if the last time is long ago, or never.
XoverAdd(m, refs, flush) ==
  LET isNew == Gathered(m) = {} /\ article[m] = {}
      a == IF Gathered(m) = {} THEN m ELSE Min(Gathered(m))
      art == [article EXCEPT ![a] = @ \cup {m}]
      g == IF isNew THEN Thread(graph, m, refs) ELSE graph
      added == work.added \cup IF isNew THEN {m} ELSE {}
      changed == work.changed \cup IF a \in added THEN {} ELSE {a}
  IN  /\ work.refs > 0
      /\ ~flush => work.flushed
      /\ article' = art /\ graph' = g
      /\ moved' = IF tree.open THEN moved \cup {n \in MID : Moves(g, n)} ELSE {}
      /\ tree' = IF flush THEN Flushed(tree, art, g, added, changed) ELSE tree
      /\ work' = [work EXCEPT
           !.flushed = TRUE,
           !.lookup = @ \cup {c \in {a} : PARTS[Post[c]] > 1},
           !.added = IF flush THEN {} ELSE added,
           !.changed = IF flush THEN {} ELSE changed]

----------------------------------------------------------------------------
(* The user.                                                               *)

\* The header pane opens the group.
Open(view) ==
  /\ ~tree.open
  /\ tree' = ApplyFilter([Closed EXCEPT !.open = TRUE, !.view = view],
                         article, graph, Articles)
  /\ moved' = {}
  /\ UNCHANGED <<article, graph, work>>

Close == /\ tree.open /\ tree' = Closed /\ moved' = {}
         /\ UNCHANGED <<article, graph, work>>

\* set_filter
SetFilter(view) ==
  /\ tree.open
  /\ tree' = ApplyFilter([tree EXCEPT !.view = view],
                         article, graph, Articles)
  /\ UNCHANGED <<article, graph, work, moved>>

\* delete_articles.  The nodes stay, for the threads that pass through them.
DeleteArticles(S) ==
  /\ article' = [m \in MID |-> IF m \in S THEN {} ELSE article[m]]
  /\ tree' = IF tree.open THEN TreeRemove(tree, S) ELSE tree
  /\ UNCHANGED <<graph, work, moved>>

\* The user deletes an article that is shown.
Delete(m) == m \in tree.nodes /\ DeleteArticles({m})

\* group_clear_articles
Clear == Articles # {} /\ DeleteArticles(Articles)

\* Only the ancestors that have an article are written.
BadReferences(m) == SelectSeq(Reverse(Above(graph.parent, m)), LAMBDA n : n \in Articles)

\* build_references_header
References(m) == Reverse(Above(graph.parent, m))

\* load_headers
Loaded(mids) ==
  LET loaded[i \in 0..Len(mids)] ==
        IF i = 0 THEN Blank
        ELSE Thread(loaded[i - 1], mids[i], References(mids[i]))
  IN  loaded[Len(mids)]

\* The last user of the group goes, its headers are saved in any order, each
\* with the References that its node's ancestors make, and another user loads
\* them.
Reload ==
  /\ ~tree.open /\ work.refs = 0
  /\ \E mids \in SetToSeqs(Articles) : graph' = Loaded(mids)
  /\ UNCHANGED <<article, work, tree, moved>>

Next == \/ XoverRef \/ XoverUnref \/ Close \/ Reload
        \/ \E m \in MID, flush \in BOOLEAN : \E refs \in REFS[m] : XoverAdd(m, refs, flush)
        \/ \E view \in VIEWS : Open(view) \/ SetFilter(view)
        \/ Clear \/ \E m \in MID : Delete(m)

Spec == Init /\ [][Next]_vars

----------------------------------------------------------------------------

Acyclic(parent) == \A n \in MID : n \notin Ancestors(parent, n)

\* Parents and children agree, and are among the nodes.
Linked(g, nodes) ==
  /\ \A n, p \in MID : n \in g.kids[p] <=> g.parent[n] = p
  /\ \A n \in MID : g.parent[n] # None => n \in nodes /\ g.parent[n] \in nodes

\* Neither n nor a node above it was moved by References that came while the
\* tree was open, of which the tree is not told.
Settled(n) == ({n} \cup Ancestors(graph.parent, n)) \cap moved = {}

\* Whatever the References say and in whatever order they come, each node is
\* the child of its parent and of no other, in the group and in the tree; no
\* node is its own ancestor in the group, and in the tree none is that has
\* only settled nodes above it.
ForestSound ==
  /\ Acyclic(graph.parent) /\ Linked(graph, MID) /\ Linked(tree, tree.nodes)
  /\ \A n \in MID : n \in Ancestors(tree.parent, n) =>
       \E k \in Ancestors(tree.parent, n) : ~Settled(k)

\* No node is its own ancestor in the tree.
\* (What the code does instead: README, section 6.)
TreeAcyclic == Acyclic(tree.parent)

\* The tree has articles only: what it is told of in a batch still has the
\* article that it had when it was put there, as rescore() takes care of.
\* (What the code does instead: README, section 6.)
NoNullArticle == tree.nodes \subseteq Articles

Pending == work.added \cup work.changed

\* Between batches an article that matches is in the tree, in each mode, and
\* one that does not is not, when only the articles that match are shown.
ShownMatches ==
  tree.open =>
    /\ {m \in Articles \ Pending : Matches(tree, article, m)} \subseteq tree.nodes
    /\ tree.view[2] = "ARTICLES" =>
         \A m \in tree.nodes \ Pending : Matches(tree, article, m)

\* An article in the tree hangs under the closest of its ancestors that is
\* in the tree, although these came before and after it, were deleted and
\* filtered out; but for those below a node that References have moved.
ClosestShown ==
  tree.open => \A n \in tree.nodes :
    Settled(n) => tree.parent[n] = Closest(graph.parent, n, tree.nodes)

\* The parts of a post are gathered in one article, although they come in
\* several tasks, and articles are deleted between them.
PartsTogether ==
  \A a, b \in Articles : a # b /\ Post[a] = Post[b] => PARTS[Post[a]] = 1

\* Saving and loading the headers changes no article's thread.
ReloadKeepsThreads ==
  [][Reload => \A m \in Articles : Above(graph'.parent, m) = Above(graph.parent, m)]_vars
=============================================================================
