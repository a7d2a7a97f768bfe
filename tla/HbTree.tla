------------------------------- MODULE HbTree -------------------------------
(***************************************************************************)
(* The height-balanced tree of logged-in users, serverHandlers/hb_tree.c.  *)
(* The heap of hb_node_t is one record: a function per field over the node *)
(* addresses.  Every function of the file runs to completion inside one    *)
(* event of the single-threaded server, so each is one action; a step that *)
(* would dereference NULL sets fault, where the process dies of SIGSEGV.   *)
(* tree->count and tree->rotation_count are written but never read, and    *)
(* are left out.                                                           *)
(***************************************************************************)
EXTENDS Integers, Sequences, SequencesExt, FiniteSets, FiniteSetsExt

CONSTANTS
  Keys,      \* user names; str_cmp_func orders them as < orders integers
  Fds,       \* socket descriptors
  Nodes,     \* addresses malloc can return for an hb_node_t
  NULL,
  BalJunk    \* what malloc may have left in the byte that holds node->bal

ASSUME HbTreeAssumption ==
  /\ Keys \subseteq Int
  /\ Nodes \subseteq Nat /\ IsFiniteSet(Nodes)
  /\ NULL \notin Nodes
  /\ BalJunk \subseteq -128..127

VARIABLE tree

Side == {"llink", "rlink"}
Ptr  == Nodes \cup {NULL}
Char == -128..127       \* signed char

Tree == [ root   : Ptr,
          live   : SUBSET Nodes,           \* allocated nodes
          key    : [Nodes -> Keys \cup {NULL}],
          fd     : [Nodes -> Fds \cup {NULL}],
          parent : [Nodes -> Ptr],
          link   : [Side -> [Nodes -> Ptr]],
          bal    : [Nodes -> Char],
          fault  : BOOLEAN ]

-----------------------------------------------------------------------------
(* Rotations.                                                              *)

Other(s) == IF s = "llink" THEN "rlink" ELSE "llink"

\* Assignment to a signed char keeps the low eight bits.
SChar(x) == ((x + 128) % 256) - 128

Least(a, b) == IF a < b THEN a ELSE b     \* MIN
Most(a, b)  == IF a > b THEN a ELSE b     \* MAX

Segv(t) == [t EXCEPT !.fault = TRUE]

SetBal(t, n, b) == [t EXCEPT !.bal[n] = SChar(b)]

\* Faulty variant: the inner child keeps n's child as its parent.
Raise_InnerOrphan(t, n, s) ==
  LET m     == t.link[s][n]
      p     == t.parent[n]
      inner == t.link[Other(s)][m]
  IN  [t EXCEPT !.root   = IF p = NULL THEN m ELSE @,
                !.link   = [x \in Side |-> [y \in Nodes |->
                              IF y = n /\ x = s THEN inner
                              ELSE IF y = m /\ x = Other(s) THEN n
                              ELSE IF y = p /\ @[x][y] = n THEN m ELSE @[x][y]]],
                !.parent = [@ EXCEPT ![n] = m, ![m] = p]]

\* The child m of n on side s takes n's place and n becomes its child on the
\* other side; m's inner child moves over to n.
Raise(t, n, s) ==
  LET m     == t.link[s][n]
      p     == t.parent[n]
      inner == t.link[Other(s)][m]
      NewLink(x, y) ==
        CASE y = n /\ x = s        -> inner
          [] y = m /\ x = Other(s) -> n
          [] y = p /\ t.link[x][y] = n -> m
          [] OTHER                 -> t.link[x][y]
      NewParent(y) ==
        CASE y = n     -> m
          [] y = m     -> p
          [] y = inner -> n
          [] OTHER     -> t.parent[y]
  IN  [t EXCEPT !.root   = IF p = NULL THEN m ELSE @,
                !.link   = [x \in Side |-> [y \in Nodes |-> NewLink(x, y)]],
                !.parent = [y \in Nodes |-> NewParent(y)]]

CanRotate(t, n, s) == ~t.fault /\ n # NULL /\ t.link[s][n] # NULL

rotate_right(t, n) ==
  IF ~CanRotate(t, n, "llink") THEN Segv(t)
  ELSE LET nl == t.link["llink"][n]
           nb == SChar(t.bal[n] + 1 - Least(t.bal[nl], 0))
       IN  SetBal(SetBal(Raise(t, n, "llink"), n, nb),
                  nl, t.bal[nl] + 1 + Most(nb, 0))

rotate_left(t, n) ==
  IF ~CanRotate(t, n, "rlink") THEN Segv(t)
  ELSE LET nr == t.link["rlink"][n]
           nb == SChar(t.bal[n] - 1 - Most(t.bal[nr], 0))
       IN  SetBal(SetBal(Raise(t, n, "rlink"), n, nb),
                  nr, t.bal[nr] - 1 + Least(nb, 0))

\* What both rotations return: whether the subtree's height changed.
HeightChanged(t, n, s) == t.bal[t.link[s][n]] # 0

-----------------------------------------------------------------------------
(* Walks down the tree.                                                    *)

\* The nodes passed by a walk from the root that leaves n on side turn[n] and
\* ends at a NULL link, or at a node where turn says "stop".
Walk(t, from, turn) ==
  LET go[n \in t.live \cup {NULL}] ==
        IF n = NULL THEN <<>>
        ELSE IF turn[n] = "stop" THEN <<n>>
        ELSE <<n>> \o go[t.link[turn[n]][n]]
  IN  go[from]

\* Insertion sends an equal key to the right: names are not unique.
InsertTurn(t, k, n) == IF k < t.key[n] THEN "llink" ELSE "rlink"

\* Faulty variant: the two sides of a comparison are swapped.
FindTurn_Swapped(t, k, n) ==
  IF k < t.key[n] THEN "rlink" ELSE IF k > t.key[n] THEN "llink" ELSE "stop"

FindTurn(t, k, n) ==
  IF k < t.key[n] THEN "llink" ELSE IF k > t.key[n] THEN "rlink" ELSE "stop"

\* The node at which a search for k stops, NULL if it falls off the tree.
Find(t, k) ==
  LET path == Walk(t, t.root, [n \in t.live |-> FindTurn(t, k, n)])
  IN  IF path # <<>> /\ t.key[Last(path)] = k THEN Last(path) ELSE NULL

hb_tree_search(t, k) == IF Find(t, k) = NULL THEN -1 ELSE t.fd[Find(t, k)]

-----------------------------------------------------------------------------
(* Insertion.                                                              *)

\* new_node(): every field but bal is assigned.  The node becomes the child
\* of parent on side s, or the root.
NewNode(t, x, k, f, junk, parent, s) ==
  [t EXCEPT !.live      = @ \cup {x},
            !.key[x]    = k,
            !.fd[x]     = f,
            !.bal[x]    = junk,
            !.parent[x] = parent,
            !.root      = IF parent = NULL THEN x ELSE @,
            !.link      = [y \in Side |-> [n \in Nodes |->
                             IF n = x THEN NULL
                             ELSE IF n = parent /\ y = s THEN x
                             ELSE @[y][n]]]]

\* The last node of the path whose balance is not zero, and what of the path
\* (ending with the new node) lies below it.
Pivot(t, path) ==
  LET leaning == {i \in DOMAIN path : t.bal[path[i]] # 0}
  IN  IF leaning = {} THEN 0 ELSE Max(leaning)

\* The nodes between the pivot and the new node now lean towards it.
Lean(t, below) ==
  [t EXCEPT !.bal = [n \in Nodes |->
     IF n \in ToSet(Front(below))
     THEN IF \E i \in 1..Len(below) - 1 :
               below[i] = n /\ t.link["rlink"][n] = below[i + 1]
          THEN 1 ELSE -1
     ELSE @[n]]]

\* Faulty variant: a child that leans the other way is not rotated first.
RebalanceAt_Single(t, q, s) ==
  LET t1 == SetBal(t, q, t.bal[q] + IF s = "llink" THEN -1 ELSE 1)
  IN  CASE s = "llink" /\ t1.bal[q] = -2 -> rotate_right(t1, q)
        [] s = "rlink" /\ t1.bal[q] = 2  -> rotate_left(t1, q)
        [] OTHER -> t1

\* The pivot q has one more level on side s; an excess of two is rotated away.
RebalanceAt(t, q, s) ==
  LET b     == t.bal[q] + IF s = "llink" THEN -1 ELSE 1
      t1    == SetBal(t, q, b)
      child == t.link[s][q]
  IN  CASE s = "llink" /\ t1.bal[q] = -2 ->
             rotate_right(IF t1.bal[child] > 0 THEN rotate_left(t1, child) ELSE t1, q)
        [] s = "rlink" /\ t1.bal[q] = 2 ->
             rotate_left(IF t1.bal[child] < 0 THEN rotate_right(t1, child) ELSE t1, q)
        [] OTHER -> t1

hb_tree_insert(t, x, k, f, junk) ==
  LET path   == Walk(t, t.root, [n \in t.live |-> InsertTurn(t, k, n)])
      parent == IF path = <<>> THEN NULL ELSE Last(path)
      s      == IF parent = NULL THEN "llink" ELSE InsertTurn(t, k, parent)
      t1     == NewNode(t, x, k, f, junk, parent, s)
      qi     == Pivot(t, path)
      below  == SubSeq(path, qi + 1, Len(path)) \o <<x>>
      t2     == Lean(t1, below)
      q      == path[qi]
  IN  IF qi = 0 THEN t2
      ELSE RebalanceAt(t2, q, IF t2.link["llink"][q] = below[1] THEN "llink" ELSE "rlink")

-----------------------------------------------------------------------------
(* Removal.                                                                *)

\* Faulty variant: the child itself, without the walk to the neighbour.
Neighbour_Child(t, n) == t.link[IF t.bal[n] > 0 THEN "rlink" ELSE "llink"][n]

\* A node with two children gives its place to a neighbour in key order: the
\* successor when it leans right, the predecessor otherwise.
Neighbour(t, n) ==
  LET s == IF t.bal[n] > 0 THEN "rlink" ELSE "llink"
  IN  Last(Walk(t, t.link[s][n], [m \in t.live |-> Other(s)]))

HasBoth(t, n) == \A s \in Side : t.link[s][n] # NULL

\* Faulty variants: the names, or the descriptors, stay where they were.
SwapEntries_KeepKey(t, n, out) ==
  [t EXCEPT !.fd = [@ EXCEPT ![n] = t.fd[out], ![out] = t.fd[n]]]

SwapEntries_KeepFd(t, n, out) ==
  [t EXCEPT !.key = [@ EXCEPT ![n] = t.key[out], ![out] = t.key[n]]]

\* The neighbour out carries n's name and descriptor away, n keeps out's.
SwapEntries(t, n, out) ==
  [t EXCEPT !.key = [@ EXCEPT ![n] = t.key[out], ![out] = t.key[n]],
            !.fd  = [@ EXCEPT ![n] = t.fd[out],  ![out] = t.fd[n]]]

\* Faulty variant: the node is cleared but never given back to the heap.
Unlink_Leak(t, d, child) ==
  LET p == t.parent[d]
  IN  [t EXCEPT !.root   = IF p = NULL THEN child ELSE @,
                !.parent = [n \in Nodes |-> IF n = child THEN p ELSE @[n]],
                !.link   = [s \in Side |-> [n \in Nodes |->
                              IF n = p /\ @[s][n] = d THEN child ELSE @[s][n]]],
                !.key[d] = NULL, !.fd[d] = NULL]

\* d, with at most one child, leaves the tree, and its memory is freed.
Unlink(t, d, child) ==
  LET p == t.parent[d]
  IN  [t EXCEPT !.live   = @ \ {d},
                !.root   = IF p = NULL THEN child ELSE @,
                !.parent = [n \in Nodes |-> IF n = child THEN p
                                            ELSE IF n = d THEN NULL ELSE @[n]],
                !.link   = [s \in Side |-> [n \in Nodes |->
                              IF n = d THEN NULL
                              ELSE IF n = p /\ @[s][n] = d THEN child
                              ELSE @[s][n]]],
                !.key[d] = NULL, !.fd[d] = NULL, !.bal[d] = 0]

\* The state of the rebalancing loop: side of parent lost height, while go.
Loop(t, parent, side, go) == [t |-> t, parent |-> parent, side |-> side, go |-> go]

Stop(t) == Loop(t, NULL, "llink", FALSE)

\* "higher:" the loop goes on above node, whose subtree became lower.
Higher(t, node) ==
  IF t.fault \/ node = NULL THEN Stop(Segv(t))
  ELSE IF t.parent[node] = NULL THEN Stop(t)
  ELSE Loop(t, t.parent[node],
            IF t.link["llink"][t.parent[node]] = node THEN "llink" ELSE "rlink", TRUE)

\* parent's heavy side is raised; unless that leaves the height as it was the
\* loop goes on above.
RaiseAndGo(t, p, s, rotated) ==
  IF CanRotate(t, p, s) /\ ~HeightChanged(t, p, s) THEN Stop(rotated)
  ELSE Higher(rotated, rotated.parent[p])

\* The left subtree became lower.
FixLeft(t0, p) ==
  LET t == SetBal(t0, p, t0.bal[p] + 1)
      c == t.link["rlink"][p]
  IN  CASE t.bal[p] = 0            -> Higher(t, p)
        [] t.bal[p] = 2 /\ c = NULL -> Stop(Segv(t))
        [] t.bal[p] = 2 /\ c # NULL ->
             IF t.bal[c] < 0
             THEN LET r == rotate_left(rotate_right(t, c), p)
                  IN  Higher(r, r.parent[p])
             ELSE RaiseAndGo(t, p, "rlink", rotate_left(t, p))
        [] OTHER -> Stop(t)

\* The right subtree became lower.  The code decrements bal once in each of
\* its two tests, and a left child that leans right is rotated, alone.
FixRight(t0, p) ==
  LET t1 == SetBal(t0, p, t0.bal[p] - 1)
      t  == SetBal(t1, p, t1.bal[p] - 1)
      c  == t.link["llink"][p]
  IN  CASE t1.bal[p] = 0                             -> Higher(t1, p)
        [] t1.bal[p] # 0 /\ t.bal[p] = -2 /\ c = NULL -> Stop(Segv(t))
        [] t1.bal[p] # 0 /\ t.bal[p] = -2 /\ c # NULL ->
             IF t.bal[c] > 0
             THEN LET r == rotate_left(t, c) IN Higher(r, r.parent[p])
             ELSE RaiseAndGo(t, p, "llink", rotate_right(t, p))
        [] OTHER -> Stop(t)

FixStep(l) ==
  IF ~l.go THEN l
  ELSE IF l.side = "llink" THEN FixLeft(l.t, l.parent) ELSE FixRight(l.t, l.parent)

\* Every turn moves at least one level up, so one turn per node is enough.
Fix(l) ==
  LET it[i \in 0..Cardinality(Nodes)] == IF i = 0 THEN l ELSE FixStep(it[i - 1])
  IN  it[Cardinality(Nodes)].t

\* The names and descriptors after the removal, before any rebalancing.
RemoveNode(t, n) ==
  LET d     == IF HasBoth(t, n) THEN Neighbour(t, n) ELSE n
      t1    == IF d = n THEN t ELSE SwapEntries(t, n, d)
      p     == t.parent[d]
      child == IF t.link["llink"][d] # NULL THEN t.link["llink"][d]
                                            ELSE t.link["rlink"][d]
      t2    == Unlink(t1, d, child)
  IN  IF p = NULL THEN t2
      ELSE Fix(Loop(t2, p, IF t.link["llink"][p] = d THEN "llink" ELSE "rlink", TRUE))

hb_tree_remove(t, k) == IF Find(t, k) = NULL THEN t ELSE RemoveNode(t, Find(t, k))

-----------------------------------------------------------------------------
(* The tree as the server uses it.                                         *)

hb_tree_new ==
  [ root |-> NULL, live |-> {},
    key |-> [n \in Nodes |-> NULL], fd |-> [n \in Nodes |-> NULL],
    parent |-> [n \in Nodes |-> NULL],
    link |-> [s \in Side |-> [n \in Nodes |-> NULL]],
    bal |-> [n \in Nodes |-> 0], fault |-> FALSE ]

Init == tree = hb_tree_new

\* Which free address malloc picks is of no consequence: the least one.
Enter(k, f) ==
  /\ ~tree.fault
  /\ tree.live # Nodes
  /\ \E junk \in BalJunk :
       tree' = hb_tree_insert(tree, Min(Nodes \ tree.live), k, f, junk)

Leave(k) == ~tree.fault /\ tree' = hb_tree_remove(tree, k)

Next == \E k \in Keys : Leave(k) \/ \E f \in Fds : Enter(k, f)

Spec == Init /\ [][Next]_tree

-----------------------------------------------------------------------------
(* Properties.                                                             *)

\* The type invariant; every allocated node bears a name and a descriptor.
Typed(t) ==
  t \in Tree /\ \A n \in t.live : t.key[n] \in Keys /\ t.fd[n] \in Fds

TypeOK == Typed(tree)

\* The nodes in key order, a walk of the links only.
InOrder(t) ==
  LET walk[n \in Ptr] ==
        IF n = NULL THEN <<>>
        ELSE walk[t.link["llink"][n]] \o <<n>> \o walk[t.link["rlink"][n]]
  IN  walk[t.root]

\* parent, llink and rlink tell the same story, the root has no parent, and
\* every live node hangs from it exactly once: what hb_tree_remove and the
\* rotations rely on when they climb by parent and test one side only.
LinksAgree ==
  ~tree.fault =>
    /\ \A n \in tree.live, s \in Side :
         tree.link[s][n] # NULL =>
           tree.link[s][n] \in tree.live /\ tree.parent[tree.link[s][n]] = n
    /\ tree.root # NULL => tree.parent[tree.root] = NULL
    /\ \A n \in tree.live :
         Cardinality({e \in tree.live \X Side : tree.link[e[2]][e[1]] = n})
           = IF n = tree.root THEN 0 ELSE 1
    /\ ToSet(InOrder(tree)) = tree.live

\* The fds filed under k, from left to right.
Filed(t, k) ==
  LET nodes == InOrder(t)
      upTo[i \in 0..Len(nodes)] ==
        IF i = 0 THEN <<>>
        ELSE IF t.key[nodes[i]] = k THEN Append(upTo[i - 1], t.fd[nodes[i]])
        ELSE upTo[i - 1]
  IN  upTo[Len(nodes)]

D == INSTANCE Directory WITH Users <- Keys,
                           Pair <- Cardinality(Nodes) <= 2 /\ BalJunk = {0},
                           dir <- [k \in Keys |-> Filed(tree, k)]

\* A search by name, which only follows comparisons, finds a name exactly if
\* some node bears it, and what it returns is what the directory allows:
\* rotations and removals, with equal names on both sides of a node, never hide
\* an entry.
SearchFinds == ~tree.fault => \A k \in Keys : hb_tree_search(tree, k) \in D!Lookup(k)

\* The tree implements the directory: an insertion files one more descriptor
\* under one name and a removal takes one away, whatever is rebalanced.
ImplementsDirectory == [][tree'.fault \/ D!Next]_[k \in Keys |-> Filed(tree, k)]

\* What a removal by name takes away is the entry that a search by that name
\* returns, one place of the name's list, and no entry of any other name.
RemovesFound ==
  ~tree.fault =>
    \A k \in Keys :
      LET t   == hb_tree_remove(tree, k)
          was == Filed(tree, k)
      IN  t.fault
          \/ /\ \A u \in Keys \ {k} : Filed(t, u) = Filed(tree, u)
             /\ was # <<>> =>
                  \E i \in DOMAIN was :
                    was[i] = hb_tree_search(tree, k) /\ Filed(t, k) = RemoveAt(was, i)

\* The height of every subtree.
Height(t) ==
  LET h[n \in Ptr] ==
        IF n = NULL THEN 0
        ELSE 1 + Max({h[t.link[s][n]] : s \in Side})
  IN  h

\* bal is the height of the right subtree less that of the left, and never
\* leaves -1..1.
IsBalanced(t) ==
  LET h == Height(t)
  IN  /\ ~t.fault
      /\ \A n \in t.live :
           /\ t.bal[n] \in -1..1
           /\ t.bal[n] = h[t.link["rlink"][n]] - h[t.link["llink"][n]]

\* The point of the structure: an insertion into a balanced tree follows no
\* NULL and, by at most one single or double rotation, leaves a balanced tree
\* with exact balance factors.
InsertKeepsBalance ==
  [][IsBalanced(tree) /\ ~(tree'.live \subseteq tree.live) => IsBalanced(tree')]_tree

\* A logout's removal never dereferences NULL.
NoFault == ~tree.fault
=============================================================================
