----------------------------- MODULE HbTreeProofs -----------------------------
(***************************************************************************)
(* What HbTree promises, for any set of names, descriptors and addresses   *)
(* and any junk malloc leaves in a balance; the last theorem, that an      *)
(* insertion keeps a tree balanced, needs that byte to be 0.               *)
(***************************************************************************)
EXTENDS HbTree, FiniteSetTheorems, SequenceTheorems, WellFoundedInduction, TLAPS

-----------------------------------------------------------------------------
(* What keeps the tree a search tree: the live nodes can be numbered from  *)
(* left to right, 1..N, so that o[i] is the i-th of them and pos[n] the    *)
(* number of n, and so that the subtree of n holds the numbers lo[n]..hi[n]. *)

Numbered(t, N, o, pos) ==
  /\ N \in Nat
  /\ o \in [1..N -> t.live]
  /\ pos \in [Nodes -> Int]
  /\ \A i \in 1..N : pos[o[i]] = i
  /\ \A n \in t.live : pos[n] \in 1..N /\ o[pos[n]] = n

\* The root holds all numbers.
Rooted(t, N, lo, hi) ==
  IF t.root = NULL THEN N = 0
  ELSE /\ t.root \in t.live
       /\ t.parent[t.root] = NULL
       /\ lo[t.root] = 1 /\ hi[t.root] = N

\* The left child holds the numbers before n's, the right child those after.
LeftOf(t, pos, lo, hi, n) ==
  LET l == t.link["llink"][n]
  IN  IF l = NULL THEN lo[n] = pos[n]
      ELSE l \in t.live /\ t.parent[l] = n /\ lo[l] = lo[n] /\ hi[l] = pos[n] - 1

RightOf(t, pos, lo, hi, n) ==
  LET r == t.link["rlink"][n]
  IN  IF r = NULL THEN hi[n] = pos[n]
      ELSE r \in t.live /\ t.parent[r] = n /\ lo[r] = pos[n] + 1 /\ hi[r] = hi[n]

Hangs(t, n) ==
  IF t.parent[n] = NULL THEN n = t.root
  ELSE t.parent[n] \in t.live /\ \E s \in Side : t.link[s][t.parent[n]] = n

Nested(t, N, pos, lo, hi) ==
  /\ lo \in [Nodes -> Int] /\ hi \in [Nodes -> Int]
  /\ Rooted(t, N, lo, hi)
  /\ \A n \in t.live : /\ 1 <= lo[n] /\ lo[n] <= pos[n]
                        /\ pos[n] <= hi[n] /\ hi[n] <= N
                        /\ LeftOf(t, pos, lo, hi, n)
                        /\ RightOf(t, pos, lo, hi, n)
                        /\ Hangs(t, n)
  /\ \A s \in Side : \A n \in Nodes \ t.live : t.link[s][n] = NULL

\* From left to right the names never decrease.
Sorted(t, pos) ==
  \A a, b \in t.live : pos[a] < pos[b] => t.key[a] <= t.key[b]

Shape(t, N, o, pos) ==
  Numbered(t, N, o, pos) /\ \E lo, hi : Nested(t, N, pos, lo, hi)

SearchTree(t) ==
  /\ Typed(t)
  /\ \E N, o, pos : Shape(t, N, o, pos) /\ Sorted(t, pos)

-----------------------------------------------------------------------------
(* Induction, stated for sets: a proof by induction first names the set of *)
(* the numbers the claim holds of.                                         *)

\* < on the natural numbers has no endless descent.
LEMMA LessWellFounded ==
  IsWellFoundedOn({ss \in Nat \X Nat : ss[1] < ss[2]}, Nat)
BY NatLessThanWellFounded DEF OpToRel

\* A set of natural numbers that is not empty has a least element.
LEMMA LeastExists ==
  ASSUME NEW T, T \subseteq Nat, T # {}
  PROVE  \E x \in T : \A y \in T : x <= y
<1> DEFINE R == {ss \in Nat \X Nat : ss[1] < ss[2]}
<1>1. IsWellFoundedOn(R, Nat)
  BY LessWellFounded
<1> HIDE DEF R
<1>2. \A x, y \in Nat : <<y, x>> \in R <=> y < x
  BY DEF R
<1>3. PICK x \in T : \A y \in T : ~(<<y, x>> \in R)
  BY <1>1, WFMin
<1>4. \A y \in T : x <= y
  <2> SUFFICES ASSUME NEW y \in T PROVE x <= y
    OBVIOUS
  <2>1. x \in Nat /\ y \in Nat
    OBVIOUS
  <2>2. <<y, x>> \in R <=> y < x
    BY <2>1, <1>2
  <2> QED BY <2>1, <2>2, <1>3
<1> QED BY <1>4

\* Induction over the natural numbers, on a set in place of a predicate.
LEMMA Induction ==
  ASSUME NEW T, T \subseteq Nat, 0 \in T, \A n \in T : n + 1 \in T
  PROVE  T = Nat
<1> SUFFICES ASSUME Nat \ T # {} PROVE FALSE
  OBVIOUS
<1>1. PICK x \in Nat \ T : \A y \in Nat \ T : x <= y
  BY LeastExists
<1>2. x # 0
  OBVIOUS
<1>3. x - 1 \in T
  BY <1>1, <1>2
<1>4. (x - 1) + 1 \in T
  BY <1>3
<1> QED BY <1>4

\* Of the elements of a set that are measured by a number, one measures least.
LEMMA LeastBy ==
  ASSUME NEW S, S # {}, NEW f \in [S -> Nat]
  PROVE  \E x \in S : \A y \in S : f[x] <= f[y]
<1> DEFINE T == {f[x] : x \in S}
<1>1. PICK m \in T : \A y \in T : m <= y
  <2>1. T \subseteq Nat /\ T # {}
    OBVIOUS
  <2> HIDE DEF T
  <2> QED BY <2>1, LeastExists
<1> QED BY <1>1

-----------------------------------------------------------------------------
(* The links.                                                              *)

\* NULL is the address of no node.
LEMMA NullIsNoNode == NULL \notin Nodes
BY HbTreeAssumption

\* A child is live, knows its parent, and has a smaller part of its numbers.
LEMMA ChildInside ==
  ASSUME NEW t, NEW N, NEW pos, NEW lo, NEW hi, t \in Tree,
         pos \in [Nodes -> Int], Nested(t, N, pos, lo, hi),
         NEW n \in t.live, NEW s \in Side, t.link[s][n] # NULL
  PROVE  LET c == t.link[s][n]
         IN  /\ c \in t.live /\ c # n
             /\ t.parent[c] = n
             /\ lo[n] <= lo[c] /\ hi[c] <= hi[n]
             /\ hi[c] - lo[c] < hi[n] - lo[n]
             /\ s = "llink" => lo[c] = lo[n] /\ hi[c] = pos[n] - 1
             /\ s = "rlink" => hi[c] = hi[n] /\ lo[c] = pos[n] + 1
<1>1. n \in Nodes /\ t.live \subseteq Nodes
  BY DEF Tree
<1>2. CASE s = "llink"
  BY <1>1, <1>2 DEF Nested, LeftOf
<1>3. CASE s = "rlink"
  BY <1>1, <1>3 DEF Nested, RightOf
<1> QED BY <1>2, <1>3 DEF Side

\* The parent of an allocated node is an allocated node or NULL.
LEMMA ParentLive ==
  ASSUME NEW t, NEW N, NEW pos, NEW lo, NEW hi, t \in Tree,
         Nested(t, N, pos, lo, hi), NEW n \in t.live
  PROVE  t.parent[n] \in t.live \cup {NULL}
BY DEF Nested, Hangs

\* No node is the child of two, or on both sides of one.
LEMMA ChildOnce ==
  ASSUME NEW t, NEW N, NEW pos, NEW lo, NEW hi, t \in Tree,
         pos \in [Nodes -> Int], Nested(t, N, pos, lo, hi),
         NEW n \in t.live, NEW s \in Side, t.link[s][n] # NULL,
         NEW m \in t.live, NEW x \in Side, t.link[x][m] = t.link[s][n]
  PROVE  m = n /\ x = s
<1>1. m = n
  BY ChildInside
<1>2. n \in Nodes /\ t.live \subseteq Nodes
  BY DEF Tree
<1>3. x = s
  <2> SUFFICES ASSUME x # s PROVE FALSE
    OBVIOUS
  <2>1. t.link["llink"][n] = t.link["rlink"][n] /\ t.link["llink"][n] # NULL
    BY <1>1 DEF Side
  <2>2. "llink" \in Side /\ "rlink" \in Side
    BY DEF Side
  <2>3. hi[t.link["llink"][n]] = pos[n] - 1 /\ lo[t.link["rlink"][n]] = pos[n] + 1
    BY <2>1, <2>2, ChildInside
  <2>4. t.link["llink"][n] \in t.live
    BY <2>1, <2>2, ChildInside
  <2>5. lo[t.link["llink"][n]] <= pos[t.link["llink"][n]] /\ pos[t.link["llink"][n]] <= hi[t.link["llink"][n]]
    BY <2>4 DEF Nested
  <2> QED BY <2>1, <2>3, <2>4, <2>5, <1>2 DEF Nested
<1> QED BY <1>1, <1>3

-----------------------------------------------------------------------------
(* Rotations.                                                              *)

\* The state after a rotation, field by field.
LEMMA RaiseFields ==
  ASSUME NEW t \in Tree, NEW n \in t.live, NEW s \in Side, t.link[s][n] \in t.live,
         t.link[s][n] # n, t.parent[n] \notin {n, t.link[s][n]},
         t.link[Other(s)][t.link[s][n]] \notin {n, t.link[s][n]}
  PROVE  LET m     == t.link[s][n]
             p     == t.parent[n]
             inner == t.link[Other(s)][m]
             u     == Raise(t, n, s)
         IN  /\ u \in Tree
             /\ u.live = t.live /\ u.key = t.key /\ u.fd = t.fd
             /\ u.bal = t.bal /\ u.fault = t.fault
             /\ u.root = IF p = NULL THEN m ELSE t.root
             /\ \A x \in Side, y \in Nodes :
                  u.link[x][y] = IF y = n /\ x = s THEN inner
                                 ELSE IF y = m /\ x = Other(s) THEN n
                                 ELSE IF y = p /\ t.link[x][y] = n THEN m
                                 ELSE t.link[x][y]
             /\ \A y \in Nodes :
                  u.parent[y] = IF y = n THEN m
                                ELSE IF y = m THEN p
                                ELSE IF y = inner THEN n
                                ELSE t.parent[y]
<1> DEFINE m     == t.link[s][n]
           p     == t.parent[n]
           inner == t.link[Other(s)][m]
           L(x, y) == CASE y = n /\ x = s        -> inner
                        [] y = m /\ x = Other(s) -> n
                        [] y = p /\ t.link[x][y] = n -> m
                        [] OTHER                 -> t.link[x][y]
           P(y) == CASE y = n     -> m
                     [] y = m     -> p
                     [] y = inner -> n
                     [] OTHER     -> t.parent[y]
           link == [x \in Side |-> [y \in Nodes |-> L(x, y)]]
           parent == [y \in Nodes |-> P(y)]
           u == [t EXCEPT !.root = IF p = NULL THEN m ELSE @,
                          !.link = link, !.parent = parent]
<1>1. Other(s) \in Side
  BY DEF Side, Other
<1>2. n \in Nodes /\ m \in Nodes /\ p \in Ptr /\ inner \in Ptr
  BY <1>1 DEF Tree, Ptr
<1>3. \A x \in Side, y \in Nodes :
        /\ L(x, y) \in Ptr
        /\ L(x, y) = IF y = n /\ x = s THEN inner
                     ELSE IF y = m /\ x = Other(s) THEN n
                     ELSE IF y = p /\ t.link[x][y] = n THEN m
                     ELSE t.link[x][y]
  BY <1>1, <1>2 DEF Tree, Ptr
<1>4. \A y \in Nodes :
        /\ P(y) \in Ptr
        /\ P(y) = IF y = n THEN m
                  ELSE IF y = m THEN p
                  ELSE IF y = inner THEN n
                  ELSE t.parent[y]
  BY <1>1, <1>2 DEF Tree, Ptr
<1>5. Raise(t, n, s) = u
  BY DEF Raise
<1> HIDE DEF L, P
<1>6. link \in [Side -> [Nodes -> Ptr]] /\ parent \in [Nodes -> Ptr]
  BY <1>3, <1>4
<1> HIDE DEF link, parent
<1>7. u \in Tree
  BY <1>6, <1>2 DEF Tree, Ptr
<1>8. /\ u.live = t.live /\ u.key = t.key /\ u.fd = t.fd
      /\ u.bal = t.bal /\ u.fault = t.fault
      /\ u.root = IF p = NULL THEN m ELSE t.root
      /\ u.link = link /\ u.parent = parent
  BY DEF Tree
<1> HIDE DEF u
<1>9. \A x \in Side, y \in Nodes : u.link[x][y] = L(x, y)
  BY <1>8 DEF link
<1>10. \A y \in Nodes : u.parent[y] = P(y)
  BY <1>8 DEF parent
<1> QED BY <1>3, <1>4, <1>5, <1>7, <1>8, <1>9, <1>10

\* The nodes a rotation touches are different ones.
LEMMA RaiseDistinct ==
  ASSUME NEW t \in Tree, NEW N, NEW pos, NEW lo, NEW hi,
         pos \in [Nodes -> Int], Nested(t, N, pos, lo, hi),
         NEW n \in t.live, NEW s \in Side, t.link[s][n] # NULL
  PROVE  LET m     == t.link[s][n]
             p     == t.parent[n]
             inner == t.link[Other(s)][m]
         IN  /\ m \in t.live /\ m # n /\ t.parent[m] = n
             /\ p \in t.live \cup {NULL} /\ p # n /\ p # m
             /\ inner \in t.live \cup {NULL} /\ inner # n /\ inner # m
             /\ inner # NULL => t.parent[inner] = m
<1> DEFINE m     == t.link[s][n]
           p     == t.parent[n]
           inner == t.link[Other(s)][m]
<1>0. t.live \subseteq Nodes /\ NULL \notin t.live /\ Other(s) \in Side
      /\ lo \in [Nodes -> Int] /\ hi \in [Nodes -> Int]
  BY NullIsNoNode DEF Tree, Side, Other, Nested
<1>1. m \in t.live /\ m # n /\ t.parent[m] = n /\ hi[m] - lo[m] < hi[n] - lo[n]
  BY ChildInside
<1>2. ASSUME p # NULL
      PROVE  p \in t.live /\ p # n /\ p # m
  <2>1. p \in t.live /\ \E x \in Side : t.link[x][p] = n
    BY <1>2 DEF Nested, Hangs
  <2>2. hi[n] - lo[n] < hi[p] - lo[p]
    <3>1. PICK x \in Side : t.link[x][p] = n
      BY <2>1
    <3>2. t.link[x][p] # NULL
      BY <1>0, <3>1
    <3> QED BY <2>1, <3>1, <3>2, ChildInside
  <2> QED BY <2>1, <2>2, <1>1, <1>0
<1>3. p \in t.live \cup {NULL} /\ p # n /\ p # m
  BY <1>2, <1>0
<1>4. ASSUME inner # NULL
      PROVE  inner \in t.live /\ inner # n /\ inner # m /\ t.parent[inner] = m
  <2> HIDE DEF m
  <2>1. inner \in t.live /\ inner # m /\ t.parent[inner] = m /\ hi[inner] - lo[inner] < hi[m] - lo[m]
    BY <1>0, <1>1, <1>4, ChildInside
  <2> QED BY <2>1, <1>1, <1>0
<1>5. inner \in t.live \cup {NULL} /\ inner # n /\ inner # m
      /\ (inner # NULL => t.parent[inner] = m)
  BY <1>4, <1>0
<1> QED BY <1>1, <1>3, <1>5

\* A rotation keeps the order of the nodes: only the numbers below the two
\* that change places move.
LEMMA RaiseNested ==
  ASSUME NEW t \in Tree, NEW N \in Int, NEW pos \in [Nodes -> Int], NEW lo, NEW hi,
         Nested(t, N, pos, lo, hi),
         NEW n \in t.live, NEW s \in Side, t.link[s][n] # NULL
  PROVE  \E lo2, hi2 : Nested(Raise(t, n, s), N, pos, lo2, hi2)
<1> DEFINE m     == t.link[s][n]
           p     == t.parent[n]
           inner == t.link[Other(s)][m]
           u     == Raise(t, n, s)
           lo2   == [y \in Nodes |-> IF s = "rlink" /\ y = m THEN lo[n]
                                     ELSE IF s = "llink" /\ y = n THEN pos[m] + 1
                                     ELSE lo[y]]
           hi2   == [y \in Nodes |-> IF s = "llink" /\ y = m THEN hi[n]
                                     ELSE IF s = "rlink" /\ y = n THEN pos[m] - 1
                                     ELSE hi[y]]
<1>0. /\ t.live \subseteq Nodes /\ NULL \notin Nodes /\ NULL \notin t.live
      /\ lo \in [Nodes -> Int] /\ hi \in [Nodes -> Int]
      /\ Other("llink") = "rlink" /\ Other("rlink") = "llink"
  BY NullIsNoNode DEF Tree, Side, Other, Nested
<1>1. /\ m \in t.live /\ m # n /\ t.parent[m] = n
      /\ p \in t.live \cup {NULL} /\ p # n /\ p # m
      /\ inner \in t.live \cup {NULL} /\ inner # n /\ inner # m
      /\ inner # NULL => t.parent[inner] = m
  BY RaiseDistinct
<1>2. /\ u \in Tree
      /\ u.live = t.live
      /\ u.root = IF p = NULL THEN m ELSE t.root
      /\ \A x \in Side, y \in Nodes :
           u.link[x][y] = IF y = n /\ x = s THEN inner
                          ELSE IF y = m /\ x = Other(s) THEN n
                          ELSE IF y = p /\ t.link[x][y] = n THEN m
                          ELSE t.link[x][y]
      /\ \A y \in Nodes :
           u.parent[y] = IF y = n THEN m
                         ELSE IF y = m THEN p
                         ELSE IF y = inner THEN n
                         ELSE t.parent[y]
  BY <1>1, RaiseFields
<1>3. \A y \in t.live, x \in Side :
        t.link[x][y] # NULL =>
          LET c == t.link[x][y]
          IN  /\ c \in t.live /\ c # y
              /\ t.parent[c] = y
              /\ lo[y] <= lo[c] /\ hi[c] <= hi[y]
              /\ hi[c] - lo[c] < hi[y] - lo[y]
              /\ x = "llink" => lo[c] = lo[y] /\ hi[c] = pos[y] - 1
              /\ x = "rlink" => hi[c] = hi[y] /\ lo[c] = pos[y] + 1
  BY ChildInside
<1>4. \A y \in t.live : /\ t.link["llink"][y] = NULL => lo[y] = pos[y]
                        /\ t.link["rlink"][y] = NULL => hi[y] = pos[y]
                        /\ 1 <= lo[y] /\ lo[y] <= pos[y]
                        /\ pos[y] <= hi[y] /\ hi[y] <= N
  BY DEF Nested, LeftOf, RightOf
<1>5. \A y \in t.live, x \in Side :
        /\ t.link[x][y] = n => y = p
        /\ t.link[x][y] = m => y = n /\ x = s
        /\ inner # NULL /\ t.link[x][y] = inner => y = m /\ x = Other(s)
  <2> SUFFICES ASSUME NEW y \in t.live, NEW x \in Side
               PROVE  /\ t.link[x][y] = n => y = p
                      /\ t.link[x][y] = m => y = n /\ x = s
                      /\ inner # NULL /\ t.link[x][y] = inner => y = m /\ x = Other(s)
    OBVIOUS
  <2>1. t.link[x][y] = n => y = p
    BY <1>3, <1>0
  <2>2. t.link[x][y] = m => y = n /\ x = s
    BY ChildOnce
  <2>3. Other(s) \in Side
    BY DEF Side, Other
  <2> HIDE DEF m
  <2>4. inner # NULL /\ t.link[x][y] = inner => y = m /\ x = Other(s)
    BY <1>1, <2>3, ChildOnce
  <2> QED BY <2>1, <2>2, <2>4
<1> HIDE DEF m, p, inner, u
<1>6. lo2 \in [Nodes -> Int] /\ hi2 \in [Nodes -> Int]
  BY <1>0, <1>1
<1>7. \A y \in Nodes :
        /\ lo2[y] = IF s = "rlink" /\ y = m THEN lo[n]
                    ELSE IF s = "llink" /\ y = n THEN pos[m] + 1
                    ELSE lo[y]
        /\ hi2[y] = IF s = "llink" /\ y = m THEN hi[n]
                    ELSE IF s = "rlink" /\ y = n THEN pos[m] - 1
                    ELSE hi[y]
  OBVIOUS
<1> HIDE DEF lo2, hi2
<1>8. /\ n \in t.live /\ t.link[s][n] = m /\ t.parent[n] = p /\ t.link[Other(s)][m] = inner
      /\ s \in {"llink", "rlink"} /\ "llink" \in Side /\ "rlink" \in Side
  BY DEF m, p, inner, Side
<1>9. Rooted(u, N, lo2, hi2)
  <2>1. CASE p = NULL
    <3>1. n = t.root /\ lo[n] = 1 /\ hi[n] = N
      BY <2>1, <1>0, <1>8 DEF Nested, Rooted, Hangs
    <3>2. u.root = m /\ u.parent[m] = NULL
      BY <2>1, <1>0, <1>1, <1>2
    <3>3. lo2[m] = lo[n] /\ hi2[m] = hi[n]
      BY <1>0, <1>1, <1>3, <1>7, <1>8
    <3> QED BY <3>1, <3>2, <3>3, <1>0, <1>1, <1>2 DEF Rooted
  <2>2. CASE p # NULL
    <3>1. u.root = t.root
      BY <2>2, <1>2
    <3>2. CASE t.root # NULL
      <4>1. t.root \in t.live /\ t.parent[t.root] = NULL /\ lo[t.root] = 1 /\ hi[t.root] = N
        BY <3>2 DEF Nested, Rooted
      <4>2. t.root \notin {n, m, inner}
        BY <4>1, <2>2, <1>0, <1>1, <1>8
      <4> QED BY <4>1, <4>2, <3>1, <1>0, <1>2, <1>7 DEF Rooted
    <3>3. CASE t.root = NULL
      BY <3>1, <3>3 DEF Nested, Rooted
    <3> QED BY <3>2, <3>3
  <2> QED BY <2>1, <2>2
<1>10. ASSUME NEW y \in t.live
       PROVE  /\ 1 <= lo2[y] /\ lo2[y] <= pos[y]
              /\ pos[y] <= hi2[y] /\ hi2[y] <= N
              /\ LeftOf(u, pos, lo2, hi2, y)
              /\ RightOf(u, pos, lo2, hi2, y)
              /\ Hangs(u, y)
  <2>0. y \in Nodes /\ n \in Nodes /\ m \in Nodes
    BY <1>0, <1>1
  <2>1. 1 <= lo2[y] /\ lo2[y] <= pos[y] /\ pos[y] <= hi2[y] /\ hi2[y] <= N
    <3>1. \A z \in {n, m} : lo[z] \in Int /\ hi[z] \in Int /\ pos[z] \in Int
      BY <2>0, <1>0
    <3>2. /\ 1 <= lo[n] /\ lo[n] <= pos[n] /\ pos[n] <= hi[n] /\ hi[n] <= N
          /\ 1 <= lo[m] /\ lo[m] <= pos[m] /\ pos[m] <= hi[m] /\ hi[m] <= N
      BY <1>1, <1>4
    <3>3. /\ lo[n] <= lo[m] /\ hi[m] <= hi[n]
          /\ s = "llink" => hi[m] = pos[n] - 1
          /\ s = "rlink" => lo[m] = pos[n] + 1
      BY <1>0, <1>1, <1>3, <1>8
    <3>4. CASE y = n
      BY <3>1, <3>2, <3>3, <3>4, <2>0, <1>1, <1>7, <1>8
    <3>5. CASE y = m
      BY <3>1, <3>2, <3>3, <3>5, <2>0, <1>1, <1>7, <1>8
    <3>6. CASE y \notin {n, m}
      BY <3>6, <2>0, <1>0, <1>4, <1>7
    <3> QED BY <3>4, <3>5, <3>6
  <2>2. LeftOf(u, pos, lo2, hi2, y)
    <3>1. CASE y = n
      BY <3>1, <2>0, <1>0, <1>1, <1>2, <1>3, <1>4, <1>7, <1>8 DEF LeftOf
    <3>2. CASE y = m
      BY <3>2, <2>0, <1>0, <1>1, <1>2, <1>3, <1>4, <1>7, <1>8 DEF LeftOf
    <3>3. CASE y \notin {n, m}
      BY <3>3, <2>0, <1>0, <1>1, <1>2, <1>3, <1>4, <1>5, <1>7, <1>8, SMTT(30) DEF LeftOf
    <3> QED BY <3>1, <3>2, <3>3
  <2>3. RightOf(u, pos, lo2, hi2, y)
    <3>1. CASE y = n
      BY <3>1, <2>0, <1>0, <1>1, <1>2, <1>3, <1>4, <1>7, <1>8 DEF RightOf
    <3>2. CASE y = m
      BY <3>2, <2>0, <1>0, <1>1, <1>2, <1>3, <1>4, <1>5, <1>7, <1>8 DEF RightOf
    <3>3. CASE y \notin {n, m}
      BY <3>3, <2>0, <1>0, <1>1, <1>2, <1>3, <1>4, <1>5, <1>7, <1>8, SMTT(30) DEF RightOf
    <3> QED BY <3>1, <3>2, <3>3
  <2>4. Hangs(u, y)
    <3>0. Hangs(t, y) /\ Hangs(t, n)
      BY DEF Nested
    <3>1. CASE y = n
      BY <3>1, <2>0, <1>0, <1>1, <1>2, <1>8 DEF Hangs, Side
    <3>2. CASE y = m
      BY <3>2, <3>0, <2>0, <1>0, <1>1, <1>2, <1>8 DEF Hangs
    <3>3. CASE y \notin {n, m}
      BY <3>3, <3>0, <2>0, <1>0, <1>1, <1>2, <1>3, <1>5, <1>8, SMTT(30) DEF Hangs
    <3> QED BY <3>1, <3>2, <3>3
  <2> QED BY <2>1, <2>2, <2>3, <2>4
<1>11. \A x \in Side : \A y \in Nodes \ u.live : u.link[x][y] = NULL
  <2>1. \A x \in Side : \A y \in Nodes \ t.live : t.link[x][y] = NULL
    BY DEF Nested
  <2> QED BY <2>1, <1>0, <1>1, <1>2
<1>12. Nested(u, N, pos, lo2, hi2)
  BY <1>2, <1>6, <1>9, <1>10, <1>11 DEF Nested
<1> QED BY <1>12 DEF u

-----------------------------------------------------------------------------
(* Every step of a rebalancing keeps the entries, and the nodes in their    *)
(* order.                                                                  *)

Ranked(t, N, pos) ==
  /\ t \in Tree /\ N \in Int /\ pos \in [Nodes -> Int]
  /\ \E lo, hi : Nested(t, N, pos, lo, hi)

Rearranged(t, u, N, pos) ==
  /\ Ranked(u, N, pos)
  /\ u.live = t.live /\ u.key = t.key /\ u.fd = t.fd

\* What is assigned to a signed char is one.
LEMMA SCharRange == \A x \in Int : SChar(x) \in Char
BY DEF SChar, Char

\* What is read of a tree's shape is its links and its root.
LEMMA SameLinks ==
  ASSUME NEW t, NEW u, NEW N, NEW pos, NEW lo, NEW hi,
         u.live = t.live, u.root = t.root, u.parent = t.parent, u.link = t.link,
         Nested(t, N, pos, lo, hi)
  PROVE  Nested(u, N, pos, lo, hi)
BY DEF Nested, Rooted, LeftOf, RightOf, Hangs

\* A NULL dereference leaves the nodes where they were.
LEMMA SegvRearranges ==
  ASSUME NEW t, NEW N, NEW pos, Ranked(t, N, pos)
  PROVE  Rearranged(t, Segv(t), N, pos) /\ Segv(t).fault
<1>1. /\ Segv(t) \in Tree
      /\ Segv(t).live = t.live /\ Segv(t).root = t.root
      /\ Segv(t).parent = t.parent /\ Segv(t).link = t.link
      /\ Segv(t).key = t.key /\ Segv(t).fd = t.fd /\ Segv(t).fault
  BY DEF Ranked, Tree, Segv
<1>2. \E lo, hi : Nested(Segv(t), N, pos, lo, hi)
  BY <1>1, SameLinks DEF Ranked
<1> QED BY <1>1, <1>2 DEF Ranked, Rearranged

\* Storing a balance moves no node.
LEMMA SetBalRearranges ==
  ASSUME NEW t, NEW N, NEW pos, Ranked(t, N, pos), NEW n \in Nodes, NEW b \in Int
  PROVE  /\ Rearranged(t, SetBal(t, n, b), N, pos)
         /\ SetBal(t, n, b).link = t.link /\ SetBal(t, n, b).parent = t.parent
         /\ SetBal(t, n, b).root = t.root /\ SetBal(t, n, b).fault = t.fault
<1> DEFINE u == SetBal(t, n, b)
<1>1. SChar(b) \in Char
  BY SCharRange
<1>2. /\ u \in Tree
      /\ u.live = t.live /\ u.root = t.root
      /\ u.parent = t.parent /\ u.link = t.link
      /\ u.key = t.key /\ u.fd = t.fd /\ u.fault = t.fault
  BY <1>1 DEF Ranked, Tree, SetBal
<1>3. \E lo, hi : Nested(u, N, pos, lo, hi)
  BY <1>2, SameLinks DEF Ranked
<1> QED BY <1>2, <1>3 DEF Ranked, Rearranged

\* Raising a child above its parent moves no node in the order.
LEMMA RaiseRearranges ==
  ASSUME NEW t, NEW N, NEW pos, Ranked(t, N, pos),
         NEW n \in t.live, NEW s \in Side, t.link[s][n] # NULL
  PROVE  Rearranged(t, Raise(t, n, s), N, pos)
<1>1. PICK lo, hi : Nested(t, N, pos, lo, hi)
  BY DEF Ranked
<1>2. t \in Tree /\ N \in Int /\ pos \in [Nodes -> Int]
  BY DEF Ranked
<1>3. /\ Raise(t, n, s) \in Tree
      /\ Raise(t, n, s).live = t.live /\ Raise(t, n, s).key = t.key
      /\ Raise(t, n, s).fd = t.fd
  BY <1>1, <1>2, RaiseDistinct, RaiseFields
<1>4. \E lo2, hi2 : Nested(Raise(t, n, s), N, pos, lo2, hi2)
  BY <1>1, <1>2, RaiseNested
<1> QED BY <1>2, <1>3, <1>4 DEF Ranked, Rearranged

\* Two rearrangements are one.
LEMMA RearrangedTwice ==
  ASSUME NEW t, NEW u, NEW v, NEW N, NEW pos,
         Rearranged(t, u, N, pos), Rearranged(u, v, N, pos)
  PROVE  Rearranged(t, v, N, pos)
BY DEF Rearranged

\* What an allocated node points to is allocated, or NULL.
LEMMA LiveNeighbours ==
  ASSUME NEW t, NEW N, NEW pos, Ranked(t, N, pos), NEW n \in t.live
  PROVE  /\ n \in Nodes
         /\ t.parent[n] \in t.live \cup {NULL}
         /\ \A s \in Side : t.link[s][n] \in t.live \cup {NULL}
<1>1. PICK lo, hi : Nested(t, N, pos, lo, hi)
  BY DEF Ranked
<1>2. t \in Tree /\ pos \in [Nodes -> Int]
  BY DEF Ranked
<1> QED BY <1>1, <1>2, ParentLive, ChildInside DEF Tree

\* A balance is a number.
LEMMA BalIsInt ==
  ASSUME NEW t, NEW N, NEW pos, Ranked(t, N, pos), NEW n \in Nodes
  PROVE  t.bal[n] \in Int
<1>1. t.bal \in [Nodes -> Char]
  BY DEF Ranked, Tree
<1>2. t.bal[n] \in Char
  BY <1>1
<1> QED BY <1>2 DEF Char

\* A rotation moves no node in the order, the balances it stores included.
LEMMA RotateRearranges ==
  ASSUME NEW t, NEW N, NEW pos, Ranked(t, N, pos), NEW n \in t.live \cup {NULL}
  PROVE  /\ Rearranged(t, rotate_right(t, n), N, pos)
         /\ Rearranged(t, rotate_left(t, n), N, pos)
<1> USE DEF Side
<1>1. ASSUME CanRotate(t, n, "llink") PROVE Rearranged(t, rotate_right(t, n), N, pos)
  <2> DEFINE nl == t.link["llink"][n]
             nb == SChar(t.bal[n] + 1 - Least(t.bal[nl], 0))
             r1 == Raise(t, n, "llink")
             r2 == SetBal(r1, n, nb)
             cb == t.bal[nl] + 1 + Most(nb, 0)
             r3 == SetBal(r2, nl, cb)
  <2>1. n \in t.live /\ nl \in t.live /\ n \in Nodes /\ nl \in Nodes
    BY <1>1, LiveNeighbours DEF CanRotate
  <2>2. t.bal[n] \in Int /\ t.bal[nl] \in Int
    BY <2>1, BalIsInt
  <2>3. nb \in Int
    BY <2>2, SCharRange DEF Least, Char
  <2>4. cb \in Int
    BY <2>2, <2>3 DEF Most
  <2>5. rotate_right(t, n) = r3
    BY <1>1 DEF rotate_right
  <2> HIDE DEF nb, nl, cb
  <2>6. Rearranged(t, r1, N, pos)
    BY <2>1, RaiseRearranges, <1>1 DEF CanRotate
  <2> HIDE DEF r1
  <2>7. Rearranged(r1, r2, N, pos)
    BY <2>1, <2>3, <2>6, SetBalRearranges DEF Rearranged
  <2> HIDE DEF r2
  <2>8. Rearranged(r2, r3, N, pos)
    BY <2>1, <2>4, <2>7, SetBalRearranges DEF Rearranged
  <2> QED BY <2>5, <2>6, <2>7, <2>8, RearrangedTwice
<1>2. ASSUME CanRotate(t, n, "rlink") PROVE Rearranged(t, rotate_left(t, n), N, pos)
  <2> DEFINE nr == t.link["rlink"][n]
             nb == SChar(t.bal[n] - 1 - Most(t.bal[nr], 0))
             r1 == Raise(t, n, "rlink")
             r2 == SetBal(r1, n, nb)
             cb == t.bal[nr] - 1 + Least(nb, 0)
             r3 == SetBal(r2, nr, cb)
  <2>1. n \in t.live /\ nr \in t.live /\ n \in Nodes /\ nr \in Nodes
    BY <1>2, LiveNeighbours DEF CanRotate
  <2>2. t.bal[n] \in Int /\ t.bal[nr] \in Int
    BY <2>1, BalIsInt
  <2>3. nb \in Int
    BY <2>2, SCharRange DEF Most, Char
  <2>4. cb \in Int
    BY <2>2, <2>3 DEF Least
  <2>5. rotate_left(t, n) = r3
    BY <1>2 DEF rotate_left
  <2> HIDE DEF nb, nr, cb
  <2>6. Rearranged(t, r1, N, pos)
    BY <2>1, RaiseRearranges, <1>2 DEF CanRotate
  <2> HIDE DEF r1
  <2>7. Rearranged(r1, r2, N, pos)
    BY <2>1, <2>3, <2>6, SetBalRearranges DEF Rearranged
  <2> HIDE DEF r2
  <2>8. Rearranged(r2, r3, N, pos)
    BY <2>1, <2>4, <2>7, SetBalRearranges DEF Rearranged
  <2> QED BY <2>5, <2>6, <2>7, <2>8, RearrangedTwice
<1> QED BY <1>1, <1>2, SegvRearranges DEF rotate_right, rotate_left

-----------------------------------------------------------------------------
(* The rebalancing loop of a removal.                                      *)

\* A turn of the loop starts at a node of the tree.
Climbing(t, l, N, pos) ==
  Rearranged(t, l.t, N, pos) /\ (l.go => l.parent \in t.live)

\* Doing nothing rearranges nothing.
LEMMA RearrangedSelf ==
  ASSUME NEW t, NEW N, NEW pos, Ranked(t, N, pos)
  PROVE  Rearranged(t, t, N, pos)
BY DEF Rearranged

\* Leaving the loop of the removal is one of its steps.
LEMMA StopClimbs ==
  ASSUME NEW t, NEW u, NEW N, NEW pos, Rearranged(t, u, N, pos)
  PROVE  Climbing(t, Stop(u), N, pos)
BY DEF Climbing, Stop, Loop

\* Going on at the parent, or leaving at the root, is a step of the loop.
LEMMA HigherClimbs ==
  ASSUME NEW t, NEW u, NEW N, NEW pos, Rearranged(t, u, N, pos),
         NEW n \in t.live \cup {NULL}
  PROVE  Climbing(t, Higher(u, n), N, pos)
<1>1. Climbing(t, Stop(Segv(u)), N, pos)
  BY SegvRearranges, RearrangedTwice, StopClimbs DEF Rearranged
<1>2. Climbing(t, Stop(u), N, pos)
  BY StopClimbs
<1>3. ASSUME n # NULL, u.parent[n] # NULL
      PROVE  Climbing(t, Higher(u, n), N, pos)
  <2>1. u.parent[n] \in t.live
    BY <1>3, LiveNeighbours DEF Rearranged
  <2>2. \A s : Climbing(t, Loop(u, u.parent[n], s, TRUE), N, pos)
    BY <2>1 DEF Climbing, Loop
  <2> QED BY <2>2, <1>1, <1>3 DEF Higher
<1> QED BY <1>1, <1>2, <1>3 DEF Higher

\* Going on at the same node after a rotation is a step of the loop.
LEMMA RaiseAndGoClimbs ==
  ASSUME NEW t, NEW u, NEW v, NEW N, NEW pos, Rearranged(t, v, N, pos),
         NEW p \in t.live, NEW s
  PROVE  Climbing(t, RaiseAndGo(u, p, s, v), N, pos)
<1>1. v.parent[p] \in t.live \cup {NULL}
  BY LiveNeighbours DEF Rearranged
<1>2. Climbing(t, Stop(v), N, pos) /\ Climbing(t, Higher(v, v.parent[p]), N, pos)
  BY <1>1, StopClimbs, HigherClimbs
<1> QED BY <1>2 DEF RaiseAndGo

\* The branch for a left subtree that has become lower keeps the order.
LEMMA FixLeftClimbs ==
  ASSUME NEW t0, NEW N, NEW pos, Ranked(t0, N, pos), NEW p \in t0.live
  PROVE  Climbing(t0, FixLeft(t0, p), N, pos)
<1> DEFINE t == SetBal(t0, p, t0.bal[p] + 1)
           c == t.link["rlink"][p]
           r == rotate_left(rotate_right(t, c), p)
<1>1. p \in Nodes /\ t0.bal[p] + 1 \in Int
  BY LiveNeighbours, BalIsInt
<1>2. Rearranged(t0, t, N, pos)
  BY <1>1, SetBalRearranges
<1> HIDE DEF t
<1>3. c \in t0.live \cup {NULL}
  BY <1>2, LiveNeighbours DEF Rearranged, Side
<1> HIDE DEF c
<1>4. Rearranged(t0, rotate_left(t, p), N, pos)
  BY <1>2, RotateRearranges, RearrangedTwice DEF Rearranged
<1>5. Rearranged(t0, r, N, pos)
  <2>1. Rearranged(t0, rotate_right(t, c), N, pos)
    BY <1>2, <1>3, RotateRearranges, RearrangedTwice DEF Rearranged
  <2> QED BY <2>1, RotateRearranges, RearrangedTwice DEF Rearranged
<1> HIDE DEF r
<1>6. r.parent[p] \in t0.live \cup {NULL}
  BY <1>5, LiveNeighbours DEF Rearranged
<1>7. Rearranged(t0, Segv(t), N, pos)
  BY <1>2, SegvRearranges, RearrangedTwice DEF Rearranged
<1>8. /\ Climbing(t0, Higher(t, p), N, pos)
      /\ Climbing(t0, Stop(Segv(t)), N, pos)
      /\ Climbing(t0, Stop(t), N, pos)
      /\ Climbing(t0, Higher(r, r.parent[p]), N, pos)
      /\ Climbing(t0, RaiseAndGo(t, p, "rlink", rotate_left(t, p)), N, pos)
  BY <1>2, <1>4, <1>5, <1>6, <1>7, HigherClimbs, StopClimbs, RaiseAndGoClimbs
<1>9. FixLeft(t0, p) \in {Higher(t, p), Stop(Segv(t)), Stop(t), Higher(r, r.parent[p]),
                          RaiseAndGo(t, p, "rlink", rotate_left(t, p))}
  BY DEF FixLeft, t, c, r
<1> QED BY <1>8, <1>9

\* The branch for a right subtree that has become lower keeps the order.
LEMMA FixRightClimbs ==
  ASSUME NEW t0, NEW N, NEW pos, Ranked(t0, N, pos), NEW p \in t0.live
  PROVE  Climbing(t0, FixRight(t0, p), N, pos)
<1> DEFINE t1 == SetBal(t0, p, t0.bal[p] - 1)
           t  == SetBal(t1, p, t1.bal[p] - 1)
           c  == t.link["llink"][p]
           r  == rotate_left(t, c)
<1>1. p \in Nodes /\ t0.bal[p] - 1 \in Int
  BY LiveNeighbours, BalIsInt
<1>2. Rearranged(t0, t1, N, pos)
  BY <1>1, SetBalRearranges
<1> HIDE DEF t1
<1>3. Rearranged(t0, t, N, pos)
  <2>1. t1.bal[p] - 1 \in Int
    BY <1>1, <1>2, BalIsInt DEF Rearranged
  <2>2. Rearranged(t1, t, N, pos)
    BY <2>1, <1>1, <1>2, SetBalRearranges DEF Rearranged
  <2> QED BY <2>2, <1>2, RearrangedTwice
<1> HIDE DEF t
<1>4. c \in t0.live \cup {NULL}
  BY <1>3, LiveNeighbours DEF Rearranged, Side
<1> HIDE DEF c
<1>5. Rearranged(t0, r, N, pos)
  BY <1>3, <1>4, RotateRearranges, RearrangedTwice DEF Rearranged
<1> HIDE DEF r
<1>6. Rearranged(t0, rotate_right(t, p), N, pos)
  BY <1>3, RotateRearranges, RearrangedTwice DEF Rearranged
<1>7. r.parent[p] \in t0.live \cup {NULL}
  BY <1>5, LiveNeighbours DEF Rearranged
<1>8. Rearranged(t0, Segv(t), N, pos)
  BY <1>3, SegvRearranges, RearrangedTwice DEF Rearranged
<1>9. /\ Climbing(t0, Higher(t1, p), N, pos)
      /\ Climbing(t0, Stop(Segv(t)), N, pos)
      /\ Climbing(t0, Stop(t), N, pos)
      /\ Climbing(t0, Higher(r, r.parent[p]), N, pos)
      /\ Climbing(t0, RaiseAndGo(t, p, "llink", rotate_right(t, p)), N, pos)
  <2>1. Climbing(t0, Higher(t1, p), N, pos)
    BY <1>2, HigherClimbs
  <2>2. Climbing(t0, Stop(Segv(t)), N, pos) /\ Climbing(t0, Stop(t), N, pos)
    BY <1>3, <1>8, StopClimbs
  <2>3. Climbing(t0, Higher(r, r.parent[p]), N, pos)
    BY <1>5, <1>7, HigherClimbs
  <2>4. Climbing(t0, RaiseAndGo(t, p, "llink", rotate_right(t, p)), N, pos)
    BY <1>3, <1>6, RaiseAndGoClimbs
  <2> QED BY <2>1, <2>2, <2>3, <2>4
<1>10. FixRight(t0, p) \in {Higher(t1, p), Stop(Segv(t)), Stop(t), Higher(r, r.parent[p]),
                            RaiseAndGo(t, p, "llink", rotate_right(t, p))}
  BY Zenon DEF FixRight, t1, t, c, r
<1> QED BY <1>9, <1>10

\* One turn of the removal's loop keeps the order of the nodes.
LEMMA FixStepClimbs ==
  ASSUME NEW t, NEW l, NEW N, NEW pos, Climbing(t, l, N, pos)
  PROVE  Climbing(t, FixStep(l), N, pos)
<1>1. CASE ~l.go
  BY <1>1 DEF FixStep
<1>2. CASE l.go
  <2>1. l.parent \in l.t.live /\ Ranked(l.t, N, pos) /\ Rearranged(t, l.t, N, pos)
    BY <1>2 DEF Climbing, Rearranged
  <2>2. Climbing(l.t, FixStep(l), N, pos)
    BY <1>2, <2>1, FixLeftClimbs, FixRightClimbs DEF FixStep
  <2> QED BY <2>1, <2>2, RearrangedTwice DEF Climbing, Rearranged
<1> QED BY <1>1, <1>2

\* The loop's states after 0, 1, 2, ... turns are well defined, and each of
\* them keeps the entries and their order.
LEMMA FixRearranges ==
  ASSUME NEW t, NEW l, NEW N, NEW pos, Climbing(t, l, N, pos)
  PROVE  Rearranged(t, Fix(l), N, pos)
<1> DEFINE C == Cardinality(Nodes)
           Turns(it, n) == it = [i \in 0..n |-> IF i = 0 THEN l ELSE FixStep(it[i - 1])]
           T == {n \in Nat : \E it : Turns(it, n)}
<1>1. C \in Nat
  BY HbTreeAssumption, FS_CardinalityType
<1>2. 0 \in T
  <2>1. Turns([i \in 0..0 |-> l], 0)
    OBVIOUS
  <2> QED BY <2>1
<1>3. ASSUME NEW n \in T PROVE n + 1 \in T
  <2>1. PICK it : Turns(it, n)
    OBVIOUS
  <2> DEFINE jt == [i \in 0..(n + 1) |-> IF i = 0 THEN l ELSE FixStep(it[i - 1])]
  <2>2. \A i \in 0..n : jt[i] = it[i]
    BY <2>1
  <2>3. \A i \in 0..(n + 1) : i # 0 => jt[i - 1] = it[i - 1]
    BY <2>2, SMTT(30)
  <2>4. Turns(jt, n + 1)
    BY <2>3
  <2> HIDE DEF jt, Turns
  <2> QED BY <2>4
<1>4. C \in T
  <2>1. T \subseteq Nat
    OBVIOUS
  <2> HIDE DEF T
  <2> QED BY <2>1, <1>1, <1>2, <1>3, Induction
<1> DEFINE it == CHOOSE it : Turns(it, C)
<1>5. Turns(it, C)
  BY <1>4
<1>6. Fix(l) = it[C].t
  BY DEF Fix
<1> HIDE DEF it
<1> DEFINE G == {n \in Nat : n <= C => Climbing(t, it[n], N, pos)}
<1>7. 0 \in G
  BY <1>1, <1>5
<1>8. ASSUME NEW n \in G PROVE n + 1 \in G
  <2> SUFFICES ASSUME n + 1 <= C PROVE Climbing(t, it[n + 1], N, pos)
    OBVIOUS
  <2>1. Climbing(t, it[n], N, pos)
    BY <1>1
  <2>2. it[n + 1] = FixStep(it[n])
    BY <1>1, <1>5
  <2> QED BY <2>1, <2>2, FixStepClimbs
<1>9. C \in G
  <2>1. G \subseteq Nat
    OBVIOUS
  <2> HIDE DEF G
  <2> QED BY <2>1, <1>1, <1>7, <1>8, Induction
<1>10. Climbing(t, it[C], N, pos)
  BY <1>1, <1>9
<1> QED BY <1>6, <1>10 DEF Climbing

-----------------------------------------------------------------------------
(* Walks down the tree.                                                    *)

\* What a walk from n returns, if go returns it for the children of n.
Going(t, turn, go, n) ==
  IF n = NULL THEN <<>>
  ELSE IF turn[n] = "stop" THEN <<n>>
  ELSE <<n>> \o go[t.link[turn[n]][n]]

\* Every walk comes to an end, since every step down makes the numbers fewer:
\* the recursive definition of Walk has a solution.
LEMMA WalkIsDefined ==
  ASSUME NEW t, NEW N, NEW pos, Ranked(t, N, pos),
         NEW turn \in [t.live -> Side \cup {"stop"}]
  PROVE  \E go : /\ go = [n \in t.live \cup {NULL} |-> Going(t, turn, go, n)]
                 /\ \A from : Walk(t, from, turn) = go[from]
<1>1. PICK lo, hi : Nested(t, N, pos, lo, hi)
  BY DEF Ranked
<1>2. /\ t \in Tree /\ N \in Int /\ pos \in [Nodes -> Int]
      /\ t.live \subseteq Nodes /\ NULL \notin t.live
      /\ lo \in [Nodes -> Int] /\ hi \in [Nodes -> Int]
  BY <1>1, NullIsNoNode DEF Ranked, Nested, Tree
<1> DEFINE Below(m) == {n \in t.live : hi[n] - lo[n] < m}
           Goes(go, m) == go = [n \in Below(m) \cup {NULL} |-> Going(t, turn, go, n)]
           T == {m \in Nat : \E go : Goes(go, m)}
<1>3. \A n \in t.live : /\ hi[n] - lo[n] \in Int /\ 0 <= hi[n] - lo[n]
                        /\ hi[n] - lo[n] < N
  BY <1>1, <1>2 DEF Nested
<1>4. 0 \in T
  <2>1. Below(0) = {}
    BY <1>3
  <2>2. Goes([n \in {NULL} |-> <<>>], 0)
    BY <2>1 DEF Going
  <2> HIDE DEF Goes
  <2> QED BY <2>2
<1>5. ASSUME NEW m \in T PROVE m + 1 \in T
  <2>0. m \in Nat
    OBVIOUS
  <2>1. PICK go : Goes(go, m)
    OBVIOUS
  <2> DEFINE go2 == [n \in Below(m + 1) \cup {NULL} |-> Going(t, turn, go, n)]
  <2>2. Below(m) \subseteq Below(m + 1)
    BY <2>0, <1>3
  <2>3. \A n \in Below(m) \cup {NULL} : go2[n] = go[n]
    BY <2>1, <2>2
  <2>4. ASSUME NEW n \in Below(m + 1), turn[n] # "stop"
        PROVE  t.link[turn[n]][n] \in Below(m) \cup {NULL}
    <3>1. n \in t.live /\ turn[n] \in Side /\ hi[n] - lo[n] < m + 1
      BY <2>4
    <3> DEFINE c == t.link[turn[n]][n]
    <3>2. c # NULL => c \in t.live /\ hi[c] - lo[c] < hi[n] - lo[n]
      BY <3>1, <1>1, <1>2, ChildInside
    <3> HIDE DEF c
    <3>3. c # NULL => hi[c] - lo[c] < m
      BY <3>1, <3>2, <1>3, <2>0, SMTT(30)
    <3> QED BY <3>2, <3>3 DEF c
  <2>5. \A n \in Below(m + 1) \cup {NULL} : Going(t, turn, go, n) = Going(t, turn, go2, n)
    BY <2>3, <2>4 DEF Going
  <2>6. Goes(go2, m + 1)
    BY <2>5
  <2> HIDE DEF go2, Goes
  <2> QED BY <2>0, <2>6
<1>6. T = Nat
  <2>1. T \subseteq Nat
    OBVIOUS
  <2> HIDE DEF T
  <2> QED BY <2>1, <1>4, <1>5, Induction
<1>7. \E go : go = [n \in t.live \cup {NULL} |-> Going(t, turn, go, n)]
  <2> DEFINE M == IF N >= 0 THEN N ELSE 0
  <2>1. M \in T
    <3>1. M \in Nat
      BY <1>2
    <3> HIDE DEF T
    <3> QED BY <3>1, <1>6
  <2>2. Below(M) = t.live
    BY <1>2, <1>3
  <2> QED BY <2>1, <2>2
<1> DEFINE go == CHOOSE go : go = [n \in t.live \cup {NULL} |-> Going(t, turn, go, n)]
<1>8. go = [n \in t.live \cup {NULL} |-> Going(t, turn, go, n)]
  BY <1>7
<1>9. \A from : Walk(t, from, turn) = go[from]
  BY DEF Walk, Going
<1> HIDE DEF go
<1> QED BY <1>8, <1>9

\* What holds of a node as soon as it holds of its children holds of all.
LEMMA ChildrenFirst ==
  ASSUME NEW t, NEW N, NEW pos, Ranked(t, N, pos), NEW P, P \subseteq t.live,
         \A n \in t.live :
           (\A s \in Side : t.link[s][n] # NULL => t.link[s][n] \in P) => n \in P
  PROVE  P = t.live
<1>1. PICK lo, hi : Nested(t, N, pos, lo, hi)
  BY DEF Ranked
<1>2. /\ t \in Tree /\ N \in Int /\ pos \in [Nodes -> Int]
      /\ t.live \subseteq Nodes
      /\ lo \in [Nodes -> Int] /\ hi \in [Nodes -> Int]
  BY <1>1 DEF Ranked, Nested, Tree
<1> SUFFICES ASSUME t.live \ P # {} PROVE FALSE
  OBVIOUS
<1> DEFINE rank == [n \in t.live \ P |-> hi[n] - lo[n]]
<1>3. \A n \in t.live : hi[n] - lo[n] \in Nat
  BY <1>1, <1>2 DEF Nested
<1>4. rank \in [t.live \ P -> Nat]
  BY <1>3
<1>5. PICK n \in t.live \ P : \A m \in t.live \ P : rank[n] <= rank[m]
  <2> HIDE DEF rank
  <2> QED BY <1>4, LeastBy
<1>6. \A m \in t.live \ P : hi[n] - lo[n] <= hi[m] - lo[m]
  BY <1>5
<1>7. ASSUME NEW s \in Side, t.link[s][n] # NULL PROVE t.link[s][n] \in P
  <2> DEFINE c == t.link[s][n]
  <2>1. c \in t.live /\ hi[c] - lo[c] < hi[n] - lo[n]
    BY <1>1, <1>2, <1>7, ChildInside
  <2> HIDE DEF c
  <2>2. ~(hi[n] - lo[n] <= hi[c] - lo[c])
    BY <2>1, <1>3
  <2> QED BY <2>1, <2>2, <1>6 DEF c
<1> QED BY <1>7

\* The last element of a longer sequence.
LEMMA LastOfLonger ==
  ASSUME NEW S, NEW x \in S, NEW q \in Seq(S), q # <<>>
  PROVE  <<x>> \o q \in Seq(S) /\ <<x>> \o q # <<>> /\ Last(<<x>> \o q) = Last(q)
BY DEF Last

\* A sequence of one element, and its last.
LEMMA OneThenNone ==
  ASSUME NEW S, NEW x \in S
  PROVE  <<x>> \o <<>> = <<x>> /\ <<x>> \in Seq(S) /\ <<x>> # <<>> /\ Last(<<x>>) = x
<1>1. <<x>> \in Seq(S)
  OBVIOUS
<1>2. <<x>> \o <<>> = <<x>>
  BY <1>1, ConcatEmptySeq
<1> QED BY <1>1, <1>2 DEF Last

\* Where a walk ends: at the first node at which it stops or has no way on.
LEMMA WalkEnds ==
  ASSUME NEW t, NEW N, NEW pos, Ranked(t, N, pos),
         NEW turn \in [t.live -> Side \cup {"stop"}]
  PROVE  /\ Walk(t, NULL, turn) = <<>>
         /\ \E end \in [t.live -> t.live] :
              \A n \in t.live :
                /\ Walk(t, n, turn) \in Seq(t.live) /\ Walk(t, n, turn) # <<>>
                /\ Last(Walk(t, n, turn)) = end[n]
                /\ end[n] = IF turn[n] = "stop" THEN n
                            ELSE IF t.link[turn[n]][n] = NULL THEN n
                            ELSE end[t.link[turn[n]][n]]
<1>1. PICK go : /\ go = [n \in t.live \cup {NULL} |-> Going(t, turn, go, n)]
                /\ \A from : Walk(t, from, turn) = go[from]
  BY WalkIsDefined
<1>2. go[NULL] = <<>> /\ \A n \in t.live : go[n] = Going(t, turn, go, n)
  BY <1>1 DEF Going
<1>3. NULL \notin t.live
  BY NullIsNoNode DEF Ranked, Tree
<1>4. \A n \in t.live, s \in Side : t.link[s][n] \in t.live \cup {NULL}
  BY LiveNeighbours
<1> DEFINE P == {n \in t.live : go[n] \in Seq(t.live) /\ go[n] # <<>>}
<1>5. ASSUME NEW n \in t.live
      PROVE  \/ go[n] = <<n>> /\ (turn[n] = "stop" \/ t.link[turn[n]][n] = NULL)
             \/ /\ turn[n] # "stop" /\ turn[n] \in Side /\ t.link[turn[n]][n] # NULL
                /\ go[n] = <<n>> \o go[t.link[turn[n]][n]]
  <2>1. CASE turn[n] = "stop"
    BY <2>1, <1>2, <1>3 DEF Going
  <2>2. CASE turn[n] # "stop" /\ t.link[turn[n]][n] = NULL
    BY <2>2, <1>2, <1>3, OneThenNone DEF Going
  <2>3. CASE turn[n] # "stop" /\ t.link[turn[n]][n] # NULL
    BY <2>3, <1>2, <1>3 DEF Going
  <2> QED BY <2>1, <2>2, <2>3
<1>6. P = t.live
  <2>1. ASSUME NEW n \in t.live,
               \A s \in Side : t.link[s][n] # NULL => t.link[s][n] \in P
        PROVE  n \in P
    <3>1. CASE go[n] = <<n>>
      BY <3>1, OneThenNone, ZenonT(30)
    <3>2. CASE /\ turn[n] # "stop" /\ turn[n] \in Side /\ t.link[turn[n]][n] # NULL
               /\ go[n] = <<n>> \o go[t.link[turn[n]][n]]
      <4> DEFINE c == t.link[turn[n]][n]
      <4>1. c \in P
        BY <3>2, <2>1
      <4>2. go[c] \in Seq(t.live) /\ go[c] # <<>>
        BY <4>1
      <4> HIDE DEF c
      <4>3. <<n>> \o go[c] \in Seq(t.live) /\ <<n>> \o go[c] # <<>>
        BY <4>2, LastOfLonger
      <4> QED BY <4>3, <3>2 DEF c
    <3> QED BY <3>1, <3>2, <1>5
  <2>2. P \subseteq t.live
    OBVIOUS
  <2> HIDE DEF P
  <2> QED BY <2>1, <2>2, ChildrenFirst
<1> DEFINE end == [n \in t.live |-> Last(go[n])]
<1>7. \A n \in t.live : go[n] \in Seq(t.live) /\ go[n] # <<>>
  BY <1>6
<1>8. end \in [t.live -> t.live]
  BY <1>7 DEF Last
<1>9. ASSUME NEW n \in t.live
      PROVE  Last(go[n]) = IF turn[n] = "stop" THEN n
                           ELSE IF t.link[turn[n]][n] = NULL THEN n
                           ELSE Last(go[t.link[turn[n]][n]])
  <2>1. CASE go[n] = <<n>> /\ (turn[n] = "stop" \/ t.link[turn[n]][n] = NULL)
    BY <2>1 DEF Last
  <2>2. CASE /\ turn[n] # "stop" /\ turn[n] \in Side /\ t.link[turn[n]][n] # NULL
             /\ go[n] = <<n>> \o go[t.link[turn[n]][n]]
    <3> DEFINE c == t.link[turn[n]][n]
    <3>1. c \in t.live
      BY <2>2, <1>4
    <3> HIDE DEF c
    <3>2. Last(<<n>> \o go[c]) = Last(go[c])
      BY <3>1, <1>7, LastOfLonger
    <3> QED BY <2>2, <3>2, ZenonT(30) DEF c
  <2> QED BY <2>1, <2>2, <1>5
<1>10. \A n \in t.live : turn[n] # "stop" /\ t.link[turn[n]][n] # NULL => t.link[turn[n]][n] \in t.live
  BY <1>4
<1>11. \A n \in t.live :
         /\ end[n] = Last(go[n])
         /\ end[n] = IF turn[n] = "stop" THEN n
                     ELSE IF t.link[turn[n]][n] = NULL THEN n
                     ELSE end[t.link[turn[n]][n]]
  BY <1>9, <1>10
<1> HIDE DEF end
<1>12. \A n \in t.live :
         /\ Walk(t, n, turn) \in Seq(t.live) /\ Walk(t, n, turn) # <<>>
         /\ Last(Walk(t, n, turn)) = end[n]
  BY <1>1, <1>7, <1>11, ZenonT(30)
<1>13. Walk(t, NULL, turn) = <<>>
  BY <1>1, <1>2
<1> QED BY <1>8, <1>11, <1>12, <1>13

-----------------------------------------------------------------------------
(* Searches.                                                               *)

\* Allocated nodes bear names, which are numbers, and descriptors.
LEMMA KeysAreInts ==
  ASSUME NEW t, Typed(t)
  PROVE  /\ t \in Tree /\ t.live \subseteq Nodes /\ NULL \notin t.live
         /\ Keys \subseteq Int
         /\ \A n \in t.live : t.key[n] \in Keys /\ t.key[n] \in Int /\ t.fd[n] \in Fds
<1>1. t \in Tree /\ \A n \in t.live : t.key[n] \in Keys /\ t.fd[n] \in Fds
  BY DEF Typed
<1>2. t.live \subseteq Nodes
  BY <1>1 DEF Tree
<1> QED BY <1>1, <1>2, HbTreeAssumption

\* A tree with a shape is one whose nodes are ranked.
LEMMA ShapeIsRanked ==
  ASSUME NEW t, NEW N, NEW o, NEW pos, Typed(t), Shape(t, N, o, pos)
  PROVE  Ranked(t, N, pos)
BY DEF Typed, Shape, Numbered, Ranked

\* Without a root there is no node; the root is allocated.
LEMMA NoRootNoNode ==
  ASSUME NEW t, NEW N, NEW o, NEW pos, Shape(t, N, o, pos)
  PROVE  IF t.root = NULL THEN N = 0 /\ t.live = {} ELSE t.root \in t.live
<1>1. PICK lo, hi : Nested(t, N, pos, lo, hi)
  BY DEF Shape
<1>2. IF t.root = NULL THEN N = 0 ELSE t.root \in t.live
  BY <1>1 DEF Nested, Rooted
<1>3. \A n \in t.live : pos[n] \in 1..N
  BY DEF Shape, Numbered
<1> QED BY <1>2, <1>3

\* The comparisons lead a search to a node of that name whenever there is one.
LEMMA FindFinds ==
  ASSUME NEW t, NEW N, NEW o, NEW pos,
         Typed(t), Shape(t, N, o, pos), Sorted(t, pos), NEW k \in Keys
  PROVE  /\ Find(t, k) = NULL => \A n \in t.live : t.key[n] # k
         /\ Find(t, k) # NULL => Find(t, k) \in t.live /\ t.key[Find(t, k)] = k
<1> DEFINE turn == [n \in t.live |-> FindTurn(t, k, n)]
<1>1. turn \in [t.live -> Side \cup {"stop"}]
  BY DEF FindTurn, Side
<1>2. Ranked(t, N, pos)
  BY ShapeIsRanked
<1> HIDE DEF turn
<1>3. PICK end \in [t.live -> t.live] :
        \A n \in t.live :
          /\ Walk(t, n, turn) \in Seq(t.live) /\ Walk(t, n, turn) # <<>>
          /\ Last(Walk(t, n, turn)) = end[n]
          /\ end[n] = IF turn[n] = "stop" THEN n
                      ELSE IF t.link[turn[n]][n] = NULL THEN n
                      ELSE end[t.link[turn[n]][n]]
  BY <1>1, <1>2, WalkEnds
<1>4. Walk(t, NULL, turn) = <<>>
  BY <1>1, <1>2, WalkEnds
<1>5. Find(t, k) = IF Walk(t, t.root, turn) # <<>> /\ t.key[Last(Walk(t, t.root, turn))] = k
                   THEN Last(Walk(t, t.root, turn)) ELSE NULL
  BY DEF Find, turn
<1>6. PICK lo, hi : Nested(t, N, pos, lo, hi)
  BY DEF Shape
<1>7. /\ t \in Tree /\ t.live \subseteq Nodes /\ NULL \notin t.live
      /\ k \in Int /\ \A n \in t.live : t.key[n] \in Int
  BY KeysAreInts
<1>8. /\ lo \in [Nodes -> Int] /\ hi \in [Nodes -> Int] /\ pos \in [Nodes -> Int]
      /\ \A m, n \in t.live : pos[m] = pos[n] => m = n
  BY <1>6 DEF Shape, Numbered, Nested
<1> DEFINE Holds(n) == \E y \in t.live : t.key[y] = k /\ lo[n] <= pos[y] /\ pos[y] <= hi[n]
           P == {n \in t.live : Holds(n) => t.key[end[n]] = k}
<1>9. ASSUME NEW n \in t.live,
             \A s \in Side : t.link[s][n] # NULL => t.link[s][n] \in P
      PROVE  n \in P
  <2> SUFFICES ASSUME NEW y \in t.live,
                      t.key[y] = k, lo[n] <= pos[y], pos[y] <= hi[n]
               PROVE  t.key[end[n]] = k
    OBVIOUS
  <2>0. "llink" \in Side /\ "rlink" \in Side
    BY DEF Side
  <2>1. CASE t.key[n] = k
    <3>1. turn[n] = "stop"
      BY <2>1, <1>7 DEF turn, FindTurn
    <3> QED BY <3>1, <2>1, <1>3
  <2>2. CASE k < t.key[n]
    <3>1. turn[n] = "llink"
      BY <2>2 DEF turn, FindTurn
    <3>2. pos[y] < pos[n]
      BY <2>2, <1>7, <1>8 DEF Sorted
    <3> DEFINE c == t.link["llink"][n]
    <3>3. c # NULL
      BY <3>2, <1>6, <1>7, <1>8 DEF Nested, LeftOf
    <3>4. c \in P /\ lo[c] = lo[n] /\ hi[c] = pos[n] - 1
      BY <3>3, <2>0, <1>6, <1>7, <1>8, <1>9, ChildInside
    <3>5. end[n] = end[c]
      BY <3>1, <3>3, <1>3
    <3> HIDE DEF c
    <3>6. Holds(c)
      BY <3>2, <3>4, <1>7, <1>8
    <3> QED BY <3>4, <3>5, <3>6
  <2>3. CASE t.key[n] < k
    <3>1. turn[n] = "rlink"
      BY <2>3, <1>7 DEF turn, FindTurn
    <3>2. pos[n] < pos[y]
      BY <2>3, <1>7, <1>8 DEF Sorted
    <3> DEFINE c == t.link["rlink"][n]
    <3>3. c # NULL
      BY <3>2, <1>6, <1>7, <1>8 DEF Nested, RightOf
    <3>4. c \in P /\ hi[c] = hi[n] /\ lo[c] = pos[n] + 1
      BY <3>3, <2>0, <1>6, <1>7, <1>8, <1>9, ChildInside
    <3>5. end[n] = end[c]
      BY <3>1, <3>3, <1>3
    <3> HIDE DEF c
    <3>6. Holds(c)
      BY <3>2, <3>4, <1>7, <1>8
    <3> QED BY <3>4, <3>5, <3>6
  <2> QED BY <2>1, <2>2, <2>3, <1>7
<1>10. P = t.live
  <2>1. P \subseteq t.live
    OBVIOUS
  <2> HIDE DEF P
  <2> QED BY <2>1, <1>2, <1>9, ChildrenFirst
<1>11. CASE t.root = NULL
  BY <1>4, <1>5, <1>11, NoRootNoNode
<1>12. CASE t.root # NULL
  <2>1. t.root \in t.live /\ lo[t.root] = 1 /\ hi[t.root] = N
    BY <1>12, <1>6, NoRootNoNode DEF Nested, Rooted
  <2>2. \A y \in t.live : 1 <= pos[y] /\ pos[y] <= N
    BY DEF Shape, Numbered
  <2>3. Find(t, k) = IF t.key[end[t.root]] = k THEN end[t.root] ELSE NULL
    BY <2>1, <1>3, <1>5
  <2>4. (\E y \in t.live : t.key[y] = k) => t.key[end[t.root]] = k
    BY <2>1, <2>2, <1>10
  <2>5. end[t.root] \in t.live
    BY <2>1
  <2> QED BY <2>3, <2>4, <2>5, <1>7
<1> QED BY <1>11, <1>12

-----------------------------------------------------------------------------
(* Insertion.                                                              *)

\* The numbering with a new node x at place p.
WithNew(N, o, p, x) ==
  [i \in 1..(N + 1) |-> IF i < p THEN o[i] ELSE IF i = p THEN x ELSE o[i - 1]]

Shifted(pos, p, x) ==
  [y \in Nodes |-> IF y = x THEN p ELSE IF pos[y] >= p THEN pos[y] + 1 ELSE pos[y]]

\* Field by field, the tree to which a new node has been linked.
LEMMA NewNodeFields ==
  ASSUME NEW t \in Tree, NEW x \in Nodes \ t.live, NEW k \in Keys, NEW f \in Fds,
         NEW junk \in Char, NEW parent \in Ptr, NEW s \in Side,
         NEW u, u = NewNode(t, x, k, f, junk, parent, s)
  PROVE  /\ u \in Tree
         /\ u.live = t.live \cup {x} /\ u.fault = t.fault
         /\ u.root = IF parent = NULL THEN x ELSE t.root
         /\ \A y \in Nodes :
              /\ u.key[y] = IF y = x THEN k ELSE t.key[y]
              /\ u.fd[y]  = IF y = x THEN f ELSE t.fd[y]
              /\ u.bal[y] = IF y = x THEN junk ELSE t.bal[y]
              /\ u.parent[y] = IF y = x THEN parent ELSE t.parent[y]
         /\ \A y \in Side, n \in Nodes :
              u.link[y][n] = IF n = x THEN NULL
                             ELSE IF n = parent /\ y = s THEN x
                             ELSE t.link[y][n]
<1> DEFINE L(y, n) == IF n = x THEN NULL
                      ELSE IF n = parent /\ y = s THEN x
                      ELSE t.link[y][n]
           link == [y \in Side |-> [n \in Nodes |-> L(y, n)]]
           v == [t EXCEPT !.live      = @ \cup {x},
                          !.key[x]    = k,
                          !.fd[x]     = f,
                          !.bal[x]    = junk,
                          !.parent[x] = parent,
                          !.root      = IF parent = NULL THEN x ELSE @,
                          !.link      = link]
<1>1. \A y \in Side, n \in Nodes : L(y, n) \in Ptr
  BY DEF Tree, Ptr
<1>2. NewNode(t, x, k, f, junk, parent, s) = v
  BY DEF NewNode
<1> HIDE DEF L
<1>3. link \in [Side -> [Nodes -> Ptr]]
  BY <1>1
<1> HIDE DEF link
<1>4. /\ v.live = t.live \cup {x} /\ v.fault = t.fault
      /\ v.root = IF parent = NULL THEN x ELSE t.root
      /\ v.key = [t.key EXCEPT ![x] = k] /\ v.fd = [t.fd EXCEPT ![x] = f]
      /\ v.bal = [t.bal EXCEPT ![x] = junk]
      /\ v.parent = [t.parent EXCEPT ![x] = parent]
      /\ v.link = link
  BY DEF Tree
<1>5. v \in Tree
  BY <1>3, ZenonT(30) DEF Tree, Ptr
<1> HIDE DEF v
<1>6. \A y \in Side, n \in Nodes : v.link[y][n] = L(y, n)
  BY <1>4 DEF link
<1>7. \A y \in Nodes :
        /\ v.key[y] = IF y = x THEN k ELSE t.key[y]
        /\ v.fd[y]  = IF y = x THEN f ELSE t.fd[y]
        /\ v.bal[y] = IF y = x THEN junk ELSE t.bal[y]
        /\ v.parent[y] = IF y = x THEN parent ELSE t.parent[y]
  BY <1>4 DEF Tree
<1> QED BY <1>2, <1>4, <1>5, <1>6, <1>7 DEF L

\* The new node takes number p, and those from p on move up by one.
LEMMA NewNodeNumbered ==
  ASSUME NEW t, NEW u, NEW N, NEW o, NEW pos, Numbered(t, N, o, pos), t.live \subseteq Nodes,
         NEW x \in Nodes \ t.live, u.live = t.live \cup {x}, NEW p \in 1..(N + 1)
  PROVE  Numbered(u, N + 1, WithNew(N, o, p, x), Shifted(pos, p, x))
<1> DEFINE o2 == WithNew(N, o, p, x)
           pos2 == Shifted(pos, p, x)
<1>1. /\ N \in Nat /\ p \in Nat /\ 1 <= p /\ p <= N + 1
      /\ o \in [1..N -> t.live]
      /\ pos \in [Nodes -> Int]
      /\ \A i \in 1..N : pos[o[i]] = i
      /\ \A n \in t.live : pos[n] \in 1..N /\ o[pos[n]] = n
  BY DEF Numbered
<1>2. \A i \in 1..(N + 1) : o2[i] = IF i < p THEN o[i] ELSE IF i = p THEN x ELSE o[i - 1]
  BY DEF WithNew
<1>3. \A y \in Nodes : pos2[y] = IF y = x THEN p ELSE IF pos[y] >= p THEN pos[y] + 1 ELSE pos[y]
  BY DEF Shifted
<1>4. o2 \in [1..(N + 1) -> u.live]
  BY <1>1 DEF WithNew
<1>5. pos2 \in [Nodes -> Int]
  BY <1>1 DEF Shifted
<1> HIDE DEF o2, pos2
<1>6. ASSUME NEW i \in 1..(N + 1) PROVE pos2[o2[i]] = i
  <2>1. CASE i < p
    <3>1. i \in 1..N
      BY <2>1, <1>1
    <3> QED BY <2>1, <3>1, <1>1, <1>2, <1>3
  <2>2. CASE i = p
    BY <2>2, <1>2, <1>3
  <2>3. CASE i > p
    <3>1. i - 1 \in 1..N
      BY <2>3, <1>1
    <3>2. o2[i] = o[i - 1] /\ o[i - 1] \in t.live /\ pos[o[i - 1]] = i - 1
      BY <2>3, <3>1, <1>1, <1>2
    <3> QED BY <2>3, <3>2, <1>1, <1>3
  <2> QED BY <2>1, <2>2, <2>3, <1>1
<1>7. ASSUME NEW n \in u.live PROVE pos2[n] \in 1..(N + 1) /\ o2[pos2[n]] = n
  <2>1. CASE n = x
    BY <2>1, <1>1, <1>2, <1>3
  <2>2. CASE n \in t.live
    <3>1. n # x /\ pos[n] \in 1..N /\ o[pos[n]] = n /\ n \in Nodes
      BY <2>2, <1>1
    <3>2. CASE pos[n] >= p
      <4>1. pos2[n] = pos[n] + 1 /\ pos2[n] \in 1..(N + 1) /\ pos2[n] > p
        BY <3>1, <3>2, <1>1, <1>3
      <4>2. o2[pos2[n]] = o[pos2[n] - 1]
        BY <4>1, <1>1, <1>2
      <4> QED BY <3>1, <4>1, <4>2
    <3>3. CASE pos[n] < p
      BY <3>1, <3>3, <1>1, <1>2, <1>3
    <3> QED BY <3>1, <3>2, <3>3, <1>1
  <2> QED BY <2>1, <2>2
<1>8. N + 1 \in Nat
  BY <1>1
<1> QED BY <1>4, <1>5, <1>6, <1>7, <1>8 DEF Numbered, o2, pos2

\* The place of a new child of parent on side s.
PlaceAt(t, pos, parent, s) ==
  IF parent = NULL THEN 1 ELSE IF s = "llink" THEN pos[parent] ELSE pos[parent] + 1

\* A new leaf takes the number next to its parent, on its side: the
\* intervals of the others still nest.
LEMMA NewNodeNested ==
  ASSUME NEW t, NEW N, NEW o, NEW pos, Numbered(t, N, o, pos),
         NEW lo, NEW hi, Nested(t, N, pos, lo, hi), t \in Tree,
         NEW x \in Nodes \ t.live, NEW k \in Keys, NEW f \in Fds, NEW junk \in Char,
         NEW parent \in t.live, NEW s \in Side, t.link[s][parent] = NULL
  PROVE  LET p == PlaceAt(t, pos, parent, s)
         IN  /\ p \in 1..(N + 1)
             /\ \E lo2, hi2 : Nested(NewNode(t, x, k, f, junk, parent, s), N + 1,
                                     Shifted(pos, p, x), lo2, hi2)
<1> DEFINE p == PlaceAt(t, pos, parent, s)
           q == pos[parent]
           u == NewNode(t, x, k, f, junk, parent, s)
           pos2 == Shifted(pos, p, x)
           lo2 == [y \in Nodes |-> IF y = x THEN p ELSE IF lo[y] > q THEN lo[y] + 1 ELSE lo[y]]
           hi2 == [y \in Nodes |-> IF y = x THEN p ELSE IF hi[y] >= q THEN hi[y] + 1 ELSE hi[y]]
<1>1. /\ t.live \subseteq Nodes /\ parent \in Nodes /\ parent # x
      /\ NULL \notin Nodes /\ NULL \notin t.live
      /\ s \in {"llink", "rlink"} /\ "llink" \in Side /\ "rlink" \in Side
      /\ N \in Int
  BY NullIsNoNode DEF Tree, Side, Numbered
<1>2. /\ \A n \in t.live : pos[n] \in 1..N
      /\ \A m, n \in t.live : pos[m] = pos[n] => m = n
      /\ pos \in [Nodes -> Int]
      /\ lo \in [Nodes -> Int] /\ hi \in [Nodes -> Int]
  BY DEF Numbered, Nested
<1>3. p = (IF s = "llink" THEN q ELSE q + 1) /\ p \in 1..(N + 1) /\ p \in Int /\ q \in 1..N
  BY <1>1, <1>2 DEF PlaceAt
<1>4. /\ u \in Tree
      /\ u.live = t.live \cup {x}
      /\ u.root = t.root
      /\ \A y \in Nodes : u.parent[y] = IF y = x THEN parent ELSE t.parent[y]
      /\ \A y \in Side, n \in Nodes :
           u.link[y][n] = IF n = x THEN NULL
                          ELSE IF n = parent /\ y = s THEN x
                          ELSE t.link[y][n]
  <2>1. parent \in Ptr
    BY <1>1 DEF Ptr
  <2>0. u = NewNode(t, x, k, f, junk, parent, s)
    OBVIOUS
  <2> HIDE DEF u
  <2>2. /\ u \in Tree
        /\ u.live = t.live \cup {x}
        /\ u.root = IF parent = NULL THEN x ELSE t.root
        /\ \A y \in Nodes : u.parent[y] = IF y = x THEN parent ELSE t.parent[y]
        /\ \A y \in Side, n \in Nodes :
             u.link[y][n] = IF n = x THEN NULL
                            ELSE IF n = parent /\ y = s THEN x
                            ELSE t.link[y][n]
    BY <2>1, <2>0, NewNodeFields
  <2>3. t.parent \in [Nodes -> Ptr]
    BY DEF Tree
  <2> QED BY <1>1, <2>2, <2>3
<1> HIDE DEF p, u
<1>5. \A y \in Nodes : pos2[y] = IF y = x THEN p ELSE IF pos[y] >= p THEN pos[y] + 1 ELSE pos[y]
  BY DEF Shifted
<1>6. \A y \in Nodes :
        /\ lo2[y] = IF y = x THEN p ELSE IF lo[y] > q THEN lo[y] + 1 ELSE lo[y]
        /\ hi2[y] = IF y = x THEN p ELSE IF hi[y] >= q THEN hi[y] + 1 ELSE hi[y]
  OBVIOUS
<1>7. lo2 \in [Nodes -> Int] /\ hi2 \in [Nodes -> Int]
  BY <1>2, <1>3
<1> HIDE DEF pos2, lo2, hi2, q
<1>8. q = pos[parent]
  BY DEF q
<1>9. \A y \in t.live : /\ 1 <= lo[y] /\ lo[y] <= pos[y] /\ pos[y] <= hi[y] /\ hi[y] <= N
                        /\ LeftOf(t, pos, lo, hi, y)
                        /\ RightOf(t, pos, lo, hi, y)
                        /\ Hangs(t, y)
  BY DEF Nested
<1>10. Rooted(u, N + 1, lo2, hi2)
  <2>1. t.root \in t.live /\ t.parent[t.root] = NULL /\ lo[t.root] = 1 /\ hi[t.root] = N
    BY <1>1, <1>2 DEF Nested, Rooted
  <2>2. t.root # NULL /\ t.root # x /\ t.root \in Nodes
    BY <2>1, <1>1
  <2>3. lo2[t.root] = 1 /\ hi2[t.root] = N + 1
    BY <2>1, <2>2, <1>3, <1>6
  <2> QED BY <2>1, <2>2, <2>3, <1>4 DEF Rooted
<1>11. ASSUME NEW y \in u.live
       PROVE  /\ 1 <= lo2[y] /\ lo2[y] <= pos2[y] /\ pos2[y] <= hi2[y] /\ hi2[y] <= N + 1
              /\ LeftOf(u, pos2, lo2, hi2, y)
              /\ RightOf(u, pos2, lo2, hi2, y)
              /\ Hangs(u, y)
  <2>1. CASE y = x
    <3>1. lo2[y] = p /\ pos2[y] = p /\ hi2[y] = p
      BY <2>1, <1>5, <1>6
    <3>2. u.link["llink"][y] = NULL /\ u.link["rlink"][y] = NULL
      BY <2>1, <1>1, <1>4
    <3>3. u.parent[y] = parent /\ u.link[s][parent] = x
      BY <2>1, <1>1, <1>4
    <3>4. Hangs(u, y)
      BY <3>3, <2>1, <1>1, <1>4 DEF Hangs
    <3> QED BY <3>1, <3>2, <3>4, <1>3 DEF LeftOf, RightOf
  <2>2. CASE y # x
    <3>0. y \in t.live /\ y \in Nodes
      BY <2>2, <1>1, <1>4
    <3>1. 1 <= lo2[y] /\ lo2[y] <= pos2[y] /\ pos2[y] <= hi2[y] /\ hi2[y] <= N + 1
      BY <3>0, <2>2, <1>1, <1>2, <1>3, <1>5, <1>6, <1>9
    <3>2. LeftOf(u, pos2, lo2, hi2, y)
      <4>1. CASE y = parent /\ s = "llink"
        <5>1. lo[y] = pos[y]
          BY <4>1, <3>0, <1>9 DEF LeftOf
        <5> QED BY <4>1, <5>1, <3>0, <2>2, <1>1, <1>2, <1>3, <1>4, <1>5, <1>6, <1>8 DEF LeftOf
      <4>2. CASE ~(y = parent /\ s = "llink")
        <5>1. u.link["llink"][y] = t.link["llink"][y]
          BY <4>2, <3>0, <2>2, <1>1, <1>4
        <5>2. s = "llink" => pos[y] # q
          BY <4>2, <3>0, <1>2, <1>8
        <5> QED BY <5>1, <5>2, <3>0, <2>2, <1>1, <1>2, <1>3, <1>4, <1>5, <1>6, <1>9 DEF LeftOf
      <4> QED BY <4>1, <4>2
    <3>3. RightOf(u, pos2, lo2, hi2, y)
      <4>1. CASE y = parent /\ s = "rlink"
        <5>1. hi[y] = pos[y]
          BY <4>1, <3>0, <1>9 DEF RightOf
        <5> QED BY <4>1, <5>1, <3>0, <2>2, <1>1, <1>2, <1>3, <1>4, <1>5, <1>6, <1>8 DEF RightOf
      <4>2. CASE ~(y = parent /\ s = "rlink")
        <5>1. u.link["rlink"][y] = t.link["rlink"][y]
          BY <4>2, <3>0, <2>2, <1>1, <1>4
        <5>2. s = "rlink" => pos[y] # q
          BY <4>2, <3>0, <1>2, <1>8
        <5> QED BY <5>1, <5>2, <3>0, <2>2, <1>1, <1>2, <1>3, <1>4, <1>5, <1>6, <1>9 DEF RightOf
      <4> QED BY <4>1, <4>2
    <3>4. Hangs(u, y)
      <4>1. u.parent[y] = t.parent[y] /\ Hangs(t, y)
        BY <3>0, <2>2, <1>4, <1>9
      <4> QED BY <4>1, <3>0, <1>1, <1>4 DEF Hangs
    <3> QED BY <3>1, <3>2, <3>3, <3>4
  <2> QED BY <2>1, <2>2
<1>12. \A y \in Side : \A n \in Nodes \ u.live : u.link[y][n] = NULL
  BY <1>1, <1>4 DEF Nested
<1>13. Nested(u, N + 1, pos2, lo2, hi2)
  BY <1>7, <1>10, <1>11, <1>12 DEF Nested
<1> QED BY <1>3, <1>13 DEF p, u, pos2

\* A new leaf takes its place in the numbering.
LEMMA NewNodeShape ==
  ASSUME NEW t, NEW N, NEW o, NEW pos, t \in Tree, Shape(t, N, o, pos),
         NEW x \in Nodes \ t.live, NEW k \in Keys, NEW f \in Fds, NEW junk \in Char,
         NEW parent, NEW s \in Side,
         \/ parent \in t.live /\ t.link[s][parent] = NULL
         \/ parent = NULL /\ t.root = NULL
  PROVE  LET p == PlaceAt(t, pos, parent, s)
         IN  /\ p \in 1..(N + 1)
             /\ Shape(NewNode(t, x, k, f, junk, parent, s), N + 1,
                      WithNew(N, o, p, x), Shifted(pos, p, x))
<1> DEFINE p == PlaceAt(t, pos, parent, s)
           u == NewNode(t, x, k, f, junk, parent, s)
           pos2 == Shifted(pos, p, x)
<1>1. Numbered(t, N, o, pos) /\ t.live \subseteq Nodes /\ NULL \notin Nodes
  BY NullIsNoNode DEF Shape, Tree
<1>2. PICK lo, hi : Nested(t, N, pos, lo, hi)
  BY DEF Shape
<1>3. /\ u \in Tree
      /\ u.live = t.live \cup {x}
      /\ u.root = IF parent = NULL THEN x ELSE t.root
      /\ \A y \in Nodes : u.parent[y] = IF y = x THEN parent ELSE t.parent[y]
      /\ \A y \in Side, n \in Nodes :
           u.link[y][n] = IF n = x THEN NULL
                          ELSE IF n = parent /\ y = s THEN x
                          ELSE t.link[y][n]
  <2>1. parent \in Ptr
    BY <1>1 DEF Ptr
  <2>2. u = NewNode(t, x, k, f, junk, parent, s)
    OBVIOUS
  <2> HIDE DEF u
  <2> QED BY <2>1, <2>2, NewNodeFields
<1>4. CASE parent \in t.live /\ t.link[s][parent] = NULL
  <2>1. /\ p \in 1..(N + 1)
        /\ \E lo2, hi2 : Nested(u, N + 1, pos2, lo2, hi2)
    BY <1>1, <1>2, <1>4, NewNodeNested
  <2> HIDE DEF u, p
  <2>2. Numbered(u, N + 1, WithNew(N, o, p, x), pos2)
    BY <1>1, <1>3, <2>1, NewNodeNumbered
  <2>3. Shape(u, N + 1, WithNew(N, o, p, x), pos2)
    BY <2>1, <2>2 DEF Shape
  <2> QED BY <2>1, <2>3 DEF u, p
<1>5. CASE parent = NULL /\ t.root = NULL
  <2>1. N = 0 /\ t.live = {}
    BY <1>5, NoRootNoNode
  <2>2. p = 1 /\ p \in 1..(N + 1)
    BY <1>5, <2>1 DEF PlaceAt
  <2> HIDE DEF u, p
  <2>3. Numbered(u, N + 1, WithNew(N, o, p, x), pos2)
    BY <1>1, <1>3, <2>2, NewNodeNumbered
  <2> DEFINE one == [y \in Nodes |-> 1]
  <2>4. pos2[x] = 1
    BY <2>2 DEF Shifted
  <2>5. u.live = {x} /\ u.root = x /\ u.parent[x] = NULL /\ x # NULL
        /\ (\A y \in Side : u.link[y][x] = NULL)
        /\ \A y \in Side : \A n \in Nodes \ {x} : u.link[y][n] = NULL
    <3>1. \A y \in Side : \A n \in Nodes : t.link[y][n] = NULL
      BY <2>1, <1>2 DEF Nested
    <3> QED BY <3>1, <2>1, <1>1, <1>3, <1>5
  <2>6. one \in [Nodes -> Int] /\ one[x] = 1
    OBVIOUS
  <2> HIDE DEF one, pos2
  <2>7. Rooted(u, N + 1, one, one)
    BY <2>1, <2>5, <2>6 DEF Rooted
  <2>8. LeftOf(u, pos2, one, one, x) /\ RightOf(u, pos2, one, one, x) /\ Hangs(u, x)
    BY <2>4, <2>5, <2>6 DEF LeftOf, RightOf, Hangs, Side
  <2>9. Nested(u, N + 1, pos2, one, one)
    BY <2>1, <2>4, <2>5, <2>6, <2>7, <2>8 DEF Nested
  <2>10. Shape(u, N + 1, WithNew(N, o, p, x), pos2)
    BY <2>3, <2>9 DEF Shape
  <2> QED BY <2>2, <2>10 DEF u, p, pos2
<1> QED BY <1>4, <1>5

\* Comparing on the way down, an insertion comes to the place after the last
\* name that is not greater.
LEMMA InsertPlace ==
  ASSUME NEW t, NEW N, NEW o, NEW pos,
         Typed(t), Shape(t, N, o, pos), Sorted(t, pos), NEW k \in Keys,
         NEW path, path = Walk(t, t.root, [n \in t.live |-> InsertTurn(t, k, n)]),
         NEW parent, parent = IF path = <<>> THEN NULL ELSE Last(path),
         NEW s, s = IF parent = NULL THEN "llink" ELSE InsertTurn(t, k, parent)
  PROVE  /\ path \in Seq(t.live) /\ s \in Side
         /\ \/ parent \in t.live /\ t.link[s][parent] = NULL
            \/ parent = NULL /\ t.root = NULL /\ t.live = {}
         /\ \A y \in t.live : IF pos[y] < PlaceAt(t, pos, parent, s)
                              THEN t.key[y] <= k ELSE k < t.key[y]
<1> DEFINE turn == [n \in t.live |-> InsertTurn(t, k, n)]
<1>1. turn \in [t.live -> Side \cup {"stop"}] /\ \A n : InsertTurn(t, k, n) \in Side
  BY DEF InsertTurn, Side
<1>2. Ranked(t, N, pos)
  BY ShapeIsRanked
<1>3. path = Walk(t, t.root, turn)
  OBVIOUS
<1>4. \A n \in t.live : turn[n] = (IF k < t.key[n] THEN "llink" ELSE "rlink")
  BY DEF InsertTurn
<1> HIDE DEF turn
<1>5. PICK end \in [t.live -> t.live] :
        \A n \in t.live :
          /\ Walk(t, n, turn) \in Seq(t.live) /\ Walk(t, n, turn) # <<>>
          /\ Last(Walk(t, n, turn)) = end[n]
          /\ end[n] = IF turn[n] = "stop" THEN n
                      ELSE IF t.link[turn[n]][n] = NULL THEN n
                      ELSE end[t.link[turn[n]][n]]
  BY <1>1, <1>2, WalkEnds
<1>6. Walk(t, NULL, turn) = <<>>
  BY <1>1, <1>2, WalkEnds
<1>7. PICK lo, hi : Nested(t, N, pos, lo, hi)
  BY DEF Shape
<1>8. /\ t \in Tree /\ t.live \subseteq Nodes /\ NULL \notin t.live
      /\ k \in Int /\ \A n \in t.live : t.key[n] \in Int
  BY KeysAreInts
<1>9. /\ lo \in [Nodes -> Int] /\ hi \in [Nodes -> Int] /\ pos \in [Nodes -> Int]
      /\ \A m, n \in t.live : pos[m] = pos[n] => m = n
  BY <1>7 DEF Shape, Numbered, Nested
<1> DEFINE Between(a, b) == \A y \in t.live : /\ pos[y] < a => t.key[y] <= k
                                              /\ b < pos[y] => k < t.key[y]
           Ends(n) == /\ t.link[turn[n]][n] = NULL
                      /\ \A y \in t.live : IF pos[y] < PlaceAt(t, pos, n, turn[n])
                                           THEN t.key[y] <= k ELSE k < t.key[y]
           P == {n \in t.live : Between(lo[n], hi[n]) => Ends(end[n])}
<1> HIDE DEF Between, Ends, P
<1>10. ASSUME NEW n \in t.live,
             \A c \in Side : t.link[c][n] # NULL => t.link[c][n] \in P
      PROVE  n \in P
  <2> SUFFICES ASSUME Between(lo[n], hi[n]) PROVE Ends(end[n])
    BY DEF P
  <2>0. "llink" \in Side /\ "rlink" \in Side
    BY DEF Side
  <2>1. CASE k < t.key[n]
    <3>1. turn[n] = "llink"
      BY <2>1, <1>4
    <3>2. ASSUME NEW y \in t.live, pos[n] <= pos[y] PROVE k < t.key[y]
      <4>1. CASE pos[n] = pos[y]
        BY <4>1, <2>1, <1>9
      <4>2. CASE pos[n] < pos[y]
        <5>1. t.key[n] <= t.key[y]
          BY <4>2 DEF Sorted
        <5> QED BY <5>1, <2>1, <1>8
      <4>3. pos[n] \in Int /\ pos[y] \in Int
        BY <1>8, <1>9
      <4> QED BY <3>2, <4>1, <4>2, <4>3
    <3> DEFINE c == t.link["llink"][n]
    <3>3. CASE c = NULL
      <4>1. end[n] = n
        BY <3>1, <3>3, <1>5
      <4>2. lo[n] = pos[n]
        BY <3>3, <1>7 DEF Nested, LeftOf
      <4>3. PlaceAt(t, pos, n, turn[n]) = pos[n]
        BY <3>1, <1>8 DEF PlaceAt
      <4>4. \A y \in t.live : pos[y] < pos[n] => t.key[y] <= k
        BY <4>2 DEF Between
      <4>5. \A y \in t.live : ~(pos[y] < pos[n]) => pos[n] <= pos[y]
        BY <1>8, <1>9
      <4> QED BY <3>1, <3>2, <3>3, <4>1, <4>3, <4>4, <4>5 DEF Ends
    <3>4. CASE c # NULL
      <4>0. c \in P
        BY <3>4, <2>0, <1>10
      <4>1. lo[c] = lo[n] /\ hi[c] = pos[n] - 1
        BY <3>4, <2>0, <1>7, <1>8, <1>9, ChildInside, SMTT(30)
      <4>2. end[n] = end[c]
        BY <3>1, <3>4, <1>5
      <4> HIDE DEF c
      <4>3. Between(lo[c], hi[c])
        BY <3>2, <4>1, <1>8, <1>9 DEF Between
      <4> QED BY <4>0, <4>2, <4>3 DEF P
    <3> QED BY <3>3, <3>4
  <2>2. CASE ~(k < t.key[n])
    <3>1. turn[n] = "rlink"
      BY <2>2, <1>4
    <3>2. ASSUME NEW y \in t.live, pos[y] <= pos[n] PROVE t.key[y] <= k
      <4>1. CASE pos[n] = pos[y]
        BY <4>1, <2>2, <1>8, <1>9
      <4>2. CASE pos[y] < pos[n]
        <5>1. t.key[y] <= t.key[n]
          BY <4>2 DEF Sorted
        <5> QED BY <5>1, <2>2, <1>8
      <4>3. pos[n] \in Int /\ pos[y] \in Int
        BY <1>8, <1>9
      <4> QED BY <3>2, <4>1, <4>2, <4>3
    <3> DEFINE c == t.link["rlink"][n]
    <3>3. CASE c = NULL
      <4>1. end[n] = n
        BY <3>1, <3>3, <1>5
      <4>2. hi[n] = pos[n]
        BY <3>3, <1>7 DEF Nested, RightOf
      <4>3. PlaceAt(t, pos, n, turn[n]) = pos[n] + 1
        BY <3>1, <1>8 DEF PlaceAt
      <4>4. \A y \in t.live : pos[y] < pos[n] + 1 => pos[y] <= pos[n]
        BY <1>8, <1>9
      <4>5. \A y \in t.live : ~(pos[y] < pos[n] + 1) => hi[n] < pos[y]
        BY <1>8, <1>9, <4>2
      <4>6. \A y \in t.live : hi[n] < pos[y] => k < t.key[y]
        BY DEF Between
      <4> QED BY <3>1, <3>2, <3>3, <4>1, <4>3, <4>4, <4>5, <4>6 DEF Ends
    <3>4. CASE c # NULL
      <4>0. c \in P
        BY <3>4, <2>0, <1>10
      <4>1. hi[c] = hi[n] /\ lo[c] = pos[n] + 1
        BY <3>4, <2>0, <1>7, <1>8, <1>9, ChildInside
      <4>2. end[n] = end[c]
        BY <3>1, <3>4, <1>5
      <4> HIDE DEF c
      <4>3. Between(lo[c], hi[c])
        BY <3>2, <4>1, <1>8, <1>9 DEF Between
      <4> QED BY <4>0, <4>2, <4>3 DEF P
    <3> QED BY <3>3, <3>4
  <2> QED BY <2>1, <2>2
<1>11. P = t.live
  <2>1. P \subseteq t.live
    BY DEF P
  <2> QED BY <2>1, <1>2, <1>10, ChildrenFirst
<1>12. CASE t.root = NULL
  <2>1. t.live = {} /\ path = <<>> /\ parent = NULL
    BY <1>12, <1>3, <1>6, NoRootNoNode
  <2>2. s \in Side
    BY <2>1 DEF Side
  <2>3. <<>> \in Seq(t.live)
    OBVIOUS
  <2> QED BY <2>1, <2>2, <2>3, <1>12
<1>13. CASE t.root # NULL
  <2>1. t.root \in t.live /\ lo[t.root] = 1 /\ hi[t.root] = N
    BY <1>13, <1>7, NoRootNoNode DEF Nested, Rooted
  <2>2. N \in Int /\ \A y \in t.live : 1 <= pos[y] /\ pos[y] <= N
    BY DEF Shape, Numbered
  <2>3. path \in Seq(t.live) /\ path # <<>> /\ parent = end[t.root]
    BY <2>1, <1>3, <1>5
  <2>4. Between(1, N)
    BY <2>2, <1>8, <1>9 DEF Between
  <2>5. Ends(end[t.root])
    BY <2>1, <2>4, <1>11 DEF P
  <2>6. end[t.root] \in t.live /\ end[t.root] # NULL
    BY <2>1, <1>8
  <2>7. s = turn[parent]
    BY <2>3, <2>6 DEF turn
  <2> QED BY <2>3, <2>5, <2>6, <2>7, <1>1 DEF Ends
<1> QED BY <1>12, <1>13

\* A set of indices has a greatest one.
LEMMA MaxIndex ==
  ASSUME NEW n \in Nat, NEW S, S \subseteq 1..n, S # {}
  PROVE  Max(S) \in S /\ \A y \in S : y <= Max(S)
<1> DEFINE f == [i \in S |-> n - i]
<1>1. \A i \in S : i \in Int /\ n - i \in Nat
  OBVIOUS
<1>2. f \in [S -> Nat]
  BY <1>1
<1>3. PICK i \in S : \A y \in S : f[i] <= f[y]
  <2> HIDE DEF f
  <2> QED BY <1>2, LeastBy
<1>4. \A y \in S : i >= y
  <2> SUFFICES ASSUME NEW y \in S PROVE i >= y
    OBVIOUS
  <2>1. n - i <= n - y
    BY <1>3
  <2> QED BY <2>1, <1>1
<1>5. \E m \in S : \A y \in S : m >= y
  BY <1>4
<1>6. Max(S) = CHOOSE m \in S : \A y \in S : m >= y
  BY DEF Max
<1>7. Max(S) \in S /\ \A y \in S : Max(S) >= y
  BY <1>5, <1>6
<1> QED BY <1>1, <1>7

\* Counting the balances along the path of the insertion moves no node.
LEMMA LeanRearranges ==
  ASSUME NEW t, NEW N, NEW pos, Ranked(t, N, pos), NEW below
  PROVE  Rearranged(t, Lean(t, below), N, pos) /\ Lean(t, below).fault = t.fault
<1> DEFINE B(n) == IF n \in ToSet(Front(below))
                   THEN IF \E i \in 1..Len(below) - 1 :
                             below[i] = n /\ t.link["rlink"][n] = below[i + 1]
                        THEN 1 ELSE -1
                   ELSE t.bal[n]
           b == [n \in Nodes |-> B(n)]
           u == [t EXCEPT !.bal = b]
<1>1. \A n \in Nodes : t.bal[n] \in Char
  BY DEF Ranked, Tree
<1>2. 1 \in Char /\ -1 \in Char
  BY DEF Char
<1>3. \A n \in Nodes : B(n) \in {1, -1, t.bal[n]}
  OBVIOUS
<1>4. Lean(t, below) = u
  BY DEF Lean
<1> HIDE DEF B
<1>5. b \in [Nodes -> Char]
  BY <1>1, <1>2, <1>3
<1> HIDE DEF b
<1>6. /\ u \in Tree
      /\ u.live = t.live /\ u.root = t.root
      /\ u.parent = t.parent /\ u.link = t.link
      /\ u.key = t.key /\ u.fd = t.fd /\ u.fault = t.fault
  BY <1>5 DEF Ranked, Tree
<1> HIDE DEF u
<1>7. \E lo, hi : Nested(u, N, pos, lo, hi)
  BY <1>6, SameLinks DEF Ranked
<1> QED BY <1>4, <1>6, <1>7 DEF Ranked, Rearranged

\* The rotations that end an insertion move no node in the order.
LEMMA RebalanceRearranges ==
  ASSUME NEW t, NEW N, NEW pos, Ranked(t, N, pos), NEW q \in t.live, NEW s \in Side
  PROVE  Rearranged(t, RebalanceAt(t, q, s), N, pos)
<1> DEFINE b     == t.bal[q] + IF s = "llink" THEN -1 ELSE 1
           t1    == SetBal(t, q, b)
           child == t.link[s][q]
<1>1. q \in Nodes /\ b \in Int /\ child \in t.live \cup {NULL}
  BY LiveNeighbours, BalIsInt
<1>2. Rearranged(t, t1, N, pos)
  BY <1>1, SetBalRearranges
<1>3. RebalanceAt(t, q, s) \in {rotate_right(rotate_left(t1, child), q),
                                rotate_right(t1, q),
                                rotate_left(rotate_right(t1, child), q),
                                rotate_left(t1, q), t1}
  BY DEF RebalanceAt
<1> HIDE DEF t1, child
<1>4. \A u : Rearranged(t, u, N, pos) =>
        Rearranged(t, rotate_right(u, q), N, pos) /\ Rearranged(t, rotate_left(u, q), N, pos)
  BY RotateRearranges, RearrangedTwice DEF Rearranged
<1>5. Rearranged(t, rotate_right(t1, child), N, pos) /\ Rearranged(t, rotate_left(t1, child), N, pos)
  BY <1>1, <1>2, RotateRearranges, RearrangedTwice DEF Rearranged
<1> QED BY <1>2, <1>3, <1>4, <1>5

\* What an insertion does to the entries: x, holding k and f, is the p-th of
\* them, after the names that are not greater than k.
Inserted(t, u, N, o, pos, x, k, f, p) ==
  /\ p \in 1..(N + 1)
  /\ u \in Tree
  /\ Shape(u, N + 1, WithNew(N, o, p, x), Shifted(pos, p, x))
  /\ u.live = t.live \cup {x}
  /\ \A y \in Nodes : /\ u.key[y] = IF y = x THEN k ELSE t.key[y]
                      /\ u.fd[y]  = IF y = x THEN f ELSE t.fd[y]
  /\ \A y \in t.live : IF pos[y] < p THEN t.key[y] <= k ELSE k < t.key[y]

\* A rearranged tree has the shape that it had.
LEMMA RearrangedShape ==
  ASSUME NEW t, NEW u, NEW N, NEW o, NEW pos, Shape(t, N, o, pos), Rearranged(t, u, N, pos)
  PROVE  u \in Tree /\ Shape(u, N, o, pos)
<1>1. u \in Tree /\ u.live = t.live /\ \E lo, hi : Nested(u, N, pos, lo, hi)
  BY DEF Rearranged, Ranked
<1>2. Numbered(u, N, o, pos)
  BY <1>1 DEF Shape, Numbered
<1> QED BY <1>1, <1>2 DEF Shape

\* hb_tree_insert adds one node, at one place of the order, and keeps it sorted.
LEMMA InsertInserts ==
  ASSUME NEW t, NEW N, NEW o, NEW pos, Typed(t), Shape(t, N, o, pos), Sorted(t, pos),
         NEW x \in Nodes \ t.live, NEW k \in Keys, NEW f \in Fds, NEW junk \in Char
  PROVE  \E p : Inserted(t, hb_tree_insert(t, x, k, f, junk), N, o, pos, x, k, f, p)
<1> DEFINE path   == Walk(t, t.root, [n \in t.live |-> InsertTurn(t, k, n)])
           parent == IF path = <<>> THEN NULL ELSE Last(path)
           s      == IF parent = NULL THEN "llink" ELSE InsertTurn(t, k, parent)
           p      == PlaceAt(t, pos, parent, s)
           t1     == NewNode(t, x, k, f, junk, parent, s)
           qi     == Pivot(t, path)
           below  == SubSeq(path, qi + 1, Len(path)) \o <<x>>
           t2     == Lean(t1, below)
           q      == path[qi]
           side   == IF t2.link["llink"][q] = below[1] THEN "llink" ELSE "rlink"
           u      == hb_tree_insert(t, x, k, f, junk)
           o2     == WithNew(N, o, p, x)
           pos2   == Shifted(pos, p, x)
<1>1. /\ path \in Seq(t.live) /\ s \in Side
      /\ \/ parent \in t.live /\ t.link[s][parent] = NULL
         \/ parent = NULL /\ t.root = NULL /\ t.live = {}
      /\ \A y \in t.live : IF pos[y] < p THEN t.key[y] <= k ELSE k < t.key[y]
  BY InsertPlace
<1>2. u = IF qi = 0 THEN t2 ELSE RebalanceAt(t2, q, side)
  BY DEF hb_tree_insert
<1>3. t \in Tree /\ t.live \subseteq Nodes
  BY KeysAreInts
<1>4. qi = 0 \/ q \in t.live
  <2> DEFINE leaning == {i \in DOMAIN path : t.bal[path[i]] # 0}
  <2>1. qi = IF leaning = {} THEN 0 ELSE Max(leaning)
    BY DEF Pivot
  <2> HIDE DEF path, qi
  <2>2. leaning \subseteq 1..Len(path) /\ Len(path) \in Nat
    BY <1>1
  <2>3. leaning # {} => Max(leaning) \in 1..Len(path)
    <3> HIDE DEF leaning
    <3> QED BY <2>2, MaxIndex
  <2>4. \A i \in 1..Len(path) : path[i] \in t.live
    BY <1>1
  <2> HIDE DEF leaning
  <2> QED BY <2>1, <2>3, <2>4
<1> HIDE DEF path, parent, s, p, qi, q, u
<1>5. p = PlaceAt(t, pos, parent, s)
  BY DEF p
<1>6. p \in 1..(N + 1) /\ Shape(t1, N + 1, o2, pos2)
  BY <1>1, <1>3, <1>5, NewNodeShape
<1>7. /\ t1 \in Tree
      /\ t1.live = t.live \cup {x}
      /\ \A y \in Nodes : /\ t1.key[y] = IF y = x THEN k ELSE t.key[y]
                          /\ t1.fd[y]  = IF y = x THEN f ELSE t.fd[y]
  <2>1. parent \in Ptr
    BY <1>1, <1>3 DEF Ptr
  <2>2. t1 = NewNode(t, x, k, f, junk, parent, s)
    OBVIOUS
  <2> HIDE DEF t1
  <2> QED BY <2>1, <2>2, <1>1, <1>3, NewNodeFields
<1> HIDE DEF t1, o2, pos2
<1>8. Ranked(t1, N + 1, pos2)
  BY <1>6, <1>7 DEF Shape, Numbered, Ranked
<1>9. Rearranged(t1, t2, N + 1, pos2)
  BY <1>8, LeanRearranges
<1> HIDE DEF t2
<1>10. Rearranged(t1, u, N + 1, pos2)
  <2>1. CASE qi = 0
    BY <2>1, <1>2, <1>9
  <2>2. CASE qi # 0
    <3>1. q \in t2.live /\ Ranked(t2, N + 1, pos2) /\ side \in Side
      BY <2>2, <1>4, <1>7, <1>9 DEF Rearranged, Side
    <3> HIDE DEF side
    <3>2. Rearranged(t2, RebalanceAt(t2, q, side), N + 1, pos2)
      BY <3>1, RebalanceRearranges
    <3> QED BY <2>2, <3>2, <1>2, <1>9, RearrangedTwice
  <2> QED BY <2>1, <2>2
<1>11. u \in Tree /\ Shape(u, N + 1, o2, pos2)
  BY <1>6, <1>10, RearrangedShape
<1>12. u.live = t1.live /\ u.key = t1.key /\ u.fd = t1.fd
  BY <1>10 DEF Rearranged
<1>13. Inserted(t, u, N, o, pos, x, k, f, p)
  BY <1>1, <1>6, <1>7, <1>11, <1>12 DEF Inserted, o2, pos2
<1> QED BY <1>13 DEF u

-----------------------------------------------------------------------------
(* Removal.                                                                *)

\* The numbering without the node at place q.
Without(N, o, q) == [i \in 1..(N - 1) |-> IF i < q THEN o[i] ELSE o[i + 1]]

Closed(pos, q) == [y \in Nodes |-> IF pos[y] > q THEN pos[y] - 1 ELSE pos[y]]

\* Field by field, the tree from which a node has been unlinked.
LEMMA UnlinkFields ==
  ASSUME NEW t \in Tree, NEW d \in t.live, NEW child \in Ptr, d # child,
         NEW u, u = Unlink(t, d, child)
  PROVE  /\ u \in Tree
         /\ u.live = t.live \ {d}
         /\ u.root = IF t.parent[d] = NULL THEN child ELSE t.root
         /\ \A y \in Nodes :
              /\ u.parent[y] = IF y = child THEN t.parent[d]
                               ELSE IF y = d THEN NULL ELSE t.parent[y]
              /\ y # d => /\ u.key[y] = t.key[y] /\ u.fd[y] = t.fd[y]
                          /\ u.bal[y] = t.bal[y]
         /\ \A s \in Side, y \in Nodes :
              u.link[s][y] = IF y = d THEN NULL
                             ELSE IF y = t.parent[d] /\ t.link[s][y] = d THEN child
                             ELSE t.link[s][y]
<1> DEFINE p == t.parent[d]
           L(s, y) == IF y = d THEN NULL
                      ELSE IF y = p /\ t.link[s][y] = d THEN child
                      ELSE t.link[s][y]
           P(y) == IF y = child THEN p ELSE IF y = d THEN NULL ELSE t.parent[y]
           link == [s \in Side |-> [y \in Nodes |-> L(s, y)]]
           parent == [y \in Nodes |-> P(y)]
           v == [t EXCEPT !.live = @ \ {d},
                          !.root = IF p = NULL THEN child ELSE @,
                          !.parent = parent,
                          !.link = link,
                          !.key[d] = NULL, !.fd[d] = NULL, !.bal[d] = 0]
<1>1. d \in Nodes /\ p \in Ptr /\ 0 \in Char
  BY DEF Tree, Char
<1>2. /\ \A s \in Side, y \in Nodes : L(s, y) \in Ptr
      /\ \A y \in Nodes : P(y) \in Ptr
  BY <1>1 DEF Tree, Ptr
<1>3. u = v
  BY DEF Unlink
<1> HIDE DEF L, P
<1>4. link \in [Side -> [Nodes -> Ptr]] /\ parent \in [Nodes -> Ptr]
  BY <1>2
<1> HIDE DEF link, parent
<1>5. /\ v.live = t.live \ {d}
      /\ v.root = IF p = NULL THEN child ELSE t.root
      /\ v.parent = parent /\ v.link = link
      /\ v.key = [t.key EXCEPT ![d] = NULL] /\ v.fd = [t.fd EXCEPT ![d] = NULL]
      /\ v.bal = [t.bal EXCEPT ![d] = 0]
  BY DEF Tree
<1>6. v \in Tree
  <2> DEFINE root == IF p = NULL THEN child ELSE t.root
             key == [t.key EXCEPT ![d] = NULL]
             fd == [t.fd EXCEPT ![d] = NULL]
             bal == [t.bal EXCEPT ![d] = 0]
  <2>1. v = [t EXCEPT !.live = t.live \ {d}, !.root = root, !.parent = parent,
                      !.link = link, !.key = key, !.fd = fd, !.bal = bal]
    OBVIOUS
  <2>2. root \in Ptr /\ t.live \ {d} \in SUBSET Nodes /\ t.fault \in BOOLEAN
    BY DEF Tree
  <2>3. key \in [Nodes -> Keys \cup {NULL}]
    BY DEF Tree
  <2>4. fd \in [Nodes -> Fds \cup {NULL}]
    BY DEF Tree
  <2>5. bal \in [Nodes -> Char]
    BY <1>1 DEF Tree
  <2> HIDE DEF root, key, fd, bal, v
  <2> QED BY <2>1, <2>2, <2>3, <2>4, <2>5, <1>4 DEF Tree
<1> HIDE DEF v
<1>7. /\ \A s \in Side, y \in Nodes : v.link[s][y] = L(s, y)
      /\ \A y \in Nodes : v.parent[y] = P(y)
  BY <1>5 DEF link, parent
<1>8. \A y \in Nodes : y # d => v.key[y] = t.key[y] /\ v.fd[y] = t.fd[y] /\ v.bal[y] = t.bal[y]
  BY <1>5 DEF Tree
<1> QED BY <1>3, <1>5, <1>6, <1>7, <1>8 DEF L, P

\* The numbers close up where a node was.
LEMMA UnlinkNumbered ==
  ASSUME NEW t, NEW u, NEW N, NEW o, NEW pos, Numbered(t, N, o, pos), t.live \subseteq Nodes,
         NEW d \in t.live, u.live = t.live \ {d}
  PROVE  Numbered(u, N - 1, Without(N, o, pos[d]), Closed(pos, pos[d]))
<1> DEFINE q == pos[d]
           o2 == Without(N, o, q)
           pos2 == Closed(pos, q)
<1>1. /\ N \in Nat /\ q \in 1..N /\ o[q] = d
      /\ o \in [1..N -> t.live]
      /\ pos \in [Nodes -> Int]
      /\ \A i \in 1..N : pos[o[i]] = i
      /\ \A n \in t.live : pos[n] \in 1..N /\ o[pos[n]] = n
  BY DEF Numbered
<1>2. q \in Int /\ \A i \in 1..(N - 1) : o2[i] = IF i < q THEN o[i] ELSE o[i + 1]
  BY <1>1 DEF Without
<1>3. \A y \in Nodes : pos2[y] = IF pos[y] > q THEN pos[y] - 1 ELSE pos[y]
  BY DEF Closed
<1>4. N - 1 \in Nat
  BY <1>1
<1>5. pos2 \in [Nodes -> Int]
  BY <1>1, <1>2 DEF Closed
<1> HIDE DEF q
<1>6. ASSUME NEW i \in 1..(N - 1)
      PROVE  o2[i] \in u.live /\ pos2[o2[i]] = i
  <2>1. CASE i < q
    <3>1. i \in 1..N /\ o2[i] = o[i] /\ o[i] \in t.live /\ pos[o[i]] = i
      BY <2>1, <1>1, <1>2
    <3> QED BY <2>1, <3>1, <1>1, <1>2, <1>3
  <2>2. CASE ~(i < q)
    <3>1. i + 1 \in 1..N /\ o2[i] = o[i + 1]
      BY <2>2, <1>1, <1>2
    <3>2. o[i + 1] \in t.live /\ pos[o[i + 1]] = i + 1
      BY <3>1, <1>1
    <3>3. o[i + 1] # d
      BY <2>2, <3>2, <1>1, <1>2
    <3> QED BY <2>2, <3>1, <3>2, <3>3, <1>1, <1>2, <1>3
  <2> QED BY <2>1, <2>2
<1>7. ASSUME NEW n \in u.live PROVE pos2[n] \in 1..(N - 1) /\ o2[pos2[n]] = n
  <2>1. n \in t.live /\ n # d /\ n \in Nodes /\ pos[n] \in 1..N /\ o[pos[n]] = n
    BY <1>1
  <2>2. pos[n] # q
    BY <2>1, <1>1
  <2>3. CASE pos[n] > q
    <3>1. pos2[n] = pos[n] - 1
      BY <2>1, <2>3, <1>3
    <3>2. N \in Nat /\ q \in 1..N
      BY <1>1
    <3>3. pos2[n] \in 1..(N - 1) /\ ~(pos2[n] < q) /\ pos2[n] + 1 = pos[n]
      BY <3>1, <3>2, <2>1, <2>3
    <3> QED BY <3>3, <2>1, <1>2
  <2>4. CASE pos[n] < q
    <3>1. pos2[n] = pos[n] /\ pos[n] \in 1..(N - 1)
      BY <2>1, <2>4, <1>1, <1>2, <1>3
    <3> QED BY <3>1, <2>1, <2>4, <1>2
  <2> QED BY <2>1, <2>2, <2>3, <2>4, <1>1, <1>2
<1>8. o2 \in [1..(N - 1) -> u.live]
  BY <1>6 DEF Without
<1> HIDE DEF o2, pos2
<1>9. Numbered(u, N - 1, o2, pos2)
  BY <1>4, <1>5, <1>6, <1>7, <1>8 DEF Numbered
<1> QED BY <1>9 DEF o2, pos2, q

\* The child that takes the place of a node with at most one.
Heir(t, d) == IF t.link["llink"][d] # NULL THEN t.link["llink"][d] ELSE t.link["rlink"][d]


\* Unlinking a node that has at most one child leaves its child in its place:
\* the intervals of the others still nest.
LEMMA UnlinkNested ==
  ASSUME NEW t \in Tree, NEW N, NEW o, NEW pos, Numbered(t, N, o, pos),
         NEW lo, NEW hi, Nested(t, N, pos, lo, hi),
         NEW d \in t.live, ~HasBoth(t, d),
         NEW child, child = Heir(t, d),
         NEW u, u = Unlink(t, d, child)
  PROVE  /\ u \in Tree
         /\ u.live = t.live \ {d}
         /\ \A y \in Nodes : y # d => u.key[y] = t.key[y] /\ u.fd[y] = t.fd[y]
         /\ \E lo2, hi2 : Nested(u, N - 1, Closed(pos, pos[d]), lo2, hi2)
<1> DEFINE q == pos[d]
           p == t.parent[d]
           pos2 == Closed(pos, q)
           lo2 == [y \in Nodes |-> IF lo[y] > q THEN lo[y] - 1 ELSE lo[y]]
           hi2 == [y \in Nodes |-> IF hi[y] >= q THEN hi[y] - 1 ELSE hi[y]]
<1>1. /\ t.live \subseteq Nodes /\ d \in Nodes
      /\ NULL \notin Nodes /\ NULL \notin t.live
      /\ "llink" \in Side /\ "rlink" \in Side /\ \A s \in Side : s = "llink" \/ s = "rlink"
      /\ N \in Int
  BY NullIsNoNode DEF Tree, Side, Numbered
<1>2. /\ \A n \in t.live : pos[n] \in 1..N
      /\ \A m, n \in t.live : pos[m] = pos[n] => m = n
      /\ pos \in [Nodes -> Int]
      /\ lo \in [Nodes -> Int] /\ hi \in [Nodes -> Int]
  BY DEF Numbered, Nested
<1>3. \A y \in t.live : /\ 1 <= lo[y] /\ lo[y] <= pos[y] /\ pos[y] <= hi[y] /\ hi[y] <= N
                        /\ LeftOf(t, pos, lo, hi, y)
                        /\ RightOf(t, pos, lo, hi, y)
                        /\ Hangs(t, y)
  BY DEF Nested
<1>4. \A y \in t.live, s \in Side :
        t.link[s][y] # NULL =>
          LET c == t.link[s][y]
          IN  /\ c \in t.live /\ c # y
              /\ t.parent[c] = y
              /\ lo[y] <= lo[c] /\ hi[c] <= hi[y]
              /\ s = "llink" => lo[c] = lo[y] /\ hi[c] = pos[y] - 1
              /\ s = "rlink" => hi[c] = hi[y] /\ lo[c] = pos[y] + 1
  BY <1>2, ChildInside
<1>a. IF t.link["llink"][d] # NULL THEN child = t.link["llink"][d]
                                   ELSE child = t.link["rlink"][d]
  BY DEF Heir
\* Only the child hangs from d.
<1>5. /\ child \in t.live \cup {NULL} /\ child # d
      /\ child # NULL => t.parent[child] = d
      /\ \A y \in t.live : t.parent[y] = d => y = child
  <2>1. t.link["llink"][d] = NULL \/ t.link["rlink"][d] = NULL
    BY <1>1 DEF HasBoth
  <2>2. ASSUME NEW y \in t.live, t.parent[y] = d PROVE y = child
    <3>1. \E s \in Side : t.link[s][d] = y
      BY <2>2, <1>1, <1>3 DEF Hangs
    <3> QED BY <3>1, <2>1, <1>1, <1>a
  <2> QED BY <2>2, <1>1, <1>4, <1>a
<1>6. /\ p \in t.live \cup {NULL} /\ p # d
      /\ p # NULL => p # child
      /\ p # NULL => \E s \in Side : t.link[s][p] = d
  <2>1. p \in t.live \cup {NULL} /\ (p # NULL => \E s \in Side : t.link[s][p] = d)
    BY <1>3 DEF Hangs
  <2>2. ASSUME p # NULL PROVE hi[d] - lo[d] < hi[p] - lo[p]
    <3>1. PICK s \in Side : t.link[s][p] = d
      BY <2>1, <2>2
    <3>2. p \in t.live /\ t.link[s][p] # NULL
      BY <2>1, <2>2, <3>1, <1>1
    <3> QED BY <3>1, <3>2, <1>2, ChildInside
  <2>3. ASSUME child # NULL PROVE hi[child] - lo[child] < hi[d] - lo[d]
    <3>1. PICK s \in Side : t.link[s][d] = child
      BY <1>1, <1>a
    <3> QED BY <2>3, <3>1, <1>2, ChildInside
  <2>4. p # d
    BY <2>1, <2>2, <1>1, <1>2
  <2>5. p # NULL => p # child
    BY <2>1, <2>2, <2>3, <1>1, <1>2, <1>5
  <2> QED BY <2>1, <2>4, <2>5
<1>7. /\ u \in Tree
      /\ u.live = t.live \ {d}
      /\ u.root = IF p = NULL THEN child ELSE t.root
      /\ \A y \in Nodes :
           /\ u.parent[y] = IF y = child THEN p
                            ELSE IF y = d THEN NULL ELSE t.parent[y]
           /\ y # d => u.key[y] = t.key[y] /\ u.fd[y] = t.fd[y]
      /\ \A s \in Side, y \in Nodes :
           u.link[s][y] = IF y = d THEN NULL
                          ELSE IF y = p /\ t.link[s][y] = d THEN child
                          ELSE t.link[s][y]
  <2>1. child \in Ptr
    BY <1>1, <1>5 DEF Ptr
  <2> QED BY <2>1, <1>5, UnlinkFields
<1>8. \A y \in Nodes : pos2[y] = IF pos[y] > q THEN pos[y] - 1 ELSE pos[y]
  BY DEF Closed
<1>9. \A y \in Nodes : /\ lo2[y] = IF lo[y] > q THEN lo[y] - 1 ELSE lo[y]
                       /\ hi2[y] = IF hi[y] >= q THEN hi[y] - 1 ELSE hi[y]
  OBVIOUS
<1>10. q \in 1..N /\ q = pos[d]
  BY <1>2
<1>11. lo2 \in [Nodes -> Int] /\ hi2 \in [Nodes -> Int]
  BY <1>2, <1>10
<1>12. p = t.parent[d]
  OBVIOUS
\* What d leaves to its only child.
<1>13. /\ child = NULL => lo[d] = q /\ hi[d] = q
       /\ child # NULL /\ child = t.link["llink"][d] =>
            lo[child] = lo[d] /\ hi[child] = q - 1 /\ hi[d] = q
       /\ child # NULL /\ child # t.link["llink"][d] =>
            lo[child] = q + 1 /\ hi[child] = hi[d] /\ lo[d] = q
  <2>1. t.link["llink"][d] = NULL \/ t.link["rlink"][d] = NULL
    BY <1>1 DEF HasBoth
  <2> QED BY <2>1, <1>3, <1>10, <1>a DEF LeftOf, RightOf
<1> HIDE DEF pos2, lo2, hi2, q, p
<1>14. Rooted(u, N - 1, lo2, hi2)
  <2>1. CASE p = NULL
    <3>1. d = t.root /\ lo[d] = 1 /\ hi[d] = N
      BY <2>1, <1>1, <1>3, <1>12 DEF Nested, Rooted, Hangs
    <3>2. u.root = child
      BY <2>1, <1>7
    <3>3. CASE child = NULL
      <4>1. N - 1 = 0
        BY <3>1, <3>3, <1>13, <1>10
      <4> QED BY <3>2, <3>3, <4>1 DEF Rooted
    <3>4. CASE child # NULL
      <4>1. child \in t.live /\ child \in Nodes /\ child # d
        BY <3>4, <1>1, <1>5
      <4>2. lo2[child] = 1 /\ hi2[child] = N - 1
        BY <3>1, <3>4, <4>1, <1>1, <1>2, <1>3, <1>9, <1>10, <1>13
      <4> QED BY <2>1, <3>2, <3>4, <4>1, <4>2, <1>7 DEF Rooted
    <3> QED BY <3>3, <3>4
  <2>2. CASE p # NULL
    <3>1. t.root \in t.live /\ t.parent[t.root] = NULL /\ lo[t.root] = 1 /\ hi[t.root] = N
      BY <2>2, <1>2, <1>1, <1>10 DEF Nested, Rooted
    <3>2. t.root \in Nodes /\ t.root # d /\ t.root # child /\ t.root # NULL
      BY <2>2, <3>1, <1>1, <1>5, <1>12
    <3>3. lo2[t.root] = 1 /\ hi2[t.root] = N - 1
      BY <3>1, <3>2, <1>1, <1>9, <1>10
    <3> QED BY <2>2, <3>1, <3>2, <3>3, <1>7 DEF Rooted
  <2> QED BY <2>1, <2>2
<1>15. ASSUME NEW y \in u.live
       PROVE  /\ 1 <= lo2[y] /\ lo2[y] <= pos2[y] /\ pos2[y] <= hi2[y] /\ hi2[y] <= N - 1
              /\ LeftOf(u, pos2, lo2, hi2, y)
              /\ RightOf(u, pos2, lo2, hi2, y)
              /\ Hangs(u, y)
  <2>0. y \in t.live /\ y \in Nodes /\ y # d /\ pos[y] # q
    BY <1>1, <1>2, <1>7, <1>10
  <2>1. 1 <= lo2[y] /\ lo2[y] <= pos2[y] /\ pos2[y] <= hi2[y] /\ hi2[y] <= N - 1
    BY <2>0, <1>1, <1>2, <1>3, <1>8, <1>9, <1>10
  <2>2. LeftOf(u, pos2, lo2, hi2, y)
    <3>1. CASE y = p /\ t.link["llink"][y] = d
      <4>1. u.link["llink"][y] = child
        BY <3>1, <2>0, <1>1, <1>7
      <4>2. lo[d] = lo[y] /\ hi[d] = pos[y] - 1
        BY <3>1, <2>0, <1>1, <1>4
      <4>3. child = NULL => lo2[y] = pos2[y]
        BY <4>2, <2>0, <1>1, <1>2, <1>8, <1>9, <1>10, <1>13
      <4>4. child # NULL => lo2[child] = lo2[y] /\ hi2[child] = pos2[y] - 1
        BY <4>2, <2>0, <1>1, <1>2, <1>3, <1>5, <1>8, <1>9, <1>10, <1>13
      <4>5. child # NULL => child \in u.live /\ u.parent[child] = y
        BY <3>1, <1>1, <1>5, <1>7
      <4> QED BY <4>1, <4>3, <4>4, <4>5 DEF LeftOf
    <3>2. CASE ~(y = p /\ t.link["llink"][y] = d)
      <4>1. u.link["llink"][y] = t.link["llink"][y]
        BY <3>2, <2>0, <1>1, <1>7
      <4> DEFINE l == t.link["llink"][y]
      <4>2. CASE l = NULL
        BY <4>1, <4>2, <2>0, <1>1, <1>2, <1>3, <1>8, <1>9, <1>10 DEF LeftOf
      <4>3. CASE l # NULL
        <5>1. l \in t.live /\ t.parent[l] = y /\ lo[l] = lo[y] /\ hi[l] = pos[y] - 1
          BY <4>3, <2>0, <1>1, <1>4
        <5>2. l # d /\ l # child /\ l \in Nodes
          BY <3>2, <5>1, <2>0, <1>1, <1>5, <1>12
        <5> HIDE DEF l
        <5>0. u.link["llink"][y] = l /\ l # NULL
          BY <4>1, <4>3 DEF l
        <5>3. lo2[l] = lo2[y] /\ hi2[l] = pos2[y] - 1
          BY <5>1, <5>2, <2>0, <1>1, <1>2, <1>8, <1>9, <1>10
        <5>4. l \in u.live /\ u.parent[l] = y
          BY <5>1, <5>2, <1>7
        <5> QED BY <5>0, <5>3, <5>4 DEF LeftOf
      <4> QED BY <4>2, <4>3
    <3> QED BY <3>1, <3>2
  <2>3. RightOf(u, pos2, lo2, hi2, y)
    <3>1. CASE y = p /\ t.link["rlink"][y] = d
      <4>1. u.link["rlink"][y] = child
        BY <3>1, <2>0, <1>1, <1>7
      <4>2. hi[d] = hi[y] /\ lo[d] = pos[y] + 1
        BY <3>1, <2>0, <1>1, <1>4
      <4>3. child = NULL => hi2[y] = pos2[y]
        BY <4>2, <2>0, <1>1, <1>2, <1>8, <1>9, <1>10, <1>13
      <4>4. child # NULL => hi2[child] = hi2[y] /\ lo2[child] = pos2[y] + 1
        BY <4>2, <2>0, <1>1, <1>2, <1>3, <1>5, <1>8, <1>9, <1>10, <1>13
      <4>5. child # NULL => child \in u.live /\ u.parent[child] = y
        BY <3>1, <1>1, <1>5, <1>7
      <4> QED BY <4>1, <4>3, <4>4, <4>5 DEF RightOf
    <3>2. CASE ~(y = p /\ t.link["rlink"][y] = d)
      <4>1. u.link["rlink"][y] = t.link["rlink"][y]
        BY <3>2, <2>0, <1>1, <1>7
      <4> DEFINE r == t.link["rlink"][y]
      <4>2. CASE r = NULL
        BY <4>1, <4>2, <2>0, <1>1, <1>2, <1>3, <1>8, <1>9, <1>10 DEF RightOf
      <4>3. CASE r # NULL
        <5>1. r \in t.live /\ t.parent[r] = y /\ hi[r] = hi[y] /\ lo[r] = pos[y] + 1
          BY <4>3, <2>0, <1>1, <1>4
        <5>2. r # d /\ r # child /\ r \in Nodes
          BY <3>2, <5>1, <2>0, <1>1, <1>5, <1>12
        <5> HIDE DEF r
        <5>0. u.link["rlink"][y] = r /\ r # NULL
          BY <4>1, <4>3 DEF r
        <5>3. hi2[r] = hi2[y] /\ lo2[r] = pos2[y] + 1
          BY <5>1, <5>2, <2>0, <1>1, <1>2, <1>8, <1>9, <1>10
        <5>4. r \in u.live /\ u.parent[r] = y
          BY <5>1, <5>2, <1>7
        <5> QED BY <5>0, <5>3, <5>4 DEF RightOf
      <4> QED BY <4>2, <4>3
    <3> QED BY <3>1, <3>2
  <2>4. Hangs(u, y)
    <3>1. CASE y = child
      <4>1. u.parent[y] = p
        BY <3>1, <2>0, <1>7
      <4>2. CASE p = NULL
        BY <3>1, <4>1, <4>2, <1>7 DEF Hangs
      <4>3. CASE p # NULL
        <5>1. PICK s \in Side : t.link[s][p] = d
          BY <4>3, <1>6
        <5>2. u.link[s][p] = child /\ p \in u.live
          BY <4>3, <5>1, <1>1, <1>6, <1>7
        <5> QED BY <3>1, <4>1, <4>3, <5>2 DEF Hangs
      <4> QED BY <4>2, <4>3
    <3>2. CASE y # child
      <4>1. u.parent[y] = t.parent[y] /\ Hangs(t, y) /\ t.parent[y] # d
        BY <3>2, <2>0, <1>3, <1>5, <1>7
      <4>2. CASE t.parent[y] = NULL
        <5>1. y = t.root
          BY <4>1, <4>2 DEF Hangs
        <5>2. p # NULL
          BY <5>1, <2>0, <1>3, <1>12 DEF Hangs
        <5> QED BY <4>1, <4>2, <5>1, <5>2, <1>7 DEF Hangs
      <4>3. CASE t.parent[y] # NULL
        <5>1. t.parent[y] \in t.live /\ \E s \in Side : t.link[s][t.parent[y]] = y
          BY <4>1, <4>3 DEF Hangs
        <5>2. t.parent[y] \in u.live /\ \E s \in Side : u.link[s][t.parent[y]] = y
          BY <4>1, <5>1, <2>0, <1>1, <1>7
        <5> QED BY <4>1, <4>3, <5>2 DEF Hangs
      <4> QED BY <4>2, <4>3
    <3> QED BY <3>1, <3>2
  <2> QED BY <2>1, <2>2, <2>3, <2>4
<1>16. \A s \in Side : \A y \in Nodes \ u.live : u.link[s][y] = NULL
  BY <1>1, <1>6, <1>7 DEF Nested
<1>17. Nested(u, N - 1, pos2, lo2, hi2)
  BY <1>11, <1>14, <1>15, <1>16 DEF Nested
<1> QED BY <1>7, <1>17 DEF pos2, q

\* The neighbour of a node with two children is the next one on its heavy
\* side, and has itself no two children.
LEMMA NeighbourIsNext ==
  ASSUME NEW t \in Tree, NEW N, NEW o, NEW pos, Shape(t, N, o, pos),
         NEW n \in t.live, HasBoth(t, n)
  PROVE  LET d == Neighbour(t, n)
         IN  /\ d \in t.live /\ ~HasBoth(t, d)
             /\ pos[d] = pos[n] + 1 \/ pos[d] = pos[n] - 1
<1> DEFINE s == IF t.bal[n] > 0 THEN "rlink" ELSE "llink"
           turn == [m \in t.live |-> Other(s)]
           c == t.link[s][n]
           d == Neighbour(t, n)
<1>1. PICK lo, hi : Nested(t, N, pos, lo, hi)
  BY DEF Shape
<1>2. Ranked(t, N, pos) /\ pos \in [Nodes -> Int] /\ lo \in [Nodes -> Int] /\ hi \in [Nodes -> Int]
  <2>1. N \in Int /\ pos \in [Nodes -> Int]
    BY DEF Shape, Numbered
  <2>2. lo \in [Nodes -> Int] /\ hi \in [Nodes -> Int]
    BY <1>1 DEF Nested
  <2> QED BY <1>1, <2>1, <2>2 DEF Ranked
<1>3. /\ s \in Side /\ Other(s) \in Side /\ s # "stop" /\ Other(s) # "stop"
      /\ s = "rlink" => Other(s) = "llink"
      /\ s # "rlink" => s = "llink" /\ Other(s) = "rlink"
      /\ t.live \subseteq Nodes
  BY DEF Side, Other, Tree
<1>4. turn \in [t.live -> Side \cup {"stop"}]
  BY <1>3
<1>5. \A m \in t.live : turn[m] = Other(s)
  OBVIOUS
<1>6. d = Last(Walk(t, c, turn))
  BY DEF Neighbour
<1> HIDE DEF s, turn, d
<1>7. PICK end \in [t.live -> t.live] :
        \A m \in t.live :
          /\ Walk(t, m, turn) \in Seq(t.live) /\ Walk(t, m, turn) # <<>>
          /\ Last(Walk(t, m, turn)) = end[m]
          /\ end[m] = IF turn[m] = "stop" THEN m
                      ELSE IF t.link[turn[m]][m] = NULL THEN m
                      ELSE end[t.link[turn[m]][m]]
  BY <1>2, <1>4, WalkEnds
<1>8. \A m \in t.live : end[m] = IF t.link[Other(s)][m] = NULL THEN m
                                 ELSE end[t.link[Other(s)][m]]
  BY <1>3, <1>5, <1>7
<1>9. /\ c \in t.live
      /\ s = "llink" => hi[c] = pos[n] - 1
      /\ s = "rlink" => lo[c] = pos[n] + 1
  BY <1>1, <1>2, <1>3, ChildInside DEF HasBoth
<1> HIDE DEF c
<1> DEFINE P == {m \in t.live : /\ t.link[Other(s)][end[m]] = NULL
                                /\ s = "rlink" => lo[end[m]] = lo[m]
                                /\ s = "llink" => hi[end[m]] = hi[m]}
<1>10. ASSUME NEW m \in t.live,
              \A x \in Side : t.link[x][m] # NULL => t.link[x][m] \in P
       PROVE  m \in P
  <2>1. CASE t.link[Other(s)][m] = NULL
    <3>1. end[m] = m
      BY <2>1, <1>8
    <3> QED BY <2>1, <3>1
  <2>2. CASE t.link[Other(s)][m] # NULL
    <3> DEFINE e == t.link[Other(s)][m]
    <3>1. /\ s = "rlink" => lo[e] = lo[m]
          /\ s = "llink" => hi[e] = hi[m]
      BY <2>2, <1>1, <1>2, <1>3, ChildInside
    <3>2. end[m] = end[e] /\ e \in P
      BY <2>2, <1>3, <1>8, <1>10
    <3> HIDE DEF e
    <3> QED BY <3>1, <3>2
  <2> QED BY <2>1, <2>2
<1>11. P = t.live
  <2>1. P \subseteq t.live
    OBVIOUS
  <2> HIDE DEF P
  <2> QED BY <2>1, <1>2, <1>10, ChildrenFirst
<1>12. /\ d \in t.live /\ t.link[Other(s)][d] = NULL
       /\ s = "rlink" => lo[d] = pos[n] + 1
       /\ s = "llink" => hi[d] = pos[n] - 1
  BY <1>6, <1>7, <1>9, <1>11
<1>13. ~HasBoth(t, d)
  BY <1>3, <1>12 DEF HasBoth
<1>14. LeftOf(t, pos, lo, hi, d) /\ RightOf(t, pos, lo, hi, d)
  BY <1>1, <1>12 DEF Nested
<1>15. pos[d] = pos[n] + 1 \/ pos[d] = pos[n] - 1
  BY <1>3, <1>12, <1>14 DEF LeftOf, RightOf
<1> QED BY <1>12, <1>13, <1>15 DEF d

\* What a removal does to the entries: the r-th of them is gone.
Removed(t, u, N, o, r, o2, pos2) ==
  /\ r \in 1..N
  /\ u \in Tree /\ u.live \subseteq t.live
  /\ Shape(u, N - 1, o2, pos2)
  /\ \A i \in 1..(N - 1) :
       LET was == IF i < r THEN o[i] ELSE o[i + 1]
       IN  u.key[o2[i]] = t.key[was] /\ u.fd[o2[i]] = t.fd[was]

\* Exchanging two entries exchanges names and descriptors, and no links.
LEMMA SwapFields ==
  ASSUME NEW t \in Tree, NEW n \in t.live, NEW d \in t.live, n # d,
         NEW u, u = SwapEntries(t, n, d)
  PROVE  /\ u \in Tree
         /\ u.live = t.live /\ u.root = t.root /\ u.parent = t.parent /\ u.link = t.link
         /\ \A y \in t.live :
              /\ u.key[y] = t.key[IF y = n THEN d ELSE IF y = d THEN n ELSE y]
              /\ u.fd[y]  = t.fd[IF y = n THEN d ELSE IF y = d THEN n ELSE y]
<1> DEFINE key == [t.key EXCEPT ![n] = t.key[d], ![d] = t.key[n]]
           fd  == [t.fd EXCEPT ![n] = t.fd[d], ![d] = t.fd[n]]
           v   == [t EXCEPT !.key = key, !.fd = fd]
<1>1. n \in Nodes /\ d \in Nodes /\ t.live \subseteq Nodes
      /\ t.key \in [Nodes -> Keys \cup {NULL}] /\ t.fd \in [Nodes -> Fds \cup {NULL}]
  BY DEF Tree
<1>2. key \in [Nodes -> Keys \cup {NULL}] /\ fd \in [Nodes -> Fds \cup {NULL}]
  BY <1>1
<1>3. \A y \in t.live :
        /\ key[y] = t.key[IF y = n THEN d ELSE IF y = d THEN n ELSE y]
        /\ fd[y]  = t.fd[IF y = n THEN d ELSE IF y = d THEN n ELSE y]
  BY <1>1
<1>4. u = v
  BY DEF SwapEntries
<1> HIDE DEF key, fd
<1>5. /\ v.live = t.live /\ v.root = t.root /\ v.parent = t.parent /\ v.link = t.link
      /\ v.key = key /\ v.fd = fd
  BY DEF Tree
<1>6. v \in Tree
  BY <1>2 DEF Tree
<1> QED BY <1>3, <1>4, <1>5, <1>6

\* Removing a node takes its entry out of the order, whichever node is freed.
LEMMA RemoveNodeRemoves ==
  ASSUME NEW t, NEW N, NEW o, NEW pos, t \in Tree, Shape(t, N, o, pos), NEW n \in t.live
  PROVE  \E o2, pos2 : Removed(t, RemoveNode(t, n), N, o, pos[n], o2, pos2)
<1> DEFINE d     == IF HasBoth(t, n) THEN Neighbour(t, n) ELSE n
           t1    == IF d = n THEN t ELSE SwapEntries(t, n, d)
           p     == t.parent[d]
           child == IF t.link["llink"][d] # NULL THEN t.link["llink"][d]
                                                 ELSE t.link["rlink"][d]
           t2    == Unlink(t1, d, child)
           side  == IF t.link["llink"][p] = d THEN "llink" ELSE "rlink"
           u     == RemoveNode(t, n)
           q     == pos[d]
           r     == pos[n]
           o2    == Without(N, o, q)
           pos2  == Closed(pos, q)
<1>0. u = IF p = NULL THEN t2 ELSE Fix(Loop(t2, p, side, TRUE))
  BY DEF RemoveNode
<1>1. /\ d \in t.live /\ ~HasBoth(t, d)
      /\ d = n \/ pos[d] = pos[n] + 1 \/ pos[d] = pos[n] - 1
  BY NeighbourIsNext
<1>2. /\ t1 \in Tree
      /\ t1.live = t.live /\ t1.root = t.root /\ t1.parent = t.parent /\ t1.link = t.link
      /\ \A y \in t.live :
           /\ t1.key[y] = t.key[IF y = n THEN d ELSE IF y = d THEN n ELSE y]
           /\ t1.fd[y]  = t.fd[IF y = n THEN d ELSE IF y = d THEN n ELSE y]
  <2>1. CASE d = n
    BY <2>1
  <2>2. CASE d # n
    <3>1. t1 = SwapEntries(t, n, d)
      BY <2>2
    <3> HIDE DEF d, t1
    <3> QED BY <3>1, <2>2, <1>1, SwapFields
  <2> QED BY <2>1, <2>2
<1>3. t.live \subseteq Nodes
  BY DEF Tree
<1> HIDE DEF d, t1, u
<1>4. Numbered(t, N, o, pos) /\ Numbered(t1, N, o, pos)
  BY <1>2 DEF Shape, Numbered
<1>5. PICK lo, hi : Nested(t1, N, pos, lo, hi)
  BY <1>2, SameLinks DEF Shape
<1>6. /\ t2 \in Tree
      /\ t2.live = t.live \ {d}
      /\ \A y \in Nodes : y # d => t2.key[y] = t1.key[y] /\ t2.fd[y] = t1.fd[y]
      /\ \E lo2, hi2 : Nested(t2, N - 1, pos2, lo2, hi2)
  <2>1. ~HasBoth(t1, d)
    BY <1>1, <1>2 DEF HasBoth
  <2>2. child = Heir(t1, d)
    BY <1>2 DEF Heir
  <2>3. t2 = Unlink(t1, d, child)
    OBVIOUS
  <2> HIDE DEF child, t2
  <2> QED BY <2>1, <2>2, <2>3, <1>1, <1>2, <1>4, <1>5, UnlinkNested
<1> HIDE DEF child, t2
<1>7. Shape(t2, N - 1, o2, pos2)
  BY <1>1, <1>3, <1>4, <1>6, UnlinkNumbered DEF Shape
<1> HIDE DEF pos2
<1>8. Ranked(t2, N - 1, pos2)
  BY <1>6, <1>7 DEF Shape, Numbered, Ranked
<1>9. Rearranged(t2, u, N - 1, pos2)
  <2>1. CASE p = NULL
    BY <2>1, <1>0, <1>8, RearrangedSelf
  <2>2. CASE p # NULL
    <3>1. p \in t2.live
      <4>1. p \in t.live
        BY <2>2, <1>1, <1>2, <1>5, ParentLive
      <4>2. p # d
        <5>1. Hangs(t1, d)
          BY <1>1, <1>2, <1>5 DEF Nested
        <5>2. PICK s \in Side : t.link[s][p] = d
          BY <5>1, <2>2, <1>2 DEF Hangs
        <5>3. NULL \notin t.live /\ pos \in [Nodes -> Int]
          BY <1>3, <1>4, NullIsNoNode DEF Numbered
        <5>4. t1.link[s][p] # NULL
          BY <5>2, <5>3, <1>1, <1>2
        <5> QED BY <5>2, <5>3, <5>4, <4>1, <1>2, <1>5, ChildInside
      <4> QED BY <4>1, <4>2, <1>6
    <3>2. Climbing(t2, Loop(t2, p, side, TRUE), N - 1, pos2)
      BY <3>1, <1>8, RearrangedSelf DEF Climbing, Loop
    <3> QED BY <3>2, <2>2, <1>0, FixRearranges
  <2> QED BY <2>1, <2>2
<1>10. u \in Tree /\ Shape(u, N - 1, o2, pos2)
  BY <1>7, <1>9, RearrangedShape
<1>11. u.key = t2.key /\ u.fd = t2.fd /\ u.live \subseteq t.live
  BY <1>2, <1>6, <1>9 DEF Rearranged
<1>12. /\ N \in Nat /\ r \in 1..N /\ q \in 1..N
       /\ \A i \in 1..N : o[i] \in t.live /\ pos[o[i]] = i
       /\ o[r] = n /\ o[q] = d
  BY <1>1, <1>4 DEF Numbered
<1>13. \A i \in 1..(N - 1) : o2[i] = IF i < q THEN o[i] ELSE o[i + 1]
  BY DEF Without
<1>14. d = n \/ q = r + 1 \/ q = r - 1
  BY <1>1
<1>15. r = pos[n] /\ q = pos[d]
  OBVIOUS
<1> HIDE DEF q, r, o2
<1>16. ASSUME NEW i \in 1..(N - 1)
       PROVE  LET was == IF i < r THEN o[i] ELSE o[i + 1]
                  now == o2[i]
              IN  /\ now \in t.live /\ now # d
                  /\ was = IF now = n THEN d ELSE IF now = d THEN n ELSE now
  <2>1. i \in 1..N /\ i + 1 \in 1..N
    BY <1>12
  <2>2. /\ o[i] \in t.live /\ pos[o[i]] = i
        /\ o[i + 1] \in t.live /\ pos[o[i + 1]] = i + 1
    BY <2>1, <1>12
  <2>3. o2[i] \in t.live /\ o2[i] # d
    BY <2>1, <2>2, <1>12, <1>13, <1>15
  <2>4. \/ i < r /\ i < q
        \/ i >= r /\ i >= q
        \/ i = r /\ i < q /\ q = i + 1
        \/ i = q /\ i < r /\ r = i + 1
    BY <1>12, <1>14, <1>15
  <2>5. CASE i < r /\ i < q
    BY <2>2, <2>3, <2>5, <1>12, <1>13, <1>15
  <2>6. CASE i >= r /\ i >= q
    BY <2>2, <2>3, <2>6, <1>12, <1>13, <1>15
  <2>7. CASE i = r /\ i < q /\ q = i + 1
    BY <2>2, <2>3, <2>7, <1>12, <1>13, <1>15
  <2>8. CASE i = q /\ i < r /\ r = i + 1
    BY <2>2, <2>3, <2>8, <1>12, <1>13, <1>15
  <2> QED BY <2>4, <2>5, <2>6, <2>7, <2>8
<1>17. ASSUME NEW i \in 1..(N - 1)
       PROVE  LET was == IF i < r THEN o[i] ELSE o[i + 1]
              IN  u.key[o2[i]] = t.key[was] /\ u.fd[o2[i]] = t.fd[was]
  <2>1. u.key[o2[i]] = t1.key[o2[i]] /\ u.fd[o2[i]] = t1.fd[o2[i]]
    BY <1>3, <1>6, <1>11, <1>16
  <2> QED BY <2>1, <1>2, <1>16
<1>18. Removed(t, u, N, o, r, o2, pos2)
  BY <1>10, <1>11, <1>12, <1>17 DEF Removed
<1> QED BY <1>18 DEF u, r

-----------------------------------------------------------------------------
(* The tree stays a search tree.                                           *)

\* A tree with one sorted entry more is typed and sorted.
LEMMA InsertedSearchTree ==
  ASSUME NEW t, NEW u, NEW N, NEW o, NEW pos, NEW x \in Nodes \ t.live,
         NEW k \in Keys, NEW f \in Fds, NEW p,
         Typed(t), Shape(t, N, o, pos), Sorted(t, pos),
         Inserted(t, u, N, o, pos, x, k, f, p)
  PROVE  Typed(u) /\ Shape(u, N + 1, WithNew(N, o, p, x), Shifted(pos, p, x))
         /\ Sorted(u, Shifted(pos, p, x))
<1> DEFINE pos2 == Shifted(pos, p, x)
<1>1. /\ t.live \subseteq Nodes /\ k \in Int
      /\ \A n \in t.live : t.key[n] \in Keys /\ t.key[n] \in Int /\ t.fd[n] \in Fds
  BY KeysAreInts
<1>2. /\ u \in Tree /\ u.live = t.live \cup {x}
      /\ \A y \in Nodes : /\ u.key[y] = IF y = x THEN k ELSE t.key[y]
                          /\ u.fd[y]  = IF y = x THEN f ELSE t.fd[y]
      /\ \A y \in t.live : IF pos[y] < p THEN t.key[y] <= k ELSE k < t.key[y]
      /\ p \in 1..(N + 1)
  BY DEF Inserted
<1>3. Typed(u)
  BY <1>1, <1>2 DEF Typed
<1>4. \A y \in t.live : pos[y] \in Int
  BY <1>1 DEF Shape, Numbered
<1>5. p \in Int
  BY <1>2
<1>6. \A y \in Nodes : pos2[y] = IF y = x THEN p ELSE IF pos[y] >= p THEN pos[y] + 1 ELSE pos[y]
  BY DEF Shifted
<1> HIDE DEF pos2
<1>7. ASSUME NEW a \in u.live, NEW b \in u.live, pos2[a] < pos2[b]
      PROVE  u.key[a] <= u.key[b]
  <2>1. CASE a = x /\ b = x
    BY <2>1, <1>5, <1>6, <1>7
  <2>2. CASE a = x /\ b # x
    <3>1. b \in t.live /\ ~(pos[b] < p)
      BY <2>2, <1>1, <1>2, <1>4, <1>5, <1>6, <1>7
    <3> QED BY <3>1, <2>2, <1>1, <1>2
  <2>3. CASE a # x /\ b = x
    <3>1. a \in t.live /\ pos[a] < p
      BY <2>3, <1>1, <1>2, <1>4, <1>5, <1>6, <1>7
    <3> QED BY <3>1, <2>3, <1>1, <1>2
  <2>4. CASE a # x /\ b # x
    <3>1. a \in t.live /\ b \in t.live
      BY <2>4, <1>2
    <3>2. pos[a] < pos[b]
      BY <2>4, <3>1, <1>1, <1>4, <1>5, <1>6, <1>7
    <3>3. t.key[a] <= t.key[b]
      BY <3>1, <3>2 DEF Sorted
    <3> QED BY <2>4, <3>1, <3>3, <1>1, <1>2
  <2> QED BY <2>1, <2>2, <2>3, <2>4
<1>8. Sorted(u, pos2)
  BY <1>7 DEF Sorted
<1> QED BY <1>3, <1>8 DEF Inserted, pos2

\* A tree with one entry less is typed and sorted.
LEMMA RemovedSearchTree ==
  ASSUME NEW t, NEW u, NEW N, NEW o, NEW pos, NEW r, NEW o2, NEW pos2,
         Typed(t), Shape(t, N, o, pos), Sorted(t, pos),
         Removed(t, u, N, o, r, o2, pos2)
  PROVE  Typed(u) /\ Sorted(u, pos2)
<1> DEFINE was(i) == IF i < r THEN o[i] ELSE o[i + 1]
<1>1. /\ t.live \subseteq Nodes
      /\ \A n \in t.live : t.key[n] \in Keys /\ t.key[n] \in Int /\ t.fd[n] \in Fds
  BY KeysAreInts
<1>2. /\ N \in Nat /\ r \in 1..N /\ u \in Tree
      /\ \A i \in 1..N : o[i] \in t.live /\ pos[o[i]] = i
  BY DEF Shape, Numbered, Removed
<1>3. /\ \A i \in 1..(N - 1) : u.key[o2[i]] = t.key[was(i)] /\ u.fd[o2[i]] = t.fd[was(i)]
      /\ \A y \in u.live : pos2[y] \in 1..(N - 1) /\ o2[pos2[y]] = y
  BY DEF Removed, Shape, Numbered
<1>4. ASSUME NEW i \in 1..(N - 1)
      PROVE  was(i) \in t.live /\ pos[was(i)] = IF i < r THEN i ELSE i + 1
  BY <1>2
<1> HIDE DEF was
<1>5. Typed(u)
  <2>1. ASSUME NEW y \in u.live PROVE u.key[y] \in Keys /\ u.fd[y] \in Fds
    BY <1>1, <1>3, <1>4
  <2> QED BY <2>1, <1>2 DEF Typed
<1>6. ASSUME NEW a \in u.live, NEW b \in u.live, pos2[a] < pos2[b]
      PROVE  u.key[a] <= u.key[b]
  <2> DEFINE i == pos2[a]
             j == pos2[b]
  <2>1. i \in 1..(N - 1) /\ j \in 1..(N - 1) /\ i < j
    BY <1>3, <1>6
  <2>2. u.key[a] = t.key[was(i)] /\ u.key[b] = t.key[was(j)]
    BY <1>3
  <2> HIDE DEF i, j
  <2>3. pos[was(i)] < pos[was(j)]
    BY <2>1, <1>2, <1>4
  <2>4. t.key[was(i)] <= t.key[was(j)]
    BY <2>1, <2>3, <1>4 DEF Sorted
  <2> QED BY <2>2, <2>4
<1>7. Sorted(u, pos2)
  BY <1>6 DEF Sorted
<1> QED BY <1>5, <1>7

\* hb_tree_remove takes out the entry that Find returns, or nothing.
LEMMA RemoveRemoves ==
  ASSUME NEW t, NEW N, NEW o, NEW pos, Typed(t), Shape(t, N, o, pos), Sorted(t, pos),
         NEW k \in Keys
  PROVE  IF Find(t, k) = NULL THEN hb_tree_remove(t, k) = t
         ELSE \E o2, pos2 : Removed(t, hb_tree_remove(t, k), N, o, pos[Find(t, k)], o2, pos2)
<1>1. Find(t, k) # NULL => Find(t, k) \in t.live
  BY FindFinds
<1>2. t \in Tree
  BY DEF Typed
<1> QED BY <1>1, <1>2, RemoveNodeRemoves DEF hb_tree_remove

\* malloc finds an address unless all are taken.
LEMMA FreeNode ==
  ASSUME NEW t \in Tree, t.live # Nodes
  PROVE  Min(Nodes \ t.live) \in Nodes \ t.live
<1> DEFINE S == Nodes \ t.live
<1>1. S \subseteq Nat /\ S # {}
  BY HbTreeAssumption DEF Tree
<1> HIDE DEF S
<1>2. \E x \in S : \A y \in S : x <= y
  BY <1>1, LeastExists
<1>3. Min(S) \in S
  BY <1>2 DEF Min
<1> QED BY <1>3 DEF S

\* What malloc leaves in a balance is a signed char.
LEMMA JunkIsChar == BalJunk \subseteq Char
BY HbTreeAssumption DEF Char

\* The tree that hb_tree_new returns is a search tree.
LEMMA NewIsSearchTree == SearchTree(hb_tree_new)
<1> DEFINE t == hb_tree_new
           zero == [n \in Nodes |-> 0]
<1>1. /\ t.root = NULL /\ t.live = {} /\ t.fault = FALSE
      /\ \A s \in Side : \A n \in Nodes : t.link[s][n] = NULL
  BY DEF hb_tree_new
<1>2. t \in Tree
  BY DEF hb_tree_new, Tree, Ptr, Char
<1> HIDE DEF t
<1>3. Typed(t)
  BY <1>1, <1>2 DEF Typed
<1>4. zero \in [Nodes -> Int] /\ <<>> \in [1..0 -> t.live]
  OBVIOUS
<1>5. Numbered(t, 0, <<>>, zero)
  BY <1>1, <1>4 DEF Numbered
<1>6. Nested(t, 0, zero, zero, zero)
  BY <1>1, <1>4 DEF Nested, Rooted
<1>7. Shape(t, 0, <<>>, zero)
  BY <1>5, <1>6 DEF Shape
<1>8. Sorted(t, zero)
  BY <1>1 DEF Sorted
<1> QED BY <1>3, <1>7, <1>8 DEF SearchTree, t

\* Filing an entry keeps the tree a search tree.
LEMMA EnterKeepsSearchTree ==
  ASSUME SearchTree(tree), NEW k \in Keys, NEW f \in Fds, Enter(k, f)
  PROVE  SearchTree(tree')
<1>1. PICK N, o, pos : Shape(tree, N, o, pos) /\ Sorted(tree, pos)
  BY DEF SearchTree
<1>2. Typed(tree) /\ tree \in Tree
  BY DEF SearchTree, Typed
<1> DEFINE x == Min(Nodes \ tree.live)
<1>3. x \in Nodes \ tree.live
  BY <1>2, FreeNode DEF Enter
<1>4. PICK junk \in BalJunk : tree' = hb_tree_insert(tree, x, k, f, junk)
  BY DEF Enter
<1> HIDE DEF x
<1>5. PICK p : Inserted(tree, tree', N, o, pos, x, k, f, p)
  BY <1>1, <1>2, <1>3, <1>4, JunkIsChar, InsertInserts
<1> QED BY <1>1, <1>2, <1>3, <1>5, InsertedSearchTree DEF SearchTree

\* Taking an entry away keeps the tree a search tree.
LEMMA RemoveKeepsSearchTree ==
  ASSUME NEW t, SearchTree(t), NEW k \in Keys
  PROVE  SearchTree(hb_tree_remove(t, k))
<1>1. PICK N, o, pos : Shape(t, N, o, pos) /\ Sorted(t, pos)
  BY DEF SearchTree
<1>2. Typed(t)
  BY DEF SearchTree
<1>3. CASE Find(t, k) = NULL
  BY <1>3, <1>1, <1>2, RemoveRemoves
<1>4. CASE Find(t, k) # NULL
  <2> DEFINE u == hb_tree_remove(t, k)
  <2>1. PICK o2, pos2 : Removed(t, u, N, o, pos[Find(t, k)], o2, pos2)
    BY <1>4, <1>1, <1>2, RemoveRemoves
  <2> HIDE DEF u
  <2>2. Typed(u) /\ Sorted(u, pos2)
    BY <2>1, <1>1, <1>2, RemovedSearchTree
  <2>3. Shape(u, N - 1, o2, pos2)
    BY <2>1 DEF Removed
  <2> QED BY <2>2, <2>3 DEF SearchTree, u
<1> QED BY <1>3, <1>4

\* Whatever is filed and taken away, the nodes reachable by the links are the
\* allocated ones, each once, from left to right in the order of their names.
THEOREM StaysSearchTree == Spec => []SearchTree(tree)
<1>1. Init => SearchTree(tree)
  BY NewIsSearchTree DEF Init
<1>2. SearchTree(tree) /\ [Next]_tree => SearchTree(tree')
  <2> SUFFICES ASSUME SearchTree(tree), [Next]_tree PROVE SearchTree(tree')
    OBVIOUS
  <2>1. CASE UNCHANGED tree
    BY <2>1
  <2>2. ASSUME NEW k \in Keys, Leave(k) PROVE SearchTree(tree')
    BY <2>2, RemoveKeepsSearchTree DEF Leave
  <2>3. ASSUME NEW k \in Keys, NEW f \in Fds, Enter(k, f) PROVE SearchTree(tree')
    BY <2>3, EnterKeepsSearchTree
  <2> QED BY <2>1, <2>2, <2>3 DEF Next
<1>3. (SearchTree(tree))' <=> SearchTree(tree')
  OBVIOUS
<1> QED BY <1>1, <1>2, <1>3, PTL DEF Spec

\* Every field holds what its type allows, and every allocated node bears a
\* name and a descriptor: no path of the insertion, the removal or the
\* rotations stores a NULL key or an address that is not a node's.
THEOREM TypeCorrect == Spec => []TypeOK
<1>1. SearchTree(tree) => TypeOK
  BY DEF SearchTree, TypeOK
<1> QED BY <1>1, StaysSearchTree, PTL

-----------------------------------------------------------------------------
(* The list of the nodes.                                                  *)

\* The part of the numbering from a to b.
Part(o, a, b) == [i \in 1..(b - a + 1) |-> o[a + i - 1]]

\* A part of the order is a sequence of its length.
LEMMA PartIsSeq ==
  ASSUME NEW S, NEW N \in Nat, NEW o \in [1..N -> S], NEW a \in Int, NEW b \in Int,
         1 <= a, a <= b + 1, b <= N
  PROVE  Part(o, a, b) \in Seq(S) /\ Len(Part(o, a, b)) = b - a + 1
<1>1. b - a + 1 \in Nat
  OBVIOUS
<1>2. \A i \in 1..(b - a + 1) : o[a + i - 1] \in S
  OBVIOUS
<1>3. Part(o, a, b) \in [1..(b - a + 1) -> S]
  BY <1>2 DEF Part
<1>4. Part(o, a, b) \in Seq(S)
  BY <1>1, <1>3, SeqDef
<1>5. DOMAIN Part(o, a, b) = 1..(b - a + 1)
  BY DEF Part
<1>6. Len(Part(o, a, b)) = b - a + 1
  BY <1>1, <1>4, <1>5, LenProperties
<1> QED BY <1>4, <1>6

\* A part falls into what lies before m, m itself, and what lies after.
Splits(o, N) ==
  \A a, b, m \in Int :
    1 <= a /\ a <= m /\ m <= b /\ b <= N =>
      Part(o, a, m - 1) \o <<o[m]>> \o Part(o, m + 1, b) = Part(o, a, b)

\* Every order falls apart so.
LEMMA PartSplits ==
  ASSUME NEW S, NEW N \in Nat, NEW o \in [1..N -> S]
  PROVE  Splits(o, N)
<1> SUFFICES ASSUME NEW a \in Int, NEW b \in Int, NEW m \in Int,
                    1 <= a, a <= m, m <= b, b <= N
             PROVE  Part(o, a, m - 1) \o <<o[m]>> \o Part(o, m + 1, b) = Part(o, a, b)
  BY ZenonT(30) DEF Splits
<1> DEFINE left == Part(o, a, m - 1)
           right == Part(o, m + 1, b)
           all == Part(o, a, b)
           mid == <<o[m]>>
           lm == left \o mid
           cat == lm \o right
<1>1. o[m] \in S
  OBVIOUS
<1>2. left \in Seq(S) /\ Len(left) = m - a
  <2>1. m - 1 \in Int /\ a <= (m - 1) + 1 /\ m - 1 <= N /\ (m - 1) - a + 1 = m - a
    OBVIOUS
  <2> QED BY <2>1, PartIsSeq
<1>3. right \in Seq(S) /\ Len(right) = b - m
  <2> DEFINE c == m + 1
  <2>1. c \in Int /\ 1 <= c /\ c <= b + 1 /\ b - c + 1 = b - m
    OBVIOUS
  <2> HIDE DEF c
  <2>2. Part(o, c, b) \in Seq(S) /\ Len(Part(o, c, b)) = b - c + 1
    BY <2>1, PartIsSeq
  <2> QED BY <2>1, <2>2 DEF c
<1>4. all \in Seq(S) /\ Len(all) = b - a + 1
  <2>1. a <= b + 1
    OBVIOUS
  <2> QED BY <2>1, PartIsSeq, SMTT(30)
<1>5. mid \in Seq(S) /\ Len(mid) = 1 /\ mid[1] = o[m]
  BY <1>1
<1>6. /\ \A i \in 1..(m - a) : left[i] = o[a + i - 1]
      /\ \A i \in 1..(b - m) : right[i] = o[m + i]
      /\ \A i \in 1..(b - a + 1) : all[i] = o[a + i - 1]
  BY DEF Part
<1>7. /\ lm \in Seq(S) /\ Len(lm) = Len(left) + Len(mid)
      /\ \A i \in 1..(Len(left) + Len(mid)) :
           lm[i] = IF i <= Len(left) THEN left[i] ELSE mid[i - Len(left)]
  <2> HIDE DEF left, mid
  <2> QED BY <1>2, <1>5, ConcatProperties
<1>8. /\ cat \in Seq(S) /\ Len(cat) = Len(lm) + Len(right)
      /\ \A i \in 1..(Len(lm) + Len(right)) :
           cat[i] = IF i <= Len(lm) THEN lm[i] ELSE right[i - Len(lm)]
  <2> HIDE DEF lm, right
  <2> QED BY <1>3, <1>7, ConcatProperties, ZenonT(30)
<1> HIDE DEF left, right, all, mid, lm, cat
<1>9. Len(lm) = m - a + 1 /\ Len(cat) = b - a + 1
  <2>1. Len(lm) = m - a + 1
    BY <1>2, <1>5, <1>7
  <2> QED BY <2>1, <1>3, <1>8
<1>10. ASSUME NEW i \in 1..(b - a + 1) PROVE cat[i] = all[i]
  <2>1. CASE i <= m - a
    <3>1. cat[i] = lm[i] /\ lm[i] = left[i]
      BY <2>1, <1>2, <1>3, <1>5, <1>7, <1>8, <1>9
    <3> QED BY <3>1, <2>1, <1>6
  <2>2. CASE i = m - a + 1
    <3>1. cat[i] = lm[i] /\ lm[i] = mid[1]
      BY <2>2, <1>2, <1>3, <1>5, <1>7, <1>8, <1>9
    <3>2. a + i - 1 = m
      BY <2>2
    <3>3. all[i] = o[m]
      BY <3>2, <1>6
    <3> QED BY <3>1, <3>3, <1>5
  <2>3. CASE i > m - a + 1
    <3> DEFINE j == i - (m - a + 1)
    <3>1. cat[i] = right[j]
      BY <2>3, <1>3, <1>8, <1>9
    <3>2. j \in 1..(b - m) /\ m + j = a + i - 1
      BY <2>3
    <3> QED BY <3>1, <3>2, <1>6
  <2> QED BY <2>1, <2>2, <2>3
<1>11. cat = all
  BY <1>4, <1>8, <1>9, <1>10, SeqEqual
<1> QED BY <1>11 DEF cat, lm, left, right, all, mid

\* A part that ends before it begins is empty.
LEMMA PartEmpty == \A o, a : a \in Int => Part(o, a, a - 1) = <<>>
<1> SUFFICES ASSUME NEW o, NEW a \in Int PROVE Part(o, a, a - 1) = <<>>
  OBVIOUS
<1>1. 1..((a - 1) - a + 1) = {}
  OBVIOUS
<1> QED BY <1>1 DEF Part

\* The walk of the links that InOrder defines lists the nodes by their numbers.
LEMMA InOrderIs ==
  ASSUME NEW t, NEW N, NEW o, NEW pos, Typed(t), Shape(t, N, o, pos)
  PROVE  InOrder(t) = o /\ o \in Seq(t.live) /\ Len(o) = N
<1>1. PICK lo, hi : Nested(t, N, pos, lo, hi)
  BY DEF Shape
<1>2. /\ t \in Tree /\ t.live \subseteq Nodes /\ NULL \notin t.live /\ NULL \notin Nodes
  BY KeysAreInts, NullIsNoNode
<1>3. /\ N \in Nat /\ o \in [1..N -> t.live] /\ pos \in [Nodes -> Int]
      /\ lo \in [Nodes -> Int] /\ hi \in [Nodes -> Int]
      /\ \A n \in t.live : pos[n] \in 1..N /\ o[pos[n]] = n
  BY <1>1 DEF Shape, Numbered, Nested
<1> DEFINE w(n) == IF n = NULL THEN <<>>
                   ELSE IF n \notin t.live THEN <<n>> ELSE Part(o, lo[n], hi[n])
           W == [n \in Ptr |-> w(n)]
           Listing(walk) ==
             walk = [n \in Ptr |->
               IF n = NULL THEN <<>>
               ELSE walk[t.link["llink"][n]] \o <<n>> \o walk[t.link["rlink"][n]]]
           walk == CHOOSE walk : Listing(walk)
<1>4. \A n \in Ptr, s \in Side : n # NULL => t.link[s][n] \in Ptr
  BY <1>2 DEF Tree, Ptr
<1>5. ASSUME NEW n \in t.live
      PROVE  /\ lo[n] \in Int /\ hi[n] \in Int /\ pos[n] \in Int
             /\ 1 <= lo[n] /\ lo[n] <= pos[n] /\ pos[n] <= hi[n] /\ hi[n] <= N
             /\ t.link["llink"][n] = NULL => lo[n] = pos[n]
             /\ t.link["rlink"][n] = NULL => hi[n] = pos[n]
             /\ t.link["llink"][n] # NULL =>
                  /\ t.link["llink"][n] \in t.live
                  /\ lo[t.link["llink"][n]] = lo[n] /\ hi[t.link["llink"][n]] = pos[n] - 1
             /\ t.link["rlink"][n] # NULL =>
                  /\ t.link["rlink"][n] \in t.live
                  /\ lo[t.link["rlink"][n]] = pos[n] + 1 /\ hi[t.link["rlink"][n]] = hi[n]
  BY <1>1, <1>2, <1>3, ZenonT(30) DEF Nested, LeftOf, RightOf
<1>a. Splits(o, N)
  BY <1>3, PartSplits
<1>6. ASSUME NEW n \in t.live
      PROVE  /\ w(t.link["llink"][n]) = Part(o, lo[n], pos[n] - 1)
             /\ w(t.link["rlink"][n]) = Part(o, pos[n] + 1, hi[n])
             /\ w(n) = w(t.link["llink"][n]) \o <<n>> \o w(t.link["rlink"][n])
  <2>1. w(t.link["llink"][n]) = Part(o, lo[n], pos[n] - 1)
    <3>1. CASE t.link["llink"][n] = NULL
      BY <3>1, <1>5, PartEmpty
    <3>2. CASE t.link["llink"][n] # NULL
      BY <3>2, <1>5
    <3> QED BY <3>1, <3>2
  <2>2. w(t.link["rlink"][n]) = Part(o, pos[n] + 1, hi[n])
    <3>1. CASE t.link["rlink"][n] = NULL
      <4>1. hi[n] = (pos[n] + 1) - 1 /\ pos[n] + 1 \in Int
        BY <3>1, <1>5
      <4> QED BY <3>1, <4>1, PartEmpty
    <3>2. CASE t.link["rlink"][n] # NULL
      BY <3>2, <1>5
    <3> QED BY <3>1, <3>2
  <2>3. w(n) = Part(o, lo[n], hi[n])
    BY <1>2
  <2>4. Part(o, lo[n], pos[n] - 1) \o <<o[pos[n]]>> \o Part(o, pos[n] + 1, hi[n]) = Part(o, lo[n], hi[n])
    <3> DEFINE m == pos[n]
               a == lo[n]
               b == hi[n]
    <3>1. a \in Int /\ b \in Int /\ m \in Int /\ 1 <= a /\ a <= m /\ m <= b /\ b <= N
      BY <1>5
    <3> HIDE DEF a, b, m
    <3>2. Part(o, a, m - 1) \o <<o[m]>> \o Part(o, m + 1, b) = Part(o, a, b)
      BY <3>1, <1>a, ZenonT(30) DEF Splits
    <3> QED BY <3>2 DEF a, b, m
  <2> QED BY <2>1, <2>2, <2>3, <2>4, <1>3, Zenon
<1>7. ASSUME NEW n \in Nodes \ t.live
      PROVE  w(n) = w(t.link["llink"][n]) \o <<n>> \o w(t.link["rlink"][n])
  <2>1. t.link["llink"][n] = NULL /\ t.link["rlink"][n] = NULL
    BY <1>1 DEF Nested, Side
  <2>2. <<n>> = <<>> \o <<n>> \o <<>>
    <3>1. <<n>> \in Seq(Nodes)
      OBVIOUS
    <3> QED BY <3>1, ConcatEmptySeq
  <2> QED BY <2>1, <2>2, <1>2
<1> HIDE DEF w
<1>8. Listing(W)
  <2>1. w(NULL) = <<>>
    BY DEF w
  <2>2. \A n \in Ptr : n # NULL => w(n) = w(t.link["llink"][n]) \o <<n>> \o w(t.link["rlink"][n])
    BY <1>6, <1>7 DEF Ptr
  <2>3. \A n \in Ptr : n # NULL => W[t.link["llink"][n]] = w(t.link["llink"][n])
                                   /\ W[t.link["rlink"][n]] = w(t.link["rlink"][n])
    BY <1>4, SMTT(30) DEF Side
  <2> QED BY <2>1, <2>2, <2>3
<1>9. Listing(walk)
  BY <1>8, Zenon
<1>10. InOrder(t) = walk[t.root]
  BY Zenon DEF InOrder
<1> HIDE DEF walk, W
<1>11. /\ walk[NULL] = <<>>
       /\ \A n \in t.live :
            walk[n] = walk[t.link["llink"][n]] \o <<n>> \o walk[t.link["rlink"][n]]
  BY <1>9, <1>2, Zenon DEF Ptr
<1> HIDE DEF Listing
<1> DEFINE P == {n \in t.live : walk[n] = w(n)}
<1>12. P = t.live
  <2>1. ASSUME NEW n \in t.live,
               \A s \in Side : t.link[s][n] # NULL => t.link[s][n] \in P
        PROVE  n \in P
    <3>1. \A s \in Side : walk[t.link[s][n]] = w(t.link[s][n])
      BY <2>1, <1>11 DEF w
    <3> QED BY <3>1, <1>6, <1>11 DEF Side
  <2>2. P \subseteq t.live
    OBVIOUS
  <2>3. Ranked(t, N, pos)
    BY ShapeIsRanked
  <2> HIDE DEF P
  <2> QED BY <2>1, <2>2, <2>3, ChildrenFirst, SMTT(30)
<1>13. o \in Seq(t.live) /\ Len(o) = N
  <2>1. DOMAIN o = 1..N
    BY <1>3
  <2>2. o \in Seq(t.live)
    BY <1>3, SeqDef
  <2> QED BY <2>1, <2>2, <1>3, LenProperties
<1>14. walk[t.root] = o
  <2>1. CASE t.root = NULL
    <3>1. N = 0
      BY <2>1, NoRootNoNode
    <3>2. o = <<>>
      BY <3>1, <1>13, EmptySeq
    <3> QED BY <3>2, <2>1, <1>11
  <2>2. CASE t.root # NULL
    <3>1. t.root \in t.live /\ lo[t.root] = 1 /\ hi[t.root] = N
      BY <2>2, <1>1 DEF Nested, Rooted
    <3>2. walk[t.root] = Part(o, 1, N)
      BY <3>1, <1>2, <1>12 DEF w
    <3>3. Part(o, 1, N) = o
      BY <1>3 DEF Part
    <3> QED BY <3>2, <3>3
  <2> QED BY <2>1, <2>2
<1> QED BY <1>10, <1>13, <1>14


\* The clauses of LinksAgree, for any tree with a shape.
LEMMA ShapeLinksAgree ==
  ASSUME NEW t, NEW N, NEW o, NEW pos, Typed(t), Shape(t, N, o, pos)
  PROVE  /\ \A n \in t.live, s \in Side :
              t.link[s][n] # NULL =>
                t.link[s][n] \in t.live /\ t.parent[t.link[s][n]] = n
         /\ t.root # NULL => t.parent[t.root] = NULL
         /\ \A n \in t.live :
              Cardinality({e \in t.live \X Side : t.link[e[2]][e[1]] = n})
                = IF n = t.root THEN 0 ELSE 1
         /\ ToSet(InOrder(t)) = t.live
<1>1. PICK lo, hi : Nested(t, N, pos, lo, hi)
  BY DEF Shape
<1>2. t \in Tree /\ NULL \notin t.live /\ pos \in [Nodes -> Int]
  BY KeysAreInts DEF Shape, Numbered
<1>3. ASSUME NEW n \in t.live, NEW s \in Side, t.link[s][n] # NULL
      PROVE  t.link[s][n] \in t.live /\ t.parent[t.link[s][n]] = n
  BY <1>1, <1>2, <1>3, ChildInside
<1>4. t.root # NULL => t.root \in t.live /\ t.parent[t.root] = NULL
  BY <1>1 DEF Nested, Rooted
<1>5. ASSUME NEW n \in t.live
      PROVE  Cardinality({e \in t.live \X Side : t.link[e[2]][e[1]] = n})
               = IF n = t.root THEN 0 ELSE 1
  <2> DEFINE E == {e \in t.live \X Side : t.link[e[2]][e[1]] = n}
  <2>1. CASE n = t.root
    <3>1. ASSUME NEW m \in t.live, NEW s \in Side, t.link[s][m] = n PROVE FALSE
      BY <3>1, <2>1, <1>2, <1>3, <1>4
    <3>2. E = {}
      BY <3>1
    <3> HIDE DEF E
    <3>3. Cardinality(E) = 0
      BY <3>2, FS_EmptySet
    <3> QED BY <3>3, <2>1 DEF E
  <2>2. CASE n # t.root
    <3>1. t.parent[n] \in t.live /\ \E s \in Side : t.link[s][t.parent[n]] = n
      BY <2>2, <1>1 DEF Nested, Hangs
    <3>2. PICK s \in Side : t.link[s][t.parent[n]] = n
      BY <3>1
    <3> DEFINE p == t.parent[n]
    <3>3. ASSUME NEW m \in t.live, NEW x \in Side, t.link[x][m] = n
          PROVE  m = p /\ x = s
      <4> HIDE DEF p
      <4>1. p \in t.live /\ t.link[s][p] = n /\ t.link[s][p] # NULL
        BY <3>1, <3>2, <1>2 DEF p
      <4> QED BY <4>1, <3>3, <1>1, <1>2, ChildOnce
    <3> HIDE DEF p
    <3>4. E = {<<p, s>>}
      <4>1. p \in t.live /\ t.link[s][p] = n
        BY <3>1, <3>2 DEF p
      <4> QED BY <4>1, <3>3
    <3> HIDE DEF E
    <3>5. Cardinality(E) = 1
      BY <3>4, FS_Singleton
    <3> QED BY <3>5, <2>2 DEF E
  <2> QED BY <2>1, <2>2
<1>6. ToSet(InOrder(t)) = t.live
  <2>1. InOrder(t) = o
    BY InOrderIs
  <2>2. /\ \A i \in 1..N : o[i] \in t.live
        /\ \A n \in t.live : pos[n] \in 1..N /\ o[pos[n]] = n
        /\ DOMAIN o = 1..N
    BY DEF Shape, Numbered
  <2> QED BY <2>1, <2>2 DEF ToSet
<1> QED BY <1>3, <1>4, <1>5, <1>6

\* parent, llink and rlink tell the same story, the root has no parent, and
\* every live node hangs from it exactly once, whatever has been filed, taken
\* away and rotated; FixRight's lone turn of the inner child is no exception.
THEOREM AlwaysLinksAgree == Spec => []LinksAgree
<1>1. SearchTree(tree) => LinksAgree
  <2> SUFFICES ASSUME SearchTree(tree) PROVE LinksAgree
    OBVIOUS
  <2>1. PICK N, o, pos : Shape(tree, N, o, pos)
    BY DEF SearchTree
  <2>2. Typed(tree)
    BY DEF SearchTree
  <2> QED BY <2>1, <2>2, ShapeLinksAgree DEF LinksAgree
<1> QED BY <1>1, StaysSearchTree, PTL

-----------------------------------------------------------------------------
(* The descriptors filed under a name.  keys[i] and fds[i] are the i-th    *)
(* entry from the left, and up[i] what the first i of them file under k.   *)

KeysOf(t, N, o) == [i \in 1..N |-> t.key[o[i]]]
FdsOf(t, N, o)  == [i \in 1..N |-> t.fd[o[i]]]

Counted(k, key, fd, q) == IF key = k THEN Append(q, fd) ELSE q

Tally(N, keys, fds, k, up) ==
  /\ up \in [0..N -> Seq(Fds)]
  /\ up[0] = <<>>
  /\ \A i \in 1..N : up[i] = Counted(k, keys[i], fds[i], up[i - 1])

\* keys2 and fds2 hold one entry more, k and f in place p.
PutIn(N, keys, fds, p, k, f, keys2, fds2) ==
  /\ p \in 1..(N + 1)
  /\ \A i \in 1..(N + 1) :
       /\ keys2[i] = IF i < p THEN keys[i] ELSE IF i = p THEN k ELSE keys[i - 1]
       /\ fds2[i]  = IF i < p THEN fds[i] ELSE IF i = p THEN f ELSE fds[i - 1]

\* keys2 and fds2 hold all entries but the r-th.
TakenOut(N, keys, fds, r, keys2, fds2) ==
  /\ r \in 1..N
  /\ \A i \in 1..(N - 1) :
       /\ keys2[i] = IF i < r THEN keys[i] ELSE keys[i + 1]
       /\ fds2[i]  = IF i < r THEN fds[i] ELSE fds[i + 1]

\* Induction from a to b.
LEMMA InductionUpTo ==
  ASSUME NEW a \in Nat, NEW b \in Nat, NEW T, a \in T,
         \A n \in T : n \in a..(b - 1) => n + 1 \in T
  PROVE  \A n \in a..b : n \in T
<1> DEFINE G == {m \in Nat : a + m <= b => a + m \in T}
<1>1. 0 \in G
  OBVIOUS
<1>2. ASSUME NEW m \in G PROVE m + 1 \in G
  <2> SUFFICES ASSUME a + (m + 1) <= b PROVE a + (m + 1) \in T
    OBVIOUS
  <2> DEFINE n == a + m
  <2>1. n \in T /\ n \in a..(b - 1)
    OBVIOUS
  <2>2. n + 1 = a + (m + 1)
    OBVIOUS
  <2> QED BY <2>1, <2>2
<1>3. G = Nat
  <2>1. G \subseteq Nat
    OBVIOUS
  <2> HIDE DEF G
  <2> QED BY <2>1, <1>1, <1>2, Induction
<1> SUFFICES ASSUME NEW n \in a..b PROVE n \in T
  OBVIOUS
<1>4. n - a \in Nat /\ a + (n - a) = n /\ n <= b
  OBVIOUS
<1>5. n - a \in G
  BY <1>3, <1>4
<1> QED BY <1>4, <1>5

\* Filed is the last tally of a name's descriptors, taken in the order of the nodes.
LEMMA FiledIs ==
  ASSUME NEW t, NEW N, NEW o, NEW pos, Typed(t), Shape(t, N, o, pos), NEW k
  PROVE  \E up : /\ Tally(N, KeysOf(t, N, o), FdsOf(t, N, o), k, up)
                 /\ Filed(t, k) = up[N]
<1> DEFINE Sums(up, n) ==
             up = [i \in 0..n |-> IF i = 0 THEN <<>>
                                  ELSE Counted(k, t.key[o[i]], t.fd[o[i]], up[i - 1])]
           T == {n \in Nat : \E up : Sums(up, n)}
<1>0. InOrder(t) = o /\ Len(o) = N /\ N \in Nat /\ \A i \in 1..N : o[i] \in t.live
  BY InOrderIs DEF Shape, Numbered
<1>1. 0 \in T
  <2>1. Sums([i \in 0..0 |-> <<>>], 0)
    OBVIOUS
  <2> QED BY <2>1
<1>2. ASSUME NEW n \in T PROVE n + 1 \in T
  <2>1. PICK up : Sums(up, n)
    OBVIOUS
  <2> DEFINE up2 == [i \in 0..(n + 1) |-> IF i = 0 THEN <<>>
                                        ELSE Counted(k, t.key[o[i]], t.fd[o[i]], up[i - 1])]
  <2>2. \A i \in 0..n : up2[i] = up[i]
    BY <2>1
  <2>3. \A i \in 0..(n + 1) : i # 0 => up2[i - 1] = up[i - 1]
    <3> HIDE DEF up2, Sums
    <3>1. \A i \in 0..(n + 1) : i # 0 => i - 1 \in 0..n
      OBVIOUS
    <3> QED BY <3>1, <2>2
  <2>4. Sums(up2, n + 1)
    BY <2>3
  <2> HIDE DEF up2, Sums
  <2> QED BY <2>4
<1>3. N \in T
  <2>1. T \subseteq Nat
    OBVIOUS
  <2> HIDE DEF T
  <2> QED BY <2>1, <1>0, <1>1, <1>2, Induction
<1> DEFINE upTo == CHOOSE up : Sums(up, N)
<1>4. Sums(upTo, N)
  BY <1>3
<1>5. Filed(t, k) = upTo[N]
  BY <1>0 DEF Filed, Counted
<1> HIDE DEF upTo
<1>6. upTo[0] = <<>> /\ \A i \in 1..N : upTo[i] = Counted(k, t.key[o[i]], t.fd[o[i]], upTo[i - 1])
  BY <1>0, <1>4
<1> DEFINE G == {n \in 0..N : upTo[n] \in Seq(Fds)}
<1>7. 0 \in G
  <2>1. 0 \in 0..N /\ <<>> \in Seq(Fds)
    BY <1>0, EmptySeq
  <2> QED BY <2>1, <1>6
<1>8. ASSUME NEW n \in G, n \in 0..(N - 1) PROVE n + 1 \in G
  <2>1. n + 1 \in 1..N /\ (n + 1) - 1 = n
    BY <1>0, <1>8
  <2>2. t.fd[o[n + 1]] \in Fds
    BY <2>1, <1>0, KeysAreInts
  <2>3. upTo[n + 1] = Counted(k, t.key[o[n + 1]], t.fd[o[n + 1]], upTo[n])
    BY <2>1, <1>6
  <2>4. upTo[n] \in Seq(Fds)
    OBVIOUS
  <2>5. upTo[n + 1] \in Seq(Fds)
    BY <2>2, <2>3, <2>4, AppendProperties DEF Counted
  <2> QED BY <2>1, <2>5
<1>9. \A n \in 0..N : n \in G
  <2> HIDE DEF G
  <2> QED BY <1>0, <1>7, <1>8, InductionUpTo
<1>10. upTo \in [0..N -> Seq(Fds)]
  BY <1>4, <1>9
<1>11. Tally(N, KeysOf(t, N, o), FdsOf(t, N, o), k, upTo)
  BY <1>6, <1>10 DEF Tally, KeysOf, FdsOf
<1> QED BY <1>5, <1>11

\* RemoveAt, element by element.
LEMMA RemoveAtIs ==
  ASSUME NEW S, NEW q \in Seq(S), NEW c \in 1..Len(q)
  PROVE  /\ RemoveAt(q, c) \in Seq(S) /\ Len(RemoveAt(q, c)) = Len(q) - 1
         /\ \A j \in 1..(Len(q) - 1) : RemoveAt(q, c)[j] = IF j < c THEN q[j] ELSE q[j + 1]
<1> DEFINE L     == Len(q)
           left  == SubSeq(q, 1, c - 1)
           right == SubSeq(q, c + 1, L)
           cat   == left \o right
<1>1. L \in Nat /\ c \in 1..L
  BY LenProperties
<1>2. left \in Seq(S) /\ Len(left) = c - 1 /\ \A j \in 1..(c - 1) : left[j] = q[j]
  <2>1. \A i \in 1..(c - 1) : q[i] \in S
    BY <1>1, ElementOfSeq
  <2>2. c - 1 \in Int /\ 1 <= (c - 1) + 1
    BY <1>1
  <2> QED BY <2>1, <2>2, <1>1, SubSeqProperties
<1>3. right \in Seq(S) /\ Len(right) = L - c /\ \A j \in 1..(L - c) : right[j] = q[j + c]
  <2>1. \A i \in (c + 1)..L : q[i] \in S
    BY <1>1, ElementOfSeq
  <2>2. c + 1 \in Int /\ L \in Int /\ c + 1 <= L + 1
    BY <1>1
  <2> QED BY <2>1, <2>2, <1>1, SubSeqProperties
<1>4. RemoveAt(q, c) = cat
  BY DEF RemoveAt
<1>5. /\ cat \in Seq(S) /\ Len(cat) = Len(left) + Len(right)
      /\ \A i \in 1..(Len(left) + Len(right)) :
           cat[i] = IF i <= Len(left) THEN left[i] ELSE right[i - Len(left)]
  <2> HIDE DEF left, right
  <2> QED BY <1>2, <1>3, ConcatProperties
<1> HIDE DEF L, left, right, cat
<1>6. Len(cat) = L - 1
  BY <1>1, <1>2, <1>3, <1>5
<1>7. ASSUME NEW j \in 1..(L - 1) PROVE cat[j] = IF j < c THEN q[j] ELSE q[j + 1]
  <2>1. CASE j < c
    BY <2>1, <1>1, <1>2, <1>3, <1>5
  <2>2. CASE ~(j < c)
    <3> DEFINE i == j - (c - 1)
    <3>1. cat[j] = right[i]
      BY <2>2, <1>1, <1>2, <1>3, <1>5
    <3>2. i \in 1..(L - c) /\ i + c = j + 1
      BY <2>2, <1>1
    <3> QED BY <2>2, <3>1, <3>2, <1>3
  <2> QED BY <2>1, <2>2
<1> QED BY <1>4, <1>5, <1>6, <1>7 DEF L

\* RemoveAt and Append commute, but for the element appended.
LEMMA RemoveAtAppend ==
  ASSUME NEW S, NEW q \in Seq(S), NEW x \in S
  PROVE  /\ RemoveAt(Append(q, x), Len(q) + 1) = q
         /\ \A c \in 1..Len(q) : RemoveAt(Append(q, x), c) = Append(RemoveAt(q, c), x)
<1> DEFINE L == Len(q)
           a == Append(q, x)
<1>1. /\ L \in Nat /\ a \in Seq(S) /\ Len(a) = L + 1
      /\ \A i \in 1..L : a[i] = q[i]
      /\ a[L + 1] = x
  BY LenProperties, AppendProperties
<1> HIDE DEF a
<1>2. RemoveAt(a, L + 1) = q
  <2> DEFINE z == RemoveAt(a, L + 1)
  <2>1. L + 1 \in 1..Len(a)
    BY <1>1
  <2>2. /\ z \in Seq(S) /\ Len(z) = Len(a) - 1
        /\ \A j \in 1..(Len(a) - 1) : z[j] = IF j < L + 1 THEN a[j] ELSE a[j + 1]
    BY <2>1, <1>1, RemoveAtIs
  <2> HIDE DEF z
  <2>3. Len(z) = L /\ \A j \in 1..L : z[j] = q[j]
    BY <2>2, <1>1
  <2>4. z = q
    BY <2>2, <2>3, SeqEqual
  <2> QED BY <2>4 DEF z
<1>3. ASSUME NEW c \in 1..L PROVE RemoveAt(a, c) = Append(RemoveAt(q, c), x)
  <2> DEFINE y == RemoveAt(a, c)
             w == RemoveAt(q, c)
             z == Append(w, x)
  <2>1. /\ y \in Seq(S) /\ Len(y) = Len(a) - 1
        /\ \A j \in 1..(Len(a) - 1) : y[j] = IF j < c THEN a[j] ELSE a[j + 1]
    <3>1. c \in 1..Len(a)
      BY <1>1
    <3> QED BY <3>1, <1>1, RemoveAtIs
  <2>2. /\ w \in Seq(S) /\ Len(w) = L - 1
        /\ \A j \in 1..(L - 1) : w[j] = IF j < c THEN q[j] ELSE q[j + 1]
    BY RemoveAtIs
  <2>3. /\ z \in Seq(S) /\ Len(z) = Len(w) + 1
        /\ \A i \in 1..Len(w) : z[i] = w[i]
        /\ z[Len(w) + 1] = x
    <3> HIDE DEF w
    <3> QED BY <2>2, AppendProperties
  <2> HIDE DEF y, w, z, L
  <2>4. Len(y) = L /\ Len(z) = L /\ (L - 1) + 1 = L
    BY <2>1, <2>2, <2>3, <1>1
  <2>5. ASSUME NEW j \in 1..L PROVE y[j] = z[j]
    <3>1. CASE j = L
      <4>1. y[j] = a[L + 1]
        BY <3>1, <2>1, <1>1
      <4>2. z[j] = x
        BY <3>1, <2>2, <2>3, <2>4
      <4> QED BY <4>1, <4>2, <1>1
    <3>2. CASE j < L
      <4>1. z[j] = IF j < c THEN q[j] ELSE q[j + 1]
        BY <3>2, <2>2, <2>3, <1>1
      <4>2. y[j] = IF j < c THEN a[j] ELSE a[j + 1]
        BY <2>1, <1>1
      <4>3. a[j] = q[j] /\ a[j + 1] = q[j + 1]
        BY <3>2, <1>1
      <4> QED BY <4>1, <4>2, <4>3
    <3> QED BY <3>1, <3>2, <1>1
  <2>6. y = z
    BY <2>1, <2>3, <2>4, <2>5, SeqEqual
  <2> QED BY <2>6 DEF y, w, z
<1> QED BY <1>2, <1>3 DEF a

\* An entry that is inserted after the entries of its own name ends up last
\* among them.
LEMMA TallyInserted ==
  ASSUME NEW N \in Nat, NEW keys, NEW fds, NEW keys2, NEW fds2, NEW k, NEW k0, NEW f,
         NEW p, NEW up, NEW up2,
         Tally(N, keys, fds, k, up), Tally(N + 1, keys2, fds2, k, up2),
         PutIn(N, keys, fds, p, k0, f, keys2, fds2),
         \A i \in p..N : keys[i] # k0
  PROVE  up2[N + 1] = Counted(k, k0, f, up[N])
<1>0. /\ p \in 1..(N + 1)
      /\ \A i \in 1..(N + 1) :
           /\ keys2[i] = IF i < p THEN keys[i] ELSE IF i = p THEN k0 ELSE keys[i - 1]
           /\ fds2[i]  = IF i < p THEN fds[i] ELSE IF i = p THEN f ELSE fds[i - 1]
  BY DEF PutIn
<1>1. /\ up[0] = <<>> /\ up2[0] = <<>>
      /\ \A i \in 1..N : up[i] = Counted(k, keys[i], fds[i], up[i - 1])
      /\ \A i \in 1..(N + 1) : up2[i] = Counted(k, keys2[i], fds2[i], up2[i - 1])
  BY DEF Tally
<1> DEFINE A == {n \in Nat : up2[n] = up[n]}
           B == {n \in Nat : up2[n + 1] = Counted(k, k0, f, up[n])}
<1>2. \A n \in 0..(p - 1) : n \in A
  <2>1. 0 \in A
    BY <1>0, <1>1
  <2>2. ASSUME NEW n \in A, n \in 0..((p - 1) - 1) PROVE n + 1 \in A
    <3>1. /\ n + 1 \in 1..N /\ n + 1 \in 1..(N + 1) /\ n + 1 < p /\ (n + 1) - 1 = n
      BY <1>0, <2>2
    <3>2. keys2[n + 1] = keys[n + 1] /\ fds2[n + 1] = fds[n + 1]
      BY <1>0, <3>1
    <3>3. up2[n] = up[n]
      BY <1>0
    <3>4. up2[n + 1] = Counted(k, keys2[n + 1], fds2[n + 1], up2[n])
      BY <1>0, <3>1, <1>1
    <3>5. up[n + 1] = Counted(k, keys[n + 1], fds[n + 1], up[n])
      BY <1>0, <3>1, <1>1
    <3> QED BY <1>0, <3>2, <3>3, <3>4, <3>5
  <2>3. p - 1 \in Nat /\ 0 \in Nat
    BY <1>0
  <2> HIDE DEF A
  <2> QED BY <1>0, <2>1, <2>2, <2>3, InductionUpTo
<1>3. p - 1 \in B
  <2>1. p \in 1..(N + 1) /\ (p - 1) + 1 = p /\ p - 1 \in 0..(p - 1) /\ p - 1 \in Nat
    BY <1>0
  <2>2. up2[p] = Counted(k, keys2[p], fds2[p], up2[p - 1])
    BY <1>0, <2>1, <1>1
  <2>3. keys2[p] = k0 /\ fds2[p] = f
    BY <1>0, <2>1
  <2>4. up2[p - 1] = up[p - 1]
    BY <1>0, <2>1, <1>2
  <2> QED BY <1>0, <2>1, <2>2, <2>3, <2>4
<1>4. ASSUME NEW n \in B, n \in (p - 1)..(N - 1) PROVE n + 1 \in B
  <2>1. /\ n \in Nat /\ n + 1 \in 1..N /\ n + 1 \in p..N /\ (n + 1) - 1 = n
        /\ (n + 1) + 1 \in 1..(N + 1) /\ ~((n + 1) + 1 < p) /\ (n + 1) + 1 # p
        /\ ((n + 1) + 1) - 1 = n + 1
    BY <1>0, <1>4
  <2>2. keys2[(n + 1) + 1] = keys[n + 1] /\ fds2[(n + 1) + 1] = fds[n + 1]
    BY <1>0, <2>1
  <2>3. up2[(n + 1) + 1] = Counted(k, keys2[(n + 1) + 1], fds2[(n + 1) + 1], up2[n + 1])
    BY <1>0, <2>1, <1>1
  <2>4. up[n + 1] = Counted(k, keys[n + 1], fds[n + 1], up[n])
    BY <1>0, <2>1, <1>1
  <2>5. up2[n + 1] = Counted(k, k0, f, up[n])
    BY <1>0
  <2>6. keys[n + 1] # k0
    BY <1>0, <2>1
  <2>7. up2[(n + 1) + 1] = Counted(k, k0, f, up[n + 1])
    BY <1>0, <2>2, <2>3, <2>4, <2>5, <2>6 DEF Counted
  <2> QED BY <1>0, <2>1, <2>7
<1>5. \A n \in (p - 1)..N : n \in B
  <2>1. p - 1 \in Nat
    BY <1>0
  <2> HIDE DEF B
  <2> QED BY <1>0, <2>1, <1>3, <1>4, InductionUpTo
<1>6. N \in B
  BY <1>0, <1>5
<1> QED BY <1>6

\* Counting one more entry and taking out an earlier one commute.
LEMMA CountedAfterRemoval ==
  ASSUME NEW S, NEW q \in Seq(S), NEW x \in S, NEW c \in 1..Len(q), NEW k, NEW key,
         NEW y, y = Counted(k, key, x, q)
  PROVE  /\ c \in 1..Len(y) /\ y[c] = q[c]
         /\ Counted(k, key, x, RemoveAt(q, c)) = RemoveAt(y, c)
<1>1. Len(q) \in Nat
  BY LenProperties
<1>2. Len(Append(q, x)) = Len(q) + 1 /\ \A i \in 1..Len(q) : Append(q, x)[i] = q[i]
  BY AppendProperties
<1>3. CASE key # k
  BY <1>3 DEF Counted
<1>4. CASE key = k
  <2>1. c \in 1..Len(Append(q, x)) /\ Append(q, x)[c] = q[c]
    BY <1>1, <1>2
  <2>2. Append(RemoveAt(q, c), x) = RemoveAt(Append(q, x), c)
    BY RemoveAtAppend, Zenon
  <2>3. y = Append(q, x) /\ Counted(k, key, x, RemoveAt(q, c)) = Append(RemoveAt(q, c), x)
    BY <1>4, Zenon DEF Counted
  <2> QED BY <2>1, <2>2, <2>3, Zenon
<1> QED BY <1>3, <1>4

\* Of the entry that is taken away, what comes before and after it stays.
LEMMA TallyRemoved ==
  ASSUME NEW N \in Nat, NEW keys, NEW fds, NEW keys2, NEW fds2, NEW k,
         NEW r, NEW up, NEW up2,
         Tally(N, keys, fds, k, up), Tally(N - 1, keys2, fds2, k, up2),
         \A i \in 1..N : fds[i] \in Fds,
         TakenOut(N, keys, fds, r, keys2, fds2)
  PROVE  IF keys[r] # k THEN up2[N - 1] = up[N]
         ELSE /\ Len(up[r]) \in 1..Len(up[N])
              /\ up[N][Len(up[r])] = fds[r]
              /\ up2[N - 1] = RemoveAt(up[N], Len(up[r]))
<1>0. /\ r \in 1..N
      /\ \A i \in 1..(N - 1) :
           /\ keys2[i] = IF i < r THEN keys[i] ELSE keys[i + 1]
           /\ fds2[i]  = IF i < r THEN fds[i] ELSE fds[i + 1]
  BY DEF TakenOut
<1>1. /\ up[0] = <<>> /\ up2[0] = <<>>
      /\ \A i \in 0..N : up[i] \in Seq(Fds)
      /\ \A i \in 1..N : up[i] = Counted(k, keys[i], fds[i], up[i - 1])
      /\ \A i \in 1..(N - 1) : up2[i] = Counted(k, keys2[i], fds2[i], up2[i - 1])
  BY DEF Tally
<1> DEFINE c == Len(up[r])
           A == {n \in Nat : up2[n] = up[n]}
           B == {n \in Nat : up2[n - 1] = up[n]}
           C == {n \in Nat : /\ c \in 1..Len(up[n])
                             /\ up[n][c] = fds[r]
                             /\ up2[n - 1] = RemoveAt(up[n], c)}
<1>2. \A n \in 0..(r - 1) : n \in A
  <2>1. 0 \in A
    BY <1>0, <1>1
  <2>2. ASSUME NEW n \in A, n \in 0..((r - 1) - 1) PROVE n + 1 \in A
    <3>1. n \in Nat /\ n + 1 \in 1..N /\ n + 1 \in 1..(N - 1) /\ n + 1 < r /\ (n + 1) - 1 = n
      BY <1>0, <2>2
    <3>2. keys2[n + 1] = keys[n + 1] /\ fds2[n + 1] = fds[n + 1]
      BY <1>0, <3>1
    <3>3. up2[n] = up[n]
      BY <1>0
    <3>4. up2[n + 1] = Counted(k, keys2[n + 1], fds2[n + 1], up2[n])
      BY <1>0, <3>1, <1>1
    <3>5. up[n + 1] = Counted(k, keys[n + 1], fds[n + 1], up[n])
      BY <1>0, <3>1, <1>1
    <3> QED BY <1>0, <3>1, <3>2, <3>3, <3>4, <3>5
  <2>3. r - 1 \in Nat /\ 0 \in Nat
    BY <1>0
  <2> HIDE DEF A
  <2> QED BY <1>0, <2>1, <2>2, <2>3, InductionUpTo
<1>3. up2[r - 1] = up[r - 1] /\ up[r] = Counted(k, keys[r], fds[r], up[r - 1])
  <2>1. r - 1 \in 0..(r - 1) /\ r \in 1..N
    BY <1>0
  <2>2. r - 1 \in A
    BY <1>0, <2>1, <1>2
  <2> QED BY <1>0, <2>1, <2>2, <1>1
\* One step to the right of the entry that is gone.
<1>4. ASSUME NEW n \in r..(N - 1)
      PROVE  /\ n \in Nat /\ n + 1 \in Nat /\ (n + 1) - 1 = n
             /\ up[n] \in Seq(Fds) /\ fds[n + 1] \in Fds
             /\ up[n + 1] = Counted(k, keys[n + 1], fds[n + 1], up[n])
             /\ up2[n] = Counted(k, keys[n + 1], fds[n + 1], up2[n - 1])
  <2>1. /\ n \in Nat /\ n + 1 \in Nat /\ n + 1 \in 1..N /\ n \in 1..(N - 1) /\ n \in 0..N
        /\ (n + 1) - 1 = n /\ ~(n < r)
    BY <1>0
  <2>2. keys2[n] = keys[n + 1] /\ fds2[n] = fds[n + 1]
    BY <1>0, <2>1
  <2>3. up2[n] = Counted(k, keys2[n], fds2[n], up2[n - 1])
    BY <1>0, <2>1, <1>1
  <2>4. up[n + 1] = Counted(k, keys[n + 1], fds[n + 1], up[n])
    BY <1>0, <2>1, <1>1
  <2> QED BY <1>0, <2>1, <2>2, <2>3, <2>4, <1>1
<1>5. CASE keys[r] # k
  <2>1. r \in B
    BY <1>0, <1>3, <1>5 DEF Counted
  <2>2. ASSUME NEW n \in B, n \in r..(N - 1) PROVE n + 1 \in B
    <3>1. up2[n - 1] = up[n]
      BY <1>0
    <3>2. up2[n] = up[n + 1] /\ n + 1 \in Nat /\ (n + 1) - 1 = n
      BY <1>0, <3>1, <2>2, <1>4
    <3> QED BY <1>0, <3>2
  <2>3. \A n \in r..N : n \in B
    <3> HIDE DEF B
    <3> QED BY <1>0, <2>1, <2>2, InductionUpTo
  <2>4. N \in B
    BY <1>0, <2>3
  <2> QED BY <1>0, <2>4, <1>5
<1>6. CASE keys[r] = k
  <2>1. r \in C
    <3> DEFINE q == up[r - 1]
    <3>1. q \in Seq(Fds) /\ fds[r] \in Fds
      <4>1. r - 1 \in 0..N /\ r \in 1..N
        BY <1>0
      <4> QED BY <4>1, <1>1
    <3>2. up[r] = Append(q, fds[r])
      BY <1>0, <1>3, <1>6 DEF Counted
    <3> HIDE DEF q
    <3>3. c = Len(q) + 1 /\ Len(q) \in Nat /\ up[r][c] = fds[r]
      BY <1>0, <3>1, <3>2, AppendProperties, LenProperties
    <3>4. RemoveAt(up[r], c) = q
      BY <1>0, <3>1, <3>2, <3>3, RemoveAtAppend
    <3>5. up2[r - 1] = q
      BY <1>0, <1>3 DEF q
    <3>6. c \in 1..Len(up[r])
      BY <1>0, <3>3
    <3> HIDE DEF c
    <3> QED BY <1>0, <3>3, <3>4, <3>5, <3>6
  <2>2. ASSUME NEW n \in C, n \in r..(N - 1) PROVE n + 1 \in C
    <3> DEFINE q == up[n]
               x == fds[n + 1]
               y == up[n + 1]
               z == up2[n]
    <3> HIDE DEF q, x, y, z, c, C
    <3>1. c \in 1..Len(q) /\ q[c] = fds[r] /\ up2[n - 1] = RemoveAt(q, c)
      BY DEF C, q
    <3>2. /\ n + 1 \in Nat /\ (n + 1) - 1 = n /\ q \in Seq(Fds) /\ x \in Fds
          /\ y = Counted(k, keys[n + 1], x, q)
          /\ z = Counted(k, keys[n + 1], x, up2[n - 1])
      BY <1>0, <2>2, <1>4 DEF q, x, y, z
    <3>3. c \in 1..Len(y) /\ y[c] = fds[r] /\ z = RemoveAt(y, c)
      BY <1>0, <3>1, <3>2, CountedAfterRemoval
    <3> QED BY <1>0, <3>2, <3>3 DEF C, y, z
  <2>3. \A n \in r..N : n \in C
    <3> HIDE DEF C
    <3> QED BY <1>0, <2>1, <2>2, InductionUpTo
  <2>4. N \in C
    BY <1>0, <2>3
  <2> QED BY <1>0, <2>4, <1>6
<1> QED BY <1>5, <1>6

\* Where no entry bears the name, the tally is empty.
LEMMA TallyNone ==
  ASSUME NEW N \in Nat, NEW keys, NEW fds, NEW k, NEW up, Tally(N, keys, fds, k, up),
         NEW m \in 0..N, \A i \in 1..m : keys[i] # k
  PROVE  up[m] = <<>>
<1>1. up[0] = <<>> /\ \A i \in 1..N : up[i] = Counted(k, keys[i], fds[i], up[i - 1])
  BY DEF Tally
<1> DEFINE A == {n \in Nat : up[n] = <<>>}
<1>2. 0 \in A
  BY <1>1
<1>3. ASSUME NEW n \in A, n \in 0..(m - 1) PROVE n + 1 \in A
  <2>1. n + 1 \in Nat /\ n + 1 \in 1..N /\ n + 1 \in 1..m /\ (n + 1) - 1 = n
    BY <1>3
  <2>2. up[n + 1] = up[n]
    BY <2>1, <1>1 DEF Counted
  <2>3. up[n] = <<>>
    OBVIOUS
  <2> QED BY <2>1, <2>2, <2>3
<1>4. \A n \in 0..m : n \in A
  <2>1. m \in Nat /\ 0 \in Nat
    OBVIOUS
  <2> HIDE DEF A
  <2> QED BY <2>1, <1>2, <1>3, InductionUpTo
<1> QED BY <1>4

\* An insertion files the descriptor last under its name, and changes what is
\* filed under no other.
LEMMA FiledInserted ==
  ASSUME NEW t, NEW u, NEW N, NEW o, NEW pos, NEW x \in Nodes \ t.live,
         NEW k0 \in Keys, NEW f \in Fds, NEW p,
         Typed(t), Shape(t, N, o, pos), Sorted(t, pos),
         Inserted(t, u, N, o, pos, x, k0, f, p), NEW k
  PROVE  Filed(u, k) = Counted(k, k0, f, Filed(t, k))
<1> DEFINE o2    == WithNew(N, o, p, x)
           pos2  == Shifted(pos, p, x)
           keys  == KeysOf(t, N, o)
           fds   == FdsOf(t, N, o)
           keys2 == KeysOf(u, N + 1, o2)
           fds2  == FdsOf(u, N + 1, o2)
<1>1. /\ N \in Nat /\ p \in 1..(N + 1) /\ k0 \in Int
      /\ \A i \in 1..N : o[i] \in t.live /\ pos[o[i]] = i
      /\ \A n \in t.live : n \in Nodes /\ t.key[n] \in Int
      /\ \A y \in Nodes : /\ u.key[y] = IF y = x THEN k0 ELSE t.key[y]
                          /\ u.fd[y]  = IF y = x THEN f ELSE t.fd[y]
      /\ \A y \in t.live : IF pos[y] < p THEN t.key[y] <= k0 ELSE k0 < t.key[y]
  BY KeysAreInts DEF Shape, Numbered, Inserted
<1>2. Typed(u) /\ Shape(u, N + 1, o2, pos2)
  BY InsertedSearchTree
<1>3. PICK up : Tally(N, keys, fds, k, up) /\ Filed(t, k) = up[N]
  BY FiledIs
<1>4. PICK up2 : Tally(N + 1, keys2, fds2, k, up2) /\ Filed(u, k) = up2[N + 1]
  <2> HIDE DEF o2, pos2
  <2> QED BY <1>2, FiledIs
<1>5. ASSUME NEW i \in 1..(N + 1)
      PROVE  /\ keys2[i] = IF i < p THEN keys[i] ELSE IF i = p THEN k0 ELSE keys[i - 1]
             /\ fds2[i]  = IF i < p THEN fds[i] ELSE IF i = p THEN f ELSE fds[i - 1]
  <2>1. keys2[i] = u.key[o2[i]] /\ fds2[i] = u.fd[o2[i]]
        /\ o2[i] = IF i < p THEN o[i] ELSE IF i = p THEN x ELSE o[i - 1]
    BY DEF WithNew, KeysOf, FdsOf
  <2>0. \A j \in 1..N : keys[j] = t.key[o[j]] /\ fds[j] = t.fd[o[j]]
    BY DEF KeysOf, FdsOf
  <2> HIDE DEF keys, fds, keys2, fds2, o2
  <2>2. CASE i < p
    <3>1. i \in 1..N /\ o[i] \in Nodes /\ o[i] # x
      BY <2>2, <1>1
    <3> QED BY <2>0, <3>1, <2>1, <2>2, <1>1
  <2>3. CASE i = p
    BY <2>1, <2>3, <1>1
  <2>4. CASE p < i
    <3>1. i - 1 \in 1..N /\ o[i - 1] \in Nodes /\ o[i - 1] # x
      BY <2>4, <1>1
    <3> QED BY <2>0, <3>1, <2>1, <2>4, <1>1
  <2> QED BY <2>2, <2>3, <2>4, <1>1
<1>6. ASSUME NEW i \in p..N PROVE keys[i] # k0
  <2>1. i \in 1..N /\ ~(i < p)
    BY <1>1
  <2>2. o[i] \in t.live /\ pos[o[i]] = i
    BY <2>1, <1>1
  <2>3. k0 < t.key[o[i]] /\ t.key[o[i]] \in Int
    BY <2>1, <2>2, <1>1
  <2>4. keys[i] = t.key[o[i]]
    BY <2>1 DEF KeysOf
  <2> QED BY <2>3, <2>4, <1>1
<1>7. up2[N + 1] = Counted(k, k0, f, up[N])
  <2>1. PutIn(N, keys, fds, p, k0, f, keys2, fds2)
    BY <1>1, <1>5 DEF PutIn
  <2> QED BY <2>1, <1>1, <1>3, <1>4, <1>6, TallyInserted
<1> QED BY <1>3, <1>4, <1>7

\* A removal takes one descriptor, that of the removed entry, from its name's
\* list, and changes what is filed under no other.
LEMMA FiledRemoved ==
  ASSUME NEW t, NEW u, NEW N, NEW o, NEW pos, NEW r, NEW o2, NEW pos2,
         Typed(t), Shape(t, N, o, pos), Sorted(t, pos),
         Removed(t, u, N, o, r, o2, pos2), NEW k
  PROVE  IF t.key[o[r]] # k THEN Filed(u, k) = Filed(t, k)
         ELSE \E i \in DOMAIN Filed(t, k) :
                /\ Filed(t, k)[i] = t.fd[o[r]]
                /\ Filed(u, k) = RemoveAt(Filed(t, k), i)
                /\ (\A j \in 1..(r - 1) : t.key[o[j]] # k) => i = 1
<1> DEFINE keys  == KeysOf(t, N, o)
           fds   == FdsOf(t, N, o)
           keys2 == KeysOf(u, N - 1, o2)
           fds2  == FdsOf(u, N - 1, o2)
<1>1. /\ N \in Nat /\ r \in 1..N
      /\ \A i \in 1..N : o[i] \in t.live
      /\ \A n \in t.live : t.fd[n] \in Fds
      /\ Shape(u, N - 1, o2, pos2)
  BY KeysAreInts DEF Shape, Numbered, Removed
<1>2. Typed(u)
  BY RemovedSearchTree
<1>3. PICK up : Tally(N, keys, fds, k, up) /\ Filed(t, k) = up[N]
  BY FiledIs
<1>4. PICK up2 : Tally(N - 1, keys2, fds2, k, up2) /\ Filed(u, k) = up2[N - 1]
  BY <1>1, <1>2, FiledIs
<1>5. ASSUME NEW i \in 1..(N - 1)
      PROVE  /\ keys2[i] = IF i < r THEN keys[i] ELSE keys[i + 1]
             /\ fds2[i]  = IF i < r THEN fds[i] ELSE fds[i + 1]
  <2>1. i \in 1..N /\ i + 1 \in 1..N
    BY <1>1
  <2>2. /\ u.key[o2[i]] = IF i < r THEN t.key[o[i]] ELSE t.key[o[i + 1]]
        /\ u.fd[o2[i]]  = IF i < r THEN t.fd[o[i]] ELSE t.fd[o[i + 1]]
    BY DEF Removed
  <2>3. /\ keys2[i] = u.key[o2[i]] /\ fds2[i] = u.fd[o2[i]]
        /\ \A j \in 1..N : keys[j] = t.key[o[j]] /\ fds[j] = t.fd[o[j]]
    BY DEF KeysOf, FdsOf
  <2> HIDE DEF keys, fds, keys2, fds2
  <2> QED BY <2>1, <2>2, <2>3
<1>6. /\ keys[r] = t.key[o[r]] /\ fds[r] = t.fd[o[r]]
      /\ \A i \in 1..N : fds[i] \in Fds /\ keys[i] = t.key[o[i]]
  BY <1>1 DEF KeysOf, FdsOf
<1>7. IF keys[r] # k THEN up2[N - 1] = up[N]
      ELSE /\ Len(up[r]) \in 1..Len(up[N])
           /\ up[N][Len(up[r])] = fds[r]
           /\ up2[N - 1] = RemoveAt(up[N], Len(up[r]))
  <2>1. TakenOut(N, keys, fds, r, keys2, fds2)
    BY <1>1, <1>5 DEF TakenOut
  <2> QED BY <2>1, <1>1, <1>3, <1>4, <1>6, TallyRemoved
<1>8. CASE keys[r] # k
  BY <1>3, <1>4, <1>6, <1>7, <1>8
<1>9. CASE keys[r] = k
  <2>1. ASSUME \A j \in 1..(r - 1) : t.key[o[j]] # k
        PROVE  Len(up[r]) = 1
    <3>1. r - 1 \in 0..N /\ \A j \in 1..(r - 1) : j \in 1..N
      BY <1>1
    <3>2. \A j \in 1..(r - 1) : keys[j] # k
      BY <3>1, <2>1, <1>6
    <3>3. up[r - 1] = <<>>
      BY <3>1, <3>2, <1>1, <1>3, TallyNone
    <3>4. up[r] = Counted(k, keys[r], fds[r], <<>>)
      BY <3>3, <1>1, <1>3 DEF Tally
    <3>5. Counted(k, keys[r], fds[r], <<>>) = <<fds[r]>>
      BY <1>9, <1>1, <1>6 DEF Counted
    <3> QED BY <3>4, <3>5
  <2>2. DOMAIN Filed(t, k) = 1..Len(up[N])
    <3>1. N \in 0..N
      BY <1>1
    <3>2. up[N] \in Seq(Fds)
      BY <3>1, <1>3 DEF Tally
    <3> QED BY <3>2, <1>3, LenProperties
  <2>3. /\ Len(up[r]) \in DOMAIN Filed(t, k)
        /\ Filed(t, k)[Len(up[r])] = t.fd[o[r]]
        /\ Filed(u, k) = RemoveAt(Filed(t, k), Len(up[r]))
    BY <2>2, <1>3, <1>4, <1>6, <1>7, <1>9
  <2> QED BY <2>1, <2>3, <1>6, <1>9
<1> QED BY <1>8, <1>9

\* A removal by name takes away the entry that a search by that name meets.
LEMMA RemovesTheFound ==
  ASSUME NEW t, NEW N, NEW o, NEW pos,
         Typed(t), Shape(t, N, o, pos), Sorted(t, pos), NEW k \in Keys,
         NEW u, u = hb_tree_remove(t, k)
  PROVE  IF Find(t, k) = NULL
         THEN u = t /\ hb_tree_search(t, k) = -1 /\ Filed(t, k) = <<>>
         ELSE /\ \A y \in Keys \ {k} : Filed(u, y) = Filed(t, y)
              /\ \E i \in DOMAIN Filed(t, k) :
                   /\ Filed(t, k)[i] = hb_tree_search(t, k)
                   /\ Filed(u, k) = RemoveAt(Filed(t, k), i)
                   /\ (\A m \in t.live : pos[m] < pos[Find(t, k)] => t.key[m] # k) => i = 1
<1> DEFINE n == Find(t, k)
<1>1. /\ n = NULL => \A m \in t.live : t.key[m] # k
      /\ n # NULL => n \in t.live /\ t.key[n] = k
  BY FindFinds
<1>2. IF n = NULL THEN u = t
      ELSE \E o2, pos2 : Removed(t, u, N, o, pos[n], o2, pos2)
  BY RemoveRemoves
<1>3. hb_tree_search(t, k) = IF n = NULL THEN -1 ELSE t.fd[n]
  BY DEF hb_tree_search
<1>4. /\ N \in Nat /\ \A i \in 1..N : o[i] \in t.live /\ pos[o[i]] = i
      /\ \A m \in t.live : pos[m] \in 1..N /\ o[pos[m]] = m
  BY DEF Shape, Numbered
<1> HIDE DEF n
<1>5. CASE n = NULL
  <2>1. PICK up : Tally(N, KeysOf(t, N, o), FdsOf(t, N, o), k, up) /\ Filed(t, k) = up[N]
    BY FiledIs
  <2>2. \A i \in 1..N : KeysOf(t, N, o)[i] # k
    BY <1>1, <1>4, <1>5 DEF KeysOf
  <2>3. N \in 0..N
    BY <1>4
  <2>4. up[N] = <<>>
    BY <2>1, <2>2, <2>3, <1>4, TallyNone
  <2> QED BY <2>1, <2>4, <1>2, <1>3, <1>5 DEF n
<1>6. CASE n # NULL
  <2> DEFINE r == pos[n]
  <2>1. PICK o2, pos2 : Removed(t, u, N, o, r, o2, pos2)
    BY <1>2, <1>6
  <2>2. r \in 1..N /\ o[r] = n /\ t.key[o[r]] = k /\ t.fd[o[r]] = hb_tree_search(t, k)
    BY <1>1, <1>3, <1>4, <1>6
  <2> HIDE DEF r
  <2>3. \A y : IF t.key[o[r]] # y THEN Filed(u, y) = Filed(t, y)
               ELSE \E i \in DOMAIN Filed(t, y) :
                      /\ Filed(t, y)[i] = t.fd[o[r]]
                      /\ Filed(u, y) = RemoveAt(Filed(t, y), i)
                      /\ (\A j \in 1..(r - 1) : t.key[o[j]] # y) => i = 1
    BY <2>1, FiledRemoved
  <2>4. \A y \in Keys \ {k} : Filed(u, y) = Filed(t, y)
    BY <2>2, <2>3
  <2>5. PICK i \in DOMAIN Filed(t, k) :
          /\ Filed(t, k)[i] = t.fd[o[r]]
          /\ Filed(u, k) = RemoveAt(Filed(t, k), i)
          /\ (\A j \in 1..(r - 1) : t.key[o[j]] # k) => i = 1
    BY <2>2, <2>3
  <2>6. ASSUME \A m \in t.live : pos[m] < pos[n] => t.key[m] # k
        PROVE  i = 1
    <3>1. ASSUME NEW j \in 1..(r - 1) PROVE t.key[o[j]] # k
      <4>1. j \in 1..N /\ j < r
        BY <2>2, <1>4
      <4>2. o[j] \in t.live /\ pos[o[j]] = j
        BY <4>1, <1>4
      <4> QED BY <4>1, <4>2, <2>6 DEF r
    <3> QED BY <3>1, <2>5
  <2> QED BY <2>2, <2>4, <2>5, <2>6, <1>6 DEF n
<1> QED BY <1>5, <1>6

\* What a removal by name takes away is the entry that a search by that name
\* returns, one place of the name's list, and no entry of any other name: the
\* neighbour's entry survives the node that is freed in its stead.
THEOREM AlwaysRemovesFound == Spec => []RemovesFound
<1>1. SearchTree(tree) => RemovesFound
  <2> SUFFICES ASSUME SearchTree(tree), NEW k \in Keys
               PROVE  LET t   == hb_tree_remove(tree, k)
                          was == Filed(tree, k)
                      IN  t.fault
                          \/ /\ \A u \in Keys \ {k} : Filed(t, u) = Filed(tree, u)
                             /\ was # <<>> =>
                                  \E i \in DOMAIN was :
                                    was[i] = hb_tree_search(tree, k)
                                    /\ Filed(t, k) = RemoveAt(was, i)
    BY DEF RemovesFound
  <2>1. PICK N, o, pos : Shape(tree, N, o, pos) /\ Sorted(tree, pos)
    BY DEF SearchTree
  <2>2. Typed(tree)
    BY DEF SearchTree
  <2> DEFINE t == hb_tree_remove(tree, k)
  <2>3. IF Find(tree, k) = NULL
        THEN t = tree /\ hb_tree_search(tree, k) = -1 /\ Filed(tree, k) = <<>>
        ELSE /\ \A y \in Keys \ {k} : Filed(t, y) = Filed(tree, y)
             /\ \E i \in DOMAIN Filed(tree, k) :
                  /\ Filed(tree, k)[i] = hb_tree_search(tree, k)
                  /\ Filed(t, k) = RemoveAt(Filed(tree, k), i)
    BY <2>1, <2>2, RemovesTheFound
  <2> HIDE DEF t
  <2>4. CASE Find(tree, k) = NULL
    BY <2>3, <2>4 DEF t
  <2>5. CASE Find(tree, k) # NULL
    BY <2>3, <2>5 DEF t
  <2> QED BY <2>4, <2>5
<1> QED BY <1>1, StaysSearchTree, PTL

-----------------------------------------------------------------------------
(* Two nodes at most.  No rotation is ever needed, so equal names stay in  *)
(* the order in which they came.                                           *)

Arm(t, s, n) == IF t.link[s][n] = NULL THEN 0 ELSE 1

\* A left child's name is strictly smaller, and bal counts the two children.
Plain(t) ==
  \A n \in t.live :
    /\ t.link["llink"][n] # NULL => t.key[t.link["llink"][n]] < t.key[n]
    /\ t.bal[n] = Arm(t, "rlink", n) - Arm(t, "llink", n)

\* With two addresses there is no third.
LEMMA NoThird ==
  ASSUME Cardinality(Nodes) <= 2, NEW a \in Nodes, NEW b \in Nodes, a # b
  PROVE  \A y \in Nodes : y = a \/ y = b
<1> SUFFICES ASSUME NEW y \in Nodes, y # a, y # b PROVE FALSE
  OBVIOUS
<1> DEFINE A == {a}
           B == A \cup {b}
           C == B \cup {y}
<1>1. IsFiniteSet(A) /\ Cardinality(A) = 1 /\ b \notin A
  BY FS_Singleton
<1>2. y \notin B /\ C \subseteq Nodes
  OBVIOUS
<1> HIDE DEF A
<1>3. IsFiniteSet(B) /\ Cardinality(B) = 2
  BY <1>1, FS_AddElement
<1> HIDE DEF B
<1>4. IsFiniteSet(C) /\ Cardinality(C) = 3
  BY <1>2, <1>3, FS_AddElement
<1> HIDE DEF C
<1>5. Cardinality(C) <= Cardinality(Nodes) /\ Cardinality(Nodes) \in Nat
  BY <1>2, HbTreeAssumption, FS_Subset, FS_CardinalityType
<1> QED BY <1>4, <1>5

\* With a child, a tree of two nodes is full.
LEMMA ParentAndChild ==
  ASSUME Cardinality(Nodes) <= 2, NEW t, NEW N, NEW pos, Ranked(t, N, pos),
         NEW n \in t.live, NEW s \in Side, t.link[s][n] # NULL
  PROVE  /\ t.link[s][n] \in t.live /\ t.link[s][n] # n
         /\ \A y \in Nodes : y = n \/ y = t.link[s][n]
         /\ t.parent[n] = NULL /\ t.root = n
         /\ \A x \in Side : /\ t.link[x][t.link[s][n]] = NULL
                            /\ x # s => t.link[x][n] = NULL
<1>1. PICK lo, hi : Nested(t, N, pos, lo, hi)
  BY DEF Ranked
<1>2. /\ t \in Tree /\ pos \in [Nodes -> Int] /\ t.live \subseteq Nodes
      /\ lo \in [Nodes -> Int] /\ hi \in [Nodes -> Int] /\ NULL \notin t.live
  BY <1>1, NullIsNoNode DEF Ranked, Nested, Tree
<1> DEFINE c == t.link[s][n]
<1>3. c \in t.live /\ c # n /\ t.parent[c] = n /\ hi[c] - lo[c] < hi[n] - lo[n]
  BY <1>1, <1>2, ChildInside
<1>4. \A m \in t.live, x \in Side : t.link[x][m] # NULL =>
        /\ t.link[x][m] \in t.live /\ t.link[x][m] # m
        /\ hi[t.link[x][m]] - lo[t.link[x][m]] < hi[m] - lo[m]
  BY <1>1, <1>2, ChildInside
<1>5. \A m \in t.live, x \in Side : t.link[x][m] = c => m = n /\ x = s
  BY <1>1, <1>2, ChildOnce
<1> HIDE DEF c
<1>6. \A y \in Nodes : y = n \/ y = c
  BY <1>2, <1>3, NoThird
<1>7. \A x \in Side : t.link[x][c] = NULL
  <2> SUFFICES ASSUME NEW x \in Side, t.link[x][c] # NULL PROVE FALSE
    OBVIOUS
  <2>1. t.link[x][c] = n /\ hi[n] - lo[n] < hi[c] - lo[c]
    BY <1>2, <1>3, <1>4, <1>6
  <2> QED BY <2>1, <1>2, <1>3
<1>8. t.parent[n] = NULL
  <2> SUFFICES ASSUME t.parent[n] # NULL PROVE FALSE
    OBVIOUS
  <2>1. t.parent[n] \in t.live /\ \E x \in Side : t.link[x][t.parent[n]] = n
    BY <1>1 DEF Nested, Hangs
  <2>2. t.parent[n] # n
    BY <2>1, <1>2, <1>4
  <2>3. t.parent[n] = c
    BY <2>1, <2>2, <1>2, <1>6
  <2> QED BY <2>1, <2>3, <1>2, <1>7
<1>9. t.root = n
  BY <1>1, <1>8 DEF Nested, Hangs
<1>10. \A x \in Side : x # s => t.link[x][n] = NULL
  BY <1>2, <1>4, <1>5, <1>6
<1> QED BY <1>3, <1>6, <1>7, <1>8, <1>9, <1>10 DEF c

\* Without one, it is alone, or somebody's child.
LEMMA OneIsRoot ==
  ASSUME NEW t, NEW N, NEW pos, Ranked(t, N, pos), NEW n \in t.live
  PROVE  \/ n = t.root /\ t.parent[n] = NULL
         \/ /\ n # t.root /\ t.parent[n] \in t.live
            /\ \E s \in Side : t.link[s][t.parent[n]] = n
<1>1. PICK lo, hi : Nested(t, N, pos, lo, hi)
  BY DEF Ranked
<1>2. NULL \notin t.live
  BY NullIsNoNode DEF Ranked, Tree
<1> QED BY <1>1, <1>2 DEF Nested, Hangs, Rooted

\* What counting along the path of the insertion changes: the balances on it.
LEMMA LeanFields ==
  ASSUME NEW t \in Tree, NEW below, NEW u, u = Lean(t, below)
  PROVE  /\ u.live = t.live /\ u.key = t.key /\ u.link = t.link
         /\ \A n \in Nodes :
              u.bal[n] = IF n \in ToSet(Front(below))
                         THEN IF \E i \in 1..Len(below) - 1 :
                                   below[i] = n /\ t.link["rlink"][n] = below[i + 1]
                              THEN 1 ELSE -1
                         ELSE t.bal[n]
<1> DEFINE B(n) == IF n \in ToSet(Front(below))
                   THEN IF \E i \in 1..Len(below) - 1 :
                             below[i] = n /\ t.link["rlink"][n] = below[i + 1]
                        THEN 1 ELSE -1
                   ELSE t.bal[n]
           b == [n \in Nodes |-> B(n)]
<1>1. u = [t EXCEPT !.bal = b]
  BY DEF Lean
<1> HIDE DEF B
<1>2. u.live = t.live /\ u.key = t.key /\ u.link = t.link /\ u.bal = b
  BY <1>1 DEF Tree
<1> QED BY <1>2 DEF B

\* What a path of at most one node gives way to.
LEMMA ShortPath ==
  ASSUME NEW a, NEW x
  PROVE  /\ SubSeq(<<>>, 0 + 1, Len(<<>>)) \o <<x>> = <<x>>
         /\ SubSeq(<<a>>, 0 + 1, Len(<<a>>)) \o <<x>> = <<a, x>>
         /\ ToSet(Front(<<x>>)) = {}
         /\ ToSet(Front(<<a, x>>)) = {a}
         /\ Len(<<a, x>>) - 1 = 1 /\ <<a, x>>[1] = a /\ <<a, x>>[2] = x
<1>1. /\ <<>> \in Seq({a, x}) /\ <<a>> \in Seq({a, x}) /\ <<x>> \in Seq({a, x})
      /\ <<a, x>> \in Seq({a, x})
  OBVIOUS
<1>2. SubSeq(<<>>, 0 + 1, Len(<<>>)) = <<>> /\ SubSeq(<<x>>, 1, Len(<<x>>) - 1) = <<>>
  BY SubSeqEmpty
<1>3. SubSeq(<<a>>, 0 + 1, Len(<<a>>)) = <<a>>
  <2> DEFINE q == SubSeq(<<a>>, 1, 1)
  <2>1. q \in Seq({a}) /\ Len(q) = 1 /\ q[1] = a
    BY SubSeqProperties
  <2> HIDE DEF q
  <2>2. q = <<a>>
    BY <2>1
  <2> QED BY <2>2 DEF q
<1>4. SubSeq(<<a, x>>, 1, Len(<<a, x>>) - 1) = <<a>>
  <2> DEFINE q == SubSeq(<<a, x>>, 1, 1)
  <2>1. q \in Seq({a}) /\ Len(q) = 1 /\ q[1] = a
    BY SubSeqProperties
  <2> HIDE DEF q
  <2>2. q = <<a>>
    BY <2>1
  <2> QED BY <2>2 DEF q
<1>5. <<>> \o <<x>> = <<x>>
  BY <1>1, ConcatEmptySeq
<1>6. <<a>> \o <<x>> = <<a, x>>
  <2> DEFINE q == <<a>> \o <<x>>
  <2>1. q \in Seq({a, x}) /\ Len(q) = 2 /\ q[1] = a /\ q[2] = x
    BY <1>1, ConcatProperties
  <2> HIDE DEF q
  <2>2. q = <<a, x>>
    BY <2>1
  <2> QED BY <2>2 DEF q
<1>7. ToSet(<<>>) = {} /\ ToSet(<<a>>) = {a}
  BY DEF ToSet
<1>8. Front(<<x>>) = <<>> /\ Front(<<a, x>>) = <<a>>
  BY <1>2, <1>4 DEF Front
<1>9. Len(<<a, x>>) - 1 = 1 /\ <<a, x>>[1] = a /\ <<a, x>>[2] = x
  OBVIOUS
<1> QED BY <1>2, <1>3, <1>5, <1>6, <1>7, <1>8, <1>9

\* A walk from a node without children ends there.
LEMMA LoneWalk ==
  ASSUME NEW t, NEW N, NEW pos, Ranked(t, N, pos),
         NEW turn \in [t.live -> Side \cup {"stop"}]
  PROVE  \A a \in t.live :
           turn[a] # "stop" /\ (\A s \in Side : t.link[s][a] = NULL)
             => Walk(t, a, turn) = <<a>>
<1>1. PICK go : /\ go = [n \in t.live \cup {NULL} |-> Going(t, turn, go, n)]
                /\ \A from : Walk(t, from, turn) = go[from]
  BY WalkIsDefined
<1>2. go[NULL] = <<>>
  BY <1>1 DEF Going
<1> SUFFICES ASSUME NEW a \in t.live, turn[a] # "stop", \A s \in Side : t.link[s][a] = NULL
             PROVE  Walk(t, a, turn) = <<a>>
  OBVIOUS
<1>3. a # NULL /\ turn[a] \in Side
  <2>1. t.live \subseteq Nodes
    BY SMTT(30) DEF Ranked, Tree
  <2> QED BY <2>1, NullIsNoNode
<1>4. go[a] = <<a>> \o <<>>
  BY <1>1, <1>2, <1>3 DEF Going
<1>5. go[a] = <<a>>
  BY <1>4, OneThenNone
<1> QED BY <1>1, <1>5

\* With at most two nodes, an insertion leaves balances that count the children.
LEMMA InsertedPlain ==
  ASSUME Cardinality(Nodes) <= 2,
         NEW t, NEW N, NEW o, NEW pos, Typed(t), Shape(t, N, o, pos), Plain(t),
         NEW x \in Nodes \ t.live, NEW k \in Keys, NEW f \in Fds
  PROVE  Plain(hb_tree_insert(t, x, k, f, 0))
<1> DEFINE turn   == [n \in t.live |-> InsertTurn(t, k, n)]
           path   == Walk(t, t.root, turn)
           parent == IF path = <<>> THEN NULL ELSE Last(path)
           s      == IF parent = NULL THEN "llink" ELSE InsertTurn(t, k, parent)
           t1     == NewNode(t, x, k, f, 0, parent, s)
           qi     == Pivot(t, path)
           below  == SubSeq(path, qi + 1, Len(path)) \o <<x>>
           t2     == Lean(t1, below)
           u      == hb_tree_insert(t, x, k, f, 0)
<1>1. /\ t \in Tree /\ t.live \subseteq Nodes /\ NULL \notin t.live /\ NULL \notin Nodes
      /\ Ranked(t, N, pos) /\ 0 \in Char /\ k \in Int
      /\ \A n \in t.live : t.key[n] \in Int
  BY KeysAreInts, ShapeIsRanked, NullIsNoNode DEF Char
<1>2. turn \in [t.live -> Side \cup {"stop"}] /\ \A n \in t.live : turn[n] # "stop"
  BY DEF InsertTurn, Side
<1>3. u = IF qi = 0 THEN t2
          ELSE RebalanceAt(t2, path[qi], IF t2.link["llink"][path[qi]] = below[1]
                                         THEN "llink" ELSE "rlink")
  BY DEF hb_tree_insert
<1>4. CASE t.live = {}
  <2>1. t.root = NULL
    BY <1>4, NoRootNoNode
  <2>2. path = <<>>
    BY <2>1, <1>1, <1>2, WalkEnds
  <2>3. qi = 0
    BY <2>2 DEF Pivot
  <2>4. below = <<x>> /\ parent = NULL /\ s = "llink"
    BY <2>2, <2>3, ShortPath
  <2> HIDE DEF below, parent, s, path, qi
  <2>5. u = t2
    BY <2>3, <1>3
  <2>6. /\ t1 \in Tree /\ t1.live = {x} /\ t1.bal[x] = 0
        /\ \A y \in Side : t1.link[y][x] = NULL
    BY <2>4, <1>1, <1>4, NewNodeFields DEF Side, Ptr
  <2> HIDE DEF t1
  <2>7. t2.live = t1.live /\ t2.link = t1.link /\ t2.bal[x] = t1.bal[x]
    <3>1. x \notin ToSet(Front(below))
      BY <2>4, ShortPath
    <3>2. /\ t2.live = t1.live /\ t2.link = t1.link
          /\ \A n \in Nodes : n \notin ToSet(Front(below)) => t2.bal[n] = t1.bal[n]
      BY <2>6, LeanFields
    <3> QED BY <3>1, <3>2
  <2> HIDE DEF t2
  <2> QED BY <2>5, <2>6, <2>7 DEF Plain, Side, Arm, u
<1>5. CASE t.live # {}
  <2> DEFINE a == t.root
  <2>1. a \in t.live /\ a # NULL
    BY <1>1, <1>5, NoRootNoNode
  <2>2. /\ a \in Nodes /\ a # x
        /\ \A y \in Nodes : y = a \/ y = x
    BY <2>1, <1>1, NoThird
  <2> HIDE DEF a
  <2>3. \A y \in Side : t.link[y][a] = NULL
    BY <2>1, <2>2, <1>1, ParentAndChild
  <2>4. t.live = {a} /\ t.bal[a] = 0
    BY <2>1, <2>2, <2>3, <1>1 DEF Plain, Arm, Side
  <2>5. path = <<a>>
    BY <2>1, <2>3, <1>1, <1>2, LoneWalk DEF a
  <2>6. qi = 0
    BY <2>4, <2>5 DEF Pivot
  <2>7. below = <<a, x>> /\ parent = a /\ s = IF k < t.key[a] THEN "llink" ELSE "rlink"
    <3>1. below = <<a, x>>
      <4> HIDE DEF path, qi
      <4>1. path = <<a>> /\ qi = 0
        BY <2>5, <2>6 DEF path, qi
      <4> QED BY <4>1, ShortPath, Zenon
    <3>2. parent = a
      BY <2>5 DEF Last
    <3> QED BY <3>1, <3>2, <2>1 DEF InsertTurn
  <2> HIDE DEF below, parent, s, path, qi
  <2>8. u = t2
    BY <2>6, <1>3
  <2>9. /\ t1 \in Tree /\ t1.live = {a, x} /\ t1.bal[x] = 0
        /\ t1.key[x] = k /\ t1.key[a] = t.key[a]
        /\ \A y \in Side : t1.link[y][x] = NULL
        /\ \A y \in Side : t1.link[y][a] = IF y = s THEN x ELSE NULL
    <3>1. s \in Side /\ parent \in Ptr
      BY <2>2, <2>7 DEF Side, Ptr
    <3> QED BY <3>1, <2>2, <2>3, <2>4, <2>7, <1>1, NewNodeFields
  <2> HIDE DEF t1
  <2>10. /\ t2.live = t1.live /\ t2.key = t1.key /\ t2.link = t1.link
         /\ t2.bal[x] = 0
         /\ t2.bal[a] = IF s = "rlink" THEN 1 ELSE -1
    <3>1. ToSet(Front(below)) = {a} /\ Len(below) - 1 = 1 /\ below[1] = a /\ below[2] = x
      BY <2>7, ShortPath
    <3>2. (\E i \in 1..Len(below) - 1 : below[i] = a /\ t1.link["rlink"][a] = below[i + 1])
          <=> s = "rlink"
      BY <3>1, <2>2, <2>7, <2>9, <1>1 DEF Side
    <3>3. /\ t2.live = t1.live /\ t2.key = t1.key /\ t2.link = t1.link
          /\ \A n \in Nodes :
               t2.bal[n] = IF n \in ToSet(Front(below))
                           THEN IF \E i \in 1..Len(below) - 1 :
                                     below[i] = n /\ t1.link["rlink"][n] = below[i + 1]
                                THEN 1 ELSE -1
                           ELSE t1.bal[n]
      BY <2>9, LeanFields
    <3> QED BY <3>1, <3>2, <3>3, <2>2, <2>9
  <2> HIDE DEF t2
  <2>11. CASE s = "llink"
    BY <2>2, <2>7, <2>8, <2>9, <2>10, <2>11, <1>1 DEF Plain, Side, Arm, u
  <2>12. CASE s = "rlink"
    BY <2>2, <2>7, <2>8, <2>9, <2>10, <2>12, <1>1 DEF Plain, Side, Arm, u
  <2> QED BY <2>7, <2>11, <2>12
<1> QED BY <1>4, <1>5

\* A loop that stops at its first turn has done only that turn.
LEMMA FixOnce ==
  ASSUME NEW l, NEW r, r = FixStep(l), ~r.go, Nodes # {}
  PROVE  Fix(l) = r.t
<1> DEFINE C == Cardinality(Nodes)
           it == [i \in 0..C |-> IF i = 0 THEN l ELSE r]
           Turns(f) == f = [i \in 0..C |-> IF i = 0 THEN l ELSE FixStep(f[i - 1])]
           tt == CHOOSE f : Turns(f)
<1>1. C \in Nat /\ C # 0
  BY HbTreeAssumption, FS_CardinalityType, FS_EmptySet
<1>2. FixStep(r) = r
  BY DEF FixStep
<1>3. Turns(it)
  <2>1. \A i \in 0..C : i # 0 => it[i] = FixStep(it[i - 1])
    <3> SUFFICES ASSUME NEW i \in 0..C, i # 0 PROVE it[i] = FixStep(it[i - 1])
      OBVIOUS
    <3>1. i - 1 \in 0..C /\ it[i] = r
      BY <1>1
    <3>2. it[i - 1] = IF i - 1 = 0 THEN l ELSE r
      BY <3>1
    <3> QED BY <3>1, <3>2, <1>2
  <2>2. it[0] = l
    BY <1>1
  <2>3. it = [i \in 0..C |-> it[i]]
    OBVIOUS
  <2> HIDE DEF it
  <2> QED BY <2>1, <2>2, <2>3
<1>4. Turns(tt)
  <2> HIDE DEF it, Turns
  <2> QED BY <1>3
<1>5. Fix(l) = tt[C].t
  BY DEF Fix
<1> HIDE DEF tt
<1> DEFINE A == {n \in Nat : n <= C => tt[n] = r}
<1>6. 1 \in A
  <2>1. 1 \in 0..C /\ 0 \in 0..C /\ 1 - 1 = 0
    BY <1>1
  <2>2. tt[0] = l /\ tt[1] = FixStep(tt[1 - 1])
    BY <2>1, <1>4
  <2> QED BY <2>1, <2>2
<1>7. ASSUME NEW n \in A, n \in 1..(C - 1) PROVE n + 1 \in A
  <2>1. n + 1 \in 0..C /\ n \in 0..C /\ n + 1 # 0 /\ (n + 1) - 1 = n /\ n <= C /\ n + 1 \in Nat
    BY <1>1, <1>7
  <2>2. tt[n + 1] = FixStep(tt[n])
    BY <2>1, <1>4
  <2>3. tt[n] = r
    BY <2>1
  <2> QED BY <2>1, <2>2, <2>3, <1>2
<1>8. \A n \in 1..C : n \in A
  <2> HIDE DEF A
  <2> QED BY <1>1, <1>6, <1>7, InductionUpTo
<1>9. tt[C] = r
  <2>1. C \in 1..C
    BY <1>1
  <2> QED BY <2>1, <1>8
<1> QED BY <1>5, <1>9

\* The loop at the parent of a lone leaf: the balance returns to zero.
LEMMA LeafGone ==
  ASSUME NEW t \in Tree, NEW p \in Nodes, NEW s \in Side,
         NEW u, u = Fix(Loop(t, p, s, TRUE))
  PROVE  /\ s = "llink" => t.bal[p] = -1
         /\ s = "rlink" => t.bal[p] = 1
         /\ t.parent[p] = NULL
         => u.live = t.live /\ u.link = t.link /\ u.bal[p] = 0
<1> SUFFICES ASSUME s = "llink" => t.bal[p] = -1,
                    s = "rlink" => t.bal[p] = 1,
                    t.parent[p] = NULL
             PROVE  u.live = t.live /\ u.link = t.link /\ u.bal[p] = 0
  OBVIOUS
<1> DEFINE l == Loop(t, p, s, TRUE)
           t2 == SetBal(t, p, 0)
           b2 == [t.bal EXCEPT ![p] = 0]
<1>1. SChar(0) = 0
  BY DEF SChar
<1>2. t2 = [t EXCEPT !.bal[p] = 0]
  BY <1>1 DEF SetBal
<1>3. /\ t2.live = t.live /\ t2.key = t.key /\ t2.link = t.link
      /\ t2.parent = t.parent /\ t2.fault = t.fault
      /\ t2.bal[p] = 0
  BY <1>2 DEF Tree
<1>4. FixStep(l) = Higher(t2, p)
  <2>1. CASE s = "llink"
    <3>1. t.bal[p] + 1 = 0
      <4>1. t.bal[p] = -1
        BY <2>1, Zenon
      <4> QED BY <4>1
    <3>2. FixLeft(t, p) = Higher(t2, p)
      BY <3>1, <1>3 DEF FixLeft
    <3> QED BY <3>2, <2>1 DEF FixStep, Loop
  <2>2. CASE s = "rlink"
    <3>1. t.bal[p] - 1 = 0
      <4>1. t.bal[p] = 1
        BY <2>2, Zenon
      <4> QED BY <4>1
    <3>2. FixRight(t, p) = Higher(t2, p)
      BY <3>1, <1>3, Zenon DEF FixRight
    <3> QED BY <3>2, <2>2 DEF FixStep, Loop
  <2> QED BY <2>1, <2>2 DEF Side
<1> HIDE DEF t2
<1>5. Higher(t2, p) \in {Stop(t2), Stop(Segv(t2))}
  BY <1>3, NullIsNoNode DEF Higher
<1>6. ~Higher(t2, p).go /\ Higher(t2, p).t \in {t2, Segv(t2)}
  BY <1>5 DEF Stop, Loop
<1>7. Fix(l) = Higher(t2, p).t
  BY <1>4, <1>6, FixOnce
<1>8. t2 \in Tree
  <2>1. b2 \in [Nodes -> Char]
    BY DEF Tree, Char
  <2>2. t2 = [t EXCEPT !.bal = b2]
    BY <1>2
  <2> HIDE DEF b2
  <2> QED BY <2>1, <2>2 DEF Tree
<1>9. LET v == Segv(t2) IN v.live = t2.live /\ v.key = t2.key /\ v.link = t2.link /\ v.bal = t2.bal
  BY <1>8 DEF Segv, Tree
<1> QED BY <1>3, <1>6, <1>7, <1>9

\* With at most two nodes, a removal leaves balances that count the children.
LEMMA RemovedPlain ==
  ASSUME Cardinality(Nodes) <= 2, NEW t, NEW N, NEW pos, Ranked(t, N, pos), Plain(t),
         NEW n \in t.live
  PROVE  Plain(RemoveNode(t, n))
<1> DEFINE child == IF t.link["llink"][n] # NULL THEN t.link["llink"][n]
                                                 ELSE t.link["rlink"][n]
           t2 == Unlink(t, n, child)
           p  == t.parent[n]
           side == IF t.link["llink"][p] = n THEN "llink" ELSE "rlink"
           u == RemoveNode(t, n)
<1>1. /\ t \in Tree /\ t.live \subseteq Nodes /\ NULL \notin t.live /\ NULL \notin Nodes
      /\ "llink" \in Side /\ "rlink" \in Side
  BY NullIsNoNode DEF Ranked, Tree, Side
<1>2. ~HasBoth(t, n)
  <2> SUFFICES ASSUME HasBoth(t, n) PROVE FALSE
    OBVIOUS
  <2>1. t.link["llink"][n] # NULL /\ t.link["rlink"][n] # NULL
    BY <1>1 DEF HasBoth
  <2>2. "rlink" # "llink" => t.link["rlink"][n] = NULL
    BY <2>1, <1>1, ParentAndChild
  <2> QED BY <2>1, <2>2
<1>3. u = IF p = NULL THEN t2 ELSE Fix(Loop(t2, p, side, TRUE))
  BY <1>2 DEF RemoveNode
<1>4. \A s \in Side : t.link[s][n] \in t.live \cup {NULL} /\ t.link[s][n] # n
  BY <1>1, LiveNeighbours, ParentAndChild
<1>5. child \in Ptr /\ child # n
  BY <1>1, <1>4 DEF Ptr
<1> HIDE DEF child
<1>6. /\ t2 \in Tree /\ t2.live = t.live \ {n}
      /\ \A y \in Nodes :
           /\ t2.parent[y] = IF y = child THEN p ELSE IF y = n THEN NULL ELSE t.parent[y]
           /\ y # n => t2.key[y] = t.key[y] /\ t2.bal[y] = t.bal[y]
      /\ \A s \in Side, y \in Nodes :
           t2.link[s][y] = IF y = n THEN NULL
                           ELSE IF y = p /\ t.link[s][y] = n THEN child
                           ELSE t.link[s][y]
  BY <1>1, <1>5, UnlinkFields
<1> HIDE DEF t2
<1>7. CASE n = t.root /\ p = NULL
  <2>1. ASSUME NEW y \in t.live, y # n
        PROVE  \A s \in Side : t.link[s][y] = NULL
    <3>1. PICK s \in Side : t.link[s][t.parent[y]] = y /\ t.parent[y] \in t.live
      BY <2>1, <1>7, OneIsRoot
    <3>2. \A x \in Side : t.link[x][y] = NULL
      <4> DEFINE m == t.parent[y]
      <4>1. m \in t.live /\ t.link[s][m] = y /\ t.link[s][m] # NULL
        BY <3>1, <1>1
      <4> HIDE DEF m
      <4> QED BY <4>1, ParentAndChild
    <3> QED BY <3>2
  <2>2. u = t2
    BY <1>3, <1>7
  <2>3. ASSUME NEW y \in t2.live
        PROVE  t2.bal[y] = 0 /\ \A s \in Side : t2.link[s][y] = NULL
    <3>1. y \in t.live /\ y # n /\ y \in Nodes
      BY <1>1, <1>6
    <3>2. \A s \in Side : t.link[s][y] = NULL
      BY <3>1, <2>1
    <3>3. t.bal[y] = 0
      BY <3>1, <3>2, <1>1 DEF Plain, Arm
    <3>4. y # NULL
      BY <3>1, <1>1
    <3> QED BY <3>1, <3>2, <3>3, <3>4, <1>6, <1>7
  <2> HIDE DEF u
  <2> QED BY <2>2, <2>3, <1>1 DEF Plain, Arm, u
<1>8. CASE p \in t.live /\ \E s \in Side : t.link[s][p] = n
  <2>1. PICK s \in Side : t.link[s][p] = n
    BY <1>8
  <2> HIDE DEF p
  <2>2. /\ p \in t.live /\ n # p /\ p \in Nodes /\ p # NULL
        /\ \A y \in Nodes : y = p \/ y = n
        /\ t.parent[p] = NULL
        /\ \A x \in Side : /\ t.link[x][n] = NULL
                           /\ x # s => t.link[x][p] = NULL
    BY <2>1, <1>1, <1>8, ParentAndChild
  <2>3. child = NULL
    BY <2>2, <1>1 DEF child
  <2>4. side = s
    BY <2>1, <2>2, <1>1 DEF Side
  <2>5. t.bal[p] = IF s = "llink" THEN -1 ELSE 1
    <3>1. CASE s = "llink"
      BY <3>1, <2>1, <2>2, <1>1 DEF Plain, Arm
    <3>2. CASE s = "rlink"
      BY <3>2, <2>1, <2>2, <1>1 DEF Plain, Arm
    <3> QED BY <3>1, <3>2 DEF Side
  <2>6. /\ t2.live = {p} /\ t2.bal[p] = t.bal[p] /\ t2.parent[p] = NULL
        /\ \A x \in Side : t2.link[x][p] = NULL
    BY <2>1, <2>2, <2>3, <1>1, <1>6
  <2>7. u = Fix(Loop(t2, p, s, TRUE))
    BY <2>2, <2>4, <1>3 DEF p
  <2> HIDE DEF u
  <2>8. u.live = t2.live /\ u.link = t2.link /\ u.bal[p] = 0
    <3>1. /\ t2 \in Tree
          /\ s = "llink" => t2.bal[p] = -1
          /\ s = "rlink" => t2.bal[p] = 1
      BY <2>5, <2>6, <1>6
    <3>2. p \in Nodes /\ t2.parent[p] = NULL
      BY <2>2, <2>6
    <3> QED BY <3>1, <3>2, <2>7, LeafGone, ZenonT(30)
  <2> QED BY <2>6, <2>8, <1>1 DEF Plain, Arm, u
<1> QED BY <1>7, <1>8, OneIsRoot

\* Of two equal names the search meets the one further to the left.
LEMMA FoundIsFirst ==
  ASSUME Cardinality(Nodes) <= 2, NEW t, NEW N, NEW o, NEW pos,
         Typed(t), Shape(t, N, o, pos), Plain(t), NEW k \in Keys, Find(t, k) # NULL,
         NEW m \in t.live, pos[m] < pos[Find(t, k)]
  PROVE  t.key[m] # k
<1> SUFFICES ASSUME t.key[m] = k PROVE FALSE
  OBVIOUS
<1> DEFINE turn == [y \in t.live |-> FindTurn(t, k, y)]
           n == Find(t, k)
<1>1. /\ Ranked(t, N, pos) /\ t.live \subseteq Nodes /\ NULL \notin t.live
      /\ t \in Tree /\ k \in Int /\ \A y \in t.live : t.key[y] \in Int
  BY ShapeIsRanked, KeysAreInts
<1>2. turn \in [t.live -> Side \cup {"stop"}]
  BY DEF FindTurn, Side
<1>3. \A y \in t.live : t.key[y] = k => turn[y] = "stop"
  BY <1>1 DEF FindTurn
<1>4. n = IF Walk(t, t.root, turn) # <<>> /\ t.key[Last(Walk(t, t.root, turn))] = k
          THEN Last(Walk(t, t.root, turn)) ELSE NULL
  BY DEF Find
<1> HIDE DEF turn
<1>5. PICK end \in [t.live -> t.live] :
        \A y \in t.live :
          /\ Walk(t, y, turn) \in Seq(t.live) /\ Walk(t, y, turn) # <<>>
          /\ Last(Walk(t, y, turn)) = end[y]
          /\ end[y] = IF turn[y] = "stop" THEN y
                      ELSE IF t.link[turn[y]][y] = NULL THEN y
                      ELSE end[t.link[turn[y]][y]]
  BY <1>1, <1>2, WalkEnds
<1>6. t.root \in t.live
  BY NoRootNoNode
<1>7. n = end[t.root] /\ n \in t.live /\ t.key[n] = k
  <2>1. n # NULL
    OBVIOUS
  <2> HIDE DEF n
  <2>2. n = Last(Walk(t, t.root, turn)) /\ t.key[n] = k
    BY <2>1, <1>4 DEF n
  <2> QED BY <2>2, <1>5, <1>6
<1>8. pos[m] < pos[n] /\ pos \in [Nodes -> Int] /\ m \in Nodes
  BY <1>1 DEF Ranked
<1> HIDE DEF n
<1>9. m # n
  BY <1>8
<1>10. \A y \in Nodes : y = m \/ y = n
  BY <1>1, <1>7, <1>9, NoThird
<1>11. n = t.root
  BY <1>1, <1>3, <1>5, <1>6, <1>7, <1>10
<1>12. PICK s \in Side : t.parent[m] \in t.live /\ t.link[s][t.parent[m]] = m
  BY <1>1, <1>9, <1>11, OneIsRoot
<1> DEFINE q == t.parent[m]
<1>13. q \in t.live /\ t.link[s][q] = m /\ m # NULL
  BY <1>1, <1>12
<1> HIDE DEF q
<1>14. q # m
  BY <1>1, <1>13, ParentAndChild
<1>15. t.link[s][n] = m
  BY <1>1, <1>10, <1>13, <1>14
<1>16. s = "rlink"
  BY <1>1, <1>7, <1>13, <1>15 DEF Plain, Side
<1>17. PICK lo, hi : Nested(t, N, pos, lo, hi)
  BY DEF Shape
<1>18. lo[m] = pos[n] + 1 /\ lo[m] <= pos[m]
  BY <1>1, <1>7, <1>8, <1>13, <1>15, <1>16, <1>17 DEF Nested, RightOf
<1>19. pos[m] \in Int /\ pos[n] \in Int /\ pos[m] < pos[n]
  BY <1>1, <1>7, <1>8 DEF n
<1> QED BY <1>18, <1>19

-----------------------------------------------------------------------------
(* The directory.                                                          *)

Orderly(t) ==
  SearchTree(t) /\ (Cardinality(Nodes) <= 2 /\ BalJunk = {0} => Plain(t))

\* Filing an entry keeps the order, and appends to its name's list.
LEMMA EnterKeepsOrder ==
  ASSUME Orderly(tree), NEW k \in Keys, NEW f \in Fds, Enter(k, f)
  PROVE  /\ Orderly(tree')
         /\ \A y : Filed(tree', y) = Counted(y, k, f, Filed(tree, y))
<1>1. PICK N, o, pos : Shape(tree, N, o, pos) /\ Sorted(tree, pos)
  BY DEF Orderly, SearchTree
<1>2. SearchTree(tree) /\ Typed(tree) /\ tree \in Tree
  BY DEF Orderly, SearchTree, Typed
<1> DEFINE x == Min(Nodes \ tree.live)
<1>3. x \in Nodes \ tree.live
  BY <1>2, FreeNode DEF Enter
<1>4. PICK junk \in BalJunk : tree' = hb_tree_insert(tree, x, k, f, junk)
  BY DEF Enter
<1> HIDE DEF x
<1>5. PICK p : Inserted(tree, tree', N, o, pos, x, k, f, p)
  BY <1>1, <1>2, <1>3, <1>4, JunkIsChar, InsertInserts
<1>6. \A y : Filed(tree', y) = Counted(y, k, f, Filed(tree, y))
  BY <1>1, <1>2, <1>3, <1>5, FiledInserted
<1>7. ASSUME Cardinality(Nodes) <= 2, BalJunk = {0} PROVE Plain(tree')
  <2>1. Plain(tree) /\ tree' = hb_tree_insert(tree, x, k, f, 0)
    BY <1>4, <1>7 DEF Orderly
  <2>2. Plain(hb_tree_insert(tree, x, k, f, 0))
    BY <2>1, <1>1, <1>2, <1>3, <1>7, InsertedPlain
  <2> QED BY <2>1, <2>2
<1> QED BY <1>2, <1>6, <1>7, EnterKeepsSearchTree DEF Orderly

\* Taking an entry away keeps the order.
LEMMA LeaveKeepsOrder ==
  ASSUME NEW t, Orderly(t), NEW k \in Keys
  PROVE  Orderly(hb_tree_remove(t, k))
<1>1. PICK N, o, pos : Shape(t, N, o, pos) /\ Sorted(t, pos)
  BY DEF Orderly, SearchTree
<1>2. SearchTree(t) /\ Typed(t) /\ Ranked(t, N, pos)
  BY <1>1, ShapeIsRanked DEF Orderly, SearchTree
<1>3. ASSUME Cardinality(Nodes) <= 2, Plain(t) PROVE Plain(hb_tree_remove(t, k))
  <2>1. CASE Find(t, k) = NULL
    BY <2>1, <1>3 DEF hb_tree_remove
  <2>2. CASE Find(t, k) # NULL
    <3>1. Find(t, k) \in t.live
      BY <2>2, <1>1, <1>2, FindFinds
    <3>2. Plain(RemoveNode(t, Find(t, k)))
      BY <3>1, <1>2, <1>3, RemovedPlain
    <3> QED BY <3>2, <2>2 DEF hb_tree_remove
  <2> QED BY <2>1, <2>2
<1> QED BY <1>2, <1>3, RemoveKeepsSearchTree DEF Orderly

\* The order holds in every reachable state.
LEMMA StaysOrderly == Spec => []Orderly(tree)
<1>1. Init => Orderly(tree)
  <2>1. Plain(hb_tree_new)
    BY DEF hb_tree_new, Plain
  <2> QED BY <2>1, NewIsSearchTree DEF Init, Orderly
<1>2. Orderly(tree) /\ [Next]_tree => Orderly(tree')
  <2> SUFFICES ASSUME Orderly(tree), [Next]_tree PROVE Orderly(tree')
    OBVIOUS
  <2>1. CASE UNCHANGED tree
    BY <2>1
  <2>2. ASSUME NEW k \in Keys, Leave(k) PROVE Orderly(tree')
    BY <2>2, LeaveKeepsOrder DEF Leave
  <2>3. ASSUME NEW k \in Keys, NEW f \in Fds, Enter(k, f) PROVE Orderly(tree')
    BY <2>3, EnterKeepsOrder
  <2> QED BY <2>1, <2>2, <2>3 DEF Next
<1>3. (Orderly(tree))' <=> Orderly(tree')
  OBVIOUS
<1> QED BY <1>1, <1>2, <1>3, PTL DEF Spec

\* What a removal by name and a search by that name have in common.
LEMMA LeaveFiles ==
  ASSUME NEW t, Orderly(t), NEW k \in Keys, NEW u, u = hb_tree_remove(t, k)
  PROVE  IF Find(t, k) = NULL
         THEN u = t /\ hb_tree_search(t, k) = -1 /\ Filed(t, k) = <<>>
         ELSE /\ \A y \in Keys \ {k} : Filed(u, y) = Filed(t, y)
              /\ \E i \in DOMAIN Filed(t, k) :
                   /\ Filed(t, k)[i] = hb_tree_search(t, k)
                   /\ Filed(u, k) = RemoveAt(Filed(t, k), i)
                   /\ (Cardinality(Nodes) <= 2 /\ BalJunk = {0}) => i = 1
<1>1. PICK N, o, pos : Shape(t, N, o, pos) /\ Sorted(t, pos)
  BY DEF Orderly, SearchTree
<1>2. Typed(t)
  BY DEF Orderly, SearchTree
<1>3. IF Find(t, k) = NULL
      THEN u = t /\ hb_tree_search(t, k) = -1 /\ Filed(t, k) = <<>>
      ELSE /\ \A y \in Keys \ {k} : Filed(u, y) = Filed(t, y)
           /\ \E i \in DOMAIN Filed(t, k) :
                /\ Filed(t, k)[i] = hb_tree_search(t, k)
                /\ Filed(u, k) = RemoveAt(Filed(t, k), i)
                /\ (\A m \in t.live : pos[m] < pos[Find(t, k)] => t.key[m] # k) => i = 1
  BY <1>1, <1>2, RemovesTheFound
<1>4. ASSUME Find(t, k) # NULL, Cardinality(Nodes) <= 2, BalJunk = {0}
      PROVE  \A m \in t.live : pos[m] < pos[Find(t, k)] => t.key[m] # k
  BY <1>1, <1>2, <1>4, FoundIsFirst DEF Orderly
<1> QED BY <1>3, <1>4

\* A search by name finds the name exactly if an entry bears it, and returns
\* the descriptor of one of its entries, of a pair the older: rotations and
\* removals, with equal names on both sides of a node, never hide an entry.
THEOREM AlwaysSearchFinds == Spec => []SearchFinds
<1>1. Orderly(tree) => SearchFinds
  <2> SUFFICES ASSUME Orderly(tree), NEW k \in Keys
               PROVE  hb_tree_search(tree, k) \in D!Lookup(k)
    BY DEF SearchFinds
  <2> DEFINE dir == [y \in Keys |-> Filed(tree, y)]
             Pair == Cardinality(Nodes) <= 2 /\ BalJunk = {0}
  <2>1. D!Lookup(k) = IF Filed(tree, k) = <<>> THEN {-1}
                      ELSE {Filed(tree, k)[i] : i \in {j \in DOMAIN Filed(tree, k) : Pair => j = 1}}
    BY DEF D!Lookup, D!Met, D!Offline
  <2>2. CASE Find(tree, k) = NULL
    BY <2>1, <2>2, LeaveFiles
  <2>3. CASE Find(tree, k) # NULL
    <3>1. PICK i \in DOMAIN Filed(tree, k) :
            Filed(tree, k)[i] = hb_tree_search(tree, k) /\ (Pair => i = 1)
      BY <2>3, LeaveFiles
    <3>2. Filed(tree, k) # <<>>
      BY <3>1
    <3> HIDE DEF Pair
    <3> QED BY <2>1, <3>1, <3>2
  <2> QED BY <2>2, <2>3
<1> QED BY <1>1, StaysOrderly, PTL

\* Every insertion files one more descriptor, last under its name; every
\* removal takes one of the name's descriptors away or finds none.
LEMMA StepInDirectory ==
  ASSUME Orderly(tree), [Next]_tree
  PROVE  D!Next \/ UNCHANGED [k \in Keys |-> Filed(tree, k)]
<1> DEFINE dir == [k \in Keys |-> Filed(tree, k)]
           Pair == Cardinality(Nodes) <= 2 /\ BalJunk = {0}
<1>1. CASE UNCHANGED tree
  <2>1. \A k \in Keys : Filed(tree', k) = Filed(tree, k)
    BY <1>1
  <2> QED BY <2>1
<1>2. ASSUME NEW k \in Keys, NEW f \in Fds, Enter(k, f) PROVE D!Next
  <2>1. \A y : Filed(tree', y) = Counted(y, k, f, Filed(tree, y))
    BY <1>2, EnterKeepsOrder
  <2>2. \A y \in Keys : Filed(tree', y) = IF y = k THEN Append(Filed(tree, k), f)
                                          ELSE Filed(tree, y)
    BY <2>1 DEF Counted
  <2>3. D!Enter(k, f)
    BY <2>2 DEF D!Enter
  <2> QED BY <2>3 DEF D!Next
<1>3. ASSUME NEW k \in Keys, Leave(k)
      PROVE  D!Next \/ UNCHANGED [y \in Keys |-> Filed(tree, y)]
  <2>1. tree' = hb_tree_remove(tree, k)
    BY <1>3 DEF Leave
  <2>2. CASE Find(tree, k) = NULL
    <3>1. tree' = tree
      BY <2>1, <2>2, LeaveFiles
    <3>2. \A y \in Keys : Filed(tree', y) = Filed(tree, y)
      BY <3>1
    <3> QED BY <3>2
  <2>3. CASE Find(tree, k) # NULL
    <3>1. /\ \A y \in Keys \ {k} : Filed(tree', y) = Filed(tree, y)
          /\ \E i \in DOMAIN Filed(tree, k) :
               Filed(tree', k) = RemoveAt(Filed(tree, k), i) /\ (Pair => i = 1)
      BY <2>1, <2>3, LeaveFiles
    <3> HIDE DEF Pair
    <3>2. PICK i \in DOMAIN Filed(tree, k) :
            Filed(tree', k) = RemoveAt(Filed(tree, k), i) /\ (Pair => i = 1)
      BY <3>1
    <3>3. \A y \in Keys : Filed(tree', y) = IF y = k THEN RemoveAt(Filed(tree, k), i)
                                            ELSE Filed(tree, y)
      BY <3>1, <3>2
    <3>4. D!Leave(k)
      <4>1. i \in D!Met(k)
        BY <3>2 DEF D!Met, Pair
      <4>2. [y \in Keys |-> Filed(tree', y)]
              = [[y \in Keys |-> Filed(tree, y)] EXCEPT ![k] = RemoveAt(@, i)]
        BY <3>3
      <4>3. \A q, j : D!RemoveAt(q, j) = RemoveAt(q, j)
        BY DEF D!RemoveAt, RemoveAt
      <4> QED BY <4>1, <4>2, <4>3 DEF D!Leave
    <3> QED BY <3>4 DEF D!Next
  <2> QED BY <2>2, <2>3
<1> QED BY <1>1, <1>2, <1>3 DEF Next

\* The tree is the directory: whatever it rebalances, a client that files,
\* takes away and looks up names cannot tell the two apart.
THEOREM TreeIsDirectory == Spec => D!Spec
<1>1. Init => D!Init
  <2> SUFFICES ASSUME Init PROVE D!Init
    OBVIOUS
  <2>1. SearchTree(tree) /\ tree.live = {}
    BY NewIsSearchTree DEF Init, hb_tree_new
  <2>2. PICK N, o, pos : Shape(tree, N, o, pos)
    BY <2>1 DEF SearchTree
  <2>3. Typed(tree) /\ N = 0
    BY <2>1, <2>2 DEF SearchTree, Shape, Numbered
  <2>4. ASSUME NEW k \in Keys PROVE Filed(tree, k) = <<>>
    <3>1. PICK up : Tally(N, KeysOf(tree, N, o), FdsOf(tree, N, o), k, up) /\ Filed(tree, k) = up[N]
      BY <2>2, <2>3, FiledIs
    <3> QED BY <3>1, <2>3 DEF Tally
  <2> QED BY <2>4 DEF D!Init
<1>2. Orderly(tree) /\ [Next]_tree => [D!Next]_[k \in Keys |-> Filed(tree, k)]
  BY StepInDirectory
<1> QED BY <1>1, <1>2, StaysOrderly, PTL DEF Spec, D!Spec

\* Step by step, a fault included: the tree that a removal leaves before it
\* dies of a NULL link has lost that entry and no other.
THEOREM StepsImplementDirectory == Spec => ImplementsDirectory
<1>1. Orderly(tree) /\ [Next]_tree
        => [tree'.fault \/ D!Next]_[k \in Keys |-> Filed(tree, k)]
  BY StepInDirectory
<1> QED BY <1>1, StaysOrderly, PTL DEF Spec, ImplementsDirectory

-----------------------------------------------------------------------------
(* Heights.                                                                *)

\* The height of the subtree of n, if h measures those of its children.
Rising(t, h, n) ==
  IF n = NULL THEN 0 ELSE 1 + Most(h[t.link["llink"][n]], h[t.link["rlink"][n]])

\* h measures every subtree of the tree.
Measures(t, h) ==
  h \in [Ptr -> Nat] /\ \A n \in t.live \cup {NULL} : h[n] = Rising(t, h, n)

\* The greater of two numbers is the greatest of the set of the two.
LEMMA MostIsMax ==
  ASSUME NEW a \in Int, NEW b \in Int
  PROVE  Max({a, b}) = Most(a, b) /\ Most(a, b) \in {a, b}
<1>1. /\ Most(a, b) \in {a, b} /\ Most(a, b) >= a /\ Most(a, b) >= b
      /\ \A m \in {a, b} : m >= a /\ m >= b => m = Most(a, b)
  BY DEF Most
<1> HIDE DEF Most
<1>2. Max({a, b}) = CHOOSE m \in {a, b} : \A y \in {a, b} : m >= y
  BY DEF Max
<1> QED BY <1>1, <1>2

\* Every tree has a measure, since every step down makes the numbers fewer.
LEMMA MeasureExists ==
  ASSUME NEW t, NEW N, NEW pos, Ranked(t, N, pos)
  PROVE  \E h \in [Ptr -> Nat] : \A n \in Ptr : h[n] = Rising(t, h, n)
<1>1. PICK lo, hi : Nested(t, N, pos, lo, hi)
  BY DEF Ranked
<1>2. /\ t \in Tree /\ N \in Int /\ pos \in [Nodes -> Int]
      /\ t.live \subseteq Nodes /\ NULL \notin t.live /\ NULL \notin Nodes
      /\ lo \in [Nodes -> Int] /\ hi \in [Nodes -> Int]
  BY <1>1, NullIsNoNode DEF Ranked, Nested, Tree
<1> DEFINE Below(m) == {n \in t.live : hi[n] - lo[n] < m} \cup (Ptr \ t.live)
           Fits(h, m) == h \in [Ptr -> Nat] /\ \A n \in Below(m) : h[n] = Rising(t, h, n)
           T == {m \in Nat : \E h : Fits(h, m)}
<1>3. \A n \in t.live : /\ hi[n] - lo[n] \in Int /\ 0 <= hi[n] - lo[n]
                        /\ hi[n] - lo[n] < N
  BY <1>1, <1>2 DEF Nested
<1>4. \A n \in Nodes \ t.live : \A s \in Side : t.link[s][n] = NULL
  BY <1>1 DEF Nested
<1>5. "llink" \in Side /\ "rlink" \in Side
  BY DEF Side
<1>6. \A n \in Nodes, s \in Side : t.link[s][n] \in Ptr
  BY <1>2 DEF Tree
<1>7. ASSUME NEW h \in [Ptr -> Nat], NEW n \in Ptr PROVE Rising(t, h, n) \in Nat
  BY <1>5, <1>6 DEF Rising, Most, Ptr
<1>8. 0 \in T
  <2> DEFINE h == [n \in Ptr |-> IF n = NULL THEN 0 ELSE 1]
  <2>1. h \in [Ptr -> Nat] /\ h[NULL] = 0 /\ \A n \in Nodes : h[n] = 1
    BY <1>2 DEF Ptr
  <2> HIDE DEF h
  <2>2. Below(0) = Ptr \ t.live
    BY <1>3
  <2>3. ASSUME NEW n \in Ptr \ t.live PROVE h[n] = Rising(t, h, n)
    <3>1. CASE n = NULL
      BY <3>1, <2>1 DEF Rising
    <3>2. CASE n # NULL
      <4>1. n \in Nodes \ t.live
        BY <3>2 DEF Ptr
      <4> QED BY <4>1, <2>1, <1>2, <1>4, <1>5 DEF Rising, Most
    <3> QED BY <3>1, <3>2
  <2>4. Fits(h, 0)
    BY <2>1, <2>2, <2>3
  <2> HIDE DEF Fits
  <2> QED BY <2>4
<1>9. ASSUME NEW m \in T PROVE m + 1 \in T
  <2>0. m \in Nat
    OBVIOUS
  <2>1. PICK h : Fits(h, m)
    OBVIOUS
  <2> DEFINE h2 == [n \in Ptr |-> IF n \in Below(m) THEN h[n] ELSE Rising(t, h, n)]
  <2>2. h2 \in [Ptr -> Nat] /\ \A n \in Below(m) : h2[n] = h[n]
    BY <2>1, <1>2, <1>7 DEF Ptr
  <2>3. ASSUME NEW n \in Below(m + 1), n # NULL, NEW s \in Side
        PROVE  t.link[s][n] \in Below(m)
    <3> DEFINE c == t.link[s][n]
    <3>1. CASE n \in t.live /\ c # NULL
      <4>1. c \in t.live /\ hi[c] - lo[c] < hi[n] - lo[n]
        BY <3>1, <1>1, <1>2, ChildInside
      <4> HIDE DEF c
      <4>2. hi[n] - lo[n] < m + 1
        BY <3>1
      <4>3. hi[c] - lo[c] < m
        BY <4>1, <4>2, <3>1, <1>3, <2>0, SMTT(30)
      <4> QED BY <4>1, <4>3 DEF c
    <3>2. CASE n \notin t.live
      <4>1. n \in Nodes \ t.live
        BY <3>2, <2>3 DEF Ptr
      <4> QED BY <4>1, <1>2, <1>4 DEF Ptr
    <3>3. CASE c = NULL
      BY <3>3, <1>2 DEF Ptr
    <3> QED BY <3>1, <3>2, <3>3
  <2>4. ASSUME NEW n \in Below(m + 1) PROVE h2[n] = Rising(t, h2, n)
    <3>1. Rising(t, h2, n) = Rising(t, h, n)
      BY <2>2, <2>3, <1>5 DEF Rising
    <3>2. n \in Below(m) => h[n] = Rising(t, h, n)
      BY <2>1
    <3>3. n \in Ptr
      BY <1>2 DEF Ptr
    <3>4. h2[n] = IF n \in Below(m) THEN h[n] ELSE Rising(t, h, n)
      BY <3>3
    <3> HIDE DEF h2
    <3> QED BY <3>1, <3>2, <3>4
  <2>5. Fits(h2, m + 1)
    BY <2>2, <2>4
  <2> HIDE DEF h2, Fits
  <2> QED BY <2>0, <2>5
<1>10. T = Nat
  <2>1. T \subseteq Nat
    OBVIOUS
  <2> HIDE DEF T
  <2> QED BY <2>1, <1>8, <1>9, Induction
<1> DEFINE M == IF N >= 0 THEN N ELSE 0
<1>11. M \in T
  <2>1. M \in Nat
    BY <1>2
  <2> HIDE DEF T
  <2> QED BY <2>1, <1>10
<1>12. Ptr \subseteq Below(M)
  BY <1>2, <1>3
<1> QED BY <1>11, <1>12

\* A tree has one measure.
LEMMA OneMeasure ==
  ASSUME NEW t, NEW N, NEW pos, Ranked(t, N, pos), NEW g, NEW h,
         Measures(t, g), Measures(t, h)
  PROVE  \A n \in t.live \cup {NULL} : g[n] = h[n]
<1> DEFINE P == {n \in t.live : g[n] = h[n]}
<1>1. g[NULL] = h[NULL] /\ NULL \notin t.live
  BY NullIsNoNode DEF Measures, Rising, Ranked, Tree
<1>2. ASSUME NEW n \in t.live, \A s \in Side : t.link[s][n] # NULL => t.link[s][n] \in P
      PROVE  n \in P
  <2>1. \A s \in Side : g[t.link[s][n]] = h[t.link[s][n]]
    BY <1>1, <1>2
  <2>2. g[n] = Rising(t, g, n) /\ h[n] = Rising(t, h, n)
    BY DEF Measures
  <2> QED BY <2>1, <2>2 DEF Rising, Side
<1>3. P \subseteq t.live
  OBVIOUS
<1> HIDE DEF P
<1>4. P = t.live
  BY <1>2, <1>3, ChildrenFirst
<1> QED BY <1>1, <1>4 DEF P

\* Height computes it.
LEMMA HeightMeasures ==
  ASSUME NEW t, NEW N, NEW pos, Ranked(t, N, pos)
  PROVE  Measures(t, Height(t))
<1>1. PICK h \in [Ptr -> Nat] : \A n \in Ptr : h[n] = Rising(t, h, n)
  BY MeasureExists
<1>2. t \in Tree /\ t.live \subseteq Nodes /\ NULL \notin t.live /\ NULL \notin Nodes
  BY NullIsNoNode DEF Ranked, Tree
<1>3. \A n \in Nodes, s \in Side : t.link[s][n] \in Ptr
  BY <1>2 DEF Tree
<1> DEFINE Step(g, n) == IF n = NULL THEN 0 ELSE 1 + Max({g[t.link[s][n]] : s \in Side})
           H == CHOOSE g : g = [n \in Ptr |-> Step(g, n)]
<1>4. ASSUME NEW g \in [Ptr -> Nat], NEW n \in Ptr PROVE Step(g, n) = Rising(t, g, n)
  <2>1. CASE n = NULL
    BY <2>1 DEF Rising
  <2>2. CASE n # NULL
    <3>1. n \in Nodes
      BY <2>2 DEF Ptr
    <3> DEFINE a == g[t.link["llink"][n]]
               b == g[t.link["rlink"][n]]
    <3>2. {g[t.link[s][n]] : s \in Side} = {a, b}
      BY DEF Side
    <3>3. a \in Int /\ b \in Int
      BY <3>1, <1>3 DEF Side
    <3>4. Rising(t, g, n) = 1 + Most(a, b)
      BY <2>2 DEF Rising
    <3> HIDE DEF a, b
    <3>5. Max({a, b}) = Most(a, b)
      BY <3>3, MostIsMax
    <3> QED BY <3>2, <3>4, <3>5, <2>2
  <2> QED BY <2>1, <2>2
<1>5. h = [n \in Ptr |-> Step(h, n)]
  <2> HIDE DEF Step
  <2> QED BY <1>1, <1>4
<1>6. Height(t) = H
  BY DEF Height
<1> HIDE DEF Step
<1>7. H = [n \in Ptr |-> Step(H, n)]
  BY <1>5
<1> HIDE DEF H
<1>8. \A n \in Ptr : H[n] = Step(H, n)
  BY <1>7
<1>9. ASSUME NEW n \in Ptr, n = NULL \/ \A s \in Side : H[t.link[s][n]] = h[t.link[s][n]]
      PROVE  H[n] = h[n]
  <2>1. Step(H, n) = Step(h, n)
    BY <1>9 DEF Step
  <2> QED BY <2>1, <1>1, <1>4, <1>8
<1>10. \A n \in Nodes \ t.live : \A s \in Side : t.link[s][n] = NULL
  BY DEF Ranked, Nested
<1>11. H[NULL] = h[NULL] /\ \A n \in Nodes \ t.live : H[n] = h[n]
  BY <1>9, <1>10, <1>2 DEF Ptr
<1> DEFINE P == {n \in t.live : H[n] = h[n]}
<1>12. P = t.live
  <2>1. ASSUME NEW n \in t.live, \A s \in Side : t.link[s][n] # NULL => t.link[s][n] \in P
        PROVE  n \in P
    <3>1. \A s \in Side : H[t.link[s][n]] = h[t.link[s][n]]
      BY <2>1, <1>11
    <3>2. n \in Ptr
      BY <1>2 DEF Ptr
    <3> QED BY <3>1, <3>2, <1>9
  <2>2. P \subseteq t.live
    OBVIOUS
  <2> HIDE DEF P
  <2> QED BY <2>1, <2>2, ChildrenFirst
<1>13. \A n \in Ptr : H[n] = h[n]
  BY <1>11, <1>12 DEF Ptr
<1>14. H = h
  BY <1>1, <1>7, <1>13
<1>15. t.live \cup {NULL} \subseteq Ptr
  BY <1>2 DEF Ptr
<1> QED BY <1>1, <1>6, <1>14, <1>15 DEF Measures

-----------------------------------------------------------------------------
(* Balance.                                                                *)

\* How far n leans to side s: bal itself on the right, its opposite on the left.
Tilt(t, s, n) == IF s = "llink" THEN -t.bal[n] ELSE t.bal[n]

\* By h, bal tells exactly how n leans, and it does not lean by more than one.
Even(t, h, n) ==
  \A s \in Side :
    LET a == h[t.link[s][n]]
        b == h[t.link[Other(s)][n]]
    IN  h[n] = 1 + Most(a, b) /\ Tilt(t, s, n) = a - b /\ Tilt(t, s, n) \in -1..1

\* h measures the subtrees, and every balance is exact and in -1..1.
Level(t, h) ==
  h \in [Ptr -> Nat] /\ h[NULL] = 0 /\ \A n \in t.live : Even(t, h, n)

\* There are two sides.
LEMMA TwoSides ==
  /\ \A s \in Side : Other(s) \in Side /\ Other(s) # s /\ Other(Other(s)) = s
  /\ \A s, x \in Side : x = s \/ x = Other(s)
  /\ "llink" \in Side /\ "rlink" \in Side
  /\ Other("llink") = "rlink" /\ Other("rlink") = "llink"
BY DEF Side, Other

\* What holds of one side of a node holds of the other.
LEMMA EvenByOneSide ==
  ASSUME NEW t, NEW N, NEW pos, Ranked(t, N, pos), NEW h \in [Ptr -> Nat],
         NEW n \in t.live, NEW s \in Side
  PROVE  LET a == h[t.link[s][n]]
             b == h[t.link[Other(s)][n]]
         IN  /\ a \in Nat /\ b \in Nat /\ h[n] \in Nat
             /\ Even(t, h, n) <=>
                  h[n] = 1 + Most(a, b) /\ Tilt(t, s, n) = a - b /\ Tilt(t, s, n) \in -1..1
<1>1. /\ n \in Nodes /\ t.bal[n] \in Int /\ n \in Ptr
      /\ \A x \in Side : t.link[x][n] \in Ptr
  BY LiveNeighbours, BalIsInt DEF Ptr, Ranked, Tree
<1> DEFINE a == h[t.link[s][n]]
           b == h[t.link[Other(s)][n]]
           Half(x, c, d) == h[n] = 1 + Most(c, d) /\ Tilt(t, x, n) = c - d /\ Tilt(t, x, n) \in -1..1
<1>2. a \in Nat /\ b \in Nat /\ h[n] \in Nat
  BY <1>1, TwoSides
<1>3. Even(t, h, n) <=> Half(s, a, b) /\ Half(Other(s), b, a)
  <2>1. Even(t, h, n) <=> \A x \in {s, Other(s)} : Half(x, h[t.link[x][n]], h[t.link[Other(x)][n]])
    BY TwoSides DEF Even
  <2> HIDE DEF Half
  <2> QED BY <2>1, TwoSides
<1>4. Tilt(t, Other(s), n) = - Tilt(t, s, n) /\ Tilt(t, s, n) \in Int
  BY <1>1, TwoSides DEF Tilt, Side
<1>5. Most(a, b) = Most(b, a)
  BY <1>2 DEF Most
<1> HIDE DEF a, b
<1>6. Half(s, a, b) <=> Half(Other(s), b, a)
  BY <1>2, <1>4, <1>5
<1> QED BY <1>2, <1>3, <1>6 DEF a, b

\* A tree is balanced if some measure finds it so.
LEMMA BalancedIsLevel ==
  ASSUME NEW t, NEW N, NEW pos, Ranked(t, N, pos)
  PROVE  IsBalanced(t) <=> ~t.fault /\ \E h : Level(t, h)
<1>1. /\ t \in Tree /\ t.live \subseteq Nodes /\ NULL \notin t.live
      /\ t.live \cup {NULL} \subseteq Ptr
  BY NullIsNoNode DEF Ranked, Tree, Ptr
<1>2. Measures(t, Height(t))
  BY HeightMeasures
<1> DEFINE H == Height(t)
<1>3. H \in [Ptr -> Nat] /\ H[NULL] = 0
      /\ \A n \in t.live : H[n] = 1 + Most(H[t.link["llink"][n]], H[t.link["rlink"][n]])
  BY <1>1, <1>2 DEF Measures, Rising
<1>4. IsBalanced(t) <=>
        ~t.fault /\ \A n \in t.live :
                      /\ t.bal[n] \in -1..1
                      /\ t.bal[n] = H[t.link["rlink"][n]] - H[t.link["llink"][n]]
  BY DEF IsBalanced
<1>5. ASSUME NEW h \in [Ptr -> Nat], NEW n \in t.live
      PROVE  Even(t, h, n) <=>
               /\ h[n] = 1 + Most(h[t.link["llink"][n]], h[t.link["rlink"][n]])
               /\ t.bal[n] \in -1..1
               /\ t.bal[n] = h[t.link["rlink"][n]] - h[t.link["llink"][n]]
  <2> DEFINE a == h[t.link["rlink"][n]]
             b == h[t.link["llink"][n]]
  <2>1. /\ a \in Nat /\ b \in Nat /\ h[n] \in Nat
        /\ Even(t, h, n) <=> h[n] = 1 + Most(a, b) /\ t.bal[n] = a - b /\ t.bal[n] \in -1..1
    BY EvenByOneSide, TwoSides DEF Tilt
  <2> HIDE DEF a, b
  <2>2. Most(a, b) = Most(b, a)
    BY <2>1 DEF Most
  <2> QED BY <2>1, <2>2 DEF a, b
<1> HIDE DEF H
<1>6. ASSUME IsBalanced(t) PROVE Level(t, H)
  BY <1>3, <1>4, <1>5, <1>6 DEF Level
<1>7. ASSUME ~t.fault, NEW h, Level(t, h) PROVE IsBalanced(t)
  <2>1. Measures(t, h)
    BY <1>1, <1>5, <1>7 DEF Level, Measures, Rising
  <2>2. \A n \in t.live \cup {NULL} : H[n] = h[n]
    BY <2>1, <1>2, OneMeasure DEF H
  <2>3. \A n \in t.live : \A s \in Side : H[t.link[s][n]] = h[t.link[s][n]]
    BY <2>2, LiveNeighbours
  <2> QED BY <2>3, <1>4, <1>5, <1>7, TwoSides DEF Level
<1>8. IsBalanced(t) => ~t.fault
  BY <1>4
<1> QED BY <1>6, <1>7, <1>8

\* The rotation that raises the child of n on side s.
Turned(t, n, s) == IF s = "llink" THEN rotate_right(t, n) ELSE rotate_left(t, n)

\* A small number is stored as it is.
LEMMA SCharSmall == \A x \in -128..127 : SChar(x) = x
BY DEF SChar

\* What two stores of balances leave.
LEMMA TwoBalances ==
  ASSUME NEW t, t \in Tree, NEW n \in Nodes, NEW m \in Nodes, n # m,
         NEW a \in Char, NEW b \in Char
  PROVE  LET u == SetBal(SetBal(t, n, a), m, b)
         IN  /\ u.bal[n] = a /\ u.bal[m] = b
             /\ \A y \in Nodes : y # n /\ y # m => u.bal[y] = t.bal[y]
             /\ u.link = t.link /\ u.fault = t.fault
<1> DEFINE u == SetBal(SetBal(t, n, a), m, b)
<1>1. u = [t EXCEPT !.bal = [[t.bal EXCEPT ![n] = a] EXCEPT ![m] = b]]
  <2>1. SChar(a) = a /\ SChar(b) = b
    BY SCharSmall DEF Char
  <2>2. SetBal(t, n, a) = [t EXCEPT !.bal = [t.bal EXCEPT ![n] = a]]
    BY <2>1 DEF SetBal, Tree
  <2> DEFINE v == [t EXCEPT !.bal = [t.bal EXCEPT ![n] = a]]
  <2>3. v.bal = [t.bal EXCEPT ![n] = a] /\ v \in Tree
    BY DEF Tree, Char
  <2>4. u = [v EXCEPT !.bal[m] = b]
    BY <2>1, <2>2 DEF SetBal
  <2> QED BY <2>3, <2>4 DEF Tree
<1>2. t.bal \in [Nodes -> Char]
  BY DEF Tree
<1> QED BY <1>1, <1>2 DEF Tree

\* The state after a rotation, told alike for both sides.
LEMMA TurnedFields ==
  ASSUME NEW t, NEW N, NEW pos, Ranked(t, N, pos), ~t.fault,
         NEW n \in t.live, NEW s \in Side, t.link[s][n] # NULL,
         NEW m, m = t.link[s][n],
         NEW a, a = Tilt(t, s, n), NEW b, b = Tilt(t, s, m),
         a \in -3..3, b \in -3..3,
         NEW u, u = Turned(t, n, s)
  PROVE  /\ Rearranged(t, u, N, pos) /\ ~u.fault
         /\ Tilt(u, s, n) = a - 1 - Most(b, 0)
         /\ Tilt(u, s, m) = b - 1 + Least(a - 1 - Most(b, 0), 0)
         /\ \A y \in Nodes : y # n /\ y # m => u.bal[y] = t.bal[y]
         /\ \A x \in Side, y \in Nodes :
              u.link[x][y] = IF y = n /\ x = s THEN t.link[Other(s)][m]
                             ELSE IF y = m /\ x = Other(s) THEN n
                             ELSE IF y = t.parent[n] /\ t.link[x][y] = n THEN m
                             ELSE t.link[x][y]
<1> DEFINE r == Raise(t, n, s)
<1>1. /\ n \in Nodes /\ m \in Nodes /\ m \in t.live /\ n # m /\ n # NULL
      /\ r \in Tree /\ r.bal = t.bal /\ r.fault = t.fault
      /\ \A x \in Side, y \in Nodes :
           r.link[x][y] = IF y = n /\ x = s THEN t.link[Other(s)][m]
                          ELSE IF y = m /\ x = Other(s) THEN n
                          ELSE IF y = t.parent[n] /\ t.link[x][y] = n THEN m
                          ELSE t.link[x][y]
  <2>1. PICK lo, hi : Nested(t, N, pos, lo, hi)
    BY DEF Ranked
  <2>2. t \in Tree /\ pos \in [Nodes -> Int] /\ t.live \subseteq Nodes /\ NULL \notin Nodes
    BY NullIsNoNode DEF Ranked, Tree
  <2> HIDE DEF r
  <2>3. /\ m \in t.live /\ m # n /\ t.parent[m] = n
        /\ t.parent[n] \in t.live \cup {NULL} /\ t.parent[n] # n /\ t.parent[n] # m
        /\ t.link[Other(s)][m] \notin {n, m}
    BY <2>1, <2>2, RaiseDistinct
  <2> QED BY <2>2, <2>3, RaiseFields DEF r
<1>2. t.bal[n] \in Int /\ t.bal[m] \in Int
  BY <1>1, BalIsInt
<1> DEFINE d == a - 1 - Most(b, 0)
           e == b - 1 + Least(d, 0)
<1>3. d \in -10..10 /\ e \in -20..20
  BY DEF Most, Least
<1>4. Rearranged(t, u, N, pos)
  BY RotateRearranges DEF Turned
<1>5. CanRotate(t, n, s)
  BY <1>1 DEF CanRotate
<1> HIDE DEF r
<1>6. CASE s = "llink"
  <2>1. a = -t.bal[n] /\ b = -t.bal[m]
    BY <1>6 DEF Tilt
  <2>2. SChar(t.bal[n] + 1 - Least(t.bal[m], 0)) = -d
    <3>1. t.bal[n] + 1 - Least(t.bal[m], 0) = -d
      BY <2>1, <1>2 DEF Most, Least
    <3>2. -d \in -128..127
      BY <1>3
    <3> QED BY <3>1, <3>2, SCharSmall
  <2>3. t.bal[m] + 1 + Most(-d, 0) = -e
    <3>1. e = b - 1 + Least(d, 0)
      OBVIOUS
    <3> HIDE DEF d, e
    <3>2. Most(-d, 0) = -Least(d, 0) /\ Least(d, 0) \in Int
      BY <1>3 DEF Most, Least
    <3> QED BY <2>1, <1>2, <3>1, <3>2
  <2>4. u = SetBal(SetBal(r, n, -d), m, -e)
    BY <2>2, <2>3, <1>5, <1>6 DEF Turned, rotate_right, r
  <2> HIDE DEF d, e
  <2>5. -d \in Char /\ -e \in Char
    BY <1>3 DEF Char
  <2>6. /\ u.bal[n] = -d /\ u.bal[m] = -e
        /\ \A y \in Nodes : y # n /\ y # m => u.bal[y] = r.bal[y]
        /\ u.link = r.link /\ u.fault = r.fault
    <3> DEFINE w == SetBal(SetBal(r, n, -d), m, -e)
    <3>0. r \in Tree /\ n \in Nodes /\ m \in Nodes /\ n # m
      BY <1>1
    <3>1. /\ w.bal[n] = -d /\ w.bal[m] = -e
          /\ \A y \in Nodes : y # n /\ y # m => w.bal[y] = r.bal[y]
          /\ w.link = r.link /\ w.fault = r.fault
      BY <2>5, <3>0, TwoBalances
    <3> QED BY <3>1, <2>4
  <2>7. Tilt(u, s, n) = d /\ Tilt(u, s, m) = e
    BY <2>6, <1>3, <1>6 DEF Tilt
  <2> QED BY <2>6, <2>7, <1>1, <1>4 DEF d, e
<1>7. CASE s = "rlink"
  <2>1. a = t.bal[n] /\ b = t.bal[m]
    BY <1>7, SMTT(30) DEF Tilt
  <2>2. SChar(t.bal[n] - 1 - Most(t.bal[m], 0)) = d
    <3>1. d \in -128..127
      BY <1>3
    <3> QED BY <2>1, <3>1, SCharSmall
  <2>3. t.bal[m] - 1 + Least(d, 0) = e
    BY <2>1
  <2>4. u = SetBal(SetBal(r, n, d), m, e)
    BY <2>2, <2>3, <1>5, <1>7 DEF Turned, rotate_left, r
  <2> HIDE DEF d, e
  <2>5. d \in Char /\ e \in Char
    BY <1>3 DEF Char
  <2>6. /\ u.bal[n] = d /\ u.bal[m] = e
        /\ \A y \in Nodes : y # n /\ y # m => u.bal[y] = r.bal[y]
        /\ u.link = r.link /\ u.fault = r.fault
    <3> DEFINE w == SetBal(SetBal(r, n, d), m, e)
    <3>0. r \in Tree /\ n \in Nodes /\ m \in Nodes /\ n # m
      BY <1>1
    <3>1. /\ w.bal[n] = d /\ w.bal[m] = e
          /\ \A y \in Nodes : y # n /\ y # m => w.bal[y] = r.bal[y]
          /\ w.link = r.link /\ w.fault = r.fault
      BY <2>5, <3>0, TwoBalances
    <3> QED BY <3>1, <2>4
  <2>7. Tilt(u, s, n) = d /\ Tilt(u, s, m) = e
    BY <2>6, <1>7 DEF Tilt
  <2> QED BY <2>6, <2>7, <1>1, <1>4 DEF d, e
<1> QED BY <1>6, <1>7 DEF Side

\* g and h measure all subtrees alike but those of n and m.
AlikeBut(g, h, n, m) == \A y \in Ptr : y # n /\ y # m => g[y] = h[y]

\* What a rotation of n and its child m leaves of another node y: where n hung
\* from it, m does, and it is even if it was and that child is as high.
Elsewhere(t, u, h, g, n, m, y) ==
  /\ g[y] = h[y]
  /\ \A x \in Side :
       /\ Tilt(u, x, y) = Tilt(t, x, y)
       /\ u.link[x][y] = IF t.link[x][y] = n THEN m ELSE t.link[x][y]
       /\ g[u.link[x][y]] = IF t.link[x][y] = n THEN g[m] ELSE h[t.link[x][y]]
  /\ Even(t, h, y) /\ (y = t.parent[n] => g[m] = h[n]) => Even(u, g, y)

\* What a rotation makes of the heights, if g tells those of the two nodes that
\* change places: every other node stays even, the parent if the subtree is as
\* high as it was.
LEMMA TurnedHeights ==
  ASSUME NEW t, NEW N, NEW pos, Ranked(t, N, pos), ~t.fault,
         NEW n \in t.live, NEW s \in Side, t.link[s][n] # NULL,
         NEW m, m = t.link[s][n],
         Tilt(t, s, n) \in -3..3, Tilt(t, s, m) \in -3..3,
         NEW u, u = Turned(t, n, s),
         NEW h, NEW g, AlikeBut(g, h, n, m)
  PROVE  /\ m \in t.live /\ m # n /\ g[NULL] = h[NULL]
         /\ u.link[s][n] = t.link[Other(s)][m] /\ g[u.link[s][n]] = h[t.link[Other(s)][m]]
         /\ u.link[Other(s)][n] = t.link[Other(s)][n]
         /\ g[u.link[Other(s)][n]] = h[t.link[Other(s)][n]]
         /\ u.link[s][m] = t.link[s][m] /\ g[u.link[s][m]] = h[t.link[s][m]]
         /\ u.link[Other(s)][m] = n
         /\ \A y \in t.live \ {n, m} : Elsewhere(t, u, h, g, n, m, y)
<1>0. t.link[s][n] = m
  OBVIOUS
<1>1. PICK lo, hi : Nested(t, N, pos, lo, hi)
  BY DEF Ranked
<1>2. /\ t \in Tree /\ pos \in [Nodes -> Int] /\ t.live \subseteq Nodes
      /\ NULL \notin Nodes /\ NULL \notin t.live
      /\ \A y \in t.live, x \in Side : t.link[x][y] \in t.live \cup {NULL}
  BY NullIsNoNode, LiveNeighbours DEF Ranked, Tree
<1>3. /\ m \in t.live /\ m # n /\ t.parent[m] = n
      /\ t.parent[n] # n /\ t.parent[n] # m
      /\ t.link[Other(s)][m] \notin {n, m}
  BY <1>1, <1>2, RaiseDistinct
<1>4. /\ \A y \in Nodes : y # n /\ y # m => u.bal[y] = t.bal[y]
      /\ \A x \in Side, y \in Nodes :
           u.link[x][y] = IF y = n /\ x = s THEN t.link[Other(s)][m]
                          ELSE IF y = m /\ x = Other(s) THEN n
                          ELSE IF y = t.parent[n] /\ t.link[x][y] = n THEN m
                          ELSE t.link[x][y]
  BY TurnedFields
<1>5. ASSUME NEW y \in t.live, NEW x \in Side, t.link[x][y] # NULL
      PROVE  t.parent[t.link[x][y]] = y /\ t.link[x][y] # y
  BY <1>1, <1>2, <1>5, ChildInside
<1>6. t.live \cup {NULL} \subseteq Ptr /\ n # NULL /\ m # NULL
  BY <1>2, <1>3 DEF Ptr
<1> DEFINE c == t.link[Other(s)][n]
           d == t.link[s][m]
<1>7. \A y \in t.live \cup {NULL} : y # n /\ y # m => g[y] = h[y]
  BY <1>3, <1>6 DEF AlikeBut
<1>8. c \in t.live \cup {NULL} /\ c # n /\ c # m
  <2>1. c \in t.live \cup {NULL}
    BY <1>2, TwoSides
  <2>2. c = NULL \/ (t.parent[c] = n /\ c # n)
    BY <1>5, TwoSides
  <2>3. c # m
    <3>1. t.link[s][n] = m /\ t.link[s][n] # NULL
      BY <1>0
    <3>2. t.link[Other(s)][n] = t.link[s][n] => Other(s) = s
      BY <1>1, <1>2, <3>1, TwoSides, ChildOnce
    <3> QED BY <3>1, <3>2, TwoSides
  <2> QED BY <2>1, <2>2, <2>3, <1>6
<1>9. d \in t.live \cup {NULL} /\ d # n /\ d # m
  BY <1>2, <1>3, <1>5, <1>6
<1>10. t.link[Other(s)][m] \in t.live \cup {NULL}
  BY <1>2, <1>3, TwoSides
<1>11. /\ u.link[s][n] = t.link[Other(s)][m] /\ u.link[Other(s)][n] = c
       /\ u.link[s][m] = d /\ u.link[Other(s)][m] = n
  BY <1>2, <1>3, <1>4, TwoSides
<1>12. ASSUME NEW y \in t.live \ {n, m} PROVE Elsewhere(t, u, h, g, n, m, y)
  <2>1. g[y] = h[y] /\ u.bal[y] = t.bal[y] /\ y \in Nodes
    BY <1>2, <1>4, <1>7, <1>12
  <2>2. \A x \in Side : Tilt(u, x, y) = Tilt(t, x, y)
    BY <2>1 DEF Tilt
  <2>3. \A x \in Side : t.link[x][y] = n => y = t.parent[n]
    BY <1>5, <1>6
  <2>4. \A x \in Side : u.link[x][y] = IF t.link[x][y] = n THEN m ELSE t.link[x][y]
    BY <2>1, <2>3, <1>4, <1>12
  <2>5. \A x \in Side : t.link[x][y] \in t.live \cup {NULL} /\ t.link[x][y] # m
    BY <1>2, <1>3, <1>5, <1>6, <1>12
  <2>6. \A x \in Side : g[u.link[x][y]] = IF t.link[x][y] = n THEN g[m] ELSE h[t.link[x][y]]
    BY <2>4, <2>5, <1>7
  <2>7. ASSUME Even(t, h, y), y = t.parent[n] => g[m] = h[n] PROVE Even(u, g, y)
    <3>1. \A x \in Side : g[u.link[x][y]] = h[t.link[x][y]]
      BY <2>3, <2>6, <2>7
    <3> QED BY <3>1, <2>1, <2>2, <2>7, TwoSides DEF Even
  <2> QED BY <2>1, <2>2, <2>4, <2>6, <2>7 DEF Elsewhere
<1>13. g[NULL] = h[NULL]
  BY <1>6, <1>7
<1>14. g[c] = h[c] /\ g[d] = h[d] /\ g[t.link[Other(s)][m]] = h[t.link[Other(s)][m]]
  BY <1>3, <1>7, <1>8, <1>9, <1>10
<1> QED BY <1>3, <1>7, <1>11, <1>12, <1>13, <1>14

\* Where an insertion has left the tree before it rebalances: all nodes are even
\* but q, whose subtree on side s is two levels higher than the other one.
Heavy(t, h, q, s) ==
  /\ h \in [Ptr -> Nat] /\ h[NULL] = 0
  /\ \A y \in t.live : y # q => Even(t, h, y)
  /\ Tilt(t, s, q) = 2 /\ t.link[s][q] # NULL
  /\ h[t.link[s][q]] = h[t.link[Other(s)][q]] + 2
  /\ h[q] = h[t.link[s][q]]

\* The same, where the child leans outwards, and perhaps by two levels: a rotation
\* of the child has left it so.
Outward(t, h, q, s) ==
  LET m == t.link[s][q]
      H == h[t.link[Other(s)][q]]
  IN  /\ h \in [Ptr -> Nat] /\ h[NULL] = 0
      /\ \A y \in t.live \ {q, m} : Even(t, h, y)
      /\ Tilt(t, s, q) = 2 /\ m # NULL
      /\ h[m] = H + 2 /\ h[q] = H + 2
      /\ h[t.link[s][m]] = H + 1
      /\ h[t.link[Other(s)][m]] \in {H, H - 1}
      /\ Tilt(t, s, m) = H + 1 - h[t.link[Other(s)][m]]

\* A child is another node than its parent, its sibling and its parent's parent.
LEMMA ChildApart ==
  ASSUME NEW t, NEW N, NEW pos, Ranked(t, N, pos),
         NEW n \in t.live, NEW s \in Side, t.link[s][n] # NULL
  PROVE  /\ t.link[s][n] \in t.live /\ t.link[s][n] # n
         /\ t.parent[t.link[s][n]] = n /\ t.parent[n] # t.link[s][n]
         /\ t.link[Other(s)][n] # t.link[s][n]
<1>1. PICK lo, hi : Nested(t, N, pos, lo, hi)
  BY DEF Ranked
<1>2. t \in Tree /\ pos \in [Nodes -> Int]
  BY DEF Ranked
<1>3. t.parent[n] # t.link[s][n]
  BY <1>1, <1>2, RaiseDistinct
<1> QED BY <1>1, <1>2, <1>3, ChildInside, ChildOnce, TwoSides

\* A child that leans outwards is raised: the subtree is as high as it was
\* before the insertion, and all nodes are even.
LEMMA OutwardRotation ==
  ASSUME NEW t, NEW N, NEW pos, Ranked(t, N, pos), ~t.fault,
         NEW q \in t.live, NEW s \in Side, NEW h, Outward(t, h, q, s),
         NEW u, u = Turned(t, q, s)
  PROVE  Rearranged(t, u, N, pos) /\ ~u.fault /\ \E g : Level(u, g)
<1> DEFINE m == t.link[s][q]
           H == h[t.link[Other(s)][q]]
           b == h[t.link[Other(s)][m]]
           g == [y \in Ptr |-> IF y = q THEN H + 1 ELSE IF y = m THEN H + 2 ELSE h[y]]
<1>1. /\ h \in [Ptr -> Nat] /\ h[NULL] = 0 /\ Tilt(t, s, q) = 2 /\ m # NULL
      /\ h[m] = H + 2 /\ h[q] = H + 2 /\ h[t.link[s][m]] = H + 1
      /\ b \in {H, H - 1} /\ Tilt(t, s, m) = H + 1 - b
      /\ \A y \in t.live \ {q, m} : Even(t, h, y)
  BY DEF Outward
<1>2. /\ t.link[Other(s)][q] \in Ptr /\ t.link[Other(s)][m] \in Ptr
      /\ m \in t.live /\ m # q /\ q \in Ptr /\ m \in Ptr /\ NULL \in Ptr
  <2>1. m \in t.live /\ m # q
    BY <1>1, ChildApart
  <2>2. t.live \subseteq Nodes
    BY DEF Ranked, Tree
  <2> QED BY <2>1, <2>2, LiveNeighbours, TwoSides DEF Ptr
<1>3. H \in Nat /\ b \in Nat
  BY <1>1, <1>2
<1> HIDE DEF H, m, b
<1>4. /\ Tilt(t, s, q) \in -3..3 /\ Tilt(t, s, m) \in -3..3
      /\ t.link[s][q] = m /\ t.link[s][q] # NULL
  BY <1>1, <1>3 DEF m
<1>5. /\ Rearranged(t, u, N, pos) /\ ~u.fault
      /\ Tilt(u, s, q) = Tilt(t, s, q) - 1 - Most(Tilt(t, s, m), 0)
      /\ Tilt(u, s, m) = Tilt(t, s, m) - 1 + Least(Tilt(t, s, q) - 1 - Most(Tilt(t, s, m), 0), 0)
  BY <1>4, TurnedFields DEF m
<1>6. Tilt(u, s, q) = b - H /\ Tilt(u, s, m) = 0
  BY <1>1, <1>3, <1>5 DEF Most, Least
<1>7. /\ g \in [Ptr -> Nat] /\ g[q] = H + 1 /\ g[m] = H + 2
      /\ AlikeBut(g, h, q, m)
  BY <1>1, <1>2, <1>3 DEF AlikeBut
<1> HIDE DEF g
<1>8. /\ g[NULL] = h[NULL]
      /\ g[u.link[s][q]] = b /\ g[u.link[Other(s)][q]] = H
      /\ g[u.link[s][m]] = h[t.link[s][m]] /\ u.link[Other(s)][m] = q
      /\ \A y \in t.live \ {q, m} : Elsewhere(t, u, h, g, q, m, y)
  <2>1. AlikeBut(g, h, q, t.link[s][q])
    BY <1>7 DEF m
  <2>2. /\ g[NULL] = h[NULL]
        /\ g[u.link[s][q]] = h[t.link[Other(s)][m]] /\ g[u.link[Other(s)][q]] = H
    BY <2>1, <1>4, TurnedHeights DEF m, H
  <2>3. /\ g[u.link[s][m]] = h[t.link[s][m]] /\ u.link[Other(s)][m] = q
        /\ \A y \in t.live \ {q, m} : Elsewhere(t, u, h, g, q, m, y)
    BY <2>1, <1>4, TurnedHeights DEF m
  <2> QED BY <2>2, <2>3 DEF b
<1>9. Ranked(u, N, pos) /\ u.live = t.live
  BY <1>5 DEF Rearranged
<1>10. Even(u, g, q)
  <2>1. g[q] = 1 + Most(g[u.link[s][q]], g[u.link[Other(s)][q]])
    BY <1>1, <1>3, <1>7, <1>8 DEF Most
  <2>2. g[u.link[s][q]] - g[u.link[Other(s)][q]] = Tilt(u, s, q) /\ Tilt(u, s, q) \in -1..1
    BY <1>1, <1>3, <1>6, <1>8
  <2> QED BY <2>1, <2>2, <1>7, <1>9, EvenByOneSide
<1>11. Even(u, g, m)
  <2>1. g[m] = 1 + Most(g[u.link[s][m]], g[u.link[Other(s)][m]])
    BY <1>1, <1>3, <1>7, <1>8 DEF Most
  <2>2. g[u.link[s][m]] - g[u.link[Other(s)][m]] = 0
    BY <1>1, <1>3, <1>7, <1>8
  <2> QED BY <2>1, <2>2, <1>2, <1>6, <1>7, <1>9, EvenByOneSide
<1>12. \A y \in t.live \ {q, m} : Even(u, g, y)
  BY <1>1, <1>7, <1>8 DEF Elsewhere
<1>13. Level(u, g)
  BY <1>1, <1>7, <1>8, <1>9, <1>10, <1>11, <1>12 DEF Level
<1> QED BY <1>5, <1>13

\* Where the child leans outwards after an insertion.
LEMMA HeavyOutward ==
  ASSUME NEW t, NEW N, NEW pos, Ranked(t, N, pos),
         NEW q \in t.live, NEW s \in Side, NEW h, Heavy(t, h, q, s),
         Tilt(t, s, t.link[s][q]) = 1
  PROVE  Outward(t, h, q, s)
<1> DEFINE m == t.link[s][q]
           H == h[t.link[Other(s)][q]]
           e == h[t.link[s][m]]
           f == h[t.link[Other(s)][m]]
<1>1. /\ h \in [Ptr -> Nat] /\ h[NULL] = 0 /\ Tilt(t, s, q) = 2 /\ m # NULL
      /\ h[m] = H + 2 /\ h[q] = h[m] /\ \A y \in t.live : y # q => Even(t, h, y)
  BY DEF Heavy
<1>2. m \in t.live /\ m # q
  BY <1>1, ChildApart
<1>3. H \in Nat
  <2>1. t.link[Other(s)][q] \in Ptr
    BY TwoSides, LiveNeighbours DEF Ptr, Ranked, Tree
  <2> QED BY <2>1, <1>1
<1>4. e \in Nat /\ f \in Nat /\ h[m] = 1 + Most(e, f) /\ e - f = 1
  <2>1. Even(t, h, m)
    BY <1>1, <1>2
  <2>2. Tilt(t, s, m) = 1
    OBVIOUS
  <2> HIDE DEF m
  <2> QED BY <2>1, <2>2, <1>1, <1>2, EvenByOneSide
<1>5. Tilt(t, s, m) = 1
  OBVIOUS
<1> HIDE DEF e, f, m, H
<1>6. e = H + 1 /\ f = H
  BY <1>1, <1>3, <1>4 DEF Most
<1>7. Tilt(t, s, m) = H + 1 - f /\ h[q] = H + 2 /\ f \in {H, H - 1}
  BY <1>1, <1>3, <1>5, <1>6
<1> QED BY <1>1, <1>6, <1>7 DEF Outward, e, f, m, H

\* The same of one of the other nodes.
LEMMA TurnedElsewhere ==
  ASSUME NEW t, NEW N, NEW pos, Ranked(t, N, pos), ~t.fault,
         NEW n \in t.live, NEW s \in Side, NEW m, t.link[s][n] = m, m # NULL,
         Tilt(t, s, n) \in -3..3, Tilt(t, s, m) \in -3..3,
         NEW h, NEW g, AlikeBut(g, h, n, m),
         NEW y \in t.live, y # n, y # m
  PROVE  Elsewhere(t, Turned(t, n, s), h, g, n, m, y)
BY TurnedHeights

\* A child that leans inwards is turned first, and then its inner child, which
\* has taken its place, leans outwards.
LEMMA InwardRotation ==
  ASSUME NEW t, NEW N, NEW pos, Ranked(t, N, pos), ~t.fault,
         NEW q \in t.live, NEW s \in Side, NEW h, Heavy(t, h, q, s),
         Tilt(t, s, t.link[s][q]) = -1,
         NEW v, v = Turned(t, t.link[s][q], Other(s))
  PROVE  Rearranged(t, v, N, pos) /\ ~v.fault /\ \E g : Outward(v, g, q, s)
<1> DEFINE m == t.link[s][q]
           z == Other(s)
           i == t.link[z][m]
           H == h[t.link[z][q]]
           e == h[t.link[s][m]]
           f == h[i]
           a == h[t.link[s][i]]
           b == h[t.link[z][i]]
           g == [y \in Ptr |-> IF y = m THEN H + 1 ELSE IF y = i THEN H + 2 ELSE h[y]]
<1>1. /\ h \in [Ptr -> Nat] /\ h[NULL] = 0 /\ Tilt(t, s, q) = 2 /\ m # NULL
      /\ h[m] = H + 2 /\ h[q] = h[m] /\ \A y \in t.live : y # q => Even(t, h, y)
  BY DEF Heavy
<1>2. /\ m \in t.live /\ m # q /\ t.parent[m] = q /\ t.parent[q] # m
      /\ t.link[z][q] # m /\ z \in Side /\ z # s /\ Other(z) = s
  BY <1>1, ChildApart, TwoSides
<1>3. H \in Nat
  <2>1. t.link[z][q] \in Ptr
    BY TwoSides, LiveNeighbours DEF Ptr, Ranked, Tree
  <2> QED BY <2>1, <1>1
<1>4. Tilt(t, s, m) = -1
  OBVIOUS
<1>5. v = Turned(t, m, z) /\ t.link[s][q] = m /\ t.link[z][m] = i /\ t.link[z][q] \in Ptr
  BY TwoSides, LiveNeighbours DEF Ptr, Ranked, Tree
<1> HIDE DEF m, H
<1>6. /\ e \in Nat /\ f \in Nat /\ h[m] = 1 + Most(e, f) /\ e - f = -1
  <2>1. Even(t, h, m)
    BY <1>1, <1>2
  <2> QED BY <2>1, <1>1, <1>2, <1>4, EvenByOneSide
<1>7. e = H /\ f = H + 1
  <2> HIDE DEF e, f
  <2> QED BY <1>1, <1>3, <1>6 DEF Most
<1>8. i # NULL
  BY <1>1, <1>3, <1>7
<1>9. i \in t.live /\ i # m /\ t.parent[i] = m /\ i # q
  BY <1>2, <1>8, ChildApart
<1> HIDE DEF z, i
<1>10. /\ a \in Nat /\ b \in Nat /\ H + 1 = 1 + Most(a, b)
       /\ Tilt(t, s, i) = a - b /\ a - b \in -1..1
  <2>1. Even(t, h, i)
    BY <1>1, <1>9
  <2> QED BY <2>1, <1>1, <1>7, <1>9, EvenByOneSide DEF z
<1> HIDE DEF a, b, e, f
<1>11. Tilt(t, z, m) = 1 /\ Tilt(t, z, i) = b - a
  BY <1>2, <1>4, <1>10, <1>9, BalIsInt, LiveNeighbours DEF Tilt, z, Side, Other
<1>12. Tilt(t, z, m) \in -3..3 /\ Tilt(t, z, i) \in -3..3 /\ t.link[z][m] # NULL
  BY <1>5, <1>8, <1>10, <1>11
<1>13. /\ Rearranged(t, v, N, pos) /\ ~v.fault
       /\ Tilt(v, z, m) = Tilt(t, z, m) - 1 - Most(Tilt(t, z, i), 0)
       /\ Tilt(v, z, i) = Tilt(t, z, i) - 1 + Least(Tilt(t, z, m) - 1 - Most(Tilt(t, z, i), 0), 0)
  BY <1>2, <1>5, <1>12, TurnedFields
<1>14. Tilt(v, z, m) = -Most(b - a, 0) /\ Tilt(v, z, i) = b - a - 1 - Most(b - a, 0)
  BY <1>10, <1>11, <1>13 DEF Most, Least
<1>15. m \in Ptr /\ i \in Ptr /\ q \in Ptr /\ NULL \in Ptr
  BY <1>2, <1>9, LiveNeighbours DEF Ptr
<1>16. /\ g \in [Ptr -> Nat] /\ g[m] = H + 1 /\ g[i] = H + 2
       /\ AlikeBut(g, h, m, i)
  BY <1>1, <1>3, <1>9, <1>15 DEF AlikeBut
<1> HIDE DEF g
<1>17. /\ g[NULL] = h[NULL]
       /\ g[v.link[z][m]] = a /\ g[v.link[s][m]] = e
       /\ g[v.link[z][i]] = b /\ v.link[s][i] = m
       /\ \A y \in t.live \ {m, i} : Elsewhere(t, v, h, g, m, i, y)
  <2>1. /\ g[NULL] = h[NULL]
        /\ g[v.link[z][m]] = h[t.link[Other(z)][i]]
        /\ g[v.link[Other(z)][m]] = h[t.link[Other(z)][m]]
    BY <1>2, <1>5, <1>12, <1>16, TurnedHeights
  <2>2. /\ g[v.link[z][i]] = h[t.link[z][i]] /\ v.link[Other(z)][i] = m
    BY <1>2, <1>5, <1>12, <1>16, TurnedHeights
  <2>3. ASSUME NEW y \in t.live, y # m, y # i PROVE Elsewhere(t, Turned(t, m, z), h, g, m, i, y)
    BY <2>3, <1>2, <1>5, <1>8, <1>12, <1>16, TurnedElsewhere
  <2>4. \A y \in t.live \ {m, i} : Elsewhere(t, v, h, g, m, i, y)
    BY <2>3, <1>5, Zenon
  <2> QED BY <2>1, <2>2, <2>4, <1>2 DEF a, b, e
<1>18. Ranked(v, N, pos) /\ v.live = t.live
  BY <1>13 DEF Rearranged
<1>19. /\ g[q] = H + 2 /\ Tilt(v, s, q) = 2 /\ v.link[s][q] = i /\ g[v.link[z][q]] = H
  <2>1. Elsewhere(t, v, h, g, m, i, q)
    BY <1>2, <1>9, <1>17, SMTT(30)
  <2> QED BY <2>1, <1>1, <1>2, <1>5 DEF Elsewhere, H, z
<1>20. Even(v, g, m)
  <2>1. g[m] = 1 + Most(g[v.link[z][m]], g[v.link[s][m]])
    BY <1>3, <1>7, <1>10, <1>16, <1>17 DEF Most
  <2>2. g[v.link[z][m]] - g[v.link[s][m]] = Tilt(v, z, m) /\ Tilt(v, z, m) \in -1..1
    <3>1. a - H = -Most(b - a, 0) /\ a - H \in -1..1
      BY <1>3, <1>10 DEF Most
    <3> QED BY <3>1, <1>7, <1>14, <1>17
  <2> QED BY <2>1, <2>2, <1>2, <1>16, <1>18, EvenByOneSide
<1>21. \A y \in t.live \ {q, i} : Even(v, g, y)
  BY <1>1, <1>2, <1>17, <1>20 DEF Elsewhere
<1>22. b \in {H, H - 1} /\ Tilt(v, s, i) = H + 1 - b
  <2>1. Tilt(v, s, i) = -Tilt(v, z, i)
    BY <1>2, <1>9, <1>18, BalIsInt, LiveNeighbours DEF Tilt, z, Side, Other
  <2>2. b \in {H, H - 1} /\ -(b - a - 1 - Most(b - a, 0)) = H + 1 - b
    BY <1>3, <1>10 DEF Most
  <2> QED BY <2>1, <2>2, <1>14
<1>23. Outward(v, g, q, s)
  <2>1. /\ g \in [Ptr -> Nat] /\ g[NULL] = 0 /\ i # NULL /\ Tilt(v, s, q) = 2
        /\ g[i] = H + 2 /\ g[q] = H + 2 /\ g[v.link[s][i]] = H + 1
    BY <1>1, <1>8, <1>16, <1>17, <1>19
  <2>2. v.link[s][q] = i /\ g[v.link[Other(s)][q]] = H /\ g[v.link[Other(s)][i]] = b
    BY <1>17, <1>19 DEF z
  <2> QED BY <2>1, <2>2, <1>18, <1>21, <1>22 DEF Outward
<1> QED BY <1>13, <1>23

\* All nodes are even but q, whose subtree on side s has grown by a level; if it
\* was the higher one already, its root leans.
Grown(t, h, q, s) ==
  LET m == t.link[s][q]
      d == h[m] - 1 - h[t.link[Other(s)][q]]
  IN  /\ h \in [Ptr -> Nat] /\ h[NULL] = 0
      /\ \A y \in t.live : y # q => Even(t, h, y)
      /\ m # NULL /\ d \in {-1, 1} /\ Tilt(t, s, q) = d
      /\ h[q] = 1 + Most(h[m] - 1, h[t.link[Other(s)][q]])
      /\ d = 1 => Tilt(t, s, m) # 0

\* What RebalanceAt does, told alike for both sides.
LEMMA RebalanceTurns ==
  ASSUME NEW t, NEW N, NEW pos, Ranked(t, N, pos), NEW q \in t.live, NEW s \in Side,
         NEW m, t.link[s][q] = m, m \in Nodes, Tilt(t, s, q) \in -1..1,
         NEW t1, t1 = SetBal(t, q, t.bal[q] + IF s = "llink" THEN -1 ELSE 1)
  PROVE  /\ Rearranged(t, t1, N, pos) /\ t1.link = t.link /\ t1.fault = t.fault
         /\ Tilt(t1, s, q) = Tilt(t, s, q) + 1
         /\ \A x \in Side, y \in Nodes : y # q => Tilt(t1, x, y) = Tilt(t, x, y)
         /\ RebalanceAt(t, q, s) =
              IF Tilt(t1, s, q) # 2 THEN t1
              ELSE IF Tilt(t1, s, m) < 0 THEN Turned(Turned(t1, m, Other(s)), q, s)
              ELSE Turned(t1, q, s)
<1> DEFINE b == t.bal[q] + IF s = "llink" THEN -1 ELSE 1
<1>1. q \in Nodes /\ t.bal[q] \in Int /\ t.bal[m] \in Int /\ t \in Tree
  BY LiveNeighbours, BalIsInt DEF Ranked
<1>2. b \in Char /\ SChar(b) = b
  <2>1. b \in -2..2
    BY <1>1 DEF Tilt, Side
  <2> HIDE DEF b
  <2> QED BY <2>1, SCharSmall DEF Char
<1>3. t1 = SetBal(t, q, b)
  OBVIOUS
<1>4. t1.bal[q] = b /\ \A y \in Nodes : y # q => t1.bal[y] = t.bal[y]
  <2> HIDE DEF b
  <2>1. t.bal \in [Nodes -> Char]
    BY <1>1 DEF Tree
  <2>2. t1.bal = [t.bal EXCEPT ![q] = b]
    BY <1>1, <1>2, <1>3 DEF SetBal, Tree
  <2> QED BY <1>1, <2>1, <2>2
<1>5. Rearranged(t, t1, N, pos) /\ t1.link = t.link /\ t1.fault = t.fault
  <2>1. b \in Int
    BY <1>2 DEF Char
  <2> HIDE DEF b
  <2> QED BY <2>1, <1>1, <1>3, SetBalRearranges
<1>6. Tilt(t1, s, q) = Tilt(t, s, q) + 1
  BY <1>1, <1>4 DEF Tilt, Side
<1>7. \A x \in Side, y \in Nodes : y # q => Tilt(t1, x, y) = Tilt(t, x, y)
  BY <1>4 DEF Tilt
<1>8. t1.bal[q] \in Int /\ t1.bal[m] \in Int
  BY <1>1, <1>5, BalIsInt DEF Rearranged
<1>9. RebalanceAt(t, q, s) =
        IF Tilt(t1, s, q) # 2 THEN t1
        ELSE IF Tilt(t1, s, m) < 0 THEN Turned(Turned(t1, m, Other(s)), q, s)
        ELSE Turned(t1, q, s)
  <2> DEFINE w == SetBal(t, q, b)
  <2>1. w.bal[q] \in Int /\ w.bal[m] \in Int
    BY <1>3, <1>8
  <2>2. CASE s = "llink"
    <3>1. RebalanceAt(t, q, s) =
            IF w.bal[q] = -2
            THEN rotate_right(IF w.bal[m] > 0 THEN rotate_left(w, m) ELSE w, q)
            ELSE w
      BY <2>2 DEF RebalanceAt
    <3> HIDE DEF w
    <3>2. /\ Tilt(w, s, q) # 2 <=> w.bal[q] # -2
          /\ Tilt(w, s, m) < 0 <=> w.bal[m] > 0
      BY <2>1, <2>2 DEF Tilt
    <3>3. \A x, y : Turned(x, y, s) = rotate_right(x, y) /\ Turned(x, y, Other(s)) = rotate_left(x, y)
      BY <2>2 DEF Turned, Other
    <3>4. RebalanceAt(t, q, s) =
            IF Tilt(w, s, q) # 2 THEN w
            ELSE IF Tilt(w, s, m) < 0 THEN Turned(Turned(w, m, Other(s)), q, s)
            ELSE Turned(w, q, s)
      BY <3>1, <3>2, <3>3
    <3> QED BY <3>4, <1>3 DEF w
  <2>3. CASE s = "rlink"
    <3>1. RebalanceAt(t, q, s) =
            IF w.bal[q] = 2
            THEN rotate_left(IF w.bal[m] < 0 THEN rotate_right(w, m) ELSE w, q)
            ELSE w
      BY <2>3 DEF RebalanceAt
    <3> HIDE DEF w
    <3>2. /\ Tilt(w, s, q) # 2 <=> w.bal[q] # 2
          /\ Tilt(w, s, m) < 0 <=> w.bal[m] < 0
      BY <2>3 DEF Tilt
    <3>3. \A x, y : Turned(x, y, s) = rotate_left(x, y) /\ Turned(x, y, Other(s)) = rotate_right(x, y)
      BY <2>3 DEF Turned, Other
    <3>4. RebalanceAt(t, q, s) =
            IF Tilt(w, s, q) # 2 THEN w
            ELSE IF Tilt(w, s, m) < 0 THEN Turned(Turned(w, m, Other(s)), q, s)
            ELSE Turned(w, q, s)
      BY <3>1, <3>2, <3>3
    <3> QED BY <3>4, <1>3 DEF w
  <2> QED BY <2>2, <2>3 DEF Side
<1> QED BY <1>5, <1>6, <1>7, <1>9

\* Rebalancing leaves all nodes even, after at most two rotations.
LEMMA RebalanceLevels ==
  ASSUME NEW t, NEW N, NEW pos, Ranked(t, N, pos), ~t.fault,
         NEW q \in t.live, NEW s \in Side, NEW h, Grown(t, h, q, s)
  PROVE  ~RebalanceAt(t, q, s).fault /\ \E g : Level(RebalanceAt(t, q, s), g)
<1> DEFINE m  == t.link[s][q]
           a  == h[m]
           b  == h[t.link[Other(s)][q]]
           t1 == SetBal(t, q, t.bal[q] + IF s = "llink" THEN -1 ELSE 1)
           u  == RebalanceAt(t, q, s)
<1>1. /\ h \in [Ptr -> Nat] /\ h[NULL] = 0
      /\ \A y \in t.live : y # q => Even(t, h, y)
      /\ m # NULL /\ a - 1 - b \in {-1, 1} /\ Tilt(t, s, q) = a - 1 - b
      /\ h[q] = 1 + Most(a - 1, b)
      /\ a - 1 - b = 1 => Tilt(t, s, m) # 0
  BY DEF Grown
<1>2. m \in t.live /\ m # q /\ m \in Nodes /\ q \in Nodes /\ t.link[s][q] = m
  BY <1>1, ChildApart, LiveNeighbours
<1>3. a \in Nat /\ b \in Nat
  BY <1>1, <1>2, EvenByOneSide
<1>4. Tilt(t, s, q) \in -1..1
  BY <1>1
<1> HIDE DEF m, u
<1>5. /\ Rearranged(t, t1, N, pos) /\ t1.link = t.link /\ t1.fault = t.fault
      /\ Tilt(t1, s, q) = Tilt(t, s, q) + 1
      /\ \A x \in Side, y \in Nodes : y # q => Tilt(t1, x, y) = Tilt(t, x, y)
      /\ u = IF Tilt(t1, s, q) # 2 THEN t1
             ELSE IF Tilt(t1, s, m) < 0 THEN Turned(Turned(t1, m, Other(s)), q, s)
             ELSE Turned(t1, q, s)
  BY <1>2, <1>4, RebalanceTurns DEF u
<1> HIDE DEF t1
<1>6. Ranked(t1, N, pos) /\ t1.live = t.live /\ ~t1.fault
  BY <1>5 DEF Rearranged
<1>7. t.live \subseteq Nodes
  BY DEF Ranked, Tree
<1>8. \A y \in t.live : y # q => Even(t1, h, y)
  BY <1>1, <1>5, <1>7 DEF Even
<1>9. t1.link[s][q] = m /\ t1.link[Other(s)][q] = t.link[Other(s)][q]
  BY <1>2, <1>5
<1> HIDE DEF a, b
<1>10. CASE a - 1 - b = -1
  <2>1. Tilt(t1, s, q) = 0 /\ a - b = 0 /\ h[q] = 1 + Most(a, b)
    BY <1>1, <1>3, <1>5, <1>10 DEF Most
  <2>2. Even(t1, h, q)
    <3>1. /\ h[q] = 1 + Most(h[t1.link[s][q]], h[t1.link[Other(s)][q]])
          /\ Tilt(t1, s, q) = h[t1.link[s][q]] - h[t1.link[Other(s)][q]]
          /\ Tilt(t1, s, q) \in -1..1
      BY <2>1, <1>9 DEF a, b
    <3> QED BY <3>1, <1>1, <1>6, EvenByOneSide
  <2>3. u = t1 /\ Level(t1, h)
    BY <2>1, <2>2, <1>1, <1>5, <1>6, <1>8 DEF Level
  <2> QED BY <2>3, <1>6 DEF u
<1>11. CASE a - 1 - b = 1
  <2>1. Tilt(t1, s, q) = 2 /\ a = b + 2 /\ h[q] = a
    BY <1>1, <1>3, <1>5, <1>11 DEF Most
  <2>2. Heavy(t1, h, q, s)
    BY <2>1, <1>1, <1>6, <1>8, <1>9 DEF Heavy, a, b
  <2>3. Tilt(t1, s, m) \in {-1, 1}
    <3>1. Even(t1, h, m) /\ Tilt(t1, s, m) \in -1..1
      BY <1>2, <1>8 DEF Even
    <3>2. Tilt(t1, s, m) # 0
      BY <1>1, <1>2, <1>5, <1>11
    <3> QED BY <3>1, <3>2
  <2>4. CASE Tilt(t1, s, m) = 1
    <3>1. u = Turned(t1, q, s)
      BY <2>1, <2>4, <1>5
    <3>2. Outward(t1, h, q, s)
      BY <2>2, <2>4, <1>6, <1>9, HeavyOutward
    <3>3. ~u.fault /\ \E g : Level(u, g)
      BY <3>1, <3>2, <1>6, OutwardRotation
    <3> QED BY <3>3 DEF u
  <2>5. CASE Tilt(t1, s, m) = -1
    <3> DEFINE v == Turned(t1, m, Other(s))
    <3>1. u = Turned(v, q, s)
      BY <2>1, <2>5, <1>5
    <3>2. v = Turned(t1, t1.link[s][q], Other(s)) /\ Tilt(t1, s, t1.link[s][q]) = -1
      BY <2>5, <1>9
    <3> HIDE DEF v
    <3>3. Rearranged(t1, v, N, pos) /\ ~v.fault /\ \E g : Outward(v, g, q, s)
      BY <3>2, <2>2, <1>6, InwardRotation
    <3>4. Ranked(v, N, pos) /\ q \in v.live
      BY <3>3, <1>6 DEF Rearranged
    <3>5. ~u.fault /\ \E g : Level(u, g)
      BY <3>1, <3>3, <3>4, OutwardRotation
    <3> QED BY <3>5 DEF u
  <2> QED BY <2>3, <2>4, <2>5
<1> QED BY <1>1, <1>10, <1>11

-----------------------------------------------------------------------------
(* The path of an insertion.                                               *)

\* The nodes c[1..M] lie below each other, each on the side to which turn sends
\* from the one before it.
Trail(t, turn, c, M) ==
  \A j \in 1..(M - 1) :
    turn[c[j]] \in Side /\ t.link[turn[c[j]]][c[j]] = c[j + 1]

\* The sequence of one element.
LEMMA OneSeq ==
  ASSUME NEW S, NEW e \in S
  PROVE  <<e>> \in Seq(S) /\ Len(<<e>>) = 1 /\ <<e>>[1] = e
<1>1. <<e>> \in Seq(S)
  OBVIOUS
<1>2. Len(<<e>>) = 1
  OBVIOUS
<1>3. <<e>>[1] = e
  OBVIOUS
<1> QED BY <1>1, <1>2, <1>3

\* A walk that never stops goes down from child to child, until there is none.
LEMMA WalkDescends ==
  ASSUME NEW t, NEW N, NEW pos, Ranked(t, N, pos), NEW turn \in [t.live -> Side]
  PROVE  \A n \in t.live :
           LET w == Walk(t, n, turn)
           IN  /\ w \in Seq(t.live) /\ Len(w) >= 1 /\ w[1] = n
               /\ Trail(t, turn, w, Len(w))
               /\ t.link[turn[w[Len(w)]]][w[Len(w)]] = NULL
<1>0. turn \in [t.live -> Side \cup {"stop"}] /\ \A n \in t.live : turn[n] \in Side /\ turn[n] # "stop"
  BY DEF Side
<1>1. PICK go : /\ go = [n \in t.live \cup {NULL} |-> Going(t, turn, go, n)]
                /\ \A from : Walk(t, from, turn) = go[from]
  BY <1>0, WalkIsDefined
<1>2. NULL \notin t.live
  BY NullIsNoNode DEF Ranked, Tree
<1>3. go[NULL] = <<>> /\ \A n \in t.live : go[n] = <<n>> \o go[t.link[turn[n]][n]]
  <2>1. go[NULL] = <<>> /\ \A n \in t.live : go[n] = Going(t, turn, go, n)
    BY <1>1 DEF Going
  <2> QED BY <2>1, <1>0, <1>2 DEF Going
<1> DEFINE Good(n, w) == /\ w \in Seq(t.live) /\ Len(w) >= 1 /\ w[1] = n
                         /\ Trail(t, turn, w, Len(w))
                         /\ t.link[turn[w[Len(w)]]][w[Len(w)]] = NULL
           P == {n \in t.live : Good(n, go[n])}
<1>4. ASSUME NEW n \in t.live,
             \A s \in Side : t.link[s][n] # NULL => t.link[s][n] \in P
      PROVE  Good(n, go[n])
  <2> DEFINE d == t.link[turn[n]][n]
             w == go[d]
             v == <<n>> \o w
  <2>1. go[n] = v
    BY <1>3
  <2>2. CASE d = NULL
    <3>1. go[n] = <<n>>
      BY <2>1, <2>2, <1>3, OneThenNone
    <3>2. <<n>> \in Seq(t.live) /\ Len(<<n>>) = 1 /\ <<n>>[1] = n
      BY OneSeq
    <3>3. t.link[turn[n]][n] = NULL
      BY <2>2
    <3> DEFINE u == <<n>>
    <3> HIDE DEF u
    <3>4. /\ go[n] = u /\ u \in Seq(t.live) /\ Len(u) = 1 /\ u[1] = n
      BY <3>1, <3>2 DEF u
    <3>5. Trail(t, turn, u, Len(u))
      BY <3>4 DEF Trail
    <3>6. t.link[turn[u[Len(u)]]][u[Len(u)]] = NULL
      BY <3>3, <3>4
    <3> QED BY <3>4, <3>5, <3>6
  <2>3. CASE d # NULL
    <3>1. d \in t.live /\ Good(d, w)
      BY <2>3, <1>0, <1>4, Zenon
    <3>2. t.link[turn[n]][n] = d
      OBVIOUS
    <3> HIDE DEF d, w
    <3>3. /\ v \in Seq(t.live) /\ Len(v) = Len(w) + 1 /\ v[1] = n
          /\ \A j \in 1..Len(w) : v[j + 1] = w[j]
      <4>1. <<n>> \in Seq(t.live) /\ Len(<<n>>) = 1 /\ <<n>>[1] = n
        BY OneSeq
      <4>2. w \in Seq(t.live)
        BY <3>1
      <4>3. v \in Seq(t.live) /\ Len(v) = 1 + Len(w)
        BY <4>1, <4>2, ConcatProperties
      <4>4. Len(w) \in Nat
        BY <4>2
      <4>5. v[1] = n /\ \A j \in 1..Len(w) : v[j + 1] = w[j]
        BY <4>2, <4>4
      <4> QED BY <4>3, <4>4, <4>5
    <3> HIDE DEF v
    <3>4. v[Len(v)] = w[Len(w)]
      BY <3>1, <3>3
    <3>5. Trail(t, turn, v, Len(v))
      <4> SUFFICES ASSUME NEW j \in 1..(Len(v) - 1)
                   PROVE  turn[v[j]] \in Side /\ t.link[turn[v[j]]][v[j]] = v[j + 1]
        BY DEF Trail
      <4>0. Len(w) \in Nat /\ j \in 1..Len(w)
        BY <3>1, <3>3
      <4>1. CASE j = 1
        BY <4>0, <4>1, <3>1, <3>2, <3>3, <1>0
      <4>2. CASE j # 1
        <5>1. (j - 1) \in 1..(Len(w) - 1) /\ (j - 1) + 1 = j /\ j \in 1..Len(w)
          BY <4>0, <4>2
        <5>2. v[j] = w[j - 1] /\ v[j + 1] = w[j]
          BY <5>1, <3>3
        <5>3. turn[w[j - 1]] \in Side /\ t.link[turn[w[j - 1]]][w[j - 1]] = w[(j - 1) + 1]
          BY <5>1, <3>1 DEF Trail
        <5> QED BY <5>1, <5>2, <5>3
      <4> QED BY <4>1, <4>2
    <3>6. v \in Seq(t.live) /\ Len(v) >= 1 /\ v[1] = n
      BY <3>1, <3>3
    <3>7. t.link[turn[v[Len(v)]]][v[Len(v)]] = NULL
      BY <3>1, <3>4
    <3>8. Good(n, v)
      BY <3>5, <3>6, <3>7, Zenon
    <3> HIDE DEF Good
    <3> QED BY <2>1, <3>8
  <2> QED BY <2>2, <2>3
<1>5. P = t.live
  <2>1. P \subseteq t.live
    OBVIOUS
  <2>2. \A n \in t.live :
          (\A s \in Side : t.link[s][n] # NULL => t.link[s][n] \in P) => n \in P
    BY <1>4
  <2> HIDE DEF P
  <2>3. PICK lo, hi : Nested(t, N, pos, lo, hi)
    BY DEF Ranked
  <2> QED BY <2>1, <2>2, <2>3, ChildrenFirst DEF Ranked
<1>6. \A n \in t.live : Good(n, go[n])
  <2> HIDE DEF Good
  <2> QED BY <1>5
<1>7. ASSUME NEW n \in t.live PROVE Good(n, Walk(t, n, turn))
  <2> HIDE DEF Good
  <2>1. Good(n, go[n]) /\ Walk(t, n, turn) = go[n]
    BY <1>1, <1>6
  <2> QED BY <2>1
<1> QED BY <1>7

\* Whoever has a node of the trail as its child comes before it on the trail.
LEMMA TrailChild ==
  ASSUME NEW t, NEW N, NEW pos, Ranked(t, N, pos),
         NEW turn, NEW M \in Nat, NEW c \in [1..M -> t.live], Trail(t, turn, c, M),
         c[1] = t.root, NEW j \in 1..M,
         NEW n \in t.live, NEW y \in Side, t.link[y][n] = c[j]
  PROVE  j - 1 \in 1..(M - 1) /\ n = c[j - 1] /\ y = turn[n]
<1>1. PICK lo, hi : Nested(t, N, pos, lo, hi)
  BY DEF Ranked
<1>2. t \in Tree /\ pos \in [Nodes -> Int] /\ NULL \notin t.live
  BY NullIsNoNode DEF Ranked, Tree
<1>3. c[j] \in t.live /\ c[j] # NULL
  BY <1>2
<1>4. t.parent[c[j]] = n
  BY <1>3, ChildApart
<1>5. j # 1
  <2> SUFFICES ASSUME j = 1 PROVE FALSE
    OBVIOUS
  <2>1. t.parent[t.root] = NULL
    BY <1>1, <1>2, <1>3 DEF Nested, Rooted
  <2> QED BY <2>1, <1>2, <1>4
<1>6. j - 1 \in 1..(M - 1) /\ (j - 1) + 1 = j /\ j - 1 \in 1..M
  BY <1>5
<1>7. turn[c[j - 1]] \in Side /\ t.link[turn[c[j - 1]]][c[j - 1]] = c[j]
  BY <1>6 DEF Trail
<1>8. c[j - 1] \in t.live
  BY <1>6
<1>9. n = c[j - 1] /\ y = turn[c[j - 1]]
  BY <1>1, <1>2, <1>3, <1>7, <1>8, ChildOnce
<1> QED BY <1>6, <1>9

\* What Front leaves are the entries before the last.
LEMMA FrontIs ==
  ASSUME NEW S, NEW c \in Seq(S), Len(c) >= 1
  PROVE  ToSet(Front(c)) = {c[i] : i \in 1..(Len(c) - 1)}
<1> DEFINE d == SubSeq(c, 1, Len(c) - 1)
<1>1. Len(c) \in Nat
  OBVIOUS
<1>2. Len(d) = Len(c) - 1 /\ d \in Seq(S) /\ \A i \in 1..(Len(c) - 1) : d[i] = c[i]
  <2>1. CASE Len(c) = 1
    <3>1. d = <<>>
      BY <2>1, SubSeqEmpty
    <3> HIDE DEF d
    <3> QED BY <2>1, <3>1
  <2>2. CASE Len(c) > 1
    <3>1. /\ d \in Seq(S) /\ Len(d) = (Len(c) - 1) - 1 + 1
          /\ \A i \in 1..((Len(c) - 1) - 1 + 1) : d[i] = c[1 + i - 1]
      BY <1>1, <2>2, SubSeqProperties
    <3>2. (Len(c) - 1) - 1 + 1 = Len(c) - 1 /\ \A i \in Int : 1 + i - 1 = i
      BY <1>1
    <3> HIDE DEF d
    <3> QED BY <3>1, <3>2
  <2> HIDE DEF d
  <2>3. Len(c) = 1 \/ Len(c) > 1
    BY <1>1
  <2> QED BY <2>1, <2>2, <2>3, Zenon
<1>3. Front(c) = d
  BY DEF Front
<1> HIDE DEF d
<1>4. DOMAIN d = 1..(Len(c) - 1)
  BY <1>1, <1>2
<1>5. ToSet(d) = {d[i] : i \in 1..(Len(c) - 1)}
  BY <1>4 DEF ToSet
<1>6. {d[i] : i \in 1..(Len(c) - 1)} = {c[i] : i \in 1..(Len(c) - 1)}
  BY <1>2
<1> QED BY <1>3, <1>5, <1>6

\* What of a path lies below its entry at i, with the new node at its end.
NewBelow(path, i, x) == SubSeq(path, i + 1, Len(path)) \o <<x>>

\* c is made of the entries of the path behind the one at i, and x.
EndsWith(path, i, x, c) ==
  /\ Len(c) = Len(path) - i + 1
  /\ \A j \in 1..(Len(path) - i) : c[j] = path[i + j]
  /\ c[Len(path) - i + 1] = x

\* NewBelow is such a sequence.
LEMMA BelowIs ==
  ASSUME NEW S, NEW path \in Seq(S), NEW qi \in 0..Len(path), NEW x
  PROVE  NewBelow(path, qi, x) \in Seq(S \cup {x}) /\ EndsWith(path, qi, x, NewBelow(path, qi, x))
<1> DEFINE L == Len(path)
           rest == SubSeq(path, qi + 1, L)
           last == <<x>>
           below == rest \o last
<1>1. L \in Nat /\ qi \in Int /\ 0 <= qi /\ qi <= L
  OBVIOUS
<1>2. rest \in Seq(S) /\ Len(rest) = L - qi /\ \A i \in 1..(L - qi) : rest[i] = path[qi + i]
  <2>1. qi + 1 \in 1..(L + 1)
    BY <1>1
  <2>2. CASE qi = L
    <3>1. rest = <<>>
      BY <1>1, <2>2, SubSeqEmpty
    <3> HIDE DEF rest
    <3> QED BY <1>1, <2>2, <3>1
  <2>3. CASE qi < L
    <3>1. /\ rest \in Seq(S) /\ Len(rest) = L - (qi + 1) + 1
          /\ \A i \in 1..(L - (qi + 1) + 1) : rest[i] = path[(qi + 1) + i - 1]
      BY <1>1, <2>3, SubSeqProperties
    <3>2. L - (qi + 1) + 1 = L - qi /\ \A i \in Int : (qi + 1) + i - 1 = qi + i
      BY <1>1
    <3> HIDE DEF rest, L
    <3> QED BY <3>1, <3>2
  <2> QED BY <1>1, <2>2, <2>3
<1>3. last \in Seq({x}) /\ Len(last) = 1 /\ last[1] = x
  BY OneSeq
<1>4. rest \in Seq(S \cup {x}) /\ last \in Seq(S \cup {x})
  <2> HIDE DEF rest, last
  <2> QED BY <1>2, <1>3
<1>5. /\ below \in Seq(S \cup {x}) /\ Len(below) = Len(rest) + Len(last)
      /\ \A i \in 1..(Len(rest) + Len(last)) :
           below[i] = IF i <= Len(rest) THEN rest[i] ELSE last[i - Len(rest)]
  <2> HIDE DEF rest, last
  <2> QED BY <1>4, ConcatProperties
<1> HIDE DEF below, last, rest, L
<1>6. Len(below) = L - qi + 1
  BY <1>2, <1>3, <1>5
<1>7. \A i \in 1..(L - qi) : below[i] = path[qi + i]
  BY <1>1, <1>2, <1>3, <1>5
<1>8. below[L - qi + 1] = x
  <2>1. L - qi + 1 \in 1..(L - qi + 1) /\ ~(L - qi + 1 <= L - qi) /\ L - qi + 1 - (L - qi) = 1
    BY <1>1
  <2> QED BY <2>1, <1>2, <1>3, <1>5
<1>9. NewBelow(path, qi, x) = below
  BY DEF NewBelow, below, last, rest, L
<1>10. L = Len(path)
  BY DEF L
<1>11. EndsWith(path, qi, x, below)
  BY <1>6, <1>7, <1>8, <1>10 DEF EndsWith
<1> QED BY <1>5, <1>9, <1>11

\* Every node of a trail but the last leans to the next one after Lean.
LEMMA LeanTilts ==
  ASSUME NEW t, NEW N, NEW pos, Ranked(t, N, pos), NEW turn,
         NEW below \in Seq(t.live), Len(below) >= 1, Trail(t, turn, below, Len(below)),
         NEW y \in Side, NEW n \in Nodes
  PROVE  /\ Lean(t, below).link = t.link
         /\ n \in {below[i] : i \in 1..(Len(below) - 1)} => Tilt(Lean(t, below), turn[n], n) = 1
         /\ n \notin {below[i] : i \in 1..(Len(below) - 1)}
              => Tilt(Lean(t, below), y, n) = Tilt(t, y, n)
<1>1. PICK lo, hi : Nested(t, N, pos, lo, hi)
  BY DEF Ranked
<1>2. t \in Tree /\ pos \in [Nodes -> Int] /\ NULL \notin t.live /\ t.live \subseteq Nodes
  BY NullIsNoNode DEF Ranked, Tree
<1>3. PICK u : u = Lean(t, below)
  OBVIOUS
<1> DEFINE F == {below[i] : i \in 1..(Len(below) - 1)}
<1>4. ToSet(Front(below)) = F
  BY FrontIs
<1>5. /\ u.link = t.link
      /\ u.bal[n] = IF n \in F
                    THEN IF \E i \in 1..(Len(below) - 1) :
                              below[i] = n /\ t.link["rlink"][n] = below[i + 1]
                         THEN 1 ELSE -1
                    ELSE t.bal[n]
  <2> HIDE DEF F
  <2> QED BY <1>2, <1>3, <1>4, LeanFields
<1>6. ASSUME n \in F PROVE Tilt(u, turn[n], n) = 1
  <2>1. PICK j \in 1..(Len(below) - 1) : n = below[j]
    BY <1>6
  <2>2. turn[n] \in Side /\ t.link[turn[n]][n] = below[j + 1]
    BY <2>1 DEF Trail
  <2>3. CASE turn[n] = "rlink"
    <3>1. u.bal[n] = 1
      BY <1>5, <1>6, <2>1, <2>2, <2>3
    <3> QED BY <3>1, <2>3 DEF Tilt
  <2>4. CASE turn[n] = "llink"
    <3>1. ASSUME NEW i \in 1..(Len(below) - 1), below[i] = n, t.link["rlink"][n] = below[i + 1]
          PROVE  FALSE
      <4>1. t.link[turn[n]][n] = below[i + 1]
        BY <3>1 DEF Trail
      <4>2. below[i + 1] \in t.live /\ n \in t.live
        BY <2>1
      <4>3. t.link["llink"][n] = t.link["rlink"][n] /\ t.link["rlink"][n] # NULL
        BY <4>1, <4>2, <3>1, <2>4, <1>2
      <4>4. "llink" \in Side /\ "rlink" \in Side
        BY DEF Side
      <4>5. "llink" = "rlink"
        BY <4>2, <4>3, <4>4, <1>1, <1>2, ChildOnce
      <4> QED BY <4>5
    <3>2. u.bal[n] = -1
      BY <1>5, <1>6, <3>1
    <3>3. Tilt(u, turn[n], n) = -u.bal[n]
      BY <2>4, Zenon DEF Tilt
    <3> HIDE DEF F
    <3>4. \A b \in Int : b + 1 = 0 => -b = 1
      OBVIOUS
    <3>5. u.bal[n] \in Int /\ u.bal[n] + 1 = 0
      BY <3>2
    <3> QED BY <3>2, <3>3, <3>4, <3>5, Zenon
  <2> QED BY <2>2, <2>3, <2>4 DEF Side
<1>7. ASSUME n \notin F PROVE Tilt(u, y, n) = Tilt(t, y, n)
  BY <1>5, <1>7 DEF Tilt
<1> QED BY <1>3, <1>5, <1>6, <1>7

\* n is the entry of the path at i or below it.
OnWay(path, i, n) == \E j \in 1..Len(path) : i <= j /\ path[j] = n

\* The path goes from the root, by turn, to a node without a child on that side.
DownTo(t, turn, path) ==
  LET L == Len(path)
  IN  /\ path \in Seq(t.live) /\ L >= 1 /\ path[1] = t.root
      /\ Trail(t, turn, path, L)
      /\ turn[path[L]] \in Side /\ t.link[turn[path[L]]][path[L]] = NULL

\* u is t with x hung below the end of the path.
Hung(t, turn, path, x, u) ==
  /\ x \notin t.live /\ u.live = t.live \cup {x}
  /\ \A y \in Side :
       /\ u.link[y][x] = NULL
       /\ \A n \in t.live :
            u.link[y][n] = IF n = path[Len(path)] /\ y = turn[n] THEN x ELSE t.link[y][n]

\* The heights after that, if those of the nodes from i on in the path grow.
Lifted(t, h, path, i, x, g) ==
  /\ g \in [Ptr -> Nat] /\ g[NULL] = 0 /\ g[x] = 1
  /\ \A n \in t.live : g[n] = IF OnWay(path, i, n) THEN h[n] + 1 ELSE h[n]

\* Only the child to which the path goes on from a node grows.
LEMMA LinkLifted ==
  ASSUME NEW t, NEW N, NEW pos, Ranked(t, N, pos), NEW turn, NEW path, DownTo(t, turn, path),
         NEW x, NEW u, Hung(t, turn, path, x, u), NEW qi \in 0..Len(path),
         NEW h \in [Ptr -> Nat], h[NULL] = 0, NEW g, Lifted(t, h, path, qi + 1, x, g),
         NEW n \in t.live, NEW y \in Side
  PROVE  g[u.link[y][n]] = IF y = turn[n] /\ OnWay(path, qi, n)
                           THEN h[t.link[y][n]] + 1 ELSE h[t.link[y][n]]
<1> DEFINE L == Len(path)
           d == t.link[y][n]
<1>1. t \in Tree /\ NULL \notin t.live /\ t.live \subseteq Nodes
  BY NullIsNoNode DEF Ranked, Tree
<1>2. d \in t.live \cup {NULL}
  BY LiveNeighbours
<1>3. /\ path \in Seq(t.live) /\ L \in Nat /\ L >= 1 /\ path[1] = t.root
      /\ Trail(t, turn, path, L)
      /\ turn[path[L]] \in Side /\ t.link[turn[path[L]]][path[L]] = NULL
  BY DEF DownTo
<1>4. path \in [1..L -> t.live]
  BY <1>3
<1>5. u.link[y][n] = IF n = path[L] /\ y = turn[n] THEN x ELSE d
  BY DEF Hung
<1>6. CASE n = path[L] /\ y = turn[n]
  <2>1. OnWay(path, qi, n)
    BY <1>3, <1>6 DEF OnWay
  <2>2. d = NULL /\ g[x] = 1
    BY <1>3, <1>6 DEF Lifted
  <2>3. g[u.link[y][n]] = 1 /\ h[d] = 0
    BY <1>5, <1>6, <2>2
  <2> HIDE DEF d
  <2> QED BY <1>6, <2>1, <2>3 DEF d
<1>7. CASE ~(n = path[L] /\ y = turn[n])
  <2>1. u.link[y][n] = d
    BY <1>5, <1>7
  <2>2. ASSUME y = turn[n], OnWay(path, qi, n)
        PROVE  d # NULL /\ OnWay(path, qi + 1, d)
    <3>1. PICK j \in 1..L : qi <= j /\ path[j] = n
      BY <2>2 DEF OnWay
    <3>2. j \in 1..(L - 1) /\ j + 1 \in 1..L /\ qi + 1 <= j + 1
      BY <3>1, <2>2, <1>3, <1>7
    <3>3. d = path[j + 1]
      BY <3>1, <3>2, <2>2, <1>3 DEF Trail
    <3>4. d \in t.live
      BY <3>2, <3>3, <1>4
    <3> QED BY <3>2, <3>3, <3>4, <1>1 DEF OnWay
  <2>3. ASSUME d # NULL, OnWay(path, qi + 1, d)
        PROVE  y = turn[n] /\ OnWay(path, qi, n)
    <3>1. PICK j \in 1..L : qi + 1 <= j /\ path[j] = d
      BY <2>3 DEF OnWay
    <3>2. j - 1 \in 1..(L - 1) /\ n = path[j - 1] /\ y = turn[n]
      BY <3>1, <1>3, <1>4, TrailChild
    <3>3. j - 1 \in 1..L /\ qi <= j - 1
      BY <3>1, <3>2, <1>3
    <3> QED BY <3>2, <3>3 DEF OnWay
  <2>4. d # NULL => g[d] = IF OnWay(path, qi + 1, d) THEN h[d] + 1 ELSE h[d]
    BY <1>2 DEF Lifted
  <2>5. d = NULL => g[d] = 0 /\ h[d] = 0
    BY DEF Lifted
  <2> HIDE DEF d
  <2>6. g[d] = IF y = turn[n] /\ OnWay(path, qi, n) THEN h[d] + 1 ELSE h[d]
    BY <2>2, <2>3, <2>4, <2>5, Zenon
  <2> QED BY <2>1, <2>6 DEF d
<1> QED BY <1>6, <1>7

\* u is t with x hung below the end of the path, and every node of the path
\* below the one at i leaning down it.
Leant(t, turn, path, i, x, u) ==
  /\ Hung(t, turn, path, x, u)
  /\ \A y \in Side : Tilt(u, y, x) = 0
  /\ \A n \in t.live :
       IF OnWay(path, i + 1, n) THEN turn[n] \in Side /\ Tilt(u, turn[n], n) = 1
       ELSE \A y \in Side : Tilt(u, y, n) = Tilt(t, y, n)

\* The part of the path below the pivot was balanced.
FlatBelow(t, path, i) == \A n \in t.live : OnWay(path, i + 1, n) => t.bal[n] = 0

\* The way from an entry is that entry and the way from the next.
LEMMA OnWayFrom ==
  ASSUME NEW S, NEW path \in Seq(S), NEW i \in 0..Len(path), NEW n
  PROVE  OnWay(path, i, n) <=> OnWay(path, i + 1, n) \/ (i # 0 /\ n = path[i])
<1>1. Len(path) \in Nat
  OBVIOUS
<1>2. ASSUME OnWay(path, i, n) PROVE OnWay(path, i + 1, n) \/ (i # 0 /\ n = path[i])
  BY <1>1, <1>2 DEF OnWay
<1>3. ASSUME OnWay(path, i + 1, n) PROVE OnWay(path, i, n)
  BY <1>1, <1>3 DEF OnWay
<1>4. ASSUME i # 0, n = path[i] PROVE OnWay(path, i, n)
  BY <1>1, <1>4 DEF OnWay
<1> QED BY <1>2, <1>3, <1>4

\* There are two sides.
LEMMA OtherSide ==
  ASSUME NEW s \in Side, NEW y \in Side
  PROVE  Other(s) \in Side /\ Other(s) # s /\ (y = s \/ y = Other(s)) /\ Other(Other(s)) = s
BY DEF Side, Other

\* A node that tilts to neither side has the balance 0.
LEMMA FlatTilt ==
  ASSUME NEW t, NEW s, NEW n, t.bal[n] \in Int
  PROVE  Tilt(t, s, n) = 0 <=> t.bal[n] = 0
BY DEF Tilt

\* Below the pivot, and beside the path, every node is in balance again.
LEMMA GrownEven ==
  ASSUME NEW t, NEW N, NEW pos, Ranked(t, N, pos), NEW h, Level(t, h),
         NEW turn, NEW path, DownTo(t, turn, path), NEW i \in 0..Len(path),
         NEW x \in Nodes, NEW u, NEW M, NEW pos2, Ranked(u, M, pos2),
         Leant(t, turn, path, i, x, u), FlatBelow(t, path, i),
         NEW g, Lifted(t, h, path, i + 1, x, g),
         NEW n \in u.live, i # 0 => n # path[i]
  PROVE  Even(u, g, n)
<1>1. /\ Hung(t, turn, path, x, u) /\ u.live = t.live \cup {x}
      /\ h \in [Ptr -> Nat] /\ h[NULL] = 0
      /\ g \in [Ptr -> Nat] /\ g[NULL] = 0
      /\ path \in Seq(t.live)
  BY DEF Leant, Hung, Level, Lifted, DownTo
<1>2. CASE n = x
  <2>1. /\ u.link["llink"][x] = NULL /\ u.link[Other("llink")][x] = NULL
        /\ g[x] = 1 /\ Tilt(u, "llink", x) = 0
    BY DEF Leant, Hung, Lifted, Side, Other
  <2>2. /\ g[x] = 1 + Most(g[u.link["llink"][x]], g[u.link[Other("llink")][x]])
        /\ Tilt(u, "llink", x) = g[u.link["llink"][x]] - g[u.link[Other("llink")][x]]
        /\ Tilt(u, "llink", x) \in -1..1
    <3>1. 1 = 1 + Most(0, 0) /\ 0 = 0 - 0 /\ 0 \in -1..1
      BY DEF Most
    <3> QED BY <2>1, <3>1, <1>1
  <2>3. "llink" \in Side
    BY DEF Side
  <2> QED BY <1>1, <1>2, <2>2, <2>3, EvenByOneSide
<1>3. CASE n \in t.live
  <2>1. PICK s \in Side : OnWay(path, i + 1, n) => s = turn[n]
    <3>1. OnWay(path, i + 1, n) => turn[n] \in Side
      BY <1>3 DEF Leant
    <3>2. "llink" \in Side
      BY DEF Side
    <3> QED BY <3>1, <3>2
  <2>2. PICK z : z = Other(s)
    OBVIOUS
  <2>3. z \in Side /\ z # s
    BY <2>2, OtherSide
  <2> DEFINE a == h[t.link[s][n]]
             b == h[t.link[z][n]]
             on == OnWay(path, i + 1, n)
  <2>4. /\ a \in Nat /\ b \in Nat /\ h[n] \in Nat
        /\ h[n] = 1 + Most(a, b) /\ Tilt(t, s, n) = a - b /\ Tilt(t, s, n) \in -1..1
    <3>1. Even(t, h, n)
      BY <1>3 DEF Level
    <3> QED BY <3>1, <1>1, <1>3, <2>2, EvenByOneSide, SMTT(30)
  <2>5. OnWay(path, i, n) <=> on
    BY <1>1, OnWayFrom
  <2>6. g[n] = IF on THEN h[n] + 1 ELSE h[n]
    BY <1>3 DEF Lifted
  <2>7. g[u.link[s][n]] = IF s = turn[n] /\ on THEN a + 1 ELSE a
    BY <1>1, <1>3, <2>5, LinkLifted
  <2>8. g[u.link[z][n]] = IF z = turn[n] /\ on THEN b + 1 ELSE b
    BY <1>1, <1>3, <2>3, <2>5, LinkLifted
  <2>9. CASE on
    <3>1. s = turn[n] /\ z # turn[n]
      BY <2>1, <2>3, <2>9
    <3>2. t.bal[n] = 0
      BY <1>3, <2>9 DEF FlatBelow
    <3>3. Tilt(t, s, n) = 0
      <4>1. t.bal[n] \in Int
        BY <1>3, BalIsInt DEF Ranked, Tree
      <4> QED BY <3>2, <4>1, FlatTilt
    <3>4. Tilt(u, s, n) = 1
      BY <1>3, <2>9, <3>1 DEF Leant
    <3>5. g[n] = h[n] + 1 /\ g[u.link[s][n]] = a + 1 /\ g[u.link[z][n]] = b
      BY <2>6, <2>7, <2>8, <2>9, <3>1
    <3> HIDE DEF a, b, on
    <3>6. /\ h[n] + 1 = 1 + Most(a + 1, b) /\ 1 = (a + 1) - b /\ 1 \in -1..1
      BY <2>4, <3>3 DEF Most
    <3>7. /\ g[n] = 1 + Most(g[u.link[s][n]], g[u.link[z][n]])
          /\ Tilt(u, s, n) = g[u.link[s][n]] - g[u.link[z][n]]
          /\ Tilt(u, s, n) \in -1..1
      BY <3>4, <3>5, <3>6, Zenon
    <3> QED BY <1>1, <2>2, <3>7, EvenByOneSide
  <2>10. CASE ~on
    <3>1. Tilt(u, s, n) = Tilt(t, s, n)
      BY <1>3, <2>10 DEF Leant
    <3>2. g[n] = h[n] /\ g[u.link[s][n]] = a /\ g[u.link[z][n]] = b
      BY <2>6, <2>7, <2>8, <2>10
    <3> HIDE DEF a, b, on
    <3>3. /\ g[n] = 1 + Most(g[u.link[s][n]], g[u.link[z][n]])
          /\ Tilt(u, s, n) = g[u.link[s][n]] - g[u.link[z][n]]
          /\ Tilt(u, s, n) \in -1..1
      BY <2>4, <3>1, <3>2, Zenon
    <3> QED BY <1>1, <2>2, <3>3, EvenByOneSide
  <2> QED BY <2>9, <2>10
<1> QED BY <1>1, <1>2, <1>3

\* The pivot has one more level on the side of the path.
LEMMA GrownPivot ==
  ASSUME NEW t, NEW N, NEW pos, Ranked(t, N, pos), NEW h, Level(t, h),
         NEW turn, NEW path, DownTo(t, turn, path), NEW i \in 1..Len(path),
         NEW x \in Nodes, NEW u, NEW M, NEW pos2, Ranked(u, M, pos2),
         Leant(t, turn, path, i, x, u), FlatBelow(t, path, i),
         NEW g, Lifted(t, h, path, i + 1, x, g),
         t.bal[path[i]] # 0
  PROVE  turn[path[i]] \in Side /\ Grown(u, g, path[i], turn[path[i]])
<1> DEFINE L == Len(path)
<1>1. PICK q : q = path[i]
  OBVIOUS
<1>2. PICK s : s = turn[q]
  OBVIOUS
<1>3. /\ Hung(t, turn, path, x, u) /\ u.live = t.live \cup {x}
      /\ h \in [Ptr -> Nat] /\ h[NULL] = 0
      /\ g \in [Ptr -> Nat] /\ g[NULL] = 0 /\ g[x] = 1
      /\ path \in Seq(t.live) /\ L \in Nat
  BY DEF Leant, Hung, Level, Lifted, DownTo
<1>4. t \in Tree /\ NULL \notin t.live /\ t.live \subseteq Nodes /\ x # NULL /\ i \in 0..L /\ i # 0
  <2>1. t \in Tree /\ NULL \notin t.live /\ t.live \subseteq Nodes /\ x # NULL
    BY NullIsNoNode DEF Ranked, Tree
  <2> QED BY <2>1, <1>3
<1>5. q \in t.live
  BY <1>1, <1>3
<1>6. s \in Side
  <2>1. CASE i = L
    BY <2>1, <1>1, <1>2 DEF DownTo
  <2>2. CASE i # L
    <3>1. i \in 1..(L - 1)
      BY <1>3, <2>2
    <3> QED BY <3>1, <1>1, <1>2 DEF DownTo, Trail
  <2> QED BY <2>1, <2>2
<1>7. PICK z : z = Other(s)
  OBVIOUS
<1>8. z \in Side /\ z # s
  BY <1>6, <1>7, OtherSide
<1> DEFINE a == h[t.link[s][q]]
           b == h[t.link[z][q]]
           m == u.link[s][q]
<1>9. /\ a \in Nat /\ b \in Nat /\ h[q] \in Nat
      /\ h[q] = 1 + Most(a, b) /\ Tilt(t, s, q) = a - b /\ Tilt(t, s, q) \in -1..1
  <2>1. Even(t, h, q)
    BY <1>5 DEF Level
  <2> QED BY <2>1, <1>3, <1>5, <1>6, <1>7, EvenByOneSide, SMTT(30)
<1>10. OnWay(path, i, q)
  BY <1>1, <1>3, <1>4, OnWayFrom
<1>11. ~OnWay(path, i + 1, q)
  BY <1>1, <1>5 DEF FlatBelow
<1>12. g[q] = h[q]
  BY <1>5, <1>11 DEF Lifted
<1>13. g[m] = a + 1
  BY <1>2, <1>3, <1>4, <1>5, <1>6, <1>10, LinkLifted
<1>14. g[u.link[z][q]] = b
  BY <1>2, <1>3, <1>4, <1>5, <1>8, LinkLifted
<1>15. Tilt(u, s, q) = a - b
  BY <1>5, <1>6, <1>9, <1>11 DEF Leant
<1>16. a - b \in {-1, 1}
  <2>1. t.bal[q] # 0 /\ t.bal[q] \in Int
    BY <1>1, <1>4, <1>5, BalIsInt
  <2>2. Tilt(t, s, q) # 0
    BY <2>1 DEF Tilt
  <2> HIDE DEF a, b
  <2> QED BY <1>9, <2>2
<1>17. m # NULL
  BY <1>3, <1>9, <1>13
<1>18. ASSUME a - b = 1 PROVE Tilt(u, s, m) # 0
  <2>1. i # L
    <3>1. i = L => t.link[s][q] = NULL
      BY <1>1, <1>2 DEF DownTo
    <3>2. i = L => a = 0
      BY <3>1, <1>3
    <3> HIDE DEF a, b
    <3> QED BY <3>2, <1>9, <1>18
  <2>2. i \in 1..(L - 1) /\ i + 1 \in 1..L
    BY <2>1, <1>3, <1>4
  <2>3. t.link[s][q] = path[i + 1]
    BY <2>2, <1>1, <1>2 DEF DownTo, Trail
  <2>4. path[i + 1] \in t.live
    BY <2>2, <1>3
  <2>5. m = path[i + 1]
    <3>1. m = IF q = path[L] /\ s = turn[q] THEN x ELSE t.link[s][q]
      BY <1>3, <1>5, <1>6 DEF Hung
    <3>2. q # path[L]
      <4>1. q = path[L] => t.link[s][q] = NULL
        BY <1>2 DEF DownTo
      <4> QED BY <4>1, <2>3, <2>4, <1>4
    <3> QED BY <3>1, <3>2, <2>3
  <2>6. OnWay(path, i + 1, path[i + 1])
    BY <2>2 DEF OnWay
  <2>7. turn[m] \in Side /\ Tilt(u, turn[m], m) = 1
    BY <2>4, <2>5, <2>6 DEF Leant
  <2> HIDE DEF m
  <2>8. u.bal[m] # 0
    BY <2>7 DEF Tilt
  <2>9. u.bal[m] \in Int
    BY <2>4, <2>5, <1>3, <1>4, BalIsInt DEF Ranked
  <2> QED BY <2>8, <2>9 DEF Tilt
<1>19. \A y \in u.live : y # q => Even(u, g, y)
  BY <1>1, <1>4, GrownEven
<1>20. Grown(u, g, q, s)
  <2> DEFINE d == g[m] - 1 - g[u.link[z][q]]
  <2>1. d = a - b /\ g[m] - 1 = a
    <3> HIDE DEF a, b, m
    <3> QED BY <1>9, <1>13, <1>14
  <2>2. d \in {-1, 1} /\ Tilt(u, s, q) = d /\ (d = 1 => Tilt(u, s, m) # 0)
    BY <2>1, <1>15, <1>16, <1>18
  <2>3. g[q] = 1 + Most(g[m] - 1, g[u.link[z][q]])
    BY <2>1, <1>9, <1>12, <1>14
  <2> HIDE DEF a, b
  <2> QED BY <1>3, <1>7, <1>17, <1>19, <2>2, <2>3 DEF Grown
<1> QED BY <1>1, <1>2, <1>6, <1>20

\* The way goes on from every entry of the path, and from the last one to x.
LEMMA StepDown ==
  ASSUME NEW t, NEW N, NEW pos, Ranked(t, N, pos), NEW turn, NEW path, DownTo(t, turn, path),
         NEW x, NEW u, Hung(t, turn, path, x, u), NEW j \in 1..Len(path)
  PROVE  /\ turn[path[j]] \in Side
         /\ u.link[turn[path[j]]][path[j]] = IF j = Len(path) THEN x ELSE path[j + 1]
<1> DEFINE L == Len(path)
<1>1. /\ path \in Seq(t.live) /\ L \in Nat /\ Trail(t, turn, path, L)
      /\ turn[path[L]] \in Side /\ t.link[turn[path[L]]][path[L]] = NULL
  BY DEF DownTo
<1>2. NULL \notin t.live /\ path[j] \in t.live
  BY <1>1, NullIsNoNode DEF Ranked, Tree
<1>3. CASE j = L
  BY <1>1, <1>2, <1>3 DEF Hung
<1>4. CASE j # L
  <2>1. j \in 1..(L - 1) /\ j + 1 \in 1..L
    BY <1>1, <1>4
  <2>2. turn[path[j]] \in Side /\ t.link[turn[path[j]]][path[j]] = path[j + 1]
    BY <2>1, <1>1 DEF Trail
  <2>3. path[j + 1] \in t.live
    BY <2>1, <1>1
  <2>4. path[j] # path[L]
    <3>1. path[j] = path[L] => t.link[turn[path[j]]][path[j]] = NULL
      BY <1>1
    <3> QED BY <3>1, <2>2, <2>3, <1>2
  <2> QED BY <2>2, <2>4, <1>2, <1>4 DEF Hung
<1> QED BY <1>3, <1>4

\* So does what lies below the pivot, in the tree with the new node.
LEMMA BelowTrail ==
  ASSUME NEW t, NEW N, NEW pos, Ranked(t, N, pos), NEW turn, NEW path, DownTo(t, turn, path),
         NEW x, NEW u, Hung(t, turn, path, x, u), NEW i \in 0..Len(path)
  PROVE  LET below == NewBelow(path, i, x)
             F == {below[j] : j \in 1..(Len(below) - 1)}
         IN  /\ below \in Seq(u.live) /\ Len(below) >= 1
             /\ Trail(u, turn, below, Len(below))
             /\ \A n \in t.live : n \in F <=> OnWay(path, i + 1, n)
             /\ x \notin F
             /\ i # 0 => u.link[turn[path[i]]][path[i]] = below[1] /\ below[1] \in u.live
<1> DEFINE L == Len(path)
           below == NewBelow(path, i, x)
           F == {below[j] : j \in 1..(Len(below) - 1)}
<1>1. path \in Seq(t.live) /\ L \in Nat
  BY DEF DownTo
<1>2. /\ below \in Seq(t.live \cup {x}) /\ Len(below) = L - i + 1
      /\ \A j \in 1..(L - i) : below[j] = path[i + j]
      /\ below[L - i + 1] = x
  <2>1. below \in Seq(t.live \cup {x}) /\ EndsWith(path, i, x, below)
    BY <1>1, BelowIs
  <2> HIDE DEF below
  <2> QED BY <2>1 DEF EndsWith
<1> HIDE DEF below
<1>3. u.live = t.live \cup {x} /\ x \notin t.live
  BY DEF Hung
<1>4. L - i \in Nat /\ Len(below) - 1 = L - i
  BY <1>1, <1>2
<1>5. ASSUME NEW j \in 0..(L - i), i + j # 0
      PROVE  /\ turn[path[i + j]] \in Side
             /\ u.link[turn[path[i + j]]][path[i + j]] = below[j + 1]
  <2>1. i + j \in 1..L
    BY <1>1, <1>4, <1>5
  <2>2. /\ turn[path[i + j]] \in Side
        /\ u.link[turn[path[i + j]]][path[i + j]] = IF i + j = L THEN x ELSE path[(i + j) + 1]
    BY <2>1, StepDown
  <2>3. below[j + 1] = IF i + j = L THEN x ELSE path[(i + j) + 1]
    <3>1. CASE i + j = L
      <4>1. j + 1 = L - i + 1
        BY <1>1, <3>1
      <4> QED BY <4>1, <3>1, <1>2
    <3>2. CASE i + j # L
      <4>1. j + 1 \in 1..(L - i) /\ i + (j + 1) = (i + j) + 1
        BY <1>1, <2>1, <3>2
      <4> QED BY <4>1, <3>2, <1>2
    <3> QED BY <3>1, <3>2
  <2> QED BY <2>2, <2>3
<1>6. Trail(u, turn, below, Len(below))
  <2> SUFFICES ASSUME NEW j \in 1..(L - i)
               PROVE  turn[below[j]] \in Side /\ u.link[turn[below[j]]][below[j]] = below[j + 1]
    BY <1>4 DEF Trail
  <2>1. j \in 0..(L - i) /\ i + j # 0 /\ below[j] = path[i + j]
    BY <1>1, <1>2
  <2> QED BY <2>1, <1>5
<1>7. ASSUME NEW n \in t.live
      PROVE  n \in F <=> OnWay(path, i + 1, n)
  <2>1. ASSUME NEW j \in 1..(L - i), n = below[j] PROVE OnWay(path, i + 1, n)
    <3>1. i + j \in 1..L /\ i + 1 <= i + j /\ path[i + j] = n
      BY <1>1, <1>2, <2>1
    <3> QED BY <3>1 DEF OnWay
  <2>2. ASSUME OnWay(path, i + 1, n) PROVE \E j \in 1..(L - i) : n = below[j]
    <3>1. PICK j \in 1..L : i + 1 <= j /\ path[j] = n
      BY <2>2 DEF OnWay
    <3>2. j - i \in 1..(L - i) /\ i + (j - i) = j
      BY <1>1, <3>1
    <3>3. below[j - i] = n
      BY <3>1, <3>2, <1>2
    <3> QED BY <3>2, <3>3
  <2> QED BY <2>1, <2>2, <1>4
<1>8. x \notin F
  <2>1. \A j \in 1..(L - i) : below[j] \in t.live
    <3> SUFFICES ASSUME NEW j \in 1..(L - i) PROVE below[j] \in t.live
      OBVIOUS
    <3>1. i + j \in 1..L /\ below[j] = path[i + j]
      BY <1>1, <1>2
    <3> QED BY <3>1, <1>1
  <2> QED BY <2>1, <1>3, <1>4
<1>9. i # 0 => u.link[turn[path[i]]][path[i]] = below[1] /\ below[1] \in u.live
  <2>1. below[1] \in u.live
    BY <1>2, <1>3, <1>4
  <2>2. 0 \in 0..(L - i) /\ i + 0 = i /\ 0 + 1 = 1
    BY <1>1, <1>4
  <2> QED BY <2>1, <2>2, <1>5
<1> QED BY <1>2, <1>3, <1>4, <1>6, <1>7, <1>8, <1>9 DEF below

\* Lean leaves the tree as the lemmas on its balance expect it.
LEMMA LeanLeans ==
  ASSUME NEW t, NEW N, NEW pos, Ranked(t, N, pos), NEW turn, NEW path, DownTo(t, turn, path),
         NEW x \in Nodes, NEW u, NEW M, NEW pos2, Ranked(u, M, pos2),
         Hung(t, turn, path, x, u), NEW i \in 0..Len(path),
         u.bal[x] = 0, \A n \in t.live : u.bal[n] = t.bal[n]
  PROVE  Leant(t, turn, path, i, x, Lean(u, NewBelow(path, i, x)))
<1> DEFINE below == NewBelow(path, i, x)
           F == {below[j] : j \in 1..(Len(below) - 1)}
<1>1. /\ below \in Seq(u.live) /\ Len(below) >= 1
      /\ Trail(u, turn, below, Len(below))
      /\ \A n \in t.live : n \in F <=> OnWay(path, i + 1, n)
      /\ x \notin F
  BY BelowTrail
<1>2. t.live \subseteq Nodes /\ u \in Tree
  BY DEF Ranked, Tree
<1> HIDE DEF below
<1>3. PICK v : v = Lean(u, below)
  OBVIOUS
<1>4. ASSUME NEW n \in Nodes, NEW y \in Side
      PROVE  /\ v.link = u.link
             /\ n \in F => Tilt(v, turn[n], n) = 1
             /\ n \notin F => Tilt(v, y, n) = Tilt(u, y, n)
  BY <1>1, <1>3, LeanTilts
<1>5. v.link = u.link
  BY <1>4 DEF Side
<1>6. v.live = u.live
  BY <1>2, <1>3, LeanFields
<1>7. Hung(t, turn, path, x, v)
  BY <1>5, <1>6 DEF Hung
<1> HIDE DEF F
<1>8. ASSUME NEW y \in Side PROVE Tilt(v, y, x) = 0
  <2>1. Tilt(v, y, x) = Tilt(u, y, x)
    BY <1>1, <1>4
  <2>2. Tilt(u, y, x) = 0
    <3>1. u.bal[x] \in Int
      BY BalIsInt
    <3> QED BY <3>1, FlatTilt
  <2> QED BY <2>1, <2>2
<1>9. ASSUME NEW n \in t.live, OnWay(path, i + 1, n)
      PROVE  turn[n] \in Side /\ Tilt(v, turn[n], n) = 1
  <2>1. Tilt(v, turn[n], n) = 1
    BY <1>1, <1>2, <1>4, <1>9 DEF Side
  <2>2. turn[n] \in Side
    <3>1. PICK j \in 1..Len(path) : path[j] = n
      BY <1>9 DEF OnWay
    <3> QED BY <3>1, StepDown
  <2> QED BY <2>1, <2>2
<1>10. ASSUME NEW n \in t.live, ~OnWay(path, i + 1, n), NEW y \in Side
       PROVE  Tilt(v, y, n) = Tilt(t, y, n)
  <2>1. Tilt(v, y, n) = Tilt(u, y, n)
    BY <1>1, <1>2, <1>4, <1>10
  <2>2. Tilt(u, y, n) = Tilt(t, y, n)
    BY DEF Tilt
  <2> QED BY <2>1, <2>2
<1>11. Leant(t, turn, path, i, x, v)
  BY <1>7, <1>8, <1>9, <1>10 DEF Leant
<1> QED BY <1>3, <1>11 DEF below

\* Heights that grow as the lemmas on the balance expect it.
LEMMA HeightsLift ==
  ASSUME NEW t, NEW N, NEW pos, Ranked(t, N, pos), NEW h \in [Ptr -> Nat], h[NULL] = 0,
         NEW path, NEW i, NEW x \in Nodes \ t.live
  PROVE  \E g : Lifted(t, h, path, i, x, g)
<1> DEFINE g == [y \in Ptr |-> IF y = x THEN 1
                              ELSE IF y \in t.live /\ OnWay(path, i, y) THEN h[y] + 1
                              ELSE h[y]]
<1>1. t.live \subseteq Nodes /\ NULL \notin Nodes /\ Nodes \subseteq Ptr /\ NULL \in Ptr
  BY NullIsNoNode DEF Ranked, Tree, Ptr
<1>2. g \in [Ptr -> Nat]
  OBVIOUS
<1>3. g[NULL] = 0 /\ g[x] = 1
  BY <1>1
<1>4. \A n \in t.live : g[n] = IF OnWay(path, i, n) THEN h[n] + 1 ELSE h[n]
  BY <1>1
<1> HIDE DEF g
<1> QED BY <1>2, <1>3, <1>4 DEF Lifted

\* The side on which RebalanceAt finds the new level is the side of the path.
LEMMA SideOf ==
  ASSUME NEW u, NEW M, NEW pos, Ranked(u, M, pos), NEW q \in u.live, NEW s \in Side,
         NEW m \in u.live, u.link[s][q] = m
  PROVE  (IF u.link["llink"][q] = m THEN "llink" ELSE "rlink") = s
<1>1. PICK lo, hi : Nested(u, M, pos, lo, hi)
  BY DEF Ranked
<1>2. u \in Tree /\ pos \in [Nodes -> Int] /\ m # NULL
  BY NullIsNoNode DEF Ranked, Tree
<1>3. CASE u.link["llink"][q] = m
  <2>1. "llink" \in Side /\ u.link[s][q] # NULL /\ u.link["llink"][q] = u.link[s][q]
    BY <1>2, <1>3 DEF Side
  <2>2. "llink" = s
    BY <2>1, <1>1, <1>2, ChildOnce
  <2> QED BY <2>2, <1>3
<1>4. CASE u.link["llink"][q] # m
  BY <1>4 DEF Side
<1> QED BY <1>3, <1>4

\* The pivot is the last entry of the path that leans.
LEMMA PivotIs ==
  ASSUME NEW t, NEW path \in Seq(t.live)
  PROVE  /\ Pivot(t, path) \in 0..Len(path) /\ FlatBelow(t, path, Pivot(t, path))
         /\ Pivot(t, path) # 0 => t.bal[path[Pivot(t, path)]] # 0
<1> DEFINE leaning == {i \in DOMAIN path : t.bal[path[i]] # 0}
<1>1. PICK qi : qi = Pivot(t, path)
  OBVIOUS
<1>2. qi = IF leaning = {} THEN 0 ELSE Max(leaning)
  BY <1>1 DEF Pivot
<1>3. leaning \subseteq 1..Len(path) /\ Len(path) \in Nat
  OBVIOUS
<1>4. \A j \in 1..Len(path) : j \in leaning <=> t.bal[path[j]] # 0
  OBVIOUS
<1> HIDE DEF leaning
<1>5. CASE leaning = {}
  <2>1. qi = 0
    BY <1>2, <1>5
  <2>2. FlatBelow(t, path, qi)
    BY <1>4, <1>5 DEF FlatBelow, OnWay
  <2>3. qi \in 0..Len(path)
    BY <2>1, <1>3
  <2> QED BY <2>1, <2>2, <2>3, <1>1
<1>6. CASE leaning # {}
  <2>1. qi \in leaning /\ \A j \in leaning : j <= qi
    BY <1>2, <1>3, <1>6, MaxIndex
  <2>2. qi \in 1..Len(path) /\ t.bal[path[qi]] # 0
    BY <2>1, <1>3, <1>4
  <2>3. FlatBelow(t, path, qi)
    <3> SUFFICES ASSUME NEW j \in 1..Len(path), qi + 1 <= j
                 PROVE  t.bal[path[j]] = 0
      BY DEF FlatBelow, OnWay
    <3>1. j \notin leaning
      BY <2>1, <2>2
    <3> QED BY <3>1, <1>4
  <2>4. qi \in 0..Len(path)
    BY <2>2, <1>3
  <2> QED BY <2>2, <2>3, <2>4, <1>1
<1> QED BY <1>5, <1>6

\* The walk of an insertion into a tree that is not empty goes down to the
\* place of the new node.
LEMMA InsertGoesDown ==
  ASSUME NEW t, NEW N, NEW pos, Ranked(t, N, pos), t.root \in t.live, NEW k,
         NEW turn, turn = [n \in t.live |-> InsertTurn(t, k, n)]
  PROVE  DownTo(t, turn, Walk(t, t.root, turn))
<1>1. PICK way \in [t.live -> Side] : way = turn
  BY DEF InsertTurn, Side
<1>2. DownTo(t, way, Walk(t, t.root, way))
  <2> DEFINE path == Walk(t, t.root, way)
  <2>1. /\ path \in Seq(t.live) /\ Len(path) >= 1 /\ path[1] = t.root
        /\ Trail(t, way, path, Len(path))
        /\ t.link[way[path[Len(path)]]][path[Len(path)]] = NULL
    BY WalkDescends
  <2> HIDE DEF path
  <2>2. path[Len(path)] \in t.live
    BY <2>1
  <2>3. way[path[Len(path)]] \in Side
    BY <2>2
  <2>4. DownTo(t, way, path)
    BY <2>1, <2>3 DEF DownTo
  <2> QED BY <2>4 DEF path
<1> QED BY <1>1, <1>2, Zenon

\* Without a pivot every node is in balance; otherwise the pivot has grown.
LEMMA LeanedLevels ==
  ASSUME NEW t, NEW N, NEW pos, Ranked(t, N, pos), NEW h, Level(t, h),
         NEW turn, NEW path, DownTo(t, turn, path),
         NEW x \in Nodes, NEW u, NEW M, NEW pos2, Ranked(u, M, pos2),
         NEW i \in 0..Len(path), Leant(t, turn, path, i, x, u), FlatBelow(t, path, i),
         i # 0 => t.bal[path[i]] # 0
  PROVE  \E g : IF i = 0 THEN Level(u, g)
                ELSE turn[path[i]] \in Side /\ Grown(u, g, path[i], turn[path[i]])
<1>1. x \in Nodes \ t.live /\ h \in [Ptr -> Nat] /\ h[NULL] = 0
  BY DEF Leant, Hung, Level
<1>2. PICK g : Lifted(t, h, path, i + 1, x, g)
  BY <1>1, HeightsLift
<1>3. CASE i = 0
  <2>1. \A n \in u.live : Even(u, g, n)
    BY <1>2, <1>3, GrownEven
  <2> QED BY <2>1, <1>2, <1>3 DEF Level, Lifted
<1>4. CASE i # 0
  <2>1. i \in 1..Len(path)
    <3>1. Len(path) \in Nat
      BY DEF DownTo
    <3> QED BY <3>1, <1>4
  <2> QED BY <2>1, <1>2, <1>4, GrownPivot
<1> QED BY <1>3, <1>4

\* An insertion into a balanced tree, with 0 where malloc left the balance of
\* the new node, leaves a balanced tree.
LEMMA InsertBalanced ==
  ASSUME NEW t, NEW N, NEW o, NEW pos, Typed(t), Shape(t, N, o, pos), Sorted(t, pos),
         IsBalanced(t), NEW x \in Nodes \ t.live, NEW k \in Keys, NEW f \in Fds
  PROVE  IsBalanced(hb_tree_insert(t, x, k, f, 0))
<1> DEFINE turn   == [n \in t.live |-> InsertTurn(t, k, n)]
           path   == Walk(t, t.root, turn)
           parent == IF path = <<>> THEN NULL ELSE Last(path)
           s      == IF parent = NULL THEN "llink" ELSE InsertTurn(t, k, parent)
           t1     == NewNode(t, x, k, f, 0, parent, s)
           qi     == Pivot(t, path)
           below  == SubSeq(path, qi + 1, Len(path)) \o <<x>>
           t2     == Lean(t1, below)
           q      == path[qi]
           side   == IF t2.link["llink"][q] = below[1] THEN "llink" ELSE "rlink"
           u      == hb_tree_insert(t, x, k, f, 0)
           p      == PlaceAt(t, pos, parent, s)
           o2     == WithNew(N, o, p, x)
           pos2   == Shifted(pos, p, x)
<1>1. /\ t \in Tree /\ t.live \subseteq Nodes /\ NULL \notin t.live /\ NULL \notin Nodes
      /\ Ranked(t, N, pos) /\ 0 \in Char
  BY KeysAreInts, ShapeIsRanked, NullIsNoNode DEF Char
<1>2. u = IF qi = 0 THEN t2 ELSE RebalanceAt(t2, q, side)
  BY DEF hb_tree_insert
<1>3. /\ path \in Seq(t.live) /\ s \in Side
      /\ \/ parent \in t.live /\ t.link[s][parent] = NULL
         \/ parent = NULL /\ t.root = NULL /\ t.live = {}
  BY InsertPlace
<1>4. ~t.fault /\ \E h : Level(t, h)
  BY <1>1, BalancedIsLevel
<1>5. below = NewBelow(path, qi, x)
  BY DEF NewBelow
<1>6. t.root \in t.live => DownTo(t, turn, path)
  BY <1>1, InsertGoesDown
<1>7. /\ qi \in 0..Len(path) /\ FlatBelow(t, path, qi)
      /\ qi # 0 => t.bal[q] # 0
  BY <1>3, PivotIs
<1>8. /\ path # <<>> => parent = Last(path)
      /\ parent \in t.live => s = turn[parent]
      /\ path = <<>> => parent = NULL
  BY <1>1
<1> HIDE DEF turn, path, parent, s, qi, below, q, side, u, p
<1>9. p \in 1..(N + 1) /\ Shape(t1, N + 1, o2, pos2)
  BY <1>1, <1>3, NewNodeShape DEF p
<1>10. /\ t1 \in Tree /\ t1.live = t.live \cup {x} /\ t1.fault = t.fault
       /\ \A y \in Nodes : t1.bal[y] = IF y = x THEN 0 ELSE t.bal[y]
       /\ \A y \in Side, n \in Nodes :
            t1.link[y][n] = IF n = x THEN NULL
                            ELSE IF n = parent /\ y = s THEN x
                            ELSE t.link[y][n]
  <2>1. parent \in Ptr
    BY <1>1, <1>3 DEF Ptr
  <2>2. t1 = NewNode(t, x, k, f, 0, parent, s)
    OBVIOUS
  <2> HIDE DEF t1
  <2> QED BY <2>1, <2>2, <1>1, <1>3, NewNodeFields
<1> HIDE DEF t1, o2, pos2
<1>11. Ranked(t1, N + 1, pos2)
  BY <1>9, <1>10 DEF Shape, Numbered, Ranked
<1>12. Rearranged(t1, t2, N + 1, pos2) /\ t2.fault = t1.fault
  BY <1>11, LeanRearranges
<1>13. Ranked(t2, N + 1, pos2) /\ t2.live = t.live \cup {x} /\ ~t2.fault
  BY <1>4, <1>10, <1>12 DEF Rearranged
<1>14. CASE t.root = NULL
  <2>1. t.live = {}
    BY <1>14, NoRootNoNode
  <2>2. path = <<>>
    BY <2>1, <1>3
  <2>3. qi = 0
    BY <2>2, <1>7
  <2>4. below = <<x>>
    BY <2>2, <2>3, ShortPath DEF below
  <2>5. /\ t2.link = t1.link /\ t2.bal[x] = 0
    <3>1. x \notin ToSet(Front(below))
      BY <2>4, ShortPath
    <3>2. /\ t2.link = t1.link
          /\ \A n \in Nodes : n \notin ToSet(Front(below)) => t2.bal[n] = t1.bal[n]
      BY <1>10, LeanFields
    <3> QED BY <3>1, <3>2, <1>10
  <2>6. \A y \in Side : t2.link[y][x] = NULL
    BY <2>5, <1>10
  <2> DEFINE g == [y \in Ptr |-> IF y = x THEN 1 ELSE 0]
  <2>7. g \in [Ptr -> Nat] /\ g[NULL] = 0 /\ g[x] = 1
    BY <1>1 DEF Ptr
  <2> HIDE DEF t2, g
  <2>8. Even(t2, g, x)
    <3>1. "llink" \in Side /\ Other("llink") \in Side
      BY DEF Side, Other
    <3>2. g[t2.link["llink"][x]] = 0 /\ g[t2.link[Other("llink")][x]] = 0
      BY <3>1, <2>6, <2>7
    <3>3. Tilt(t2, "llink", x) = 0
      <4>1. t2.bal[x] \in Int
        BY <2>5
      <4> QED BY <4>1, <2>5, FlatTilt
    <3>4. 1 = 1 + Most(0, 0) /\ 0 = 0 - 0 /\ 0 \in -1..1
      BY DEF Most
    <3>5. /\ g[x] = 1 + Most(g[t2.link["llink"][x]], g[t2.link[Other("llink")][x]])
          /\ Tilt(t2, "llink", x) = g[t2.link["llink"][x]] - g[t2.link[Other("llink")][x]]
          /\ Tilt(t2, "llink", x) \in -1..1
      BY <3>2, <3>3, <3>4, <2>7, Zenon
    <3>6. x \in t2.live
      BY <1>13
    <3> QED BY <3>1, <3>5, <3>6, <2>7, <1>13, EvenByOneSide
  <2>9. Level(t2, g)
    BY <2>1, <2>7, <2>8, <1>13 DEF Level
  <2> QED BY <2>3, <2>9, <1>2, <1>13, BalancedIsLevel DEF u
<1>15. CASE t.root # NULL
  <2>1. t.root \in t.live
    BY <1>15, NoRootNoNode
  <2>2. DownTo(t, turn, path)
    BY <2>1, <1>6
  <2>3. Len(path) \in Nat /\ Len(path) >= 1 /\ path[Len(path)] \in t.live
    BY <2>2 DEF DownTo
  <2>4. parent = path[Len(path)] /\ parent \in t.live /\ s = turn[parent]
    <3>1. path # <<>>
      BY <2>3
    <3> QED BY <3>1, <2>3, <1>8 DEF Last
  <2>5. Hung(t, turn, path, x, t1)
    <3>1. \A y \in Side : t1.link[y][x] = NULL
      BY <1>10
    <3>2. \A y \in Side, n \in t.live :
            t1.link[y][n] = IF n = path[Len(path)] /\ y = turn[n] THEN x ELSE t.link[y][n]
      BY <2>4, <1>1, <1>10
    <3> QED BY <3>1, <3>2, <1>10 DEF Hung
  <2>6. t1.bal[x] = 0 /\ \A n \in t.live : t1.bal[n] = t.bal[n]
    BY <1>1, <1>10
  <2>7. Leant(t, turn, path, qi, x, t2)
    BY <2>2, <2>5, <2>6, <1>1, <1>5, <1>7, <1>11, LeanLeans
  <2>8. t2.link = t1.link
    BY <1>10, LeanFields
  <2> HIDE DEF t2
  <2>9. PICK h : Level(t, h)
    BY <1>4
  <2>10. PICK g : IF qi = 0 THEN Level(t2, g)
                  ELSE turn[path[qi]] \in Side /\ Grown(t2, g, path[qi], turn[path[qi]])
    BY <2>2, <2>7, <2>9, <1>1, <1>7, <1>13, LeanedLevels DEF q
  <2>11. CASE qi = 0
    BY <2>10, <2>11, <1>2, <1>13, BalancedIsLevel DEF u
  <2>12. CASE qi # 0
    <3>1. qi \in 1..Len(path)
      BY <2>3, <2>12, <1>7
    <3>2. q \in t.live /\ q \in t2.live /\ q = path[qi]
      BY <3>1, <1>3, <1>13 DEF q
    <3>3. turn[q] \in Side /\ Grown(t2, g, q, turn[q])
      BY <3>2, <2>10, <2>12
    <3>4. t2.link[turn[q]][q] = below[1] /\ below[1] \in t2.live
      BY <3>2, <2>2, <2>5, <2>8, <2>12, <1>1, <1>5, <1>7, <1>10, <1>13, BelowTrail
    <3>5. side = turn[q]
      BY <3>2, <3>3, <3>4, <1>13, SideOf DEF side
    <3>6. u = RebalanceAt(t2, q, turn[q])
      BY <3>5, <2>12, <1>2
    <3>7. ~u.fault /\ \E g2 : Level(u, g2)
      BY <3>2, <3>3, <3>6, <1>13, RebalanceLevels
    <3>8. Ranked(u, N + 1, pos2)
      <4>1. Rearranged(t2, u, N + 1, pos2)
        BY <3>2, <3>3, <3>6, <1>13, RebalanceRearranges
      <4> QED BY <4>1 DEF Rearranged
    <3> QED BY <3>7, <3>8, BalancedIsLevel DEF u
  <2> QED BY <2>11, <2>12
<1> QED BY <1>14, <1>15

\* A step that adds a node is an insertion, and keeps a balanced tree balanced.
LEMMA StepKeepsBalance ==
  ASSUME BalJunk = {0}, SearchTree(tree), [Next]_tree, IsBalanced(tree),
         ~(tree'.live \subseteq tree.live)
  PROVE  IsBalanced(tree')
<1>1. PICK N, o, pos : Shape(tree, N, o, pos) /\ Sorted(tree, pos)
  BY DEF SearchTree
<1>2. Typed(tree) /\ tree \in Tree
  BY DEF SearchTree, Typed
<1>3. CASE UNCHANGED tree
  BY <1>3
<1>4. ASSUME NEW k \in Keys, Leave(k) PROVE FALSE
  <2> DEFINE u == hb_tree_remove(tree, k)
  <2>1. tree' = u
    BY <1>4 DEF Leave
  <2>2. IF Find(tree, k) = NULL THEN u = tree
        ELSE \E o2, pos2 : Removed(tree, u, N, o, pos[Find(tree, k)], o2, pos2)
    BY <1>1, <1>2, RemoveRemoves
  <2> HIDE DEF u
  <2>3. u.live \subseteq tree.live
    BY <2>2 DEF Removed
  <2> QED BY <2>1, <2>3
<1>5. ASSUME NEW k \in Keys, NEW f \in Fds, Enter(k, f) PROVE IsBalanced(tree')
  <2> DEFINE x == Min(Nodes \ tree.live)
  <2>1. x \in Nodes \ tree.live
    BY <1>2, <1>5, FreeNode DEF Enter
  <2>2. tree' = hb_tree_insert(tree, x, k, f, 0)
    BY <1>5 DEF Enter
  <2> HIDE DEF x
  <2> QED BY <2>1, <2>2, <1>1, <1>2, InsertBalanced
<1> QED BY <1>3, <1>4, <1>5 DEF Next

\* Over a heap that malloc hands out zeroed, every insertion into a balanced
\* tree leaves it balanced: the pivot found on the way down and the one single
\* or double rotation there restore every balance factor, and no step follows a
\* NULL link.  new_node never assigns bal, so another heap refutes it.
THEOREM InsertsKeepBalance ==
  ASSUME BalJunk = {0}
  PROVE  Spec => InsertKeepsBalance
<1>1. SearchTree(tree) /\ [Next]_tree
        => [IsBalanced(tree) /\ ~(tree'.live \subseteq tree.live) => IsBalanced(tree')]_tree
  BY StepKeepsBalance
<1> QED BY <1>1, StaysSearchTree, PTL DEF Spec, InsertKeepsBalance
===============================================================================
