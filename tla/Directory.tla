------------------------------ MODULE Directory ------------------------------
(***************************************************************************)
(* What the server needs of its table of logged-in users: a user may have  *)
(* any number of entries, each naming the descriptor of one login; a login *)
(* adds an entry, a logout takes one entry of that user away, and a lookup *)
(* returns the descriptor of some entry.  It is the abstract specification *)
(* of hb_tree.c; HbTree.tla is the detailed one.                           *)
(***************************************************************************)
EXTENDS Integers, Sequences, FiniteSets, SequencesExt

CONSTANTS
  Users,  \* the names a login may be filed under
  Fds,    \* the descriptors an entry may hold
  Pair    \* TRUE where no more than two entries are ever filed at once

VARIABLE
  dir     \* dir[u]: the descriptors filed under u, oldest first

Offline == -1  \* what a lookup of an absent name returns

TypeOK == dir \in [Users -> Seq(Fds)]

Init == dir = [u \in Users |-> <<>>]

Enter(u, f) == dir' = [dir EXCEPT ![u] = Append(@, f)]

Entries == UNION {{u} \X DOMAIN dir[u] : u \in Users}

\* A name may be filed several times, and which of its entries is met first is
\* not promised, except that of a pair it is the older one.
Met(u) == {i \in DOMAIN dir[u] : Pair => i = 1}

Leave(u) == \E i \in Met(u) : dir' = [dir EXCEPT ![u] = RemoveAt(@, i)]

Lookup(u) == IF dir[u] = <<>> THEN {Offline} ELSE {dir[u][i] : i \in Met(u)}

Next == \E u \in Users : Leave(u) \/ \E f \in Fds : Enter(u, f)

Spec == Init /\ [][Next]_dir
===============================================================================
