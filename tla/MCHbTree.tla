------------------------------ MODULE MCHbTree ------------------------------
(* Small instances of HbTree for TLC.                                      *)
EXTENDS HbTree

\* What a node's bal may start as: the byte is not initialised.
FreshHeap == {0}      \* pages the kernel has just zeroed
UsedHeap  == -1..1    \* chunks that held something else before

\* The tree stores descriptors and never looks at them: any two are alike.
AnyFd == Permutations(Fds)

\* A balance that drifts after a removal from the right is followed this far
\* and no further; it would go on until the signed char wraps.
CONSTANT DriftBound

Tracked == \A n \in tree.live : tree.bal[n] \in -DriftBound..DriftBound

\* Logins and logouts in any order, a name any number of times.
MCSpec == Init /\ [][Tracked /\ Next]_tree

\* Every name is logged in at most once, and the logins come first: addresses
\* are handed out in order, so a hole in them tells that an entry has left.
Packed == \A n \in tree.live : \A m \in Nodes : m < n => m \in tree.live

WaveSpec ==
  Init /\ [][ /\ Tracked
              /\ \E k \in Keys :
                   \/ Leave(k)
                   \/ /\ Packed /\ Filed(tree, k) = <<>>
                      /\ \E f \in Fds : Enter(k, f) ]_tree
=============================================================================
