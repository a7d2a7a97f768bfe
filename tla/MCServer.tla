------------------------------ MODULE MCServer ------------------------------
(* Small instances of Server for TLC.                                      *)
EXTENDS Server, TLC

\* Connections are told apart by nothing but what they do; so are users.
Symmetric == Permutations(Conns) \cup Permutations(Users)

\* Of two connections one may send all its MaxFrames = 3 frames, a login and
\* two messages; the other then sends no third.
FrameBound == \A c, d \in Conns : c # d => Len(sent[c]) + Len(sent[d]) =< 5

\* The same for runs with fairness.
FrameBoundLive == \A c, d \in Conns : c # d => Len(sent[c]) + Len(sent[d]) =< 4
=============================================================================
