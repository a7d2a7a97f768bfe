-------------------------- MODULE MCClientProcess --------------------------
(* A small instance of ClientProcess for TLC.                              *)
EXTENDS ClientProcess

\* The shortest message, and one that takes two reads.
MCSizes == {<<5, 1>>, <<5, 1100>>}

\* In the magic, between magic and length, around the header, at a read's end.
MCCuts == {5, 9, 12, 14, 1024}
=============================================================================
