------------------------------ MODULE MCUplink ------------------------------
(* A small instance of Uplink for TLC.                                     *)
EXTENDS Uplink

\* The shortest, and one that is too long for the buffer of 48 bytes.
MCLogins == {<<1, 1>>, <<40, 5>>}

\* The shortest, one longer than a read, the longest that a client can send,
\* which a longer name of the sender makes too long, and one that wraps.
MCChats == {<<1, 1>>, <<1, 1100>>, <<1, 65518>>, <<1, 65530>>}

\* In the header, around both its lengths, in the strings, and at a read's end.
MCCuts == {3, 12, 15, 16, 17, 1024}
=============================================================================
