------------------------------- MODULE Framing -------------------------------
(***************************************************************************)
(* What a direction of a connection promises to the code that uses it: the *)
(* frames that were written are dealt with one by one, each at most once   *)
(* and in the order written; and if the writer is patient, none is passed  *)
(* over.  The abstract specification of Uplink.tla (what server.c makes of *)
(* a client's bytes) and of ClientProcess.tla (what client.c makes of the  *)
(* server's).                                                              *)
(***************************************************************************)
EXTENDS Integers, Sequences

VARIABLES
  written,  \* how many frames have been written on this connection
  dealt,    \* the numbers of those dealt with, in the order of dealing
  patient   \* each of them was taken before the next was written, and it
            \* was one that the format can carry

vars == <<written, dealt, patient>>

Init == written = 0 /\ dealt = <<>> /\ patient \in BOOLEAN

Latest == IF dealt = <<>> THEN 0 ELSE dealt[Len(dealt)]

Write == /\ written' = written + 1
         /\ patient' \in {patient, FALSE}
         /\ UNCHANGED dealt

Deal(i) == /\ Latest < i /\ i <= written
           /\ patient => i = Latest + 1
           /\ dealt' = Append(dealt, i)
           /\ UNCHANGED <<written, patient>>

\* A new connection takes the place of the old one.
Restart == Init'

Next == Write \/ Restart \/ \E i \in 1 .. written : Deal(i)

Spec == Init /\ [][Next]_vars
=============================================================================
