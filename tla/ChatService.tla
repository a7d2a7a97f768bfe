----------------------------- MODULE ChatService -----------------------------
(***************************************************************************)
(* What the server promises to people who log in once at a time: whoever   *)
(* is in session may send to whoever is, under the names they logged in    *)
(* with.  A message may be lost; one that arrives arrives once, in order,  *)
(* and nowhere else.  Server implements this (ImplementsService).          *)
(***************************************************************************)
EXTENDS Naturals, Sequences

CONSTANTS
  Conns,   \* connections
  Users,   \* names
  Nobody,  \* the name of a connection that is not logged in
  Places   \* the places of a message among all that its sender writes

VARIABLES
  session,  \* session[c]: who is logged in on c
  inbox     \* inbox[c]: what was written to c

vars == <<session, inbox>>

Init ==
  /\ session = [c \in Conns |-> Nobody]
  /\ inbox = [c \in Conns |-> <<>>]

\* What is said may not be heard.
Tell(c, m) == inbox' \in {inbox, [inbox EXCEPT ![c] = Append(@, m)]}

Online(u) == \E c \in Conns : session[c] = u

LogIn(c, u) ==
  /\ session[c] = Nobody /\ ~Online(u)
  /\ session' = [session EXCEPT ![c] = u]
  /\ Tell(c, [kind |-> "200"])

Refuse(c) ==
  /\ session[c] = Nobody
  /\ Tell(c, [kind |-> "401"])
  /\ UNCHANGED session

LogOut(c) ==
  /\ session[c] # Nobody
  /\ session' = [session EXCEPT ![c] = Nobody]
  /\ UNCHANGED inbox

\* Nothing of c's that was delivered, to whomever, comes from place k or later.
Newer(c, k) ==
  \A d \in Conns : \A i \in DOMAIN inbox[d] :
    inbox[d][i].kind = "chat" /\ inbox[d][i].id[1] = c => inbox[d][i].id[2] < k

Send(c, d, k) ==
  /\ session[c] # Nobody /\ session[d] # Nobody /\ Newer(c, k)
  /\ Tell(d, [kind |-> "chat", from |-> session[c], to |-> session[d], id |-> <<c, k>>])
  /\ UNCHANGED session

Next ==
  \E c \in Conns :
    \/ \E u \in Users : LogIn(c, u)
    \/ Refuse(c)
    \/ LogOut(c)
    \/ \E d \in Conns, k \in Places : Send(c, d, k)

Spec == Init /\ [][Next]_vars
=============================================================================
