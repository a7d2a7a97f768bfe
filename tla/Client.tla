------------------------------- MODULE Client -------------------------------
(***************************************************************************)
(* client.c, as far as the server can tell: one client per connection (a   *)
(* logout ends the connection and opens another).  Its reads take whole    *)
(* messages and show the first of what they took.  How it frames what it   *)
(* writes and reads byte by byte is left out.                              *)
(***************************************************************************)
EXTENDS Kernel

CONSTANTS
  Relogin,  \* when a name may be logged in with that another connection used:
            \* "any" time, once that one's client is "closing" it, or once the
            \* server has "closed" it
  Paced,    \* a client sends and logs out only when the server has read what
            \* it sent before: people are slow
  Creds,    \* the outcomes of AuthVerify the clients cause: BOOLEAN, or {TRUE}
            \* when everyone types the right password
  Manual    \* a client logs out only from its menu, with nothing unread

ASSUME ClientAssumption ==
  /\ Relogin \in {"any", "closing", "closed"}
  /\ Paced \in BOOLEAN /\ Creds \subseteq BOOLEAN /\ Manual \in BOOLEAN

VARIABLE mode  \* mode[c]: curr_state: initial, auth or message

ClientTypeOK == mode \in [Conns -> {"initial", "auth", "message"}]

ClientInit == mode = [c \in Conns |-> "initial"]

-----------------------------------------------------------------------------

Claims(c, u) == \E i \in DOMAIN sent[c] : sent[c][i].kind = "auth" /\ sent[c][i].name = u

MayClaim(c, u) ==
  \A d \in Conns \ {c} :
    Claims(d, u) => \/ Relogin = "any"
                    \/ Relogin = "closing" /\ closing[d] # "open"
                    \/ sock[d] = "closed"

InPace(c) == Paced => rd[c] = FrameLen * Len(sent[c])

startNewConnection(c) == connect(c) /\ UNCHANGED mode

\* INITIAL_STATE: name and password, right or wrong, are sent.
SendAuth(c) ==
  /\ mode[c] = "initial" /\ InPace(c)
  /\ \E u \in Users, good \in Creds :
       /\ MayClaim(c, u)
       /\ client_write(c, [kind |-> "auth", name |-> u, good |-> good])
  /\ mode' = [mode EXCEPT ![c] = "auth"]

\* One read: some of the waiting messages, of which the first is looked at.
Take(c) ==
  /\ closing[c] = "open"
  /\ \E n \in got[c] + 1 .. Len(out[c]) : got' = [got EXCEPT ![c] = n]
  /\ UNCHANGED <<sock, fd, rd, sent, arrived, closing, seen, hit, skerr, out, epollVars>>

\* AUTH_STATE: anything but "200" counts as a refusal.
ReadReply(c) ==
  /\ mode[c] = "auth"
  /\ Take(c)
  /\ mode' = [mode EXCEPT ![c] =
                IF out[c][got[c] + 1].kind = "200" THEN "message" ELSE "initial"]

\* MESSAGE_STATE, option 1.
SendChat(c) ==
  /\ mode[c] = "message" /\ InPace(c)
  /\ \E to \in Users : client_write(c, [kind |-> "chat", name |-> to, good |-> TRUE])
  /\ UNCHANGED mode

\* MESSAGE_STATE, option 2.
Receive(c) == mode[c] = "message" /\ Take(c) /\ UNCHANGED mode

\* MESSAGE_STATE, option 3; also the end of the client process in any state.
Close(c) ==
  /\ InPace(c)
  /\ Manual => mode[c] = "message" /\ got[c] = Len(out[c])
  /\ client_close(c)
  /\ UNCHANGED mode

ClientNext(c) ==
  \/ startNewConnection(c)
  \/ SendAuth(c)
  \/ ReadReply(c)
  \/ SendChat(c)
  \/ Receive(c)
  \/ Close(c)
=============================================================================
