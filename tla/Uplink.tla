------------------------------- MODULE Uplink -------------------------------
(***************************************************************************)
(* The bytes of one connection, from client to server: client.c writes its *)
(* frames, TCP delivers them in pieces, the event loop of server.c reads   *)
(* up to 1024 bytes per event into cdp->buff and decides, from             *)
(* buffer_used, offset and header.len, when it has a frame.  Server.tla    *)
(* counts in cells what this module counts in bytes.                       *)
(*                                                                         *)
(* The connection stays open, and the answers are read; logouts, errors    *)
(* and other connections are Server's.                                     *)
(***************************************************************************)
EXTENDS Wire, Sequences

CONSTANTS
  Logins,   \* lengths of name and password that people type
  Chats,    \* lengths of an addressee's name and of a message
  UserLen,  \* the length of this client's name, in the tree
  Cuts,     \* bound: TCP cuts the stream this far into a frame, or at its end
  MaxFrames \* bound: frames that the client writes

ASSUME UplinkAssumption ==
  /\ Logins \subseteq Short \X Short
  /\ Chats \subseteq Short \X Short
  /\ UserLen \in Short /\ Cuts \subseteq Nat /\ MaxFrames \in Nat

VARIABLES
  wrote,    \* the frames written, each with its place in the stream
  paced,    \* the client writes when the server has read what it wrote before
  arrived,  \* bytes that have reached the server's socket
  edge,     \* epoll has an event for the socket
  due,      \* events[n] is this socket's
  rd,       \* bytes the server has read
  cdp,      \* client_state, buffer_used, offset, and len of the decoded header
  handled,  \* the frames that were decoded, by number
  reply,    \* the answer on its way to the client
  mode,     \* curr_state of the client; dead after an overrun
  status    \* of the server: running, double_free, overrun

clientVars == <<wrote, mode, paced>>
vars == <<clientVars, arrived, edge, due, rd, cdp, handled, reply, status>>

Placed == [frame : Frames({"auth", "chat"}), good : BOOLEAN, at : Nat]

TypeOK ==
  /\ wrote \in Seq(Placed) /\ paced \in BOOLEAN
  /\ arrived \in Nat /\ rd \in Nat
  /\ edge \in BOOLEAN /\ due \in BOOLEAN
  /\ cdp \in [client_state : {"INITIAL", "AUTH", "MESSAGE"}, buffer_used : Nat,
              offset : {0, HeaderBytes}, len : Short]
  /\ handled \in Seq(Nat)
  /\ reply \in {"none", "200", "401"}
  /\ mode \in {"initial", "auth", "message", "dead"}
  /\ status \in {"running", "double_free", "overrun"}

\* CreateNewClient(); len is what the header says once offset is past it.
Fresh(state) == [client_state |-> state, buffer_used |-> 0, offset |-> 0, len |-> 0]

\* The socket is writable when it is added to epoll, hence the edge.
Init ==
  /\ wrote = <<>> /\ paced \in BOOLEAN
  /\ arrived = 0 /\ edge = TRUE /\ due = FALSE /\ rd = 0
  /\ cdp = Fresh("INITIAL")
  /\ handled = <<>> /\ reply = "none"
  /\ mode = "initial" /\ status = "running"

-----------------------------------------------------------------------------
(* The client.                                                             *)

End(w) == w.at + Bytes(w.frame)
Total  == IF wrote = <<>> THEN 0 ELSE End(wrote[Len(wrote)])

MayWrite == Len(wrote) < MaxFrames /\ (paced => rd = Total)

Put(f, good) == wrote' = Append(wrote, [frame |-> f, good |-> good, at |-> Total])

\* The frame is encoded into what was allocated for it, and written.  Past the
\* end of the allocation it is undefined: the client may die, and what it has
\* written by then may arrive.
Send(f, good, next) ==
  /\ Put(f, good)
  /\ mode' = next \/ (Bytes(f) > Allocated(f) /\ mode' = "dead")

SendAuth ==
  /\ mode = "initial" /\ MayWrite
  /\ \E l \in Logins, good \in BOOLEAN :
       Send([kind |-> "auth", a |-> l[1], b |-> l[2]], good, "auth")
  /\ UNCHANGED <<paced, arrived, edge, due, rd, cdp, handled, reply, status>>

SendChat ==
  /\ mode = "message" /\ MayWrite
  /\ \E l \in Chats : Send([kind |-> "chat", a |-> l[1], b |-> l[2]], TRUE, "message")
  /\ UNCHANGED <<paced, arrived, edge, due, rd, cdp, handled, reply, status>>

ReadReply ==
  /\ mode = "auth" /\ reply # "none"
  /\ mode' = IF reply = "200" THEN "message" ELSE "initial"
  /\ reply' = "none"
  /\ UNCHANGED <<wrote, paced, arrived, edge, due, rd, cdp, handled, status>>

-----------------------------------------------------------------------------
(* TCP and epoll.                                                          *)

CutPoints == {Total} \cup {wrote[i].at + k : i \in DOMAIN wrote, k \in Cuts}

Arrive ==
  /\ \E n \in CutPoints : arrived < n /\ n <= Total /\ arrived' = n
  /\ edge' = TRUE
  /\ UNCHANGED <<clientVars, due, rd, cdp, handled, reply, status>>

EpollWait ==
  /\ edge /\ ~due
  /\ edge' = FALSE /\ due' = TRUE
  /\ UNCHANGED <<clientVars, arrived, rd, cdp, handled, reply, status>>

-----------------------------------------------------------------------------
(* The event loop: one read per event, then the switch on client_state.    *)

BuffSize == 1024

ReadLen == IF arrived - rd < BuffSize THEN arrived - rd ELSE BuffSize

\* buffer_used after this read, and where cdp->buff starts in the stream.
Used  == cdp.buffer_used + ReadLen
Start == rd - cdp.buffer_used

\* The header that cdp->buff starts with is one that was written, as is its
\* magic; of a buffer that starts anywhere else neither is true.
AtStart   == {i \in DOMAIN wrote : wrote[i].at = Start}
Frame(i)  == wrote[i].frame

\* EAGAIN.
NothingRead ==
  /\ due /\ arrived = rd
  /\ due' = FALSE
  /\ UNCHANGED <<clientVars, arrived, edge, rd, cdp, handled, reply, status>>

DataEvent ==
  /\ due /\ arrived > rd
  /\ due' = FALSE
  /\ rd' = rd + ReadLen
  /\ UNCHANGED <<clientVars, arrived, edge>>

ShortHeader ==
  /\ DataEvent
  /\ Used < SIZE_HEADER /\ cdp.client_state # "AUTH"
  /\ cdp' = [cdp EXCEPT !.buffer_used = Used]
  /\ UNCHANGED <<handled, reply, status>>

\* decode_header() is due: the header is there, and was not decoded before.
HeaderDue == Used >= SIZE_HEADER /\ cdp.offset = 0

BadMagic ==
  /\ DataEvent
  /\ HeaderDue /\ AtStart = {}
  /\ status' = "double_free"
  /\ UNCHANGED <<cdp, handled, reply>>

\* The header of frame i is decoded now, or was before.
Decoded(i) == i \in AtStart /\ (HeaderDue \/ cdp.offset # 0)

\* Faulty variant: > for >=.
Complete_Strict(i) == Used > IF cdp.offset = 0 THEN HeaderLen(Frame(i)) ELSE cdp.len

Complete(i) == Used >= IF cdp.offset = 0 THEN HeaderLen(Frame(i)) ELSE cdp.len

Incomplete ==
  /\ DataEvent
  /\ \E i \in DOMAIN wrote :
       /\ Decoded(i) /\ ~Complete(i)
       /\ cdp' = [client_state |-> IF cdp.client_state = "INITIAL" THEN "AUTH"
                                   ELSE cdp.client_state,
                  buffer_used |-> Used, offset |-> HeaderBytes,
                  len |-> HeaderLen(Frame(i))]
  /\ UNCHANGED <<handled, reply, status>>

WholeFrame(i) ==
  /\ DataEvent
  /\ Decoded(i) /\ Complete(i)
  /\ handled' = Append(handled, i)

\* Faulty variant: the buffer is kept after a message.
Refreshed_Kept(state) == [cdp EXCEPT !.buffer_used = Used, !.client_state = state]

\* refreshClient(), resetClient(): the whole buffer is given up.
Refreshed(state) == Fresh(state)

\* decode_message_auth() and decodeMessageChat() trust the lengths in the frame.
OverRead(i) == Bytes(Frame(i)) > Used

\* Authenticate(), then "200" and MESSAGE_STATE or "401" and INITIAL_STATE.
Login(i) ==
  /\ WholeFrame(i) /\ cdp.client_state # "MESSAGE"
  /\ reply' = IF wrote[i].good THEN "200" ELSE "401"
  /\ cdp' = Refreshed(IF wrote[i].good THEN "MESSAGE" ELSE "INITIAL")
  /\ UNCHANGED status \/ (OverRead(i) /\ status' = "overrun")

\* decodeMessageChat(), updateBuff(), which allocates what the new header says,
\* and Write().
Forward(i) ==
  /\ WholeFrame(i) /\ cdp.client_state = "MESSAGE"
  /\ cdp' = Refreshed("MESSAGE")
  /\ LET new == Rewritten(Frame(i), UserLen)
     IN  \/ UNCHANGED status
         \/ (OverRead(i) \/ Bytes(new) > Allocated(new)) /\ status' = "overrun"
  /\ UNCHANGED reply

Event == \/ NothingRead \/ ShortHeader \/ BadMagic \/ Incomplete
         \/ \E i \in DOMAIN wrote : Login(i) \/ Forward(i)

Next ==
  /\ status = "running"
  /\ \/ SendAuth \/ SendChat \/ ReadReply
     \/ Arrive \/ EpollWait \/ Event

Spec == Init /\ [][Next]_vars

\* The network delivers and the loop turns; nobody has to write.
Running(A) == status = "running" /\ A

FairSpec == Spec /\ WF_vars(Running(Arrive)) /\ WF_vars(Running(EpollWait))
                 /\ WF_vars(Running(Event))

-----------------------------------------------------------------------------
(* Properties.                                                             *)

\* Frames whose lengths every buffer and field on the way can hold.
Fitting(f) == /\ Fits16(f) /\ Fits16(Rewritten(f, UserLen))
              /\ f.kind = "auth" => f.a + f.b <= 32

AllFitting == \A i \in DOMAIN wrote : Fitting(Frame(i))

\* The server decodes a frame only when it has read its last byte, although
\* header.len counts the padding of a struct and not what was encoded.
WholeFrames ==
  \A k \in DOMAIN handled :
    Fits16(Frame(handled[k])) => End(wrote[handled[k]]) <= rd

\* Names, passwords and messages of ordinary length make neither side write
\* or read past a buffer, in whatever pieces they come.
WithinBuffers == AllFitting => status # "overrun" /\ mode # "dead"

\* Once all that a paced client wrote has been read, all of it has been dealt
\* with: no frame is so short that it waits for bytes that never come, and the
\* server is in step with the next.
NothingHeld ==
  paced /\ AllFitting /\ rd = Total =>
    /\ cdp.buffer_used = 0 /\ status = "running"
    /\ wrote # <<>> => handled # <<>> /\ handled[Len(handled)] = Len(wrote)

F == INSTANCE Framing WITH written <- Len(wrote), dealt <- handled,
                           patient <- paced /\ AllFitting

\* server.c implements Framing: no frame is decoded twice or out of order, and
\* none of a paced client's is passed over.
ImplementsFraming == F!Spec

\* What a paced client writes, up to one read's worth, is dealt with, however
\* it is cut.  (Of a longer frame the rest may wait for an edge for ever.)
FramesHandled ==
  \A i \in 1 .. MaxFrames :
    (paced /\ Len(wrote) = i /\ AllFitting /\ Bytes(Frame(i)) <= BuffSize)
      ~> \E k \in DOMAIN handled : handled[k] = i

-----------------------------------------------------------------------------
(* What keeps these properties inductive.                                  *)

\* Frames lie in the stream one behind the other, and nothing is read that was
\* not written.
LayoutOK ==
  /\ \A i, j \in DOMAIN wrote : i < j => End(wrote[i]) <= wrote[j].at
  /\ \A i \in DOMAIN wrote : End(wrote[i]) <= Total
  /\ rd <= arrived /\ arrived <= Total
  /\ cdp.buffer_used <= rd

\* offset and len belong to the frame that cdp->buff starts with.
HeaderOK ==
  /\ cdp.offset # 0 => \E i \in AtStart : cdp.len = HeaderLen(Frame(i))
  /\ cdp.offset = 0 => cdp.buffer_used < SIZE_HEADER
  /\ cdp.offset = 0 => cdp.client_state # "AUTH"

\* What was dealt with lies before cdp->buff.
HandledOK ==
  \A k \in DOMAIN handled :
    handled[k] \in DOMAIN wrote /\ wrote[handled[k]].at < Start

\* The last frame was dealt with, or is the one that cdp->buff starts with.
Latest == F!Latest

InStep ==
  \/ cdp.buffer_used = 0 /\ rd = Total /\ Latest = Len(wrote)
  \/ /\ wrote # <<>> /\ Latest = Len(wrote) - 1
     /\ wrote[Len(wrote)].at = Start /\ rd < Total

PacedOK == paced /\ AllFitting => status = "running" /\ InStep

IInv == TypeOK /\ LayoutOK /\ HeaderOK /\ HandledOK /\ WholeFrames /\ WithinBuffers /\ PacedOK
=============================================================================
