----------------------------- MODULE LoginProofs -----------------------------
(***************************************************************************)
(* Theorems about Server for clients that log in once at a time.  The      *)
(* entries of the tree are current, a message reaches the addressee only,  *)
(* no login frame, and so no password, is ever taken for a message, and    *)
(* the server implements ChatService.  What carries them is that a client  *)
(* waits for the answer to its login: the login is its last frame.         *)
(***************************************************************************)
EXTENDS ServiceProofs

PInv == CInv /\ OneLoginPending /\ ChatsAhead /\ NoLoginForwarded

-----------------------------------------------------------------------------
(* One connection at a time.                                               *)

LEMMA PTypes ==
  ASSUME PInv
  PROVE  /\ sock \in [Conns -> {"none", "backlog", "open", "closed"}]
         /\ sent \in [Conns -> Seq(Frames)]
         /\ closing \in [Conns -> {"open", "fin", "rst"}]
         /\ seen \in [Conns -> {"open", "fin", "rst"}]
         /\ out \in [Conns -> Seq(Messages)]
         /\ got \in [Conns -> Nat]
         /\ mode \in [Conns -> {"initial", "auth", "message"}]
         /\ cstate \in [Conns -> {"INITIAL", "AUTH", "MESSAGE"}]
         /\ start \in [Conns -> Nat]
         /\ FrameLen \in Nat /\ TypeOK /\ StreamsOK
         /\ \A c \in Conns : cstate[c] = "MESSAGE" => sock[c] = "open"
<1>1. TypeOK /\ StreamsOK /\ OpenOK /\ MessageOK
  BY DEF PInv, CInv, IInv, Inv
<1>2. QED
  BY <1>1, KernelAssumption DEF TypeOK, KernelTypeOK, ClientTypeOK, OpenOK, MessageOK

\* Nothing about d changes that a pending login depends on.
Same(d) ==
  /\ sock'[d] = sock[d] /\ sent'[d] = sent[d] /\ closing'[d] = closing[d]
  /\ seen'[d] = seen[d] /\ out'[d] = out[d] /\ got'[d] = got[d]
  /\ mode'[d] = mode[d] /\ cstate'[d] = cstate[d] /\ start'[d] = start[d]

LEMMA Monotone ==
  ASSUME NEW F \in Nat, NEW a \in Nat, NEW b \in Nat, a <= b
  PROVE  F * a <= F * b /\ F * a \in Nat /\ F * b \in Nat
BY SMT

LEMMA SameOK ==
  ASSUME NEW d \in Conns, Same(d), PendingOK(d), AheadOK(d)
  PROVE  PendingOK(d)' /\ AheadOK(d)'
BY DEF Same, PendingOK, AheadOK, Behind, Refused

\* No message is forwarded: what was is still what was sent.
LEMMA NoLoginKept ==
  ASSUME PInv,
         \A d \in Conns : \A i \in DOMAIN sent[d] : sent'[d][i] = sent[d][i],
         \A d \in Conns : \A n \in Forwarded(d)' : n \in Forwarded(d)
  PROVE  NoLoginForwarded'
<1>1. SUFFICES ASSUME NEW d \in Conns, NEW n \in Forwarded(d)
               PROVE  sent'[n.id[1]][n.id[2]].kind = "chat"
  BY DEF NoLoginForwarded
<1>2. n.id[1] \in Conns
  BY ForwardedType DEF PInv, CInv, IInv, Inv
<1>3. /\ n.id[2] \in DOMAIN sent[n.id[1]]
      /\ sent[n.id[1]][n.id[2]].kind = "chat"
  BY <1>1 DEF PInv, NoLoginForwarded, CInv, FInv, SenderAuthentic
<1>4. QED
  BY <1>2, <1>3

\* A step of one connection that forwards nothing.
LEMMA LocalPInv ==
  ASSUME PInv, CInv', NEW c \in Conns,
         \A d \in Conns \ {c} : Same(d),
         PendingOK(c)', AheadOK(c)',
         \A i \in DOMAIN sent[c] : sent'[c][i] = sent[c][i],
         \A d \in Conns : \A n \in Forwarded(d)' : n \in Forwarded(d)
  PROVE  PInv'
<1>1. \A d \in Conns \ {c} : PendingOK(d)' /\ AheadOK(d)'
  BY SameOK DEF PInv, OneLoginPending, ChatsAhead
<1>2. NoLoginForwarded'
  BY NoLoginKept DEF Same
<1>3. OneLoginPending' /\ ChatsAhead'
  BY <1>1, Zenon DEF OneLoginPending, ChatsAhead
<1>4. QED
  BY <1>2, <1>3 DEF PInv

LEMMA SilentPInv ==
  ASSUME PInv, CInv', NEW c \in Conns,
         \A d \in Conns \ {c} : Same(d),
         PendingOK(c)', AheadOK(c)', UNCHANGED out,
         \A i \in DOMAIN sent[c] : sent'[c][i] = sent[c][i]
  PROVE  PInv'
<1>1. \A d \in Conns : \A n \in Forwarded(d)' : n \in Forwarded(d)
  BY DEF Forwarded
<1>2. QED
  BY <1>1, LocalPInv

LEMMA InitPInv == Init => PInv
<1> SUFFICES ASSUME Init PROVE PInv
  OBVIOUS
<1>1. CInv
  BY InitCInv
<1>2. \A c \in Conns : /\ sock[c] = "none" /\ cstate[c] = "INITIAL" /\ mode[c] = "initial"
                       /\ out[c] = <<>> /\ sent[c] = <<>> /\ got[c] = 0 /\ start[c] = 0
                       /\ seen[c] = "open"
  BY DEF Init, KernelInit, ClientInit
<1>3. \A c \in Conns : Len(sent[c]) = 0 /\ Len(out[c]) = 0 /\ Forwarded(c) = {}
  <2>1. Len(<<>>) = 0
    OBVIOUS
  <2>2. \A c \in Conns : Len(sent[c]) = 0 /\ Len(out[c]) = 0
    BY <1>2, <2>1, Zenon
  <2>3. \A c \in Conns : DOMAIN out[c] = {}
    BY <1>2
  <2>4. QED
    BY <2>2, <2>3 DEF Forwarded, ToSet
<1>4. FrameLen * 0 = 0 /\ FrameLen * 0 <= 0
  BY KernelAssumption
<1>5. OneLoginPending
  BY <1>2, <1>3, <1>4 DEF OneLoginPending, PendingOK, Behind
<1>6. ChatsAhead /\ NoLoginForwarded
  BY <1>2, <1>3 DEF ChatsAhead, AheadOK, NoLoginForwarded
<1>7. QED
  BY <1>1, <1>5, <1>6 DEF PInv

-----------------------------------------------------------------------------
(* Network and clients.                                                    *)

LEMMA QuietPInv ==
  ASSUME PInv, CInv',
         UNCHANGED <<sock, sent, closing, seen, out, got, mode, cstate, start>>
  PROVE  PInv'
<1>1. \A d \in Conns : PendingOK(d)' /\ AheadOK(d)'
  BY SameOK DEF PInv, OneLoginPending, ChatsAhead, Same
<1>2. OneLoginPending' /\ ChatsAhead'
  BY <1>1, Zenon DEF OneLoginPending, ChatsAhead
<1>3. \A d \in Conns : Forwarded(d)' = Forwarded(d)
  BY DEF Forwarded
<1>4. NoLoginForwarded'
  BY <1>3, NoLoginKept
<1>5. QED
  BY <1>2, <1>4 DEF PInv

LEMMA NetworkPInv ==
  ASSUME PInv, CInv', NEW c \in Conns, Network(c)
  PROVE  PInv'
<1>1. /\ UNCHANGED <<sock, sent, closing, out, got, mode, cstate, start>>
      /\ \/ UNCHANGED seen
         \/ /\ seen' = [seen EXCEPT ![c] = "fin"] \/ seen' = [seen EXCEPT ![c] = "rst"]
            /\ closing[c] # "open" \/ seen[c] = "fin"
  BY DEF Network, Arrive, FinArrive, RstArrive, serverVars, cdpVars
<1>2. CASE UNCHANGED seen
  BY <1>1, <1>2, QuietPInv
<1>3. CASE ~UNCHANGED seen
  <2>1. /\ \A d \in Conns \ {c} : seen'[d] = seen[d]
        /\ closing[c] # "open" \/ seen[c] = "fin"
    BY <1>1, <1>3, PTypes
  <2>2. closing[c] # "open"
    BY <2>1 DEF PInv, OneLoginPending, PendingOK
  <2>3. PendingOK(c)' /\ AheadOK(c)'
    BY <1>1, <2>2 DEF PInv, OneLoginPending, ChatsAhead, PendingOK, AheadOK, Behind
  <2>4. QED
    BY <1>1, <2>1, <2>3, SilentPInv DEF Same
<1>4. QED
  BY <1>2, <1>3

LEMMA ConnectPInv ==
  ASSUME PInv, CInv', NEW c \in Conns, startNewConnection(c), UNCHANGED serverVars
  PROVE  PInv'
<1>1. /\ sock[c] = "none" /\ sock'[c] = "backlog"
      /\ \A d \in Conns \ {c} : sock'[d] = sock[d]
      /\ UNCHANGED <<sent, closing, seen, out, got, mode, cstate, start>>
  BY PTypes DEF startNewConnection, connect, netVars, serverVars, cdpVars
<1>2. PendingOK(c)' /\ AheadOK(c)'
  BY <1>1 DEF PInv, OneLoginPending, ChatsAhead, PendingOK, AheadOK, Behind, Refused
<1>3. QED
  BY <1>1, <1>2, SilentPInv DEF Same

\* A login is written when the one before has been refused, a message when it
\* has been accepted.
LEMMA WritesPInv ==
  ASSUME PInv, CInv', NEW c \in Conns, Writes(c)
  PROVE  PInv'
<1>1. PICK f \in Frames :
        /\ client_write(c, f)
        /\ \/ mode[c] = "initial" /\ mode' = [mode EXCEPT ![c] = "auth"]
           \/ mode[c] = "message" /\ UNCHANGED mode /\ f.kind = "chat"
  <2>1. CASE SendAuth(c)
    <3>1. PICK u \in Users, good \in Creds :
            client_write(c, [kind |-> "auth", name |-> u, good |-> good])
      BY <2>1 DEF SendAuth
    <3>2. [kind |-> "auth", name |-> u, good |-> good] \in Frames
      BY ClientAssumption DEF Frames
    <3>3. QED
      BY <2>1, <3>1, <3>2 DEF SendAuth
  <2>2. CASE SendChat(c)
    <3>1. PICK to \in Users : client_write(c, [kind |-> "chat", name |-> to, good |-> TRUE])
      BY <2>2 DEF SendChat
    <3>2. [kind |-> "chat", name |-> to, good |-> TRUE] \in Frames
      BY DEF Frames
    <3>3. QED
      BY <2>2, <3>1, <3>2 DEF SendChat
  <2>3. QED
    BY <2>1, <2>2 DEF Writes
<1>2. /\ closing[c] = "open"
      /\ sent'[c] = Append(sent[c], f) /\ sent[c] \in Seq(Frames)
      /\ \A d \in Conns \ {c} : sent'[d] = sent[d] /\ mode'[d] = mode[d]
      /\ UNCHANGED <<sock, closing, seen, out, got, cstate, start>>
  BY <1>1, PTypes DEF client_write, Writes, serverVars, cdpVars
<1>3. /\ Len(sent[c]) \in Nat /\ Len(sent'[c]) = Len(sent[c]) + 1
      /\ DOMAIN sent[c] = 1 .. Len(sent[c])
      /\ DOMAIN sent'[c] = 1 .. Len(sent[c]) + 1
      /\ \A i \in 1 .. Len(sent[c]) : sent'[c][i] = sent[c][i]
      /\ sent'[c][Len(sent[c]) + 1] = f
  BY <1>2, AppendProperties
<1>4. PendingOK(c) /\ AheadOK(c)
  BY DEF PInv, OneLoginPending, ChatsAhead
<1>5. sock[c] # "closed" => (cstate[c] = "MESSAGE" <=> mode[c] = "message")
  <2>1. sock[c] # "closed" /\ cstate[c] # "MESSAGE" => mode[c] # "message"
    BY DEF PInv, CInv, FInv, LoginsFirst
  <2>2. QED
    BY <1>1, <1>2, <1>4, <2>1 DEF PendingOK
<1>6. PendingOK(c)'
  <2>1. CASE mode[c] = "message"
    <3>1. mode'[c] = "message"
      BY <1>1, <2>1
    <3>2. QED
      BY <1>2, <1>4, <1>5, <2>1, <3>1 DEF PendingOK
  <2>2. CASE mode[c] = "initial"
    <3>1. mode'[c] = "auth"
      BY <1>1, <2>2, PTypes
    <3>2. Len(sent'[c]) - 1 = Len(sent[c])
      BY <1>3
    <3>3. QED
      BY <1>2, <1>4, <1>5, <2>2, <3>1, <3>2 DEF PendingOK, Behind, Refused
  <2>3. QED
    BY <1>1, <2>1, <2>2
<1>7. AheadOK(c)'
  <2>1. SUFFICES ASSUME cstate[c] = "MESSAGE", NEW i \in DOMAIN sent'[c]
                 PROVE  sent'[c][i].kind = "chat" \/ Behind(c, i)'
    BY <1>2 DEF AheadOK
  <2>2. f.kind = "chat"
    BY <1>1, <1>5, <2>1, PTypes
  <2>3. CASE i = Len(sent[c]) + 1
    BY <1>3, <2>2, <2>3
  <2>4. CASE i \in DOMAIN sent[c]
    BY <1>2, <1>3, <1>4, <2>1, <2>4 DEF AheadOK, Behind
  <2>5. QED
    BY <1>3, <2>1, <2>3, <2>4
<1>8. QED
  BY <1>2, <1>3, <1>6, <1>7, SilentPInv DEF Same

LEMMA TakePInv ==
  ASSUME PInv, CInv', NEW c \in Conns, ReadReply(c) \/ Receive(c), UNCHANGED serverVars
  PROVE  PInv'
<1>1. PICK n \in got[c] + 1 .. Len(out[c]) : got' = [got EXCEPT ![c] = n]
  BY DEF ReadReply, Receive, Take
<1>2. /\ got'[c] = n /\ \A d \in Conns \ {c} : got'[d] = got[d] /\ mode'[d] = mode[d]
      /\ UNCHANGED <<sock, sent, closing, seen, out, cstate, start>>
      /\ got[c] \in Nat /\ Len(out[c]) \in Nat
  BY <1>1, PTypes DEF ReadReply, Receive, Take, serverVars, cdpVars
<1>3. PendingOK(c) /\ AheadOK(c)
  BY DEF PInv, OneLoginPending, ChatsAhead
<1>4. AheadOK(c)'
  BY <1>2, <1>3 DEF AheadOK, Behind
<1>5. PendingOK(c)'
  <2>1. CASE Receive(c)
    <3>1. mode[c] = "message" /\ mode'[c] = "message"
      BY <2>1 DEF Receive
    <3>2. QED
      BY <1>2, <1>3, <3>1 DEF PendingOK
  <2>2. CASE ReadReply(c)
    <3>1. /\ mode[c] = "auth"
          /\ mode'[c] = IF out[c][got[c] + 1].kind = "200" THEN "message" ELSE "initial"
      BY <2>2, PTypes DEF ReadReply
    <3>2. /\ got[c] # Len(out[c])
          /\ Refused(c) => /\ Behind(c, Len(sent[c])) /\ n = Len(out[c])
                           /\ out[c][got[c] + 1].kind = "401"
      BY <1>1, <1>2 DEF Refused
    <3>3. CASE cstate[c] = "MESSAGE"
      BY <1>2, <1>3, <3>1, <3>3 DEF PendingOK
    <3>4. CASE cstate[c] # "MESSAGE"
      <4>1. closing[c] = "open"
        BY <2>2 DEF ReadReply, Take
      <4>2. sock[c] # "closed" => Refused(c)
        BY <1>3, <3>1, <3>2, <3>4, <4>1 DEF PendingOK
      <4>3. sock[c] # "closed" =>
              /\ mode'[c] = "initial" /\ got'[c] = Len(out[c]) /\ Behind(c, Len(sent[c]))
        BY <1>2, <3>1, <3>2, <4>2
      <4>4. QED
        BY <1>2, <1>3, <3>4, <4>3 DEF PendingOK, Behind
    <3>5. QED
      BY <3>3, <3>4
  <2>3. QED
    BY <2>1, <2>2
<1>6. QED
  BY <1>2, <1>4, <1>5, SilentPInv DEF Same

LEMMA ClosePInv ==
  ASSUME PInv, CInv', NEW c \in Conns, Close(c), UNCHANGED serverVars
  PROVE  PInv'
<1>1. /\ closing'[c] # "open" /\ \A d \in Conns \ {c} : closing'[d] = closing[d]
      /\ UNCHANGED <<sock, sent, seen, out, got, mode, cstate, start>>
  BY PTypes DEF Close, client_close, serverVars, cdpVars
<1>2. PendingOK(c)' /\ AheadOK(c)'
  BY <1>1 DEF PInv, OneLoginPending, ChatsAhead, PendingOK, AheadOK, Behind
<1>3. QED
  BY <1>1, <1>2, SilentPInv DEF Same

-----------------------------------------------------------------------------
(* The server.                                                             *)

LEMMA AcceptPInv ==
  ASSUME PInv, CInv', NewUserHandler
  PROVE  PInv'
<1>1. PICK c \in Conns :
        /\ sock[c] = "backlog"
        /\ \/ UNCHANGED <<sock, cdpVars>>
           \/ sock' = [sock EXCEPT ![c] = "open"] /\ CreateNewClient(c)
  BY DEF NewUserHandler
<1>2. UNCHANGED <<sent, closing, seen, out, got, mode>>
  BY DEF NewUserHandler, netVars
<1>3. CASE UNCHANGED <<sock, cdpVars>>
  BY <1>2, <1>3, QuietPInv DEF cdpVars
<1>4. CASE sock' = [sock EXCEPT ![c] = "open"] /\ CreateNewClient(c)
  <2>1. PendingOK(c) /\ start[c] = 0 /\ cstate[c] = "INITIAL"
    BY <1>1 DEF PInv, OneLoginPending, PendingOK, CInv, FInv, LoginsFirst
  <2>2. /\ start'[c] = start[c] /\ cstate'[c] = cstate[c] /\ sock'[c] = "open"
        /\ \A d \in Conns \ {c} : /\ start'[d] = start[d] /\ cstate'[d] = cstate[d]
                                  /\ sock'[d] = sock[d]
    BY <1>4, <2>1, PTypes DEF CreateNewClient
  <2>3. PendingOK(c)' /\ AheadOK(c)'
    BY <1>1, <1>2, <2>1, <2>2 DEF PendingOK, AheadOK, Behind, Refused
  <2>4. QED
    BY <1>2, <2>2, <2>3, SilentPInv DEF Same
<1>5. QED
  BY <1>1, <1>3, <1>4

LEMMA EndsPInv ==
  ASSUME PInv, CInv', NEW c \in Conns, Ends(c)
  PROVE  PInv'
<1>1. /\ sock'[c] = "closed" /\ cstate'[c] = "INITIAL"
      /\ \A d \in Conns \ {c} : /\ start'[d] = start[d] /\ cstate'[d] = cstate[d]
                                /\ sock'[d] = sock[d]
      /\ UNCHANGED <<sent, closing, seen, out, got, mode>>
  BY PTypes DEF Ends, ErrorEvent, EndOfStream, Disconnect, closeConn, close, netVars
<1>2. PendingOK(c)' /\ AheadOK(c)'
  BY <1>1 DEF PInv, OneLoginPending, PendingOK, AheadOK
<1>3. QED
  BY <1>1, <1>2, SilentPInv DEF Same

LEMMA UndecodedPInv ==
  ASSUME PInv, CInv', NEW c \in Conns, NothingRead(c) \/ Incomplete(c) \/ BadMagic(c)
  PROVE  PInv'
<1>1. /\ UNCHANGED <<sock, sent, closing, seen, out, got, mode, start>>
      /\ \A d \in Conns \ {c} : cstate'[d] = cstate[d]
      /\ cstate'[c] = "MESSAGE" <=> cstate[c] = "MESSAGE"
  <2>1. CASE NothingRead(c) \/ BadMagic(c)
    BY <2>1 DEF NothingRead, BadMagic, DataEvent, netVars, serverVars, cdpVars
  <2>2. CASE Incomplete(c)
    BY <2>2, PTypes DEF Incomplete, DataEvent, netVars
  <2>3. QED
    BY <2>1, <2>2
<1>2. PendingOK(c) /\ AheadOK(c)
  BY DEF PInv, OneLoginPending, ChatsAhead
<1>3. PendingOK(c)'
  <2>1. CASE cstate[c] = "MESSAGE"
    BY <1>1, <1>2, <2>1 DEF PendingOK
  <2>2. CASE cstate[c] # "MESSAGE"
    BY <1>1, <1>2, <2>2 DEF PendingOK, Behind, Refused
  <2>3. QED
    BY <2>1, <2>2
<1>4. AheadOK(c)'
  BY <1>1, <1>2 DEF AheadOK, Behind
<1>5. QED
  BY <1>1, <1>3, <1>4, SilentPInv DEF Same

\* The login that is decoded is the one that was on its way, and the last frame.
LEMMA LoginIsLast ==
  ASSUME PInv, NEW c \in Conns, WholeFrame(c), cstate[c] # "MESSAGE"
  PROVE  /\ mode[c] = "auth" /\ ~Behind(c, Len(sent[c]))
         /\ NewRd(c) \in Nat
         /\ \A i \in 1 .. Len(sent[c]) : FrameLen * i <= NewRd(c)
         /\ FrameLen * Len(sent[c]) <= NewRd(c)
<1>1. TypeOK /\ StreamsOK /\ sock[c] = "open"
  BY DataInv, PTypes DEF WholeFrame, PInv, CInv, IInv
<1>2. /\ FrameNo(c) \in Nat /\ FrameNo(c) \in DOMAIN sent[c]
      /\ NewRd(c) \in Nat /\ FrameLen * FrameNo(c) <= NewRd(c)
      /\ \A j \in Nat : FrameLen * j <= start[c] => j < FrameNo(c)
  BY <1>1, WholeFramePlace
<1>3. sent[c] \in Seq(Frames) /\ Len(sent[c]) \in Nat /\ DOMAIN sent[c] = 1 .. Len(sent[c])
      /\ FrameLen \in Nat
  BY PTypes
<1>4. ~Behind(c, Len(sent[c]))
  BY <1>2, <1>3 DEF Behind
<1>5. mode[c] # "message" /\ mode[c] \in {"initial", "auth", "message"}
  BY <1>1, PTypes DEF PInv, CInv, FInv, LoginsFirst
<1>6. mode[c] = "auth" /\ Behind(c, Len(sent[c]) - 1)
  BY <1>1, <1>4, <1>5 DEF PInv, OneLoginPending, PendingOK
<1>7. FrameNo(c) = Len(sent[c])
  <2>1. Len(sent[c]) - 1 \in Nat
    BY <1>2, <1>3
  <2>2. Len(sent[c]) - 1 < FrameNo(c)
    BY <1>2, <1>6, <2>1 DEF Behind
  <2>3. QED
    BY <1>2, <1>3, <2>2
<1>8. ASSUME NEW i \in 1 .. Len(sent[c]) PROVE FrameLen * i <= NewRd(c)
  <2>1. i \in Nat /\ i <= FrameNo(c)
    BY <1>3, <1>7
  <2>2. FrameLen * i <= FrameLen * FrameNo(c) /\ FrameLen * i \in Nat
        /\ FrameLen * FrameNo(c) \in Nat
    BY <1>2, <1>3, <2>1, Monotone
  <2>3. QED
    BY <1>2, <2>2
<1>9. QED
  BY <1>2, <1>4, <1>6, <1>7, <1>8

\* An answer reaches a client that has not closed.
LEMMA Answered ==
  ASSUME PInv, NEW c \in Conns, NEW m \in Infos, Written(c, m), closing[c] = "open"
  PROVE  /\ WriteResult(c) = "written"
         /\ Len(out'[c]) = Len(out[c]) + 1 /\ Len(out[c]) \in Nat
         /\ out'[c][Len(out[c]) + 1] = m
<1>1. seen[c] = "open"
  BY DEF PInv, OneLoginPending, PendingOK
<1>2. skerr[c] = "none"
  BY <1>1, PTypes DEF StreamsOK, TypeOK, KernelTypeOK
<1>3. WriteResult(c) = "written"
  BY <1>1, <1>2 DEF WriteResult
<1>4. out[c] \in Seq(Messages) /\ m \in Messages
  BY PTypes DEF Messages
<1>5. out'[c] = Append(out[c], m)
  BY <1>3, PTypes DEF Written
<1>6. QED
  BY <1>3, <1>4, <1>5, AppendProperties

\* After an answer all that the client has sent lies behind, and the answer is
\* what it reads next.
LEMMA LoginPInv ==
  ASSUME PInv, CInv', NEW c \in Conns, Login(c)
  PROVE  PInv'
<1>1. /\ WholeFrame(c) /\ DataEvent(c) /\ cstate[c] # "MESSAGE"
      /\ Written(c, Info("200")) /\ Info("200") \in Infos /\ Info("200").kind = "200"
      /\ UNCHANGED <<sock, sent, closing, seen, got, mode>> /\ sock[c] = "open"
  BY DataInv DEF Login, WholeFrame, Info, Infos, Written, PInv, CInv, IInv
<1>2. /\ \A d \in Conns \ {c} : /\ cstate'[d] = cstate[d] /\ start'[d] = start[d]
                                /\ out'[d] = out[d]
      /\ cstate'[c] = IF WriteResult(c) = "failed" THEN "AUTH" ELSE "MESSAGE"
      /\ WriteResult(c) # "failed" => start'[c] = NewRd(c)
  BY <1>1, PTypes, OutStep DEF Login, Forget, Messages
<1>3. seen[c] # "open" => closing[c] # "open"
  BY DEF PInv, OneLoginPending, PendingOK
<1>4. AheadOK(c)'
  <2>1. SUFFICES ASSUME cstate'[c] = "MESSAGE", NEW i \in DOMAIN sent[c]
                 PROVE  FrameLen * i <= start'[c]
    BY <1>1 DEF AheadOK, Behind
  <2>2. start'[c] = NewRd(c)
    BY <1>2, <2>1
  <2>3. DOMAIN sent[c] = 1 .. Len(sent[c])
    BY PTypes
  <2>4. QED
    BY <1>1, <2>2, <2>3, LoginIsLast
<1>5. PendingOK(c)'
  <2>1. /\ mode[c] = "auth" /\ PendingOK(c) /\ ~Behind(c, Len(sent[c]))
    BY <1>1, LoginIsLast DEF PInv, OneLoginPending
  <2>2. cstate'[c] # "MESSAGE" => start'[c] = start[c]
    BY <1>2 DEF Login
  <2>3. closing[c] = "open" =>
          /\ cstate'[c] = "MESSAGE"
          /\ got[c] < Len(out'[c]) /\ out'[c][got[c] + 1].kind = "200"
    <3>1. SUFFICES ASSUME closing[c] = "open"
                   PROVE  /\ cstate'[c] = "MESSAGE"
                          /\ got[c] < Len(out'[c]) /\ out'[c][got[c] + 1].kind = "200"
      OBVIOUS
    <3>2. got[c] = Len(out[c])
      BY <1>1, <2>1, <3>1 DEF PendingOK, Refused
    <3>3. /\ WriteResult(c) = "written"
          /\ Len(out'[c]) = Len(out[c]) + 1 /\ Len(out[c]) \in Nat
          /\ out'[c][Len(out[c]) + 1] = Info("200")
      BY <1>1, <3>1, Answered
    <3>4. QED
      BY <1>1, <1>2, <3>2, <3>3
  <2>4. QED
    BY <1>1, <2>1, <2>2, <2>3 DEF PendingOK, Behind
<1>6. \A d \in Conns : \A n \in Forwarded(d)' : n \in Forwarded(d)
  BY <1>1, ForwardedStep, PTypes DEF Messages, Infos
<1>7. QED
  BY <1>1, <1>2, <1>4, <1>5, <1>6, LocalPInv DEF Same

LEMMA RefusePInv ==
  ASSUME PInv, CInv', NEW c \in Conns, Refuse(c)
  PROVE  PInv'
<1>1. /\ WholeFrame(c) /\ DataEvent(c) /\ cstate[c] # "MESSAGE"
      /\ Written(c, Info("401")) /\ Info("401") \in Infos /\ Info("401").kind = "401"
      /\ UNCHANGED <<sock, sent, closing, seen, got, mode>> /\ sock[c] = "open"
  BY DataInv DEF Refuse, WholeFrame, Info, Infos, Written, PInv, CInv, IInv
<1>2. /\ \A d \in Conns \ {c} : /\ cstate'[d] = cstate[d] /\ start'[d] = start[d]
                                /\ out'[d] = out[d]
      /\ cstate'[c] = "INITIAL" /\ start'[c] = NewRd(c)
  BY <1>1, PTypes, OutStep DEF Refuse, Forget, Messages
<1>3. AheadOK(c)'
  BY <1>2 DEF AheadOK
<1>4. PendingOK(c)'
  <2>1. /\ mode[c] = "auth" /\ PendingOK(c) /\ ~Behind(c, Len(sent[c]))
        /\ FrameLen * Len(sent[c]) <= NewRd(c)
    BY <1>1, LoginIsLast DEF PInv, OneLoginPending
  <2>2. Behind(c, Len(sent[c]) - 1)'
    <3>1. FrameNo(c) \in DOMAIN sent[c]
      BY <1>1, WholeFramePlace, PTypes
    <3>2. DOMAIN sent[c] = 1 .. Len(sent[c]) /\ Len(sent[c]) \in Nat
      BY PTypes
    <3>3. Len(sent[c]) \in 1 .. Len(sent[c])
      BY <3>1, <3>2
    <3>4. NewRd(c) \in Nat /\ \A i \in 1 .. Len(sent[c]) : FrameLen * i <= NewRd(c)
      BY <1>1, LoginIsLast
    <3>5. FrameLen * (Len(sent[c]) - 1) <= NewRd(c)
      <4>1. FrameLen * Len(sent[c]) <= NewRd(c)
        BY <3>3, <3>4
      <4>2. Len(sent[c]) - 1 \in Nat /\ Len(sent[c]) - 1 <= Len(sent[c])
        BY <3>2, <3>3
      <4>3. /\ FrameLen * (Len(sent[c]) - 1) <= FrameLen * Len(sent[c])
            /\ FrameLen * (Len(sent[c]) - 1) \in Nat /\ FrameLen * Len(sent[c]) \in Nat
        BY <3>2, <4>2, Monotone, PTypes
      <4>4. QED
        BY <3>4, <4>1, <4>3
    <3>6. QED
      BY <1>1, <1>2, <3>5 DEF Behind
  <2>3. closing[c] = "open" => Refused(c)'
    <3>1. SUFFICES ASSUME closing[c] = "open" PROVE Refused(c)'
      OBVIOUS
    <3>2. got[c] = Len(out[c])
      BY <1>1, <2>1, <3>1 DEF PendingOK, Refused
    <3>3. /\ Len(out'[c]) = Len(out[c]) + 1
          /\ out'[c][Len(out[c]) + 1] = Info("401")
      BY <1>1, <3>1, Answered
    <3>4. QED
      BY <1>1, <1>2, <2>1, <3>2, <3>3 DEF Refused, Behind
  <2>4. QED
    BY <1>1, <1>2, <2>1, <2>2, <2>3 DEF PendingOK
<1>5. \A d \in Conns : \A n \in Forwarded(d)' : n \in Forwarded(d)
  BY <1>1, ForwardedStep, PTypes DEF Messages, Infos
<1>6. QED
  BY <1>1, <1>2, <1>3, <1>4, <1>5, LocalPInv DEF Same

\* A message goes behind an answer that its receiver has yet to read.
LEMMA ReceiverOK ==
  ASSUME PInv, NEW d \in Conns, sock[d] = "open", user[d] \in Users,
         NEW m \in Messages, Written(d, m), UNCHANGED <<sock, mode, cstate>>,
         start'[d] = start[d] \/ cstate[d] = "MESSAGE"
  PROVE  PendingOK(d)'
<1>1. /\ PendingOK(d) /\ UNCHANGED <<sent, closing, seen, got>>
      /\ cstate[d] # "MESSAGE" => closing[d] # "open"
  <2>1. HalfLogin(d) => seen[d] = "rst"
    BY DEF PInv, CInv, IInv, HalfLoginReset
  <2>2. PendingOK(d)
    BY DEF PInv, OneLoginPending
  <2>3. QED
    BY <2>1, <2>2 DEF HalfLogin, PendingOK, Written
<1>2. CASE cstate[d] # "MESSAGE"
  BY <1>1, <1>2 DEF PendingOK, Behind
<1>3. CASE cstate[d] = "MESSAGE"
  <2>1. /\ \/ out'[d] = out[d]
           \/ /\ Len(out'[d]) = Len(out[d]) + 1
              /\ \A i \in DOMAIN out[d] : out'[d][i] = out[d][i]
        /\ DOMAIN out[d] = 1 .. Len(out[d]) /\ Len(out[d]) \in Nat
    BY OutStep, PTypes
  <2>2. got[d] \in Nat
    BY PTypes
  <2>3. got[d] < Len(out[d]) => /\ got[d] < Len(out'[d])
                                /\ out'[d][got[d] + 1] = out[d][got[d] + 1]
    <3>1. CASE out'[d] = out[d]
      BY <3>1
    <3>2. CASE out'[d] # out[d]
      <4>1. got[d] < Len(out[d]) => got[d] + 1 \in DOMAIN out[d]
        BY <2>1, <2>2
      <4>2. QED
        BY <2>1, <2>2, <3>2, <4>1
    <3>3. QED
      BY <3>1, <3>2
  <2>4. /\ cstate'[d] = "MESSAGE" /\ sock'[d] = sock[d] /\ mode'[d] = mode[d]
        /\ closing'[d] = closing[d] /\ seen'[d] = seen[d] /\ got'[d] = got[d]
    BY <1>1, <1>3
  <2>5. closing[d] = "open" =>
          /\ mode[d] # "initial"
          /\ mode[d] = "auth" => got[d] < Len(out[d]) /\ out[d][got[d] + 1].kind = "200"
    BY <1>1, <1>3 DEF PendingOK
  <2>6. mode[d] = "auth" /\ closing[d] = "open" =>
          got[d] < Len(out'[d]) /\ out'[d][got[d] + 1].kind = "200"
    BY <2>3, <2>5
  <2>7. (seen[d] # "open" => closing[d] # "open") /\ sock[d] = "open"
    BY <1>1 DEF PendingOK
  <2>8. QED
    BY <2>4, <2>5, <2>6, <2>7 DEF PendingOK
<1>4. QED
  BY <1>2, <1>3

LEMMA ForwardPInv ==
  ASSUME PInv, CInv', NEW c \in Conns, Forward(c)
  PROVE  PInv'
<1>1. /\ WholeFrame(c) /\ DataEvent(c) /\ cstate[c] = "MESSAGE" /\ sock[c] = "open"
      /\ UNCHANGED <<sock, cstate, mode>>
  BY DataInv DEF Forward, WholeFrame, PInv, CInv, IInv
<1>2. /\ start'[c] = NewRd(c) /\ start[c] <= NewRd(c) /\ start[c] \in Nat /\ NewRd(c) \in Nat
      /\ \A d \in Conns \ {c} : start'[d] = start[d]
  BY <1>1, WholeFramePlace, PTypes DEF Forward, Forget
<1>3. UNCHANGED <<sent, closing, seen, got>>
  BY DEF Forward, Written, netVars
<1>4. AheadOK(c)'
  <2>1. SUFFICES ASSUME NEW i \in DOMAIN sent[c], FrameLen * i <= start[c]
                 PROVE  FrameLen * i <= NewRd(c)
    BY <1>1, <1>2, <1>3 DEF PInv, ChatsAhead, AheadOK, Behind
  <2>2. FrameLen * i \in Nat
    <3>1. i \in Nat
      BY PTypes
    <3>2. QED
      BY <3>1, Monotone, PTypes
  <2>3. QED
    BY <1>2, <2>1, <2>2
<1>5. \A d \in Conns \ {c} : AheadOK(d)'
  BY <1>1, <1>2, <1>3 DEF PInv, ChatsAhead, AheadOK, Behind
<1>6. \A d \in Conns : out'[d] = out[d] => PendingOK(d)'
  <2>1. SUFFICES ASSUME NEW d \in Conns, out'[d] = out[d] PROVE PendingOK(d)'
    OBVIOUS
  <2>2. PendingOK(d)
    BY DEF PInv, OneLoginPending
  <2>3. CASE d = c
    BY <1>1, <1>3, <2>1, <2>2, <2>3 DEF PendingOK
  <2>4. CASE d # c
    BY <1>1, <1>2, <1>3, <2>1, <2>2, <2>4 DEF PendingOK, Behind, Refused
  <2>5. QED
    BY <2>3, <2>4
<1>7. /\ sent[c][FrameNo(c)].kind = "chat"
      /\ Chat(c) \in Messages /\ Chat(c).id = <<c, FrameNo(c)>>
  <2>1. /\ FrameNo(c) \in Nat /\ FrameNo(c) \in DOMAIN sent[c]
        /\ ~Behind(c, FrameNo(c))
    BY <1>1, WholeFramePlace, PTypes DEF Behind
  <2>2. sent[c][FrameNo(c)].kind = "chat"
    BY <1>1, <2>1 DEF PInv, ChatsAhead, AheadOK
  <2>3. Chat(c) \in Messages /\ Chat(c).id = <<c, FrameNo(c)>>
    BY <1>1, ChatPlace DEF PInv, CInv
  <2>4. QED
    BY <2>2, <2>3
<1>8. OneLoginPending' /\ NoLoginForwarded'
  <2>1. CASE UNCHANGED out
    <3>1. OneLoginPending'
      BY <1>6, <2>1 DEF OneLoginPending
    <3>2. \A d \in Conns : Forwarded(d)' = Forwarded(d)
      BY <2>1 DEF Forwarded
    <3>3. QED
      BY <1>3, <3>1, <3>2, NoLoginKept
  <2>2. ASSUME NEW d \in Conns, sock[d] = "open", user[d] \in Users, Written(d, Chat(c))
        PROVE  OneLoginPending' /\ NoLoginForwarded'
    <3>1. PendingOK(d)'
      BY <1>1, <1>2, <1>7, <2>2, ReceiverOK
    <3>2. \A e \in Conns \ {d} : out'[e] = out[e]
      BY <1>7, <2>2, OutStep, PTypes
    <3>3. OneLoginPending'
      BY <1>6, <3>1, <3>2 DEF OneLoginPending
    <3>4. NoLoginForwarded'
      <4>1. SUFFICES ASSUME NEW e \in Conns, NEW n \in Forwarded(e)'
                     PROVE  sent[n.id[1]][n.id[2]].kind = "chat"
        BY <1>3 DEF NoLoginForwarded
      <4>2. n \in Forwarded(e) \/ n = Chat(c)
        BY <1>7, <2>2, ForwardedStep, PTypes
      <4>3. CASE n \in Forwarded(e)
        BY <4>3 DEF PInv, NoLoginForwarded
      <4>4. CASE n = Chat(c)
        BY <1>7, <4>4
      <4>5. QED
        BY <4>2, <4>3, <4>4
    <3>5. QED
      BY <3>3, <3>4
  <2>3. UNCHANGED out \/ \E d \in Conns : /\ sock[d] = "open" /\ user[d] \in Users
                                          /\ Written(d, Chat(c))
    BY ForwardOf DEF PInv
  <2>4. QED
    BY <2>1, <2>2, <2>3
<1>9. QED
  BY <1>4, <1>5, <1>8 DEF PInv, ChatsAhead

\* A login is the last frame of its connection, so that the read which completes
\* it leaves nothing behind.
LEMMA LoginDrains ==
  ASSUME PInv, NEW c \in Conns, Login(c)
  PROVE  HalfLoginDrained'
<1>1. WholeFrame(c) /\ DataEvent(c) /\ cstate[c] # "MESSAGE" /\ TypeOK /\ StreamsOK
  BY PTypes DEF Login, WholeFrame
<1>2. FrameLen * Len(sent[c]) <= NewRd(c) /\ NewRd(c) \in Nat
  BY <1>1, LoginIsLast
<1>3. NewRd(c) <= arrived[c]
  BY <1>1, ReadBounds DEF DataEvent
<1>4. arrived[c] <= FrameLen * Len(sent[c])
  BY <1>1 DEF StreamsOK
<1>5. arrived[c] \in Nat /\ FrameLen * Len(sent[c]) \in Nat
  <2>1. Len(sent[c]) \in Nat /\ FrameLen \in Nat
    BY PTypes
  <2>2. QED
    BY <1>1, <2>1, Monotone DEF TypeOK, KernelTypeOK
<1>6. NewRd(c) = arrived[c]
  BY <1>2, <1>3, <1>4, <1>5
<1>7. QED
  BY <1>6, LoginDrained DEF PInv, CInv

LEMMA NextPInv ==
  ASSUME Relogin = "closed"
  PROVE  PInv /\ [Next]_vars => PInv'
<1> SUFFICES ASSUME PInv, [Next]_vars PROVE PInv'
  OBVIOUS
<1>1. CInv'
  BY NextCInv, LoginDrains DEF PInv
<1>2. CASE Quiet
  <2>1. CASE EpollWait \/ UNCHANGED vars
    <3>1. UNCHANGED <<sock, sent, closing, seen, out, got, mode, cstate, start>>
      BY <2>1 DEF EpollWait, epoll_wait, vars, kernelVars, netVars, serverVars, cdpVars
    <3>2. QED
      BY <1>1, <3>1, QuietPInv
  <2>2. ASSUME NEW c \in Conns, Network(c) PROVE PInv'
    BY <1>1, <2>2, NetworkPInv
  <2>3. ASSUME NEW c \in Conns, NothingRead(c) \/ Incomplete(c) \/ BadMagic(c) PROVE PInv'
    BY <1>1, <2>3, UndecodedPInv
  <2>4. ASSUME NEW c \in Conns, Refuse(c) PROVE PInv'
    BY <1>1, <2>4, RefusePInv
  <2>5. ASSUME NEW c \in Conns, Forward(c) PROVE PInv'
    BY <1>1, <2>5, ForwardPInv
  <2>6. ASSUME NEW c \in Conns, startNewConnection(c), UNCHANGED serverVars PROVE PInv'
    BY <1>1, <2>6, ConnectPInv
  <2>7. ASSUME NEW c \in Conns, ReadReply(c) \/ Receive(c), UNCHANGED serverVars PROVE PInv'
    BY <1>1, <2>7, TakePInv
  <2>8. ASSUME NEW c \in Conns, Close(c), UNCHANGED serverVars PROVE PInv'
    BY <1>1, <2>8, ClosePInv
  <2>9. QED
    BY <1>2, <2>1, <2>2, <2>3, <2>4, <2>5, <2>6, <2>7, <2>8 DEF Quiet
<1>3. CASE NewUserHandler
  BY <1>1, <1>3, AcceptPInv
<1>4. ASSUME NEW c \in Conns, Ends(c) PROVE PInv'
  BY <1>1, <1>4, EndsPInv
<1>5. ASSUME NEW c \in Conns, Login(c) PROVE PInv'
  BY <1>1, <1>5, LoginPInv
<1>6. ASSUME NEW c \in Conns, Writes(c) PROVE PInv'
  BY <1>1, <1>6, WritesPInv
<1>7. QED
  BY <1>2, <1>3, <1>4, <1>5, <1>6, NextCases

LEMMA LoginInvariance ==
  ASSUME Relogin = "closed"
  PROVE  Spec => []PInv
BY InitPInv, NextPInv, PTL DEF Spec

-----------------------------------------------------------------------------
(* The theorems.                                                           *)

\* No entry of the tree is left behind and, unless a pointer left over was
\* followed, none is lost: however reads cut the streams, a name has as many
\* entries as connections logged in under it.  A login whose answer failed is
\* the last frame of its connection, so that no refusal forgets its name.
THEOREM EntriesKept ==
  ASSUME Relogin = "closed"
  PROVE  Spec => []EntriesMatchSessions
<1>1. PInv => EntriesMatchSessions
  BY DEF PInv, CInv, IInv
<1>2. QED
  BY LoginInvariance, <1>1, PTL

\* No stale descriptor: when a name is used by one client at a time, what the
\* tree holds for it is the descriptor of the connection logged in under it,
\* however descriptors are recycled.
THEOREM EntriesAreCurrent ==
  ASSUME Relogin = "closed"
  PROVE  Spec => []EntryIsCurrent
<1>1. PInv => EntryIsCurrent
  BY DEF PInv, CInv
<1>2. QED
  BY LoginInvariance, <1>1, PTL

\* A message is written to its addressee and to no one else, as long as a name
\* is used by one client at a time: SendMessage looks a name up in the tree and
\* writes to the number it finds, and that number is never another's by then.
THEOREM AddresseeOnly ==
  ASSUME Relogin = "closed"
  PROVE  Spec => DeliveredToAddressee
<1> DEFINE A == \A c \in Conns :
                  out'[c] # out[c] /\ Last(out'[c]).kind = "chat" => user[c] = Last(out'[c]).to
<1>1. PInv /\ [Next]_vars => A
  BY AddresseeStep DEF PInv
<1>2. PInv /\ [Next]_vars => [A]_vars
  BY <1>1
<1>3. Spec => [][A]_vars
  BY <1>2, LoginInvariance, PTL DEF Spec
<1>4. QED
  BY <1>3, Zenon DEF DeliveredToAddressee

\* The whole server, with its event loop, its tree and its reads that cut the
\* stream anywhere, is a chat service: sessions that begin and end, and messages
\* from session to session under the names of both.
THEOREM ServerImplementsService ==
  ASSUME Relogin = "closed"
  PROVE  Spec => ImplementsService
<1>1. PInv /\ [Next]_vars => [Service!Next]_(Service!vars)
  BY StepService DEF PInv, Service!vars, SessionNow
<1>2. QED
  BY <1>1, InitService, LoginInvariance, PTL DEF Spec, ImplementsService, Service!Spec

\* No password reaches another user: the server decodes a frame of a connection
\* that is logged in as a message whatever its type field says, and none of them
\* is a login.
THEOREM PasswordsKept ==
  ASSUME Relogin = "closed"
  PROVE  Spec => []NoLoginForwarded
<1>1. PInv => NoLoginForwarded
  BY DEF PInv
<1>2. QED
  BY LoginInvariance, <1>1, PTL
=============================================================================
