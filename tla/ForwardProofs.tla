---------------------------- MODULE ForwardProofs ----------------------------
(***************************************************************************)
(* Theorems about the messages that Server forwards: under which name,     *)
(* once, and in order, for all values of the constants and whatever        *)
(* clients and network do.                                                 *)
(***************************************************************************)
EXTENDS ServerProofs

FInv == /\ Inv /\ LoginsFirst /\ LoginBehind /\ ForwardedBehind
        /\ SenderAuthentic /\ ForwardedInOrder

-----------------------------------------------------------------------------
(* The messages written.                                                   *)

LEMMA ForwardedIs ==
  ASSUME NEW c, NEW m
  PROVE  m \in Forwarded(c) <=> \E i \in DOMAIN out[c] : m = out[c][i] /\ m.kind = "chat"
BY DEF Forwarded, ToSet

LEMMA ForwardedType ==
  ASSUME TypeOK, NEW c \in Conns, NEW m \in Forwarded(c)
  PROVE  m \in Chats /\ m.id[1] \in Conns /\ m.id[2] \in Nat /\ m.id[2] > 0
<1>1. PICK i \in DOMAIN out[c] : m = out[c][i] /\ m.kind = "chat"
  BY ForwardedIs
<1>2. out[c] \in Seq(Messages)
  BY DEF TypeOK, KernelTypeOK
<1>3. m \in Messages
  BY <1>1, <1>2
<1>4. m \in Chats
  BY <1>1, <1>3 DEF Messages, Infos
<1>5. QED
  BY <1>4 DEF Chats

\* write() adds one message at most, to the receiver's.
LEMMA OutStep ==
  ASSUME TypeOK, NEW d \in Conns, NEW m \in Messages, Written(d, m)
  PROVE  /\ \A c \in Conns \ {d} : out'[c] = out[c]
         /\ \/ out'[d] = out[d]
            \/ /\ Len(out'[d]) = Len(out[d]) + 1
               /\ DOMAIN out'[d] = 1 .. Len(out[d]) + 1
               /\ \A i \in DOMAIN out[d] : out'[d][i] = out[d][i]
               /\ out'[d][Len(out[d]) + 1] = m
         /\ DOMAIN out[d] = 1 .. Len(out[d]) /\ Len(out[d]) \in Nat
<1>1. out \in [Conns -> Seq(Messages)] /\ out[d] \in Seq(Messages)
  BY DEF TypeOK, KernelTypeOK
<1>2. CASE out' = out
  BY <1>1, <1>2
<1>3. CASE out' = [out EXCEPT ![d] = Append(out[d], m)]
  <2>1. out'[d] = Append(out[d], m) /\ \A c \in Conns \ {d} : out'[c] = out[c]
    BY <1>1, <1>3
  <2>2. QED
    BY <1>1, <2>1, AppendProperties
<1>4. QED
  BY <1>2, <1>3 DEF Written

LEMMA ForwardedStep ==
  ASSUME TypeOK, NEW d \in Conns, NEW m \in Messages, Written(d, m),
         NEW c \in Conns, NEW n \in Forwarded(c)'
  PROVE  n \in Forwarded(c) \/ (c = d /\ n = m /\ m.kind = "chat")
<1>1. PICK i \in DOMAIN out'[c] : n = out'[c][i] /\ n.kind = "chat"
  BY DEF Forwarded, ToSet
<1>2. CASE out'[c] = out[c]
  BY <1>1, <1>2, ForwardedIs
<1>3. CASE out'[c] # out[c]
  <2>1. /\ c = d
        /\ DOMAIN out'[d] = 1 .. Len(out[d]) + 1
        /\ \A j \in DOMAIN out[d] : out'[d][j] = out[d][j]
        /\ out'[d][Len(out[d]) + 1] = m
        /\ DOMAIN out[d] = 1 .. Len(out[d]) /\ Len(out[d]) \in Nat
    BY <1>3, OutStep
  <2>2. CASE i = Len(out[d]) + 1
    BY <1>1, <2>1, <2>2
  <2>3. CASE i \in DOMAIN out[d]
    BY <1>1, <2>1, <2>3, ForwardedIs
  <2>4. QED
    BY <1>1, <2>1, <2>2, <2>3
<1>4. QED
  BY <1>2, <1>3

\* A message that comes from further back in its sender's stream than all that
\* were forwarded keeps the order.
LEMMA OrderStep ==
  ASSUME TypeOK, ForwardedInOrder,
         NEW d \in Conns, NEW m \in Messages, Written(d, m),
         m.kind = "chat" => \A c \in Conns : \A n \in Forwarded(c) :
                              n.id[1] = m.id[1] => n.id[2] < m.id[2]
  PROVE  ForwardedInOrder'
<1>1. ASSUME NEW c \in Conns, NEW i \in DOMAIN out'[c], NEW j \in DOMAIN out'[c],
             i < j, out'[c][i].kind = "chat", out'[c][j].kind = "chat",
             out'[c][i].id[1] = out'[c][j].id[1]
      PROVE  out'[c][i].id[2] < out'[c][j].id[2]
  <2>1. CASE out'[c] = out[c]
    BY <1>1, <2>1 DEF ForwardedInOrder
  <2>2. CASE out'[c] # out[c]
    <3>1. /\ c = d
          /\ DOMAIN out'[d] = 1 .. Len(out[d]) + 1
          /\ \A k \in DOMAIN out[d] : out'[d][k] = out[d][k]
          /\ out'[d][Len(out[d]) + 1] = m
          /\ DOMAIN out[d] = 1 .. Len(out[d]) /\ Len(out[d]) \in Nat
      BY <2>2, OutStep
    <3>2. i \in DOMAIN out[d]
      BY <1>1, <3>1
    <3>3. CASE j \in DOMAIN out[d]
      BY <1>1, <3>1, <3>2, <3>3 DEF ForwardedInOrder
    <3>4. CASE j = Len(out[d]) + 1
      <4>1. out[d][i] \in Forwarded(d)
        BY <1>1, <3>1, <3>2, ForwardedIs
      <4>2. QED
        BY <1>1, <3>1, <3>2, <3>4, <4>1
    <3>5. QED
      BY <1>1, <3>1, <3>3, <3>4
  <2>3. QED
    BY <2>1, <2>2
<1>2. ASSUME NEW c \in Conns, NEW e \in Conns, c # e,
             NEW n \in Forwarded(c)', NEW o \in Forwarded(e)', n.id = o.id
      PROVE  FALSE
  <2>1. n \in Forwarded(c) \/ (c = d /\ n = m /\ m.kind = "chat")
    BY ForwardedStep
  <2>2. o \in Forwarded(e) \/ (e = d /\ o = m /\ m.kind = "chat")
    BY ForwardedStep
  <2>3. CASE n \in Forwarded(c) /\ o \in Forwarded(e)
    BY <1>2, <2>3 DEF ForwardedInOrder
  <2>4. CASE n \in Forwarded(c) /\ o = m /\ m.kind = "chat"
    <3>1. n.id[2] < m.id[2] /\ n.id[2] \in Nat
      BY <1>2, <2>4, ForwardedType
    <3>2. QED
      BY <1>2, <2>4, <3>1
  <2>5. CASE o \in Forwarded(e) /\ n = m /\ m.kind = "chat"
    <3>1. o.id[2] < m.id[2] /\ o.id[2] \in Nat
      BY <1>2, <2>5, ForwardedType
    <3>2. QED
      BY <1>2, <2>5, <3>1
  <2>6. QED
    BY <1>2, <2>1, <2>2, <2>3, <2>4, <2>5
<1>3. QED
  BY <1>1, <1>2 DEF ForwardedInOrder

-----------------------------------------------------------------------------
(* The place of a frame in its stream.                                     *)

LEMMA BeforeFrame ==
  ASSUME NEW F \in Nat \ {0}, NEW s \in Nat, s % F = 0
  PROVE  /\ s \div F + 1 \in Nat \ {0}
         /\ F * (s \div F + 1) = s + F
         /\ \A j \in Nat : F * j <= s => j < s \div F + 1
<1> DEFINE k == s \div F
<1>1. k \in Nat /\ s = F * k
  BY SMT
<1>2. F * (k + 1) = F * k + F
  BY <1>1, SMT
<1> HIDE DEF k
<1>3. ASSUME NEW j \in Nat, F * j <= s, ~(j < k + 1) PROVE FALSE
  <2>1. k + 1 <= j
    BY <1>1, <1>3
  <2>2. F * (k + 1) <= F * j
    BY <1>1, <2>1, SMT
  <2>3. F * k \in Nat /\ F * j \in Nat
    BY <1>1, SMT
  <2>4. QED
    BY <1>1, <1>2, <1>3, <2>2, <2>3
<1>4. QED
  BY <1>1, <1>2, <1>3 DEF k

\* A whole frame ends where this read has come to, at most, and comes after all
\* that lies behind cdp->buff.
LEMMA WholeFramePlace ==
  ASSUME TypeOK, StreamsOK, NEW c \in Conns, WholeFrame(c)
  PROVE  /\ FrameNo(c) \in Nat /\ FrameNo(c) \in DOMAIN sent[c]
         /\ NewRd(c) \in Nat
         /\ FrameLen * FrameNo(c) <= NewRd(c)
         /\ start[c] \in Nat /\ start[c] <= NewRd(c)
         /\ \A j \in Nat : FrameLen * j <= start[c] => j < FrameNo(c)
<1>1. /\ ReadResult(c) = "data" /\ Aligned(c) /\ Complete(c)
      /\ start[c] \in Nat /\ FrameLen \in Nat \ {0} /\ start[c] % FrameLen = 0
  BY KernelAssumption DEF WholeFrame, DataEvent, TypeOK, Aligned
<1>2. /\ FrameNo(c) \in Nat \ {0} /\ FrameLen * FrameNo(c) = start[c] + FrameLen
      /\ \A j \in Nat : FrameLen * j <= start[c] => j < FrameNo(c)
  BY <1>1, BeforeFrame DEF FrameNo
<1>3. FrameNo(c) \in DOMAIN sent[c]
  BY <1>1, FrameSent
<1>4. NewRd(c) \in Nat /\ start[c] <= NewRd(c)
  BY <1>1, ReadBounds
<1>5. start[c] + FrameLen <= NewRd(c)
  BY <1>1, <1>4 DEF Complete, Used
<1>6. QED
  BY <1>1, <1>2, <1>3, <1>4, <1>5

\* What lay behind the buffer still does when the buffer is given up.
LEMMA StillBehind ==
  ASSUME TypeOK, NEW c \in Conns, DataEvent(c), start' \in [Conns -> Nat],
         \/ UNCHANGED start
         \/ start' = [start EXCEPT ![c] = NewRd(c)]
  PROVE  \A d \in Conns : \A i \in Nat :
           FrameLen * i <= start[d] => FrameLen * i <= start'[d]
<1>1. /\ start[c] <= NewRd(c) /\ NewRd(c) \in Nat
      /\ start \in [Conns -> Nat] /\ FrameLen \in Nat
  BY ReadBounds, KernelAssumption DEF DataEvent, TypeOK
<1> SUFFICES ASSUME NEW d \in Conns, NEW i \in Nat, FrameLen * i <= start[d]
             PROVE  FrameLen * i <= start'[d]
  OBVIOUS
<1>2. FrameLen * i \in Nat /\ start[d] \in Nat /\ start'[d] \in Nat
  BY <1>1, SMT
<1>3. start[d] <= start'[d]
  BY <1>1, <1>2
<1>4. QED
  BY <1>2, <1>3

-----------------------------------------------------------------------------
(* The invariant, action by action: first what happens to the side.        *)

LEMMA InitFInv == Init => FInv
<1> SUFFICES ASSUME Init PROVE FInv
  OBVIOUS
<1>1. Inv
  BY InitInv
<1>2. \A c \in Conns : /\ sock[c] = "none" /\ cstate[c] = "INITIAL"
                       /\ out[c] = <<>> /\ sent[c] = <<>> /\ mode[c] = "initial"
  BY DEF Init, KernelInit, ClientInit
<1>3. \A c \in Conns : Forwarded(c) = {} /\ DOMAIN out[c] = {} /\ DOMAIN sent[c] = {}
  BY <1>2 DEF Forwarded, ToSet
<1>4. LoginsFirst
  BY <1>2, <1>3 DEF LoginsFirst
<1>5. LoginBehind /\ ForwardedBehind /\ SenderAuthentic /\ ForwardedInOrder
  BY <1>2, <1>3 DEF LoginBehind, ForwardedBehind, SenderAuthentic, ForwardedInOrder
<1>6. QED
  BY <1>1, <1>4, <1>5 DEF FInv

\* Nothing sent, nothing forwarded.
LEMMA SameMessages ==
  ASSUME SenderAuthentic, ForwardedInOrder, UNCHANGED <<sent, out>>
  PROVE  /\ \A c \in Conns : Forwarded(c)' = Forwarded(c)
         /\ SenderAuthentic' /\ ForwardedInOrder'
<1>1. \A c \in Conns : Forwarded(c)' = Forwarded(c)
  BY DEF Forwarded
<1>2. SenderAuthentic'
  BY <1>1, Zenon DEF SenderAuthentic
<1>3. ForwardedInOrder'
  BY <1>1, Zenon DEF ForwardedInOrder
<1>4. QED
  BY <1>1, <1>2, <1>3

LEMMA QuietFInv ==
  ASSUME FInv, Inv', UNCHANGED <<sock, sent, out, mode, cstate, user, start>>
  PROVE  FInv'
<1>1. /\ \A c \in Conns : Forwarded(c)' = Forwarded(c)
      /\ SenderAuthentic' /\ ForwardedInOrder'
  BY SameMessages DEF FInv
<1>2. LoginsFirst' /\ LoginBehind'
  BY DEF FInv, LoginsFirst, LoginBehind
<1>3. ForwardedBehind'
  BY <1>1 DEF FInv, ForwardedBehind
<1>4. QED
  BY <1>1, <1>2, <1>3 DEF FInv

\* A connection is made, a client reads its answer: sent and out stay.
LEMMA ConnectFInv ==
  ASSUME FInv, Inv', NEW c \in Conns, startNewConnection(c), UNCHANGED serverVars
  PROVE  FInv'
<1>1. /\ sock[c] = "none" /\ sock' = [sock EXCEPT ![c] = "backlog"]
      /\ UNCHANGED <<sent, out, mode, cstate, user, start>>
  BY DEF startNewConnection, connect, netVars, serverVars, cdpVars
<1>2. sock \in [Conns -> {"none", "backlog", "open", "closed"}]
  BY DEF FInv, Inv, TypeOK, KernelTypeOK
<1>3. /\ \A d \in Conns : Forwarded(d)' = Forwarded(d)
      /\ SenderAuthentic' /\ ForwardedInOrder'
  BY <1>1, SameMessages DEF FInv
<1>4. LoginsFirst'
  BY <1>1, <1>2 DEF FInv, LoginsFirst
<1>5. LoginBehind'
  BY <1>1 DEF FInv, LoginBehind
<1>6. ForwardedBehind'
  BY <1>1, <1>2, <1>3 DEF FInv, ForwardedBehind
<1>7. QED
  BY <1>3, <1>4, <1>5, <1>6 DEF FInv

LEMMA ReadReplyFInv ==
  ASSUME FInv, Inv', NEW c \in Conns, ReadReply(c), UNCHANGED serverVars
  PROVE  FInv'
<1>1. /\ got[c] + 1 \in DOMAIN out[c]
      /\ mode' = [mode EXCEPT ![c] =
                    IF out[c][got[c] + 1].kind = "200" THEN "message" ELSE "initial"]
      /\ UNCHANGED <<sock, sent, out, cstate, user, start>>
  <2>1. PICK n \in got[c] + 1 .. Len(out[c]) : got' = [got EXCEPT ![c] = n]
    BY DEF ReadReply, Take
  <2>2. got[c] \in Nat /\ out[c] \in Seq(Messages)
    BY DEF FInv, Inv, TypeOK, KernelTypeOK
  <2>3. got[c] + 1 \in DOMAIN out[c]
    BY <2>1, <2>2
  <2>4. QED
    BY <2>3 DEF ReadReply, Take, serverVars, cdpVars
<1>2. mode \in [Conns -> {"initial", "auth", "message"}]
  BY DEF FInv, Inv, TypeOK, ClientTypeOK
<1>3. /\ \A d \in Conns : Forwarded(d)' = Forwarded(d)
      /\ SenderAuthentic' /\ ForwardedInOrder'
  BY <1>1, SameMessages DEF FInv
<1>4. LoginsFirst'
  BY <1>1, <1>2 DEF FInv, LoginsFirst
<1>5. LoginBehind' /\ ForwardedBehind'
  BY <1>1, <1>3 DEF FInv, LoginBehind, ForwardedBehind
<1>6. QED
  BY <1>3, <1>4, <1>5 DEF FInv

\* A client writes a frame: behind all others, and a message only in
\* MESSAGE_STATE.
LEMMA WriteFInv ==
  ASSUME FInv, Inv', NEW c \in Conns, NEW f \in Frames, client_write(c, f),
         UNCHANGED serverVars,
         \/ f.kind = "auth" /\ mode' = [mode EXCEPT ![c] = "auth"]
         \/ mode[c] = "message" /\ UNCHANGED mode
  PROVE  FInv'
<1>1. /\ sent' = [sent EXCEPT ![c] = Append(@, f)]
      /\ sent \in [Conns -> Seq(Frames)]
      /\ mode \in [Conns -> {"initial", "auth", "message"}]
      /\ UNCHANGED <<sock, out, cstate, user, start>>
  BY DEF client_write, serverVars, cdpVars, FInv, Inv, TypeOK, KernelTypeOK, ClientTypeOK
<1>2. sent[c] \in Seq(Frames) /\ sent'[c] = Append(sent[c], f)
      /\ \A d \in Conns \ {c} : sent'[d] = sent[d]
  BY <1>1
<1>3. /\ DOMAIN sent[c] = 1 .. Len(sent[c]) /\ Len(sent[c]) \in Nat
      /\ DOMAIN sent'[c] = 1 .. Len(sent[c]) + 1
      /\ \A i \in 1 .. Len(sent[c]) : sent'[c][i] = sent[c][i]
      /\ sent'[c][Len(sent[c]) + 1] = f
  BY <1>2, AppendProperties
<1>4. \A d \in Conns : \A i \in DOMAIN sent[d] :
        i \in DOMAIN sent'[d] /\ sent'[d][i] = sent[d][i]
  BY <1>2, <1>3
<1>5. \A d \in Conns : Forwarded(d)' = Forwarded(d)
  BY <1>1 DEF Forwarded
<1>6. LoginsFirst'
  <2>1. SUFFICES ASSUME NEW d \in Conns, sock[d] # "closed", cstate[d] # "MESSAGE"
                 PROVE  /\ mode'[d] # "message"
                        /\ \A i \in DOMAIN sent'[d] : sent'[d][i].kind = "auth"
    BY <1>1 DEF FInv, LoginsFirst
  <2>2. mode[d] # "message" /\ \A i \in DOMAIN sent[d] : sent[d][i].kind = "auth"
    BY <2>1 DEF FInv, LoginsFirst
  <2>3. CASE d = c
    <3>1. f.kind = "auth" /\ mode'[c] = "auth"
      BY <1>1, <2>2, <2>3
    <3>2. QED
      BY <1>3, <2>2, <2>3, <3>1
  <2>4. CASE d # c
    BY <1>1, <1>2, <2>2, <2>4
  <2>5. QED
    BY <2>3, <2>4
<1>7. LoginBehind'
  <2>1. SUFFICES ASSUME NEW d \in Conns, cstate[d] = "MESSAGE"
                 PROVE  \E j \in DOMAIN sent'[d] :
                          /\ FrameLen * j <= start[d]
                          /\ sent'[d][j].kind = "auth" /\ sent'[d][j].good
                          /\ sent'[d][j].name = user[d]
    BY <1>1 DEF LoginBehind
  <2>2. QED
    BY <1>4, <2>1 DEF FInv, LoginBehind
<1>8. ForwardedBehind' /\ ForwardedInOrder'
  BY <1>1, <1>5 DEF FInv, ForwardedBehind, ForwardedInOrder
<1>9. SenderAuthentic'
  <2>1. SUFFICES ASSUME NEW d \in Conns, NEW m \in Forwarded(d)
                 PROVE  /\ m.id[2] \in DOMAIN sent'[m.id[1]]
                        /\ sent'[m.id[1]][m.id[2]].name = m.to
                        /\ \E j \in 1 .. m.id[2] - 1 :
                             /\ sent'[m.id[1]][j].kind = "auth" /\ sent'[m.id[1]][j].good
                             /\ sent'[m.id[1]][j].name = m.from
    BY <1>5 DEF SenderAuthentic
  <2>2. m.id[1] \in Conns /\ m.id[2] \in Nat
    BY ForwardedType DEF FInv, Inv
  <2>3. /\ m.id[2] \in DOMAIN sent[m.id[1]] /\ sent[m.id[1]][m.id[2]].name = m.to
    BY <2>1 DEF FInv, SenderAuthentic
  <2>4. PICK j \in 1 .. m.id[2] - 1 :
          /\ sent[m.id[1]][j].kind = "auth" /\ sent[m.id[1]][j].good
          /\ sent[m.id[1]][j].name = m.from
    BY <2>1 DEF FInv, SenderAuthentic
  <2>5. j \in DOMAIN sent[m.id[1]]
    <3>1. sent[m.id[1]] \in Seq(Frames)
      BY <1>1, <2>2
    <3>2. QED
      BY <2>2, <2>3, <2>4, <3>1
  <2>6. QED
    BY <1>4, <2>2, <2>3, <2>4, <2>5
<1>10. QED
  BY <1>6, <1>7, <1>8, <1>9 DEF FInv

-----------------------------------------------------------------------------
(* Connections begin and end.                                              *)

LEMMA AcceptFInv ==
  ASSUME FInv, Inv', NewUserHandler
  PROVE  FInv'
<1>1. PICK c \in Conns :
        /\ sock[c] = "backlog"
        /\ \/ UNCHANGED <<sock, fd, ready, cdpVars>>
           \/ /\ sock' = [sock EXCEPT ![c] = "open"]
              /\ CreateNewClient(c)
  BY DEF NewUserHandler
<1>2. UNCHANGED <<sent, out, mode>>
  BY DEF NewUserHandler, netVars
<1>3. CASE UNCHANGED <<sock, fd, ready, cdpVars>>
  BY <1>2, <1>3, QuietFInv DEF cdpVars
<1>4. CASE sock' = [sock EXCEPT ![c] = "open"] /\ CreateNewClient(c)
  <2>1. /\ sock \in [Conns -> {"none", "backlog", "open", "closed"}]
        /\ cstate \in [Conns -> {"INITIAL", "AUTH", "MESSAGE"}]
        /\ start \in [Conns -> Nat]
        /\ user \in [Conns -> Users \cup {NoUser, Junk}]
    BY DEF FInv, Inv, TypeOK, KernelTypeOK
  <2>2. PICK u : user' = [user EXCEPT ![c] = u]
    BY <1>4 DEF CreateNewClient
  <2>3. /\ cstate' = [cstate EXCEPT ![c] = "INITIAL"]
        /\ start' = [start EXCEPT ![c] = 0]
        /\ cstate'[c] = "INITIAL" /\ cstate[c] = "INITIAL"
        /\ \A d \in Conns \ {c} : /\ cstate'[d] = cstate[d] /\ start'[d] = start[d]
                                  /\ user'[d] = user[d] /\ sock'[d] = sock[d]
    BY <1>1, <1>4, <2>1, <2>2 DEF CreateNewClient, FInv, LoginsFirst
  <2>4. /\ \A d \in Conns : Forwarded(d)' = Forwarded(d)
        /\ SenderAuthentic' /\ ForwardedInOrder'
    BY <1>2, SameMessages DEF FInv
  <2>5. LoginsFirst'
    BY <1>1, <1>2, <1>4, <2>1, <2>3 DEF FInv, LoginsFirst
  <2>6. LoginBehind'
    BY <1>2, <2>3 DEF FInv, LoginBehind
  <2>7. ForwardedBehind'
    <3>1. SUFFICES ASSUME NEW d \in Conns, NEW m \in Forwarded(d)
                   PROVE  /\ sock'[m.id[1]] \in {"open", "closed"}
                          /\ sock'[m.id[1]] = "open" => FrameLen * m.id[2] <= start'[m.id[1]]
      BY <2>4 DEF ForwardedBehind
    <3>2. /\ m.id[1] \in Conns
          /\ sock[m.id[1]] \in {"open", "closed"}
          /\ sock[m.id[1]] = "open" => FrameLen * m.id[2] <= start[m.id[1]]
      BY ForwardedType DEF FInv, Inv, ForwardedBehind
    <3>3. m.id[1] # c
      BY <1>1, <3>2
    <3>4. QED
      BY <2>3, <3>2, <3>3
  <2>8. QED
    BY <2>4, <2>5, <2>6, <2>7 DEF FInv
<1>5. QED
  BY <1>1, <1>3, <1>4

LEMMA DisconnectFInv ==
  ASSUME FInv, Inv', NEW c \in Conns, Disconnect(c), UNCHANGED mode
  PROVE  FInv'
<1>1. /\ sock \in [Conns -> {"none", "backlog", "open", "closed"}]
      /\ cstate \in [Conns -> {"INITIAL", "AUTH", "MESSAGE"}]
      /\ start \in [Conns -> Nat]
      /\ user \in [Conns -> Users \cup {NoUser, Junk}]
  BY DEF FInv, Inv, TypeOK, KernelTypeOK
<1>2. /\ sock' = [sock EXCEPT ![c] = "closed"]
      /\ cstate' = [cstate EXCEPT ![c] = "INITIAL"]
      /\ start' = [start EXCEPT ![c] = 0]
      /\ user' = [user EXCEPT ![c] = NoUser]
      /\ UNCHANGED <<sent, out, mode>>
  BY DEF Disconnect, closeConn, close, netVars
<1>3. /\ sock'[c] = "closed" /\ cstate'[c] = "INITIAL"
      /\ \A d \in Conns \ {c} : /\ cstate'[d] = cstate[d] /\ start'[d] = start[d]
                                /\ user'[d] = user[d] /\ sock'[d] = sock[d]
  BY <1>1, <1>2
<1>4. /\ \A d \in Conns : Forwarded(d)' = Forwarded(d)
      /\ SenderAuthentic' /\ ForwardedInOrder'
  BY <1>2, SameMessages DEF FInv
<1>5. LoginsFirst'
  BY <1>2, <1>3 DEF FInv, LoginsFirst
<1>6. LoginBehind'
  BY <1>2, <1>3 DEF FInv, LoginBehind
<1>7. ForwardedBehind'
  <2>1. SUFFICES ASSUME NEW d \in Conns, NEW m \in Forwarded(d)
                 PROVE  /\ sock'[m.id[1]] \in {"open", "closed"}
                        /\ sock'[m.id[1]] = "open" => FrameLen * m.id[2] <= start'[m.id[1]]
    BY <1>4 DEF ForwardedBehind
  <2>2. /\ m.id[1] \in Conns
        /\ sock[m.id[1]] \in {"open", "closed"}
        /\ sock[m.id[1]] = "open" => FrameLen * m.id[2] <= start[m.id[1]]
    BY ForwardedType DEF FInv, Inv, ForwardedBehind
  <2>3. QED
    BY <1>3, <2>2
<1>8. QED
  BY <1>4, <1>5, <1>6, <1>7 DEF FInv

LEMMA IncompleteFInv ==
  ASSUME FInv, Inv', NEW c \in Conns, Incomplete(c)
  PROVE  FInv'
<1>1. /\ sock[c] = "open" /\ UNCHANGED <<sock, mode>>
      /\ UNCHANGED <<sent, out, user, start>>
  BY DataInv DEF Incomplete, netVars, FInv
<1>2. \A d \in Conns : /\ cstate'[d] = "MESSAGE" <=> cstate[d] = "MESSAGE"
                       /\ sock[d] # "open" => cstate'[d] = cstate[d]
  BY <1>1 DEF Incomplete, FInv, Inv, TypeOK
<1>3. /\ \A d \in Conns : Forwarded(d)' = Forwarded(d)
      /\ SenderAuthentic' /\ ForwardedInOrder'
  BY <1>1, SameMessages DEF FInv
<1>4. LoginsFirst'
  BY <1>1, <1>2 DEF FInv, LoginsFirst
<1>5. LoginBehind' /\ ForwardedBehind'
  BY <1>1, <1>2, <1>3 DEF FInv, LoginBehind, ForwardedBehind
<1>6. QED
  BY <1>3, <1>4, <1>5 DEF FInv

-----------------------------------------------------------------------------
(* Answers and messages.                                                   *)

\* An answer is not a message, and what was forwarded stays behind.
LEMMA AnswerKeeps ==
  ASSUME FInv, Inv', NEW c \in Conns, DataEvent(c),
         NEW m \in Infos, Written(c, m),
         UNCHANGED start \/ start' = [start EXCEPT ![c] = NewRd(c)]
  PROVE  SenderAuthentic' /\ ForwardedInOrder' /\ ForwardedBehind'
<1>1. UNCHANGED <<sent, sock>> /\ start' \in [Conns -> Nat]
  BY DEF Written, DataEvent, Inv, TypeOK
<1>2. m \in Messages /\ m.kind # "chat" /\ TypeOK
  BY DEF Messages, Infos, FInv, Inv
<1>3. \A d \in Conns : \A n \in Forwarded(d)' : n \in Forwarded(d)
  BY <1>2, ForwardedStep
<1>4. SenderAuthentic'
  BY <1>1, <1>3, Zenon DEF FInv, SenderAuthentic
<1>5. ForwardedInOrder'
  BY <1>2, OrderStep DEF FInv
<1>6. ForwardedBehind'
  <2>1. SUFFICES ASSUME NEW d \in Conns, NEW n \in Forwarded(d)
                 PROVE  /\ sock[n.id[1]] \in {"open", "closed"}
                        /\ sock[n.id[1]] = "open" => FrameLen * n.id[2] <= start'[n.id[1]]
    BY <1>1, <1>3 DEF ForwardedBehind
  <2>2. /\ n.id[1] \in Conns /\ n.id[2] \in Nat
        /\ sock[n.id[1]] \in {"open", "closed"}
        /\ sock[n.id[1]] = "open" => FrameLen * n.id[2] <= start[n.id[1]]
    BY <1>2, ForwardedType DEF FInv, ForwardedBehind
  <2>3. QED
    BY <1>1, <1>2, <2>2, StillBehind
<1>7. QED
  BY <1>4, <1>5, <1>6

LEMMA LoginFInv ==
  ASSUME FInv, Inv', NEW c \in Conns, Login(c)
  PROVE  FInv'
<1> DEFINE j == FrameNo(c)
<1>1. /\ WholeFrame(c) /\ DataEvent(c) /\ cstate[c] # "MESSAGE" /\ Written(c, Info("200"))
      /\ UNCHANGED start \/ start' = [start EXCEPT ![c] = NewRd(c)]
      /\ UNCHANGED <<sent, sock, mode>> /\ sock[c] = "open"
  BY DataInv DEF Login, WholeFrame, Forget, FInv, Written
<1>2. TypeOK /\ StreamsOK
  BY DEF FInv, Inv
<1>3. Info("200") \in Infos
  BY DEF Info, Infos
<1>4. SenderAuthentic' /\ ForwardedInOrder' /\ ForwardedBehind'
  BY <1>1, <1>3, AnswerKeeps
<1>5. /\ cstate \in [Conns -> {"INITIAL", "AUTH", "MESSAGE"}]
      /\ user \in [Conns -> Users \cup {NoUser, Junk}]
      /\ start \in [Conns -> Nat]
  BY <1>2 DEF TypeOK
<1>6. /\ cstate'[c] = IF WriteResult(c) = "failed" THEN "AUTH" ELSE "MESSAGE"
      /\ user'[c] = Frame(c).name
      /\ \A d \in Conns \ {c} : cstate'[d] = cstate[d] /\ user'[d] = user[d]
  BY <1>5 DEF Login
<1>7. \A d \in Conns \ {c} : out'[d] = out[d] /\ start'[d] = start[d]
  BY <1>1, <1>2, <1>3, <1>5, OutStep DEF Messages
<1>8. LoginsFirst'
  <2>1. ASSUME cstate'[c] # "MESSAGE" PROVE out'[c] = out[c]
    BY <1>1, <1>6, <2>1 DEF Written
  <2>2. QED
    BY <1>1, <1>6, <1>7, <2>1 DEF FInv, LoginsFirst
<1>9. LoginBehind'
  <2>1. ASSUME NEW d \in Conns \ {c}, cstate'[d] = "MESSAGE"
        PROVE  \E i \in DOMAIN sent'[d] :
                 /\ FrameLen * i <= start'[d]
                 /\ sent'[d][i].kind = "auth" /\ sent'[d][i].good
                 /\ sent'[d][i].name = user'[d]
    BY <1>1, <1>6, <1>7, <2>1 DEF FInv, LoginBehind
  <2>2. ASSUME cstate'[c] = "MESSAGE"
        PROVE  /\ j \in DOMAIN sent'[c] /\ FrameLen * j <= start'[c]
               /\ sent'[c][j].kind = "auth" /\ sent'[c][j].good
               /\ sent'[c][j].name = user'[c]
    <3>1. start'[c] = NewRd(c)
      BY <1>5, <1>6, <2>2 DEF Login, Forget
    <3>2. j \in DOMAIN sent[c] /\ FrameLen * j <= NewRd(c)
      BY <1>1, <1>2, WholeFramePlace
    <3>3. sent[c][j].kind = "auth"
      BY <1>1, <3>2 DEF FInv, LoginsFirst
    <3>4. sent[c][j].good /\ sent[c][j].name = user'[c]
      BY <1>6 DEF Login, Verified, Frame
    <3>5. QED
      BY <1>1, <3>1, <3>2, <3>3, <3>4
  <2>3. QED
    BY <2>1, <2>2 DEF LoginBehind
<1>10. QED
  BY <1>4, <1>8, <1>9 DEF FInv

LEMMA RefuseFInv ==
  ASSUME FInv, Inv', NEW c \in Conns, Refuse(c)
  PROVE  FInv'
<1>1. /\ DataEvent(c) /\ cstate[c] # "MESSAGE" /\ Written(c, Info("401"))
      /\ start' = [start EXCEPT ![c] = NewRd(c)]
      /\ UNCHANGED <<sent, sock, mode>> /\ sock[c] = "open"
  BY DataInv DEF Refuse, WholeFrame, Forget, FInv, Written
<1>2. TypeOK
  BY DEF FInv, Inv
<1>3. Info("401") \in Infos /\ Info("401").kind = "401"
  BY DEF Info, Infos
<1>4. SenderAuthentic' /\ ForwardedInOrder' /\ ForwardedBehind'
  BY <1>1, <1>3, AnswerKeeps
<1>5. /\ cstate'[c] = "INITIAL"
      /\ \A d \in Conns \ {c} : cstate'[d] = cstate[d] /\ user'[d] = user[d]
  BY <1>2 DEF Refuse, TypeOK
<1>6. \A d \in Conns \ {c} : out'[d] = out[d] /\ start'[d] = start[d]
  BY <1>1, <1>2, <1>3, OutStep DEF Messages, TypeOK
<1>7. \A i \in DOMAIN out'[c] : out'[c][i].kind # "200"
  <2>1. \A i \in DOMAIN out[c] : out[c][i].kind # "200"
    BY <1>1 DEF FInv, LoginsFirst
  <2>2. /\ \/ out'[c] = out[c]
           \/ /\ DOMAIN out'[c] = 1 .. Len(out[c]) + 1
              /\ \A i \in DOMAIN out[c] : out'[c][i] = out[c][i]
              /\ out'[c][Len(out[c]) + 1] = Info("401")
        /\ DOMAIN out[c] = 1 .. Len(out[c]) /\ Len(out[c]) \in Nat
    BY <1>1, <1>2, <1>3, OutStep DEF Messages
  <2>3. SUFFICES ASSUME NEW i \in DOMAIN out'[c] PROVE out'[c][i].kind # "200"
    OBVIOUS
  <2>4. CASE i \in DOMAIN out[c]
    BY <2>1, <2>2, <2>4
  <2>5. CASE i \notin DOMAIN out[c]
    <3>1. i = Len(out[c]) + 1 /\ out'[c][i] = Info("401")
      BY <2>2, <2>5
    <3>2. QED
      BY <1>3, <3>1
  <2>6. QED
    BY <2>4, <2>5
<1>8. LoginsFirst'
  BY <1>1, <1>5, <1>6, <1>7 DEF FInv, LoginsFirst
<1>9. LoginBehind'
  BY <1>1, <1>5, <1>6 DEF FInv, LoginBehind
<1>10. QED
  BY <1>4, <1>8, <1>9 DEF FInv

\* The frame forwarded comes after the login that its user is named by, and
\* after all that were forwarded before.
LEMMA ChatPlace ==
  ASSUME FInv, NEW c \in Conns, WholeFrame(c), cstate[c] = "MESSAGE"
  PROVE  /\ Chat(c) \in Messages /\ Chat(c).kind = "chat" /\ Chat(c).id = <<c, FrameNo(c)>>
         /\ FrameNo(c) \in DOMAIN sent[c] /\ sent[c][FrameNo(c)].name = Chat(c).to
         /\ \E j \in 1 .. FrameNo(c) - 1 :
              sent[c][j].kind = "auth" /\ sent[c][j].good /\ sent[c][j].name = Chat(c).from
         /\ \A d \in Conns : \A n \in Forwarded(d) : n.id[1] = c => n.id[2] < FrameNo(c)
<1>1. /\ TypeOK /\ StreamsOK /\ sock[c] = "open"
      /\ ReadResult(c) = "data" /\ Aligned(c) /\ Complete(c) /\ DataEvent(c)
  BY DataInv DEF FInv, Inv, WholeFrame, DataEvent
<1>2. FrameNo(c) \in DOMAIN sent[c] /\ Frame(c) \in Frames
  BY <1>1, FrameSent
<1>3. /\ FrameNo(c) \in Nat
      /\ \A j \in Nat : FrameLen * j <= start[c] => j < FrameNo(c)
  BY <1>1, WholeFramePlace
<1>4. sent[c] \in Seq(Frames) /\ DOMAIN sent[c] = 1 .. Len(sent[c]) /\ Len(sent[c]) \in Nat
  BY <1>1 DEF TypeOK, KernelTypeOK
<1>5. Chat(c) \in Messages /\ Chat(c).kind = "chat" /\ Chat(c).id = <<c, FrameNo(c)>>
  <2>1. user[c] \in Users /\ Frame(c).name \in Users
    BY <1>2 DEF FInv, Inv, MessageOK, Frames
  <2>2. FrameNo(c) \in Nat \ {0}
    BY <1>2, <1>4
  <2>3. QED
    BY <2>1, <2>2 DEF Chat, Messages, Chats
<1>6. sent[c][FrameNo(c)].name = Chat(c).to
  BY DEF Chat, Frame
<1>7. PICK j \in DOMAIN sent[c] :
        /\ FrameLen * j <= start[c]
        /\ sent[c][j].kind = "auth" /\ sent[c][j].good /\ sent[c][j].name = user[c]
  BY DEF FInv, LoginBehind
<1>8. j \in 1 .. FrameNo(c) - 1
  BY <1>3, <1>4, <1>7
<1>9. sent[c][j].name = Chat(c).from
  BY <1>7 DEF Chat
<1>10. ASSUME NEW d \in Conns, NEW n \in Forwarded(d), n.id[1] = c
       PROVE  n.id[2] < FrameNo(c)
  <2>1. n.id[2] \in Nat
    BY <1>1, ForwardedType
  <2>2. FrameLen * n.id[2] <= start[c]
    BY <1>1, <1>10 DEF FInv, ForwardedBehind
  <2>3. QED
    BY <1>3, <2>1, <2>2
<1>11. QED
  BY <1>2, <1>5, <1>6, <1>7, <1>8, <1>9, <1>10

\* What a login leaves behind stays there, and no "200" is written.
LEMMA ForwardKeeps ==
  ASSUME FInv, Inv', NEW c \in Conns, DataEvent(c),
         start' = [start EXCEPT ![c] = NewRd(c)],
         UNCHANGED <<sent, user, cstate>>,
         \A d \in Conns : sock[d] \in {"none", "backlog"} => out'[d] = out[d],
         \A d \in Conns : (\A i \in DOMAIN out[d] : out[d][i].kind # "200")
                          => \A i \in DOMAIN out'[d] : out'[d][i].kind # "200"
  PROVE  LoginsFirst' /\ LoginBehind'
<1>1. UNCHANGED <<sock, mode>> /\ start' \in [Conns -> Nat] /\ TypeOK
  BY DEF DataEvent, FInv, Inv, TypeOK
<1>2. LoginsFirst'
  BY <1>1 DEF FInv, LoginsFirst
<1>3. LoginBehind'
  <2>1. SUFFICES ASSUME NEW d \in Conns, cstate[d] = "MESSAGE"
                 PROVE  \E j \in DOMAIN sent[d] :
                          /\ FrameLen * j <= start'[d]
                          /\ sent[d][j].kind = "auth" /\ sent[d][j].good
                          /\ sent[d][j].name = user[d]
    BY DEF LoginBehind
  <2>2. PICK j \in DOMAIN sent[d] :
          /\ FrameLen * j <= start[d]
          /\ sent[d][j].kind = "auth" /\ sent[d][j].good /\ sent[d][j].name = user[d]
    BY <2>1 DEF FInv, LoginBehind
  <2>3. j \in Nat
    BY <1>1 DEF TypeOK, KernelTypeOK
  <2>4. QED
    BY <1>1, <2>2, <2>3, StillBehind
<1>4. QED
  BY <1>2, <1>3

LEMMA ForwardFInv ==
  ASSUME FInv, Inv', NEW c \in Conns, Forward(c)
  PROVE  FInv'
<1>1. /\ WholeFrame(c) /\ DataEvent(c) /\ cstate[c] = "MESSAGE"
      /\ start' = [start EXCEPT ![c] = NewRd(c)]
      /\ UNCHANGED <<user, cstate, sock>> /\ sock[c] = "open"
      /\ TypeOK /\ StreamsOK /\ start' \in [Conns -> Nat] /\ start \in [Conns -> Nat]
  BY DataInv DEF Forward, WholeFrame, Forget, FInv, Inv, TypeOK, DataEvent
<1>2. \A d \in Conns : \A i \in Nat : FrameLen * i <= start[d] => FrameLen * i <= start'[d]
  BY <1>1, StillBehind
<1>3. CASE UNCHANGED netVars
  <2>1. UNCHANGED <<sent, out>>
    BY <1>3 DEF netVars
  <2>2. /\ \A d \in Conns : Forwarded(d)' = Forwarded(d)
        /\ SenderAuthentic' /\ ForwardedInOrder'
    BY <2>1, SameMessages DEF FInv
  <2>3. LoginsFirst' /\ LoginBehind'
    BY <1>1, <2>1, ForwardKeeps
  <2>4. ForwardedBehind'
    BY <1>1, <1>2, <2>2, ForwardedType DEF FInv, ForwardedBehind
  <2>5. QED
    BY <2>2, <2>3, <2>4 DEF FInv
<1>4. ASSUME NEW d \in Conns, sock[d] = "open", Written(d, Chat(c))
      PROVE  FInv'
  <2>1. /\ Chat(c) \in Messages /\ Chat(c).kind = "chat" /\ Chat(c).id = <<c, FrameNo(c)>>
        /\ FrameNo(c) \in DOMAIN sent[c] /\ sent[c][FrameNo(c)].name = Chat(c).to
        /\ \E j \in 1 .. FrameNo(c) - 1 :
             sent[c][j].kind = "auth" /\ sent[c][j].good /\ sent[c][j].name = Chat(c).from
        /\ \A e \in Conns : \A n \in Forwarded(e) : n.id[1] = c => n.id[2] < FrameNo(c)
    BY <1>1, ChatPlace
  <2> HIDE DEF Chat
  <2>2. UNCHANGED sent
    BY <1>4 DEF Written
  <2>3. \A e \in Conns : \A n \in Forwarded(e)' : n \in Forwarded(e) \/ n = Chat(c)
    BY <1>1, <1>4, <2>1, ForwardedStep
  <2>4. /\ \A e \in Conns \ {d} : out'[e] = out[e]
        /\ \/ out'[d] = out[d]
           \/ /\ DOMAIN out'[d] = 1 .. Len(out[d]) + 1
              /\ \A i \in DOMAIN out[d] : out'[d][i] = out[d][i]
              /\ out'[d][Len(out[d]) + 1] = Chat(c)
        /\ DOMAIN out[d] = 1 .. Len(out[d]) /\ Len(out[d]) \in Nat
    BY <1>1, <1>4, <2>1, OutStep
  <2>5. LoginsFirst' /\ LoginBehind'
    <3>1. ASSUME \A i \in DOMAIN out[d] : out[d][i].kind # "200", NEW i \in DOMAIN out'[d]
          PROVE  out'[d][i].kind # "200"
      <4>1. CASE i \in DOMAIN out[d]
        BY <2>4, <3>1, <4>1
      <4>2. CASE i \notin DOMAIN out[d]
        <5>1. i = Len(out[d]) + 1 /\ out'[d][i] = Chat(c)
          BY <2>4, <3>1, <4>2
        <5>2. QED
          BY <2>1, <5>1
      <4>3. QED
        BY <4>1, <4>2
    <3>2. QED
      BY <1>1, <1>4, <2>2, <2>4, <3>1, ForwardKeeps
  <2>6. ForwardedBehind'
    <3>1. SUFFICES ASSUME NEW e \in Conns, NEW n \in Forwarded(e)'
                   PROVE  /\ sock[n.id[1]] \in {"open", "closed"}
                          /\ sock[n.id[1]] = "open" => FrameLen * n.id[2] <= start'[n.id[1]]
      BY <1>1 DEF ForwardedBehind
    <3>2. CASE n \in Forwarded(e)
      BY <1>1, <1>2, <3>2, ForwardedType DEF FInv, ForwardedBehind
    <3>3. CASE n = Chat(c)
      <4>1. FrameLen * FrameNo(c) <= NewRd(c) /\ start'[c] = NewRd(c)
        BY <1>1, WholeFramePlace
      <4>2. n.id[1] = c /\ n.id[2] = FrameNo(c)
        BY <2>1, <3>3
      <4>3. QED
        BY <1>1, <4>1, <4>2
    <3>4. QED
      BY <2>3, <3>2, <3>3
  <2>7. SenderAuthentic'
    <3>1. SUFFICES ASSUME NEW e \in Conns, NEW n \in Forwarded(e)'
                   PROVE  /\ n.id[2] \in DOMAIN sent[n.id[1]]
                          /\ sent[n.id[1]][n.id[2]].name = n.to
                          /\ \E j \in 1 .. n.id[2] - 1 :
                               /\ sent[n.id[1]][j].kind = "auth" /\ sent[n.id[1]][j].good
                               /\ sent[n.id[1]][j].name = n.from
      BY <2>2 DEF SenderAuthentic
    <3>2. CASE n \in Forwarded(e)
      BY <3>2 DEF FInv, SenderAuthentic
    <3>3. CASE n = Chat(c)
      <4>1. n.id[1] = c /\ n.id[2] = FrameNo(c)
        BY <2>1, <3>3
      <4>2. QED
        BY <2>1, <3>3, <4>1
    <3>4. QED
      BY <2>3, <3>2, <3>3
  <2>8. ForwardedInOrder'
    <3>1. Chat(c).id[1] = c /\ Chat(c).id[2] = FrameNo(c)
      BY <2>1
    <3>2. QED
      BY <1>1, <1>4, <2>1, <3>1, OrderStep DEF FInv
  <2>9. QED
    BY <2>5, <2>6, <2>7, <2>8 DEF FInv
<1>5. UNCHANGED netVars \/ \E d \in Conns : sock[d] = "open" /\ Written(d, Chat(c))
  BY DEF Forward, Owners
<1>6. QED
  BY <1>3, <1>4, <1>5

-----------------------------------------------------------------------------
(* The specification.                                                      *)

\* The network, epoll_wait and the events that bring nothing to handle.
LEMMA OutsideFInv ==
  ASSUME FInv, Inv',
         \/ EpollWait
         \/ \E c \in Conns : Network(c) \/ NothingRead(c) \/ BadMagic(c)
         \/ UNCHANGED vars
  PROVE  FInv'
<1>1. UNCHANGED <<sock, sent, out, mode, cstate, user, start>>
  BY DEF EpollWait, epoll_wait, Network, Arrive, FinArrive, RstArrive, NothingRead, BadMagic,
    DataEvent, vars, kernelVars, netVars, epollVars, serverVars, cdpVars
<1>2. QED
  BY <1>1, QuietFInv

LEMMA ClientFInv ==
  ASSUME FInv, Inv', NEW c \in Conns, ClientNext(c), UNCHANGED serverVars
  PROVE  FInv'
<1>1. CASE startNewConnection(c)
  BY <1>1, ConnectFInv
<1>2. CASE SendAuth(c)
  <2>1. PICK u \in Users, good \in Creds :
          client_write(c, [kind |-> "auth", name |-> u, good |-> good])
    BY <1>2 DEF SendAuth
  <2>2. [kind |-> "auth", name |-> u, good |-> good] \in Frames
    BY ClientAssumption DEF Frames
  <2>3. mode' = [mode EXCEPT ![c] = "auth"]
    BY <1>2 DEF SendAuth
  <2>4. QED
    BY <2>1, <2>2, <2>3, WriteFInv
<1>3. CASE ReadReply(c)
  BY <1>3, ReadReplyFInv
<1>4. CASE SendChat(c)
  <2>1. PICK to \in Users : client_write(c, [kind |-> "chat", name |-> to, good |-> TRUE])
    BY <1>4 DEF SendChat
  <2>2. [kind |-> "chat", name |-> to, good |-> TRUE] \in Frames
    BY DEF Frames
  <2>3. mode[c] = "message" /\ UNCHANGED mode
    BY <1>4 DEF SendChat
  <2>4. QED
    BY <2>1, <2>2, <2>3, WriteFInv
<1>5. CASE Receive(c) \/ Close(c)
  <2>1. UNCHANGED <<sock, sent, out, mode, cstate, user, start>>
    BY <1>5 DEF Receive, Take, Close, client_close, serverVars, cdpVars
  <2>2. QED
    BY <2>1, QuietFInv
<1>6. QED
  BY <1>1, <1>2, <1>3, <1>4, <1>5 DEF ClientNext

LEMMA NextFInv == FInv /\ [Next]_vars => FInv'
<1> SUFFICES ASSUME FInv, [Next]_vars PROVE FInv'
  OBVIOUS
<1>1. Inv'
  BY NextInv DEF FInv
<1>2. CASE NewUserHandler
  BY <1>1, <1>2, AcceptFInv
<1>3. ASSUME NEW c \in Conns, HandleEvent(c) PROVE FInv'
  <2>1. CASE ErrorEvent(c) \/ EndOfStream(c)
    BY <1>1, <2>1, DisconnectFInv DEF ErrorEvent, EndOfStream
  <2>2. CASE NothingRead(c) \/ BadMagic(c)
    BY <1>1, <2>2, OutsideFInv
  <2>3. CASE Incomplete(c)
    BY <1>1, <2>3, IncompleteFInv
  <2>4. CASE Login(c)
    BY <1>1, <2>4, LoginFInv
  <2>5. CASE Refuse(c)
    BY <1>1, <2>5, RefuseFInv
  <2>6. CASE Forward(c)
    BY <1>1, <2>6, ForwardFInv
  <2>7. QED
    BY <1>3, <2>1, <2>2, <2>3, <2>4, <2>5, <2>6 DEF HandleEvent
<1>4. ASSUME NEW c \in Conns, ClientNext(c), UNCHANGED serverVars PROVE FInv'
  BY <1>1, <1>4, ClientFInv
<1>5. CASE EpollWait \/ (\E c \in Conns : Network(c)) \/ UNCHANGED vars
  BY <1>1, <1>5, OutsideFInv
<1>6. QED
  BY <1>2, <1>3, <1>4, <1>5 DEF Next, ServerNext

\* A client can be sure of the name a message comes under: whoever logs in,
\* leaves or comes back between, and whatever the server has dropped, the sender
\* proved that name earlier on the connection it sent the message on, and had
\* addressed it to the name the server looked up.
THEOREM SendersAuthentic == Spec => []SenderAuthentic
<1>1. FInv => SenderAuthentic
  BY DEF FInv
<1>2. QED
  BY InitFInv, NextFInv, <1>1, PTL DEF Spec

\* No message twice, to one receiver or to two, and none overtakes another of
\* the same sender: a buffer that was given up is never decoded again.
THEOREM OnceAndInOrder == Spec => []ForwardedInOrder
<1>1. FInv => ForwardedInOrder
  BY DEF FInv
<1>2. QED
  BY InitFInv, NextFInv, <1>1, PTL DEF Spec
=============================================================================
