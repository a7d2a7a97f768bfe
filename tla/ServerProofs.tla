---------------------------- MODULE ServerProofs ----------------------------
(***************************************************************************)
(* Theorems about Server, for every number of connections, users,          *)
(* descriptors and frames, every frame length and every choice of how the  *)
(* clients behave.                                                         *)
(***************************************************************************)
EXTENDS Server, FiniteSetTheorems, SequenceTheorems, TLAPS

Inv == TypeOK /\ NoStaleEvent /\ StreamsOK /\ OpenOK /\ MessageOK

-----------------------------------------------------------------------------
(* Facts about the operators.                                              *)

\* NewRd: a read moves on, and not past what has arrived.
LEMMA ReadBounds ==
  ASSUME TypeOK, NEW c \in Conns, ReadResult(c) = "data"
  PROVE  /\ NewRd(c) \in Nat
         /\ rd[c] < NewRd(c) /\ NewRd(c) <= arrived[c]
         /\ start[c] <= NewRd(c)
<1>1. /\ rd[c] \in Nat /\ arrived[c] \in Nat /\ start[c] \in Nat
      /\ start[c] <= rd[c] /\ rd[c] <= arrived[c]
  BY DEF TypeOK, KernelTypeOK
<1>2. ReadMax \in Nat /\ ReadMax > 0
  BY KernelAssumption
<1>3. Unread(c) \in Nat
  BY <1>1 DEF Unread
<1>4. Unread(c) > 0
  BY <1>3 DEF ReadResult
<1>5. ReadLen(c) \in Nat /\ ReadLen(c) > 0 /\ ReadLen(c) <= Unread(c)
  BY <1>2, <1>3, <1>4 DEF ReadLen
<1>6. QED
  BY <1>1, <1>3, <1>5 DEF NewRd, Unread

\* Arithmetic: a whole frame that starts at a frame boundary, and ends before
\* the end of n frames, is one of the n.
LEMMA FrameArithmetic ==
  ASSUME NEW F \in Nat \ {0}, NEW s \in Nat, NEW n \in Nat,
         s % F = 0, s + F <= F * n
  PROVE  s \div F + 1 \in 1..n
<1> DEFINE k == s \div F
<1>1. k \in Nat /\ s = F * k
  BY SMT
<1>2. F * k + F = F * (k + 1)
  BY <1>1, SMT
<1>3. F * (k + 1) <= F * n
  BY <1>1, <1>2
<1>4. k + 1 <= n
  <2> HIDE DEF k
  <2>1. SUFFICES ASSUME n < k + 1 PROVE FALSE
    BY <1>1
  <2>2. n <= k
    BY <1>1, <2>1
  <2>3. F * n <= F * k
    BY <1>1, <2>2, SMT
  <2>4. QED
    BY <1>1, <1>2, <1>3, <2>3
<1>5. QED
  BY <1>1, <1>4

\* Frame(c) is a frame the client has sent.
LEMMA FrameSent ==
  ASSUME TypeOK, StreamsOK, NEW c \in Conns,
         ReadResult(c) = "data", Aligned(c), Complete(c)
  PROVE  /\ FrameNo(c) \in DOMAIN sent[c]
         /\ Frame(c) \in Frames
<1>1. sent[c] \in Seq(Frames) /\ arrived[c] \in Nat /\ start[c] \in Nat
  BY DEF TypeOK, KernelTypeOK
<1>2. FrameLen \in Nat \ {0}
  BY KernelAssumption
<1>3. Len(sent[c]) \in Nat /\ DOMAIN sent[c] = 1 .. Len(sent[c])
  BY <1>1
<1>4. start[c] + FrameLen <= arrived[c]
  BY <1>1, <1>2, ReadBounds DEF Complete, Used
<1>5. arrived[c] <= FrameLen * Len(sent[c])
  BY DEF StreamsOK
<1>6. start[c] + FrameLen <= FrameLen * Len(sent[c])
  BY <1>1, <1>2, <1>3, <1>4, <1>5
<1>7. FrameNo(c) \in 1 .. Len(sent[c])
  BY <1>1, <1>2, <1>3, <1>6, FrameArithmetic DEF Aligned, FrameNo
<1>8. QED
  BY <1>1, <1>3, <1>7 DEF Frame

\* What write() leaves behind is well-typed; only the state of c's socket and
\* the messages written to c change.
LEMMA WrittenType ==
  ASSUME TypeOK, StreamsOK, NEW c \in Conns, NEW m \in Messages, Written(c, m)
  PROVE  /\ out' \in [Conns -> Seq(Messages)]
         /\ hit' \in [Conns -> BOOLEAN]
         /\ skerr' \in [Conns -> {"none", "ECONNRESET", "EPIPE"}]
         /\ \A d \in Conns : skerr'[d] # "none" => seen[d] = "rst"
         /\ UNCHANGED <<sent, arrived, closing, seen, got>>
<1> USE DEF TypeOK, KernelTypeOK
<1>1. out[c] \in Seq(Messages)
  OBVIOUS
<1>2. Append(out[c], m) \in Seq(Messages)
  BY <1>1, AppendProperties
<1>3. out' \in [Conns -> Seq(Messages)]
  BY <1>2 DEF Written
<1>4. hit' \in [Conns -> BOOLEAN]
  BY DEF Written
<1>5. /\ skerr' \in [Conns -> {"none", "ECONNRESET", "EPIPE"}]
      /\ \A d \in Conns : skerr'[d] # "none" => seen[d] = "rst"
  BY DEF Written, StreamsOK
<1>6. QED
  BY <1>3, <1>4, <1>5 DEF Written

\* Filing and removing an entry.
LEMMA EnterType ==
  ASSUME Tree!TypeOK, NEW u \in Users, NEW f \in Fds, Tree!Enter(u, f)
  PROVE  /\ Tree!TypeOK'
         /\ Len(dir'[u]) = Len(dir[u]) + 1
         /\ \A v \in Users \ {u} : dir'[v] = dir[v]
<1> USE DEF Tree!TypeOK, Tree!Enter
<1>1. /\ Append(dir[u], f) \in Seq(Fds)
      /\ Len(Append(dir[u], f)) = Len(dir[u]) + 1
  BY AppendProperties
<1>2. QED
  BY <1>1

LEMMA LeaveType ==
  ASSUME Tree!TypeOK, NEW u \in Users, Tree!Leave(u)
  PROVE  /\ Tree!TypeOK'
         /\ Len(dir'[u]) = Len(dir[u]) - 1
         /\ \A v \in Users \ {u} : dir'[v] = dir[v]
<1>1. PICK i \in DOMAIN dir[u] : dir' = [dir EXCEPT ![u] = Tree!RemoveAt(@, i)]
  BY DEF Tree!Leave, Tree!Met
<1>2. dir[u] \in Seq(Fds) /\ Len(dir[u]) \in Nat /\ i \in 1 .. Len(dir[u])
  BY <1>1 DEF Tree!TypeOK
<1>3. /\ SubSeq(dir[u], 1, i - 1) \in Seq(Fds)
      /\ Len(SubSeq(dir[u], 1, i - 1)) = i - 1
  <2>1. \A j \in 1 .. i - 1 : dir[u][j] \in Fds
    BY <1>2
  <2>2. i - 1 \in Int
    BY <1>2
  <2>3. QED
    BY <1>2, <2>1, <2>2, SubSeqProperties
<1>4. /\ SubSeq(dir[u], i + 1, Len(dir[u])) \in Seq(Fds)
      /\ Len(SubSeq(dir[u], i + 1, Len(dir[u]))) = Len(dir[u]) - i
  <2>1. \A j \in i + 1 .. Len(dir[u]) : dir[u][j] \in Fds
    BY <1>2
  <2>2. i + 1 \in Int /\ Len(dir[u]) \in Int
    BY <1>2
  <2>3. QED
    BY <1>2, <2>1, <2>2, SubSeqProperties
<1>5. /\ Tree!RemoveAt(dir[u], i) \in Seq(Fds)
      /\ Len(Tree!RemoveAt(dir[u], i)) = Len(dir[u]) - 1
  <2>1. /\ SubSeq(dir[u], 1, i - 1) \o SubSeq(dir[u], i + 1, Len(dir[u])) \in Seq(Fds)
        /\ Len(SubSeq(dir[u], 1, i - 1) \o SubSeq(dir[u], i + 1, Len(dir[u])))
             = (i - 1) + (Len(dir[u]) - i)
    BY <1>3, <1>4, ConcatProperties
  <2>2. Tree!RemoveAt(dir[u], i)
          = SubSeq(dir[u], 1, i - 1) \o SubSeq(dir[u], i + 1, Len(dir[u]))
    BY DEF Tree!RemoveAt
  <2>3. (i - 1) + (Len(dir[u]) - i) = Len(dir[u]) - 1
    BY <1>2
  <2>4. QED
    BY <2>1, <2>2, <2>3
<1>6. QED
  BY <1>1, <1>5 DEF Tree!TypeOK

\* What the end of a connection may take from the tree.
LEMMA RemovedEntry ==
  ASSUME NEW c \in Conns, RemoveEntry(c)
  PROVE  UNCHANGED dir \/ \E u \in Users : u \in NameRead(c) /\ dir[u] # <<>> /\ Tree!Leave(u)
BY DEF RemoveEntry

-----------------------------------------------------------------------------
(* Every step preserves Inv.                                               *)

LEMMA InitInv == Init => Inv
<1> SUFFICES ASSUME Init PROVE Inv
  OBVIOUS
<1> USE DEF Init, KernelInit, ClientInit, Tree!Init
<1>1. TypeOK
  <2>1. <<>> \in Seq(Frames) /\ <<>> \in Seq(Messages) /\ <<>> \in Seq(Fds)
    OBVIOUS
  <2>2. KernelTypeOK
    BY <2>1 DEF KernelTypeOK
  <2>3. Tree!TypeOK
    BY <2>1 DEF Tree!TypeOK
  <2>4. \A c \in Conns : start[c] = 0 /\ rd[c] = 0 /\ arrived[c] = 0
    OBVIOUS
  <2>5. \A c \in Conns : start[c] <= rd[c] /\ rd[c] <= arrived[c]
    BY <2>4
  <2>6. /\ cstate \in [Conns -> {"INITIAL", "AUTH", "MESSAGE"}]
        /\ user \in [Conns -> Users \cup {NoUser, Junk}]
        /\ start \in [Conns -> Nat]
        /\ mode \in [Conns -> {"initial", "auth", "message"}]
    OBVIOUS
  <2>7. dirty \in BOOLEAN /\ strayed \in BOOLEAN /\ status \in {"running"} \cup Causes
    OBVIOUS
  <2>8. QED
    BY <2>2, <2>3, <2>5, <2>6, <2>7 DEF TypeOK, ClientTypeOK
<1>2. NoStaleEvent /\ OpenOK /\ MessageOK
  BY ServerAssumption DEF NoStaleEvent, OpenOK, MessageOK
<1>3. StreamsOK
  <2>1. FrameLen * 0 = 0 /\ MaxFrames >= 0
    BY KernelAssumption
  <2>2. QED
    BY <2>1 DEF StreamsOK
<1>4. QED
  BY <1>1, <1>2, <1>3 DEF Inv

\* The variables of the server, and what it alone changes of the kernel's.
LEMMA NetworkInv ==
  ASSUME Inv, NEW c \in Conns, Network(c)
  PROVE  Inv'
<1> USE DEF Inv
<1> UNCHANGED <<mode, serverVars, sock, fd, rd, sent, closing, hit, out, got, batch, err>>
  BY DEF Network, Arrive, FinArrive, RstArrive
<1> USE DEF serverVars, cdpVars
<1>1. ready' = Edge(c) /\ ready' \subseteq Sources
  BY DEF Network, Arrive, FinArrive, RstArrive, Edge, TypeOK, KernelTypeOK, Sources
<1>2. /\ arrived' \in [Conns -> Nat] /\ seen' \in [Conns -> {"open", "fin", "rst"}]
      /\ skerr' \in [Conns -> {"none", "ECONNRESET", "EPIPE"}]
      /\ \A d \in Conns : arrived[d] <= arrived'[d]
      /\ \A d \in Conns : /\ arrived'[d] <= FrameLen * Len(sent[d])
                          /\ skerr'[d] # "none" => seen'[d] = "rst"
  <2>1. CASE Arrive(c)
    <3>1. PICK n \in arrived[c] + 1 .. FrameLen * Len(sent[c]) :
                 arrived' = [arrived EXCEPT ![c] = n]
      BY <2>1 DEF Arrive
    <3>2. arrived[c] \in Nat /\ FrameLen * Len(sent[c]) \in Int
      BY KernelAssumption DEF TypeOK, KernelTypeOK
    <3>3. n \in Nat /\ n >= arrived[c] /\ n <= FrameLen * Len(sent[c])
      BY <3>2
    <3>4. arrived' \in [Conns -> Nat] /\ \A d \in Conns : arrived[d] <= arrived'[d]
      BY <3>1, <3>2, <3>3 DEF TypeOK, KernelTypeOK
    <3>5. \A d \in Conns : arrived'[d] <= FrameLen * Len(sent[d])
      BY <3>1, <3>3 DEF StreamsOK, TypeOK, KernelTypeOK
    <3>6. QED
      BY <2>1, <3>4, <3>5 DEF Arrive, TypeOK, KernelTypeOK, StreamsOK
  <2>2. CASE FinArrive(c)
    <3>1. \A d \in Conns : arrived[d] \in Nat
      BY DEF TypeOK, KernelTypeOK
    <3>2. QED
      BY <2>2, <3>1 DEF FinArrive, TypeOK, KernelTypeOK, StreamsOK
  <2>3. CASE RstArrive(c)
    <3>1. \A d \in Conns : arrived[d] \in Nat
      BY DEF TypeOK, KernelTypeOK
    <3>2. QED
      BY <2>3, <3>1 DEF RstArrive, TypeOK, KernelTypeOK, StreamsOK
  <2>4. QED
    BY <2>1, <2>2, <2>3 DEF Network
<1>3. TypeOK'
  <2>1. \A d \in Conns : start[d] <= rd[d] /\ rd[d] <= arrived'[d]
    BY <1>2 DEF TypeOK, KernelTypeOK
  <2>2. QED
    BY <1>1, <1>2, <2>1 DEF TypeOK, KernelTypeOK, ClientTypeOK, Tree!TypeOK
<1>4. NoStaleEvent'
  BY <1>1 DEF NoStaleEvent, Edge
<1>5. StreamsOK' /\ OpenOK' /\ MessageOK'
  BY <1>2 DEF StreamsOK, OpenOK, MessageOK
<1>6. QED
  BY <1>3, <1>4, <1>5

\* A client's calls: connect, write, close and read.
LEMMA ClientInv ==
  ASSUME Inv, NEW c \in Conns, ClientNext(c), UNCHANGED serverVars
  PROVE  Inv'
<1> USE DEF Inv, serverVars, cdpVars, netVars, epollVars
<1>1. CASE startNewConnection(c)
  <2> USE DEF startNewConnection, connect
  <2>1. TypeOK'
    BY <1>1 DEF TypeOK, KernelTypeOK, ClientTypeOK, Tree!TypeOK, Sources
  <2>2. NoStaleEvent'
    BY <1>1, KernelAssumption DEF NoStaleEvent, TypeOK, KernelTypeOK
  <2>3. StreamsOK' /\ OpenOK' /\ MessageOK'
    BY <1>1 DEF StreamsOK, OpenOK, MessageOK, TypeOK, KernelTypeOK
  <2>4. QED
    BY <2>1, <2>2, <2>3
<1>2. ASSUME NEW f \in Frames, client_write(c, f), mode' \in [Conns -> {"initial", "auth", "message"}]
      PROVE  Inv'
  <2> USE DEF client_write
  <2>1. /\ sent[c] \in Seq(Frames) /\ Len(sent[c]) \in Nat
        /\ Append(sent[c], f) \in Seq(Frames)
        /\ Len(Append(sent[c], f)) = Len(sent[c]) + 1
    BY <1>2, AppendProperties DEF TypeOK, KernelTypeOK
  <2>2. TypeOK'
    BY <1>2, <2>1 DEF TypeOK, KernelTypeOK, ClientTypeOK, Tree!TypeOK
  <2>3. NoStaleEvent' /\ OpenOK' /\ MessageOK'
    BY <1>2 DEF NoStaleEvent, OpenOK, MessageOK
  <2>4. arrived[c] <= FrameLen * Len(sent'[c])
    <3>1. FrameLen \in Nat /\ arrived[c] \in Nat
      BY KernelAssumption DEF TypeOK, KernelTypeOK
    <3>2. FrameLen * (Len(sent[c]) + 1) = FrameLen * Len(sent[c]) + FrameLen
      BY <2>1, <3>1, SMT
    <3>3. arrived[c] <= FrameLen * Len(sent[c])
      BY DEF StreamsOK
    <3>4. FrameLen * Len(sent[c]) \in Nat
      BY <2>1, <3>1
    <3>5. arrived[c] <= FrameLen * (Len(sent[c]) + 1)
      BY <3>1, <3>2, <3>3, <3>4
    <3>6. Len(sent'[c]) = Len(sent[c]) + 1
      BY <1>2, <2>1 DEF TypeOK, KernelTypeOK
    <3>7. QED
      BY <3>5, <3>6
  <2>5. Len(sent'[c]) <= MaxFrames
    BY <1>2, <2>1, KernelAssumption DEF TypeOK, KernelTypeOK
  <2>6. \A d \in Conns \ {c} : sent'[d] = sent[d]
    BY <1>2 DEF TypeOK, KernelTypeOK
  <2>7. StreamsOK'
    BY <1>2, <2>4, <2>5, <2>6 DEF StreamsOK
  <2>8. QED
    BY <2>2, <2>3, <2>7
<1>3. CASE SendAuth(c)
  <2>1. PICK u \in Users, good \in Creds :
          client_write(c, [kind |-> "auth", name |-> u, good |-> good])
    BY <1>3 DEF SendAuth
  <2>2. [kind |-> "auth", name |-> u, good |-> good] \in Frames
    BY ClientAssumption DEF Frames
  <2>3. mode' \in [Conns -> {"initial", "auth", "message"}]
    BY <1>3 DEF SendAuth, TypeOK, ClientTypeOK
  <2>4. QED
    BY <1>2, <2>1, <2>2, <2>3
<1>4. CASE SendChat(c)
  BY <1>2, <1>4 DEF SendChat, Frames, TypeOK, ClientTypeOK
<1>5. ASSUME Take(c), mode' \in [Conns -> {"initial", "auth", "message"}]
      PROVE  Inv'
  <2>1. PICK n \in got[c] + 1 .. Len(out[c]) : got' = [got EXCEPT ![c] = n]
    BY <1>5 DEF Take
  <2>2. n \in Nat
    BY <2>1 DEF TypeOK, KernelTypeOK
  <2>3. TypeOK'
    BY <1>5, <2>1, <2>2 DEF Take, TypeOK, KernelTypeOK, ClientTypeOK, Tree!TypeOK
  <2>4. NoStaleEvent' /\ StreamsOK' /\ OpenOK' /\ MessageOK'
    BY <1>5 DEF Take, NoStaleEvent, StreamsOK, OpenOK, MessageOK
  <2>5. QED
    BY <2>3, <2>4
<1>6. CASE ReadReply(c)
  BY <1>5, <1>6 DEF ReadReply, TypeOK, ClientTypeOK
<1>7. CASE Receive(c)
  BY <1>5, <1>7 DEF Receive, TypeOK, ClientTypeOK
<1>8. CASE Close(c)
  <2> USE DEF Close, client_close
  <2>1. TypeOK'
    BY <1>8 DEF TypeOK, KernelTypeOK, ClientTypeOK, Tree!TypeOK
  <2>2. NoStaleEvent' /\ StreamsOK' /\ OpenOK' /\ MessageOK'
    BY <1>8 DEF NoStaleEvent, StreamsOK, OpenOK, MessageOK
  <2>3. QED
    BY <2>1, <2>2
<1>9. QED
  BY <1>1, <1>3, <1>4, <1>6, <1>7, <1>8 DEF ClientNext

\* epoll_wait: a batch is filled from the ready list.
LEMMA EpollWaitInv ==
  ASSUME Inv, EpollWait
  PROVE  Inv'
<1> USE DEF Inv, EpollWait, serverVars, cdpVars, netVars
<1>1. batch' \subseteq ready /\ ready' \subseteq ready /\ err' \subseteq Conns
  BY DEF epoll_wait
<1>2. UNCHANGED <<sock, fd, rd, sent, arrived, closing, seen, hit, skerr, out, got,
                  mode, cstate, user, start, dir, dirty, strayed, status>>
  BY DEF epoll_wait
<1>3. TypeOK'
  BY <1>1, <1>2 DEF TypeOK, KernelTypeOK, ClientTypeOK, Tree!TypeOK
<1>4. NoStaleEvent' /\ StreamsOK' /\ OpenOK' /\ MessageOK'
  BY <1>1, <1>2 DEF NoStaleEvent, StreamsOK, OpenOK, MessageOK
<1>5. QED
  BY <1>3, <1>4

\* An accepted connection gets a descriptor and a cdp that names no user.
LEMMA AcceptInv ==
  ASSUME Inv, NewUserHandler
  PROVE  Inv'
<1> USE DEF Inv, netVars
<1>1. PICK c \in Conns :
        /\ sock[c] = "backlog"
        /\ \/ /\ Die("exited")
              /\ UNCHANGED <<sock, fd, ready, cdpVars>>
           \/ /\ \E f \in LowestFds : fd' = [fd EXCEPT ![c] = f]
              /\ sock' = [sock EXCEPT ![c] = "open"]
              /\ ready' = ready \cup {c}
              /\ CreateNewClient(c)
              /\ UNCHANGED status
  BY DEF NewUserHandler
<1>2. /\ batch' = batch \ {Listener} /\ err' = err \ {Listener}
      /\ UNCHANGED <<rd, sent, arrived, closing, seen, hit, skerr, out, got, mode, dir, dirty, strayed>>
  BY DEF NewUserHandler, Done
<1>3. CASE Die("exited") /\ UNCHANGED <<sock, fd, ready, cdpVars>>
  <2> USE DEF cdpVars, Die
  <2>1. TypeOK'
    BY <1>2, <1>3 DEF TypeOK, KernelTypeOK, ClientTypeOK, Tree!TypeOK, Causes
  <2>2. NoStaleEvent' /\ StreamsOK' /\ OpenOK' /\ MessageOK'
    BY <1>2, <1>3 DEF NoStaleEvent, StreamsOK, OpenOK, MessageOK
  <2>3. QED
    BY <2>1, <2>2
<1>4. ASSUME NEW f \in LowestFds, fd' = [fd EXCEPT ![c] = f],
             sock' = [sock EXCEPT ![c] = "open"], ready' = ready \cup {c},
             CreateNewClient(c), UNCHANGED status
      PROVE  Inv'
  <2>1. f \in Fds
    BY <1>4 DEF LowestFds, FreeFds
  <2>2. PICK u \in {NoUser, Junk} : user' = [user EXCEPT ![c] = u]
    BY <1>4 DEF CreateNewClient
  <2>3. cstate' = [cstate EXCEPT ![c] = "INITIAL"] /\ start' = [start EXCEPT ![c] = 0]
    BY <1>4 DEF CreateNewClient
  <2>4. \A d \in Conns : start'[d] <= rd[d] /\ rd[d] <= arrived[d]
    BY <2>3 DEF TypeOK, KernelTypeOK
  <2>5. TypeOK'
    BY <1>2, <1>4, <2>1, <2>2, <2>3, <2>4
    DEF TypeOK, KernelTypeOK, ClientTypeOK, Tree!TypeOK, Sources
  <2>6. NoStaleEvent' /\ StreamsOK' /\ MessageOK'
    BY <1>2, <1>4, <2>3 DEF NoStaleEvent, StreamsOK, MessageOK, TypeOK, KernelTypeOK,
      CreateNewClient
  <2>7. OpenOK'
    BY <1>2, <1>4, <2>1, <2>2, ServerAssumption DEF OpenOK, TypeOK, KernelTypeOK
  <2>8. QED
    BY <2>5, <2>6, <2>7
<1>5. QED
  BY <1>1, <1>3, <1>4

\* The end of a connection: the entry, the descriptor and the events go with
\* the cdp.
LEMMA DisconnectInv ==
  ASSUME Inv, NEW c \in Conns, c \in batch, Done(c), Disconnect(c), UNCHANGED mode
  PROVE  Inv'
<1> USE DEF Inv, Disconnect, closeConn, close, Done, netVars
<1>1. Tree!TypeOK'
  <2>1. CASE UNCHANGED dir
    BY <2>1 DEF TypeOK, Tree!TypeOK
  <2>2. CASE ~ UNCHANGED dir
    BY <2>2, RemovedEntry, LeaveType DEF TypeOK
  <2>3. QED
    BY <2>1, <2>2
<1>2. status' \in {"running"} \cup Causes
  BY DEF FreeUser, Die, Causes
<1>3. \A d \in Conns : start'[d] <= rd[d] /\ rd[d] <= arrived[d]
  BY DEF TypeOK, KernelTypeOK
<1>4. KernelTypeOK' /\ ClientTypeOK'
  BY DEF TypeOK, KernelTypeOK, ClientTypeOK
<1>5. /\ cstate' \in [Conns -> {"INITIAL", "AUTH", "MESSAGE"}]
      /\ user' \in [Conns -> Users \cup {NoUser, Junk}]
      /\ start' \in [Conns -> Nat]
      /\ dirty' \in BOOLEAN /\ strayed' \in BOOLEAN
  BY DEF TypeOK, Stray
<1>6. TypeOK'
  BY <1>1, <1>2, <1>3, <1>4, <1>5 DEF TypeOK
<1>7. NoStaleEvent' /\ StreamsOK'
  BY DEF NoStaleEvent, StreamsOK, TypeOK, KernelTypeOK
<1>8. OpenOK' /\ MessageOK'
  BY ServerAssumption DEF OpenOK, MessageOK, TypeOK, KernelTypeOK
<1>9. QED
  BY <1>6, <1>7, <1>8

\* A read that found nothing takes at most the pending error away.
LEMMA NothingReadInv ==
  ASSUME Inv, NEW c \in Conns, NothingRead(c)
  PROVE  Inv'
<1> USE DEF Inv, NothingRead, Done, serverVars, cdpVars
<1>1. TypeOK'
  BY DEF TypeOK, KernelTypeOK, ClientTypeOK, Tree!TypeOK
<1>2. NoStaleEvent' /\ StreamsOK' /\ OpenOK' /\ MessageOK'
  BY DEF NoStaleEvent, StreamsOK, OpenOK, MessageOK, TypeOK, KernelTypeOK
<1>3. QED
  BY <1>1, <1>2

\* What all the handlers of data share: c is open, and rd stays within bounds.
LEMMA DataInv ==
  ASSUME Inv, NEW c \in Conns, DataEvent(c)
  PROVE  /\ sock[c] = "open" /\ fd[c] \in Fds
         /\ rd' \in [Conns -> Nat] /\ rd'[c] = NewRd(c)
         /\ \A d \in Conns : rd[d] <= rd'[d]
         /\ \A d \in Conns \ {c} : rd'[d] = rd[d]
         /\ batch' \subseteq batch /\ err' \subseteq err
         /\ UNCHANGED <<sock, fd, ready, mode>>
<1> USE DEF Inv, DataEvent, Done
<1>1. sock[c] = "open" /\ fd[c] \in Fds
  BY DEF NoStaleEvent, OpenOK
<1>2. NewRd(c) \in Nat /\ rd[c] < NewRd(c)
  BY ReadBounds
<1>3. QED
  BY <1>1, <1>2 DEF TypeOK, KernelTypeOK

\* A step that handles data and changes no more of the kernel's state than a
\* write does keeps the parts of Inv that are about the kernel.
LEMMA DataKernel ==
  ASSUME Inv, NEW c \in Conns, DataEvent(c),
         out' \in [Conns -> Seq(Messages)],
         hit' \in [Conns -> BOOLEAN],
         skerr' \in [Conns -> {"none", "ECONNRESET", "EPIPE"}],
         \A d \in Conns : skerr'[d] # "none" => seen[d] = "rst",
         UNCHANGED <<sent, arrived, closing, seen, got>>
  PROVE  /\ KernelTypeOK' /\ ClientTypeOK'
         /\ \A d \in Conns : rd'[d] <= arrived'[d]
         /\ NoStaleEvent' /\ StreamsOK'
<1>0. /\ rd' \in [Conns -> Nat] /\ rd'[c] = NewRd(c)
      /\ \A d \in Conns \ {c} : rd'[d] = rd[d]
      /\ batch' \subseteq batch /\ err' \subseteq err
      /\ sock' = sock /\ fd' = fd /\ ready' = ready /\ mode' = mode
  BY DataInv
<1>1. \A d \in Conns : rd'[d] <= arrived[d]
  <2>1. NewRd(c) <= arrived[c]
    BY ReadBounds DEF Inv, DataEvent
  <2>2. \A d \in Conns : rd[d] <= arrived[d]
    BY DEF Inv, TypeOK
  <2>3. QED
    BY <1>0, <2>1, <2>2
<1>2. KernelTypeOK' /\ ClientTypeOK'
  <2>1. KernelTypeOK /\ ClientTypeOK
    BY DEF Inv, TypeOK
  <2>2. /\ sent' \in [Conns -> Seq(Frames)] /\ arrived' \in [Conns -> Nat]
        /\ closing' \in [Conns -> {"open", "fin", "rst"}]
        /\ seen' \in [Conns -> {"open", "fin", "rst"}]
        /\ got' \in [Conns -> Nat]
    BY <2>1 DEF KernelTypeOK
  <2>3. /\ sock' \in [Conns -> {"none", "backlog", "open", "closed"}]
        /\ fd' \in [Conns -> Fds \cup {NoFd}]
        /\ ready' \subseteq Sources /\ batch' \subseteq Sources /\ err' \subseteq Conns
    BY <1>0, <2>1 DEF KernelTypeOK
  <2>4. ClientTypeOK'
    BY <1>0, <2>1 DEF ClientTypeOK
  <2>5. QED
    BY <1>0, <2>2, <2>3, <2>4 DEF KernelTypeOK
<1>3. NoStaleEvent'
  BY <1>0 DEF Inv, NoStaleEvent
<1>4. StreamsOK'
  BY DEF Inv, StreamsOK
<1>5. QED
  BY <1>1, <1>2, <1>3, <1>4

\* Both lemmas for a step that writes nothing.
LEMMA SilentKernel ==
  ASSUME Inv, NEW c \in Conns, DataEvent(c), UNCHANGED netVars
  PROVE  /\ KernelTypeOK' /\ ClientTypeOK'
         /\ \A d \in Conns : rd'[d] <= arrived'[d]
         /\ NoStaleEvent' /\ StreamsOK'
<1> USE DEF Inv, netVars
<1>1. /\ out' \in [Conns -> Seq(Messages)]
      /\ hit' \in [Conns -> BOOLEAN]
      /\ skerr' \in [Conns -> {"none", "ECONNRESET", "EPIPE"}]
      /\ \A d \in Conns : skerr'[d] # "none" => seen[d] = "rst"
  BY DEF TypeOK, KernelTypeOK, StreamsOK
<1>2. QED
  BY <1>1, DataKernel

\* And for one that writes m to d.
LEMMA WritingKernel ==
  ASSUME Inv, NEW c \in Conns, DataEvent(c),
         NEW d \in Conns, NEW m \in Messages, Written(d, m)
  PROVE  /\ KernelTypeOK' /\ ClientTypeOK'
         /\ \A x \in Conns : rd'[x] <= arrived'[x]
         /\ NoStaleEvent' /\ StreamsOK'
<1>1. /\ out' \in [Conns -> Seq(Messages)]
      /\ hit' \in [Conns -> BOOLEAN]
      /\ skerr' \in [Conns -> {"none", "ECONNRESET", "EPIPE"}]
      /\ \A x \in Conns : skerr'[x] # "none" => seen[x] = "rst"
      /\ UNCHANGED <<sent, arrived, closing, seen, got>>
  BY WrittenType DEF Inv
<1>2. QED
  BY <1>1, DataKernel

\* A step that reads and forgets nothing.
LEMMA StartKept ==
  ASSUME Inv, NEW c \in Conns, DataEvent(c), UNCHANGED start
  PROVE  \A d \in Conns : start'[d] <= rd'[d]
<1> SUFFICES ASSUME NEW d \in Conns
             PROVE  start[d] <= rd'[d]
  OBVIOUS
<1>1. start[d] \in Nat /\ rd[d] \in Nat /\ start[d] <= rd[d]
  BY DEF Inv, TypeOK, KernelTypeOK
<1>2. rd'[d] \in Nat /\ rd[d] <= rd'[d]
  BY DataInv
<1>3. QED
  BY <1>1, <1>2

LEMMA IncompleteInv ==
  ASSUME Inv, NEW c \in Conns, Incomplete(c)
  PROVE  Inv'
<1> USE DEF Inv, Incomplete
<1>1. /\ KernelTypeOK' /\ ClientTypeOK'
      /\ \A d \in Conns : rd'[d] <= arrived'[d]
      /\ NoStaleEvent' /\ StreamsOK'
  BY SilentKernel
<1>2. \A d \in Conns : start'[d] <= rd'[d]
  BY StartKept
<1>3. TypeOK'
  BY <1>1, <1>2 DEF TypeOK, Tree!TypeOK
<1>4. OpenOK' /\ MessageOK'
  BY DataInv DEF OpenOK, MessageOK, TypeOK
<1>5. QED
  BY <1>1, <1>3, <1>4

LEMMA BadMagicInv ==
  ASSUME Inv, NEW c \in Conns, BadMagic(c)
  PROVE  Inv'
<1> USE DEF Inv, BadMagic, cdpVars, Die
<1>1. /\ KernelTypeOK' /\ ClientTypeOK'
      /\ \A d \in Conns : rd'[d] <= arrived'[d]
      /\ NoStaleEvent' /\ StreamsOK'
  BY SilentKernel
<1>2. \A d \in Conns : start'[d] <= rd'[d]
  BY StartKept
<1>3. TypeOK'
  BY <1>1, <1>2 DEF TypeOK, Tree!TypeOK, Causes
<1>4. OpenOK' /\ MessageOK'
  BY DataInv DEF OpenOK, MessageOK
<1>5. QED
  BY <1>1, <1>3, <1>4

\* Forget leaves start where the last read ended.
LEMMA ForgetType ==
  ASSUME Inv, NEW c \in Conns, DataEvent(c), Forget(c)
  PROVE  /\ start' \in [Conns -> Nat] /\ dirty' \in BOOLEAN
         /\ \A d \in Conns : start'[d] <= rd'[d]
<1> USE DEF Inv, Forget
<1>1. NewRd(c) \in Nat
  BY ReadBounds DEF DataEvent
<1>2. start' \in [Conns -> Nat] /\ dirty' \in BOOLEAN
  BY <1>1 DEF TypeOK
<1>3. \A d \in Conns : start'[d] <= rd'[d]
  <2>1. start'[c] = NewRd(c) /\ rd'[c] = NewRd(c)
    BY DataInv DEF TypeOK
  <2>2. \A d \in Conns \ {c} : start'[d] = start[d] /\ rd'[d] = rd[d]
    BY DataInv DEF TypeOK
  <2>3. QED
    BY <1>1, <2>1, <2>2 DEF TypeOK, KernelTypeOK
<1>4. QED
  BY <1>2, <1>3

LEMMA LoginInv ==
  ASSUME Inv, NEW c \in Conns, Login(c)
  PROVE  Inv'
<1> USE DEF Inv, Login
<1> DEFINE u == Frame(c).name
<1>1. DataEvent(c) /\ u \in Users /\ fd[c] \in Fds /\ sock[c] = "open"
  BY DataInv, FrameSent DEF WholeFrame, DataEvent, Frames
<1>2. Info("200") \in Messages
  BY DEF Info, Messages, Infos
<1>3. /\ KernelTypeOK' /\ ClientTypeOK'
      /\ \A d \in Conns : rd'[d] <= arrived'[d]
      /\ NoStaleEvent' /\ StreamsOK'
  BY <1>1, <1>2, WritingKernel
<1>4. Tree!TypeOK'
  BY <1>1, EnterType DEF TypeOK
<1>5. /\ start' \in [Conns -> Nat] /\ dirty' \in BOOLEAN
      /\ \A d \in Conns : start'[d] <= rd'[d]
  <2>1. CASE WriteResult(c) = "failed"
    <3>1. UNCHANGED <<start, dirty>>
      BY <2>1
    <3>2. \A d \in Conns : start[d] <= rd[d] /\ rd[d] <= rd'[d] /\ rd[d] \in Nat /\ start[d] \in Nat
      BY <1>1, DataInv DEF TypeOK, KernelTypeOK
    <3>3. rd' \in [Conns -> Nat]
      BY <1>1, DataInv
    <3>4. start' \in [Conns -> Nat] /\ dirty' \in BOOLEAN
      BY <3>1, Zenon DEF TypeOK
    <3>5. \A d \in Conns : start'[d] <= rd'[d]
      <4>1. SUFFICES ASSUME NEW d \in Conns PROVE start'[d] <= rd'[d]
        OBVIOUS
      <4>2. start[d] <= rd[d] /\ rd[d] <= rd'[d] /\ rd[d] \in Nat /\ start[d] \in Nat /\ rd'[d] \in Nat
        BY <3>2, <3>3
      <4>3. QED
        BY <3>1, <4>2
    <3>6. QED
      BY <3>4, <3>5
  <2>2. CASE WriteResult(c) # "failed"
    BY <1>1, <2>2, ForgetType
  <2>3. QED
    BY <2>1, <2>2
<1>6. /\ cstate' \in [Conns -> {"INITIAL", "AUTH", "MESSAGE"}]
      /\ user' \in [Conns -> Users \cup {NoUser, Junk}]
      /\ status' \in {"running"} \cup Causes
  BY <1>1 DEF TypeOK, Causes, Die
<1>7. TypeOK'
  BY <1>3, <1>4, <1>5, <1>6 DEF TypeOK
<1>8. OpenOK' /\ MessageOK'
  <2>1. sock[c] = "open" /\ sock' = sock /\ fd' = fd
    BY <1>1, DataInv
  <2>2. user \in [Conns -> Users \cup {NoUser, Junk}] /\ OpenOK /\ MessageOK
    BY DEF TypeOK
  <2>3. OpenOK'
    BY <1>1, <2>1, <2>2 DEF OpenOK
  <2>4. MessageOK'
    BY <1>1, <1>6, <2>2 DEF MessageOK, TypeOK
  <2>5. QED
    BY <2>3, <2>4
<1>9. QED
  BY <1>3, <1>7, <1>8

LEMMA RefuseInv ==
  ASSUME Inv, NEW c \in Conns, Refuse(c)
  PROVE  Inv'
<1> USE DEF Inv, Refuse
<1>1. DataEvent(c)
  BY DEF WholeFrame
<1>2. Info("401") \in Messages
  BY DEF Info, Messages, Infos
<1>3. /\ KernelTypeOK' /\ ClientTypeOK'
      /\ \A d \in Conns : rd'[d] <= arrived'[d]
      /\ NoStaleEvent' /\ StreamsOK'
  BY <1>1, <1>2, WritingKernel
<1>4. /\ start' \in [Conns -> Nat] /\ dirty' \in BOOLEAN
      /\ \A d \in Conns : start'[d] <= rd'[d]
  BY <1>1, ForgetType
<1>5. /\ cstate' \in [Conns -> {"INITIAL", "AUTH", "MESSAGE"}]
      /\ user' \in [Conns -> Users \cup {NoUser, Junk}]
      /\ status' \in {"running"} \cup Causes /\ strayed' \in BOOLEAN
  BY DEF TypeOK, Causes, Die, FreeUser, Stray
<1>6. TypeOK'
  BY <1>3, <1>4, <1>5 DEF TypeOK, Tree!TypeOK
<1>7. OpenOK' /\ MessageOK'
  <2>1. sock[c] = "open" /\ sock' = sock /\ fd' = fd
    BY <1>1, DataInv
  <2>2. OpenOK /\ MessageOK /\ user \in [Conns -> Users \cup {NoUser, Junk}]
        /\ cstate \in [Conns -> {"INITIAL", "AUTH", "MESSAGE"}]
    BY DEF TypeOK
  <2>3. OpenOK'
    BY <2>1, <2>2, ServerAssumption DEF OpenOK
  <2>4. MessageOK'
    BY <2>2 DEF MessageOK
  <2>5. QED
    BY <2>3, <2>4
<1>8. QED
  BY <1>3, <1>6, <1>7

\* A chat message bears the name of the connection's user: in MESSAGE_STATE
\* there is one.
LEMMA ForwardInv ==
  ASSUME Inv, NEW c \in Conns, Forward(c)
  PROVE  Inv'
<1> USE DEF Inv, Forward
<1>1. DataEvent(c) /\ FrameNo(c) \in DOMAIN sent[c] /\ Frame(c) \in Frames
  BY FrameSent DEF WholeFrame, DataEvent
<1>2. Chat(c) \in Messages
  <2>1. user[c] \in Users /\ Frame(c).name \in Users
    BY <1>1 DEF MessageOK, Frames
  <2>2. FrameNo(c) \in Nat \ {0}
    BY <1>1 DEF TypeOK, KernelTypeOK
  <2>3. QED
    BY <2>1, <2>2 DEF Chat, Messages, Chats
<1>3. /\ KernelTypeOK' /\ ClientTypeOK'
      /\ \A d \in Conns : rd'[d] <= arrived'[d]
      /\ NoStaleEvent' /\ StreamsOK'
      /\ status' \in {"running"} \cup Causes
  <2>1. CASE UNCHANGED <<netVars, status>>
    BY <1>1, <2>1, SilentKernel DEF TypeOK
  <2>2. ASSUME NEW d \in Conns, Written(d, Chat(c)),
               status' = IF WriteResult(d) = "sigpipe" THEN "sigpipe" ELSE "running"
        PROVE  /\ KernelTypeOK' /\ ClientTypeOK'
               /\ \A x \in Conns : rd'[x] <= arrived'[x]
               /\ NoStaleEvent' /\ StreamsOK'
               /\ status' \in {"running"} \cup Causes
    BY <1>1, <1>2, <2>2, WritingKernel DEF Causes
  <2>3. PICK f \in Tree!Lookup(Frame(c).name) :
          IF \E d \in Conns : d \in Owners(f)
          THEN \E d \in Owners(f) :
                 /\ Written(d, Chat(c))
                 /\ status' = IF WriteResult(d) = "sigpipe" THEN "sigpipe" ELSE "running"
          ELSE UNCHANGED <<netVars, status>>
    OBVIOUS
  <2>4. CASE \E d \in Conns : d \in Owners(f)
    <3>1. PICK d \in Owners(f) :
            /\ Written(d, Chat(c))
            /\ status' = IF WriteResult(d) = "sigpipe" THEN "sigpipe" ELSE "running"
      BY <2>3, <2>4
    <3>2. d \in Conns
      BY DEF Owners
    <3>3. QED
      BY <2>2, <3>1, <3>2
  <2>5. CASE ~ \E d \in Conns : d \in Owners(f)
    BY <2>1, <2>3, <2>5
  <2>6. QED
    BY <2>4, <2>5
<1>4. /\ start' \in [Conns -> Nat] /\ dirty' \in BOOLEAN
      /\ \A d \in Conns : start'[d] <= rd'[d]
  BY <1>1, ForgetType
<1>5. TypeOK'
  BY <1>3, <1>4 DEF TypeOK, Tree!TypeOK
<1>6. OpenOK' /\ MessageOK'
  BY <1>1, DataInv DEF OpenOK, MessageOK
<1>7. QED
  BY <1>3, <1>5, <1>6

LEMMA NextInv == Inv /\ [Next]_vars => Inv'
<1> SUFFICES ASSUME Inv, [Next]_vars PROVE Inv'
  OBVIOUS
<1>1. CASE EpollWait
  BY <1>1, EpollWaitInv
<1>2. CASE NewUserHandler
  BY <1>2, AcceptInv
<1>3. ASSUME NEW c \in Conns, HandleEvent(c) PROVE Inv'
  <2>1. CASE ErrorEvent(c) \/ EndOfStream(c)
    BY <2>1, DisconnectInv DEF ErrorEvent, EndOfStream
  <2>2. CASE NothingRead(c)
    BY <2>2, NothingReadInv
  <2>3. CASE Incomplete(c)
    BY <2>3, IncompleteInv
  <2>4. CASE BadMagic(c)
    BY <2>4, BadMagicInv
  <2>5. CASE Login(c)
    BY <2>5, LoginInv
  <2>6. CASE Refuse(c)
    BY <2>6, RefuseInv
  <2>7. CASE Forward(c)
    BY <2>7, ForwardInv
  <2>8. QED
    BY <1>3, <2>1, <2>2, <2>3, <2>4, <2>5, <2>6, <2>7 DEF HandleEvent
<1>4. ASSUME NEW c \in Conns, Network(c) PROVE Inv'
  BY <1>4, NetworkInv
<1>5. ASSUME NEW c \in Conns, ClientNext(c), UNCHANGED serverVars PROVE Inv'
  BY <1>5, ClientInv
<1>6. CASE UNCHANGED vars
  <2>1. UNCHANGED <<sock, fd, rd, sent, arrived, closing, seen, hit, skerr, out, got,
                    ready, batch, err, mode, cstate, user, start, dir, dirty, strayed, status>>
    BY <1>6 DEF vars, kernelVars, netVars, epollVars, serverVars, cdpVars
  <2>2. TypeOK'
    BY <2>1 DEF Inv, TypeOK, KernelTypeOK, ClientTypeOK, Tree!TypeOK
  <2>3. NoStaleEvent' /\ StreamsOK' /\ OpenOK' /\ MessageOK'
    BY <2>1 DEF Inv, NoStaleEvent, StreamsOK, OpenOK, MessageOK
  <2>4. QED
    BY <2>2, <2>3 DEF Inv
<1>7. QED
  BY <1>1, <1>2, <1>3, <1>4, <1>5, <1>6 DEF Next, ServerNext

LEMMA Invariance == Spec => []Inv
<1>1. QED
  BY InitInv, NextInv, PTL DEF Spec

\* The variables keep their types, and a cdp's buffer starts at bytes that were
\* read, which are bytes that arrived: server.c's read and append never run
\* ahead of the stream, whatever pieces it comes in.
THEOREM TypeCorrect == Spec => []TypeOK
<1>1. Inv => TypeOK
  BY DEF Inv
<1>2. QED
  BY Invariance, <1>1, PTL

\* No event of a freed cdp: whatever order connections are accepted, fail and
\* are closed in, closeConn leaves none in epoll or in the batch being handled.
THEOREM NoStale == Spec => []NoStaleEvent
<1>1. Inv => NoStaleEvent
  BY DEF Inv
<1>2. QED
  BY Invariance, <1>1, PTL

-----------------------------------------------------------------------------
(* The tree and the sessions.  A connection whose "200" could not be sent is *)
(* the delicate case: it is logged in, its cdp is still in AUTH_STATE, and   *)
(* one more frame on it would lead to resetClient, which forgets the name    *)
(* but not the entry.                                                        *)

IInv == Inv /\ HalfLoginReset /\ HalfLoginDrained /\ EntriesMatchSessions

LEMMA SessionsFinite ==
  \A u \in Users : /\ IsFiniteSet(Sessions(u))
                   /\ Cardinality(Sessions(u)) \in Nat
<1>1. IsFiniteSet(Conns)
  BY KernelAssumption
<1>2. \A u \in Users : Sessions(u) \subseteq Conns
  BY DEF Sessions
<1>3. QED
  BY <1>1, <1>2, FS_Subset, FS_CardinalityType

\* What keeps connections and users of every session keeps the counts.
LEMMA SameSessions ==
  ASSUME EntriesMatchSessions, UNCHANGED dir, strayed => strayed',
         \A c \in Conns : \A u \in Users :
           (sock'[c] = "open" /\ user'[c] = u) <=> (sock[c] = "open" /\ user[c] = u)
  PROVE  EntriesMatchSessions'
<1>1. \A u \in Users : Sessions(u)' = Sessions(u)
  BY DEF Sessions
<1>2. QED
  BY <1>1 DEF EntriesMatchSessions

\* Nothing more comes from a connection with a failed answer.
LEMMA HalfLoginSilent ==
  ASSUME IInv, NEW c \in Conns, DataEvent(c)
  PROVE  ~HalfLogin(c)
<1>1. arrived[c] \in Nat /\ rd[c] < NewRd(c) /\ NewRd(c) <= arrived[c] /\ rd[c] \in Nat /\ NewRd(c) \in Nat
  BY ReadBounds DEF IInv, Inv, DataEvent, TypeOK, KernelTypeOK
<1>2. QED
  BY <1>1 DEF IInv, HalfLoginDrained

\* Under WideRead a read leaves nothing.
LEMMA ReadsAll ==
  ASSUME WideRead, Inv, NEW c \in Conns, DataEvent(c)
  PROVE  NewRd(c) = arrived[c]
<1>1. /\ rd[c] \in Nat /\ arrived[c] \in Nat /\ Len(sent[c]) \in Nat /\ rd[c] <= arrived[c]
      /\ FrameLen \in Nat /\ MaxFrames \in Nat /\ ReadMax \in Nat
  BY KernelAssumption DEF Inv, TypeOK, KernelTypeOK
<1>2. arrived[c] <= FrameLen * Len(sent[c]) /\ Len(sent[c]) <= MaxFrames
  BY DEF Inv, StreamsOK
<1>3. FrameLen * Len(sent[c]) <= FrameLen * MaxFrames
  BY <1>1, <1>2, SMT
<1>4. FrameLen * Len(sent[c]) \in Nat /\ FrameLen * MaxFrames \in Nat
  BY <1>1
<1>5. Unread(c) \in Nat /\ Unread(c) <= ReadMax
  BY <1>1, <1>2, <1>3, <1>4 DEF Unread, WideRead
<1>6. ReadLen(c) = Unread(c)
  BY <1>1, <1>5 DEF ReadLen
<1>7. QED
  BY <1>1, <1>6 DEF NewRd, Unread

\* The steps of the network, of a client, of epoll_wait and of accept touch no
\* session.
LEMMA OutsideIInv ==
  ASSUME IInv, Inv',
         \/ \E c \in Conns : Network(c)
         \/ \E c \in Conns : ClientNext(c) /\ UNCHANGED serverVars
         \/ EpollWait
         \/ UNCHANGED vars
  PROVE  IInv'
<1> USE DEF IInv, serverVars, cdpVars, netVars
<1>1. UNCHANGED <<cstate, user, start, dir, rd, strayed>>
  BY DEF Network, Arrive, FinArrive, RstArrive, ClientNext, startNewConnection, connect,
    SendAuth, SendChat, client_write, ReadReply, Receive, Take, Close, client_close,
    EpollWait, epoll_wait, vars, kernelVars, epollVars
<1>2. \A c \in Conns : sock'[c] = "open" <=> sock[c] = "open"
  <2>1. \/ UNCHANGED sock
        \/ \E c \in Conns : sock[c] = "none" /\ sock' = [sock EXCEPT ![c] = "backlog"]
    BY DEF Network, Arrive, FinArrive, RstArrive, ClientNext, startNewConnection, connect,
      SendAuth, SendChat, client_write, ReadReply, Receive, Take, Close, client_close,
      EpollWait, epoll_wait, vars, kernelVars, epollVars
  <2>2. CASE UNCHANGED sock
    BY <2>2
  <2>3. ASSUME NEW c \in Conns, sock[c] = "none", sock' = [sock EXCEPT ![c] = "backlog"]
        PROVE  \A d \in Conns : sock'[d] = "open" <=> sock[d] = "open"
    <3>1. sock \in [Conns -> {"none", "backlog", "open", "closed"}]
      BY DEF Inv, TypeOK, KernelTypeOK
    <3>2. sock'[c] = "backlog" /\ \A d \in Conns \ {c} : sock'[d] = sock[d]
      BY <2>3, <3>1
    <3>3. QED
      BY <2>3, <3>2
  <2>4. QED
    BY <2>1, <2>2, <2>3
<1>3. \A c \in Conns : seen[c] = "rst" => seen'[c] = "rst" /\ arrived'[c] = arrived[c]
  <2>1. CASE \E c \in Conns : Network(c)
    <3>1. PICK c \in Conns : Network(c)
      BY <2>1
    <3>2. seen \in [Conns -> {"open", "fin", "rst"}] /\ arrived \in [Conns -> Nat]
      BY DEF Inv, TypeOK, KernelTypeOK
    <3>3. CASE Arrive(c)
      BY <3>2, <3>3 DEF Arrive
    <3>4. CASE FinArrive(c)
      BY <3>2, <3>4 DEF FinArrive
    <3>5. CASE RstArrive(c)
      BY <3>2, <3>5 DEF RstArrive
    <3>6. QED
      BY <3>1, <3>3, <3>4, <3>5 DEF Network
  <2>2. CASE ~ \E c \in Conns : Network(c)
    <3>1. UNCHANGED <<seen, arrived>>
      BY <2>2 DEF ClientNext, startNewConnection, connect,
        SendAuth, SendChat, client_write, ReadReply, Receive, Take, Close, client_close,
        EpollWait, epoll_wait, vars, kernelVars, epollVars
    <3>2. QED
      BY <3>1
  <2>3. QED
    BY <2>1, <2>2
<1>4. HalfLoginReset' /\ HalfLoginDrained'
  BY <1>1, <1>3 DEF HalfLoginReset, HalfLoginDrained, HalfLogin
<1>5. EntriesMatchSessions'
  BY <1>1, <1>2, SameSessions
<1>6. QED
  BY <1>4, <1>5

LEMMA AcceptIInv ==
  ASSUME IInv, Inv', NewUserHandler
  PROVE  IInv'
<1> USE DEF IInv, netVars, cdpVars
<1>1. UNCHANGED <<rd, arrived, seen, dir, strayed>>
  BY DEF NewUserHandler
<1>2. PICK c \in Conns :
        /\ sock[c] = "backlog"
        /\ \/ UNCHANGED <<sock, cdpVars>>
           \/ sock' = [sock EXCEPT ![c] = "open"] /\ CreateNewClient(c)
  BY DEF NewUserHandler
<1>3. CASE UNCHANGED <<sock, cdpVars>>
  <2>1. HalfLoginReset' /\ HalfLoginDrained'
    BY <1>1, <1>3 DEF HalfLoginReset, HalfLoginDrained, HalfLogin
  <2>2. EntriesMatchSessions'
    BY <1>1, <1>3, SameSessions
  <2>3. QED
    BY <2>1, <2>2
<1>4. CASE sock' = [sock EXCEPT ![c] = "open"] /\ CreateNewClient(c)
  <2>1. PICK u \in {NoUser, Junk} : user' = [user EXCEPT ![c] = u]
    BY <1>4 DEF CreateNewClient
  <2>2. user'[c] \notin Users /\ user[c] \notin Users
    BY <1>2, <2>1, ServerAssumption DEF Inv, OpenOK, TypeOK
  <2>3. \A d \in Conns \ {c} : user'[d] = user[d] /\ sock'[d] = sock[d] /\ cstate'[d] = cstate[d]
    BY <1>4, <2>1 DEF Inv, TypeOK, KernelTypeOK, CreateNewClient
  <2>4. HalfLoginReset' /\ HalfLoginDrained'
    BY <1>1, <2>2, <2>3 DEF HalfLoginReset, HalfLoginDrained, HalfLogin
  <2>5. EntriesMatchSessions'
    BY <1>1, <2>2, <2>3, SameSessions
  <2>6. QED
    BY <2>4, <2>5
<1>5. QED
  BY <1>2, <1>3, <1>4

\* What is left of the sessions of a name when c's ends.
LEMMA SessionEnds ==
  ASSUME NEW c \in Conns, NEW u \in Users, sock[c] = "open", sock'[c] # "open",
         \A d \in Conns \ {c} : user'[d] = user[d] /\ sock'[d] = sock[d]
  PROVE  Cardinality(Sessions(u)') =
           IF user[c] = u THEN Cardinality(Sessions(u)) - 1 ELSE Cardinality(Sessions(u))
<1>1. CASE user[c] = u
  <2>1. Sessions(u)' = Sessions(u) \ {c} /\ c \in Sessions(u)
    BY <1>1 DEF Sessions
  <2>2. Cardinality(Sessions(u) \ {c}) = Cardinality(Sessions(u)) - 1
    BY <2>1, SessionsFinite, FS_RemoveElement
  <2>3. QED
    BY <1>1, <2>1, <2>2
<1>2. CASE user[c] # u
  <2>1. Sessions(u)' = Sessions(u)
    BY <1>2 DEF Sessions
  <2>2. QED
    BY <1>2, <2>1
<1>3. QED
  BY <1>1, <1>2

\* The connection of a name counts as one of its sessions.
LEMMA SessionCounts ==
  ASSUME NEW c \in Conns, NEW u \in Users, sock[c] = "open", user[c] = u
  PROVE  Cardinality(Sessions(u)) >= 1
<1>1. c \in Sessions(u)
  BY DEF Sessions
<1>2. Cardinality(Sessions(u)) # 0
  BY <1>1, SessionsFinite, FS_EmptySet
<1>3. QED
  BY <1>2, SessionsFinite

\* A session ends together with one entry of its name, if one is left: there is,
\* unless a pointer left over was followed.  Following one takes an entry of
\* anyone.
LEMMA DisconnectIInv ==
  ASSUME IInv, Inv', NEW c \in Conns, c \in batch, Disconnect(c)
  PROVE  IInv'
<1> USE DEF IInv
<1>1. /\ sock[c] = "open" /\ sock'[c] # "open" /\ user'[c] = NoUser
      /\ \A d \in Conns \ {c} : user'[d] = user[d] /\ sock'[d] = sock[d] /\ cstate'[d] = cstate[d]
      /\ UNCHANGED <<rd, arrived, seen>>
  BY DEF Inv, NoStaleEvent, TypeOK, KernelTypeOK, Disconnect, closeConn, close, netVars
<1>2. HalfLoginReset' /\ HalfLoginDrained'
  BY <1>1, ServerAssumption DEF HalfLoginReset, HalfLoginDrained, HalfLogin
<1>3. /\ RemoveEntry(c) /\ Tree!TypeOK
      /\ user[c] = Junk => strayed' = TRUE
      /\ user[c] # Junk => strayed' = strayed
  BY DEF Disconnect, Stray, Inv, TypeOK
<1>4. EntriesMatchSessions'
  <2>1. SUFFICES ASSUME NEW v \in Users
                 PROVE  /\ Len(dir'[v]) <= Cardinality(Sessions(v)')
                        /\ ~strayed' => Len(dir'[v]) = Cardinality(Sessions(v)')
    BY DEF EntriesMatchSessions
  <2>2. /\ Len(dir[v]) \in Nat /\ Cardinality(Sessions(v)) \in Nat
        /\ Len(dir[v]) <= Cardinality(Sessions(v))
        /\ ~strayed => Len(dir[v]) = Cardinality(Sessions(v))
    BY <1>3, SessionsFinite DEF EntriesMatchSessions, Tree!TypeOK
  <2>3. Cardinality(Sessions(v)') =
          IF user[c] = v THEN Cardinality(Sessions(v)) - 1 ELSE Cardinality(Sessions(v))
    BY <1>1, SessionEnds
  <2>4. CASE user[c] = v
    <3>1. Cardinality(Sessions(v)) >= 1
      BY <1>1, <2>4, SessionCounts
    <3>2. v # Junk /\ NameRead(c) = {v}
      BY <2>4, ServerAssumption DEF NameRead
    <3>3. CASE dir[v] = <<>>
      <4>1. Len(dir[v]) = 0 /\ UNCHANGED dir
        BY <1>3, <3>2, <3>3 DEF RemoveEntry
      <4>2. QED
        BY <1>3, <2>2, <2>3, <2>4, <3>1, <4>1
    <3>4. CASE dir[v] # <<>>
      <4>1. Tree!Leave(v)
        BY <1>3, <3>2, <3>4 DEF RemoveEntry
      <4>2. Len(dir'[v]) = Len(dir[v]) - 1
        BY <1>3, <4>1, LeaveType
      <4>3. QED
        BY <1>3, <2>2, <2>3, <2>4, <3>1, <3>2, <4>2
    <3>5. QED
      BY <3>3, <3>4
  <2>5. CASE user[c] # v
    <3>1. CASE dir'[v] = dir[v]
      BY <1>3, <2>2, <2>3, <2>5, <3>1
    <3>2. CASE dir'[v] # dir[v]
      <4>1. PICK u \in Users : u \in NameRead(c) /\ dir[u] # <<>> /\ Tree!Leave(u)
        BY <1>3, <3>2, RemovedEntry
      <4>2. u = v /\ Len(dir'[v]) = Len(dir[v]) - 1
        BY <1>3, <3>2, <4>1, LeaveType
      <4>3. user[c] = Junk
        BY <2>5, <4>1, <4>2 DEF NameRead
      <4>4. QED
        BY <1>3, <2>2, <2>3, <2>5, <4>2, <4>3
    <3>3. QED
      BY <3>1, <3>2
  <2>6. QED
    BY <2>4, <2>5
<1>5. QED
  BY <1>2, <1>4

\* A login files one entry for one new session.  The premise is for the case
\* that its "200" cannot be sent.
LEMMA LoginIInv ==
  ASSUME IInv, Inv', NEW c \in Conns, Login(c), HalfLoginDrained'
  PROVE  IInv'
<1> USE DEF IInv, Login
<1>0. PICK u \in Users : Frame(c).name = u
  BY FrameSent DEF WholeFrame, DataEvent, Frames, Inv
<1>1. DataEvent(c) /\ fd[c] \in Fds /\ sock[c] = "open" /\ UNCHANGED sock /\ Inv
  BY DataInv DEF WholeFrame
<1>2. /\ user[c] \notin Users /\ user'[c] = u
      /\ \A d \in Conns \ {c} : user'[d] = user[d] /\ cstate'[d] = cstate[d]
  BY <1>0, <1>1, DataInv DEF Verified, Inv, TypeOK
<1>3. UNCHANGED <<seen, strayed>>
  BY DEF Written
<1>4. cstate'[c] # "MESSAGE" => seen[c] = "rst"
  BY DEF Inv, TypeOK, StreamsOK, WriteResult
<1>5. HalfLoginReset'
  BY <1>2, <1>3, <1>4 DEF HalfLoginReset, HalfLogin
<1>6. /\ Len(dir'[u]) = Len(dir[u]) + 1
      /\ \A v \in Users \ {u} : dir'[v] = dir[v]
  BY <1>0, <1>1, EnterType DEF Inv, TypeOK
<1>7. /\ Sessions(u)' = Sessions(u) \cup {c} /\ c \notin Sessions(u)
      /\ \A v \in Users \ {u} : Sessions(v)' = Sessions(v)
  BY <1>1, <1>2 DEF Sessions
<1>8. Cardinality(Sessions(u)') = Cardinality(Sessions(u)) + 1
  BY <1>1, <1>7, SessionsFinite, FS_AddElement
<1>9. EntriesMatchSessions'
  <2>1. SUFFICES ASSUME NEW v \in Users
                 PROVE  /\ Len(dir'[v]) <= Cardinality(Sessions(v)')
                        /\ ~strayed' => Len(dir'[v]) = Cardinality(Sessions(v)')
    BY DEF EntriesMatchSessions
  <2>2. /\ Len(dir[v]) \in Nat /\ Cardinality(Sessions(v)) \in Nat
        /\ Len(dir[v]) <= Cardinality(Sessions(v))
        /\ ~strayed => Len(dir[v]) = Cardinality(Sessions(v))
    BY SessionsFinite DEF EntriesMatchSessions, Inv, TypeOK, Tree!TypeOK
  <2>3. CASE v = u
    BY <1>3, <1>6, <1>8, <2>2, <2>3
  <2>4. CASE v # u
    BY <1>3, <1>6, <1>7, <2>2, <2>4
  <2>5. QED
    BY <2>3, <2>4
<1>10. QED
  BY <1>5, <1>9

\* The premise holds where the read that brings a login leaves nothing.
LEMMA LoginDrained ==
  ASSUME IInv, NEW c \in Conns, Login(c), NewRd(c) = arrived[c]
  PROVE  HalfLoginDrained'
<1>1. DataEvent(c) /\ Inv
  BY DEF IInv, Login, WholeFrame
<1>2. /\ rd'[c] = NewRd(c) /\ UNCHANGED arrived
      /\ \A d \in Conns \ {c} : user'[d] = user[d] /\ cstate'[d] = cstate[d] /\ rd'[d] = rd[d]
  BY <1>1, DataInv DEF Login, Written, Inv, TypeOK
<1>3. QED
  BY <1>2 DEF IInv, HalfLoginDrained, HalfLogin

\* The other handlers of data: none of them ends a session.
LEMMA DataIInv ==
  ASSUME IInv, Inv', NEW c \in Conns,
         Incomplete(c) \/ BadMagic(c) \/ Refuse(c) \/ Forward(c) \/ NothingRead(c)
  PROVE  IInv'
<1> USE DEF IInv, netVars, serverVars, cdpVars
<1>1. UNCHANGED <<sock, dir, seen, arrived>> /\ (strayed => strayed')
  <2>1. CASE Forward(c)
    BY <2>1 DEF Forward, WholeFrame, DataEvent, Written
  <2>2. CASE ~Forward(c)
    BY <2>2 DEF Incomplete, BadMagic, Refuse, NothingRead, WholeFrame, DataEvent, Written, Stray
  <2>3. QED
    BY <2>1, <2>2
<1>2. \A d \in Conns : user'[d] # user[d] => user[d] \notin Users /\ user'[d] \notin Users
  <2>1. CASE Refuse(c)
    <3>1. ~HalfLogin(c) /\ cstate[c] # "MESSAGE"
      BY <2>1, HalfLoginSilent DEF Refuse, WholeFrame
    <3>2. user[c] \notin Users
      BY <3>1 DEF HalfLogin
    <3>3. QED
      BY <2>1, <3>2, ServerAssumption DEF Refuse, Inv, TypeOK
  <2>2. CASE ~Refuse(c)
    BY <2>2 DEF Incomplete, BadMagic, Forward, NothingRead
  <2>3. QED
    BY <2>1, <2>2
<1>3. EntriesMatchSessions'
  BY <1>1, <1>2, SameSessions
<1>4. \A d \in Conns : HalfLogin(d)' => HalfLogin(d) /\ rd'[d] = rd[d]
  <2>1. CASE NothingRead(c)
    BY <2>1 DEF NothingRead, HalfLogin
  <2>2. CASE DataEvent(c) /\ ~NothingRead(c)
    <3>1. ~HalfLogin(c)
      BY <2>2, HalfLoginSilent
    <3>2. \A d \in Conns \ {c} : rd'[d] = rd[d] /\ cstate'[d] = cstate[d]
      BY <2>2, DataInv DEF Inv, TypeOK, Incomplete, BadMagic, Refuse, Forward
    <3>3. cstate'[c] # "MESSAGE" => cstate[c] # "MESSAGE"
      BY <2>2 DEF Inv, TypeOK, Incomplete, BadMagic, Refuse, Forward
    <3>4. QED
      BY <1>2, <3>1, <3>2, <3>3 DEF HalfLogin
  <2>3. QED
    BY <2>1, <2>2 DEF Incomplete, BadMagic, Refuse, Forward, WholeFrame
<1>5. HalfLoginReset' /\ HalfLoginDrained'
  BY <1>1, <1>4 DEF HalfLoginReset, HalfLoginDrained
<1>6. QED
  BY <1>3, <1>5

LEMMA NextIInv ==
  ASSUME IInv, [Next]_vars, \A c \in Conns : Login(c) => HalfLoginDrained'
  PROVE  IInv'
<1>1. Inv'
  BY NextInv DEF IInv
<1>2. CASE NewUserHandler
  BY <1>1, <1>2, AcceptIInv
<1>3. ASSUME NEW c \in Conns, HandleEvent(c) PROVE IInv'
  <2>1. CASE ErrorEvent(c) \/ EndOfStream(c)
    BY <1>1, <2>1, DisconnectIInv DEF ErrorEvent, EndOfStream
  <2>2. CASE Login(c)
    BY <1>1, <2>2, LoginIInv
  <2>3. CASE Incomplete(c) \/ BadMagic(c) \/ Refuse(c) \/ Forward(c) \/ NothingRead(c)
    BY <1>1, <2>3, DataIInv
  <2>4. QED
    BY <1>3, <2>1, <2>2, <2>3 DEF HandleEvent
<1>4. CASE \/ \E c \in Conns : Network(c)
           \/ \E c \in Conns : ClientNext(c) /\ UNCHANGED serverVars
           \/ EpollWait
           \/ UNCHANGED vars
  BY <1>1, <1>4, OutsideIInv
<1>5. QED
  BY <1>2, <1>3, <1>4 DEF Next, ServerNext

LEMMA InitIInv == Init => IInv
<1> SUFFICES ASSUME Init PROVE IInv
  OBVIOUS
<1>1. Inv
  BY InitInv
<1>2. HalfLoginReset /\ HalfLoginDrained
  BY ServerAssumption DEF Init, HalfLoginReset, HalfLoginDrained, HalfLogin
<1>3. \A u \in Users : Sessions(u) = {} /\ dir[u] = <<>>
  BY DEF Init, KernelInit, Sessions, Tree!Init
<1>4. EntriesMatchSessions
  <2>1. Cardinality({}) = 0
    BY FS_EmptySet
  <2>2. \A u \in Users : Cardinality(Sessions(u)) = 0 /\ Len(dir[u]) = 0
    <3>1. Len(<<>>) = 0
      OBVIOUS
    <3>2. QED
      BY <1>3, <2>1, <3>1, Zenon
  <2>3. QED
    BY <2>2 DEF EntriesMatchSessions
<1>5. QED
  BY <1>1, <1>2, <1>4 DEF IInv

\* Through duplicate logins, removals by name, resets, answers that could not be
\* sent and pointers left over, no entry of the tree is left behind, and none is
\* lost unless such a pointer was followed: for reads of any size, as long as
\* nothing is left to read behind a login whose "200" could not be sent.
THEOREM EntriesCounted == Spec /\ []HalfLoginDrained => []EntriesMatchSessions
<1>1. IInv /\ [Next]_vars /\ HalfLoginDrained' => IInv'
  BY NextIInv
<1>2. IInv => EntriesMatchSessions
  BY DEF IInv
<1>3. QED
  BY InitIInv, <1>1, <1>2, PTL DEF Spec

\* The premise holds for any clients that send no more than one read takes on a
\* connection (and, LoginProofs, where names are logged in once at a time).
THEOREM OneReadDrains ==
  ASSUME WideRead
  PROVE  Spec => []HalfLoginDrained
<1>1. IInv /\ [Next]_vars => IInv'
  <2>1. SUFFICES ASSUME IInv, [Next]_vars PROVE IInv'
    OBVIOUS
  <2>2. ASSUME NEW c \in Conns, Login(c) PROVE HalfLoginDrained'
    BY <2>1, <2>2, ReadsAll, LoginDrained DEF Login, WholeFrame, IInv
  <2>3. QED
    BY <2>1, <2>2, NextIInv
<1>2. IInv => HalfLoginDrained
  BY DEF IInv
<1>3. QED
  BY InitIInv, <1>1, <1>2, PTL DEF Spec
=============================================================================
