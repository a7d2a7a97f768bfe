----------------------------- MODULE PaceProofs -----------------------------
(***************************************************************************)
(* Theorems about Server for clients that wait until the server has read   *)
(* what they sent (Paced): what refreshClient() and resetClient() throw    *)
(* away is then never more than the frame that was handled, and cdp->buff  *)
(* never begins inside one.                                                *)
(***************************************************************************)
EXTENDS ServerProofs

PaceInv == Inv /\ InStep /\ NoDoubleFree

\* What FrameByFrame says of a step.
FrameTaken ==
  \A c \in Conns : sock[c] = "open" /\ sock'[c] = "open"
    => start'[c] \in {start[c], start[c] + FrameLen}

-----------------------------------------------------------------------------
(* Where the buffer starts when there is something to read.                *)

LEMMA MultipleAligned ==
  ASSUME NEW F \in Nat \ {0}, NEW k \in Nat
  PROVE  (F * k) % F = 0
BY SMT

\* Arithmetic: the last of n frames begins at a frame boundary.
LEMMA LastFrameAligned ==
  ASSUME NEW F \in Nat \ {0}, NEW s \in Nat, NEW n \in Nat, s + F = F * n
  PROVE  s % F = 0
<1>1. n # 0
  <2>1. F * 0 = 0
    OBVIOUS
  <2>2. QED
    BY <2>1
<1> DEFINE k == n - 1
<1>2. k \in Nat /\ n = k + 1
  BY <1>1
<1> HIDE DEF k
<1>3. F * (k + 1) = F * k + F
  BY <1>2, SMT
<1>4. F * k \in Nat
  BY <1>2, SMT
<1>5. s = F * k
  BY <1>2, <1>3, <1>4
<1>6. (F * k) % F = 0
  BY <1>2, MultipleAligned
<1>7. QED
  BY <1>5, <1>6

\* Data can be read only when a frame lies ahead, and it is one frame.
LEMMA DataPlace ==
  ASSUME PaceInv, NEW c \in Conns, DataEvent(c)
  PROVE  /\ start[c] + FrameLen = FrameLen * Len(sent[c])
         /\ NewRd(c) \in Nat /\ NewRd(c) <= FrameLen * Len(sent[c])
         /\ FrameLen \in Nat \ {0} /\ start[c] \in Nat /\ Len(sent[c]) \in Nat
         /\ FrameLen * Len(sent[c]) \in Nat
         /\ HdrLen < FrameLen /\ HdrLen \in Nat
         /\ Aligned(c)
         /\ sock[c] = "open"
<1>1. /\ sock[c] = "open" /\ start[c] \in Nat /\ rd[c] \in Nat /\ arrived[c] \in Nat
      /\ Len(sent[c]) \in Nat /\ start[c] <= rd[c]
      /\ arrived[c] <= FrameLen * Len(sent[c])
  BY DataInv DEF PaceInv, Inv, TypeOK, KernelTypeOK, StreamsOK
<1>2. FrameLen \in Nat \ {0} /\ HdrLen < FrameLen /\ HdrLen \in Nat
  BY KernelAssumption
<1>3. FrameLen * Len(sent[c]) \in Nat
  BY <1>1, <1>2, SMT
<1>4. NewRd(c) \in Nat /\ rd[c] < NewRd(c) /\ NewRd(c) <= arrived[c]
  BY ReadBounds DEF PaceInv, Inv, DataEvent
<1>5. start[c] # FrameLen * Len(sent[c])
  BY <1>1, <1>3, <1>4
<1>6. start[c] + FrameLen = FrameLen * Len(sent[c])
  BY <1>1, <1>5 DEF PaceInv, InStep, AtMostOneAhead
<1>7. start[c] % FrameLen = 0
  BY <1>1, <1>2, <1>6, LastFrameAligned
<1>8. NewRd(c) <= FrameLen * Len(sent[c])
  BY <1>1, <1>3, <1>4
<1>9. QED
  BY <1>1, <1>2, <1>3, <1>4, <1>6, <1>7, <1>8 DEF Aligned

\* So the magic of a header is never wrong.
LEMMA MagicIsGood ==
  ASSUME PaceInv, NEW c \in Conns
  PROVE  ~BadMagic(c)
BY DataPlace DEF BadMagic

-----------------------------------------------------------------------------
(* The invariant, action by action.                                        *)

LEMMA InitPace == Init => PaceInv
<1> SUFFICES ASSUME Init PROVE PaceInv
  OBVIOUS
<1>1. \A c \in Conns : /\ seen[c] = "open" /\ start[c] = 0 /\ Len(sent[c]) = 0
  <2>1. Len(<<>>) = 0
    OBVIOUS
  <2>2. QED
    BY <2>1 DEF Init, KernelInit
<1>2. FrameLen * 0 = 0
  BY KernelAssumption
<1>3. InStep
  BY <1>1, <1>2 DEF InStep, AtMostOneAhead
<1>4. NoDoubleFree
  BY DEF Init, NoDoubleFree
<1>5. QED
  BY <1>3, <1>4, InitInv DEF PaceInv

\* A step that moves no stream and no buffer.
LEMMA QuietPace ==
  ASSUME PaceInv, Inv', NoDoubleFree',
         UNCHANGED <<sent, rd, start>>,
         \A c \in Conns : closing[c] # "open" => closing'[c] # "open",
         \A c \in Conns : seen'[c] # "open" => closing'[c] # "open",
         \A c \in Conns :
           /\ sock'[c] \in {"none", "backlog"} => sock[c] \in {"none", "backlog"}
           /\ sock'[c] # "closed" => sock[c] # "closed"
  PROVE  PaceInv' /\ FrameTaken
<1>1. InStep'
  BY DEF PaceInv, InStep, AtMostOneAhead
<1>2. FrameTaken
  BY DEF FrameTaken
<1>3. QED
  BY <1>1, <1>2 DEF PaceInv

LEMMA NetworkPace ==
  ASSUME PaceInv, Inv', NEW c \in Conns, Network(c)
  PROVE  PaceInv' /\ FrameTaken
<1>1. UNCHANGED <<sent, rd, start, closing, sock, status>>
  BY DEF Network, Arrive, FinArrive, RstArrive, serverVars, cdpVars
<1>2. NoDoubleFree'
  BY <1>1 DEF PaceInv, NoDoubleFree
<1>3. seen \in [Conns -> {"open", "fin", "rst"}]
  BY DEF PaceInv, Inv, TypeOK, KernelTypeOK
<1>4. \A d \in Conns : seen'[d] # "open" => closing[d] # "open"
  <2>1. \A d \in Conns : seen[d] # "open" => closing[d] # "open"
    BY DEF PaceInv, InStep
  <2>2. CASE Arrive(c)
    BY <2>1, <2>2 DEF Arrive
  <2>3. CASE FinArrive(c)
    BY <1>3, <2>1, <2>3 DEF FinArrive
  <2>4. CASE RstArrive(c)
    BY <1>3, <2>1, <2>4 DEF RstArrive
  <2>5. QED
    BY <2>2, <2>3, <2>4 DEF Network
<1>5. QED
  BY <1>1, <1>2, <1>4, QuietPace

\* A paced client writes when the server has read all, and then cdp->buff is
\* empty.
LEMMA WritePace ==
  ASSUME Paced, PaceInv, Inv', NEW c \in Conns, NEW f \in Frames,
         client_write(c, f), InPace(c), UNCHANGED serverVars
  PROVE  PaceInv' /\ FrameTaken
<1>1. /\ sent' = [sent EXCEPT ![c] = Append(@, f)]
      /\ sent \in [Conns -> Seq(Frames)] /\ closing[c] = "open"
      /\ UNCHANGED <<sock, rd, start, closing, seen, status>>
  BY DEF client_write, serverVars, cdpVars, PaceInv, Inv, TypeOK, KernelTypeOK
<1>2. sent[c] \in Seq(Frames) /\ sent'[c] = Append(sent[c], f)
      /\ \A d \in Conns \ {c} : sent'[d] = sent[d]
  BY <1>1
<1>3. Len(sent'[c]) = Len(sent[c]) + 1 /\ Len(sent[c]) \in Nat
  BY <1>2, AppendProperties
<1>4. FrameLen \in Nat \ {0} /\ FrameLen * Len(sent[c]) \in Nat
      /\ FrameLen * Len(sent'[c]) = FrameLen * Len(sent[c]) + FrameLen
  <2>1. FrameLen \in Nat \ {0}
    BY KernelAssumption
  <2>2. QED
    BY <1>3, <2>1, SMT
<1>5. rd[c] = FrameLen * Len(sent[c])
  BY DEF InPace
<1>6. ASSUME sock[c] # "closed" PROVE start[c] = FrameLen * Len(sent[c])
  BY <1>1, <1>4, <1>5, <1>6 DEF PaceInv, InStep, AtMostOneAhead
<1>7. ASSUME sock[c] # "closed" PROVE AtMostOneAhead(c)'
  BY <1>1, <1>4, <1>5, <1>6, <1>7 DEF AtMostOneAhead
<1>8. \A d \in Conns \ {c} : AtMostOneAhead(d) => AtMostOneAhead(d)'
  BY <1>1, <1>2 DEF AtMostOneAhead
<1>9. InStep'
  BY <1>1, <1>7, <1>8 DEF PaceInv, InStep
<1>10. FrameTaken /\ NoDoubleFree'
  BY <1>1 DEF FrameTaken, PaceInv, NoDoubleFree
<1>11. QED
  BY <1>9, <1>10 DEF PaceInv

LEMMA ClientPace ==
  ASSUME Paced, PaceInv, Inv', NEW c \in Conns, ClientNext(c), UNCHANGED serverVars
  PROVE  PaceInv' /\ FrameTaken
<1>0. /\ sock \in [Conns -> {"none", "backlog", "open", "closed"}]
      /\ closing \in [Conns -> {"open", "fin", "rst"}]
      /\ \A d \in Conns : seen[d] # "open" => closing[d] # "open"
      /\ NoDoubleFree'
  BY DEF PaceInv, Inv, InStep, TypeOK, KernelTypeOK, NoDoubleFree, serverVars
<1>1. CASE SendAuth(c)
  <2>1. PICK u \in Users, good \in Creds :
          client_write(c, [kind |-> "auth", name |-> u, good |-> good])
    BY <1>1 DEF SendAuth
  <2>2. [kind |-> "auth", name |-> u, good |-> good] \in Frames
    BY ClientAssumption DEF Frames
  <2>3. InPace(c)
    BY <1>1 DEF SendAuth
  <2>4. QED
    BY <2>1, <2>2, <2>3, WritePace
<1>2. CASE SendChat(c)
  <2>1. PICK to \in Users : client_write(c, [kind |-> "chat", name |-> to, good |-> TRUE])
    BY <1>2 DEF SendChat
  <2>2. [kind |-> "chat", name |-> to, good |-> TRUE] \in Frames
    BY DEF Frames
  <2>3. InPace(c)
    BY <1>2 DEF SendChat
  <2>4. QED
    BY <2>1, <2>2, <2>3, WritePace
<1>3. CASE startNewConnection(c)
  <2>1. /\ sock[c] = "none" /\ sock' = [sock EXCEPT ![c] = "backlog"]
        /\ UNCHANGED <<sent, rd, start, closing, seen>>
    BY <1>3 DEF startNewConnection, connect, netVars, serverVars, cdpVars
  <2>2. QED
    BY <1>0, <2>1, QuietPace
<1>4. CASE ReadReply(c) \/ Receive(c)
  <2>1. UNCHANGED <<sock, sent, rd, start, closing, seen>>
    BY <1>4 DEF ReadReply, Receive, Take, serverVars, cdpVars
  <2>2. QED
    BY <1>0, <2>1, QuietPace
<1>5. CASE Close(c)
  <2>1. /\ UNCHANGED <<sock, sent, rd, start, seen>>
        /\ \E e \in {"fin", "rst"} : closing' = [closing EXCEPT ![c] = e]
    BY <1>5 DEF Close, client_close, serverVars, cdpVars
  <2>2. \A d \in Conns : closing[d] # "open" => closing'[d] # "open"
    BY <1>0, <2>1
  <2>3. QED
    BY <1>0, <2>1, <2>2, QuietPace
<1>6. QED
  BY <1>1, <1>2, <1>3, <1>4, <1>5 DEF ClientNext

LEMMA AcceptPace ==
  ASSUME PaceInv, Inv', NewUserHandler
  PROVE  PaceInv' /\ FrameTaken
<1>1. PICK c \in Conns :
        /\ sock[c] = "backlog"
        /\ \/ Die("exited") /\ UNCHANGED <<sock, fd, ready, cdpVars>>
           \/ /\ sock' = [sock EXCEPT ![c] = "open"]
              /\ CreateNewClient(c) /\ UNCHANGED status
  BY DEF NewUserHandler
<1>2. UNCHANGED <<sent, rd, closing, seen>>
  BY DEF NewUserHandler, netVars
<1>3. NoDoubleFree'
  BY <1>1 DEF Die, PaceInv, NoDoubleFree
<1>4. CASE UNCHANGED <<sock, cdpVars>>
  BY <1>2, <1>3, <1>4, QuietPace DEF cdpVars, PaceInv, InStep
<1>5. CASE sock' = [sock EXCEPT ![c] = "open"] /\ CreateNewClient(c)
  <2>1. /\ sock \in [Conns -> {"none", "backlog", "open", "closed"}]
        /\ start \in [Conns -> Nat]
    BY DEF PaceInv, Inv, TypeOK, KernelTypeOK
  <2>2. start' = start
    BY <1>1, <1>5, <2>1 DEF CreateNewClient, PaceInv, InStep
  <2>3. \A d \in Conns : seen[d] # "open" => closing[d] # "open"
    BY DEF PaceInv, InStep
  <2>4. QED
    BY <1>1, <1>2, <1>3, <1>5, <2>1, <2>2, <2>3, QuietPace
<1>6. QED
  BY <1>1, <1>4, <1>5 DEF cdpVars

LEMMA DisconnectPace ==
  ASSUME PaceInv, Inv', NEW c \in Conns, Disconnect(c)
  PROVE  PaceInv' /\ FrameTaken
<1>1. /\ sock \in [Conns -> {"none", "backlog", "open", "closed"}]
      /\ start \in [Conns -> Nat]
  BY DEF PaceInv, Inv, TypeOK, KernelTypeOK
<1>2. /\ UNCHANGED <<sent, rd, closing, seen>>
      /\ sock'[c] = "closed" /\ \A d \in Conns \ {c} : sock'[d] = sock[d] /\ start'[d] = start[d]
  BY <1>1 DEF Disconnect, closeConn, close, netVars
<1>3. NoDoubleFree'
  BY DEF Disconnect, FreeUser, Die, NoDoubleFree
<1>4. InStep'
  BY <1>2 DEF PaceInv, InStep, AtMostOneAhead
<1>5. QED
  BY <1>2, <1>3, <1>4 DEF PaceInv, FrameTaken

\* A read that leaves the buffer, or gives up all of it.
LEMMA DataPace ==
  ASSUME PaceInv, Inv', NEW c \in Conns, DataEvent(c), NoDoubleFree',
         UNCHANGED <<sent, closing, seen>>,
         \/ UNCHANGED start /\ (NewRd(c) < FrameLen * Len(sent[c]) \/ closing[c] # "open")
         \/ Complete(c) /\ start' = [start EXCEPT ![c] = NewRd(c)]
  PROVE  PaceInv' /\ FrameTaken
<1>1. /\ UNCHANGED sock /\ rd'[c] = NewRd(c) /\ start \in [Conns -> Nat]
      /\ \A d \in Conns \ {c} : rd'[d] = rd[d]
      /\ \A d \in Conns : seen[d] # "open" => closing[d] # "open"
  BY DataInv DEF PaceInv, Inv, InStep, TypeOK
<1>2. /\ start[c] + FrameLen = FrameLen * Len(sent[c]) /\ sock[c] = "open"
      /\ NewRd(c) \in Nat /\ NewRd(c) <= FrameLen * Len(sent[c])
      /\ FrameLen \in Nat /\ start[c] \in Nat /\ FrameLen * Len(sent[c]) \in Nat
  BY DataPlace
<1>3. \A d \in Conns \ {c} : start'[d] = start[d]
  BY <1>1
<1>4. start'[c] = start[c] \/ (start'[c] = start[c] + FrameLen)
  <2>1. Complete(c) => NewRd(c) = start[c] + FrameLen
    BY <1>2 DEF Complete, Used
  <2>2. QED
    BY <1>1, <2>1
<1>5. AtMostOneAhead(c)'
  <2>1. Complete(c) => NewRd(c) = FrameLen * Len(sent[c])
    BY <1>2 DEF Complete, Used
  <2>2. QED
    BY <1>1, <1>2, <2>1 DEF AtMostOneAhead
<1>6. \A d \in Conns \ {c} : AtMostOneAhead(d) => AtMostOneAhead(d)'
  BY <1>1, <1>3 DEF AtMostOneAhead
<1>7. InStep'
  BY <1>1, <1>2, <1>3, <1>5, <1>6 DEF PaceInv, InStep
<1>8. FrameTaken
  BY <1>3, <1>4 DEF FrameTaken
<1>9. QED
  BY <1>7, <1>8 DEF PaceInv

LEMMA HandlePace ==
  ASSUME PaceInv, Inv', NEW c \in Conns,
         Incomplete(c) \/ Login(c) \/ Refuse(c) \/ Forward(c)
  PROVE  PaceInv' /\ FrameTaken
<1>1. DataEvent(c) /\ UNCHANGED <<sent, closing, seen>>
  <2>1. CASE Forward(c)
    BY <2>1 DEF Forward, WholeFrame, Written, netVars
  <2>2. CASE ~Forward(c)
    BY <2>2 DEF Incomplete, Login, Refuse, WholeFrame, Written, netVars
  <2>3. QED
    BY <2>1, <2>2
<1>2. NoDoubleFree'
  <2>1. NoDoubleFree
    BY DEF PaceInv
  <2>2. QED
    BY <2>1 DEF Incomplete, Login, Refuse, Forward, FreeUser, Die, NoDoubleFree
<1>3. CASE Incomplete(c)
  <2>1. NewRd(c) < FrameLen * Len(sent[c])
    BY <1>1, <1>3, DataPlace DEF Incomplete, Used, Complete
  <2>2. QED
    BY <1>1, <1>2, <1>3, <2>1, DataPace DEF Incomplete
<1>4. CASE Login(c) /\ WriteResult(c) = "failed"
  <2>1. seen[c] = "rst"
    BY <1>4 DEF WriteResult, PaceInv, Inv, StreamsOK, TypeOK, KernelTypeOK
  <2>2. closing[c] # "open"
    BY <2>1 DEF PaceInv, InStep
  <2>3. QED
    BY <1>1, <1>2, <1>4, <2>2, DataPace DEF Login
<1>5. CASE (Login(c) /\ WriteResult(c) # "failed") \/ Refuse(c) \/ Forward(c)
  <2>1. Complete(c) /\ Forget(c)
    BY <1>5 DEF Login, Refuse, Forward, WholeFrame
  <2>2. QED
    BY <1>1, <1>2, <2>1, DataPace DEF Forget
<1>6. QED
  BY <1>3, <1>4, <1>5

-----------------------------------------------------------------------------
(* The specification.                                                      *)

LEMMA NextPace ==
  ASSUME Paced
  PROVE  PaceInv /\ [Next]_vars => PaceInv' /\ FrameTaken
<1> SUFFICES ASSUME PaceInv, [Next]_vars PROVE PaceInv' /\ FrameTaken
  OBVIOUS
<1>1. Inv'
  BY NextInv DEF PaceInv
<1>2. ASSUME NEW c \in Conns, HandleEvent(c) PROVE PaceInv' /\ FrameTaken
  <2>1. CASE ErrorEvent(c) \/ EndOfStream(c)
    BY <1>1, <2>1, DisconnectPace DEF ErrorEvent, EndOfStream
  <2>2. CASE NothingRead(c)
    <3>1. UNCHANGED <<sock, sent, rd, start, closing, seen, status>>
      BY <2>2 DEF NothingRead, serverVars, cdpVars
    <3>2. QED
      BY <1>1, <3>1, QuietPace DEF PaceInv, InStep, NoDoubleFree
  <2>3. CASE Incomplete(c) \/ Login(c) \/ Refuse(c) \/ Forward(c)
    BY <1>1, <2>3, HandlePace
  <2>4. QED
    BY <1>2, <2>1, <2>2, <2>3, MagicIsGood DEF HandleEvent
<1>3. CASE EpollWait \/ UNCHANGED vars
  <2>1. UNCHANGED <<sock, sent, rd, start, closing, seen, status>>
    BY <1>3 DEF EpollWait, epoll_wait, vars, kernelVars, netVars, serverVars, cdpVars
  <2>2. QED
    BY <1>1, <2>1, QuietPace DEF PaceInv, InStep, NoDoubleFree
<1>4. QED
  BY <1>1, <1>2, <1>3, AcceptPace, NetworkPace, ClientPace DEF Next, ServerNext

\* Someone who types at the pace of the server never makes it free a header
\* twice: however the frames are cut, after every login, refusal and message
\* cdp->buff begins with the magic of the next frame.
THEOREM NeverFreedTwice ==
  ASSUME Paced
  PROVE  Spec => []NoDoubleFree
<1>1. PaceInv /\ [Next]_vars => PaceInv'
  BY NextPace
<1>2. PaceInv => NoDoubleFree
  BY DEF PaceInv
<1>3. QED
  BY InitPace, <1>1, <1>2, PTL DEF Spec

\* Nor does the server then throw away anything unread: on a connection that
\* stays open it gives up one frame, the one it has handled, or none.
THEOREM OneFrameAtATime ==
  ASSUME Paced
  PROVE  Spec => FrameByFrame
<1>1. PaceInv /\ [Next]_vars => PaceInv'
  BY NextPace
<1>2. PaceInv /\ [Next]_vars => [FrameTaken]_vars
  BY NextPace
<1>3. Spec => [][FrameTaken]_vars
  BY InitPace, <1>1, <1>2, PTL DEF Spec
<1>4. QED
  BY <1>3, PTL DEF FrameByFrame, FrameTaken
=============================================================================
