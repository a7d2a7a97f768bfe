---------------------------- MODULE ServiceProofs ----------------------------
(***************************************************************************)
(* The steps of Server for clients that log in once at a time: each keeps  *)
(* the entries current, writes a message to its addressee only and is one  *)
(* of ChatService.  LoginProofs makes theorems of it.                      *)
(***************************************************************************)
EXTENDS ForwardProofs

CInv == /\ IInv /\ FInv
        /\ Claimed /\ ClaimedOnce /\ DistinctFds /\ EntryIsCurrent

-----------------------------------------------------------------------------
(* Sessions.                                                               *)

LEMMA OneSession ==
  ASSUME Claimed, ClaimedOnce, NEW u \in Users,
         NEW c \in Sessions(u), NEW d \in Sessions(u)
  PROVE  c = d
<1>1. /\ c \in Conns /\ d \in Conns /\ sock[c] = "open" /\ sock[d] = "open"
      /\ user[c] = u /\ user[d] = u
  BY DEF Sessions
<1>2. Claims(c, u) /\ Claims(d, u)
  BY <1>1 DEF Claimed
<1>3. QED
  BY <1>1, <1>2 DEF ClaimedOnce

LEMMA EntriesOf ==
  ASSUME CInv, NEW u \in Users
  PROVE  Len(dir[u]) \in Nat /\ Len(dir[u]) <= Cardinality(Sessions(u))
<1>1. Tree!TypeOK
  BY DEF CInv, IInv, Inv, TypeOK
<1>2. Len(dir[u]) \in Nat
  BY <1>1 DEF Tree!TypeOK
<1>3. Len(dir[u]) <= Cardinality(Sessions(u))
  BY DEF CInv, IInv, EntriesMatchSessions
<1>4. QED
  BY <1>2, <1>3

\* A name that nobody has a session under has no entry.
LEMMA NoEntry ==
  ASSUME CInv, NEW u \in Users, Sessions(u) = {}
  PROVE  Len(dir[u]) = 0
<1>1. Cardinality(Sessions(u)) = 0
  BY FS_EmptySet
<1>2. QED
  BY <1>1, EntriesOf

\* The one session of a name has one entry, or has lost it.
LEMMA OneEntry ==
  ASSUME CInv, NEW u \in Users
  PROVE  Len(dir[u]) = 0 \/ Len(dir[u]) = 1
<1>1. CASE Sessions(u) = {}
  BY <1>1, NoEntry
<1>2. ASSUME NEW c \in Sessions(u) PROVE Len(dir[u]) = 0 \/ Len(dir[u]) = 1
  <2>1. Sessions(u) = {c}
    BY OneSession DEF CInv
  <2>2. Cardinality({c}) = 1
    BY FS_Singleton
  <2>3. Cardinality(Sessions(u)) = 1
    BY <2>1, <2>2, Zenon
  <2>4. \A n \in Nat : n <= 1 => n = 0 \/ n = 1
    OBVIOUS
  <2>5. Len(dir[u]) \in Nat /\ Len(dir[u]) <= 1
    BY <2>3, EntriesOf, Zenon
  <2>6. QED
    BY <2>4, <2>5, Zenon
<1>3. QED
  BY <1>1, <1>2

\* Who has the descriptor that a name is found under is logged in under it.
LEMMA OwnerIsAddressee ==
  ASSUME CInv, NEW u \in Users, NEW f \in Tree!Lookup(u),
         NEW d \in Conns, d \in Owners(f)
  PROVE  sock[d] = "open" /\ user[d] = u
<1>1. sock[d] = "open" /\ fd[d] = f /\ f \in Fds
  BY DEF Owners, CInv, IInv, Inv, OpenOK
<1>2. f \in Nat
  BY <1>1, KernelAssumption
<1>3. PICK i \in DOMAIN dir[u] : f = dir[u][i]
  <2>1. CASE dir[u] = <<>>
    <3>1. f = -1
      BY <2>1 DEF Tree!Lookup, Tree!Offline
    <3>2. QED
      BY <1>2, <3>1
  <2>2. CASE dir[u] # <<>>
    BY <2>2 DEF Tree!Lookup, Tree!Met
  <2>3. QED
    BY <2>1, <2>2
<1>4. PICK e \in Sessions(u) : fd[e] = f
  BY <1>3 DEF CInv, EntryIsCurrent
<1>5. e \in Conns /\ sock[e] = "open" /\ user[e] = u
  BY DEF Sessions
<1>6. e = d
  BY <1>1, <1>4, <1>5 DEF CInv, DistinctFds
<1>7. QED
  BY <1>5, <1>6

-----------------------------------------------------------------------------
(* The invariant, action by action.                                        *)

LEMMA InitCInv == Init => CInv
<1> SUFFICES ASSUME Init PROVE CInv
  OBVIOUS
<1>1. IInv /\ FInv
  BY InitIInv, InitFInv
<1>2. \A c \in Conns : sock[c] = "none" /\ user[c] \notin Users /\ sent[c] = <<>>
  BY ServerAssumption DEF Init, KernelInit
<1>3. \A u \in Users : DOMAIN dir[u] = {}
  BY DEF Init, Tree!Init
<1>4. Claimed /\ ClaimedOnce /\ DistinctFds
  BY <1>2 DEF Claimed, ClaimedOnce, DistinctFds, Claims
<1>5. EntryIsCurrent
  BY <1>3 DEF EntryIsCurrent
<1>6. QED
  BY <1>1, <1>4, <1>5 DEF CInv

\* Steps that change no session, no entry and no claim.
LEMMA QuietCInv ==
  ASSUME CInv, IInv', FInv', UNCHANGED <<fd, sent, dir>>,
         \A c \in Conns : \A u \in Users : user'[c] = u <=> user[c] = u,
         \A c \in Conns : /\ sock'[c] = "open" <=> sock[c] = "open"
                          /\ sock[c] = "closed" => sock'[c] = "closed"
  PROVE  CInv'
<1>1. \A c \in Conns : \A u \in Users : Claims(c, u)' <=> Claims(c, u)
  BY DEF Claims
<1>2. Claimed'
  <2>1. SUFFICES ASSUME NEW c \in Conns, NEW u \in Users, user'[c] = u
                 PROVE  Claims(c, u)'
    BY DEF Claimed, Claims
  <2>2. QED
    BY <1>1, <2>1 DEF CInv, Claimed
<1>3. ClaimedOnce' /\ DistinctFds'
  BY <1>1 DEF CInv, ClaimedOnce, DistinctFds
<1>4. \A u \in Users : Sessions(u)' = Sessions(u)
  BY DEF Sessions
<1>5. EntryIsCurrent'
  BY <1>4 DEF CInv, EntryIsCurrent
<1>6. QED
  BY <1>2, <1>3, <1>5 DEF CInv

\* A client writes a frame; a login only under a name it MayClaim.
LEMMA WriteCInv ==
  ASSUME CInv, Relogin = "closed", IInv', FInv', NEW c \in Conns, NEW f \in Frames,
         client_write(c, f), UNCHANGED serverVars,
         f.kind = "auth" => MayClaim(c, f.name)
  PROVE  CInv'
<1>1. /\ sent' = [sent EXCEPT ![c] = Append(@, f)] /\ sent \in [Conns -> Seq(Frames)]
      /\ UNCHANGED <<sock, fd, user, dir>>
  BY DEF client_write, serverVars, cdpVars, CInv, IInv, Inv, TypeOK, KernelTypeOK
<1>2. /\ sent[c] \in Seq(Frames) /\ sent'[c] = Append(sent[c], f)
      /\ \A d \in Conns \ {c} : sent'[d] = sent[d]
  BY <1>1
<1>3. /\ DOMAIN sent[c] = 1 .. Len(sent[c]) /\ Len(sent[c]) \in Nat
      /\ DOMAIN sent'[c] = 1 .. Len(sent[c]) + 1
      /\ \A i \in 1 .. Len(sent[c]) : sent'[c][i] = sent[c][i]
      /\ sent'[c][Len(sent[c]) + 1] = f
  BY <1>2, AppendProperties
<1>4. \A d \in Conns : \A u \in Users : Claims(d, u) => Claims(d, u)'
  BY <1>2, <1>3 DEF Claims
<1>5. ASSUME NEW d \in Conns, NEW u \in Users, Claims(d, u)'
      PROVE  Claims(d, u) \/ (d = c /\ f.kind = "auth" /\ f.name = u)
  BY <1>2, <1>3, <1>5 DEF Claims
<1>6. Claimed'
  <2>1. SUFFICES ASSUME NEW d \in Conns, NEW u \in Users, user[d] = u
                 PROVE  Claims(d, u)'
    BY <1>1 DEF Claimed, Claims
  <2>2. QED
    BY <1>4, <2>1 DEF CInv, Claimed
<1>7. ClaimedOnce'
  <2>1. SUFFICES ASSUME NEW d \in Conns, NEW e \in Conns, NEW u \in Users,
                        d # e, Claims(d, u)', Claims(e, u)'
                 PROVE  sock[d] = "closed" \/ sock[e] = "closed"
    BY <1>1 DEF ClaimedOnce, Claims
  <2>2. ASSUME f.kind = "auth", f.name = u, NEW x \in Conns \ {c}, Claims(x, u)
        PROVE  sock[x] = "closed"
    <3>1. Claims(x, u) => sock[x] = "closed" \/ (Relogin = "closing" /\ closing[x] # "open")
                          \/ Relogin = "any"
      BY <2>2, Zenon DEF MayClaim
    <3>2. QED
      BY <2>2, <3>1
  <2>3. Claims(d, u) \/ (d = c /\ f.kind = "auth" /\ f.name = u)
    BY <1>5, <2>1
  <2>4. Claims(e, u) \/ (e = c /\ f.kind = "auth" /\ f.name = u)
    BY <1>5, <2>1
  <2>5. CASE Claims(d, u) /\ Claims(e, u)
    BY <2>1, <2>5 DEF CInv, ClaimedOnce
  <2>6. QED
    BY <2>1, <2>2, <2>3, <2>4, <2>5
<1>8. DistinctFds' /\ EntryIsCurrent'
  <2>1. \A u \in Users : Sessions(u)' = Sessions(u)
    BY <1>1 DEF Sessions
  <2>2. QED
    BY <1>1, <2>1 DEF CInv, DistinctFds, EntryIsCurrent
<1>9. QED
  BY <1>6, <1>7, <1>8 DEF CInv

\* A new connection takes a descriptor that no other has, and is nobody's yet.
LEMMA AcceptCInv ==
  ASSUME CInv, IInv', FInv', NewUserHandler
  PROVE  CInv'
<1>1. PICK c \in Conns :
        /\ sock[c] = "backlog"
        /\ \/ UNCHANGED <<sock, fd, cdpVars>>
           \/ /\ \E f \in LowestFds : fd' = [fd EXCEPT ![c] = f]
              /\ sock' = [sock EXCEPT ![c] = "open"]
              /\ CreateNewClient(c)
  BY DEF NewUserHandler
<1>2. UNCHANGED <<sent, dir>>
  BY DEF NewUserHandler, netVars
<1>3. CASE UNCHANGED <<sock, fd, cdpVars>>
  BY <1>2, <1>3, QuietCInv DEF cdpVars
<1>4. ASSUME NEW f \in LowestFds, fd' = [fd EXCEPT ![c] = f],
             sock' = [sock EXCEPT ![c] = "open"], CreateNewClient(c)
      PROVE  CInv'
  <2>1. /\ sock \in [Conns -> {"none", "backlog", "open", "closed"}]
        /\ fd \in [Conns -> Fds \cup {NoFd}]
        /\ user \in [Conns -> Users \cup {NoUser, Junk}]
    BY DEF CInv, IInv, Inv, TypeOK, KernelTypeOK
  <2>2. PICK u \in {NoUser, Junk} : user' = [user EXCEPT ![c] = u]
    BY <1>4 DEF CreateNewClient
  <2>3. /\ user'[c] \notin Users /\ user[c] \notin Users
        /\ fd'[c] = f /\ sock'[c] = "open" /\ sock[c] # "open" /\ sock[c] # "closed"
        /\ \A d \in Conns \ {c} : /\ user'[d] = user[d] /\ fd'[d] = fd[d]
                                  /\ sock'[d] = sock[d]
    BY <1>1, <1>4, <2>1, <2>2, ServerAssumption DEF CInv, IInv, Inv, OpenOK
  <2>4. \A d \in Conns : fd[d] # f
    BY DEF LowestFds, FreeFds
  <2>5. \A d \in Conns : \A v \in Users : Claims(d, v)' <=> Claims(d, v)
    BY <1>2 DEF Claims
  <2>6. Claimed'
    <3>1. SUFFICES ASSUME NEW d \in Conns, NEW v \in Users, user'[d] = v
                   PROVE  Claims(d, v)'
      BY DEF Claimed, Claims
    <3>2. d # c /\ user[d] = v
      BY <2>3, <3>1
    <3>3. QED
      BY <2>5, <3>2 DEF CInv, Claimed
  <2>7. ClaimedOnce' /\ DistinctFds'
    BY <2>3, <2>4, <2>5 DEF CInv, ClaimedOnce, DistinctFds
  <2>8. EntryIsCurrent'
    <3>1. \A v \in Users : Sessions(v)' = Sessions(v) /\ c \notin Sessions(v)
      BY <2>3 DEF Sessions
    <3>2. \A v \in Users : \A d \in Sessions(v) : d \in Conns \ {c}
      BY <3>1 DEF Sessions
    <3>3. QED
      BY <1>2, <2>3, <3>1, <3>2 DEF CInv, EntryIsCurrent
  <2>9. QED
    BY <2>6, <2>7, <2>8 DEF CInv
<1>5. QED
  BY <1>1, <1>3, <1>4

\* A session ends: of the name whose entry goes, its own or that of a pointer
\* left over, no other is left.
LEMMA DisconnectCInv ==
  ASSUME CInv, IInv', FInv', NEW c \in Conns, c \in batch, Disconnect(c), UNCHANGED mode
  PROVE  CInv'
<1>1. /\ sock \in [Conns -> {"none", "backlog", "open", "closed"}]
      /\ fd \in [Conns -> Fds \cup {NoFd}]
      /\ user \in [Conns -> Users \cup {NoUser, Junk}]
      /\ Tree!TypeOK /\ sock[c] = "open"
  BY DEF CInv, IInv, Inv, TypeOK, KernelTypeOK, NoStaleEvent
<1>2. /\ user'[c] \notin Users /\ sock'[c] = "closed"
      /\ \A d \in Conns \ {c} : /\ user'[d] = user[d] /\ fd'[d] = fd[d]
                                /\ sock'[d] = sock[d]
      /\ UNCHANGED sent
  BY <1>1, ServerAssumption DEF Disconnect, closeConn, close, netVars
<1>3. \A d \in Conns : \A v \in Users : Claims(d, v)' <=> Claims(d, v)
  BY <1>2 DEF Claims
<1>4. Claimed'
  <2>1. SUFFICES ASSUME NEW d \in Conns, NEW v \in Users, user'[d] = v
                 PROVE  Claims(d, v)'
    BY DEF Claimed, Claims
  <2>2. d # c /\ user[d] = v
    BY <1>2, <2>1
  <2>3. QED
    BY <1>3, <2>2 DEF CInv, Claimed
<1>5. ClaimedOnce' /\ DistinctFds'
  BY <1>2, <1>3 DEF CInv, ClaimedOnce, DistinctFds
<1>6. EntryIsCurrent'
  <2>1. SUFFICES ASSUME NEW v \in Users, NEW i \in DOMAIN dir'[v]
                 PROVE  \E d \in Sessions(v)' : fd'[d] = dir'[v][i]
    BY DEF EntryIsCurrent
  <2>2. ASSUME dir'[v] = dir[v], user[c] # v
        PROVE  \E d \in Sessions(v)' : fd'[d] = dir'[v][i]
    <3>1. PICK d \in Sessions(v) : fd[d] = dir[v][i]
      BY <2>1, <2>2 DEF CInv, EntryIsCurrent
    <3>2. d \in Conns \ {c} /\ sock[d] = "open" /\ user[d] = v
      BY <2>2 DEF Sessions
    <3>3. QED
      BY <1>2, <2>2, <3>1, <3>2 DEF Sessions
  <2>3. ~ Tree!Leave(v)
    <3>1. SUFFICES ASSUME Tree!Leave(v) PROVE FALSE
      OBVIOUS
    <3>2. Tree!TypeOK' /\ Len(dir'[v]) = Len(dir[v]) - 1
      BY <1>1, <3>1, LeaveType
    <3>3. Len(dir'[v]) <= 0
      <4>1. Len(dir[v]) = 0 \/ Len(dir[v]) = 1
        BY OneEntry, Zenon
      <4>2. 0 - 1 <= 0 /\ 1 - 1 <= 0
        OBVIOUS
      <4>3. QED
        BY <3>2, <4>1, <4>2, Zenon
    <3>4. DOMAIN dir'[v] = {}
      BY <3>2, <3>3 DEF Tree!TypeOK
    <3>5. QED
      BY <2>1, <3>4
  <2>4. PICK u \in NameRead(c) : IF u \in Users /\ dir[u] # <<>>
                                 THEN Tree!Leave(u) ELSE UNCHANGED dir
    BY DEF Disconnect, RemoveEntry
  <2>5. dir'[v] = dir[v]
    <3>1. CASE u \in Users /\ Tree!Leave(u)
      <4>1. \A w \in Users \ {u} : dir'[w] = dir[w]
        BY <1>1, <3>1, LeaveType
      <4>2. QED
        BY <2>3, <3>1, <4>1
    <3>2. QED
      BY <2>4, <3>1
  <2>6. user[c] # v
    <3>1. SUFFICES ASSUME user[c] = v PROVE FALSE
      OBVIOUS
    <3>2. u = v
      BY <3>1, ServerAssumption DEF NameRead
    <3>3. dir[v] # <<>>
      BY <2>1, <2>5
    <3>4. QED
      BY <2>3, <2>4, <3>2, <3>3
  <2>7. QED
    BY <2>2, <2>5, <2>6
<1>7. QED
  BY <1>4, <1>5, <1>6 DEF CInv

\* A login: what is decoded is a login of this client's, so that no other open
\* connection claims its name, nor has an entry.
LEMMA LoginOf ==
  ASSUME CInv, NEW c \in Conns, Login(c)
  PROVE  /\ Frame(c).name \in Users /\ Claims(c, Frame(c).name)
         /\ sock[c] = "open" /\ user[c] \notin Users /\ fd[c] \in Fds
         /\ Sessions(Frame(c).name) = {}
<1>1. /\ DataEvent(c) /\ sock[c] = "open" /\ fd[c] \in Fds
      /\ cstate[c] # "MESSAGE" /\ user[c] \notin Users
  BY DataInv DEF CInv, IInv, Login, WholeFrame, Verified
<1>2. FrameNo(c) \in DOMAIN sent[c] /\ Frame(c) \in Frames
  BY <1>1, FrameSent DEF Login, WholeFrame, DataEvent, CInv, IInv, Inv
<1>3. Frame(c).kind = "auth"
  BY <1>1, <1>2 DEF CInv, FInv, LoginsFirst, Frame
<1>4. PICK u \in Users : Frame(c).name = u
  BY <1>2 DEF Frames
<1>5. Claims(c, u)
  BY <1>2, <1>3, <1>4 DEF Claims, Frame
<1>6. ASSUME NEW d \in Sessions(u) PROVE FALSE
  <2>1. d \in Conns /\ sock[d] = "open" /\ user[d] = u /\ d # c
    BY <1>1 DEF Sessions
  <2>2. Claims(d, u)
    BY <2>1 DEF CInv, Claimed
  <2>3. QED
    BY <1>1, <1>5, <2>1, <2>2 DEF CInv, ClaimedOnce
<1>7. QED
  BY <1>1, <1>4, <1>5, <1>6

LEMMA LoginCInv ==
  ASSUME CInv, IInv', FInv', NEW c \in Conns, Login(c)
  PROVE  CInv'
<1>0. PICK u : u = Frame(c).name
  OBVIOUS
<1>1. /\ u \in Users /\ Claims(c, u)
      /\ sock[c] = "open" /\ user[c] \notin Users /\ fd[c] \in Fds /\ Sessions(u) = {}
  BY <1>0, LoginOf
<1>2. /\ user'[c] = u /\ \A d \in Conns \ {c} : user'[d] = user[d]
      /\ UNCHANGED <<sock, fd, sent>> /\ Tree!Enter(u, fd[c]) /\ Tree!TypeOK
  BY <1>0, DataInv DEF Login, WholeFrame, Written, CInv, IInv, Inv, TypeOK
<1>3. \A d \in Conns : \A v \in Users : Claims(d, v)' <=> Claims(d, v)
  BY <1>2 DEF Claims
<1>4. Claimed'
  <2>1. SUFFICES ASSUME NEW d \in Conns, NEW v \in Users, user'[d] = v
                 PROVE  Claims(d, v)'
    BY DEF Claimed, Claims
  <2>2. CASE d = c
    BY <1>1, <1>2, <1>3, <2>1, <2>2
  <2>3. CASE d # c
    BY <1>2, <1>3, <2>1, <2>3 DEF CInv, Claimed
  <2>4. QED
    BY <2>2, <2>3
<1>5. ClaimedOnce' /\ DistinctFds'
  BY <1>2, <1>3 DEF CInv, ClaimedOnce, DistinctFds
<1>6. EntryIsCurrent'
  <2>1. /\ Len(dir[u]) = 0 /\ dir[u] \in Seq(Fds)
        /\ dir'[u] = Append(dir[u], fd[c])
        /\ \A v \in Users \ {u} : dir'[v] = dir[v]
    BY <1>1, <1>2, NoEntry DEF Tree!Enter, Tree!TypeOK
  <2>2. DOMAIN dir'[u] = {1} /\ dir'[u][1] = fd[c]
    BY <1>1, <2>1
  <2>3. SUFFICES ASSUME NEW v \in Users, NEW i \in DOMAIN dir'[v]
                 PROVE  \E d \in Sessions(v)' : fd'[d] = dir'[v][i]
    BY DEF EntryIsCurrent
  <2>4. CASE v = u
    <3>1. c \in Sessions(u)' /\ fd'[c] = dir'[u][i]
      BY <1>1, <1>2, <2>2, <2>4 DEF Sessions
    <3>2. QED
      BY <2>4, <3>1
  <2>5. CASE v # u
    <3>1. PICK d \in Sessions(v) : fd[d] = dir[v][i]
      BY <2>1, <2>5 DEF CInv, EntryIsCurrent
    <3>2. d \in Sessions(v)'
      BY <1>1, <1>2, <2>5 DEF Sessions
    <3>3. QED
      BY <1>2, <2>1, <2>5, <3>1, <3>2
  <2>6. QED
    BY <2>4, <2>5
<1>7. QED
  BY <1>4, <1>5, <1>6 DEF CInv

\* A refused connection was nobody's.
LEMMA RefuseOf ==
  ASSUME CInv, NEW c \in Conns, Refuse(c)
  PROVE  user[c] \notin Users
<1>1. ~HalfLogin(c) /\ cstate[c] # "MESSAGE"
  BY HalfLoginSilent DEF Refuse, WholeFrame, CInv
<1>2. QED
  BY <1>1 DEF HalfLogin

\* The other steps: of the network, of epoll_wait, of the handlers that neither
\* begin nor end a session, of a client that does not write.
Quiet ==
  \/ EpollWait
  \/ \E c \in Conns : \/ Network(c) \/ NothingRead(c) \/ Incomplete(c) \/ BadMagic(c)
                      \/ Refuse(c) \/ Forward(c)
  \/ \E c \in Conns : /\ startNewConnection(c) \/ ReadReply(c) \/ Receive(c) \/ Close(c)
                      /\ UNCHANGED serverVars
  \/ UNCHANGED vars

LEMMA QuietSteps ==
  ASSUME CInv, Quiet
  PROVE  /\ UNCHANGED <<fd, sent, dir>>
         /\ \A c \in Conns : \A u \in Users : user'[c] = u <=> user[c] = u
         /\ \A c \in Conns : /\ sock'[c] = "open" <=> sock[c] = "open"
                             /\ sock[c] = "closed" => sock'[c] = "closed"
<1>1. CASE EpollWait \/ UNCHANGED vars
  BY <1>1 DEF EpollWait, epoll_wait, serverVars, cdpVars, netVars, vars, kernelVars
<1>2. ASSUME NEW c \in Conns, Network(c) \/ NothingRead(c) \/ Incomplete(c) \/ BadMagic(c)
      PROVE  UNCHANGED <<fd, sent, dir, sock, user>>
  BY <1>2 DEF Network, Arrive, FinArrive, RstArrive, NothingRead, Incomplete, BadMagic,
    DataEvent, serverVars, cdpVars, netVars
<1>3. ASSUME NEW c \in Conns, Refuse(c)
      PROVE  /\ UNCHANGED <<fd, sent, dir, sock>>
             /\ \A d \in Conns : \A u \in Users : user'[d] = u <=> user[d] = u
  <2>1. UNCHANGED <<fd, sent, dir, sock>> /\ user' = [user EXCEPT ![c] = NoUser]
    BY <1>3 DEF Refuse, WholeFrame, DataEvent, Written
  <2>2. user[c] \notin Users /\ user \in [Conns -> Users \cup {NoUser, Junk}]
    BY <1>3, RefuseOf DEF CInv, IInv, Inv, TypeOK
  <2>3. QED
    BY <2>1, <2>2, ServerAssumption
<1>4. ASSUME NEW c \in Conns, Forward(c)
      PROVE  UNCHANGED <<fd, sent, dir, sock, user>>
  BY <1>4 DEF Forward, WholeFrame, DataEvent, Written, netVars
<1>5. ASSUME NEW c \in Conns, ReadReply(c) \/ Receive(c) \/ Close(c), UNCHANGED serverVars
      PROVE  UNCHANGED <<fd, sent, dir, sock, user>>
  BY <1>5 DEF ReadReply, Receive, Take, Close, client_close, serverVars, cdpVars
<1>6. ASSUME NEW c \in Conns, startNewConnection(c), UNCHANGED serverVars
      PROVE  /\ UNCHANGED <<fd, sent, dir, user>>
             /\ \A d \in Conns : /\ sock'[d] = "open" <=> sock[d] = "open"
                                 /\ sock[d] = "closed" => sock'[d] = "closed"
  <2>1. /\ sock[c] = "none" /\ sock' = [sock EXCEPT ![c] = "backlog"]
        /\ sock \in [Conns -> {"none", "backlog", "open", "closed"}]
        /\ UNCHANGED <<fd, sent, dir, user>>
    BY <1>6 DEF startNewConnection, connect, netVars, serverVars, cdpVars,
      CInv, IInv, Inv, TypeOK, KernelTypeOK
  <2>2. QED
    BY <2>1
<1>7. QED
  BY <1>1, <1>2, <1>3, <1>4, <1>5, <1>6 DEF Quiet

Ends(c) == ErrorEvent(c) \/ EndOfStream(c)

Writes(c) == (SendAuth(c) \/ SendChat(c)) /\ UNCHANGED serverVars

LEMMA NextCases ==
  ASSUME [Next]_vars
  PROVE  \/ Quiet
         \/ NewUserHandler
         \/ \E c \in Conns : Ends(c) \/ Login(c) \/ Writes(c)
BY DEF Next, ServerNext, HandleEvent, ClientNext, Quiet, Ends, Writes

LEMMA WritesCInv ==
  ASSUME CInv, Relogin = "closed", IInv', FInv', NEW c \in Conns, Writes(c)
  PROVE  CInv'
<1>1. CASE SendAuth(c)
  <2>1. PICK u \in Users, good \in Creds :
          /\ MayClaim(c, u)
          /\ client_write(c, [kind |-> "auth", name |-> u, good |-> good])
    BY <1>1 DEF SendAuth
  <2>2. [kind |-> "auth", name |-> u, good |-> good] \in Frames
    BY ClientAssumption DEF Frames
  <2>3. QED
    BY <2>1, <2>2, WriteCInv DEF Writes
<1>2. CASE SendChat(c)
  <2>1. PICK to \in Users : client_write(c, [kind |-> "chat", name |-> to, good |-> TRUE])
    BY <1>2 DEF SendChat
  <2>2. [kind |-> "chat", name |-> to, good |-> TRUE] \in Frames
    BY DEF Frames
  <2>3. QED
    BY <2>1, <2>2, WriteCInv DEF Writes
<1>3. QED
  BY <1>1, <1>2 DEF Writes

LEMMA NextCInv ==
  ASSUME CInv, Relogin = "closed", [Next]_vars,
         \A c \in Conns : Login(c) => HalfLoginDrained'
  PROVE  CInv'
<1>1. IInv' /\ FInv'
  BY NextIInv, NextFInv DEF CInv
<1>2. CASE Quiet
  BY <1>1, <1>2, QuietSteps, QuietCInv
<1>3. CASE NewUserHandler
  BY <1>1, <1>3, AcceptCInv
<1>4. ASSUME NEW c \in Conns, Ends(c) PROVE CInv'
  BY <1>1, <1>4, DisconnectCInv DEF Ends, ErrorEvent, EndOfStream
<1>5. ASSUME NEW c \in Conns, Login(c) PROVE CInv'
  BY <1>1, <1>5, LoginCInv
<1>6. ASSUME NEW c \in Conns, Writes(c) PROVE CInv'
  BY <1>1, <1>6, WritesCInv
<1>7. QED
  BY <1>2, <1>3, <1>4, <1>5, <1>6, NextCases

-----------------------------------------------------------------------------
(* Every step is one of the service, or none.                              *)

\* What a message forwarded looks like, and where it goes.
LEMMA ForwardOf ==
  ASSUME CInv, NEW c \in Conns, Forward(c)
  PROVE  /\ sock[c] = "open" /\ user[c] \in Users
         /\ \/ UNCHANGED out
            \/ \E d \in Conns : /\ sock[d] = "open" /\ user[d] = Frame(c).name
                                /\ user[d] \in Users
                                /\ Written(d, Chat(c))
<1>1. DataEvent(c) /\ sock[c] = "open" /\ user[c] \in Users
  BY DataInv DEF CInv, IInv, Inv, MessageOK, Forward, WholeFrame
<1>2. Frame(c) \in Frames
  BY <1>1, FrameSent DEF Forward, WholeFrame, DataEvent, CInv, IInv, Inv
<1>3. PICK u \in Users : Frame(c).name = u
  BY <1>2 DEF Frames
<1>4. PICK f \in Tree!Lookup(u) :
        IF \E d \in Conns : d \in Owners(f)
        THEN \E d \in Owners(f) :
               /\ Written(d, Chat(c))
               /\ status' = IF WriteResult(d) = "sigpipe" THEN "sigpipe" ELSE "running"
        ELSE UNCHANGED <<netVars, status>>
  BY <1>3 DEF Forward
<1>5. CASE \E d \in Conns : d \in Owners(f)
  <2>1. PICK d \in Owners(f) : Written(d, Chat(c))
    BY <1>4, <1>5
  <2>2. d \in Conns
    BY DEF Owners
  <2>3. sock[d] = "open" /\ user[d] = u
    BY <2>2, OwnerIsAddressee
  <2>4. QED
    BY <1>1, <1>3, <2>1, <2>2, <2>3
<1>6. CASE ~ \E d \in Conns : d \in Owners(f)
  BY <1>1, <1>4, <1>6 DEF netVars
<1>7. QED
  BY <1>5, <1>6

\* A step that writes to the clients at all is one of three.
LEMMA SilentSteps ==
  ASSUME [Next]_vars, out' # out
  PROVE  \E c \in Conns : Login(c) \/ Refuse(c) \/ Forward(c)
<1>1. CASE EpollWait \/ NewUserHandler \/ UNCHANGED vars
  BY <1>1 DEF EpollWait, epoll_wait, NewUserHandler, netVars, vars, kernelVars
<1>2. ASSUME NEW c \in Conns, Network(c) PROVE FALSE
  BY <1>2 DEF Network, Arrive, FinArrive, RstArrive
<1>3. ASSUME NEW c \in Conns, ClientNext(c) PROVE FALSE
  BY <1>3 DEF ClientNext, startNewConnection, connect, SendAuth, SendChat, client_write,
    ReadReply, Receive, Take, Close, client_close, netVars
<1>4. ASSUME NEW c \in Conns, HandleEvent(c)
      PROVE  Login(c) \/ Refuse(c) \/ Forward(c)
  BY <1>4 DEF HandleEvent, ErrorEvent, EndOfStream, Disconnect, NothingRead, Incomplete,
    BadMagic, netVars
<1>5. QED
  BY <1>1, <1>2, <1>3, <1>4 DEF Next, ServerNext

\* The message written last is the one of this step.
LEMMA LastWritten ==
  ASSUME TypeOK, NEW d \in Conns, NEW m \in Messages, Written(d, m),
         NEW c \in Conns, out'[c] # out[c]
  PROVE  c = d /\ Last(out'[c]) = m
<1>1. /\ c = d /\ DOMAIN out'[d] = 1 .. Len(out[d]) + 1
      /\ out'[d][Len(out[d]) + 1] = m /\ Len(out[d]) \in Nat
      /\ Len(out'[d]) = Len(out[d]) + 1
  BY OutStep
<1>2. QED
  BY <1>1 DEF Last

LEMMA AddresseeStep ==
  ASSUME CInv, [Next]_vars, NEW c \in Conns, out'[c] # out[c],
         Last(out'[c]).kind = "chat"
  PROVE  user[c] = Last(out'[c]).to
<1>1. TypeOK
  BY DEF CInv, IInv, Inv
<1>2. PICK b \in Conns : Login(b) \/ Refuse(b) \/ Forward(b)
  BY SilentSteps
<1>3. CASE Login(b) \/ Refuse(b)
  <2>1. PICK m \in Infos : Written(b, m)
    BY <1>3 DEF Login, Refuse, Info, Infos
  <2>2. m \in Messages /\ m.kind # "chat"
    BY DEF Messages, Infos
  <2>3. QED
    BY <1>1, <2>1, <2>2, LastWritten
<1>4. CASE Forward(b)
  <2>1. PICK d \in Conns : user[d] = Frame(b).name /\ Written(d, Chat(b))
    BY <1>4, ForwardOf
  <2>2. Chat(b) \in Messages
    BY <1>4, ChatPlace DEF CInv, Forward
  <2>3. c = d /\ Last(out'[c]) = Chat(b)
    BY <1>1, <2>1, <2>2, LastWritten
  <2>4. Chat(b).to = Frame(b).name
    BY DEF Chat
  <2>5. QED
    BY <2>1, <2>3, <2>4
<1>5. QED
  BY <1>2, <1>3, <1>4

SessionNow == [c \in Conns |-> SessionOf(c)]

LEMMA SameSession ==
  ASSUME \A c \in Conns : \A u \in Users : user'[c] = u <=> user[c] = u,
         \A c \in Conns : sock'[c] = "open" <=> sock[c] = "open"
  PROVE  UNCHANGED SessionNow
<1>1. \A c \in Conns : SessionOf(c)' = SessionOf(c)
  BY DEF SessionOf
<1>2. QED
  BY <1>1 DEF SessionNow

\* write() is Tell.
LEMMA WrittenTell ==
  ASSUME NEW d \in Conns, NEW m, Written(d, m)
  PROVE  Service!Tell(d, m)
BY DEF Written, Service!Tell

LEMMA LoginService ==
  ASSUME CInv, NEW c \in Conns, Login(c)
  PROVE  \E u \in Users : Service!LogIn(c, u)
<1>0. PICK u : u = Frame(c).name
  OBVIOUS
<1>1. /\ u \in Users /\ sock[c] = "open" /\ user[c] \notin Users /\ Sessions(u) = {}
  BY <1>0, LoginOf
<1>2. /\ user'[c] = u /\ (\A d \in Conns \ {c} : user'[d] = user[d]) /\ UNCHANGED sock
      /\ Written(c, Info("200"))
  BY <1>0, DataInv DEF Login, WholeFrame, CInv, IInv, Inv, TypeOK
<1>3. SessionOf(c) = NoUser /\ \A d \in Conns : SessionOf(d) # u
  BY <1>1, ServerAssumption DEF SessionOf, Sessions
<1>4. SessionOf(c)' = u /\ \A d \in Conns \ {c} : SessionOf(d)' = SessionOf(d)
  BY <1>1, <1>2 DEF SessionOf
<1>5. SessionNow' = [SessionNow EXCEPT ![c] = u]
  BY <1>4 DEF SessionNow
<1>6. SessionNow[c] = NoUser /\ ~ \E d \in Conns : SessionNow[d] = u
  BY <1>3 DEF SessionNow
<1>7. Service!Tell(c, [kind |-> "200"])
  BY <1>2, WrittenTell DEF Info
<1>8. Service!LogIn(c, u)
  BY <1>5, <1>6, <1>7 DEF Service!LogIn, Service!Online, SessionNow
<1>9. QED
  BY <1>1, <1>8

LEMMA RefuseService ==
  ASSUME CInv, NEW c \in Conns, Refuse(c)
  PROVE  Service!Refuse(c)
<1>1. Quiet
  BY DEF Quiet
<1>2. UNCHANGED SessionNow
  BY <1>1, QuietSteps, SameSession
<1>3. SessionNow[c] = NoUser
  BY RefuseOf DEF SessionNow, SessionOf
<1>4. Service!Tell(c, [kind |-> "401"])
  BY WrittenTell DEF Refuse, Info
<1>5. QED
  BY <1>2, <1>3, <1>4 DEF Service!Refuse, SessionNow

LEMMA ForwardService ==
  ASSUME CInv, NEW c \in Conns, Forward(c)
  PROVE  \/ UNCHANGED <<SessionNow, out>>
         \/ \E d \in Conns, k \in 1 .. MaxFrames : Service!Send(c, d, k)
<1>1. UNCHANGED SessionNow
  <2>1. Quiet
    BY DEF Quiet
  <2>2. QED
    BY <2>1, QuietSteps, SameSession
<1>2. CASE UNCHANGED out
  BY <1>1, <1>2
<1>3. ASSUME NEW d \in Conns, sock[d] = "open", user[d] = Frame(c).name,
             user[d] \in Users, Written(d, Chat(c))
      PROVE  \E k \in 1 .. MaxFrames : Service!Send(c, d, k)
  <2> DEFINE k == FrameNo(c)
  <2>1. sock[c] = "open" /\ user[c] \in Users
    BY ForwardOf
  <2>2. /\ SessionNow[c] = user[c] /\ SessionNow[d] = Frame(c).name
        /\ SessionNow[c] # NoUser /\ SessionNow[d] # NoUser
    BY <1>3, <2>1, ServerAssumption DEF SessionNow, SessionOf
  <2>3. k \in 1 .. MaxFrames
    <3>1. WholeFrame(c) /\ TypeOK /\ StreamsOK
      BY DEF Forward, CInv, IInv, Inv
    <3>2. FrameNo(c) \in DOMAIN sent[c]
      BY <3>1, WholeFramePlace
    <3>3. sent[c] \in Seq(Frames) /\ Len(sent[c]) <= MaxFrames /\ MaxFrames \in Nat
      BY <3>1, KernelAssumption DEF TypeOK, KernelTypeOK, StreamsOK
    <3>4. QED
      BY <3>2, <3>3
  <2>4. \A e \in Conns : \A i \in DOMAIN out[e] :
          out[e][i].kind = "chat" /\ out[e][i].id[1] = c => out[e][i].id[2] < k
    <3>1. \A e \in Conns : \A n \in Forwarded(e) : n.id[1] = c => n.id[2] < k
      BY ChatPlace DEF CInv, Forward
    <3>2. SUFFICES ASSUME NEW e \in Conns, NEW i \in DOMAIN out[e],
                          out[e][i].kind = "chat", out[e][i].id[1] = c
                   PROVE  out[e][i].id[2] < k
      OBVIOUS
    <3>3. out[e][i] \in Forwarded(e)
      BY <3>2, ForwardedIs
    <3>4. QED
      BY <3>1, <3>2, <3>3
  <2>5. Chat(c) = [kind |-> "chat", from |-> SessionNow[c], to |-> SessionNow[d],
                   id |-> <<c, k>>]
    BY <2>2 DEF Chat
  <2>6. Service!Tell(d, Chat(c))
    BY <1>3, WrittenTell
  <2> HIDE DEF k
  <2>7. Service!Send(c, d, k)
    BY <1>1, <2>2, <2>4, <2>5, <2>6 DEF Service!Send, Service!Newer, SessionNow
  <2>8. QED
    BY <2>3, <2>7
<1>4. QED
  BY <1>2, <1>3, ForwardOf

LEMMA EndsService ==
  ASSUME CInv, NEW c \in Conns, Ends(c)
  PROVE  UNCHANGED <<SessionNow, out>> \/ Service!LogOut(c)
<1>1. Disconnect(c) /\ c \in batch
  BY DEF Ends, ErrorEvent, EndOfStream
<1>2. /\ sock[c] = "open" /\ sock'[c] = "closed" /\ UNCHANGED out
      /\ \A d \in Conns \ {c} : user'[d] = user[d] /\ sock'[d] = sock[d]
  BY <1>1 DEF Disconnect, closeConn, close, netVars, CInv, IInv, Inv, TypeOK, KernelTypeOK,
    NoStaleEvent
<1>3. SessionOf(c)' = NoUser /\ \A d \in Conns \ {c} : SessionOf(d)' = SessionOf(d)
  BY <1>2 DEF SessionOf
<1>4. SessionNow' = [SessionNow EXCEPT ![c] = NoUser]
  BY <1>3 DEF SessionNow
<1>5. CASE SessionNow[c] # NoUser
  BY <1>2, <1>4, <1>5 DEF Service!LogOut, SessionNow
<1>6. CASE SessionNow[c] = NoUser
  <2>1. SessionNow' = SessionNow
    BY <1>4, <1>6 DEF SessionNow
  <2>2. QED
    BY <1>2, <2>1
<1>7. QED
  BY <1>5, <1>6

LEMMA StepService ==
  ASSUME CInv, [Next]_vars
  PROVE  Service!Next \/ UNCHANGED <<SessionNow, out>>
<1>1. CASE \E c \in Conns : Login(c) \/ Refuse(c) \/ Forward(c)
  BY <1>1, LoginService, RefuseService, ForwardService DEF Service!Next
<1>2. CASE \E c \in Conns : Ends(c)
  BY <1>2, EndsService DEF Service!Next
<1>3. CASE /\ Quiet \/ NewUserHandler \/ \E c \in Conns : Writes(c)
           /\ ~ \E c \in Conns : Login(c) \/ Refuse(c) \/ Forward(c)
  <2>1. UNCHANGED out
    BY <1>3, SilentSteps
  <2>2. UNCHANGED SessionNow
    <3>1. CASE Quiet
      BY <3>1, QuietSteps, SameSession
    <3>2. ASSUME NEW c \in Conns, Writes(c) PROVE UNCHANGED <<user, sock>>
      BY <3>2 DEF Writes, SendAuth, SendChat, client_write, serverVars, cdpVars
    <3>3. CASE NewUserHandler
      <4>1. PICK c \in Conns :
              /\ sock[c] = "backlog"
              /\ \/ UNCHANGED <<sock, cdpVars>>
                 \/ sock' = [sock EXCEPT ![c] = "open"] /\ CreateNewClient(c)
        BY <3>3 DEF NewUserHandler
      <4>2. CASE UNCHANGED <<sock, cdpVars>>
        BY <4>2, SameSession DEF cdpVars
      <4>3. CASE sock' = [sock EXCEPT ![c] = "open"] /\ CreateNewClient(c)
        <5>1. PICK u \in {NoUser, Junk} : user' = [user EXCEPT ![c] = u]
          BY <4>3 DEF CreateNewClient
        <5>2. /\ user'[c] \notin Users /\ sock[c] # "open"
              /\ \A d \in Conns \ {c} : user'[d] = user[d] /\ sock'[d] = sock[d]
          BY <4>1, <4>3, <5>1, ServerAssumption DEF CInv, IInv, Inv, TypeOK, KernelTypeOK
        <5>3. \A d \in Conns : SessionOf(d)' = SessionOf(d)
          BY <5>2 DEF SessionOf
        <5>4. QED
          BY <5>3 DEF SessionNow
      <4>4. QED
        BY <4>1, <4>2, <4>3
    <3>4. QED
      BY <1>3, <3>1, <3>2, <3>3, SameSession
  <2>3. QED
    BY <2>1, <2>2
<1>4. QED
  BY <1>1, <1>2, <1>3, NextCases

LEMMA InitService == Init => Service!Init
<1> SUFFICES ASSUME Init PROVE Service!Init
  OBVIOUS
<1>1. \A c \in Conns : SessionOf(c) = NoUser
  BY DEF Init, KernelInit, SessionOf
<1>2. QED
  BY <1>1 DEF Init, KernelInit, Service!Init
=============================================================================
