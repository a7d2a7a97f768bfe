------------------------------- MODULE Kernel -------------------------------
(***************************************************************************)
(* The TCP connections and the epoll instance under server.c, as the       *)
(* server and the clients use them.  Nothing here is under src/: it is     *)
(* what the calls in src/ rely on.                                         *)
(*                                                                         *)
(* The bytes a client writes are counted in cells; every frame is FrameLen *)
(* cells, its header the first HdrLen.  Connections lose, duplicate and    *)
(* reorder nothing, but cells arrive in pieces, or several frames at once, *)
(* and a reset overtakes what has not arrived.  What the server writes is  *)
(* in the client's receive buffer at once.                                 *)
(***************************************************************************)
EXTENDS Integers, Sequences, FiniteSets, FiniteSetsExt

CONSTANTS
  Users,      \* the names AuthVerify knows
  Conns,      \* connections: every connect() of a client is a new one
  Fds,        \* descriptors the process may use for connections
  NoFd,
  Listener,   \* server_socket
  FrameLen,   \* cells of a frame
  HdrLen,     \* cells of its header
  ReadMax,    \* cells a read() takes at most: sizeof(buff)
  MaxFrames,  \* bound: frames a client sends on one connection
  MaxEvents   \* MAX_EVENTS of epoll_wait

ASSUME KernelAssumption ==
  /\ IsFiniteSet(Users) /\ IsFiniteSet(Conns) /\ IsFiniteSet(Fds)
  /\ Fds \subseteq Nat /\ NoFd \notin Fds
  /\ Listener \notin Conns
  /\ HdrLen \in Nat \ {0} /\ FrameLen \in Nat /\ HdrLen < FrameLen
  /\ ReadMax \in Nat \ {0}
  /\ MaxFrames \in Nat /\ MaxEvents \in Nat \ {0}

VARIABLES
  sock,     \* sock[c]: none, backlog (connected, not accepted), open, closed
  fd,       \* fd[c]: the server's descriptor of c while it is open
  sent,     \* sent[c]: the frames the client has written
  arrived,  \* arrived[c]: how many of their cells the server can read or has read
  rd,       \* rd[c]: how many of those it has read
  closing,  \* closing[c]: open, fin or rst: how the client's end was closed
  seen,     \* seen[c]: the same, as far as the server's kernel has been told
  hit,      \* hit[c]: the server has written to a client that had closed
  skerr,    \* skerr[c]: the pending socket error, or none
  out,      \* out[c]: the messages the server has written to c
  got,      \* got[c]: how many of them the client has taken
  ready,    \* the epoll ready list: sources with an edge since they were reported
  batch,    \* events[n..nfds-1]: reported and not handled yet
  err       \* the sources of batch whose events include EPOLLERR

netVars   == <<sent, arrived, closing, seen, hit, skerr, out, got>>
epollVars == <<ready, batch, err>>
kernelVars == <<sock, fd, rd, netVars, epollVars>>

Sources == Conns \cup {Listener}

Frames == [kind : {"auth", "chat"}, name : Users, good : BOOLEAN]

\* id says which frame of which connection a chat message forwards.
Chats    == [kind : {"chat"}, from : Users, to : Users, id : Conns \X (Nat \ {0})]
Infos    == [kind : {"200", "401"}]
Messages == Chats \cup Infos

KernelTypeOK ==
  /\ sock \in [Conns -> {"none", "backlog", "open", "closed"}]
  /\ fd \in [Conns -> Fds \cup {NoFd}]
  /\ sent \in [Conns -> Seq(Frames)]
  /\ arrived \in [Conns -> Nat]
  /\ rd \in [Conns -> Nat]
  /\ closing \in [Conns -> {"open", "fin", "rst"}]
  /\ seen \in [Conns -> {"open", "fin", "rst"}]
  /\ hit \in [Conns -> BOOLEAN]
  /\ skerr \in [Conns -> {"none", "ECONNRESET", "EPIPE"}]
  /\ out \in [Conns -> Seq(Messages)]
  /\ got \in [Conns -> Nat]
  /\ ready \subseteq Sources
  /\ batch \subseteq Sources
  /\ err \subseteq Conns

KernelInit ==
  /\ sock = [c \in Conns |-> "none"]
  /\ fd = [c \in Conns |-> NoFd]
  /\ sent = [c \in Conns |-> <<>>]
  /\ arrived = [c \in Conns |-> 0]
  /\ rd = [c \in Conns |-> 0]
  /\ closing = [c \in Conns |-> "open"]
  /\ seen = [c \in Conns |-> "open"]
  /\ hit = [c \in Conns |-> FALSE]
  /\ skerr = [c \in Conns |-> "none"]
  /\ out = [c \in Conns |-> <<>>]
  /\ got = [c \in Conns |-> 0]
  /\ ready = {} /\ batch = {} /\ err = {}

-----------------------------------------------------------------------------
(* The network.                                                            *)

\* An edge on a connection's socket; one that is not registered with epoll
\* gives none, it is found ready when it is added.
Edge(c) == IF sock[c] = "open" THEN ready \cup {c} ELSE ready

\* The server's kernel still has a socket for c.
Attached(c) == sock[c] \in {"backlog", "open"}

\* Some more of what the client wrote reaches the server's socket.
Arrive(c) ==
  /\ Attached(c) /\ seen[c] = "open"
  /\ \E n \in arrived[c] + 1 .. FrameLen * Len(sent[c]) :
       arrived' = [arrived EXCEPT ![c] = n]
  /\ ready' = Edge(c)
  /\ UNCHANGED <<sock, fd, rd, sent, closing, seen, hit, skerr, out, got, batch, err>>

\* The end of the stream, after all of it.
FinArrive(c) ==
  /\ Attached(c) /\ closing[c] = "fin" /\ seen[c] = "open"
  /\ arrived[c] = FrameLen * Len(sent[c])
  /\ seen' = [seen EXCEPT ![c] = "fin"]
  /\ ready' = Edge(c)
  /\ UNCHANGED <<sock, fd, rd, sent, arrived, closing, hit, skerr, out, got, batch, err>>

\* A reset: a client that closed with unread data sends one at once, any other
\* closed client in answer to data.  What has not arrived is lost.
RstArrive(c) ==
  /\ Attached(c)
  /\ \/ closing[c] = "rst" /\ seen[c] = "open"
     \/ hit[c] /\ seen[c] = "fin"
  /\ seen' = [seen EXCEPT ![c] = "rst"]
  /\ skerr' = [skerr EXCEPT ![c] = IF seen[c] = "fin" THEN "EPIPE" ELSE "ECONNRESET"]
  /\ ready' = Edge(c)
  /\ UNCHANGED <<sock, fd, rd, sent, arrived, closing, hit, out, got, batch, err>>

-----------------------------------------------------------------------------
(* System calls.                                                           *)

\* connect(): the connection waits in the listen queue.
connect(c) ==
  /\ sock[c] = "none"
  /\ sock' = [sock EXCEPT ![c] = "backlog"]
  /\ ready' = ready \cup {Listener}
  /\ UNCHANGED <<fd, rd, netVars, batch, err>>

\* A client's write(); its socket is blocking.
client_write(c, f) ==
  /\ closing[c] = "open" /\ sock[c] # "none"
  /\ Len(sent[c]) < MaxFrames
  /\ sent' = [sent EXCEPT ![c] = Append(@, f)]
  /\ UNCHANGED <<sock, fd, rd, arrived, closing, seen, hit, skerr, out, got, epollVars>>

\* A client's close(), or its end; with unread data the kernel sends a reset.
client_close(c) ==
  /\ closing[c] = "open" /\ sock[c] # "none"
  /\ closing' = [closing EXCEPT ![c] = IF got[c] < Len(out[c]) THEN "rst" ELSE "fin"]
  /\ UNCHANGED <<sock, fd, rd, sent, arrived, seen, hit, skerr, out, got, epollVars>>

\* epoll_wait() reports ready sources, oldest first in the kernel, any here,
\* with the mask of this moment; a listener with an empty queue is not reported.
Reportable(s) == s # Listener \/ \E c \in Conns : sock[c] = "backlog"

epoll_wait ==
  LET due == {s \in ready : Reportable(s)}
  IN  /\ batch = {} /\ due # {}
      /\ \E b \in SUBSET due :
           /\ Cardinality(b) <= MaxEvents
           /\ Cardinality(b) < MaxEvents => b = due
           /\ batch' = b
           /\ ready' = due \ b
           /\ err' = {c \in b \cap Conns : skerr[c] # "none"}
      /\ UNCHANGED <<sock, fd, rd, netVars>>

FreeFds == Fds \ {fd[c] : c \in Conns}

\* What write() to c's socket does: an error pending from a reset is returned
\* once, and after that the process gets SIGPIPE.
WriteResult(c) ==
  CASE skerr[c] = "ECONNRESET"                  -> "failed"
    [] skerr[c] = "EPIPE"                       -> "sigpipe"
    [] skerr[c] = "none" /\ seen[c] = "rst"     -> "sigpipe"
    [] skerr[c] = "none" /\ seen[c] # "rst"     -> "written"

Written(c, m) ==
  /\ out' = IF WriteResult(c) = "written" /\ closing[c] = "open"
            THEN [out EXCEPT ![c] = Append(@, m)] ELSE out
  /\ hit' = IF WriteResult(c) = "written" /\ closing[c] # "open"
            THEN [hit EXCEPT ![c] = TRUE] ELSE hit
  /\ skerr' = IF WriteResult(c) = "failed" THEN [skerr EXCEPT ![c] = "none"] ELSE skerr
  /\ UNCHANGED <<sent, arrived, closing, seen, got>>

\* read(): queued data first, then a pending error, once, then the end of the
\* stream; Unread cells are left to read.
Unread(c) == arrived[c] - rd[c]

ReadLen(c) == IF Unread(c) < ReadMax THEN Unread(c) ELSE ReadMax

ReadResult(c) ==
  CASE Unread(c) > 0                                            -> "data"
    [] Unread(c) = 0 /\ skerr[c] # "none"                       -> "error"
    [] Unread(c) = 0 /\ skerr[c] = "none" /\ seen[c] # "open"   -> "end"
    [] Unread(c) = 0 /\ skerr[c] = "none" /\ seen[c] = "open"   -> "again"

\* close() of c's descriptor, and its removal from the epoll instance.
close(c) ==
  /\ sock' = [sock EXCEPT ![c] = "closed"]
  /\ fd' = [fd EXCEPT ![c] = NoFd]
  /\ ready' = ready \ {c}
=============================================================================
