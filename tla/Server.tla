------------------------------- MODULE Server -------------------------------
(***************************************************************************)
(* server.c and serverHandlers/server_handler.c: one process, one epoll    *)
(* loop, one record (client_conn_data_t, "cdp" in the code) per accepted   *)
(* connection.  The handling of one event is one action: nothing of the    *)
(* server runs between the read and the last write of an event, and what   *)
(* the network does meanwhile is as if it happened before or after.        *)
(*                                                                         *)
(* The tree of logged-in users is the directory of Directory.tla;          *)
(* HbTree.tla shows that hb_tree.c implements it, except where a removal   *)
(* dereferences NULL.  A heap corruption that glibc detects, a signal or   *)
(* exit() ends the process: status says which.                             *)
(***************************************************************************)
EXTENDS Client, SequencesExt

CONSTANTS
  NoUser,  \* user == NULL
  Junk,    \* user is what its malloc chunk held before
  BalZero  \* new_node() finds a zero in the byte of bal that it does not assign

ASSUME ServerAssumption ==
  /\ NoUser \notin Users /\ Junk \notin Users /\ NoUser # Junk
  /\ BalZero \in BOOLEAN

VARIABLES
  cstate,  \* cstate[c]: cdp->client_state
  user,    \* user[c]: cdp->user
  start,   \* start[c]: the cell of the stream that cdp->buff starts with
  dir,     \* the entries of the tree, by name
  dirty,   \* a chunk of the size of a cdp has been freed
  strayed, \* a pointer left over has been followed: what it led to was freed
  status   \* running, exited, or the cause of death

cdpVars    == <<cstate, user, start>>
serverVars == <<cdpVars, dir, dirty, strayed, status>>
vars       == <<kernelVars, mode, serverVars>>

\* A read takes all there can be: 1024 bytes against the bound on frames.
WideRead == FrameLen * MaxFrames <= ReadMax

\* There are no more entries than sessions (EntriesMatchSessions), so with two
\* descriptors the tree never holds more than two, and nothing is rotated.
Paired == BalZero /\ WideRead /\ Cardinality(Fds) <= 2

Tree == INSTANCE Directory WITH Pair <- Paired

Causes == {"exited", "double_free", "wild_free", "sigpipe", "segv"}

TypeOK ==
  /\ KernelTypeOK /\ ClientTypeOK /\ Tree!TypeOK
  /\ cstate \in [Conns -> {"INITIAL", "AUTH", "MESSAGE"}]
  /\ user \in [Conns -> Users \cup {NoUser, Junk}]
  /\ start \in [Conns -> Nat]
  /\ \A c \in Conns : start[c] <= rd[c] /\ rd[c] <= arrived[c]
  /\ dirty \in BOOLEAN /\ strayed \in BOOLEAN
  /\ status \in {"running"} \cup Causes

Init ==
  /\ KernelInit /\ ClientInit /\ Tree!Init
  /\ cstate = [c \in Conns |-> "INITIAL"]
  /\ user = [c \in Conns |-> NoUser]
  /\ start = [c \in Conns |-> 0]
  /\ dirty = FALSE /\ strayed = FALSE
  /\ status = "running"

-----------------------------------------------------------------------------
(* Shared steps of the handlers.                                           *)

\* The event being handled leaves the batch.
Done(s) == batch' = batch \ {s} /\ err' = err \ {s}

Die(cause) == status' = cause

\* accept() returns the lowest descriptor not in use.
LowestFds == {f \in FreeFds : \A g \in FreeFds : f <= g}

\* malloc does not clear: after any free, cdp->user may be left over.
CreateNewClient(c) ==
  /\ cstate' = [cstate EXCEPT ![c] = "INITIAL"]
  /\ start'  = [start EXCEPT ![c] = 0]
  /\ \E u \in {NoUser} \cup (IF dirty THEN {Junk} ELSE {}) : user' = [user EXCEPT ![c] = u]

\* free() of a pointer left over in the chunk aborts, unless the memory it
\* points to happens to be in use again; then that memory is free while in use,
\* and the free() of its owner aborts if it is a user's name.
FreeUser(c) ==
  \/ status' = "running"
  \/ user[c] = Junk /\ Die("wild_free")
  \/ strayed /\ user[c] # NoUser /\ Die("wild_free")

Stray(c) == IF user[c] = Junk THEN strayed' = TRUE ELSE UNCHANGED strayed

\* hb_tree_remove() of one of two entries may dereference NULL after a bal that
\* was not zero, or after a removal that left one behind in a larger tree;
\* hb_tree_insert() only after the former.
RemoveMayFault == ~Paired /\ Cardinality(Tree!Entries) >= 2
InsertMayFault == ~BalZero /\ Tree!Entries # {}

\* Where a chat for u goes: the connection that owns the descriptor filed
\* under u now, if any does.
Owners(f) == {c \in Conns : sock[c] = "open" /\ fd[c] = f}

\* Faulty variant: all of buff is appended, not the ret bytes that were read.
NewRd_WholeBuff(c) == rd[c] + ReadMax

\* Faulty variant: a byte of buff is kept free for a final NUL.
NewRd_Terminated(c) == rd[c] + Min({Unread(c), ReadMax - 1})

\* The bytes of cdp->buff once this read has been appended.
NewRd(c)   == rd[c] + ReadLen(c)
Used(c)    == NewRd(c) - start[c]
Aligned(c) == start[c] % FrameLen = 0

\* The frame cdp->buff starts with, whether all of it is there, its place in
\* the stream.
\* Faulty variant: > for >=.
Complete_Strict(c) == Used(c) > FrameLen

Complete(c) == Used(c) >= FrameLen

FrameNo(c) == start[c] \div FrameLen + 1
Frame(c)   == sent[c][FrameNo(c)]

\* Faulty variant: the addressee's name stays in the frame.
Chat_NotRewritten(c) ==
  [kind |-> "chat", from |-> Frame(c).name, to |-> Frame(c).name, id |-> <<c, FrameNo(c)>>]

Chat(c) == [kind |-> "chat", from |-> user[c], to |-> Frame(c).name, id |-> <<c, FrameNo(c)>>]

Info(code) == [kind |-> code]

-----------------------------------------------------------------------------
(* The event loop.                                                         *)

EpollWait == epoll_wait /\ UNCHANGED <<mode, serverVars>>

\* One accept() per event, however many connections wait.
NewUserHandler ==
  /\ Listener \in batch
  /\ Done(Listener)
  /\ \E c \in Conns :
       /\ sock[c] = "backlog"
       /\ \/ /\ FreeFds = {}            \* EMFILE
             /\ Die("exited")
             /\ UNCHANGED <<sock, fd, ready, cdpVars>>
          \/ /\ \E f \in LowestFds : fd' = [fd EXCEPT ![c] = f]
             /\ sock' = [sock EXCEPT ![c] = "open"]
             /\ ready' = ready \cup {c}  \* EPOLL_CTL_ADD: writable at least
             /\ CreateNewClient(c)
             /\ UNCHANGED status
  /\ UNCHANGED <<rd, netVars, mode, dir, dirty, strayed>>

\* Faulty variant: the entry outlives the session.
RemoveEntry_Never(c) == UNCHANGED dir

\* What cdp->user reads as: a pointer left over leads to memory that may be in
\* use again, and hold any name.
NameRead(c) == IF user[c] = Junk THEN Users \cup {NoUser} ELSE {user[c]}

\* if (cdp->user != NULL) hb_tree_remove(Tree, cdp->user)
RemoveEntry(c) ==
  \E u \in NameRead(c) : IF u \in Users /\ dir[u] # <<>>
                         THEN Tree!Leave(u) ELSE UNCHANGED dir

\* Faulty variant: freeClient() alone, the descriptor stays open and registered.
closeConn_FreeOnly(c) == sock' = [sock EXCEPT ![c] = "closed"] /\ UNCHANGED <<fd, ready>>

\* EPOLL_CTL_DEL and close(); the cdp is freed by Disconnect.
closeConn(c) == close(c)

\* hb_tree_remove() follows NULL, or the comparison a pointer to nowhere.
RemoveFaults(c) ==
  \/ user[c] # NoUser /\ RemoveMayFault
  \/ user[c] = Junk /\ Tree!Entries # {}

\* Both ways to end a connection.
Disconnect(c) ==
  /\ RemoveEntry(c)
  /\ FreeUser(c) \/ (RemoveFaults(c) /\ Die("segv"))
  /\ Stray(c)
  /\ closeConn(c)
  /\ UNCHANGED <<rd, netVars>>
  /\ user' = [user EXCEPT ![c] = NoUser]
  /\ cstate' = [cstate EXCEPT ![c] = "INITIAL"]
  /\ start' = [start EXCEPT ![c] = 0]
  /\ dirty' = TRUE

ErrorEvent(c) ==
  /\ c \in batch \cap err
  /\ Done(c)
  /\ Disconnect(c)
  /\ UNCHANGED mode

\* Faulty variant: the end of the stream is passed over like an error.
EndOfStream_Ignored(c) ==
  /\ c \in batch \ err /\ ReadResult(c) = "end"
  /\ Done(c)
  /\ UNCHANGED <<sock, fd, ready, rd, netVars, mode, serverVars>>

\* read() returned 0.
EndOfStream(c) ==
  /\ c \in batch \ err /\ ReadResult(c) = "end"
  /\ Done(c)
  /\ Disconnect(c)
  /\ UNCHANGED mode

\* read() returned -1, whatever the error: the loop goes on.
NothingRead(c) ==
  /\ c \in batch \ err /\ ReadResult(c) \in {"again", "error"}
  /\ Done(c)
  /\ skerr' = [skerr EXCEPT ![c] = "none"]
  /\ UNCHANGED <<sock, fd, rd, sent, arrived, closing, seen, hit, out, got, ready, mode, serverVars>>

\* read() returned data, which is appended to cdp->buff.
DataEvent(c) ==
  /\ c \in batch \ err /\ ReadResult(c) = "data"
  /\ Done(c)
  /\ rd' = [rd EXCEPT ![c] = NewRd(c)]
  /\ UNCHANGED <<sock, fd, ready, mode>>

-----------------------------------------------------------------------------
(* What the data is good for, by client_state.                             *)

\* Not a header yet, or a good header and not its whole frame.
Incomplete(c) ==
  /\ DataEvent(c)
  /\ Used(c) < HdrLen \/ (Aligned(c) /\ ~Complete(c))
  /\ cstate' = [cstate EXCEPT ![c] =
                  IF @ = "INITIAL" /\ Used(c) >= HdrLen THEN "AUTH" ELSE @]
  /\ UNCHANGED <<netVars, user, start, dir, dirty, strayed, status>>

\* VerifyHeader() and Header() free cdp->ptr on a bad magic, and closeConn()
\* frees it again.
BadMagic(c) ==
  /\ DataEvent(c)
  /\ Used(c) >= HdrLen /\ ~Aligned(c)
  /\ Die("double_free")
  /\ UNCHANGED <<netVars, cdpVars, dir, dirty, strayed>>

WholeFrame(c) == DataEvent(c) /\ Aligned(c) /\ Complete(c)

\* Faulty variants: the buffer is kept, or cut one cell short.
Forget_Nothing(c) == UNCHANGED start /\ dirty' = TRUE

Forget_Short(c) == start' = [start EXCEPT ![c] = NewRd(c) - 1] /\ dirty' = TRUE

\* refreshClient(), resetClient(): all that was read is forgotten, the bytes
\* after the first frame too.
Forget(c) == start' = [start EXCEPT ![c] = NewRd(c)] /\ dirty' = TRUE

\* AuthVerify() on what decode_message_auth() finds at cdp->offset: after a
\* login whose answer could not be sent, offset is past the frame.
Verified(c) == Frame(c).good /\ user[c] \notin Users

\* Authenticate() files the descriptor and keeps the name; then "200".  When
\* the answer fails the state stays AUTH_STATE and the buffer stays.
Login(c) ==
  /\ WholeFrame(c)
  /\ cstate[c] \in {"INITIAL", "AUTH"} /\ Verified(c)
  /\ Tree!Enter(Frame(c).name, fd[c])
  /\ user' = [user EXCEPT ![c] = Frame(c).name]
  /\ Written(c, Info("200"))
  /\ cstate' = [cstate EXCEPT ![c] = IF WriteResult(c) = "failed" THEN "AUTH" ELSE "MESSAGE"]
  /\ IF WriteResult(c) = "failed" THEN UNCHANGED <<start, dirty>> ELSE Forget(c)
  /\ \/ status' = IF WriteResult(c) = "sigpipe" THEN "sigpipe" ELSE "running"
     \/ InsertMayFault /\ Die("segv")
  /\ UNCHANGED strayed

\* "401", its failure ignored, and resetClient().
Refuse(c) ==
  /\ WholeFrame(c)
  /\ cstate[c] \in {"INITIAL", "AUTH"} /\ ~Verified(c)
  /\ Written(c, Info("401"))
  /\ Forget(c)
  /\ user' = [user EXCEPT ![c] = NoUser]
  /\ cstate' = [cstate EXCEPT ![c] = "INITIAL"]
  /\ IF WriteResult(c) = "sigpipe" THEN Die("sigpipe") ELSE FreeUser(c)
  /\ Stray(c)
  /\ UNCHANGED dir

\* decodeMessageChat(), hb_tree_search(), updateBuff() and Write(), whose
\* result is ignored: -1, and a descriptor nobody has, are EBADF.
Forward(c) ==
  /\ WholeFrame(c)
  /\ cstate[c] = "MESSAGE"
  /\ \E f \in Tree!Lookup(Frame(c).name) :
       IF \E d \in Conns : d \in Owners(f)
       THEN \E d \in Owners(f) :
              /\ Written(d, Chat(c))
              /\ status' = IF WriteResult(d) = "sigpipe" THEN "sigpipe" ELSE "running"
       ELSE UNCHANGED <<netVars, status>>
  /\ Forget(c)
  /\ UNCHANGED <<user, cstate, dir, strayed>>

-----------------------------------------------------------------------------
(* The whole system.                                                       *)

HandleEvent(c) ==
  \/ ErrorEvent(c)
  \/ EndOfStream(c)
  \/ NothingRead(c)
  \/ Incomplete(c)
  \/ BadMagic(c)
  \/ Login(c)
  \/ Refuse(c)
  \/ Forward(c)

ServerNext == EpollWait \/ NewUserHandler \/ \E c \in Conns : HandleEvent(c)

Network(c) == (Arrive(c) \/ FinArrive(c) \/ RstArrive(c)) /\ UNCHANGED <<mode, serverVars>>

\* Nothing of interest happens once the server is gone.
Next ==
  /\ status = "running"
  /\ \/ ServerNext
     \/ \E c \in Conns : Network(c)
     \/ \E c \in Conns : ClientNext(c) /\ UNCHANGED serverVars

Spec == Init /\ [][Next]_vars

\* The loop runs, the network delivers, and a client that waits for its answer
\* reads it.  Nobody has to send, to connect or to leave.
Running(A) == status = "running" /\ A

Fairness ==
  /\ WF_vars(Running(EpollWait)) /\ WF_vars(Running(NewUserHandler))
  /\ \A c \in Conns :
       /\ WF_vars(Running(HandleEvent(c)))
       /\ WF_vars(Running(Network(c)))
       /\ WF_vars(Running(ReadReply(c) /\ UNCHANGED serverVars))

FairSpec == Spec /\ Fairness

-----------------------------------------------------------------------------
(* Safety.                                                                 *)

Sessions(u) == {c \in Conns : sock[c] = "open" /\ user[c] = u}

\* Through every order of logins, logouts, errors and failed answers, no entry
\* of the tree is left behind: a name never has more of them than connections
\* logged in under it, although a removal goes by name and may take the entry of
\* another connection, and a removal by a pointer left over that of anyone.  As
\* long as no such pointer was followed none is lost either.  (Of three connections
\* and a name logged in twice, see HalfLoginDrained for what this depends on.)
EntriesMatchSessions ==
  \A u \in Users :
    /\ Len(dir[u]) <= Cardinality(Sessions(u))
    /\ ~strayed => Len(dir[u]) = Cardinality(Sessions(u))

\* epoll never holds, and the batch never contains, an event whose data.ptr is
\* a cdp that closeConn() has freed.
NoStaleEvent == \A c \in (ready \cup batch) \cap Conns : sock[c] = "open"

Forwarded(c) == {m \in ToSet(out[c]) : m.kind = "chat"}

\* A chat message that reaches a client carries the name under which its sender
\* proved itself, and was sent to the name it was addressed to by a frame that
\* came later on that same connection.
SenderAuthentic ==
  \A c \in Conns : \A m \in Forwarded(c) :
    LET s == m.id[1]
        i == m.id[2]
    IN  /\ i \in DOMAIN sent[s] /\ sent[s][i].name = m.to
        /\ \E j \in 1 .. i - 1 :
             sent[s][j].kind = "auth" /\ sent[s][j].good /\ sent[s][j].name = m.from

\* A frame is forwarded at most once, and those of one sender reach one receiver
\* in the order they were sent, whatever was dropped in between.
ForwardedInOrder ==
  /\ \A c \in Conns : \A i, j \in DOMAIN out[c] :
       /\ i < j /\ out[c][i].kind = "chat" /\ out[c][j].kind = "chat"
       /\ out[c][i].id[1] = out[c][j].id[1]
       => out[c][i].id[2] < out[c][j].id[2]
  /\ \A c, d \in Conns :
       c # d => {m.id : m \in Forwarded(c)} \cap {m.id : m \in Forwarded(d)} = {}

\* An entry leads to an open connection that is logged in under its name.
EntryIsCurrent ==
  \A u \in Users : \A i \in DOMAIN dir[u] :
    \E c \in Sessions(u) : fd[c] = dir[u][i]

\* A chat message is only ever written to a connection that is at that moment
\* logged in under the name it was addressed to.
DeliveredToAddressee ==
  [][\A c \in Conns :
       out'[c] # out[c] /\ Last(out'[c]).kind = "chat" => user[c] = Last(out'[c]).to]_vars

\* What a user types as a password is never forwarded as a chat message.
NoLoginForwarded ==
  \A c \in Conns : \A m \in Forwarded(c) : sent[m.id[1]][m.id[2]].kind = "chat"

\* The server takes what a client writes frame by frame: no step throws away
\* more of the stream than the one frame it has handled.
FrameByFrame ==
  [][\A c \in Conns : sock[c] = "open" /\ sock'[c] = "open"
       => start'[c] \in {start[c], start[c] + FrameLen}]_vars

\* A client that waits until the server has read never makes it free a cdp's
\* header twice: however its frames are cut, the server stays in step with them
\* through logins, refusals and messages.
NoDoubleFree == status # "double_free"

\* A wrong password leads back to the initial state, and nowhere else.
RefusalReturnsToInitial == status # "wild_free"

-----------------------------------------------------------------------------
(* What keeps TypeOK and EntriesMatchSessions inductive.                   *)

\* The network invents nothing, and a client stops at its bound.
StreamsOK ==
  \A c \in Conns : /\ arrived[c] <= FrameLen * Len(sent[c])
                   /\ Len(sent[c]) <= MaxFrames
                   /\ skerr[c] # "none" => seen[c] = "rst"

\* The cdp of an open connection has a descriptor; no other names a user.
OpenOK ==
  \A c \in Conns : /\ sock[c] = "open" => fd[c] \in Fds
                   /\ sock[c] # "open" => user[c] \notin Users

MessageOK == \A c \in Conns : cstate[c] = "MESSAGE" => user[c] \in Users

\* A user whose "200" could not be sent is logged in outside MESSAGE_STATE, on
\* a connection that the client has reset.
HalfLogin(c) == cstate[c] # "MESSAGE" /\ user[c] \in Users

HalfLoginReset == \A c \in Conns : HalfLogin(c) => seen[c] = "rst"

\* Nothing that arrived behind such a login is left to read.  One more frame
\* would be refused: resetClient() forgets the name, and the entry stays.  A
\* client sends one only if it took a chat, which came to it by a stale
\* descriptor, for a refusal of the first.
HalfLoginDrained == \A c \in Conns : HalfLogin(c) => rd[c] = arrived[c]

-----------------------------------------------------------------------------
(* What keeps SenderAuthentic and ForwardedInOrder inductive.              *)

\* The server logs a connection in before its client knows, and its client
\* sends no message before it does: what is decoded as a login is one.
LoginsFirst ==
  \A c \in Conns :
    /\ sock[c] \in {"none", "backlog"} => cstate[c] = "INITIAL" /\ out[c] = <<>>
    /\ sock[c] # "closed" /\ cstate[c] # "MESSAGE" =>
         /\ mode[c] # "message"
         /\ \A i \in DOMAIN out[c] : out[c][i].kind # "200"
         /\ \A i \in DOMAIN sent[c] : sent[c][i].kind = "auth"

\* The user of a connection is named by a good login that lies behind
\* cdp->buff.
LoginBehind ==
  \A c \in Conns : cstate[c] = "MESSAGE" =>
    \E j \in DOMAIN sent[c] :
      /\ FrameLen * j <= start[c]
      /\ sent[c][j].kind = "auth" /\ sent[c][j].good /\ sent[c][j].name = user[c]

\* So does every frame that was forwarded, as long as the connection is open.
ForwardedBehind ==
  \A c \in Conns : \A m \in Forwarded(c) :
    /\ sock[m.id[1]] \in {"open", "closed"}
    /\ sock[m.id[1]] = "open" => FrameLen * m.id[2] <= start[m.id[1]]

-----------------------------------------------------------------------------
(* The service.  It is promised where every name is logged in once at a    *)
(* time (Relogin).                                                         *)

SessionOf(c) == IF sock[c] = "open" /\ user[c] \in Users THEN user[c] ELSE NoUser

Service == INSTANCE ChatService WITH
  Nobody  <- NoUser,
  Places  <- 1 .. MaxFrames,
  session <- [c \in Conns |-> SessionOf(c)],
  inbox   <- out

\* Sessions begin with a login under a name that nobody else uses, and end;
\* between, messages go from session to session, under the names of both, once
\* and in order, or are lost: the cdps, the tree, the recycled descriptors and
\* the buffers amount to this and nothing more.
ImplementsService == Service!Spec

\* What keeps EntryIsCurrent inductive.  A session belongs to a client that
\* claimed its name; no two connections that are not closed claim one name; and
\* no two have one descriptor.
Claimed == \A c \in Conns : user[c] \in Users => Claims(c, user[c])

ClaimedOnce ==
  \A c, d \in Conns : \A u \in Users :
    c # d /\ Claims(c, u) /\ Claims(d, u) => sock[c] = "closed" \/ sock[d] = "closed"

DistinctFds ==
  \A c, d \in Conns : c # d /\ sock[c] = "open" /\ sock[d] = "open" => fd[c] # fd[d]

\* What keeps NoLoginForwarded inductive.  A connection has one login on its
\* way at most, and its answer is the next message that the client reads: no
\* client tries again on a connection that the server has logged in.
Behind(c, i) == FrameLen * i <= start[c]

Refused(c) ==
  /\ Behind(c, Len(sent[c])) /\ Len(out[c]) = got[c] + 1
  /\ out[c][got[c] + 1].kind = "401"

PendingOK(c) ==
  /\ sock[c] \in {"none", "backlog"} => start[c] = 0
  /\ seen[c] # "open" => closing[c] # "open"
  /\ sock[c] # "closed" /\ cstate[c] # "MESSAGE" =>
       /\ mode[c] = "initial" => Behind(c, Len(sent[c]))
       /\ mode[c] = "auth" => Behind(c, Len(sent[c]) - 1)
  /\ sock[c] # "closed" /\ closing[c] = "open" =>
       IF cstate[c] = "MESSAGE"
       THEN /\ mode[c] # "initial"
            /\ mode[c] = "auth" => /\ got[c] < Len(out[c])
                                   /\ out[c][got[c] + 1].kind = "200"
       ELSE /\ mode[c] = "initial" => got[c] = Len(out[c])
            /\ mode[c] = "auth" => got[c] = Len(out[c]) \/ Refused(c)

OneLoginPending == \A c \in Conns : PendingOK(c)

\* What lies ahead of a connection that is logged in is messages.
AheadOK(c) ==
  cstate[c] = "MESSAGE" =>
    \A i \in DOMAIN sent[c] : sent[c][i].kind = "chat" \/ Behind(c, i)

ChatsAhead == \A c \in Conns : AheadOK(c)

\* What keeps FrameByFrame and NoDoubleFree inductive, where clients are Paced.
\* A cdp's buffer starts where the frames sent end, or one frame before that,
\* and then the last frame is not all read or the client has left.
AtMostOneAhead(c) ==
  LET end == FrameLen * Len(sent[c])
  IN  \/ start[c] = end
      \/ start[c] + FrameLen = end /\ (rd[c] < end \/ closing[c] # "open")

InStep ==
  \A c \in Conns :
    /\ seen[c] # "open" => closing[c] # "open"
    /\ sock[c] \in {"none", "backlog"} => start[c] = 0
    /\ sock[c] # "closed" => AtMostOneAhead(c)

-----------------------------------------------------------------------------
(* Liveness.                                                               *)

Stopped == status # "running"

\* A client whose connection was accepted gets an answer to its login.
LoginAnswered ==
  \A c \in Conns :
    sock[c] = "open" /\ mode[c] = "auth" ~> mode[c] # "auth" \/ closing[c] # "open" \/ Stopped

\* After a logout, or the end of a client, the server closes the connection
\* and with it removes the entry.
LogoutRemovesEntry ==
  \A c \in Conns :
    sock[c] = "open" /\ closing[c] # "open" ~> sock[c] = "closed" \/ Stopped

\* What a client writes on an accepted connection is read to the end, if it waits
\* for the server: a frame may be as long as one read, which is all that an edge
\* brings.
AcceptedIsRead ==
  \A c \in Conns :
    sock[c] = "open" /\ rd[c] < FrameLen * Len(sent[c])
      ~> rd[c] = FrameLen * Len(sent[c]) \/ closing[c] # "open" \/ Stopped

\* What a client writes is read.
WrittenIsRead ==
  \A c \in Conns :
    sent[c] # <<>> ~> rd[c] = FrameLen * Len(sent[c]) \/ closing[c] # "open" \/ Stopped
=============================================================================
