# Teams-In-C in TLA+

A chat server (`server.c`, `serverHandlers/`) and its terminal client
(`client.c`, `clientHandlers/`).  This directory holds TLA+ modules that model
them, TLC configurations that check small instances, and theorems checked by
TLAPS.

    tlc -workers 2 -config ServerCore.cfg MCServer.tla
    tlapm ServerProofs.tla     # and likewise ForwardProofs, ServiceProofs,
                               # LoginProofs, PaceProofs, UplinkProofs,
                               # ClientProofs, HbTreeProofs

## 1. The system

One server process, one thread, one `epoll_wait` loop; any number of clients,
each a process with one blocking socket.

| part | source | state | operations |
|---|---|---|---|
| event loop | `server.c` | the epoll instance, `events[]` | accept, error event, read and append to `cdp->buff`, end of stream, dispatch on `client_state` |
| connection handlers | `serverHandlers/server_handler.c` | one `client_conn_data_t` ("cdp") per connection: `ptr`, `fd`, `buff`, `buffer_used`, `offset`, `client_state`, `user` | `NewUserHandler`, `closeConn`, `VerifyHeader`, `Authenticate`, `SendMessage`, `resetClient`, `refreshClient`, `Header`, `decodeMessageChat`, `updateBuff`, `Write` |
| tree of logged-in users | `serverHandlers/hb_tree.c` | `hb_tree_t` and its `hb_node_t`s: name, descriptor, links, balance | `hb_tree_insert`, `hb_tree_remove`, `hb_tree_search`, two rotations |
| client | `client.c`, `clientHandlers/client_handler.c` | `curr_state`, the socket | connect, send name and password, read the answer, send a message, receive one, log out |
| wire format | both handler files | - | a 12-byte header (magic, 16-bit length, type), then length-prefixed strings; an answer is a header and three characters |
| unused | `serverHandlers/login.c`, `states.c`, `b.c`, `temp/` | - | never called, or not built |

How they interact.  A client connects and sends one *auth* frame; the server
checks it against ten fixed names, files (name, descriptor) in the tree and
answers `200` or `401`.  After `200` the client sends *chat* frames, each to a
name; the server looks the name up, puts the sender's name in the addressee's
place and writes the frame to the descriptor it found.  A logout is a `close`,
which the server sees as the end of the stream, or as an error of the socket.
It then removes *an* entry of that name from the tree and frees the cdp.  The
tree and the cdps are tied together by nothing but the name and the descriptor.

What is hard here:

- all sockets, the listener included, are edge-triggered, and each event is
  answered by exactly one `accept` or one `read` of at most 1024 bytes;
- TCP delivers frames in pieces or several at once, and ends or resets a stream
  at any point between them;
- a name can be logged in several times, and removal goes by name;
- descriptors are reused at once;
- fields of recycled heap chunks are used before they are assigned
  (`cdp->ptr`, `cdp->user`, `node->bal`);
- the removal from the tree has three mistakes that show only after certain
  histories;
- three lengths go with a frame: what the header says (it counts the padding of
  a C struct), what the encoder writes, and what was allocated; they agree for
  most frames, and by coincidence of 16 = 12 + 2 + 2;
- the server and the client do not agree on how long a header is (16 and 12);
- both sides drop what a read brings beyond the first frame, and the server drops
  what does not fit a socket buffer: later frames may be read out of step;
- a client that loses its server carries on in the state it was in.

What makes each part correct: the tree never loses, invents or hides an entry
and never follows NULL; the loop keeps entries and sessions in step, forwards
each frame once, in order, under an authentic name and to the addressee only;
it reads what is written, answers logins, notices logouts; and no client can
end the process.  A frame is decoded once, whole, and in order, in both
directions; no length makes a buffer overflow; the client's state agrees with
the server's, and what it shows is what one frame said.  `PROJECT.json` lists the hazards, each at its line, and the
properties that are there for it.

## 2. The modules

    Directory           what a table of logged-in users promises
      ^      ^
      |      | D == INSTANCE Directory (HbTree implements it)
      |    HbTree       hb_tree.c                     <- MCHbTree, HbTreeProofs
      | Tree == INSTANCE Directory
    Server              server.c, server_handler.c    <- MCServer, and ServerProofs
      | EXTENDS    \                                      <- ForwardProofs
      |             \                                     <- ServiceProofs
      |              \                                    <- LoginProofs
      |               \                                   <- PaceProofs
      |                Service == INSTANCE ChatService
      |                what the server promises
    Client              client.c, seen from the server
      | EXTENDS
    Kernel              TCP, descriptors, epoll (not in this repository)

    Wire                the lengths of the wire format
      ^       ^
      |       | EXTENDS
      |     Uplink           client -> server, in bytes      <- MCUplink, UplinkProofs
      | EXTENDS
    ClientProcess            client.c, in bytes              <- MCClientProcess, ClientProofs

    Framing             what one direction of a connection promises
                        (F == INSTANCE Framing in Uplink and in ClientProcess)

The system is looked at from three sides.  Server sees all connections and the
tree, and counts the bytes of a stream in cells.  Uplink takes one connection and
looks at its bytes, from the client's encoder to the server's decoder.
ClientProcess takes one client and its connections, one after the other.

**Directory** maps a name to the sequence of descriptors filed under it.
`Enter` appends one, `Leave` takes one away, `Lookup` returns one.  Which one of
several is not promised (`Met`), except that of two entries it is the older
(`Pair`).

**HbTree** is `hb_tree.c` function by function.  The heap is a record of
functions over addresses.  `Raise` is the pointer surgery both rotations share.
`Walk` is each descent of the code, told at every node which way to turn.
`RemoveNode` is the second half of `hb_tree_remove`: swap with the neighbour,
unlink, and the rebalancing loop, of which `FixLeft` and `FixRight` are one turn
each.  The asymmetries of the right side are kept: `--parent->bal` in *both*
tests (lines 290, 294) and no `rotate_right` after line 297.  `bal` is a signed
char.  A step that would follow NULL sets `fault`; nothing happens after it.
`count` and `rotation_count` are never read and are left out.  `BalJunk` is what
`new_node` may find in the byte it does not assign.

**Kernel** is what the code relies on.  A stream is the sequence `sent` of the
client's frames, of which the server has `arrived` cells in its socket and has
read `rd`; a frame is `FrameLen` cells and its header `HdrLen`.  Thus every way
to cut or merge frames is there, without bytes.  `ready` is epoll's ready list
with edge-triggered semantics (an edge adds the source, reporting it removes
it), `batch` the part of `events[]` not handled yet, `err` those of it reported
with `EPOLLERR`.  `read` returns data first, then a pending error once, then the
end; `write` returns a pending `ECONNRESET` once, then raises SIGPIPE.  A client
that closes with unread data resets the connection at once, and any closed
client resets it in answer to data.

**Client** has one action per branch of `client.c`'s loop.  The constants say how
clients behave, so that a run can ask what depends on it: `Relogin` (whether a
name may be logged in twice), `Paced` (whether clients wait until the server has
read), `Creds` (whether passwords may be wrong), `Manual` (whether clients only
leave by the menu).

**Server**.  A handled event is one action: the process has one thread and
nothing of it runs between the read and the last write of an event.  The
branches of the loop are the actions:

| action | code |
|---|---|
| `EpollWait` | `server.c:70` |
| `NewUserHandler` | `server.c:74-77`, `server_handler.c:27-78`; exit on EMFILE |
| `ErrorEvent`, `EndOfStream` | `server.c:80-87`, `105-111`: `Disconnect` |
| `NothingRead` | `server.c:100-103` |
| `Incomplete` | the exits for a short header or frame |
| `BadMagic` | `server.c:136-138`, `178-180`: the double free |
| `Login`, `Refuse` | `server.c:151-172` |
| `Forward` | `server.c:184-190` |

`cstate` and `user` are fields of the cdp.  `start` is where `cdp->buff` begins
in the stream, so `buffer_used` is `rd - start` and a cdp is in step with its
frames when `start` is a multiple of `FrameLen`.  `Junk` is a `user` pointer left
over from the chunk's former life; a chunk can be recycled once something of
that size was freed (`dirty`).  The code follows it like any other: `free` of it
aborts, or frees memory that is in use again, and `hb_tree_remove` with it faults or
takes the entry of whatever name lies there now (`NameRead`, `RemoveEntry`).
`strayed` remembers that this has happened; the `free` of a name may abort from then
on.  `status` says what ended the process: `exit`, an
abort by glibc (`double_free`, `wild_free`), `sigpipe` or `segv`.

**ChatService** is the abstract specification of the server: who is in session
on which connection, and what was written to whom.  `LogIn` under a name that
nobody uses is answered `200`, `Refuse` answers `401`, `Send` puts a message of
one session into the inbox of another, under the names of both, and never one
that is as old as an earlier one of the same sender (`Newer`); `LogOut` ends a
session.  What is told may be lost (`Tell`): the server drops what it cannot write.
Server implements it (`ImplementsService`) with `SessionOf` for `session`, the name
in the cdp of an open connection, and `out` for `inbox`.  The tree, descriptors,
buffers, epoll and the network have no counterpart: all they do has to amount to
these four steps or to none.  The promise holds where no name is logged in twice
at a time; `Misdelivery` is what becomes of it otherwise.

**Wire** gives, for a frame known by its kind and the lengths of its two strings,
the bytes that are encoded (`Bytes`), what `header.len` says (`HeaderLen`, 16 bits),
what was allocated (`Allocated`), and the frame that `updateBuff` makes of it
(`Rewritten`).  `SIZE_HEADER` is the server's 16, `HeaderBytes` the 12 on the wire.

**Framing** is the abstract specification of one direction of a connection: frames
are written, each is dealt with at most once and in order, and a patient writer's
are dealt with without a gap.  `Restart` stands for a new connection.

**Uplink** is one open connection, from client to server, in bytes.

| action | code |
|---|---|
| `SendAuth`, `SendChat` | `client.c:61-87`, `160-176`, with `createAuthToken`, `createMessage` and the encoders; past the end of the allocation the client dies or goes on |
| `ReadReply` | `client.c:133-148` |
| `Arrive`, `EpollWait` | TCP cuts the stream where it likes; one event per edge |
| `NothingRead`, `ShortHeader`, `BadMagic`, `Incomplete` | `server.c:100-103`, `134-146`, `136-139` and `178-180`, `152` and `182` when the frame is not all there |
| `Login`, `Forward` | `server.c:151-172`, `182-194`; decoding beyond the buffer, or encoding beyond the allocation, is `overrun` or nothing |

`cdp` is the record of the code, with the one field of the decoded header that the
loop reads again (`len`).  `paced` is chosen once: a paced client writes only when the
server has read all it wrote before.

**ClientProcess** is `client.c`.  `reading` is its receive loop, `used` is
`read_buff_size`.  The server is reduced to what a client can tell of it: it
answers logins, forwards messages, writes what fits the socket buffer and gives
up the rest (`Put` is its `Write`), dies and comes back.  `calm` is chosen once: a
calm server lives, and writes only when the client has read what there was.

| action | code |
|---|---|
| `SendAuth` | `client.c:61-87`; a failed `write` counts as sent, because -1 is added to a `size_t` |
| `SendChat`, `Receive`, `Logout` | the options 1, 2, 3 of the menu; a logout sets `curr_state` only if the new connection succeeds, otherwise the "socket" is descriptor 0 |
| `ReadData` | one `read` in either loop, and the decoding after it when the length is there |
| `ReadEnd`, `ReadError`, `ReadTerminal` | `read` returns 0, -1, or what the user types |

Out of step with its frames the client takes anything for magic and length:
`ReadData` then allows it to wait, to crash, or, when the start of a frame is there
but not its whole header, to show what it is not (`garbled`).

Simplifications, and why they are sound or what they hide:

- events of one batch, connections in one backlog: any order instead of the
  kernel's, so more behaviours than the code has;
- server to client: a written message is readable at once.  Delay in this
  direction is not visible to the server, which never waits for a reader;
- what the network does between the read and the write of one event counts as
  before or after it;
- after a wild free that glibc does not notice, the memory is freed while in use.
  That the entry is gone and that a later `free` of a name may abort is modelled
  (`strayed`); what else is written into that memory, so that a name changes in the
  tree or in a cdp, is not;
- in Server, `write` takes a whole message or none: what short writes do to the
  reader is ClientProcess's;
- what an overrun does to the heap is reduced to: the process dies, or nothing
  happens.  What it has written by then may arrive;
- Uplink has no logout and no second connection, ClientProcess no second client:
  what connections do to each other is Server's;
- bytes in the middle of a frame are never a valid magic;
- ClientProcess does not follow a client any further that has closed its terminal
  (`deaf`) or could not connect at its start (`ERROR`);
- a NULL dereference in the tree is a choice (`RemoveMayFault`,
  `InsertMayFault`).  A removal may fault when two entries are there: with a
  `bal` that was not zero (`BalZero = FALSE`), or after a larger tree that an
  earlier removal left out of balance.  It cannot when there never are more than
  two entries and `bal` starts at zero (`Paired`): the node that stays has
  balance -1, 0 or 1 and nothing rotates.  An insertion may fault only for a
  `bal` that is not zero: every other node it rotates is on the path it has just
  extended, and `InsertKeepsBalance` covers the balanced tree.

## 3. The runs

Passing runs, with the states TLC found:

| run | asks | instance | states |
|---|---|---|---|
| `HbTreeHeap` | is the tree a directory, whatever `bal` starts at? is the entry removed the one a search would find? | 4 nodes, 2 names, 2 descriptors, any history; the descriptors are symmetric | 0.34 M |
| `HbTreeWave` | is it height-balanced as long as nobody leaves? do the links survive the removals? | 6 users, each filed once, zeroed heap | 0.81 M |
| `ServerCore` | types? no entry without its session, none lost? events of freed cdps? authentic, once, in order? | 2 connections, 2 names, 5 frames in all, 3 on one, double logins, resets, reads of one frame and a half | 2.5 M |
| `ServerSingle` | right addressee? no password forwarded? a chat service? | 3 connections over 2 descriptors, wrong passwords, no double logins | 2.6 M |
| `ServerLive` | frame by frame? in step? read to the end? answers, logouts | fair, paced, frames as long as a read, 1 name, 4 frames in all, 3 on one, wrong passwords | 0.33 M |
| `Uplink` | decoded whole, once and in order? within all buffers? nothing held back? | 3 frames of lengths 1 to 65530, 7 cuts | 0.057 M |
| `ClientProcess` | client and server agree? only genuine messages? every read ends? | 3 frames per connection, any number of connections and restarts of the server | 0.14 M |

Runs that show the code to differ from its notes (`temp/flow.md`,
`temp/states.md`):

| run | what happens |
|---|---|
| `HbTreeFault` | 1, 2, 3 log in; 3 logs out, in and out again: NULL is dereferenced |
| `LogoutLost` | message and logout arrive together: the logout is never noticed |
| `Misdelivery` | a double login leaves a stale descriptor, which the next connection gets |
| `RefusalAborts` | wrong password on a recycled cdp: a left-over pointer is freed |
| `Starved` | two connections behind one edge: the second is not accepted |

The same property can hold in one run and fail in another: the difference is
the clients' behaviour, and that is the result.  `DeliveredToAddressee` and `ImplementsService`
hold when no name is logged in twice, and the first fails when one is; `FrameByFrame` and
`LogoutRemovesEntry` hold for clients that wait and fail for fast ones; `AcceptedIsRead` holds for a
patient client once it is accepted, which `Starved` shows not to be certain.  In Uplink
and ClientProcess the condition is part of the property: `WithinBuffers`,
`NothingHeld`, `SurvivesCalm` and the refinements say for which lengths and which
pace they hold, and the other cases are in the same run.

Bounds.  `Nodes`, `Conns`, `Fds`, `MaxFrames` bound the instance.  Two
connections are enough for everything that goes on between a sender and an
addressee, or between two sessions of a name; the third is there where
descriptors are reused.  A frame of two cells, the first its header, can be cut in the header's reach or behind it; `ReadMax`
of a whole stream lets any number of frames come in one read.  In `ServerCore` it is
one frame and a half: a read may take the end of one frame and the start of the next,
and leave something behind, which waits for the next edge.  In `ServerLive` it is one
frame, the least with which a patient client can be read to the end
(`AcceptedIsRead`); the end of a longer burst waits for ever if nothing follows it.  Three frames are a
login and two messages; `FrameBound` in MCServer lets one of two connections send
three, the other two (its login and an answer), and the theorems below cover the rest.
`FrameBoundLive` does the same for four frames in `ServerLive`: the second of two
messages is the first frame for which pace makes a difference.  Both bounds restrict
nothing but clients' writes, which no fairness condition asks for, so they hide no
step that a liveness property waits for.
`DriftBound` in MCHbTree cuts off a balance that drifts away from zero without
end: 3 lets a balance pass the value 2 at which the code rotates, 2 just reaches
it.  Six nodes are the least with which a rotation at the root moves a subtree
that is not a single node.  `MaxEvents` is not reached.

In Uplink, `Cuts` and the lengths in MCUplink are the boundaries of the code: in the
magic, behind the header of 12, on either side of the server's 16, behind the first
length, and at the 1024 of a read; a login that fits 48 bytes and one that does not;
messages of one byte, of more than a read, of the most that 16 bits hold (the
sender's longer name then makes one too many), and beyond.  In ClientProcess,
`SockBuf` holds one long message and part of a second, so that a write can be cut in
a header or in a string.  Three frames are an answer and two messages, or a refusal,
an answer and a message.

Symmetry over connections, users and the descriptors of the tree is used in safety runs only; the
properties treat them alike.

Deadlock is not checked: the system may stop, when nobody wants to send any more
and when the process has ended.

Fairness (`FairSpec`): weak fairness of `EpollWait`, of accepting, of handling an
event of each connection (the loop never blocks elsewhere, all its sockets are
non-blocking or handled after an edge), of the network per connection (TCP
delivers), and of a waiting client's read.  No client has to connect, send or
leave.  In Uplink the network delivers, `epoll_wait` reports and the loop handles; in
ClientProcess the server answers a login, the network delivers and a blocked `read`
returns when there is something to return.  Nobody has to write, to choose from the
menu, to die or to come back.

Every property of a passing run is refuted by at least one of the faulty variants
of a definition, defined next to it: an entry that outlives its session, a
rotation that forgets a parent, a buffer that is not reset, and so on.

## 4. The proofs

`ServerProofs` holds, for all values of the constants (any number of connections,
names, descriptors, frames; any frame length; any behaviour of the clients):

- `TypeCorrect`: `Spec => []TypeOK`, which includes `start <= rd <= arrived`;
- `NoStale`: `Spec => []NoStaleEvent`;
- `EntriesCounted`: `Spec /\ []HalfLoginDrained => []EntriesMatchSessions`;
- `OneReadDrains`: if `WideRead` then `Spec => []HalfLoginDrained`.

They rest on the named assumptions of Kernel, Client and Server, which TLC
evaluates in every run.

`Inv` is the inductive invariant of the first two.  `TypeOK` alone is not
inductive.  A chat message is well-typed because a cdp in MESSAGE_STATE has a user
(`MessageOK`); an entry because an open connection has a descriptor (`OpenOK`);
the frame a handler decodes is one that was sent because what has arrived is
bounded by what was sent (`StreamsOK`); and a handler runs only for an open
connection because epoll holds no event of another (`NoStaleEvent`).  The proof
has one lemma per action; `DataInv`, `DataKernel` and `ForgetType` hold what the
handlers of data share, `FrameArithmetic` the one piece of non-linear arithmetic.

`IInv` adds `HalfLoginReset` and `HalfLoginDrained` for the third.  A login adds one
entry and one session.  The end of a session takes one entry of its name, whoever's it
is, or finds that a pointer left over has taken the last one; either way what is left
is no more than the sessions that are left (`SessionEnds`, `SessionCounts`).  The
delicate case is a login whose `200` could not be sent: the user is in the tree
and the cdp still in AUTH_STATE, and a further frame on that connection would be
refused by `resetClient`, which forgets the name and leaves the entry behind.  Such a
connection has been reset and gets no more (`HalfLoginReset`); what can be there is only
what arrived before and was not read with the login.  `HalfLoginDrained` says that there
is no such thing, and is all that `EntriesCounted` asks for, whatever the clients and
the size of a read.  It holds for any clients whose streams one read takes
(`OneReadDrains`), and, for any size of a read, where names are logged in once at a
time (`EntriesKept` below).  It does not hold of the code without either: after a
double login that ends as in `Misdelivery`, the third connection gets a chat by the
stale descriptor while it waits for its answer, takes it for a refusal and sends a
second login; if it then resets the connection and a read ends between the two logins,
the second is refused and the entry of the first is left for good.  TLC finds
`EntriesMatchSessions` violated that way in an instance of three connections, two
descriptors and three frames with `ReadMax` of `ServerCore`; with the two connections of
`ServerCore` nobody gets at a stale descriptor in time.

`ForwardProofs` adds, again for all values of the constants and for any clients:

- `SendersAuthentic`: `Spec => []SenderAuthentic`;
- `OnceAndInOrder`: `Spec => []ForwardedInOrder`.

`FInv` is their invariant.  A forwarded message carries `user` of its connection,
so that name has to be tied to a login: `LoginBehind` says that a good login under
it lies in the part of the stream before `cdp->buff`.  That a connection which is
not in MESSAGE_STATE decodes nothing but logins is `LoginsFirst`: its client does
not send messages before it has read a `200`.  `ForwardedBehind` says that what was
forwarded lies before the buffer, too.  Since a frame is decoded at the buffer's
start and every handler that writes gives the buffer up, the next frame forwarded
is a later one: once and in order.

`LoginProofs` holds, on the steps that `ServiceProofs` has prepared, for clients that
log in once at a time (`Relogin = "closed"`; any number of connections, names,
descriptors and frames, any cut of the streams, any size of a read, any failure):

- `EntriesKept`: `Spec => []EntriesMatchSessions`;
- `EntriesAreCurrent`: `Spec => []EntryIsCurrent`;
- `AddresseeOnly`: `Spec => DeliveredToAddressee`;
- `ServerImplementsService`: `Spec => ImplementsService`, the refinement;
- `PasswordsKept`: `Spec => []NoLoginForwarded`.

`CInv` is what they say about the server's side.  Every session belongs to a client
that claims its name (`Claimed`), no two connections that are not closed claim one
(`ClaimedOnce`), hence a name has one session at most (`OneSession`) and, by
`EntriesMatchSessions`, one entry at most (`OneEntry`); a removal by name, a pointer left
over included, then leaves no entry of that name.  Open connections have different descriptors (`DistinctFds`),
hence who owns the descriptor that a search finds is the addressee
(`OwnerIsAddressee`).  For the refinement every step of the server is shown to be a
`LogIn`, `Refuse`, `LogOut` or `Send` of the service or to change neither sessions nor
inboxes (`StepService`, with a lemma per kind of step); `Newer` is `ForwardedBehind`.

`PInv` adds what the client's side of a login is.
`OneLoginPending`: a connection has one login on its way at most, and while its
client waits in AUTH_STATE for an answer that the server has given, that answer is
the next message it reads.  No chat comes before it, because a connection is found
in the tree only after its login, and the `200` is written then.  So no client takes
a chat for a refusal and tries again, and all that lies ahead of a connection that is
logged in is chats (`ChatsAhead`).  A login that the server decodes is therefore the
last frame of its connection (`LoginIsLast`), and the read that completes it leaves
nothing behind (`LoginDrains`): this is the premise that `EntriesCounted` needs, so
that `PInv` as a whole is inductive.

The assumption is that of the code's intended use, not of the code.  With double
logins the properties fail (`Misdelivery`, and the entry left for good above).

`PaceProofs` holds for clients that write only when the server has read what they
wrote before (`Paced`; any number of connections, names and frames, any frame
length, any cut of the streams, any failure):

- `NeverFreedTwice`: `Spec => []NoDoubleFree`;
- `OneFrameAtATime`: `Spec => FrameByFrame`.

`PaceInv` adds `InStep`: the buffer of a cdp starts where the frames written so far
end, or one frame before that, and in the second case the last frame is not all
read yet.  The one exception is a login whose `200` failed, which keeps a frame that
has been read: then the client has left and writes no more.  So whenever there is
something to read, exactly one frame lies ahead and the buffer starts at its magic
(`DataPlace`, `MagicIsGood`), and what a handler gives up is that frame.  Without pace
both fail: one read then takes the end of one frame and part of the next, and both
are given up.

`UplinkProofs` holds, for all sets of lengths, all ways to cut the stream and any
number of frames:

- `UplinkTypes`: `Spec => []TypeOK`;
- `OnlyWholeFrames`: `Spec => []WholeFrames`;
- `NeverPastBuffers`: `Spec => []WithinBuffers`;
- `PacedNothingHeld`: `Spec => []NothingHeld`;
- `UplinkImplementsFraming`: `Spec => ImplementsFraming`, the refinement.

They rest on `UplinkAssumption`.  `LengthExact` and `FittingFits` are about the format
alone: `header.len` is the number of bytes encoded, unless it wraps; and a frame of
ordinary lengths fits what was allocated for it on both sides.  The inductive
invariant is `IInv` of Uplink.  Three of its parts tie the two ends together:
`LayoutOK` (the frames lie in the stream without overlap, and what is read was
written), `HeaderOK` (the decoded header belongs to the one frame that `cdp->buff`
starts with) and `HandledOK` (what was dealt with lies before it).  With them, a
frame is complete exactly when its last byte is there, and no frame is dealt with
again.  `PacedOK` is what pace adds: the server either has read and dealt with
everything or is within the last frame.  `OneAtStart` and `PacedReading` derive from
these what a handler needs; there is one lemma per action, and `KeepInv` and
`HandleInv` hold what the actions that keep the buffer and those that give it up
have in common.  TLC checks the named parts that are properties; the others were
checked in the same instance before they were proved.

`ClientProofs` holds, for all lengths, any size of the socket buffer, all ways to cut
the stream, and any number of frames, logouts and restarts of the server:

- `ClientTypes`: `Spec => []TypeOK`;
- `MenuOnlyInSession`: `Spec => []LoggedInTogether`;
- `PasswordsOnSocket`: `Spec => []PasswordsToServer`;
- `OnlyGenuineShown`: `Spec => []ShownIsGenuine`;
- `CalmSurvived`: `Spec => []SurvivesCalm`;
- `ClientImplementsFraming`: `Spec => ImplementsFraming`, the refinement.

They rest on `ClientProcessAssumption`.  The invariant is `IInv` of ClientProcess.  The
frames lie in the stream one behind another (`LayoutOK`).  The server has a session
for an open socket and for no other (`ConnectionOK`).  Before a login succeeds all that
the server writes is refusals, one per login, each read to its end before the client
tries again (`LoginOK`): this is why no refusal can be left over to be taken for the
answer to the next password.  In MESSAGE_STATE the answers lie behind (`AnswersOK`), so
all that the menu reads is chats.  A frame once dealt with is behind the buffer
(`TakenOK`), so none is dealt with again.  With a calm server the client has dealt with
all there is or is within the last frame (`CalmOK`), so none is passed over, and it is
never out of step.

`HbTreeProofs` holds for any sets of names, descriptors and addresses, any history of
logins and logouts and, the last theorem apart, any junk in a new node's balance:

- `TypeCorrect`: `Spec => []TypeOK`;
- `AlwaysLinksAgree`: `Spec => []LinksAgree`;
- `AlwaysSearchFinds`: `Spec => []SearchFinds`;
- `AlwaysRemovesFound`: `Spec => []RemovesFound`;
- `TreeIsDirectory`: `Spec => D!Spec`, and `StepsImplementDirectory`:
  `Spec => ImplementsDirectory`, the refinement;
- `InsertsKeepBalance`: `Spec => InsertKeepsBalance`, if `BalJunk = {0}`.

All rest on `StaysSearchTree`.  Its invariant `SearchTree` speaks of the whole tree
without recursion: the allocated nodes can be numbered from left to right
(`Numbered`), each node's subtree holds an interval of the numbers, of which its
children's subtrees take the parts on either side (`Nested`), and the names ascend
with the numbers (`Sorted`).  None of the other invariants is inductive by itself:
that a search ends at the right node needs the order, the order survives a rotation
only because the intervals nest, and the intervals survive an unlinking only because
every link has its counterpart.  A rotation moves two intervals and no number
(`RaiseNested`, hence `Rearranged`, which every turn of the removal's loop keeps, the
faulty ones included: `FixStepClimbs`).  An insertion opens a gap in the numbers next
to a leaf (`NewNodeNested`); a removal closes one (`UnlinkNested`), after the entry
has changed places with that of the next node in order (`NeighbourIsNext`).  That
balances may be wrong is of no consequence for any of it: this is why a removal's three mistakes
ruin the shape and never the directory.

Walks down the tree and lists of entries are recursive functions.  What they compute is
proved by induction over the size of a subtree or over the numbers, stated with a set
in place of a predicate (`Induction`, `InductionUpTo`, `WalkIsDefined`, `InOrderIs`).
`Tally` is the list of a name's descriptors up to a number; inserting or removing one entry
changes it in one place (`FiledInserted`, `FiledRemoved`), which is the step of the
directory.  That of a pair the older entry is found (`Pair`, with zeroed balances and
two addresses) needs the balances after all: `Orderly` adds `Plain`, in which `bal` counts the
children of each node and a left child has the smaller name.

`InsertsKeepBalance` is for a heap of zeroed pages, as in the run `HbTreeWave`; with
another byte in the new node it is false.  A tree is balanced exactly if some function
assigns to every subtree a height that goes with its children's and its balance
(`Level`, `BalancedIsLevel`); the recursive `Height` is one (`HeightMeasures`).  The
walk of an insertion goes from child to child (`WalkDescends`), and a node on it is the
child of no other node (`TrailChild`): so only the subtrees on the path grow, each
below one parent that is on the path too (`LinkLifted`).  Below the pivot all balances
were 0 and become 1 on the side of the path (`LeanTilts`), which is right there
(`GrownEven`); the pivot's height has not changed if it now is even, and else the side
that grew is its heavy one (`GrownPivot`, `Grown`).  Then its child on that side leans:
outward, and one rotation restores the height and all balances (`OutwardRotation`), or
inward, and the first of two rotations makes it lean outward (`InwardRotation`), with
a height that may be two less on the inner side.  Every other node keeps its links,
height and balance (`TurnedElsewhere`).  The condition `IsBalanced(tree)` cannot be
dropped: a removal may leave a tree out of balance (`FixRight`).

Only model-checked: liveness, which is out of the prover's reach.  `NoFault` is false of
the code (`HbTreeFault`).

## 5. Not modelled

Byte order and the contents of strings, and with them the `NUL`s that some
buffers have no room for (the ten known names are too short for it to matter);
what a wild write or an over-read does to the heap; socket set-up; what a client
does after it has closed its terminal; `login.c` and `states.c` (never called);
`b.c` and `temp/` (not built).

One more disagreement with the notes is in the model without a run of its own:
`flow.md:23` has a logout "set state to initial state", but `startNewConnection`
does so only when it connects (`client_handler.c:38-50`); `StateAfter` of
ClientProcess is this.  `LoggedInTogether` and `PasswordsToServer` show that no
password is lost by it.

## 6. Plan

1. done: HbTree and Directory; Kernel, Client, Server; their runs;
   `TypeCorrect`, `NoStale`, `EntriesCounted`.
2. done: Wire, Framing, Uplink and its proofs; ClientProcess.
3. done: ChatService and the refinement; ForwardProofs, ServiceProofs,
   LoginProofs.
4. done: the proofs about the client (ClientProofs) and about paced clients
   (PaceProofs), and about the tree (HbTreeProofs).
5. done: `InsertKeepsBalance` for any number of users.
6. the server over the real tree instead of the directory, shown to implement
   Server; `RemoveMayFault` then disappears.
