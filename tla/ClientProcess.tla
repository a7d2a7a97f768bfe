--------------------------- MODULE ClientProcess ---------------------------
(***************************************************************************)
(* client.c: its loop, its one socket, and the bytes it reads.  Client.tla *)
(* is the same program as the server sees it; here the server is reduced   *)
(* to what a client can tell of it: it answers a login, forwards chats to  *)
(* a session, writes what its socket buffer takes (Write() gives up on     *)
(* EAGAIN and its result is ignored), and may die and come back.           *)
(***************************************************************************)
EXTENDS Wire, Sequences

CONSTANTS
  Sizes,      \* lengths of the sender's name and of a forwarded message
  SockBuf,    \* bytes that fit into the buffers between write() and read()
  Cuts,       \* bound: bytes into a frame that a piece of the stream ends
  MaxWritten  \* bound: frames the server writes on one connection

ASSUME ClientProcessAssumption ==
  /\ Sizes \subseteq Short \X Short
  /\ SockBuf \in Nat /\ Cuts \subseteq Nat /\ MaxWritten \in Nat
  /\ InfoBytes <= SockBuf

VARIABLES
  curr_state,  \* ERROR, INITIAL, AUTH, MESSAGE
  fd,          \* client_socket: a socket, or 0, which is the terminal
  reading,     \* in the receive loop of AUTH_STATE or option 2
  used,        \* read_buff_size
  got,         \* bytes of the stream read so far
  taken,       \* the frames decoded from exactly their own bytes, by number
  garbled,     \* something else was decoded, and shown or acted on
  fate,        \* of the client: running, crashed, deaf (it closed its terminal)
  up,          \* the server accepts connections
  session,     \* what the server makes of this connection: none, out, in
  asked,       \* a login is on its way to it
  stream,      \* the frames it wrote, as far as its socket took them
  came,        \* bytes of them that have reached the client
  end,         \* how the server's end was closed: open, fin, rst
  calm         \* the server lives, and writes when the client has read

clientVars == <<curr_state, fd, reading, used, got, taken, garbled, fate>>
serverVars == <<up, session, asked, stream, end>>
vars == <<clientVars, serverVars, came, calm>>

\* size bytes were to be written, cut of them were.
Written == [kind : {"200", "401", "chat"}, size : Nat, len : Short, cut : Nat, at : Nat]

TypeOK ==
  /\ curr_state \in {"ERROR", "INITIAL", "AUTH", "MESSAGE"}
  /\ fd \in {"socket", "terminal"} /\ reading \in BOOLEAN
  /\ used \in Nat /\ got \in Nat /\ used <= got /\ got <= came
  /\ taken \in Seq(Nat) /\ garbled \in BOOLEAN
  /\ fate \in {"running", "crashed", "deaf"}
  /\ up \in BOOLEAN /\ session \in {"none", "out", "in"} /\ asked \in BOOLEAN
  /\ stream \in Seq(Written) /\ came \in Nat
  /\ end \in {"open", "fin", "rst"} /\ calm \in BOOLEAN

Total == IF stream = <<>> THEN 0 ELSE stream[Len(stream)].at + stream[Len(stream)].cut

-----------------------------------------------------------------------------
(* startNewConnection().                                                   *)

\* Faulty variants: curr_state is set at the start of the program only, or
\* before connect() has succeeded.
StateAfter_Kept(connected)  == curr_state
StateAfter_Early(connected) == "INITIAL"

\* If nobody listens the function closes the socket and returns 0, which is the
\* terminal's descriptor, and curr_state is what it was.
StateAfter(connected) == IF connected THEN "INITIAL" ELSE curr_state

startNewConnection ==
  /\ curr_state' = StateAfter(up)
  /\ fd' = IF up THEN "socket" ELSE "terminal"
  /\ session' = IF up THEN "out" ELSE "none"
  /\ end' = "open"

\* What went with the old connection.
Reset == /\ reading' = FALSE /\ used' = 0 /\ got' = 0 /\ taken' = <<>>
         /\ garbled' = FALSE /\ stream' = <<>> /\ came' = 0 /\ asked' = FALSE

\* main() calls it first; curr_state, a global, is still ERROR_STATE.
Init ==
  /\ reading = FALSE /\ used = 0 /\ got = 0 /\ taken = <<>> /\ garbled = FALSE
  /\ stream = <<>> /\ came = 0 /\ asked = FALSE /\ end = "open"
  /\ fate = "running" /\ calm \in BOOLEAN
  /\ up \in BOOLEAN /\ (calm => up)
  /\ curr_state = IF up THEN "INITIAL" ELSE "ERROR"
  /\ fd = IF up THEN "socket" ELSE "terminal"
  /\ session = IF up THEN "out" ELSE "none"

-----------------------------------------------------------------------------
(* The server, and the network.                                            *)

\* Write(): short writes until EAGAIN, and then the rest is given up.
Room == SockBuf - (Total - got)

Put(kind, size, len) ==
  /\ end = "open" /\ Len(stream) < MaxWritten
  /\ calm => got = Total /\ used = 0
  /\ stream' = Append(stream,
       [kind |-> kind, size |-> size, len |-> len, at |-> Total,
        cut |-> IF size <= Room THEN size ELSE Room])

\* "200" or "401".
Answer ==
  /\ asked /\ session = "out"
  /\ \E kind \in {"200", "401"} :
       /\ Put(kind, InfoBytes, InfoBytes)
       /\ session' = IF kind = "200" THEN "in" ELSE "out"
  /\ asked' = FALSE
  /\ UNCHANGED <<clientVars, up, end, came, calm>>

\* Another user's message.
ForwardTo ==
  /\ session = "in"
  /\ \E s \in Sizes :
       LET f == [kind |-> "chat", a |-> s[1], b |-> s[2]]
       IN  Put("chat", Bytes(f), HeaderLen(f))
  /\ UNCHANGED <<clientVars, up, session, asked, end, came, calm>>

\* The process ends, and its sockets are closed; if something the client wrote is
\* unread, by a reset.
ServerDies ==
  /\ up /\ ~calm
  /\ up' = FALSE
  /\ session' = "none"
  /\ end' \in IF fd = "socket" THEN {"fin", "rst"} ELSE {end}
  /\ UNCHANGED <<clientVars, asked, stream, came, calm>>

ServerStarts ==
  /\ ~up /\ up' = TRUE
  /\ UNCHANGED <<clientVars, session, asked, stream, end, came, calm>>

CutPoints == {Total} \cup {stream[i].at + k : i \in DOMAIN stream, k \in Cuts}

Arrive ==
  /\ \E n \in CutPoints : came < n /\ n <= Total /\ came' = n
  /\ UNCHANGED <<clientVars, serverVars, calm>>

-----------------------------------------------------------------------------
(* INITIAL_STATE, and the menu of MESSAGE_STATE.                           *)

Active(state) == fate = "running" /\ curr_state = state /\ ~reading

\* write() to a connection that the server has closed: the first makes it answer
\* with a reset, a later one fails or is a SIGPIPE.
WriteToServer ==
  \/ (fd = "terminal" \/ end = "open") /\ UNCHANGED <<end, fate>>
  \/ fd = "socket" /\ end = "fin" /\ end' = "rst" /\ UNCHANGED fate
  \/ fd = "socket" /\ end = "rst" /\ fate' \in {"running", "crashed"} /\ UNCHANGED end

\* Name and password; an error is reported and counts as sent.  Bound: no login
\* that the server could not answer.
SendAuth ==
  /\ Active("INITIAL") /\ Len(stream) < MaxWritten
  /\ WriteToServer
  /\ curr_state' = "AUTH" /\ reading' = TRUE /\ used' = 0
  /\ asked' = (end = "open")
  /\ UNCHANGED <<fd, got, taken, garbled, up, session, stream, came, calm>>

\* Option 1; what becomes of the message is Uplink's.
SendChat ==
  /\ Active("MESSAGE")
  /\ WriteToServer
  /\ UNCHANGED <<curr_state, fd, reading, used, got, taken, garbled, up, session,
                 asked, stream, came, calm>>

\* Option 2.
Receive ==
  /\ Active("MESSAGE")
  /\ reading' = TRUE /\ used' = 0
  /\ UNCHANGED <<curr_state, fd, got, taken, garbled, fate, serverVars, came, calm>>

\* Option 3.  close(0) takes the terminal away, and the next socket gets its
\* descriptor: the menu will read its options from there, if from anywhere.
Logout ==
  /\ Active("MESSAGE")
  /\ Reset
  /\ IF fd = "socket" THEN startNewConnection /\ UNCHANGED fate
     ELSE fate' = "deaf" /\ UNCHANGED <<curr_state, fd, session, end>>
  /\ UNCHANGED <<up, calm>>

-----------------------------------------------------------------------------
(* The receive loop of AUTH_STATE and of option 2: read() until the length *)
(* in the header is there, then decode.                                    *)

BuffSize == 1024

\* Faulty variant: sizeof(temp_buff) is added, whatever was read.
ReadLen_Sizeof == BuffSize

ReadLen == IF came - got < BuffSize THEN came - got ELSE BuffSize

Size  == used + ReadLen
Start == got - used

\* The frame that read_buff starts with, if it starts with one.
AtStart == {i \in DOMAIN stream : stream[i].at = Start /\ stream[i].cut > 0}

\* Its header is its own, so that its magic and length are what was written.
HasHeader(i) == i \in AtStart /\ stream[i].cut >= HeaderBytes

\* Faulty variants: a header is enough, or the length must be exceeded.
is_read_full_Header(len) == Size >= HeaderBytes
is_read_full_Strict(len) == Size >= HeaderBytes /\ Size > len

is_read_full(len) == Size >= HeaderBytes /\ Size >= len

\* Decoding found this, and the loop of main() goes on; what was read beyond the
\* frame is freed.
Show(state) == curr_state' = state /\ reading' = FALSE /\ used' = 0 /\ UNCHANGED fate

\* strcmp(): only "200" is a success; a chat in its place is a refusal.
AfterMessage(kind) ==
  CASE curr_state = "AUTH" /\ kind = "200" -> "MESSAGE"
    [] curr_state = "AUTH" /\ kind # "200" -> "INITIAL"
    [] curr_state = "MESSAGE"              -> "MESSAGE"

\* Faulty variant: the strings are taken from temp_buff, the last read.
Intact_LastRead(i) == used = 0 /\ stream[i].cut = stream[i].size

\* The frame is all there, and of the kind that is decoded: of an answer the
\* decoder of messages takes the text for a length.
Intact(i) ==
  /\ stream[i].cut = stream[i].size /\ stream[i].size <= Size
  /\ curr_state = "MESSAGE" => stream[i].kind = "chat"

Genuine(i) ==
  /\ Intact(i)
  /\ Show(AfterMessage(stream[i].kind))
  /\ taken' = Append(taken, i)
  /\ UNCHANGED garbled

\* Strings and lengths that are other bytes, of the stream or of the heap: they
\* are taken for an answer or a message, or the copying runs into a fault.
Garble ==
  /\ garbled' = TRUE
  /\ \/ \E kind \in {"200", "chat"} : Show(AfterMessage(kind))
     \/ fate' = "crashed" /\ UNCHANGED <<curr_state, reading, used>>
  /\ UNCHANGED taken

\* A wrong magic, or no buffer at all: NULL is dereferenced.
Crash == fate' = "crashed" /\ UNCHANGED <<curr_state, reading, used, taken, garbled>>

More == used' = Size /\ UNCHANGED <<curr_state, reading, taken, garbled, fate>>

InLoop == fate = "running" /\ reading /\ fd = "socket"

\* read() returned data: of a frame, of one whose header was cut short (its
\* length may be anything), or from the middle of one (its magic is wrong, too).
ReadData ==
  /\ InLoop /\ got < came
  /\ got' = got + ReadLen
  /\ \/ \E i \in DOMAIN stream :
          /\ HasHeader(i)
          /\ \/ ~is_read_full(stream[i].len) /\ More
             \/ is_read_full(stream[i].len) /\ Genuine(i)
             \/ is_read_full(stream[i].len) /\ ~Intact(i) /\ Garble
     \/ /\ \A i \in AtStart : ~HasHeader(i)
        /\ \/ More
           \/ Size >= HeaderBytes /\ Crash
           \/ Size >= HeaderBytes /\ AtStart # {} /\ Garble
  /\ UNCHANGED <<fd, serverVars, came, calm>>

\* read() returned 0: what there is, or NULL, is decoded.
ReadEnd ==
  /\ InLoop /\ got = Total /\ end = "fin"
  /\ \/ Crash
     \/ used # 0 /\ AtStart # {} /\ Garble
  /\ UNCHANGED <<fd, got, serverVars, came, calm>>

\* read() returned -1, which is a large size_t, and memcpy() is given it.
ReadError ==
  /\ InLoop /\ got = came /\ end = "rst"
  /\ Crash
  /\ UNCHANGED <<fd, got, serverVars, came, calm>>

\* What the user types is read in place of the server's bytes, and has no magic.
ReadTerminal ==
  /\ fate = "running" /\ reading /\ fd = "terminal"
  /\ Crash
  /\ UNCHANGED <<fd, got, serverVars, came, calm>>

Read == ReadData \/ ReadEnd \/ ReadError \/ ReadTerminal

Next ==
  \/ SendAuth \/ SendChat \/ Receive \/ Logout \/ Read
  \/ Answer \/ ForwardTo \/ ServerDies \/ ServerStarts \/ Arrive

Spec == Init /\ [][Next]_vars

\* The server answers, the network delivers, a blocked read() returns.
FairSpec == Spec /\ WF_vars(Answer) /\ WF_vars(Arrive) /\ WF_vars(Read)

-----------------------------------------------------------------------------
(* Properties.                                                             *)

\* No write was given up, and no length was wrapped.
Whole == \A i \in DOMAIN stream : stream[i].cut = stream[i].size /\ stream[i].size <= stream[i].len

\* The client shows the menu on a live connection only when the server has this
\* very connection logged in: after a logout, it asks for the password again.
LoggedInTogether ==
  curr_state = "MESSAGE" /\ fd = "socket" /\ end = "open" => session = "in"

\* Names and passwords are never asked for without a connection, to be written
\* to descriptor 0.
PasswordsToServer == curr_state \in {"INITIAL", "AUTH"} => fd = "socket"

\* Whatever was dropped before, and however the stream is cut, no message is
\* shown, or taken for an answer, that mixes bytes of two frames, unless the
\* server gave up a write or is gone.
ShownIsGenuine == garbled => ~Whole \/ end # "open"

\* Reading in step with a server that lives, the client is never out of step
\* with its frames, and never dies.
SurvivesCalm == calm /\ Whole => fate # "crashed"

F == INSTANCE Framing WITH written <- Len(stream), dealt <- taken,
                           patient <- calm /\ Whole

\* client.c implements Framing, through logouts and new connections.
ImplementsFraming == F!Spec

\* What keeps these inductive.  The frames lie in the stream one behind the other.
LayoutOK ==
  /\ came <= Total /\ Total - got <= SockBuf
  /\ \A i \in DOMAIN stream :
       /\ HeaderBytes <= stream[i].size /\ stream[i].cut <= stream[i].size
       /\ stream[i].at + stream[i].cut <= Total
  /\ \A i, j \in DOMAIN stream : i < j => stream[i].at + stream[i].cut <= stream[j].at

\* The server has a session for a socket that is open, and for no other.
ConnectionOK ==
  /\ session # "none" <=> fd = "socket" /\ end = "open"
  /\ fd = "terminal" => stream = <<>> /\ end = "open"
  /\ calm => up /\ session # "none"
  /\ curr_state = "AUTH" => reading
  /\ reading => curr_state \in {"AUTH", "MESSAGE"}
  /\ ~reading => used = 0

\* Before the login succeeds the server writes refusals, each an answer to one
\* login, which the client reads to the end before it tries again.
LoginOK ==
  session = "out" =>
    /\ curr_state \in {"INITIAL", "AUTH"} /\ (asked => curr_state = "AUTH")
    /\ \A i \in DOMAIN stream :
         /\ stream[i].kind = "401" /\ stream[i].len = InfoBytes
         /\ stream[i].size = InfoBytes /\ stream[i].cut = InfoBytes
    /\ IF curr_state = "AUTH" /\ ~asked
       THEN stream # <<>> /\ stream[Len(stream)].at = Start
       ELSE got = Total /\ used = 0

\* After the login succeeded it writes chats; and in MESSAGE_STATE the answers
\* have been read.
AnswersOK ==
  /\ \A i, j \in DOMAIN stream : stream[i].kind = "200" /\ i < j => stream[j].kind = "chat"
  /\ curr_state = "MESSAGE" /\ end = "open" /\ Whole =>
       \A i \in DOMAIN stream :
         stream[i].kind # "chat" => stream[i].at + stream[i].cut <= Start

Latest == F!Latest

TakenOK ==
  taken # <<>> =>
    /\ Latest \in DOMAIN stream
    /\ stream[Latest].at + stream[Latest].cut <= Start

\* With a calm server the client has dealt with all there is, or is within the
\* last frame.
CalmOK ==
  calm /\ Whole =>
    /\ fate = "running"
    /\ \/ got = Total /\ used = 0 /\ Latest = Len(stream)
       \/ /\ stream # <<>> /\ Latest = Len(stream) - 1
          /\ stream[Len(stream)].at = Start
          /\ curr_state = "MESSAGE" => stream[Len(stream)].kind = "chat"

IInv == /\ TypeOK /\ LayoutOK /\ ConnectionOK /\ LoginOK /\ AnswersOK /\ TakenOK /\ CalmOK
        /\ PasswordsToServer /\ ShownIsGenuine

\* A client that waits for an answer, or for a message that was written, gets it
\* to the last byte and goes on.
ReadsEnd ==
  (calm /\ Whole /\ reading /\ (curr_state = "AUTH" \/ got < Total)) ~> ~reading
=============================================================================
