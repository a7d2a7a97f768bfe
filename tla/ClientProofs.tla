---------------------------- MODULE ClientProofs ----------------------------
(***************************************************************************)
(* Theorems about ClientProcess, for all lengths of messages, every size   *)
(* of the socket buffers, every way to cut the stream, and any number of   *)
(* frames, connections and restarts of the server.                         *)
(***************************************************************************)
EXTENDS ClientProcess, SequenceTheorems, TLAPS

-----------------------------------------------------------------------------
(* The stream.                                                             *)

LEMMA WrittenFrame ==
  ASSUME TypeOK, NEW i \in DOMAIN stream
  PROVE  /\ i \in Nat /\ 1 <= i /\ i <= Len(stream)
         /\ stream[i].kind \in {"200", "401", "chat"}
         /\ stream[i].size \in Nat /\ stream[i].len \in Nat
         /\ stream[i].cut \in Nat /\ stream[i].at \in Nat
<1>1. stream[i] \in Written /\ i \in 1 .. Len(stream) /\ Len(stream) \in Nat
  BY DEF TypeOK
<1>2. QED
  BY <1>1 DEF Written, Short

LEMMA TotalType ==
  ASSUME TypeOK
  PROVE  /\ Total \in Nat /\ Len(stream) \in Nat /\ DOMAIN stream = 1 .. Len(stream)
         /\ stream = <<>> => Total = 0 /\ Len(stream) = 0
         /\ stream # <<>> =>
              /\ Len(stream) \in DOMAIN stream
              /\ Total = stream[Len(stream)].at + stream[Len(stream)].cut
<1>1. stream \in Seq(Written) /\ Len(stream) \in Nat /\ DOMAIN stream = 1 .. Len(stream)
  BY DEF TypeOK
<1>2. CASE stream = <<>>
  BY <1>1, <1>2 DEF Total
<1>3. CASE stream # <<>>
  <2>1. Len(stream) # 0
    BY <1>1, <1>3, EmptySeq
  <2>2. Len(stream) \in DOMAIN stream
    BY <1>1, <2>1
  <2>3. QED
    BY <1>1, <1>3, <2>2, WrittenFrame DEF Total
<1>4. QED
  BY <1>2, <1>3

\* A frame is written behind the others, which stay where they are.
LEMMA Appended ==
  ASSUME TypeOK, NEW w \in Written, w.at = Total, stream' = Append(stream, w)
  PROVE  /\ stream' \in Seq(Written) /\ stream' # <<>>
         /\ Len(stream') = Len(stream) + 1 /\ DOMAIN stream' = 1 .. Len(stream) + 1
         /\ \A i \in DOMAIN stream : i \in DOMAIN stream' /\ stream'[i] = stream[i]
         /\ stream'[Len(stream) + 1] = w
         /\ Total' = Total + w.cut
         /\ Whole' => Whole /\ w.cut = w.size /\ w.size <= w.len
<1>1. stream \in Seq(Written) /\ Len(stream) \in Nat /\ DOMAIN stream = 1 .. Len(stream)
  BY DEF TypeOK
<1>2. /\ stream' \in Seq(Written)
      /\ Len(stream') = Len(stream) + 1
      /\ DOMAIN stream' = 1 .. Len(stream) + 1
      /\ \A i \in 1 .. Len(stream) : stream'[i] = stream[i]
      /\ stream'[Len(stream) + 1] = w
  BY <1>1, AppendProperties
<1>3. stream' # <<>>
  BY <1>1, <1>2, EmptySeq
<1>4. Total' = Total + w.cut
  BY <1>1, <1>2, <1>3 DEF Total
<1>5. Len(stream) + 1 \in DOMAIN stream'
  BY <1>1, <1>2
<1>6. ASSUME Whole' PROVE Whole /\ w.cut = w.size /\ w.size <= w.len
  <2>1. \A i \in DOMAIN stream' : stream'[i].cut = stream'[i].size /\ stream'[i].size <= stream'[i].len
    BY <1>6 DEF Whole
  <2>2. QED
    BY <1>1, <1>2, <1>5, <2>1 DEF Whole
<1>7. QED
  BY <1>1, <1>2, <1>3, <1>4, <1>6

\* What two frames have to do with each other: the first lies before the second.
LEMMA Before ==
  ASSUME TypeOK, LayoutOK, NEW i \in DOMAIN stream, NEW j \in DOMAIN stream,
         stream[i].at < stream[j].at + stream[j].cut, i # j
  PROVE  i < j
<1>1. /\ i \in Nat /\ j \in Nat /\ stream[j].at \in Nat /\ stream[j].cut \in Nat
      /\ stream[i].at \in Nat
  BY WrittenFrame
<1>2. CASE j < i
  <2>1. stream[j].at + stream[j].cut <= stream[i].at
    BY <1>2 DEF LayoutOK
  <2>2. QED
    BY <1>1, <2>1
<1>3. QED
  BY <1>1, <1>2

\* read_buff starts with one frame at most.
LEMMA OneAtStart ==
  ASSUME TypeOK, LayoutOK, NEW i \in AtStart
  PROVE  AtStart = {i}
<1>1. \A j \in AtStart : /\ j \in DOMAIN stream /\ stream[j].at = Start
                         /\ stream[j].at < stream[j].at + stream[j].cut
  BY WrittenFrame DEF AtStart
<1>2. ASSUME NEW j \in AtStart PROVE j = i
  <2>1. i # j => i < j /\ j < i
    BY <1>1, Before
  <2>2. i \in Nat /\ j \in Nat
    BY <1>1, WrittenFrame
  <2>3. QED
    BY <2>1, <2>2
<1>3. QED
  BY <1>2

\* A connection starts with nothing.
LEMMA StartAfresh ==
  ASSUME Reset, TypeOK', PasswordsToServer', ConnectionOK', fate' \in {"running", "deaf"},
         calm' => fate' = "running",
         session' = "out" => curr_state' = "INITIAL"
  PROVE  IInv'
<1>1. /\ reading' = FALSE /\ used' = 0 /\ got' = 0 /\ taken' = <<>> /\ garbled' = FALSE
      /\ stream' = <<>> /\ came' = 0 /\ asked' = FALSE
  BY DEF Reset
<1>2. Total' = 0 /\ Latest' = 0 /\ Len(stream') = 0 /\ DOMAIN stream' = {}
  BY <1>1 DEF Total, Latest, F!Latest
<1>3. LayoutOK' /\ AnswersOK' /\ TakenOK' /\ ShownIsGenuine'
  BY <1>1, <1>2, ClientProcessAssumption DEF LayoutOK, AnswersOK, TakenOK, ShownIsGenuine
<1>4. LoginOK' /\ CalmOK'
  BY <1>1, <1>2 DEF LoginOK, CalmOK
<1>5. QED
  BY <1>3, <1>4 DEF IInv

LEMMA InitIInv == Init => IInv
<1> SUFFICES ASSUME Init PROVE IInv
  OBVIOUS
<1> USE DEF Init
<1>1. stream \in Seq(Written) /\ taken \in Seq(Nat)
  BY EmptySeq
<1>2. TypeOK
  <2>1. /\ curr_state \in {"ERROR", "INITIAL", "AUTH", "MESSAGE"}
        /\ fd \in {"socket", "terminal"} /\ session \in {"none", "out", "in"}
    OBVIOUS
  <2>2. used \in Nat /\ got \in Nat /\ came \in Nat /\ used <= got /\ got <= came
    OBVIOUS
  <2>3. QED
    BY <1>1, <2>1, <2>2, Zenon DEF TypeOK
<1>3. Total = 0 /\ Latest = 0
  BY DEF Total, Latest, F!Latest
<1>4. LayoutOK /\ AnswersOK /\ TakenOK /\ ShownIsGenuine
  BY <1>3, ClientProcessAssumption DEF LayoutOK, AnswersOK, TakenOK, ShownIsGenuine
<1>5. LoginOK /\ CalmOK /\ ConnectionOK /\ PasswordsToServer
  BY <1>3 DEF LoginOK, CalmOK, ConnectionOK, PasswordsToServer
<1>6. QED
  BY <1>2, <1>4, <1>5 DEF IInv

-----------------------------------------------------------------------------
(* The server, and the network.                                            *)

\* Put() as far as IInv goes that does not depend on what is written: the last
\* two conjuncts say that it fits where it comes.
LEMMA PutInv ==
  ASSUME IInv, NEW kind \in {"200", "401", "chat"}, NEW size \in Nat, NEW len \in Short,
         HeaderBytes <= size, Put(kind, size, len),
         UNCHANGED <<clientVars, up, end, came, calm>>,
         session \in {"out", "in"}, session' \in {"out", "in"}, asked' \in BOOLEAN,
         session = "out" => kind # "chat" /\ curr_state = "AUTH",
         session = "in" => kind = "chat" /\ session' = "in",
         LoginOK'
  PROVE  IInv'
<1> DEFINE n == Len(stream) + 1
           cut == IF size <= Room THEN size ELSE Room
           w == [kind |-> kind, size |-> size, len |-> len, at |-> Total, cut |-> cut]
<1>1. /\ TypeOK /\ LayoutOK /\ ConnectionOK /\ LoginOK /\ AnswersOK /\ TakenOK /\ CalmOK
      /\ PasswordsToServer /\ ShownIsGenuine
  BY DEF IInv
<1>2. UNCHANGED <<curr_state, fd, reading, used, got, taken, garbled, fate, up, end, came, calm>>
  BY DEF clientVars
<1>3. /\ stream' = Append(stream, w) /\ end = "open"
      /\ calm => got = Total /\ used = 0
  BY DEF Put
<1>4. /\ Total \in Nat /\ Room \in Nat /\ cut \in Nat /\ cut <= size /\ cut <= Room
      /\ got \in Nat /\ used \in Nat /\ came \in Nat /\ SockBuf \in Nat /\ used <= got
      /\ got <= came /\ came <= Total /\ Room = SockBuf - (Total - got)
  <2>1. /\ Total \in Nat /\ got \in Nat /\ came \in Nat /\ SockBuf \in Nat /\ used \in Nat
        /\ Total - got <= SockBuf /\ used <= got /\ got <= came /\ came <= Total
    BY <1>1, TotalType, ClientProcessAssumption DEF LayoutOK, TypeOK
  <2>2. Room \in Nat
    BY <2>1 DEF Room
  <2>3. QED
    BY <2>1, <2>2 DEF Room
<1> HIDE DEF cut
<1>5. w \in Written /\ w.at = Total
  BY <1>4 DEF Written
<1>6. /\ w.cut = cut /\ w.size = size /\ w.len = len /\ w.kind = kind
  OBVIOUS
<1> HIDE DEF w
<1>7. /\ stream' \in Seq(Written) /\ stream' # <<>>
      /\ Len(stream') = n /\ DOMAIN stream' = 1 .. n
      /\ \A i \in DOMAIN stream : i \in DOMAIN stream' /\ stream'[i] = stream[i]
      /\ stream'[n] = w
      /\ Total' = Total + cut
      /\ Whole' => Whole /\ cut = size
  BY <1>1, <1>3, <1>5, <1>6, Appended
<1>8. n \in Nat /\ n = Len(stream) + 1 /\ DOMAIN stream = 1 .. n - 1
  BY <1>1, TotalType
<1> HIDE DEF n
<1>9. \A i \in DOMAIN stream' : i = n \/ i \in DOMAIN stream
  BY <1>7, <1>8
<1>10. TypeOK'
  BY <1>1, <1>2, <1>7 DEF TypeOK
<1>11. LayoutOK'
  <2>1. came' <= Total' /\ Total' - got' <= SockBuf
    BY <1>2, <1>4, <1>7
  <2>2. ASSUME NEW i \in DOMAIN stream'
        PROVE  /\ HeaderBytes <= stream'[i].size /\ stream'[i].cut <= stream'[i].size
               /\ stream'[i].at + stream'[i].cut <= Total'
    <3>1. CASE i = n
      BY <1>4, <1>5, <1>6, <1>7, <3>1
    <3>2. CASE i \in DOMAIN stream
      <4>1. /\ HeaderBytes <= stream[i].size /\ stream[i].cut <= stream[i].size
            /\ stream[i].at + stream[i].cut <= Total
            /\ stream[i].at \in Nat /\ stream[i].cut \in Nat
        BY <1>1, <3>2, WrittenFrame DEF LayoutOK
      <4>2. QED
        BY <1>4, <1>7, <3>2, <4>1
    <3>3. QED
      BY <1>9, <3>1, <3>2
  <2>3. ASSUME NEW i \in DOMAIN stream', NEW j \in DOMAIN stream', i < j
        PROVE  stream'[i].at + stream'[i].cut <= stream'[j].at
    <3>1. i \in DOMAIN stream
      BY <1>7, <1>8, <2>3
    <3>2. CASE j = n
      BY <1>1, <1>5, <1>7, <3>1, <3>2 DEF LayoutOK
    <3>3. CASE j \in DOMAIN stream
      BY <1>1, <1>7, <2>3, <3>1, <3>3 DEF LayoutOK
    <3>4. QED
      BY <1>9, <3>2, <3>3
  <2>4. QED
    BY <2>1, <2>2, <2>3 DEF LayoutOK
<1>12. ConnectionOK' /\ PasswordsToServer'
  BY <1>1, <1>2, <1>3 DEF ConnectionOK, PasswordsToServer
<1>13. AnswersOK'
  <2>1. ASSUME NEW i \in DOMAIN stream', NEW j \in DOMAIN stream',
               stream'[i].kind = "200", i < j
        PROVE  stream'[j].kind = "chat"
    <3>1. i \in DOMAIN stream /\ stream[i].kind = "200"
      BY <1>7, <1>8, <2>1
    <3>2. session # "out"
      BY <1>1, <3>1 DEF LoginOK
    <3>3. CASE j = n
      BY <1>6, <1>7, <3>2, <3>3
    <3>4. CASE j \in DOMAIN stream
      BY <1>1, <1>7, <2>1, <3>1, <3>4 DEF AnswersOK
    <3>5. QED
      BY <1>9, <3>3, <3>4
  <2>2. ASSUME curr_state = "MESSAGE", Whole', NEW i \in DOMAIN stream', stream'[i].kind # "chat"
        PROVE  stream'[i].at + stream'[i].cut <= Start
    <3>1. session = "in" /\ kind = "chat"
      BY <2>2
    <3>2. i \in DOMAIN stream
      BY <1>6, <1>7, <1>9, <2>2, <3>1
    <3>3. QED
      BY <1>1, <1>3, <1>7, <2>2, <3>2 DEF AnswersOK
  <2>3. Start' = Start
    BY <1>2 DEF Start
  <2>4. QED
    BY <1>2, <2>1, <2>2, <2>3 DEF AnswersOK
<1>14. TakenOK'
  <2>1. Latest' = Latest /\ Start' = Start /\ taken' = taken
    BY <1>2 DEF Latest, F!Latest, Start
  <2>2. QED
    BY <1>1, <1>7, <2>1 DEF TakenOK
<1>15. CalmOK'
  <2> SUFFICES ASSUME calm, Whole' PROVE CalmOK'
    BY <1>2 DEF CalmOK
  <2>1. fate = "running" /\ got = Total /\ used = 0
    BY <1>1, <1>3, <1>7 DEF CalmOK
  <2>2. Latest = Len(stream)
    <3>1. CASE Latest = Len(stream) - 1 /\ stream # <<>> /\ stream[Len(stream)].at = Start
      <4>1. Start = Total
        BY <1>4, <2>1 DEF Start
      <4>2. stream[Len(stream)].cut = stream[Len(stream)].size
        BY <1>1, <1>7, <3>1, TotalType DEF Whole
      <4>3. /\ HeaderBytes <= stream[Len(stream)].size /\ stream[Len(stream)].size \in Nat
            /\ Total = stream[Len(stream)].at + stream[Len(stream)].cut
        BY <1>1, <3>1, TotalType, WrittenFrame DEF LayoutOK
      <4> DEFINE z == stream[Len(stream)]
      <4>4. z.at = Total /\ z.cut = z.size /\ Total = z.at + z.cut /\ 12 <= z.size /\ z.size \in Nat
        BY <3>1, <4>1, <4>2, <4>3 DEF HeaderBytes
      <4> HIDE DEF z
      <4>5. FALSE
        BY <1>4, <4>4
      <4>6. QED
        BY <4>5
    <3>2. calm /\ Whole /\ CalmOK
      BY <1>1, <1>7
    <3>3. \/ Latest = Len(stream)
          \/ Latest = Len(stream) - 1 /\ stream # <<>> /\ stream[Len(stream)].at = Start
      BY <3>2 DEF CalmOK
    <3>4. QED
      BY <3>1, <3>3
  <2>3. Latest' = Latest /\ Start' = Start /\ Start = Total
    BY <1>2, <1>4, <2>1 DEF Latest, F!Latest, Start
  <2>4. Latest' = Len(stream') - 1
    BY <1>7, <1>8, <2>2, <2>3
  <2>5. stream'[Len(stream')].at = Start'
    BY <1>5, <1>7, <2>3
  <2>6. curr_state' = "MESSAGE" => stream'[Len(stream')].kind = "chat"
    BY <1>2, <1>6, <1>7
  <2>7. QED
    BY <1>2, <1>7, <2>1, <2>4, <2>5, <2>6 DEF CalmOK
<1>16. ShownIsGenuine'
  BY <1>1, <1>2, <1>7 DEF ShownIsGenuine
<1>17. QED
  BY <1>10, <1>11, <1>12, <1>13, <1>14, <1>15, <1>16 DEF IInv

\* An answer to a login fits, because all before it has been read.
LEMMA AnswerInv == IInv /\ Answer => IInv'
<1> SUFFICES ASSUME IInv, Answer PROVE IInv'
  OBVIOUS
<1>1. /\ TypeOK /\ LoginOK /\ asked /\ session = "out" /\ ~asked' /\ asked' \in BOOLEAN
      /\ UNCHANGED <<clientVars, up, end, came, calm>>
  BY DEF IInv, Answer
<1>2. PICK kind \in {"200", "401"} :
        Put(kind, InfoBytes, InfoBytes) /\ session' = IF kind = "200" THEN "in" ELSE "out"
  BY DEF Answer
<1>3. /\ curr_state = "AUTH" /\ got = Total /\ used = 0 /\ Start = Total
      /\ Total \in Nat /\ got \in Nat
  BY <1>1, TotalType DEF LoginOK, TypeOK, Start
<1>4. InfoBytes \in Short /\ InfoBytes \in Nat /\ HeaderBytes <= InfoBytes
  BY DEF InfoBytes, HeaderBytes, Short
<1>5. InfoBytes <= Room
  BY <1>3, <1>4, ClientProcessAssumption DEF Room
<1>6. LoginOK'
  <2> DEFINE w == [kind |-> kind, size |-> InfoBytes, len |-> InfoBytes, at |-> Total,
                   cut |-> InfoBytes]
  <2>1. stream' = Append(stream, w)
    BY <1>2, <1>5 DEF Put
  <2>2. w \in Written /\ w.at = Total
    BY <1>3, <1>4 DEF Written
  <2>3. /\ w.kind = kind /\ w.size = InfoBytes /\ w.len = InfoBytes /\ w.cut = InfoBytes
    OBVIOUS
  <2> HIDE DEF w
  <2>4. /\ Len(stream') = Len(stream) + 1 /\ DOMAIN stream' = 1 .. Len(stream) + 1
        /\ \A i \in DOMAIN stream : i \in DOMAIN stream' /\ stream'[i] = stream[i]
        /\ stream'[Len(stream) + 1] = w /\ stream' # <<>>
    BY <1>1, <2>1, <2>2, Appended
  <2>5. \A i \in DOMAIN stream' : i = Len(stream) + 1 \/ i \in DOMAIN stream
    BY <1>1, <2>4, TotalType
  <2> SUFFICES ASSUME session' = "out" PROVE LoginOK'
    BY DEF LoginOK
  <2>6. kind = "401"
    BY <1>2
  <2>7. \A i \in DOMAIN stream' :
          /\ stream'[i].kind = "401" /\ stream'[i].len = InfoBytes
          /\ stream'[i].size = InfoBytes /\ stream'[i].cut = InfoBytes
    BY <1>1, <2>3, <2>4, <2>5, <2>6 DEF LoginOK
  <2>8. curr_state' = "AUTH" /\ Start' = Start
    BY <1>1, <1>3 DEF clientVars, Start
  <2>9. stream'[Len(stream')].at = Start'
    BY <1>3, <2>2, <2>4, <2>8
  <2>10. QED
    BY <1>1, <2>4, <2>7, <2>8, <2>9 DEF LoginOK
<1>7. session' \in {"out", "in"}
  BY <1>2
<1>8. QED
  BY <1>1, <1>2, <1>3, <1>4, <1>6, <1>7, PutInv

LEMMA ForwardToInv == IInv /\ ForwardTo => IInv'
<1> SUFFICES ASSUME IInv, ForwardTo PROVE IInv'
  OBVIOUS
<1>1. TypeOK /\ session = "in" /\ UNCHANGED <<clientVars, up, session, asked, end, came, calm>>
  BY DEF IInv, ForwardTo
<1>2. PICK s \in Sizes :
        Put("chat", Bytes([kind |-> "chat", a |-> s[1], b |-> s[2]]),
            HeaderLen([kind |-> "chat", a |-> s[1], b |-> s[2]]))
  BY DEF ForwardTo
<1> DEFINE f == [kind |-> "chat", a |-> s[1], b |-> s[2]]
<1>3. f.a \in Nat /\ f.b \in Nat
  BY ClientProcessAssumption DEF Short
<1>4. Bytes(f) \in Nat /\ HeaderBytes <= Bytes(f) /\ HeaderLen(f) \in Short
  BY <1>3 DEF Bytes, HeaderBytes, HeaderLen, U16, SIZE_HEADER, Short
<1>5. LoginOK' /\ asked' \in BOOLEAN /\ session' = "in"
  BY <1>1 DEF LoginOK, TypeOK
<1>6. Put("chat", Bytes(f), HeaderLen(f))
  BY <1>2
<1> HIDE DEF f
<1>7. QED
  BY <1>1, <1>4, <1>5, <1>6, PutInv

\* Steps that change neither what was written nor what was read of it, nor what
\* the client makes of it.
LEMMA QuietInv ==
  ASSUME IInv, TypeOK', ConnectionOK', PasswordsToServer', LoginOK',
         UNCHANGED <<stream, got, used, taken, garbled, calm>>, came' <= Total,
         curr_state' = "MESSAGE" => curr_state = "MESSAGE",
         end' = "open" => end = "open",
         calm => UNCHANGED fate
  PROVE  IInv'
<1>1. LayoutOK /\ AnswersOK /\ TakenOK /\ CalmOK /\ ShownIsGenuine
  BY DEF IInv
<1>2. Total' = Total /\ Start' = Start /\ (Whole' <=> Whole) /\ Latest' = Latest
  BY DEF Total, Start, Whole, Latest, F!Latest
<1>3. LayoutOK' /\ TakenOK'
  BY <1>1, <1>2 DEF LayoutOK, TakenOK
<1>4. AnswersOK' /\ ShownIsGenuine'
  BY <1>1, <1>2 DEF AnswersOK, ShownIsGenuine
<1>5. CalmOK'
  BY <1>1, <1>2 DEF CalmOK
<1>6. QED
  BY <1>3, <1>4, <1>5 DEF IInv

LEMMA OutsideInv == IInv /\ (ServerDies \/ ServerStarts \/ Arrive) => IInv'
<1> SUFFICES ASSUME IInv, ServerDies \/ ServerStarts \/ Arrive PROVE IInv'
  OBVIOUS
<1>1. TypeOK /\ LayoutOK /\ ConnectionOK /\ LoginOK /\ PasswordsToServer
  BY DEF IInv
<1>2. came <= Total /\ Total \in Nat
  BY <1>1, TotalType DEF LayoutOK
<1>3. UNCHANGED <<curr_state, fd, reading, used, got, taken, garbled, fate, asked, stream, calm>>
  BY DEF ServerDies, ServerStarts, Arrive, clientVars, serverVars
<1>4. PasswordsToServer'
  BY <1>1, <1>3 DEF PasswordsToServer
<1>5. CASE ServerDies
  <2>1. /\ ~calm /\ up' = FALSE /\ session' = "none" /\ came' = came
        /\ end' \in IF fd = "socket" THEN {"fin", "rst"} ELSE {end}
    BY <1>5 DEF ServerDies
  <2>2. TypeOK' /\ LoginOK'
    BY <1>1, <1>3, <2>1 DEF TypeOK, LoginOK
  <2>3. ConnectionOK'
    BY <1>1, <1>3, <2>1 DEF ConnectionOK, TypeOK
  <2>4. QED
    BY <1>2, <1>3, <1>4, <2>1, <2>2, <2>3, QuietInv
<1>6. CASE ServerStarts
  <2>1. up' = TRUE /\ UNCHANGED <<session, end, came>>
    BY <1>6 DEF ServerStarts
  <2>2. TypeOK' /\ ConnectionOK'
    BY <1>1, <1>3, <2>1 DEF TypeOK, ConnectionOK
  <2>3. LoginOK'
    BY <1>1, <1>3, <2>1 DEF LoginOK, Total, Start
  <2>4. QED
    BY <1>2, <1>3, <1>4, <2>1, <2>2, <2>3, QuietInv
<1>7. CASE Arrive
  <2>1. PICK n \in CutPoints : came < n /\ n <= Total /\ came' = n
    BY <1>7 DEF Arrive
  <2>2. n \in Nat
    <3>1. ASSUME NEW i \in DOMAIN stream, NEW k \in Cuts PROVE stream[i].at + k \in Nat
      BY <1>1, WrittenFrame, ClientProcessAssumption
    <3>2. QED
      BY <1>2, <3>1 DEF CutPoints
  <2>3. UNCHANGED <<up, session, end>>
    BY <1>7 DEF Arrive, serverVars
  <2>4. TypeOK'
    BY <1>1, <1>3, <2>1, <2>2, <2>3 DEF TypeOK
  <2>5. ConnectionOK' /\ LoginOK'
    BY <1>1, <1>3, <2>3 DEF ConnectionOK, LoginOK, Total, Start
  <2>6. QED
    BY <1>3, <1>4, <2>1, <2>3, <2>4, <2>5, QuietInv
<1>8. QED
  BY <1>5, <1>6, <1>7

-----------------------------------------------------------------------------
(* The menu.                                                               *)

LEMMA MenuInv == IInv /\ (SendAuth \/ SendChat \/ Receive) => IInv'
<1> SUFFICES ASSUME IInv, SendAuth \/ SendChat \/ Receive PROVE IInv'
  OBVIOUS
<1>1. TypeOK /\ LayoutOK /\ ConnectionOK /\ LoginOK /\ PasswordsToServer
  BY DEF IInv
<1>2. came <= Total /\ ~reading /\ used = 0
  BY <1>1 DEF LayoutOK, ConnectionOK, SendAuth, SendChat, Receive, Active
<1>3. UNCHANGED <<fd, got, taken, garbled, up, session, stream, came, calm>>
  BY DEF SendAuth, SendChat, Receive, serverVars
<1>4. used' = used
  BY <1>2 DEF SendAuth, SendChat, Receive
<1>5. /\ end' \in {"open", "fin", "rst"} /\ (end' = "open" <=> end = "open")
      /\ fate' \in {"running", "crashed", "deaf"}
      /\ end = "open" => UNCHANGED <<end, fate>>
  <2>1. CASE Receive
    BY <1>1, <2>1 DEF Receive, serverVars, TypeOK
  <2>2. CASE SendAuth \/ SendChat
    <3>1. WriteToServer
      BY <2>2 DEF SendAuth, SendChat
    <3>2. fd = "terminal" => end = "open"
      BY <1>1 DEF ConnectionOK
    <3>3. QED
      BY <1>1, <3>1, <3>2 DEF WriteToServer, TypeOK
  <2>3. QED
    BY <2>1, <2>2
<1>6. calm => UNCHANGED fate
  BY <1>1, <1>5 DEF ConnectionOK
<1>7. Total' = Total /\ Start' = Start
  BY <1>3, <1>4 DEF Total, Start
<1>8. CASE SendAuth
  <2>1. curr_state = "INITIAL" /\ curr_state' = "AUTH" /\ reading' = TRUE /\ asked' = (end = "open")
    BY <1>8 DEF SendAuth, Active
  <2>2. TypeOK'
    BY <1>1, <1>3, <1>4, <1>5, <2>1 DEF TypeOK
  <2>3. ConnectionOK' /\ PasswordsToServer'
    BY <1>1, <1>3, <1>5, <2>1 DEF ConnectionOK, PasswordsToServer
  <2>4. LoginOK'
    <3>1. session = "out" => asked'
      BY <1>1, <2>1 DEF ConnectionOK
    <3>2. QED
      BY <1>1, <1>3, <1>4, <1>7, <2>1, <3>1 DEF LoginOK
  <2>5. QED
    BY <1>2, <1>3, <1>4, <1>5, <1>6, <2>1, <2>2, <2>3, <2>4, QuietInv
<1>9. CASE SendChat \/ Receive
  <2>1. curr_state = "MESSAGE" /\ UNCHANGED <<curr_state, asked>> /\ reading' \in {reading, TRUE}
    BY <1>9 DEF SendChat, Receive, Active, serverVars
  <2>2. TypeOK'
    BY <1>1, <1>3, <1>4, <1>5, <2>1 DEF TypeOK
  <2>3. ConnectionOK' /\ PasswordsToServer'
    BY <1>1, <1>2, <1>3, <1>4, <1>5, <2>1 DEF ConnectionOK, PasswordsToServer
  <2>4. LoginOK'
    BY <1>1, <1>3, <2>1 DEF LoginOK
  <2>5. QED
    BY <1>2, <1>3, <1>4, <1>5, <1>6, <2>1, <2>2, <2>3, <2>4, QuietInv
<1>10. QED
  BY <1>8, <1>9

LEMMA LogoutInv == IInv /\ Logout => IInv'
<1> SUFFICES ASSUME IInv, Logout PROVE IInv'
  OBVIOUS
<1>1. TypeOK /\ ConnectionOK /\ curr_state = "MESSAGE" /\ fate = "running"
  BY DEF IInv, Logout, Active
<1>2. Reset /\ UNCHANGED <<up, calm>>
  BY DEF Logout
<1>3. /\ reading' = FALSE /\ used' = 0 /\ got' = 0 /\ taken' = <<>> /\ garbled' = FALSE
      /\ stream' = <<>> /\ came' = 0 /\ asked' = FALSE
  BY <1>2 DEF Reset
<1>4. /\ taken' \in Seq(Nat) /\ stream' \in Seq(Written)
      /\ used' \in Nat /\ got' \in Nat /\ came' \in Nat /\ used' <= got' /\ got' <= came'
      /\ reading' \in BOOLEAN /\ garbled' \in BOOLEAN /\ asked' \in BOOLEAN
  <2>1. taken' \in Seq(Nat) /\ stream' \in Seq(Written)
    BY <1>3, EmptySeq
  <2>2. used' \in Nat /\ got' \in Nat /\ came' \in Nat /\ used' <= got' /\ got' <= came'
    BY <1>3
  <2>3. QED
    BY <1>3, <2>1, <2>2
<1>5. CASE fd = "socket"
  <2>1. startNewConnection /\ fate' = fate
    BY <1>5 DEF Logout
  <2>2. /\ end' = "open"
        /\ up => curr_state' = "INITIAL" /\ fd' = "socket" /\ session' = "out"
        /\ ~up => curr_state' = "MESSAGE" /\ fd' = "terminal" /\ session' = "none"
    BY <1>1, <2>1 DEF startNewConnection, StateAfter
  <2>3. TypeOK'
    <3>1. /\ curr_state' \in {"ERROR", "INITIAL", "AUTH", "MESSAGE"}
          /\ fd' \in {"socket", "terminal"} /\ session' \in {"none", "out", "in"}
          /\ end' \in {"open", "fin", "rst"} /\ up' \in BOOLEAN /\ calm' \in BOOLEAN
          /\ fate' \in {"running", "crashed", "deaf"}
      BY <1>1, <1>2, <2>1, <2>2 DEF TypeOK
    <3>2. QED
      BY <1>4, <3>1, Zenon DEF TypeOK
  <2>4. ConnectionOK' /\ PasswordsToServer'
    BY <1>1, <1>2, <1>3, <2>2 DEF ConnectionOK, PasswordsToServer
  <2>5. session' = "out" => curr_state' = "INITIAL"
    BY <2>2
  <2>6. QED
    BY <1>1, <1>2, <2>1, <2>3, <2>4, <2>5, StartAfresh
<1>6. CASE fd = "terminal"
  <2>1. fate' = "deaf" /\ UNCHANGED <<curr_state, fd, session, end>>
    BY <1>6 DEF Logout
  <2>2. TypeOK'
    <3>1. /\ curr_state' \in {"ERROR", "INITIAL", "AUTH", "MESSAGE"}
          /\ fd' \in {"socket", "terminal"} /\ session' \in {"none", "out", "in"}
          /\ end' \in {"open", "fin", "rst"} /\ up' \in BOOLEAN /\ calm' \in BOOLEAN
          /\ fate' \in {"running", "crashed", "deaf"}
      BY <1>1, <1>2, <2>1 DEF TypeOK
    <3>2. QED
      BY <1>4, <3>1, Zenon DEF TypeOK
  <2>3. ~calm /\ session = "none"
    BY <1>1, <1>6 DEF ConnectionOK
  <2>4. ConnectionOK' /\ PasswordsToServer'
    BY <1>1, <1>2, <1>3, <2>1, <2>3 DEF ConnectionOK, PasswordsToServer
  <2>5. QED
    BY <1>2, <2>1, <2>2, <2>3, <2>4, StartAfresh
<1>7. QED
  BY <1>1, <1>5, <1>6 DEF TypeOK

-----------------------------------------------------------------------------
(* A read.                                                                 *)

LEMMA ReadBounds ==
  ASSUME IInv, InLoop, got < came
  PROVE  /\ ReadLen \in Nat /\ 0 < ReadLen /\ got + ReadLen <= came /\ got + ReadLen <= Total
         /\ Size \in Nat /\ used < Size /\ Size <= got + ReadLen
         /\ Start \in Nat /\ Start + Size = got + ReadLen
         /\ got \in Nat /\ used \in Nat /\ came \in Nat /\ Total \in Nat /\ came <= Total
         /\ curr_state \in {"AUTH", "MESSAGE"}
<1>1. /\ got \in Nat /\ used \in Nat /\ came \in Nat /\ Total \in Nat
      /\ used <= got /\ came <= Total /\ curr_state \in {"AUTH", "MESSAGE"}
  BY TotalType DEF IInv, TypeOK, LayoutOK, ConnectionOK, InLoop
<1>2. ReadLen \in Nat /\ 0 < ReadLen /\ ReadLen <= came - got
  BY <1>1 DEF ReadLen, BuffSize
<1>3. QED
  BY <1>1, <1>2 DEF Size, Start

\* Of frames that were written whole, one is all there when is_read_full says so.
LEMMA FullIsIntact ==
  ASSUME IInv, InLoop, got < came, NEW i \in DOMAIN stream, HasHeader(i),
         is_read_full(stream[i].len),
         stream[i].cut = stream[i].size, stream[i].size <= stream[i].len,
         curr_state = "MESSAGE" => stream[i].kind = "chat"
  PROVE  Intact(i)
<1>1. stream[i].size \in Nat /\ stream[i].len \in Nat /\ Size \in Nat /\ Size >= stream[i].len
  BY WrittenFrame, ReadBounds DEF IInv, is_read_full
<1>2. stream[i].size <= Size
  BY <1>1
<1>3. QED
  BY <1>2 DEF Intact

\* While the login has not succeeded, what is read is the answer it gets.
LEMMA AnswerIsRead ==
  ASSUME IInv, InLoop, got < came, session = "out"
  PROVE  /\ curr_state = "AUTH" /\ ~asked /\ stream # <<>>
         /\ Len(stream) \in DOMAIN stream /\ HasHeader(Len(stream))
         /\ AtStart = {Len(stream)} /\ Total = Start + InfoBytes
         /\ is_read_full(stream[Len(stream)].len) =>
              Intact(Len(stream)) /\ got + ReadLen = Total
<1> DEFINE n == Len(stream)
<1>1. TypeOK /\ LayoutOK /\ LoginOK
  BY DEF IInv
<1>2. /\ Start \in Nat /\ Size \in Nat /\ Start + Size <= Total /\ got # Total
      /\ Start + Size = got + ReadLen /\ Total \in Nat
  BY ReadBounds
<1>3. curr_state = "AUTH" /\ ~asked /\ stream # <<>> /\ stream[n].at = Start
  <2>1. curr_state = "AUTH" /\ ~asked
    BY <1>1, <1>2 DEF LoginOK
  <2>2. QED
    BY <1>1, <2>1 DEF LoginOK
<1>4. n \in DOMAIN stream /\ Total = stream[n].at + stream[n].cut
  BY <1>1, <1>3, TotalType
<1>5. /\ stream[n].kind = "401" /\ stream[n].len = InfoBytes
      /\ stream[n].size = InfoBytes /\ stream[n].cut = InfoBytes
  BY <1>1, <1>4 DEF LoginOK
<1>6. n \in AtStart /\ HasHeader(n)
  BY <1>3, <1>4, <1>5 DEF AtStart, HasHeader, InfoBytes, HeaderBytes
<1>7. AtStart = {n}
  BY <1>1, <1>6, OneAtStart
<1>8. ASSUME is_read_full(stream[n].len) PROVE Intact(n) /\ got + ReadLen = Total
  <2>1. Intact(n)
    BY <1>3, <1>4, <1>5, <1>6, <1>8, FullIsIntact DEF InfoBytes, HeaderBytes
  <2>2. Size >= InfoBytes /\ InfoBytes = 15
    BY <1>5, <1>8 DEF is_read_full, InfoBytes, HeaderBytes
  <2>3. got + ReadLen = Total
    BY <1>2, <1>3, <1>4, <1>5, <2>2
  <2>4. QED
    BY <2>1, <2>3
<1>9. QED
  BY <1>3, <1>4, <1>5, <1>6, <1>7, <1>8

\* With a calm server, what is read is the last frame.
LEMMA LastIsRead ==
  ASSUME IInv, InLoop, got < came, calm, Whole
  PROVE  /\ stream # <<>> /\ Len(stream) \in DOMAIN stream /\ HasHeader(Len(stream))
         /\ AtStart = {Len(stream)} /\ Latest = Len(stream) - 1
         /\ is_read_full(stream[Len(stream)].len) =>
              Intact(Len(stream)) /\ got + ReadLen = Total
<1> DEFINE n == Len(stream)
<1>1. TypeOK /\ LayoutOK /\ CalmOK
  BY DEF IInv
<1>2. /\ Start \in Nat /\ Size \in Nat /\ Start + Size <= Total /\ got # Total
      /\ Start + Size = got + ReadLen /\ Total \in Nat
  BY ReadBounds
<1>3. /\ stream # <<>> /\ stream[n].at = Start /\ Latest = n - 1
      /\ curr_state = "MESSAGE" => stream[n].kind = "chat"
  BY <1>1, <1>2 DEF CalmOK
<1>4. n \in DOMAIN stream /\ Total = stream[n].at + stream[n].cut
  BY <1>1, <1>3, TotalType
<1>5. /\ stream[n].cut = stream[n].size /\ stream[n].size <= stream[n].len
      /\ HeaderBytes <= stream[n].size /\ stream[n].size \in Nat /\ stream[n].len \in Nat
  BY <1>1, <1>4, WrittenFrame DEF Whole, LayoutOK
<1>6. n \in AtStart /\ HasHeader(n)
  BY <1>3, <1>4, <1>5 DEF AtStart, HasHeader, HeaderBytes
<1>7. AtStart = {n}
  BY <1>1, <1>6, OneAtStart
<1>8. ASSUME is_read_full(stream[n].len) PROVE Intact(n) /\ got + ReadLen = Total
  <2>1. Intact(n)
    BY <1>3, <1>4, <1>5, <1>6, <1>8, FullIsIntact
  <2>2. Size >= stream[n].len
    BY <1>8 DEF is_read_full
  <2>3. got + ReadLen = Total
    BY <1>2, <1>3, <1>4, <1>5, <2>2
  <2>4. QED
    BY <2>1, <2>3
<1>9. QED
  BY <1>3, <1>4, <1>6, <1>7, <1>8

Misread(i) == HasHeader(i) /\ is_read_full(stream[i].len) /\ ~Intact(i)

\* What it takes to lose step: the login has succeeded, and the server is not calm
\* or has given up a write.
LEMMA OutOfStep ==
  ASSUME IInv, InLoop, got < came,
         \/ \A i \in AtStart : ~HasHeader(i)
         \/ \E i \in DOMAIN stream : Misread(i)
  PROVE  session # "out" /\ ~(calm /\ Whole)
<1>1. ASSUME NEW n \in DOMAIN stream, HasHeader(n), AtStart = {n},
             is_read_full(stream[n].len) => Intact(n)
      PROVE  FALSE
  BY <1>1 DEF Misread, HasHeader
<1>2. ASSUME session = "out" PROVE FALSE
  BY <1>1, <1>2, AnswerIsRead
<1>3. ASSUME calm, Whole PROVE FALSE
  BY <1>1, <1>3, LastIsRead
<1>4. QED
  BY <1>2, <1>3

\* What it takes to mix up frames.
LEMMA OnlyBroken ==
  ASSUME IInv, InLoop, got < came,
         \/ AtStart # {} /\ \A i \in AtStart : ~HasHeader(i)
         \/ \E i \in DOMAIN stream : Misread(i)
  PROVE  ~Whole \/ end # "open"
<1> SUFFICES ASSUME Whole, end = "open" PROVE FALSE
  OBVIOUS
<1>1. TypeOK /\ LayoutOK /\ AnswersOK
  BY DEF IInv
<1>2. \A i \in DOMAIN stream :
        /\ stream[i].cut = stream[i].size /\ stream[i].size <= stream[i].len
        /\ stream[i].size \in Nat /\ stream[i].at \in Nat /\ 12 <= stream[i].size
  BY <1>1, WrittenFrame DEF Whole, LayoutOK, HeaderBytes
<1>3. ASSUME NEW i \in AtStart PROVE HasHeader(i)
  BY <1>2 DEF HasHeader, AtStart, HeaderBytes
<1>4. ASSUME NEW i \in DOMAIN stream, Misread(i) PROVE FALSE
  <2>1. HasHeader(i) /\ is_read_full(stream[i].len) /\ ~Intact(i) /\ stream[i].at = Start
    BY <1>4 DEF Misread, HasHeader, AtStart
  <2>2. curr_state = "MESSAGE" /\ stream[i].kind # "chat"
    BY <1>2, <2>1, FullIsIntact
  <2>3. stream[i].at + stream[i].cut <= Start
    BY <1>1, <2>2 DEF AnswersOK
  <2>4. QED
    BY <1>2, <2>1, <2>3
<1>5. QED
  BY <1>3, <1>4

LEMMA Difference ==
  /\ \A m, n \in Nat : m <= n => n - m \in Nat
  /\ \A m, n, t, b \in Nat : m <= n /\ t - m <= b => t - n <= b
  /\ \A m, n, t, b \in Nat : m <= n /\ t <= b /\ b <= m => t <= n /\ m - b <= n - t
OBVIOUS

\* What all reads have in common.
LEMMA ReadKeeps ==
  ASSUME IInv, InLoop, TypeOK', LoginOK', CalmOK', ShownIsGenuine',
         UNCHANGED <<fd, serverVars, came, calm>>,
         got <= got', Start <= Start',
         curr_state' \in {"INITIAL", "AUTH", "MESSAGE"},
         IF reading' THEN curr_state' = curr_state ELSE curr_state' # "AUTH" /\ used' = 0,
         taken' # taken =>
           \E i \in DOMAIN stream : /\ taken' = Append(taken, i)
                                    /\ stream[i].at + stream[i].cut <= Start',
         curr_state' = "MESSAGE" /\ curr_state # "MESSAGE" /\ end = "open" /\ Whole =>
           \A i \in DOMAIN stream :
             stream[i].kind # "chat" => stream[i].at + stream[i].cut <= Start'
  PROVE  IInv'
<1>1. TypeOK /\ LayoutOK /\ ConnectionOK /\ AnswersOK /\ TakenOK /\ PasswordsToServer
  BY DEF IInv
<1>2. UNCHANGED <<up, session, asked, stream, end>>
  BY DEF serverVars
<1>3. Total' = Total /\ (Whole' <=> Whole)
  BY <1>2 DEF Total, Whole
<1>4. /\ got \in Nat /\ got' \in Nat /\ used \in Nat /\ used' \in Nat /\ Total \in Nat
      /\ used <= got /\ used' <= got' /\ got' <= came' /\ came \in Nat /\ SockBuf \in Nat
  BY <1>1, TotalType, ClientProcessAssumption DEF TypeOK
<1>5. Start \in Nat /\ Start' \in Nat
  BY <1>4, Difference DEF Start
<1>6. LayoutOK'
  <2>1. came <= Total /\ Total - got <= SockBuf
    BY <1>1 DEF LayoutOK
  <2>2. came' <= Total' /\ Total' - got' <= SockBuf
    <3>1. ASSUME NEW n \in Nat, got <= n PROVE Total - n <= SockBuf
      <4>1. \A g, m, t, b \in Nat : g <= m /\ t - g <= b => t - m <= b
        BY Difference
      <4>2. QED
        BY <1>4, <2>1, <3>1, <4>1, Zenon
    <3>2. Total - got' <= SockBuf
      BY <1>4, <3>1, Zenon
    <3>3. QED
      BY <1>3, <2>1, <3>2
  <2>3. QED
    BY <1>1, <1>2, <1>3, <2>2 DEF LayoutOK
<1>7. reading /\ fd = "socket" /\ curr_state \in {"AUTH", "MESSAGE"}
  BY <1>1 DEF InLoop, ConnectionOK
<1>8. ConnectionOK' /\ PasswordsToServer'
  BY <1>1, <1>2, <1>7 DEF ConnectionOK, PasswordsToServer, TypeOK
<1>9. \A i \in DOMAIN stream :
        stream[i].at + stream[i].cut <= Start => stream[i].at + stream[i].cut <= Start'
  BY <1>1, <1>5, WrittenFrame
<1>10. AnswersOK'
  BY <1>1, <1>2, <1>3, <1>9 DEF AnswersOK
<1>11. TakenOK'
  <2>1. CASE taken' = taken
    BY <1>1, <1>2, <1>9, <2>1 DEF TakenOK, Latest, F!Latest
  <2>2. CASE taken' # taken
    <3>1. PICK i \in DOMAIN stream : /\ taken' = Append(taken, i)
                                     /\ stream[i].at + stream[i].cut <= Start'
      BY <2>2
    <3>2. taken \in Seq(Nat) /\ i \in Nat
      BY <1>1, WrittenFrame DEF TypeOK
    <3>3. Len(taken') = Len(taken) + 1 /\ taken'[Len(taken) + 1] = i /\ taken' # <<>>
      BY <3>1, <3>2, AppendProperties
    <3>4. Latest' = i
      BY <3>3 DEF Latest, F!Latest
    <3>5. QED
      BY <1>2, <3>1, <3>4 DEF TakenOK
  <2>3. QED
    BY <2>1, <2>2
<1>12. QED
  BY <1>6, <1>8, <1>10, <1>11 DEF IInv

LEMMA MoreInv ==
  ASSUME IInv, InLoop, got < came, got' = got + ReadLen, More,
         UNCHANGED <<fd, serverVars, came, calm>>
  PROVE  IInv'
<1>1. /\ TypeOK /\ LayoutOK /\ LoginOK /\ CalmOK /\ ShownIsGenuine /\ reading
      /\ curr_state \in {"AUTH", "MESSAGE"}
  BY ReadBounds DEF IInv, InLoop
<1>2. /\ ReadLen \in Nat /\ got \in Nat /\ Size \in Nat /\ Start \in Nat
      /\ Size <= got + ReadLen /\ Start + Size = got + ReadLen /\ got + ReadLen <= came
  BY ReadBounds
<1>3. /\ used' = Size /\ UNCHANGED <<curr_state, reading, taken, garbled, fate>>
      /\ UNCHANGED <<up, session, asked, stream, end>>
  BY DEF More, serverVars
<1>4. got' \in Nat /\ got <= got' /\ used' <= got' /\ got' <= came' /\ Start' = Start
  BY <1>2, <1>3 DEF Start
<1>5. TypeOK'
  BY <1>1, <1>2, <1>3, <1>4 DEF TypeOK
<1>6. LoginOK'
  <2> SUFFICES ASSUME session = "out" PROVE LoginOK'
    BY <1>3 DEF LoginOK
  <2>1. /\ curr_state = "AUTH" /\ ~asked /\ stream # <<>>
    BY AnswerIsRead
  <2>2. QED
    BY <1>1, <1>3, <1>4, <2>1 DEF LoginOK
<1>7. Latest' = Latest /\ (Whole' <=> Whole) /\ Total' = Total
  BY <1>3 DEF Latest, F!Latest, Whole, Total
<1>8. CalmOK'
  <2> SUFFICES ASSUME calm, Whole PROVE CalmOK'
    BY <1>3, <1>7 DEF CalmOK
  <2>1. fate = "running" /\ stream # <<>> /\ Len(stream) \in AtStart /\ Latest = Len(stream) - 1
    BY <1>1, LastIsRead DEF CalmOK
  <2>2. curr_state = "MESSAGE" => stream[Len(stream)].kind = "chat"
    <3>1. got # Total
      BY <1>2, ReadBounds
    <3>2. QED
      BY <1>1, <3>1 DEF CalmOK
  <2>3. stream[Len(stream)].at = Start
    BY <2>1 DEF AtStart
  <2>4. QED
    BY <1>3, <1>4, <1>7, <2>1, <2>2, <2>3 DEF CalmOK
<1>9. ShownIsGenuine'
  BY <1>1, <1>3, <1>7 DEF ShownIsGenuine
<1>10. Start <= Start'
  BY <1>2, <1>4
<1>11. QED
  BY <1>1, <1>3, <1>4, <1>5, <1>6, <1>8, <1>9, <1>10, ReadKeeps

LEMMA GenuineInv ==
  ASSUME IInv, InLoop, got < came, got' = got + ReadLen,
         NEW i \in DOMAIN stream, HasHeader(i), Genuine(i), is_read_full(stream[i].len),
         UNCHANGED <<fd, serverVars, came, calm>>
  PROVE  IInv'
<1>1. /\ TypeOK /\ LayoutOK /\ LoginOK /\ AnswersOK /\ CalmOK /\ ShownIsGenuine /\ reading
      /\ curr_state \in {"AUTH", "MESSAGE"}
  BY ReadBounds DEF IInv, InLoop
<1>2. /\ ReadLen \in Nat /\ got \in Nat /\ Size \in Nat /\ Start \in Nat
      /\ Start + Size = got + ReadLen /\ got + ReadLen <= came
  BY ReadBounds
<1>3. /\ curr_state' = AfterMessage(stream[i].kind) /\ reading' = FALSE /\ used' = 0
      /\ UNCHANGED <<fate, garbled, up, session, asked, stream, end>>
      /\ taken' = Append(taken, i) /\ Intact(i)
  BY DEF Genuine, Show, serverVars
<1>4. /\ curr_state' \in {"INITIAL", "MESSAGE"}
      /\ curr_state = "AUTH" /\ curr_state' = "MESSAGE" => stream[i].kind = "200"
      /\ curr_state = "AUTH" /\ stream[i].kind # "200" => curr_state' = "INITIAL"
  BY <1>1, <1>3 DEF AfterMessage
<1>5. /\ i \in Nat /\ stream[i].at = Start /\ i \in AtStart /\ stream[i].cut \in Nat
      /\ stream[i].cut <= Size
  BY <1>1, <1>3, WrittenFrame DEF HasHeader, AtStart, Intact
<1>6. got' \in Nat /\ got <= got' /\ used' <= got' /\ got' <= came' /\ Start' = got'
  BY <1>2, <1>3 DEF Start
<1>7. Start <= Start' /\ stream[i].at + stream[i].cut <= Start'
  BY <1>2, <1>5, <1>6
<1>8. taken \in Seq(Nat) /\ taken' \in Seq(Nat) /\ taken' # <<>> /\ Latest' = i
  <2>1. taken \in Seq(Nat)
    BY <1>1 DEF TypeOK
  <2>2. taken' \in Seq(Nat) /\ Len(taken') = Len(taken) + 1 /\ taken'[Len(taken) + 1] = i
        /\ taken' # <<>>
    BY <1>3, <1>5, <2>1, AppendProperties
  <2>3. QED
    BY <2>1, <2>2 DEF Latest, F!Latest
<1>9. TypeOK'
  <2>1. /\ curr_state' \in {"ERROR", "INITIAL", "AUTH", "MESSAGE"}
        /\ fd' \in {"socket", "terminal"} /\ session' \in {"none", "out", "in"}
        /\ end' \in {"open", "fin", "rst"} /\ fate' \in {"running", "crashed", "deaf"}
        /\ reading' \in BOOLEAN /\ garbled' \in BOOLEAN /\ up' \in BOOLEAN
        /\ asked' \in BOOLEAN /\ calm' \in BOOLEAN
    BY <1>1, <1>3, <1>4, Zenon DEF TypeOK, serverVars
  <2>2. stream' \in Seq(Written) /\ came' \in Nat
    BY <1>1, <1>3 DEF TypeOK
  <2>3. used' \in Nat
    BY <1>3
  <2>4. QED
    BY <1>6, <1>8, <2>1, <2>2, <2>3, Zenon DEF TypeOK
<1>10. (Whole' <=> Whole) /\ Total' = Total
  BY <1>3 DEF Whole, Total
<1>11. LoginOK'
  <2> SUFFICES ASSUME session = "out" PROVE LoginOK'
    BY <1>3 DEF LoginOK
  <2>1. curr_state = "AUTH" /\ ~asked /\ AtStart = {Len(stream)} /\ Len(stream) \in DOMAIN stream
        /\ (is_read_full(stream[Len(stream)].len) => got + ReadLen = Total)
    BY AnswerIsRead
  <2>2. i = Len(stream)
    BY <1>5, <2>1
  <2>3. got' = Total'
    BY <1>10, <2>1, <2>2
  <2>4. curr_state' = "INITIAL"
    BY <1>1, <1>4, <2>1 DEF LoginOK
  <2>5. QED
    BY <1>1, <1>3, <2>1, <2>3, <2>4 DEF LoginOK
<1>12. CalmOK'
  <2> SUFFICES ASSUME calm, Whole PROVE CalmOK'
    BY <1>10 DEF CalmOK
  <2>1. /\ AtStart = {Len(stream)} /\ Len(stream) \in DOMAIN stream
        /\ is_read_full(stream[Len(stream)].len) => got + ReadLen = Total
    BY LastIsRead
  <2>2. i = Len(stream)
    BY <1>5, <2>1
  <2>3. fate = "running"
    BY <1>1 DEF CalmOK
  <2>4. QED
    BY <1>3, <1>8, <1>10, <2>1, <2>2, <2>3 DEF CalmOK
<1>13. ShownIsGenuine'
  BY <1>1, <1>3, <1>10 DEF ShownIsGenuine
<1>14. ASSUME curr_state' = "MESSAGE", curr_state # "MESSAGE",
              NEW j \in DOMAIN stream, stream[j].kind # "chat"
       PROVE  stream[j].at + stream[j].cut <= Start'
  <2>1. ~(i < j)
    BY <1>1, <1>4, <1>14 DEF AnswersOK
  <2>2. j \in Nat /\ stream[j].at \in Nat /\ stream[j].cut \in Nat
    BY <1>1, WrittenFrame
  <2>3. CASE j < i
    <3>1. stream[j].at + stream[j].cut <= stream[i].at
      BY <1>1, <2>3 DEF LayoutOK
    <3>2. QED
      BY <1>2, <1>5, <1>6, <1>7, <2>2, <3>1
  <2>4. QED
    BY <1>5, <1>7, <2>1, <2>2, <2>3
<1>15. QED
  BY <1>1, <1>3, <1>4, <1>6, <1>7, <1>9, <1>11, <1>12, <1>13, <1>14, ReadKeeps

\* Out of step, anything may be read or shown, and the client may die.
LEMMA LostInv ==
  ASSUME IInv, InLoop, UNCHANGED <<fd, serverVars, came, calm>>,
         session # "out", ~(calm /\ Whole), got' \in Nat, got <= got', got' <= came,
         \/ Garble /\ (~Whole \/ end # "open")
         \/ Crash
  PROVE  IInv'
<1>1. /\ TypeOK /\ ConnectionOK /\ ShownIsGenuine /\ reading /\ curr_state \in {"AUTH", "MESSAGE"}
      /\ got \in Nat /\ used \in Nat /\ used <= got
  BY DEF IInv, InLoop, ConnectionOK, TypeOK
<1>2. UNCHANGED <<up, session, asked, stream, end, taken>>
  BY DEF serverVars, Garble, Crash
<1>3. \/ /\ reading' = FALSE /\ used' = 0 /\ UNCHANGED fate
         /\ curr_state' \in {"INITIAL", "MESSAGE"}
      \/ fate' = "crashed" /\ UNCHANGED <<curr_state, reading, used>>
  BY <1>1 DEF Garble, Crash, Show, AfterMessage
<1>4. garbled' \in BOOLEAN /\ (garbled' => ~Whole \/ end # "open")
  <2>1. CASE Garble /\ (~Whole \/ end # "open")
    BY <2>1 DEF Garble
  <2>2. CASE Crash
    BY <1>1, <2>2 DEF Crash, ShownIsGenuine, TypeOK
  <2>3. QED
    BY <2>1, <2>2
<1>5. used' \in Nat /\ used' <= used
  <2>1. used' = 0 \/ used' = used
    BY <1>3
  <2>2. QED
    BY <1>1, <2>1
<1>6. used' <= got' /\ Start <= Start'
  BY <1>1, <1>5, Difference DEF Start
<1>7. TypeOK'
  <2>1. /\ curr_state' \in {"ERROR", "INITIAL", "AUTH", "MESSAGE"} /\ reading' \in BOOLEAN
        /\ fate' \in {"running", "crashed", "deaf"}
    BY <1>1, <1>3 DEF TypeOK
  <2>2. QED
    BY <1>1, <1>2, <1>4, <1>5, <1>6, <2>1 DEF TypeOK
<1>8. Whole' <=> Whole
  BY <1>2 DEF Whole
<1>9. LoginOK' /\ CalmOK' /\ ShownIsGenuine'
  BY <1>2, <1>4, <1>8 DEF LoginOK, CalmOK, ShownIsGenuine
<1>10. IF reading' THEN curr_state' = curr_state ELSE curr_state' # "AUTH" /\ used' = 0
  BY <1>1, <1>3
<1>11. curr_state' = "MESSAGE" /\ curr_state # "MESSAGE" /\ end = "open" => ~Whole
  BY <1>1, <1>3 DEF Garble, Crash
<1>12. curr_state' \in {"INITIAL", "AUTH", "MESSAGE"}
  BY <1>1, <1>3
<1>13. QED
  BY <1>2, <1>6, <1>7, <1>9, <1>10, <1>11, <1>12, ReadKeeps

LEMMA ReadInv == IInv /\ Read => IInv'
<1>1. ASSUME IInv, ReadData PROVE IInv'
  <2>1. /\ InLoop /\ got < came /\ got' = got + ReadLen
        /\ UNCHANGED <<fd, serverVars, came, calm>>
    BY <1>1 DEF ReadData
  <2>2. got' \in Nat /\ got <= got' /\ got' <= came
    BY <1>1, <2>1, ReadBounds
  <2>3. CASE More
    BY <1>1, <2>1, <2>3, MoreInv
  <2>4. ASSUME NEW i \in DOMAIN stream, HasHeader(i), is_read_full(stream[i].len), Genuine(i)
        PROVE  IInv'
    BY <1>1, <2>1, <2>4, GenuineInv
  <2>5. ASSUME NEW i \in DOMAIN stream, Misread(i), Garble PROVE IInv'
    BY <1>1, <2>1, <2>2, <2>5, OutOfStep, OnlyBroken, LostInv
  <2>6. ASSUME \A i \in AtStart : ~HasHeader(i), Crash \/ (AtStart # {} /\ Garble)
        PROVE  IInv'
    BY <1>1, <2>1, <2>2, <2>6, OutOfStep, OnlyBroken, LostInv
  <2>7. QED
    BY <1>1, <2>3, <2>4, <2>5, <2>6 DEF ReadData, Misread
<1>2. ASSUME IInv, ReadEnd \/ ReadError PROVE IInv'
  <2>1. InLoop /\ end # "open" /\ UNCHANGED <<fd, got, serverVars, came, calm>>
    BY <1>2 DEF ReadEnd, ReadError
  <2>2. session = "none" /\ ~calm /\ got \in Nat /\ got <= came
    BY <1>2, <2>1 DEF IInv, ConnectionOK, TypeOK
  <2>3. Garble \/ Crash
    BY <1>2 DEF ReadEnd, ReadError
  <2>4. got' \in Nat /\ got <= got' /\ got' <= came
    BY <2>1, <2>2
  <2>5. QED
    BY <1>2, <2>1, <2>2, <2>3, <2>4, LostInv
<1>3. ASSUME IInv, ReadTerminal PROVE IInv'
  <2>1. /\ fd = "terminal" /\ Crash
        /\ UNCHANGED <<curr_state, reading, used, garbled, taken, up, session, asked, stream,
                       end, fd, got, came, calm>>
        /\ fate' = "crashed"
    BY <1>3 DEF ReadTerminal, Crash, serverVars
  <2>2. /\ TypeOK /\ LayoutOK /\ ConnectionOK /\ LoginOK /\ PasswordsToServer
        /\ came <= Total
    BY <1>3 DEF IInv, LayoutOK
  <2>3. ~calm /\ session = "none"
    BY <2>1, <2>2 DEF ConnectionOK
  <2>4. TypeOK' /\ ConnectionOK' /\ PasswordsToServer' /\ LoginOK'
    BY <2>1, <2>2, <2>3 DEF TypeOK, ConnectionOK, PasswordsToServer, LoginOK
  <2>5. QED
    BY <1>3, <2>1, <2>2, <2>3, <2>4, QuietInv
<1>4. QED
  BY <1>1, <1>2, <1>3 DEF Read

LEMMA NextIInv == IInv /\ [Next]_vars => IInv'
<1>1. ASSUME IInv, Next PROVE IInv'
  BY <1>1, MenuInv, LogoutInv, ReadInv, AnswerInv, ForwardToInv, OutsideInv DEF Next
<1>2. ASSUME IInv, UNCHANGED vars PROVE IInv'
  <2>1. UNCHANGED <<curr_state, fd, reading, used, got, taken, garbled, fate,
                    up, session, asked, stream, end, came, calm>>
    BY <1>2 DEF vars, clientVars, serverVars
  <2>2. /\ TypeOK /\ LayoutOK /\ ConnectionOK /\ LoginOK /\ PasswordsToServer
        /\ came <= Total
    BY <1>2 DEF IInv, LayoutOK
  <2>3. TypeOK' /\ ConnectionOK' /\ PasswordsToServer' /\ LoginOK'
    BY <2>1, <2>2 DEF TypeOK, ConnectionOK, PasswordsToServer, LoginOK, Total, Start
  <2>4. QED
    BY <1>2, <2>1, <2>2, <2>3, QuietInv
<1>3. QED
  BY <1>1, <1>2

LEMMA IInvariance == Spec => []IInv
<1>1. Init => IInv
  BY InitIInv
<1>2. IInv /\ [Next]_vars => IInv'
  BY NextIInv
<1>3. QED
  BY <1>1, <1>2, PTL DEF Spec

-----------------------------------------------------------------------------
(* The theorems.                                                           *)

\* The types of the client's variables and of its connection: the buffer never
\* counts bytes that were not read, nor a read bytes that did not arrive.
THEOREM ClientTypes == Spec => []TypeOK
<1>1. IInv => TypeOK
  BY DEF IInv
<1>2. QED
  BY <1>1, IInvariance, PTL

\* Whatever the server sends and however the connection ends, a client that shows
\* its menu on a live connection is logged in on it.
THEOREM MenuOnlyInSession == Spec => []LoggedInTogether
<1>1. IInv => LoggedInTogether
  <2> SUFFICES ASSUME IInv, curr_state = "MESSAGE", fd = "socket", end = "open"
               PROVE  session = "in"
    BY DEF LoggedInTogether
  <2>1. session # "none" /\ session # "out" /\ session \in {"none", "out", "in"}
    BY DEF IInv, ConnectionOK, LoginOK, TypeOK
  <2>2. QED
    BY <2>1
<1>2. QED
  BY <1>1, IInvariance, PTL

\* No name or password is asked for without a connection to send it on, after a
\* failed connect() either.
THEOREM PasswordsOnSocket == Spec => []PasswordsToServer
<1>1. IInv => PasswordsToServer
  BY DEF IInv
<1>2. QED
  BY <1>1, IInvariance, PTL

\* No message is shown, and no answer acted on, that mixes bytes of two frames, as
\* long as the server writes its frames to the end.
THEOREM OnlyGenuineShown == Spec => []ShownIsGenuine
<1>1. IInv => ShownIsGenuine
  BY DEF IInv
<1>2. QED
  BY <1>1, IInvariance, PTL

\* With a server that lives and writes one frame at a time the client never dies.
THEOREM CalmSurvived == Spec => []SurvivesCalm
<1>1. IInv => SurvivesCalm
  BY DEF IInv, CalmOK, SurvivesCalm
<1>2. QED
  BY <1>1, IInvariance, PTL

-----------------------------------------------------------------------------
(* The refinement.                                                         *)

Patient == calm /\ Whole

LEMMA InitFraming == Init => F!Init
BY DEF Init, F!Init, Whole

LEMMA PutWrites ==
  ASSUME IInv, NEW kind \in {"200", "401", "chat"}, NEW size \in Nat, NEW len \in Short,
         Put(kind, size, len), UNCHANGED <<taken, calm>>
  PROVE  F!Write
<1> DEFINE cut == IF size <= Room THEN size ELSE Room
           w == [kind |-> kind, size |-> size, len |-> len, at |-> Total, cut |-> cut]
<1>1. TypeOK /\ LayoutOK
  BY DEF IInv
<1>2. Total \in Nat /\ cut \in Nat
  BY <1>1, TotalType, ClientProcessAssumption DEF TypeOK, LayoutOK, Room
<1>3. w \in Written /\ w.at = Total
  BY <1>2 DEF Written
<1>4. stream' = Append(stream, w)
  BY DEF Put
<1> HIDE DEF w
<1>5. Len(stream') = Len(stream) + 1 /\ (Whole' => Whole)
  BY <1>1, <1>3, <1>4, Appended
<1>6. Patient' \in {Patient, FALSE}
  <2>1. Patient' \in BOOLEAN /\ Patient \in BOOLEAN
    BY <1>1 DEF Patient, TypeOK
  <2>2. Patient' => Patient
    BY <1>5 DEF Patient
  <2>3. QED
    BY <2>1, <2>2
<1>7. QED
  BY <1>5, <1>6 DEF F!Write, Patient

\* The frame that is decoded comes after the last one that was; and with a calm
\* server it is the next.
LEMMA GenuineDeals ==
  ASSUME IInv, InLoop, got < came, NEW i \in DOMAIN stream, HasHeader(i), Genuine(i),
         UNCHANGED <<stream, calm>>
  PROVE  F!Deal(i)
<1>1. TypeOK /\ LayoutOK /\ TakenOK
  BY DEF IInv
<1>2. /\ i \in Nat /\ 1 <= i /\ i <= Len(stream) /\ stream[i].at = Start /\ i \in AtStart
      /\ stream[i].cut \in Nat /\ 0 < stream[i].cut /\ Start \in Nat
  BY <1>1, WrittenFrame, ReadBounds DEF HasHeader, AtStart
<1>3. Latest < i
  <2>1. CASE taken = <<>>
    BY <1>2, <2>1 DEF Latest, F!Latest
  <2>2. CASE taken # <<>>
    <3>1. Latest \in DOMAIN stream /\ stream[Latest].at + stream[Latest].cut <= Start
      BY <1>1, <2>2 DEF TakenOK
    <3>2. /\ stream[Latest].at \in Nat /\ stream[Latest].cut \in Nat
      BY <1>1, <3>1, WrittenFrame
    <3>3. Latest # i /\ stream[Latest].at < stream[i].at + stream[i].cut
      BY <1>2, <3>1, <3>2
    <3>4. QED
      BY <1>1, <3>1, <3>3, Before
  <2>3. QED
    BY <2>1, <2>2
<1>4. Patient => i = Latest + 1
  <2> SUFFICES ASSUME calm, Whole PROVE i = Latest + 1
    BY DEF Patient
  <2>1. AtStart = {Len(stream)} /\ Latest = Len(stream) - 1
    BY LastIsRead
  <2>2. i = Len(stream)
    BY <1>2, <2>1
  <2>3. QED
    BY <1>2, <2>1, <2>2
<1>5. taken' = Append(taken, i) /\ Len(stream') = Len(stream)
  BY DEF Genuine
<1>6. Patient' = Patient
  BY DEF Patient, Whole
<1>7. QED
  BY <1>2, <1>3, <1>4, <1>5, <1>6 DEF F!Deal, Latest, Patient

LEMMA Stutters ==
  ASSUME UNCHANGED <<stream, taken, calm>>
  PROVE  UNCHANGED F!vars
BY DEF F!vars, Whole

LEMMA NextFraming == IInv /\ [Next]_vars => [F!Next]_(F!vars)
<1>1. ASSUME IInv, Answer \/ ForwardTo PROVE F!Next
  <2>1. CASE Answer
    <3>1. PICK kind \in {"200", "401"} : Put(kind, InfoBytes, InfoBytes)
      BY <2>1 DEF Answer
    <3>2. InfoBytes \in Nat /\ InfoBytes \in Short
      BY DEF InfoBytes, HeaderBytes, Short
    <3>3. UNCHANGED <<taken, calm>>
      BY <2>1 DEF Answer, clientVars
    <3>4. F!Write
      BY <1>1, <3>1, <3>2, <3>3, PutWrites
    <3>5. QED
      BY <3>4 DEF F!Next
  <2>2. CASE ForwardTo
    <3>1. PICK s \in Sizes :
            Put("chat", Bytes([kind |-> "chat", a |-> s[1], b |-> s[2]]),
                HeaderLen([kind |-> "chat", a |-> s[1], b |-> s[2]]))
      BY <2>2 DEF ForwardTo
    <3> DEFINE f == [kind |-> "chat", a |-> s[1], b |-> s[2]]
    <3>2. f.a \in Nat /\ f.b \in Nat
      BY ClientProcessAssumption DEF Short
    <3>3. Bytes(f) \in Nat /\ HeaderLen(f) \in Short
      BY <3>2 DEF Bytes, HeaderBytes, HeaderLen, U16, SIZE_HEADER, Short
    <3>4. Put("chat", Bytes(f), HeaderLen(f))
      BY <3>1
    <3>5. UNCHANGED <<taken, calm>>
      BY <2>2 DEF ForwardTo, clientVars
    <3> HIDE DEF f
    <3>6. F!Write
      BY <1>1, <3>3, <3>4, <3>5, PutWrites
    <3>7. QED
      BY <3>6 DEF F!Next
  <2>3. QED
    BY <1>1, <2>1, <2>2
<1>2. ASSUME IInv, Logout PROVE F!Next
  <2>1. stream' = <<>> /\ taken' = <<>> /\ calm' = calm /\ calm \in BOOLEAN
    BY <1>2 DEF Logout, Reset, IInv, TypeOK
  <2>2. Len(stream') = 0 /\ (calm' /\ Whole') \in BOOLEAN
    BY <2>1 DEF Whole
  <2>3. F!Restart
    BY <2>1, <2>2 DEF F!Restart, F!Init
  <2>4. QED
    BY <2>3 DEF F!Next
<1>3. ASSUME IInv, Read PROVE [F!Next]_(F!vars)
  <2>1. UNCHANGED <<stream, calm>>
    BY <1>3 DEF Read, ReadData, ReadEnd, ReadError, ReadTerminal, serverVars
  <2>2. CASE taken' = taken
    BY <2>1, <2>2, Stutters
  <2>3. CASE taken' # taken
    <3>1. ReadData
      BY <1>3, <2>3 DEF Read, ReadEnd, ReadError, ReadTerminal, Crash, Garble
    <3>2. PICK i \in DOMAIN stream : HasHeader(i) /\ Genuine(i)
      BY <2>3, <3>1 DEF ReadData, More, Crash, Garble
    <3>3. F!Deal(i)
      BY <1>3, <2>1, <3>1, <3>2, GenuineDeals DEF ReadData
    <3>4. i \in 1 .. Len(stream)
      BY <1>3, TotalType DEF IInv
    <3>5. QED
      BY <3>3, <3>4 DEF F!Next
  <2>4. QED
    BY <2>2, <2>3
<1>4. ASSUME SendAuth \/ SendChat \/ Receive \/ ServerDies \/ ServerStarts \/ Arrive
      PROVE  UNCHANGED F!vars
  BY <1>4, Stutters
  DEF SendAuth, SendChat, Receive, ServerDies, ServerStarts, Arrive, clientVars, serverVars
<1>5. ASSUME UNCHANGED vars PROVE UNCHANGED F!vars
  BY <1>5, Stutters DEF vars, clientVars, serverVars
<1>6. QED
  BY <1>1, <1>2, <1>3, <1>4, <1>5 DEF Next

\* The refinement: through logouts, new connections and crashes of the server, each
\* frame of a connection is dealt with at most once and in order, and none that a
\* calm server wrote is passed over.
THEOREM ClientImplementsFraming == Spec => ImplementsFraming
<1>1. Init => F!Init
  BY InitFraming
<1>2. IInv /\ [Next]_vars => [F!Next]_(F!vars)
  BY NextFraming
<1>3. QED
  BY <1>1, <1>2, IInvariance, PTL DEF Spec, ImplementsFraming, F!Spec
=============================================================================
