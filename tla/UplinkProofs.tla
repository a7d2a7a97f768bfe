---------------------------- MODULE UplinkProofs ----------------------------
(***************************************************************************)
(* Theorems about Wire and Uplink, for all lengths of names, passwords and *)
(* messages, every way to cut the stream and any number of frames.         *)
(***************************************************************************)
EXTENDS Uplink, SequenceTheorems, TLAPS

-----------------------------------------------------------------------------
(* The lengths of the wire format.                                         *)

AnyFrame == Frames({"auth", "chat"})

\* header.len is exact, although it counts a padding of two times two bytes in
\* place of the two length fields, unless it wraps.
LEMMA LengthExact ==
  ASSUME NEW f \in AnyFrame
  PROVE  /\ Bytes(f) \in Nat /\ Bytes(f) >= SIZE_HEADER
         /\ HeaderLen(f) \in Short
         /\ Fits16(f) => HeaderLen(f) = Bytes(f)
<1>1. f.a \in Nat /\ f.b \in Nat
  BY DEF AnyFrame, Frames, Short
<1>2. Bytes(f) = 16 + f.a + f.b
  BY <1>1 DEF Bytes, HeaderBytes
<1>3. HeaderLen(f) = (16 + f.a + f.b) % 65536
  BY DEF HeaderLen, U16, SIZE_HEADER
<1>4. ASSUME NEW n \in Nat PROVE n % 65536 \in Short /\ (n <= 65535 => n % 65536 = n)
  BY DEF Short
<1>5. QED
  BY <1>1, <1>2, <1>3, <1>4 DEF Fits16, SIZE_HEADER

\* No frame of ordinary lengths is longer than what was allocated for it, in the
\* client or, with the sender's name in the addressee's place, in the server.
LEMMA FittingFits ==
  ASSUME NEW f \in AnyFrame, Fitting(f)
  PROVE  /\ Fits16(f)
         /\ Bytes(f) <= Allocated(f)
         /\ Bytes(Rewritten(f, UserLen)) <= Allocated(Rewritten(f, UserLen))
<1> DEFINE g == Rewritten(f, UserLen)
<1>1. f.a \in Nat /\ f.b \in Nat /\ f.kind \in {"auth", "chat"}
  BY DEF AnyFrame, Frames, Short
<1>2. Fits16(f) /\ Fits16(g)
  BY DEF Fitting
<1>3. g \in AnyFrame /\ g.kind = "chat"
  BY UplinkAssumption DEF AnyFrame, Frames, Rewritten
<1>4. Bytes(g) <= Allocated(g)
  BY <1>2, <1>3, LengthExact DEF Allocated
<1>5. CASE f.kind = "auth"
  <2>1. Bytes(f) <= 48
    BY <1>1, <1>5 DEF Fitting, Bytes, HeaderBytes
  <2>2. QED
    BY <1>2, <1>4, <1>5, <2>1 DEF Allocated
<1>6. CASE f.kind = "chat"
  BY <1>2, <1>4, <1>6, LengthExact DEF Allocated
<1>7. QED
  BY <1>1, <1>5, <1>6

-----------------------------------------------------------------------------
(* The stream.                                                             *)

LEMMA PlacedFrame ==
  ASSUME TypeOK, NEW i \in DOMAIN wrote
  PROVE  /\ i \in Nat /\ 1 <= i /\ i <= Len(wrote)
         /\ Frame(i) \in AnyFrame /\ wrote[i].frame \in AnyFrame
         /\ wrote[i].at \in Nat
         /\ End(wrote[i]) \in Nat /\ End(wrote[i]) = wrote[i].at + Bytes(Frame(i))
<1>1. wrote[i] \in Placed /\ i \in 1 .. Len(wrote) /\ Len(wrote) \in Nat
  BY DEF TypeOK
<1>2. wrote[i].frame \in AnyFrame /\ wrote[i].at \in Nat
  BY <1>1 DEF Placed, AnyFrame
<1>3. QED
  BY <1>1, <1>2, LengthExact DEF End, Frame

LEMMA TotalType ==
  ASSUME TypeOK
  PROVE  /\ Total \in Nat /\ Len(wrote) \in Nat
         /\ wrote # <<>> => /\ Len(wrote) \in DOMAIN wrote
                            /\ Total = End(wrote[Len(wrote)])
<1>1. wrote \in Seq(Placed) /\ Len(wrote) \in Nat /\ DOMAIN wrote = 1 .. Len(wrote)
  BY DEF TypeOK
<1>2. CASE wrote = <<>>
  BY <1>1, <1>2 DEF Total
<1>3. CASE wrote # <<>>
  <2>1. Len(wrote) # 0
    BY <1>1, <1>3, EmptySeq
  <2>2. Len(wrote) \in DOMAIN wrote
    BY <1>1, <2>1
  <2>3. QED
    BY <1>1, <1>3, <2>2, PlacedFrame DEF Total
<1>4. QED
  BY <1>2, <1>3

\* A new frame is placed at the end, and the others stay where they are.
LEMMA PutFacts ==
  ASSUME TypeOK, NEW f \in AnyFrame, NEW good \in BOOLEAN, Put(f, good)
  PROVE  /\ wrote' \in Seq(Placed)
         /\ Len(wrote') = Len(wrote) + 1
         /\ DOMAIN wrote' = 1 .. Len(wrote) + 1
         /\ \A i \in DOMAIN wrote : i \in DOMAIN wrote' /\ wrote'[i] = wrote[i]
         /\ wrote'[Len(wrote) + 1] = [frame |-> f, good |-> good, at |-> Total]
         /\ Total' = Total + Bytes(f)
<1> DEFINE w == [frame |-> f, good |-> good, at |-> Total]
<1>1. w \in Placed
  BY TotalType DEF Placed, AnyFrame
<1>2. wrote \in Seq(Placed) /\ Len(wrote) \in Nat /\ DOMAIN wrote = 1 .. Len(wrote)
  BY DEF TypeOK
<1>3. wrote' = Append(wrote, w)
  BY DEF Put
<1> HIDE DEF w
<1>4. /\ wrote' \in Seq(Placed)
      /\ Len(wrote') = Len(wrote) + 1
      /\ DOMAIN wrote' = 1 .. Len(wrote) + 1
      /\ \A i \in 1 .. Len(wrote) : wrote'[i] = wrote[i]
      /\ wrote'[Len(wrote) + 1] = w
  BY <1>1, <1>2, <1>3, AppendProperties
<1>5. wrote' # <<>>
  BY <1>2, <1>4, EmptySeq
<1>6. Total' = End(w)
  BY <1>2, <1>4, <1>5 DEF Total
<1>7. End(w) = Total + Bytes(f)
  BY DEF End, w
<1>8. QED
  BY <1>2, <1>4, <1>6, <1>7 DEF w

\* What all frames satisfied before one more was written is less than what they
\* do after.
LEMMA FittingBefore ==
  ASSUME TypeOK, NEW f \in AnyFrame, NEW good \in BOOLEAN, Put(f, good), AllFitting'
  PROVE  AllFitting /\ Fitting(f)
<1>1. \A i \in DOMAIN wrote' : Fitting(wrote'[i].frame)
  BY DEF AllFitting, Frame, Fitting
<1> DEFINE n == Len(wrote) + 1
<1>2. /\ DOMAIN wrote' = 1 .. n
      /\ wrote'[n] = [frame |-> f, good |-> good, at |-> Total]
      /\ \A i \in DOMAIN wrote : i \in DOMAIN wrote' /\ wrote'[i] = wrote[i]
  BY PutFacts
<1>3. n \in 1 .. n
  BY TotalType
<1> HIDE DEF n
<1>4. Fitting(f)
  BY <1>1, <1>2, <1>3
<1>5. AllFitting
  BY <1>1, <1>2 DEF AllFitting, Frame
<1>6. QED
  BY <1>4, <1>5

-----------------------------------------------------------------------------
(* The invariant, action by action: first the client.                      *)

LEMMA InitIInv == Init => IInv
<1> SUFFICES ASSUME Init PROVE IInv
  OBVIOUS
<1> USE DEF Init
<1>1. TypeOK
  <2>1. wrote \in Seq(Placed) /\ handled \in Seq(Nat)
    BY EmptySeq
  <2>2. cdp \in [client_state : {"INITIAL", "AUTH", "MESSAGE"}, buffer_used : Nat,
                 offset : {0, HeaderBytes}, len : Short]
    BY DEF Fresh, Short
  <2>3. QED
    BY <2>1, <2>2 DEF TypeOK
<1>2. Total = 0
  BY DEF Total
<1>3. LayoutOK /\ HeaderOK
  BY <1>2 DEF LayoutOK, HeaderOK, Fresh, SIZE_HEADER
<1>4. HandledOK /\ WholeFrames /\ WithinBuffers
  BY DEF HandledOK, WholeFrames, WithinBuffers
<1>5. PacedOK
  BY <1>2 DEF PacedOK, InStep, Latest, F!Latest, Fresh
<1>6. QED
  BY <1>1, <1>3, <1>4, <1>5 DEF IInv

LEMMA SendInv ==
  ASSUME IInv, status = "running",
         NEW f \in AnyFrame, NEW good \in BOOLEAN, NEW next \in {"auth", "message"},
         MayWrite, Send(f, good, next),
         UNCHANGED <<paced, arrived, edge, due, rd, cdp, handled, reply, status>>
  PROVE  IInv'
<1> DEFINE n == Len(wrote) + 1
<1>1. TypeOK /\ LayoutOK /\ HeaderOK /\ HandledOK /\ WholeFrames /\ WithinBuffers /\ PacedOK
  BY DEF IInv
<1>2. Put(f, good)
  BY DEF Send
<1>3. /\ wrote' \in Seq(Placed)
      /\ Len(wrote') = n
      /\ DOMAIN wrote' = 1 .. n
      /\ \A i \in DOMAIN wrote : i \in DOMAIN wrote' /\ wrote'[i] = wrote[i]
      /\ wrote'[n] = [frame |-> f, good |-> good, at |-> Total]
      /\ Total' = Total + Bytes(f)
  BY <1>1, <1>2, PutFacts
<1>4. /\ Total \in Nat /\ n \in Nat \ {0} /\ DOMAIN wrote = 1 .. n - 1
      /\ Bytes(f) \in Nat /\ Bytes(f) >= 16
  <2>1. Total \in Nat /\ Len(wrote) \in Nat /\ DOMAIN wrote = 1 .. Len(wrote)
    BY <1>1, TotalType DEF TypeOK
  <2>2. QED
    BY <2>1, LengthExact DEF SIZE_HEADER
<1> HIDE DEF n
<1>5. TypeOK'
  BY <1>1, <1>3 DEF TypeOK, Send
<1>6. LayoutOK'
  <2>1. \A i \in DOMAIN wrote : /\ End(wrote[i]) \in Nat /\ End(wrote[i]) <= Total
                                /\ End(wrote'[i]) = End(wrote[i]) /\ wrote'[i].at = wrote[i].at
    BY <1>1, <1>3, PlacedFrame DEF LayoutOK
  <2>2. End(wrote'[n]) = Total' /\ wrote'[n].at = Total
    BY <1>3, <1>4 DEF End
  <2>3. ASSUME NEW i \in DOMAIN wrote', NEW j \in DOMAIN wrote', i < j
        PROVE  End(wrote'[i]) <= wrote'[j].at
    <3>1. i \in DOMAIN wrote
      BY <1>3, <1>4, <2>3
    <3>2. CASE j = n
      BY <2>1, <2>2, <3>1, <3>2
    <3>3. CASE j # n
      <4>1. j \in DOMAIN wrote
        BY <1>3, <1>4, <3>3
      <4>2. QED
        BY <1>1, <2>1, <2>3, <3>1, <4>1 DEF LayoutOK
    <3>4. QED
      BY <3>2, <3>3
  <2>4. ASSUME NEW i \in DOMAIN wrote' PROVE End(wrote'[i]) <= Total'
    <3>1. CASE i = n
      BY <1>3, <1>4, <2>2, <3>1
    <3>2. CASE i # n
      <4>1. i \in DOMAIN wrote
        BY <1>3, <1>4, <3>2
      <4>2. QED
        BY <1>3, <1>4, <2>1, <4>1
    <3>3. QED
      BY <3>1, <3>2
  <2>5. rd' <= arrived' /\ arrived' <= Total' /\ cdp'.buffer_used <= rd'
    <3>1. rd <= arrived /\ arrived <= Total /\ cdp.buffer_used <= rd /\ arrived \in Nat
      BY <1>1 DEF LayoutOK, TypeOK
    <3>2. QED
      BY <1>3, <1>4, <3>1
  <2>6. QED
    BY <2>3, <2>4, <2>5 DEF LayoutOK
<1>7. HeaderOK'
  <2>1. Start' = Start
    BY DEF Start
  <2>2. \A i \in AtStart : i \in AtStart' /\ Frame(i)' = Frame(i)
    BY <1>3, <2>1 DEF AtStart, Frame
  <2>3. QED
    BY <1>1, <2>2 DEF HeaderOK
<1>8. HandledOK' /\ WholeFrames'
  BY <1>1, <1>3 DEF HandledOK, WholeFrames, Start, Frame
<1>9. WithinBuffers'
  <2>1. SUFFICES ASSUME AllFitting' PROVE status' # "overrun" /\ mode' # "dead"
    BY DEF WithinBuffers
  <2>2. AllFitting /\ Fitting(f)
    BY <1>1, <1>2, <2>1, FittingBefore
  <2>3. ~(Bytes(f) > Allocated(f))
    <3>1. Bytes(f) <= Allocated(f)
      BY <2>2, FittingFits
    <3>2. Allocated(f) \in Nat
      BY LengthExact DEF Allocated, Short
    <3>3. QED
      BY <1>4, <3>1, <3>2
  <2>4. mode' = next
    BY <2>3 DEF Send
  <2>5. QED
    BY <2>4
<1>10. PacedOK'
  <2>1. SUFFICES ASSUME paced, AllFitting' PROVE InStep'
    BY DEF PacedOK
  <2>2. InStep /\ rd = Total
    BY <1>1, <1>2, <2>1, FittingBefore DEF PacedOK, MayWrite
  <2>3. cdp.buffer_used = 0 /\ Latest = Len(wrote)
    BY <1>4, <2>2 DEF InStep
  <2>4. wrote' # <<>>
    BY <1>3, <1>4, EmptySeq
  <2>5. Latest' = Latest
    BY DEF Latest, F!Latest
  <2>6. Latest' = Len(wrote') - 1
    BY <1>1, <1>3, <2>3, <2>5, TotalType DEF n
  <2>7. wrote'[Len(wrote')].at = Start'
    BY <1>3, <1>4, <2>2, <2>3 DEF Start
  <2>8. rd' < Total'
    BY <1>3, <1>4, <2>2
  <2>9. QED
    BY <2>4, <2>6, <2>7, <2>8 DEF InStep
<1>11. QED
  BY <1>5, <1>6, <1>7, <1>8, <1>9, <1>10 DEF IInv

\* Steps that leave what was written, read and handled alone.
LEMMA QuietInv ==
  ASSUME IInv, TypeOK', UNCHANGED <<wrote, paced, rd, cdp, handled, status>>,
         arrived <= arrived', arrived' <= Total, mode' = "dead" => mode = "dead"
  PROVE  IInv'
<1>1. TypeOK /\ LayoutOK /\ HeaderOK /\ HandledOK /\ WholeFrames /\ WithinBuffers /\ PacedOK
  BY DEF IInv
<1>2. Total' = Total /\ Start' = Start /\ AtStart' = AtStart
  BY DEF Total, Start, AtStart
<1>3. LayoutOK'
  <2>1. rd \in Nat /\ arrived \in Nat /\ arrived' \in Nat
    BY <1>1 DEF TypeOK
  <2>2. QED
    BY <1>1, <1>2, <2>1 DEF LayoutOK
<1>4. HeaderOK' /\ HandledOK' /\ WholeFrames'
  BY <1>1, <1>2 DEF HeaderOK, HandledOK, WholeFrames, Frame
<1>5. WithinBuffers' /\ PacedOK'
  BY <1>1, <1>2 DEF WithinBuffers, PacedOK, AllFitting, Frame, InStep, Latest, F!Latest
<1>6. QED
  BY <1>1, <1>3, <1>4, <1>5 DEF IInv

-----------------------------------------------------------------------------
(* A read.                                                                 *)

LEMMA Reading ==
  ASSUME IInv, DataEvent
  PROVE  /\ Used \in Nat /\ Start \in Nat /\ cdp.buffer_used \in Nat
         /\ rd' \in Nat /\ rd < rd' /\ rd' <= arrived /\ rd' <= Total
         /\ rd' = Start + Used /\ Start <= rd
         /\ arrived' = arrived /\ wrote' = wrote /\ paced' = paced /\ mode' = mode
<1>1. /\ rd \in Nat /\ arrived \in Nat /\ cdp.buffer_used \in Nat
      /\ rd <= arrived /\ arrived <= Total /\ cdp.buffer_used <= rd /\ Total \in Nat
  BY TotalType DEF IInv, TypeOK, LayoutOK
<1>2. rd < arrived /\ rd' = rd + ReadLen
  BY <1>1 DEF DataEvent
<1>3. ReadLen \in Nat /\ 0 < ReadLen /\ ReadLen <= arrived - rd
  BY <1>1, <1>2 DEF ReadLen, BuffSize
<1>4. UNCHANGED <<wrote, paced, mode, arrived>>
  BY DEF DataEvent, clientVars
<1>5. QED
  BY <1>1, <1>2, <1>3, <1>4 DEF Used, Start

\* There is one frame at most that cdp->buff starts with; its header, decoded
\* now or before, is its own.
LEMMA OneAtStart ==
  ASSUME IInv, NEW i \in AtStart
  PROVE  /\ i \in DOMAIN wrote
         /\ AtStart = {i}
         /\ Complete(i) <=> Used >= HeaderLen(Frame(i))
<1>1. TypeOK /\ LayoutOK /\ HeaderOK
  BY DEF IInv
<1>2. i \in DOMAIN wrote /\ wrote[i].at = Start
  BY DEF AtStart
<1>3. ASSUME NEW j \in AtStart, j # i PROVE FALSE
  <2>1. j \in DOMAIN wrote /\ wrote[j].at = Start
    BY DEF AtStart
  <2>2. /\ i \in Nat /\ j \in Nat
        /\ wrote[i].at \in Nat /\ End(wrote[i]) > wrote[i].at
        /\ wrote[j].at \in Nat /\ End(wrote[j]) > wrote[j].at
        /\ End(wrote[i]) \in Nat /\ End(wrote[j]) \in Nat
    BY <1>1, <1>2, <2>1, PlacedFrame, LengthExact DEF SIZE_HEADER
  <2>3. i < j \/ j < i
    BY <1>3, <2>2
  <2>4. \/ End(wrote[i]) <= wrote[j].at
        \/ End(wrote[j]) <= wrote[i].at
    BY <1>1, <1>2, <2>1, <2>3 DEF LayoutOK
  <2>5. QED
    BY <1>2, <2>1, <2>2, <2>4
<1>4. AtStart = {i}
  BY <1>3
<1>5. cdp.offset # 0 => cdp.len = HeaderLen(Frame(i))
  BY <1>1, <1>4 DEF HeaderOK
<1>6. QED
  BY <1>2, <1>4, <1>5 DEF Complete

\* A paced writer's server, while there is something to read, is at the last
\* frame.
LEMMA PacedReading ==
  ASSUME IInv, DataEvent, paced, AllFitting
  PROVE  /\ wrote # <<>> /\ Len(wrote) \in AtStart
         /\ Latest = Len(wrote) - 1
         /\ Total = Start + Bytes(Frame(Len(wrote)))
         /\ Frame(Len(wrote)) \in AnyFrame
         /\ HeaderLen(Frame(Len(wrote))) = Bytes(Frame(Len(wrote)))
<1>1. TypeOK /\ LayoutOK /\ PacedOK
  BY DEF IInv
<1>2. rd < Total /\ rd \in Nat /\ Total \in Nat
  <2>1. rd \in Nat /\ Total \in Nat
    BY <1>1, TotalType DEF TypeOK
  <2>2. QED
    BY <2>1, Reading
<1>3. /\ wrote # <<>> /\ Latest = Len(wrote) - 1
      /\ wrote[Len(wrote)].at = Start
  BY <1>1, <1>2 DEF PacedOK, InStep
<1>4. Len(wrote) \in DOMAIN wrote /\ Total = End(wrote[Len(wrote)])
  BY <1>1, <1>3, TotalType
<1>5. /\ Frame(Len(wrote)) \in AnyFrame
      /\ End(wrote[Len(wrote)]) = wrote[Len(wrote)].at + Bytes(Frame(Len(wrote)))
  BY <1>1, <1>4, PlacedFrame
<1>6. Fitting(Frame(Len(wrote)))
  BY <1>4 DEF AllFitting
<1>7. HeaderLen(Frame(Len(wrote))) = Bytes(Frame(Len(wrote)))
  BY <1>5, <1>6, FittingFits, LengthExact
<1>8. QED
  BY <1>3, <1>4, <1>5, <1>7 DEF AtStart

-----------------------------------------------------------------------------
(* What the data is good for.                                              *)

\* The buffer grows; if its header is known, it stays so.
LEMMA KeepInv ==
  ASSUME IInv, status = "running", DataEvent, TypeOK', HeaderOK',
         cdp'.buffer_used = Used, UNCHANGED <<handled, status>>,
         AtStart # {} => Used < SIZE_HEADER \/ \E i \in AtStart : Used < HeaderLen(Frame(i))
  PROVE  IInv'
<1>1. TypeOK /\ LayoutOK /\ HandledOK /\ WholeFrames /\ WithinBuffers /\ PacedOK
  BY DEF IInv
<1>2. /\ Used \in Nat /\ Start \in Nat /\ rd \in Nat /\ rd' \in Nat
      /\ rd < rd' /\ rd' <= arrived /\ rd' <= Total /\ rd' = Start + Used
      /\ arrived' = arrived /\ wrote' = wrote /\ paced' = paced /\ mode' = mode
      /\ Total' = Total
  BY <1>1, Reading DEF TypeOK, Total
<1>3. Start' = Start
  BY <1>2 DEF Start
<1>4. LayoutOK'
  BY <1>1, <1>2 DEF LayoutOK
<1>5. HandledOK'
  BY <1>1, <1>2, <1>3 DEF HandledOK
<1>6. WholeFrames'
  <2>1. ASSUME NEW k \in DOMAIN handled, Fits16(Frame(handled[k]))
        PROVE  End(wrote[handled[k]]) <= rd'
    <3>1. End(wrote[handled[k]]) <= rd
      BY <1>1, <2>1 DEF WholeFrames
    <3>2. End(wrote[handled[k]]) \in Nat
      BY <1>1, PlacedFrame DEF HandledOK
    <3>3. QED
      BY <1>2, <3>1, <3>2
  <2>2. QED
    BY <1>2, <2>1 DEF WholeFrames, Frame
<1>7. WithinBuffers'
  BY <1>1, <1>2 DEF WithinBuffers, AllFitting, Frame
<1>8. PacedOK'
  <2>1. SUFFICES ASSUME paced, AllFitting PROVE InStep'
    BY <1>2 DEF PacedOK, AllFitting, Frame
  <2> DEFINE n == Len(wrote)
  <2>2. /\ wrote # <<>> /\ n \in AtStart /\ Latest = n - 1
        /\ Total = Start + Bytes(Frame(n)) /\ Frame(n) \in AnyFrame
        /\ HeaderLen(Frame(n)) = Bytes(Frame(n))
    BY <2>1, PacedReading
  <2>3. Used < Bytes(Frame(n))
    <3>1. AtStart = {n}
      BY <2>2, OneAtStart
    <3>2. Used < SIZE_HEADER \/ Used < HeaderLen(Frame(n))
      BY <2>2, <3>1
    <3>3. Bytes(Frame(n)) \in Nat /\ Bytes(Frame(n)) >= SIZE_HEADER
      BY <2>2, LengthExact
    <3>4. QED
      BY <1>2, <2>2, <3>2, <3>3 DEF SIZE_HEADER
  <2>4. rd' < Total'
    <3>1. Bytes(Frame(n)) \in Nat
      BY <2>2, LengthExact
    <3>2. QED
      BY <1>2, <2>2, <2>3, <3>1
  <2>5. Latest' = Latest
    BY DEF Latest, F!Latest
  <2>6. wrote[n].at = Start
    BY <2>2 DEF AtStart
  <2>7. QED
    BY <1>2, <1>3, <2>2, <2>4, <2>5, <2>6 DEF InStep
<1>9. QED
  BY <1>4, <1>5, <1>6, <1>7, <1>8 DEF IInv

LEMMA ShortHeaderInv == IInv /\ status = "running" /\ ShortHeader => IInv'
<1> SUFFICES ASSUME IInv, status = "running", ShortHeader PROVE IInv'
  OBVIOUS
<1>1. /\ DataEvent /\ Used < SIZE_HEADER /\ cdp.client_state # "AUTH"
      /\ cdp' = [cdp EXCEPT !.buffer_used = Used]
      /\ UNCHANGED <<handled, reply, status>>
  BY DEF ShortHeader
<1>2. TypeOK /\ HeaderOK
  BY DEF IInv
<1>3. Used \in Nat /\ rd' \in Nat /\ rd' = Start + Used /\ Start \in Nat
  BY <1>1, Reading
<1>4. /\ cdp'.buffer_used = Used /\ cdp'.offset = cdp.offset /\ cdp'.len = cdp.len
      /\ cdp'.client_state = cdp.client_state
  BY <1>1, <1>2 DEF TypeOK
<1>5. TypeOK'
  BY <1>1, <1>2, <1>3 DEF TypeOK, DataEvent, clientVars
<1>6. HeaderOK'
  <2>1. Start' = Start
    BY <1>3, <1>4 DEF Start
  <2>2. AtStart' = AtStart /\ \A i \in AtStart : Frame(i)' = Frame(i)
    BY <1>1, <2>1 DEF AtStart, Frame, DataEvent, clientVars
  <2>3. QED
    BY <1>1, <1>2, <1>4, <2>2 DEF HeaderOK
<1>7. QED
  BY <1>1, <1>4, <1>5, <1>6, KeepInv

LEMMA IncompleteInv == IInv /\ status = "running" /\ Incomplete => IInv'
<1> SUFFICES ASSUME IInv, status = "running", Incomplete PROVE IInv'
  OBVIOUS
<1>1. DataEvent /\ UNCHANGED <<handled, reply, status>>
  BY DEF Incomplete
<1>2. PICK i \in DOMAIN wrote :
        /\ Decoded(i) /\ ~Complete(i)
        /\ cdp' = [client_state |-> IF cdp.client_state = "INITIAL" THEN "AUTH"
                                    ELSE cdp.client_state,
                   buffer_used |-> Used, offset |-> HeaderBytes,
                   len |-> HeaderLen(Frame(i))]
  BY DEF Incomplete
<1>3. TypeOK
  BY DEF IInv
<1>4. Used \in Nat /\ rd' \in Nat /\ rd' = Start + Used /\ Start \in Nat
  BY <1>1, Reading
<1>5. i \in AtStart /\ HeaderLen(Frame(i)) \in Short /\ ~(Used >= HeaderLen(Frame(i)))
  BY <1>2, <1>3, OneAtStart, PlacedFrame, LengthExact DEF Decoded
<1>6. Used < HeaderLen(Frame(i))
  BY <1>4, <1>5 DEF Short
<1>7. /\ cdp'.buffer_used = Used /\ cdp'.offset = HeaderBytes
      /\ cdp'.len = HeaderLen(Frame(i))
  BY <1>2
<1>8. cdp' \in [client_state : {"INITIAL", "AUTH", "MESSAGE"}, buffer_used : Nat,
                offset : {0, HeaderBytes}, len : Short]
  BY <1>2, <1>3, <1>4, <1>5 DEF TypeOK
<1>9. TypeOK'
  BY <1>1, <1>3, <1>4, <1>8 DEF TypeOK, DataEvent, clientVars
<1>10. HeaderOK'
  <2>1. Start' = Start
    BY <1>4, <1>7 DEF Start
  <2>2. i \in AtStart' /\ Frame(i)' = Frame(i)
    BY <1>1, <1>5, <2>1 DEF AtStart, Frame, DataEvent, clientVars
  <2>3. QED
    BY <1>7, <2>2 DEF HeaderOK, HeaderBytes
<1>11. QED
  BY <1>1, <1>5, <1>6, <1>7, <1>9, <1>10, KeepInv

\* The magic is bad: never for a paced client.
LEMMA BadMagicInv == IInv /\ status = "running" /\ BadMagic => IInv'
<1> SUFFICES ASSUME IInv, status = "running", BadMagic PROVE IInv'
  OBVIOUS
<1>1. TypeOK /\ LayoutOK /\ HeaderOK /\ HandledOK /\ WholeFrames /\ WithinBuffers /\ PacedOK
  BY DEF IInv
<1>2. /\ DataEvent /\ AtStart = {} /\ cdp.offset = 0
      /\ status' = "double_free" /\ UNCHANGED <<cdp, handled, reply>>
  BY DEF BadMagic, HeaderDue
<1>3. /\ rd \in Nat /\ rd' \in Nat /\ rd < rd' /\ rd' <= Total /\ rd' <= arrived
      /\ cdp.buffer_used \in Nat /\ cdp.buffer_used <= rd
      /\ arrived' = arrived /\ wrote' = wrote /\ paced' = paced /\ mode' = mode
      /\ Total' = Total
  BY <1>1, <1>2, Reading DEF TypeOK, LayoutOK, Total
<1>4. TypeOK'
  BY <1>1, <1>2, <1>3 DEF TypeOK, DataEvent, clientVars
<1>5. LayoutOK'
  BY <1>1, <1>2, <1>3 DEF LayoutOK
<1>6. HeaderOK'
  BY <1>1, <1>2 DEF HeaderOK
<1>7. ASSUME NEW k \in DOMAIN handled
      PROVE  /\ handled[k] \in DOMAIN wrote /\ wrote[handled[k]].at < Start'
             /\ Fits16(Frame(handled[k])) => End(wrote[handled[k]]) <= rd'
  <2>1. /\ handled[k] \in DOMAIN wrote /\ wrote[handled[k]].at < Start
        /\ Fits16(Frame(handled[k])) => End(wrote[handled[k]]) <= rd
    BY <1>1, <1>7 DEF HandledOK, WholeFrames
  <2>2. wrote[handled[k]].at \in Nat /\ End(wrote[handled[k]]) \in Nat
    BY <1>1, <2>1, PlacedFrame
  <2>3. QED
    BY <1>2, <1>3, <2>1, <2>2 DEF Start
<1>8. HandledOK' /\ WholeFrames'
  BY <1>2, <1>3, <1>7 DEF HandledOK, WholeFrames, Frame
<1>9. WithinBuffers'
  BY <1>1, <1>2, <1>3 DEF WithinBuffers, AllFitting, Frame
<1>10. PacedOK'
  <2>1. ~(paced /\ AllFitting)
    BY <1>2, PacedReading
  <2>2. QED
    BY <1>3, <2>1 DEF PacedOK, AllFitting, Frame
<1>11. QED
  BY <1>4, <1>5, <1>6, <1>8, <1>9, <1>10 DEF IInv

\* A frame has been dealt with, and the buffer is given up.
LEMMA HandleInv ==
  ASSUME IInv, status = "running", NEW i \in DOMAIN wrote, WholeFrame(i), TypeOK',
         cdp'.buffer_used = 0, cdp'.offset = 0, cdp'.client_state # "AUTH",
         AllFitting => status' = "running"
  PROVE  IInv'
<1>1. TypeOK /\ LayoutOK /\ HandledOK /\ WholeFrames /\ WithinBuffers /\ PacedOK
  BY DEF IInv
<1>2. DataEvent /\ i \in AtStart /\ Complete(i) /\ handled' = Append(handled, i)
  BY DEF WholeFrame, Decoded
<1>3. /\ Used \in Nat /\ Start \in Nat /\ rd \in Nat /\ rd' \in Nat
      /\ rd < rd' /\ rd' <= arrived /\ rd' <= Total /\ rd' = Start + Used /\ Start <= rd
      /\ arrived' = arrived /\ wrote' = wrote /\ paced' = paced /\ mode' = mode
      /\ Total' = Total
  BY <1>1, <1>2, Reading DEF TypeOK, Total
<1>4. Start' = rd'
  BY <1>3 DEF Start
<1>5. wrote[i].at = Start /\ AtStart = {i} /\ Used >= HeaderLen(Frame(i))
  BY <1>2, OneAtStart DEF AtStart
<1>6. /\ Frame(i) \in AnyFrame /\ End(wrote[i]) = Start + Bytes(Frame(i))
      /\ Bytes(Frame(i)) \in Nat
      /\ Fits16(Frame(i)) => HeaderLen(Frame(i)) = Bytes(Frame(i))
  BY <1>1, <1>5, PlacedFrame, LengthExact
<1>7. LayoutOK'
  BY <1>1, <1>3 DEF LayoutOK
<1>8. HeaderOK'
  BY DEF HeaderOK, SIZE_HEADER
<1>9. /\ handled \in Seq(Nat) /\ Len(handled) \in Nat /\ i \in Nat
      /\ Len(handled') = Len(handled) + 1
      /\ DOMAIN handled = 1 .. Len(handled) /\ DOMAIN handled' = 1 .. Len(handled) + 1
      /\ handled'[Len(handled) + 1] = i
      /\ \A k \in 1 .. Len(handled) : handled'[k] = handled[k]
  <2>1. handled \in Seq(Nat) /\ i \in Nat
    BY <1>1, PlacedFrame DEF TypeOK
  <2>2. QED
    BY <1>2, <2>1, AppendProperties
<1>10. ASSUME NEW k \in DOMAIN handled'
       PROVE  /\ handled'[k] \in DOMAIN wrote /\ wrote[handled'[k]].at < Start'
              /\ Fits16(Frame(handled'[k])) => End(wrote[handled'[k]]) <= rd'
  <2>1. CASE k \in DOMAIN handled
    <3>1. /\ handled[k] \in DOMAIN wrote /\ wrote[handled[k]].at < Start
          /\ Fits16(Frame(handled[k])) => End(wrote[handled[k]]) <= rd
      BY <1>1, <2>1 DEF HandledOK, WholeFrames
    <3>2. wrote[handled[k]].at \in Nat /\ End(wrote[handled[k]]) \in Nat
      BY <1>1, <3>1, PlacedFrame
    <3>3. handled'[k] = handled[k]
      BY <1>9, <2>1
    <3>4. QED
      BY <1>3, <1>4, <3>1, <3>2, <3>3
  <2>2. CASE k = Len(handled) + 1
    BY <1>3, <1>4, <1>5, <1>6, <1>9, <2>2
  <2>3. QED
    BY <1>9, <2>1, <2>2
<1>11. HandledOK' /\ WholeFrames'
  BY <1>3, <1>10 DEF HandledOK, WholeFrames, Frame
<1>12. WithinBuffers'
  BY <1>1, <1>3 DEF WithinBuffers, AllFitting, Frame
<1>13. PacedOK'
  <2>1. SUFFICES ASSUME paced, AllFitting PROVE InStep'
    BY <1>3 DEF PacedOK, AllFitting, Frame
  <2>2. /\ Len(wrote) \in AtStart /\ Total = Start + Bytes(Frame(Len(wrote)))
        /\ HeaderLen(Frame(Len(wrote))) = Bytes(Frame(Len(wrote)))
    BY <1>2, <2>1, PacedReading
  <2>3. Len(wrote) = i
    BY <1>5, <2>2
  <2>4. rd' = Total' /\ cdp'.buffer_used = 0
    BY <1>1, <1>3, <1>5, <1>6, <2>2, <2>3, TotalType
  <2>5. Latest' = i
    <3>1. handled' # <<>>
      BY <1>9, EmptySeq
    <3>2. QED
      BY <1>9, <3>1 DEF Latest, F!Latest
  <2>6. QED
    BY <1>3, <2>3, <2>4, <2>5 DEF InStep
<1>14. QED
  BY <1>7, <1>8, <1>11, <1>12, <1>13 DEF IInv

\* Of frames of ordinary lengths none is decoded before all of it is there.
LEMMA NoOverRead ==
  ASSUME IInv, NEW i \in DOMAIN wrote, WholeFrame(i), AllFitting
  PROVE  /\ ~OverRead(i) /\ Frame(i) \in AnyFrame /\ Fitting(Frame(i))
<1>1. DataEvent /\ i \in AtStart /\ Complete(i)
  BY DEF WholeFrame, Decoded
<1>2. Used \in Nat /\ Used >= HeaderLen(Frame(i))
  BY <1>1, Reading, OneAtStart
<1>3. Frame(i) \in AnyFrame /\ Fitting(Frame(i))
  BY PlacedFrame DEF IInv, AllFitting
<1>4. HeaderLen(Frame(i)) = Bytes(Frame(i)) /\ Bytes(Frame(i)) \in Nat
  BY <1>3, FittingFits, LengthExact
<1>5. QED
  BY <1>2, <1>3, <1>4 DEF OverRead

LEMMA RefreshedType ==
  ASSUME NEW state \in {"INITIAL", "MESSAGE"}
  PROVE  /\ Refreshed(state) \in
              [client_state : {"INITIAL", "AUTH", "MESSAGE"}, buffer_used : Nat,
               offset : {0, HeaderBytes}, len : Short]
         /\ Refreshed(state).buffer_used = 0 /\ Refreshed(state).offset = 0
         /\ Refreshed(state).client_state # "AUTH"
BY DEF Refreshed, Fresh, Short

LEMMA HandledType ==
  ASSUME IInv, NEW i \in DOMAIN wrote, WholeFrame(i)
  PROVE  /\ handled' \in Seq(Nat) /\ rd' \in Nat
         /\ UNCHANGED <<wrote, paced, mode, arrived, edge>> /\ due' = FALSE
<1>1. DataEvent /\ handled' = Append(handled, i) /\ handled \in Seq(Nat) /\ i \in Nat
  BY PlacedFrame DEF WholeFrame, IInv, TypeOK
<1>2. QED
  BY <1>1, Reading, AppendProperties DEF DataEvent, clientVars

LEMMA LoginInv ==
  ASSUME IInv, status = "running", NEW i \in DOMAIN wrote, Login(i)
  PROVE  IInv'
<1>1. WholeFrame(i)
  BY DEF Login
<1>2. PICK state \in {"INITIAL", "MESSAGE"} : cdp' = Refreshed(state)
  BY DEF Login
<1>3. /\ reply' \in {"none", "200", "401"}
      /\ status' \in {"running", "double_free", "overrun"}
  BY DEF Login
<1>4. TypeOK'
  BY <1>1, <1>2, <1>3, RefreshedType, HandledType DEF IInv, TypeOK
<1>5. AllFitting => status' = "running"
  BY <1>1, NoOverRead DEF Login
<1>6. QED
  BY <1>1, <1>2, <1>4, <1>5, RefreshedType, HandleInv

LEMMA ForwardInv ==
  ASSUME IInv, status = "running", NEW i \in DOMAIN wrote, Forward(i)
  PROVE  IInv'
<1> DEFINE new == Rewritten(Frame(i), UserLen)
<1>1. WholeFrame(i) /\ cdp' = Refreshed("MESSAGE") /\ UNCHANGED reply
  BY DEF Forward
<1>2. \/ status' = status
      \/ (OverRead(i) \/ Bytes(new) > Allocated(new)) /\ status' = "overrun"
  BY DEF Forward
<1>3. TypeOK'
  BY <1>1, <1>2, RefreshedType, HandledType DEF IInv, TypeOK
<1>4. AllFitting => status' = "running"
  <2>1. SUFFICES ASSUME AllFitting PROVE status' = "running"
    OBVIOUS
  <2>2. ~OverRead(i) /\ Frame(i) \in AnyFrame /\ Fitting(Frame(i))
    BY <1>1, <2>1, NoOverRead
  <2>3. ~(Bytes(new) > Allocated(new))
    <3>1. Bytes(new) <= Allocated(new)
      BY <2>2, FittingFits
    <3>2. new \in AnyFrame
      BY <2>2, UplinkAssumption DEF AnyFrame, Frames, Rewritten
    <3>3. Bytes(new) \in Nat /\ Allocated(new) \in Nat
      BY <3>2, LengthExact DEF Allocated, Short
    <3>4. QED
      BY <3>1, <3>3
  <2>4. QED
    BY <1>2, <2>2, <2>3
<1>5. QED
  BY <1>1, <1>3, <1>4, RefreshedType, HandleInv

-----------------------------------------------------------------------------
(* The theorems.                                                           *)

LEMMA SenderInv == IInv /\ status = "running" /\ (SendAuth \/ SendChat) => IInv'
<1>1. ASSUME IInv, status = "running", SendAuth PROVE IInv'
  <2>1. PICK l \in Logins, good \in BOOLEAN :
          Send([kind |-> "auth", a |-> l[1], b |-> l[2]], good, "auth")
    BY <1>1 DEF SendAuth
  <2>2. [kind |-> "auth", a |-> l[1], b |-> l[2]] \in AnyFrame
    BY UplinkAssumption DEF AnyFrame, Frames
  <2>3. MayWrite /\ UNCHANGED <<paced, arrived, edge, due, rd, cdp, handled, reply, status>>
    BY <1>1 DEF SendAuth
  <2>4. QED
    BY <1>1, <2>1, <2>2, <2>3, SendInv
<1>2. ASSUME IInv, status = "running", SendChat PROVE IInv'
  <2>1. PICK l \in Chats : Send([kind |-> "chat", a |-> l[1], b |-> l[2]], TRUE, "message")
    BY <1>2 DEF SendChat
  <2>2. [kind |-> "chat", a |-> l[1], b |-> l[2]] \in AnyFrame
    BY UplinkAssumption DEF AnyFrame, Frames
  <2>3. MayWrite /\ UNCHANGED <<paced, arrived, edge, due, rd, cdp, handled, reply, status>>
    BY <1>2 DEF SendChat
  <2>4. QED
    BY <1>2, <2>1, <2>2, <2>3, SendInv
<1>3. QED
  BY <1>1, <1>2

LEMMA OtherInv ==
  IInv /\ status = "running" /\ (ReadReply \/ Arrive \/ EpollWait \/ NothingRead) => IInv'
<1> SUFFICES ASSUME IInv, status = "running",
                    ReadReply \/ Arrive \/ EpollWait \/ NothingRead
             PROVE  IInv'
  OBVIOUS
<1>1. TypeOK /\ arrived \in Nat /\ arrived <= Total /\ Total \in Nat
  BY TotalType DEF IInv, TypeOK, LayoutOK
<1>2. CASE ReadReply
  <2>1. TypeOK'
    BY <1>1, <1>2 DEF ReadReply, TypeOK
  <2>2. QED
    BY <1>1, <1>2, <2>1, QuietInv DEF ReadReply
<1>3. CASE Arrive
  <2>1. PICK n \in CutPoints : arrived < n /\ n <= Total /\ arrived' = n
    BY <1>3 DEF Arrive
  <2>2. n \in Nat
    <3>1. ASSUME NEW i \in DOMAIN wrote, NEW k \in Cuts PROVE wrote[i].at + k \in Nat
      BY <1>1, PlacedFrame, UplinkAssumption
    <3>2. QED
      BY <1>1, <3>1 DEF CutPoints
  <2>3. TypeOK'
    BY <1>1, <1>3, <2>1, <2>2 DEF Arrive, TypeOK, clientVars
  <2>4. QED
    BY <1>1, <1>3, <2>1, <2>2, <2>3, QuietInv DEF Arrive, clientVars
<1>4. CASE EpollWait \/ NothingRead
  <2>1. TypeOK'
    BY <1>1, <1>4 DEF EpollWait, NothingRead, TypeOK, clientVars
  <2>2. QED
    BY <1>1, <1>4, <2>1, QuietInv DEF EpollWait, NothingRead, clientVars
<1>5. QED
  BY <1>2, <1>3, <1>4

LEMMA NextIInv == IInv /\ [Next]_vars => IInv'
<1>1. ASSUME IInv, Next PROVE IInv'
  <2>1. status = "running"
    BY <1>1 DEF Next
  <2>2. ASSUME NEW i \in DOMAIN wrote, Login(i) \/ Forward(i) PROVE IInv'
    BY <1>1, <2>1, <2>2, LoginInv, ForwardInv
  <2>3. QED
    BY <1>1, <2>1, <2>2, SenderInv, OtherInv, ShortHeaderInv, BadMagicInv, IncompleteInv
    DEF Next, Event
<1>2. ASSUME IInv, UNCHANGED vars PROVE IInv'
  <2>1. TypeOK'
    BY <1>2 DEF IInv, TypeOK, vars, clientVars
  <2>2. arrived \in Nat /\ arrived <= Total
    BY <1>2 DEF IInv, TypeOK, LayoutOK
  <2>3. QED
    BY <1>2, <2>1, <2>2, QuietInv DEF vars, clientVars
<1>3. QED
  BY <1>1, <1>2

LEMMA IInvariance == Spec => []IInv
<1>1. Init => IInv
  BY InitIInv
<1>2. IInv /\ [Next]_vars => IInv'
  BY NextIInv
<1>3. QED
  BY <1>1, <1>2, PTL DEF Spec

\* The types of both ends and of the stream between them.
THEOREM UplinkTypes == Spec => []TypeOK
<1>1. IInv => TypeOK
  BY DEF IInv
<1>2. QED
  BY <1>1, IInvariance, PTL

\* The server decodes no frame before its last byte is there, for every frame
\* whose length fits its field.
THEOREM OnlyWholeFrames == Spec => []WholeFrames
<1>1. IInv => WholeFrames
  BY DEF IInv
<1>2. QED
  BY <1>1, IInvariance, PTL

\* Frames of ordinary lengths write and read past no buffer of client or server,
\* however fast they are sent and however they are cut.
THEOREM NeverPastBuffers == Spec => []WithinBuffers
<1>1. IInv => WithinBuffers
  BY DEF IInv
<1>2. QED
  BY <1>1, IInvariance, PTL

\* Nothing of what a paced client wrote stays behind in cdp->buff.
THEOREM PacedNothingHeld == Spec => []NothingHeld
<1>1. IInv => NothingHeld
  <2> SUFFICES ASSUME IInv, paced, AllFitting, rd = Total
               PROVE  /\ cdp.buffer_used = 0 /\ status = "running"
                      /\ wrote # <<>> => handled # <<>> /\ handled[Len(handled)] = Len(wrote)
    BY DEF NothingHeld
  <2>1. rd \in Nat /\ Total \in Nat /\ Len(wrote) \in Nat
    BY TotalType DEF IInv, TypeOK
  <2>2. status = "running" /\ cdp.buffer_used = 0 /\ Latest = Len(wrote)
    BY <2>1 DEF IInv, PacedOK, InStep
  <2>3. ASSUME wrote # <<>> PROVE handled # <<>> /\ handled[Len(handled)] = Len(wrote)
    <3>1. Len(wrote) # 0
      BY <2>3, TotalType, PlacedFrame DEF IInv
    <3>2. QED
      BY <2>2, <3>1 DEF Latest, F!Latest
  <2>4. QED
    BY <2>2, <2>3
<1>2. QED
  BY <1>1, IInvariance, PTL

-----------------------------------------------------------------------------
(* The refinement.                                                         *)

Patient == paced /\ AllFitting

LEMMA InitFraming == Init => F!Init
BY DEF Init, F!Init, AllFitting

LEMMA PutWrites ==
  ASSUME IInv, NEW f \in AnyFrame, NEW good \in BOOLEAN, Put(f, good),
         UNCHANGED <<paced, handled>>
  PROVE  F!Write
<1>1. TypeOK
  BY DEF IInv
<1>2. Len(wrote') = Len(wrote) + 1
  BY <1>1, PutFacts
<1>3. Patient' => Patient
  BY <1>1, FittingBefore DEF Patient
<1>4. Patient' \in {Patient, FALSE}
  <2>1. Patient' \in BOOLEAN /\ Patient \in BOOLEAN
    BY <1>1 DEF Patient, TypeOK
  <2>2. QED
    BY <1>3, <2>1
<1>5. QED
  BY <1>2, <1>4 DEF F!Write, Patient

\* A frame that is dealt with comes after the last, and for a paced client is
\* the next.
LEMMA HandledDeals ==
  ASSUME IInv, NEW i \in DOMAIN wrote, WholeFrame(i)
  PROVE  F!Deal(i)
<1>1. TypeOK /\ LayoutOK /\ HandledOK
  BY DEF IInv
<1>2. DataEvent /\ i \in AtStart /\ handled' = Append(handled, i)
  BY DEF WholeFrame, Decoded
<1>3. wrote' = wrote /\ paced' = paced
  BY <1>2, Reading
<1>4. i \in Nat /\ 1 <= i /\ i <= Len(wrote) /\ wrote[i].at = Start /\ Start \in Nat
  BY <1>1, <1>2, PlacedFrame, Reading DEF AtStart
<1>5. Latest < i
  <2>1. CASE handled = <<>>
    BY <1>4, <2>1 DEF Latest, F!Latest
  <2>2. CASE handled # <<>>
    <3>1. handled \in Seq(Nat) /\ Len(handled) \in DOMAIN handled
      BY <1>1, <2>2, EmptySeq DEF TypeOK
    <3> DEFINE j == handled[Len(handled)]
    <3>2. j \in DOMAIN wrote /\ wrote[j].at < Start
      BY <1>1, <3>1 DEF HandledOK
    <3>3. /\ j \in Nat /\ wrote[j].at \in Nat
          /\ End(wrote[i]) \in Nat /\ wrote[i].at <= End(wrote[i])
      <4>1. /\ End(wrote[i]) = wrote[i].at + Bytes(Frame(i)) /\ Frame(i) \in AnyFrame
            /\ End(wrote[i]) \in Nat /\ wrote[i].at \in Nat
        BY <1>1, PlacedFrame
      <4>2. Bytes(Frame(i)) \in Nat
        BY <4>1, LengthExact
      <4>3. QED
        BY <1>1, <3>2, <4>1, <4>2, PlacedFrame
    <3>4. j = Latest
      BY <2>2 DEF Latest, F!Latest
    <3> HIDE DEF j
    <3>5. ~(i < j)
      BY <1>1, <1>4, <3>2, <3>3 DEF LayoutOK
    <3>6. i # j
      BY <1>4, <3>2
    <3>7. QED
      BY <1>4, <3>3, <3>4, <3>5, <3>6
  <2>3. QED
    BY <2>1, <2>2
<1>6. Patient => i = Latest + 1
  <2>1. SUFFICES ASSUME Patient PROVE i = Latest + 1
    OBVIOUS
  <2>2. Len(wrote) \in AtStart /\ Latest = Len(wrote) - 1 /\ Len(wrote) \in Nat
    BY <1>1, <1>2, <2>1, PacedReading, TotalType DEF Patient
  <2>3. Len(wrote) = i
    BY <1>2, <2>2, OneAtStart
  <2>4. QED
    BY <2>2, <2>3
<1>7. Patient' = Patient
  BY <1>3 DEF Patient, AllFitting, Frame
<1>8. QED
  BY <1>2, <1>3, <1>4, <1>5, <1>6, <1>7 DEF F!Deal, Latest, Patient

\* Whatever else happens is of no concern to Framing.
LEMMA OtherStutters ==
  ASSUME UNCHANGED <<wrote, paced, handled>>
  PROVE  UNCHANGED F!vars
BY DEF F!vars, AllFitting, Frame

LEMMA NextFraming == IInv /\ [Next]_vars => [F!Next]_(F!vars)
<1>1. ASSUME IInv, Next PROVE [F!Next]_(F!vars)
  <2>1. ASSUME NEW i \in DOMAIN wrote, Login(i) \/ Forward(i) PROVE F!Next
    <3>1. F!Deal(i)
      BY <1>1, <2>1, HandledDeals DEF Login, Forward
    <3>2. i \in 1 .. Len(wrote)
      BY <1>1 DEF IInv, TypeOK
    <3>3. QED
      BY <3>1, <3>2 DEF F!Next
  <2>2. ASSUME SendAuth PROVE F!Next
    <3>1. PICK l \in Logins, good \in BOOLEAN :
            Put([kind |-> "auth", a |-> l[1], b |-> l[2]], good)
      BY <2>2 DEF SendAuth, Send
    <3>2. [kind |-> "auth", a |-> l[1], b |-> l[2]] \in AnyFrame
      BY UplinkAssumption DEF AnyFrame, Frames
    <3>3. UNCHANGED <<paced, handled>>
      BY <2>2 DEF SendAuth
    <3>4. QED
      BY <1>1, <3>1, <3>2, <3>3, PutWrites DEF F!Next
  <2>3. ASSUME SendChat PROVE F!Next
    <3>1. PICK l \in Chats : Put([kind |-> "chat", a |-> l[1], b |-> l[2]], TRUE)
      BY <2>3 DEF SendChat, Send
    <3>2. [kind |-> "chat", a |-> l[1], b |-> l[2]] \in AnyFrame
      BY UplinkAssumption DEF AnyFrame, Frames
    <3>3. UNCHANGED <<paced, handled>>
      BY <2>3 DEF SendChat
    <3>4. QED
      BY <1>1, <3>1, <3>2, <3>3, PutWrites DEF F!Next
  <2>4. ASSUME ReadReply \/ Arrive \/ EpollWait \/ NothingRead
        PROVE  UNCHANGED F!vars
    BY <2>4, OtherStutters DEF ReadReply, Arrive, EpollWait, NothingRead, clientVars
  <2>5. ASSUME ShortHeader \/ BadMagic \/ Incomplete
        PROVE  UNCHANGED F!vars
    BY <2>5, OtherStutters DEF ShortHeader, BadMagic, Incomplete, DataEvent, clientVars
  <2>6. QED
    BY <1>1, <2>1, <2>2, <2>3, <2>4, <2>5 DEF Next, Event
<1>2. ASSUME UNCHANGED vars PROVE UNCHANGED F!vars
  BY <1>2, OtherStutters DEF vars, clientVars
<1>3. QED
  BY <1>1, <1>2

\* The server decodes the frames of a connection in the order they were written,
\* none of them twice, and none of a paced client's is passed over.
THEOREM UplinkImplementsFraming == Spec => ImplementsFraming
<1>1. Init => F!Init
  BY InitFraming
<1>2. IInv /\ [Next]_vars => [F!Next]_(F!vars)
  BY NextFraming
<1>3. QED
  BY <1>1, <1>2, IInvariance, PTL DEF Spec, ImplementsFraming, F!Spec
=============================================================================
