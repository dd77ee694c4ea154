------------------------- MODULE RpcTransportProofs -------------------------
(***************************************************************************)
(* Proofs about remote calls, for any callers and any messages: a call is  *)
(* executed at most once and answered only when it was, and only messages  *)
(* longer than the buffers can stop a daemon, wherever they are cut.       *)
(***************************************************************************)
EXTENDS RpcTransport, TLAPS

Request(c) == call[c].request

Response(c) == call[c].reply

\* The bytes written are those of the frames written, and whoever reads them is
\* behind; what is executed has been received, what is answered has been executed;
\* and messages no longer than the buffers go in one piece.
CallOK(c) ==
  /\ frame[c] <= Len(Request(c))
  /\ sent[c] + buffered[c] = EndOf(Request(c), frame[c])
  /\ taken[c] <= sent[c]
  /\ executed[c] <= 1
  /\ executed[c] = 1 => taken[c] = Size(Request(c))
  /\ processing[c] => executed[c] = 1
  /\ reply[c] \in {0, Size(Response(c))}
  /\ reply[c] # 0 => executed[c] = 1
  /\ got[c] <= reply[c]
  /\ pc[c] = "done" /\ ~Oneway(call[c]) => executed[c] = 1
  /\ Size(Request(c)) <= WriteBuffer =>
       sent[c] \in {0, Size(Request(c))} /\ taken[c] \in {0, Size(Request(c))}
  /\ Size(Response(c)) <= ReadBuffer => got[c] \in {0, Size(Response(c))}

IInv == TypeOK /\ \A c \in Caller : CallOK(c)

\* What a step may only do because of a long message.
LongOnly ==
  /\ server' \in {"stuck", "aborted"} /\ server = "up" =>
       \E c \in Caller : taken'[c] # taken[c] /\ Size(call[c].request) > WriteBuffer
  /\ caller' # caller =>
       \E c \in Caller : got'[c] # got[c] /\ Size(call[c].reply) > ReadBuffer

-----------------------------------------------------------------------------
(* Streams *)

\* The ends of the frames grow up to the size of the message.
LEMMA StreamFacts ==
  ASSUME NEW ends, IsStream(ends)
  PROVE  /\ Len(ends) \in Nat /\ Size(ends) \in Nat
         /\ \A i \in 0..Len(ends) : EndOf(ends, i) \in Nat /\ EndOf(ends, i) <= Size(ends)
         /\ \A i \in Nat : i < Len(ends) => EndOf(ends, i) + 4 <= EndOf(ends, i + 1)
         /\ ends # <<>> => Size(ends) > 0
<1>1. ends \in Seq(Nat) /\ Len(ends) \in Nat
  BY DEF IsStream
<1>2. \A i \in 1..Len(ends) : ends[i] \in Nat
  BY <1>1
<1>3. \A i \in 0..Len(ends) : EndOf(ends, i) \in Nat
  BY <1>1, <1>2 DEF EndOf
<1>4. Size(ends) \in Nat
  BY <1>1, <1>3 DEF Size
<1>5. ASSUME NEW i \in 0..Len(ends) PROVE EndOf(ends, i) <= Size(ends)
  <2>1. CASE i = 0
    BY <1>4, <2>1 DEF EndOf
  <2>2. CASE i = Len(ends)
    BY <1>4, <2>2 DEF Size
  <2>3. CASE i # 0 /\ i # Len(ends)
    <3>1. i \in 1..Len(ends) /\ Len(ends) \in 1..Len(ends) /\ i < Len(ends)
      BY <1>1, <2>3
    <3>2. ends[Len(ends)] >= ends[i] + 4
      BY <3>1 DEF IsStream
    <3> QED
      BY <1>1, <1>2, <3>1, <3>2 DEF Size, EndOf
  <2> QED
    BY <2>1, <2>2, <2>3
<1>6. ASSUME NEW i \in Nat, i < Len(ends) PROVE EndOf(ends, i) + 4 <= EndOf(ends, i + 1)
  <2>1. i + 1 \in 1..Len(ends) /\ i + 1 # 0
    BY <1>1, <1>6
  <2>2. CASE i = 0
    BY <1>2, <2>1, <2>2 DEF IsStream, EndOf
  <2>3. CASE i # 0
    <3>1. i \in 1..Len(ends) /\ i < i + 1
      BY <1>6, <2>3
    <3> QED
      BY <1>2, <2>1, <2>3, <3>1 DEF IsStream, EndOf
  <2> QED
    BY <2>2, <2>3
<1>7. ends # <<>> => Size(ends) > 0
  <2>1. SUFFICES ASSUME ends # <<>> PROVE Size(ends) > 0
    OBVIOUS
  <2>2. Len(ends) \in 1..Len(ends)
    BY <1>1, <2>1
  <2> QED
    BY <1>2, <2>2 DEF IsStream, Size, EndOf
<1> QED
  BY <1>1, <1>3, <1>4, <1>5, <1>6, <1>7

\* At the end of a message read_more does not loop.
LEMMA NotAtTheEnd ==
  ASSUME NEW ends, IsStream(ends)
  PROVE  ~SpinsAt(ends, Size(ends))
<1> SUFFICES ASSUME NEW i \in 1..Len(ends), Size(ends) < ends[i]
             PROVE  FALSE
  BY DEF SpinsAt
<1>1. i # 0 /\ i \in 0..Len(ends)
  BY StreamFacts
<1>2. EndOf(ends, i) <= Size(ends) /\ EndOf(ends, i) \in Nat /\ Size(ends) \in Nat
  BY <1>1, StreamFacts
<1> QED
  BY <1>1, <1>2 DEF EndOf

\* A short message that has arrived as a whole is executed.
LEMMA WholeIsExecuted ==
  ASSUME NEW ends, IsStream(ends), Size(ends) <= WriteBuffer
  PROVE  HandleRead(ends, Size(ends)) = "executed"
<1> DEFINE b == Size(ends)
<1>1. b \in Nat /\ b < 1024
  BY StreamFacts DEF WriteBuffer
<1> HIDE DEF b
<1>2. b \div 1024 = 0
  BY <1>1
<1>3. \A p \in PieceEnds(b) : p = b
  BY <1>2 DEF PieceEnds, Piece
<1>4. \A p \in PieceEnds(b) : ~SpinsAt(ends, p)
  BY <1>3, NotAtTheEnd DEF b
<1> QED
  BY <1>1, <1>4 DEF HandleRead, b

LEMMA ExecutedIsWhole ==
  ASSUME NEW ends, NEW b, HandleRead(ends, b) = "executed"
  PROVE  ~(b < Size(ends))
  BY DEF HandleRead

\* The messages of the calls are streams.
LEMMA CallStreams ==
  ASSUME TypeOK, NEW c \in Caller
  PROVE  IsStream(Request(c)) /\ IsStream(Response(c)) /\ Request(c) # <<>>
  BY MessageAssumption DEF TypeOK, Request, Response

-----------------------------------------------------------------------------
(* What a step leaves alone *)

\* The call of c does not go on, or not further than its handler's end.
Untouched(c) ==
  /\ call'[c] = call[c] /\ pc'[c] = pc[c] /\ frame'[c] = frame[c]
  /\ buffered'[c] = buffered[c] /\ sent'[c] = sent[c] /\ got'[c] = got[c]
  /\ taken'[c] = taken[c] /\ executed'[c] = executed[c] /\ reply'[c] = reply[c]
  /\ processing'[c] => processing[c]

LEMMA UntouchedOK ==
  ASSUME NEW c \in Caller, CallOK(c), Untouched(c)
  PROVE  CallOK(c)'
  BY DEF CallOK, Untouched, Request, Response

LEMMA InitIInv == Init => IInv
<1> SUFFICES ASSUME Init PROVE IInv
  OBVIOUS
<1>1. TypeOK
  BY DEF Init, TypeOK
<1>2. ASSUME NEW c \in Caller PROVE CallOK(c)
  <2>1. Len(Request(c)) \in Nat /\ Size(Request(c)) \in Nat
    BY <1>1, CallStreams, StreamFacts
  <2> QED
    BY <2>1 DEF Init, CallOK, EndOf
<1> QED
  BY <1>1, <1>2 DEF IInv

\* The numbers of a call, and of its messages.
LEMMA CallNumbers ==
  ASSUME TypeOK, NEW c \in Caller
  PROVE  /\ frame[c] \in Nat /\ buffered[c] \in Nat /\ sent[c] \in Nat /\ got[c] \in Nat
         /\ taken[c] \in Nat /\ executed[c] \in Nat /\ reply[c] \in Nat
         /\ processing[c] \in BOOLEAN
         /\ Len(Request(c)) \in Nat /\ Size(Request(c)) \in Nat /\ Size(Request(c)) > 0
         /\ Size(Response(c)) \in Nat
         /\ Response(c) # <<>> => Size(Response(c)) > 0
<1>1. IsStream(Request(c)) /\ IsStream(Response(c)) /\ Request(c) # <<>>
  BY CallStreams
<1> QED
  BY <1>1, StreamFacts DEF TypeOK

-----------------------------------------------------------------------------
(* The steps of the caller *)

LEMMA CallRemoteIInv ==
  ASSUME IInv, NEW c \in Caller, NEW m \in Message, call_remote(c, m)
  PROVE  IInv' /\ LongOnly
<1>1. TypeOK
  BY DEF IInv
<1>2. TypeOK'
  BY <1>1 DEF call_remote, TypeOK
<1>3. /\ frame'[c] = 0 /\ buffered'[c] = 0 /\ sent'[c] = 0 /\ got'[c] = 0
      /\ taken'[c] = 0 /\ executed'[c] = 0 /\ reply'[c] = 0
      /\ pc'[c] # "done" /\ ~processing'[c]
  BY <1>1 DEF call_remote, TypeOK
<1>4. Len(Request(c))' \in Nat /\ Size(Request(c))' \in Nat /\ Size(Request(c))' > 0
  <2>1. Request(c)' = m.request
    BY <1>1 DEF Request, call_remote, TypeOK
  <2>2. IsStream(m.request) /\ m.request # <<>>
    BY MessageAssumption
  <2> QED
    BY <2>1, <2>2, StreamFacts
<1>5. CallOK(c)'
  BY <1>3, <1>4 DEF CallOK, EndOf
<1>6. ASSUME NEW d \in Caller, d # c PROVE CallOK(d)'
  <2>1. Untouched(d)
    BY <1>1, <1>6 DEF Untouched, call_remote, TypeOK
  <2> QED
    BY <2>1, UntouchedOK DEF IInv
<1>7. LongOnly
  BY DEF LongOnly, call_remote
<1> QED
  BY <1>2, <1>5, <1>6, <1>7 DEF IInv

\* What a frame adds, and that the frames of a short message all fit.
LEMMA WriteFacts ==
  ASSUME IInv, NEW c \in Caller, write_virt(c)
  PROVE  /\ FrameSize(c) \in Nat /\ FrameSize(c) > 0
         /\ EndOf(Request(c), frame[c]) + FrameSize(c) = EndOf(Request(c), frame[c] + 1)
         /\ EndOf(Request(c), frame[c] + 1) <= Size(Request(c))
         /\ frame[c] + 1 <= Len(Request(c))
<1>1. TypeOK
  BY DEF IInv
<1>2. frame[c] \in Nat /\ Len(Request(c)) \in Nat /\ frame[c] < Len(Request(c))
  BY <1>1, CallNumbers DEF write_virt, Request
<1>3. /\ frame[c] \in 0..Len(Request(c)) /\ frame[c] + 1 \in 0..Len(Request(c))
  BY <1>2
<1>4. IsStream(Request(c))
  BY <1>1, CallStreams
<1>5. /\ EndOf(Request(c), frame[c]) \in Nat /\ EndOf(Request(c), frame[c] + 1) \in Nat
      /\ EndOf(Request(c), frame[c] + 1) <= Size(Request(c))
      /\ EndOf(Request(c), frame[c]) + 4 <= EndOf(Request(c), frame[c] + 1)
  BY <1>2, <1>3, <1>4, StreamFacts
<1>6. FrameSize(c) = EndOf(Request(c), frame[c] + 1) - EndOf(Request(c), frame[c])
  BY DEF FrameSize, Request
<1> QED
  BY <1>2, <1>5, <1>6

LEMMA WriteIInv ==
  ASSUME IInv, NEW c \in Caller, write_virt(c)
  PROVE  IInv' /\ LongOnly
<1> DEFINE have == buffered[c]
           len == FrameSize(c)
<1>1. TypeOK /\ CallOK(c)
  BY DEF IInv
<1>2. /\ len \in Nat /\ len > 0
      /\ EndOf(Request(c), frame[c]) + len = EndOf(Request(c), frame[c] + 1)
      /\ EndOf(Request(c), frame[c] + 1) <= Size(Request(c))
      /\ frame[c] + 1 <= Len(Request(c))
  BY WriteFacts
<1>3. /\ frame[c] \in Nat /\ have \in Nat /\ sent[c] \in Nat
      /\ Len(Request(c)) \in Nat /\ Size(Request(c)) \in Nat
  BY <1>1, CallNumbers
<1>4. sent[c] + have = EndOf(Request(c), frame[c])
  BY <1>1 DEF CallOK
<1>5. /\ frame' = [frame EXCEPT ![c] = frame'[c]]
      /\ buffered' = [buffered EXCEPT ![c] = buffered'[c]]
      /\ sent' = [sent EXCEPT ![c] = sent'[c]]
      /\ UNCHANGED <<call, pc, got, lost, caller, server_vars>>
  BY <1>1 DEF write_virt, sends, TypeOK
<1>6. \/ /\ have + len <= 512
         /\ buffered'[c] = have + len /\ sent'[c] = sent[c] /\ frame'[c] = frame[c] + 1
      \/ /\ have + len > 512 /\ have > 0 /\ have + len >= 1024
         /\ buffered'[c] = 0 /\ sent'[c] = sent[c] + have /\ frame'[c] = frame[c]
      \/ /\ have + len > 512 /\ have > 0 /\ have + len < 1024
         /\ buffered'[c] = have + len - 512 /\ sent'[c] = sent[c] + 512
         /\ frame'[c] = frame[c] + 1
      \/ /\ have + len > 512 /\ have = 0
         /\ sent'[c] = sent[c] + len /\ buffered'[c] = have /\ frame'[c] = frame[c] + 1
  <2>1. CASE Fits(have, len)
    BY <1>1, <1>2, <1>3, <2>1 DEF write_virt, sends, Fits, WriteBuffer, TypeOK
  <2>2. CASE ~Fits(have, len) /\ have > 0 /\ have + len >= 2 * WriteBuffer
    BY <1>1, <1>2, <1>3, <2>2 DEF write_virt, sends, Fits, WriteBuffer, TypeOK
  <2>3. CASE ~Fits(have, len) /\ have > 0 /\ ~(have + len >= 2 * WriteBuffer)
    BY <1>1, <1>2, <1>3, <2>3 DEF write_virt, sends, Fits, WriteBuffer, TypeOK
  <2>4. CASE ~Fits(have, len) /\ have = 0
    BY <1>1, <1>2, <1>3, <2>4 DEF write_virt, sends, Fits, WriteBuffer, TypeOK
  <2> QED
    BY <1>3, <2>1, <2>2, <2>3, <2>4
<1> HIDE DEF have, len
<1>7. /\ frame'[c] \in Nat /\ buffered'[c] \in Nat /\ sent'[c] \in Nat
      /\ frame'[c] <= Len(Request(c))
      /\ sent'[c] >= sent[c]
      /\ sent'[c] + buffered'[c] = EndOf(Request(c), frame'[c])
      /\ Size(Request(c)) <= 512 => sent'[c] = sent[c]
  <2>1. /\ frame'[c] \in Nat /\ buffered'[c] \in Nat /\ sent'[c] \in Nat
        /\ sent'[c] >= sent[c]
    <3>1. len \in Nat /\ have \in Nat /\ sent[c] \in Nat /\ frame[c] \in Nat
      BY <1>2, <1>3
    <3>2. frame'[c] \in Nat
      BY <1>6, <3>1
    <3>3. sent'[c] \in Nat /\ sent'[c] >= sent[c]
      BY <1>6, <3>1
    <3>4. buffered'[c] \in Nat
      <4>1. CASE have + len <= 512
        BY <1>6, <3>1, <4>1
      <4>2. CASE have + len > 512
        BY <1>6, <3>1, <4>2
      <4> QED
        BY <3>1, <4>1, <4>2
    <3> QED
      BY <3>2, <3>3, <3>4
  <2>2. CASE frame'[c] = frame[c] + 1
    <3>1. sent'[c] + buffered'[c] = sent[c] + have + len
      BY <1>2, <1>3, <1>6, <2>2
    <3>2. sent[c] + have + len = EndOf(Request(c), frame'[c])
      BY <1>2, <1>4, <2>2
    <3>3. EndOf(Request(c), frame'[c]) <= Size(Request(c)) /\ frame'[c] <= Len(Request(c))
      BY <1>2, <2>2
    <3>4. sent[c] + have + len <= Size(Request(c))
      BY <3>2, <3>3
    <3>5. Size(Request(c)) <= 512 => have + len <= 512
      BY <1>2, <1>3, <3>4
    <3>6. Size(Request(c)) <= 512 => sent'[c] = sent[c]
      BY <1>2, <1>3, <1>6, <3>5
    <3> QED
      BY <2>1, <3>1, <3>2, <3>3, <3>6
  <2>3. CASE frame'[c] # frame[c] + 1
    <3>1. /\ have + len > 512
          /\ buffered'[c] = 0 /\ sent'[c] = sent[c] + have /\ frame'[c] = frame[c]
      BY <1>6, <2>3
    <3>2. sent[c] + have + len <= Size(Request(c))
      BY <1>2, <1>4
    <3>3. ~(Size(Request(c)) <= 512)
      BY <1>2, <1>3, <3>1, <3>2
    <3>4. sent'[c] + buffered'[c] = EndOf(Request(c), frame'[c])
      BY <1>3, <1>4, <3>1
    <3>5. frame'[c] <= Len(Request(c))
      BY <1>2, <1>3, <3>1
    <3> QED
      BY <2>1, <3>3, <3>4, <3>5
  <2> QED
    BY <2>2, <2>3
<1>8. TypeOK'
  BY <1>1, <1>5, <1>7 DEF TypeOK, server_vars
<1>9. CallOK(c)'
  <2>1. /\ Request(c)' = Request(c) /\ Response(c)' = Response(c) /\ call' = call
        /\ pc' = pc /\ got' = got /\ taken' = taken /\ processing' = processing
        /\ executed' = executed /\ reply' = reply
    BY <1>5 DEF Request, Response, server_vars
  <2>2. taken[c] \in Nat /\ taken[c] <= sent[c]
    BY <1>1, CallNumbers DEF CallOK
  <2>3. taken'[c] <= sent'[c]
    BY <1>3, <1>7, <2>1, <2>2
  <2> QED
    BY <1>1, <1>7, <2>1, <2>3 DEF CallOK, WriteBuffer
<1>10. ASSUME NEW d \in Caller, d # c PROVE CallOK(d)'
  <2>1. Untouched(d)
    BY <1>1, <1>5, <1>10 DEF Untouched, TypeOK, server_vars
  <2> QED
    BY <2>1, UntouchedOK DEF IInv
<1>11. LongOnly
  BY <1>5 DEF LongOnly, server_vars
<1> QED
  BY <1>8, <1>9, <1>10, <1>11 DEF IInv

LEMMA FlushIInv ==
  ASSUME IInv, NEW c \in Caller, flush(c)
  PROVE  IInv' /\ LongOnly
<1>1. TypeOK /\ CallOK(c)
  BY DEF IInv
<1>2. /\ frame[c] = Len(Request(c))
      /\ sent' = [sent EXCEPT ![c] = sent[c] + buffered[c]]
      /\ buffered' = [buffered EXCEPT ![c] = 0]
      /\ pc' = [pc EXCEPT ![c] = IF Oneway(call[c]) THEN "done" ELSE "read"]
      /\ UNCHANGED <<call, frame, got, lost, caller, server_vars>>
  BY DEF flush, sends, Request
<1>3. /\ sent[c] \in Nat /\ buffered[c] \in Nat /\ taken[c] \in Nat
      /\ Len(Request(c)) \in Nat /\ Size(Request(c)) \in Nat
  BY <1>1, CallNumbers
<1>4. sent'[c] = sent[c] + buffered[c] /\ buffered'[c] = 0
  BY <1>1, <1>2 DEF TypeOK
<1>5. sent'[c] = Size(Request(c))
  BY <1>1, <1>2, <1>4 DEF CallOK, Size
<1>6. TypeOK'
  BY <1>1, <1>2, <1>3 DEF TypeOK, server_vars
<1>7. pc'[c] = "done" => Oneway(call[c])
  BY <1>1, <1>2 DEF TypeOK
<1>8. CallOK(c)'
  <2>1. /\ Request(c)' = Request(c) /\ Response(c)' = Response(c) /\ call' = call
        /\ frame' = frame /\ got' = got /\ taken' = taken /\ processing' = processing
        /\ executed' = executed /\ reply' = reply
    BY <1>2 DEF Request, Response, server_vars
  <2>2. taken'[c] <= sent'[c]
    BY <1>1, <1>3, <1>4, <2>1 DEF CallOK
  <2>3. sent'[c] + buffered'[c] = EndOf(Request(c), frame[c])
    BY <1>2, <1>3, <1>4, <1>5 DEF Size
  <2> QED
    BY <1>1, <1>5, <1>7, <2>1, <2>2, <2>3 DEF CallOK
<1>9. ASSUME NEW d \in Caller, d # c PROVE CallOK(d)'
  <2>1. Untouched(d)
    BY <1>1, <1>2, <1>9 DEF Untouched, TypeOK, server_vars
  <2> QED
    BY <2>1, UntouchedOK DEF IInv
<1>10. LongOnly
  BY <1>2 DEF LongOnly, server_vars
<1> QED
  BY <1>6, <1>8, <1>9, <1>10 DEF IInv

LEMMA ReadIInv ==
  ASSUME IInv, NEW c \in Caller, read(c)
  PROVE  IInv' /\ LongOnly
<1> DEFINE n == IF reply[c] - got[c] > ReadBuffer THEN ReadBuffer ELSE reply[c] - got[c]
           p == got[c] + n
           spins == SpinsAt(Response(c), p)
<1>1. TypeOK /\ CallOK(c)
  BY DEF IInv
<1>2. /\ pc[c] = "read" /\ n > 0
      /\ got' = [got EXCEPT ![c] = p]
      /\ UNCHANGED <<call, frame, buffered, sent, lost, server_vars>>
      /\ \/ spins /\ caller' = "stuck" /\ pc' = pc
         \/ /\ ~spins /\ caller' = caller
            /\ pc' = [pc EXCEPT ![c] = IF p = Size(Response(c)) THEN "done" ELSE @]
  BY DEF read, Response
<1>3. /\ got[c] \in Nat /\ reply[c] \in Nat /\ got[c] <= reply[c]
      /\ Size(Response(c)) \in Nat
  BY <1>1, CallNumbers DEF CallOK
<1>4. /\ p \in Nat /\ p > got[c] /\ p <= reply[c]
      /\ reply[c] <= 512 => p = reply[c]
  BY <1>2, <1>3 DEF ReadBuffer
<1>5. reply[c] = Size(Response(c)) /\ executed[c] = 1
  BY <1>1, <1>3, <1>4 DEF CallOK
<1>6. Size(Response(c)) <= 512 => p = Size(Response(c)) /\ ~spins
  <2>1. SUFFICES ASSUME Size(Response(c)) <= 512
                 PROVE  p = Size(Response(c)) /\ ~spins
    OBVIOUS
  <2>2. p = Size(Response(c))
    BY <1>4, <1>5, <2>1
  <2>3. IsStream(Response(c))
    BY <1>1, CallStreams
  <2> QED
    BY <2>2, <2>3, NotAtTheEnd
<1> HIDE DEF n, p, spins
<1>7. got'[c] = p
  BY <1>1, <1>2 DEF TypeOK
<1>8. pc' \in [Caller -> {"idle", "write", "read", "done", "failed"}]
  BY <1>1, <1>2 DEF TypeOK
<1>9. TypeOK'
  BY <1>1, <1>2, <1>4, <1>8 DEF TypeOK, server_vars
<1>10. CallOK(c)'
  <2>1. /\ Request(c)' = Request(c) /\ Response(c)' = Response(c)
        /\ UNCHANGED <<call, frame, buffered, sent, taken, processing, executed, reply>>
    BY <1>2 DEF Request, Response, server_vars
  <2>2. got'[c] <= reply[c] /\ (Size(Response(c)) <= 512 => got'[c] = Size(Response(c)))
    BY <1>4, <1>6, <1>7
  <2> QED
    BY <1>1, <1>5, <2>1, <2>2 DEF CallOK, ReadBuffer
<1>11. ASSUME NEW d \in Caller, d # c PROVE CallOK(d)'
  <2>1. Untouched(d)
    BY <1>1, <1>2, <1>11 DEF Untouched, TypeOK, server_vars
  <2> QED
    BY <2>1, UntouchedOK DEF IInv
<1>12. LongOnly
  <2>1. server' = server
    BY <1>2 DEF server_vars
  <2>2. caller' # caller => got'[c] # got[c] /\ Size(call[c].reply) > ReadBuffer
    BY <1>2, <1>3, <1>4, <1>6, <1>7 DEF Response, ReadBuffer
  <2> QED
    BY <2>1, <2>2 DEF LongOnly
<1> QED
  BY <1>9, <1>10, <1>11, <1>12 DEF IInv

LEMMA CallFailsIInv ==
  ASSUME IInv, NEW c \in Caller, call_fails(c)
  PROVE  IInv' /\ LongOnly
<1>1. TypeOK
  BY DEF IInv
<1>2. /\ pc' = [pc EXCEPT ![c] = "failed"]
      /\ UNCHANGED <<call, frame, buffered, sent, got, lost, caller, server_vars>>
  BY DEF call_fails
<1>3. TypeOK'
  BY <1>1, <1>2 DEF TypeOK, server_vars
<1>4. ASSUME NEW d \in Caller PROVE CallOK(d)'
  BY <1>1, <1>2 DEF IInv, CallOK, TypeOK, server_vars, Request, Response
<1>5. LongOnly
  BY <1>2 DEF LongOnly, server_vars
<1> QED
  BY <1>3, <1>4, <1>5 DEF IInv

-----------------------------------------------------------------------------
(* The steps of the called daemon *)

\* One recv takes a short request as a whole, and never more than was sent.
LEMMA ReceiveFacts ==
  ASSUME IInv, NEW c \in Caller,
         NEW n, n = (IF sent[c] - taken[c] > RecvBuffer THEN RecvBuffer ELSE sent[c] - taken[c]),
         n > 0
  PROVE  /\ n \in Nat /\ taken[c] + n \in Nat /\ taken[c] + n <= sent[c]
         /\ sent[c] <= Size(Request(c)) /\ executed[c] = 0
         /\ Size(Request(c)) <= WriteBuffer => taken[c] + n = Size(Request(c))
<1>1. TypeOK /\ CallOK(c)
  BY DEF IInv
<1>2. /\ frame[c] \in Nat /\ buffered[c] \in Nat /\ sent[c] \in Nat /\ taken[c] \in Nat
      /\ executed[c] \in Nat /\ Len(Request(c)) \in Nat /\ Size(Request(c)) \in Nat
  BY <1>1, CallNumbers
<1>3. n \in Nat /\ taken[c] + n \in Nat /\ taken[c] + n <= sent[c]
  BY <1>1, <1>2 DEF RecvBuffer
<1>4. sent[c] <= Size(Request(c))
  <2>1. IsStream(Request(c)) /\ frame[c] \in 0..Len(Request(c))
    BY <1>1, <1>2, CallStreams DEF CallOK
  <2>2. EndOf(Request(c), frame[c]) <= Size(Request(c)) /\ EndOf(Request(c), frame[c]) \in Nat
    BY <2>1, StreamFacts
  <2> QED
    BY <1>1, <1>2, <2>2 DEF CallOK
<1>5. executed[c] = 0
  BY <1>1, <1>2, <1>3, <1>4 DEF CallOK
<1>6. Size(Request(c)) <= WriteBuffer => taken[c] + n = Size(Request(c))
  <2>1. SUFFICES ASSUME Size(Request(c)) <= 512 PROVE taken[c] + n = Size(Request(c))
    BY DEF WriteBuffer
  <2>2. sent[c] = Size(Request(c))
    BY <1>1, <1>2, <1>3, <2>1 DEF CallOK, WriteBuffer
  <2>3. n = sent[c] - taken[c]
    BY <1>2, <2>1, <2>2 DEF RecvBuffer
  <2> QED
    BY <1>2, <2>2, <2>3
<1> QED
  BY <1>3, <1>4, <1>5, <1>6

\* When the process ends nothing of a call goes on.
LEMMA EndsOK ==
  ASSUME IInv, NEW how \in {"aborted", "killed"}, ends_as(how)
  PROVE  /\ server' \in {"up", "stuck", "aborted", "killed"}
         /\ node' \in [Caller -> BOOLEAN] /\ lost' \in [Caller -> BOOLEAN]
         /\ processing' \in [Caller -> BOOLEAN]
         /\ \A c \in Caller : ~processing'[c]
  BY DEF ends_as, IInv, TypeOK

LEMMA HandleEventIInv ==
  ASSUME IInv, NEW c \in Caller, handleEvent(c)
  PROVE  IInv' /\ LongOnly
<1> DEFINE n == IF sent[c] - taken[c] > RecvBuffer THEN RecvBuffer ELSE sent[c] - taken[c]
           b == taken[c] + n
           result == HandleRead(Request(c), b)
<1>1. TypeOK /\ CallOK(c)
  BY DEF IInv
<1>2. /\ server = "up" /\ n > 0
      /\ taken' = [taken EXCEPT ![c] = b]
      /\ UNCHANGED <<call, pc, frame, buffered, sent, got, caller, reply>>
  BY <1>1 DEF handleEvent, TypeOK
<1>3. \/ /\ result = "executed"
         /\ processing' = [processing EXCEPT ![c] = TRUE]
         /\ executed' = [executed EXCEPT ![c] = executed[c] + 1]
         /\ UNCHANGED <<node, lost, server>>
      \/ /\ result = "stuck" /\ server' = "stuck"
         /\ UNCHANGED <<node, processing, executed, lost>>
      \/ /\ result = "aborted" /\ ends_as("aborted") /\ executed' = executed
  BY DEF handleEvent, Request
<1>4. /\ n \in Nat /\ b \in Nat /\ b <= sent[c]
      /\ sent[c] <= Size(Request(c)) /\ executed[c] = 0
      /\ Size(Request(c)) <= WriteBuffer => b = Size(Request(c))
  BY <1>2, ReceiveFacts
<1>5. sent[c] \in Nat /\ taken[c] \in Nat /\ Size(Request(c)) \in Nat
  BY <1>1, CallNumbers
<1>6. result = "executed" => b = Size(Request(c))
  BY <1>4, <1>5, ExecutedIsWhole
<1>7. Size(Request(c)) <= WriteBuffer => result = "executed"
  <2>1. IsStream(Request(c))
    BY <1>1, CallStreams
  <2> QED
    BY <1>4, <2>1, WholeIsExecuted
<1>8. b # taken[c]
  BY <1>2, <1>4, <1>5
<1> HIDE DEF n, b, result
<1>9. taken'[c] = b /\ taken' \in [Caller -> Nat]
  BY <1>1, <1>2, <1>4 DEF TypeOK
<1>10. /\ processing' \in [Caller -> BOOLEAN] /\ executed' \in [Caller -> Nat]
       /\ node' \in [Caller -> BOOLEAN] /\ lost' \in [Caller -> BOOLEAN]
       /\ server' \in {"up", "stuck", "aborted", "killed"}
       /\ processing'[c] => processing[c] \/ result = "executed"
       /\ executed'[c] = IF result = "executed" THEN 1 ELSE 0
       /\ \A d \in Caller \ {c} : executed'[d] = executed[d] /\ (processing'[d] => processing[d])
  <2>1. CASE result = "executed"
    <3>1. executed' = [executed EXCEPT ![c] = 1]
      BY <1>3, <1>4, <2>1
    <3> QED
      BY <1>1, <1>3, <2>1, <3>1 DEF TypeOK
  <2>2. CASE result = "stuck"
    BY <1>1, <1>3, <1>4, <2>2 DEF TypeOK
  <2>3. CASE result = "aborted"
    BY <1>1, <1>3, <1>4, <2>3, EndsOK DEF TypeOK
  <2> QED
    BY <1>3, <2>1, <2>2, <2>3
<1>11. TypeOK'
  BY <1>1, <1>2, <1>9, <1>10 DEF TypeOK
<1>12. CallOK(c)'
  <2>1. /\ Request(c)' = Request(c) /\ Response(c)' = Response(c)
        /\ UNCHANGED <<call, pc, frame, buffered, sent, got, reply>>
    BY <1>2 DEF Request, Response
  <2>2. ~processing[c] /\ reply[c] = 0 /\ ~(pc[c] = "done" /\ ~Oneway(call[c]))
    BY <1>1, <1>4 DEF CallOK
  <2>3. executed'[c] \in {0, 1} /\ (executed'[c] = 1 => b = Size(Request(c)))
    BY <1>6, <1>10
  <2>4. processing'[c] => executed'[c] = 1
    BY <1>10, <2>2
  <2> QED
    BY <1>1, <1>4, <1>9, <2>1, <2>2, <2>3, <2>4 DEF CallOK
<1>13. ASSUME NEW d \in Caller, d # c PROVE CallOK(d)'
  <2>1. Untouched(d)
    BY <1>1, <1>2, <1>10, <1>13 DEF Untouched, TypeOK
  <2> QED
    BY <2>1, UntouchedOK DEF IInv
<1>14. LongOnly
  <2>1. server' # server => ~(Size(Request(c)) <= WriteBuffer)
    BY <1>3, <1>7
  <2>2. server' # server => taken'[c] # taken[c] /\ Size(call[c].request) > WriteBuffer
    BY <1>5, <1>8, <1>9, <2>1 DEF Request, WriteBuffer
  <2> QED
    BY <1>2, <2>2 DEF LongOnly
<1> QED
  BY <1>11, <1>12, <1>13, <1>14 DEF IInv

LEMMA SendReplyIInv ==
  ASSUME IInv, NEW c \in Caller, send_reply(c)
  PROVE  IInv' /\ LongOnly
<1>1. TypeOK /\ CallOK(c)
  BY DEF IInv
<1>2. /\ processing[c]
      /\ processing' = [processing EXCEPT ![c] = FALSE]
      /\ reply' = [reply EXCEPT ![c] = Size(Response(c))]
      /\ UNCHANGED <<client_vars, node, taken, executed, server>>
  BY DEF send_reply, Response
<1>3. /\ Size(Response(c)) \in Nat /\ got[c] \in Nat /\ executed[c] = 1
      /\ reply[c] \in {0, Size(Response(c))}
  BY <1>1, <1>2, CallNumbers DEF CallOK
<1>4. TypeOK'
  BY <1>1, <1>2, <1>3 DEF TypeOK, client_vars
<1>5. CallOK(c)'
  <2>1. /\ Request(c)' = Request(c) /\ Response(c)' = Response(c)
        /\ UNCHANGED <<call, pc, frame, buffered, sent, got, taken, executed>>
    BY <1>2 DEF Request, Response, client_vars
  <2>2. reply'[c] = Size(Response(c)) /\ ~processing'[c]
    BY <1>1, <1>2 DEF TypeOK
  <2>3. got[c] <= Size(Response(c))
    BY <1>1, <1>3 DEF CallOK
  <2> QED
    BY <1>1, <1>3, <2>1, <2>2, <2>3 DEF CallOK
<1>6. ASSUME NEW d \in Caller, d # c PROVE CallOK(d)'
  <2>1. Untouched(d)
    BY <1>1, <1>2, <1>6 DEF Untouched, TypeOK, client_vars
  <2> QED
    BY <2>1, UntouchedOK DEF IInv
<1>7. LongOnly
  BY <1>2 DEF LongOnly, client_vars
<1> QED
  BY <1>4, <1>5, <1>6, <1>7 DEF IInv

\* Connections come and go, and the process with them.
LEMMA OutsideIInv ==
  ASSUME IInv,
         (\E c \in Caller : accept(c) \/ close_data_node(c)) \/ is_killed \/ is_restarted
           \/ UNCHANGED vars
  PROVE  IInv' /\ LongOnly
<1>1. TypeOK
  BY DEF IInv
<1>2. /\ UNCHANGED <<call, pc, frame, buffered, sent, got, caller, taken, executed, reply>>
      /\ \A c \in Caller : processing'[c] => processing[c]
      /\ server' \in {"up", "killed"} \/ server' = server
  BY EndsOK DEF accept, close_data_node, is_killed, is_restarted, ends_as, vars,
                client_vars, server_vars
<1>3. /\ node' \in [Caller -> BOOLEAN] /\ lost' \in [Caller -> BOOLEAN]
      /\ processing' \in [Caller -> BOOLEAN]
  <2>1. CASE \E c \in Caller : accept(c) \/ close_data_node(c)
    BY <1>1, <2>1 DEF accept, close_data_node, TypeOK, client_vars
  <2>2. CASE is_killed
    BY <2>2, EndsOK DEF is_killed
  <2>3. CASE is_restarted \/ UNCHANGED vars
    BY <1>1, <2>3 DEF is_restarted, vars, client_vars, server_vars, TypeOK
  <2> QED
    BY <2>1, <2>2, <2>3
<1>4. TypeOK'
  BY <1>1, <1>2, <1>3 DEF TypeOK
<1>5. ASSUME NEW d \in Caller PROVE CallOK(d)'
  <2>1. Untouched(d)
    BY <1>2 DEF Untouched
  <2> QED
    BY <2>1, UntouchedOK DEF IInv
<1>6. LongOnly
  BY <1>2 DEF LongOnly
<1> QED
  BY <1>4, <1>5, <1>6 DEF IInv

-----------------------------------------------------------------------------
(* What follows *)

LEMMA NextIInv == IInv /\ [Next]_vars => IInv' /\ LongOnly
<1> SUFFICES ASSUME IInv, [Next]_vars PROVE IInv' /\ LongOnly
  OBVIOUS
<1>1. ASSUME NEW c \in Caller, client(c)
      PROVE  IInv' /\ LongOnly
  BY <1>1, WriteIInv, FlushIInv, ReadIInv, CallFailsIInv DEF client
<1>2. ASSUME NEW c \in Caller, NEW m \in Message, call_remote(c, m)
      PROVE  IInv' /\ LongOnly
  BY <1>2, CallRemoteIInv
<1>3. ASSUME NEW c \in Caller, handleEvent(c) \/ send_reply(c)
      PROVE  IInv' /\ LongOnly
  BY <1>3, HandleEventIInv, SendReplyIInv
<1>4. CASE (\E c \in Caller : accept(c) \/ close_data_node(c)) \/ is_killed \/ is_restarted
             \/ UNCHANGED vars
  BY <1>4, OutsideIInv
<1> QED
  BY <1>1, <1>2, <1>3, <1>4 DEF Next, handler

\* The invariant holds for any number of callers and any messages, with daemons
\* that are killed and restarted at any time.
THEOREM Inductive == Safe => []IInv
<1>1. Init => IInv
  BY InitIInv
<1>2. IInv /\ [Next]_vars => IInv'
  BY NextIInv
<1> QED
  BY <1>1, <1>2, PTL DEF Safe

\* Calls, connections and daemons are what they should be.
THEOREM TypeCorrect == Safe => []TypeOK
<1>1. IInv => TypeOK
  BY DEF IInv
<1> QED
  BY <1>1, Inductive, PTL

\* The handler of a call runs at most once, and has run when the call returns,
\* however call_remote's bytes are cut and whoever fails.
THEOREM OnceOnly == Safe => []AnsweredOnce
<1>1. IInv => AnsweredOnce
  BY DEF IInv, CallOK, AnsweredOnce
<1> QED
  BY <1>1, Inductive, PTL

\* read_more and the exception nobody catches stop a daemon only over a message
\* that is longer than 512 bytes.
THEOREM ShortIsSafe == Safe => OnlyLongMessagesHarm
<1>1. IInv /\ [Next]_vars => [LongOnly]_vars
  BY NextIInv
<1>2. Safe => [][Next]_vars
  BY DEF Safe
<1>3. Safe => [][LongOnly]_vars
  BY <1>1, <1>2, Inductive, PTL
<1> QED
  BY <1>3 DEF OnlyLongMessagesHarm, LongOnly
=============================================================================
