---------------------------- MODULE FramingProofs ----------------------------
(***************************************************************************)
(* However long messages are and however the streams cut them up, and      *)
(* whatever size a header gives, IncomingBuffer stays within its buffer    *)
(* and the buffer within MAX_INCOMING_FILE_SIZE; the bytes of a connection *)
(* are those of one message at every moment; and what the two ends do on   *)
(* bytes is the exchange of whole messages of module Exchange.             *)
(***************************************************************************)
EXTENDS FramingProperties, SequenceTheorems, TLAPS

\* A part of a sequence of bytes, and the rest of it, are sequences of bytes
\* of the lengths one would think: what m_sent and m_received count.
LEMMA Parts ==
  ASSUME NEW S, NEW s \in Seq(S), NEW n \in 1..Len(s)
  PROVE  /\ SubSeq(s, 1, n) \in Seq(S)
         /\ Len(SubSeq(s, 1, n)) = n
         /\ From(s, n) \in Seq(S)
<1>1. Len(s) \in Nat /\ n \in Nat /\ n >= 1 /\ n <= Len(s)
  OBVIOUS
<1>2. \A i \in 1..n : s[i] \in S
  BY <1>1
<1>3. SubSeq(s, 1, n) \in Seq(S) /\ Len(SubSeq(s, 1, n)) = n
  BY <1>1
<1>4. SubSeq(s, n + 1, Len(s)) \in Seq(S)
  BY <1>1
<1>5. QED
  BY <1>3, <1>4 DEF From

\* Messages have sizes, and are serialized to bytes: set_message() and
\* send_message() write nothing else.
LEMMA Serialized ==
  ASSUME NEW m \in Messages
  PROVE  m.size \in Nat /\ Serialize(m) \in Seq(Bytes)
<1>1. m.size \in Nat
  BY SizesAssumption DEF Messages
<1>2. SizeBytes + m.size \in Nat
  BY <1>1, SizesAssumption
<1>3. \A i \in 1..SizeBytes + m.size : <<m, i>> \in Bytes
  BY <1>2 DEF Bytes
<1>4. Serialize(m) \in [1..SizeBytes + m.size -> Bytes]
  BY <1>3 DEF Serialize
<1>5. QED
  BY <1>1, <1>2, <1>4

\* What is decoded from bytes is a size, and a message or nothing: ntohl()
\* and ParseFromArray() return nothing else.
LEMMA Decoded ==
  ASSUME NEW bytes \in Seq(Bytes)
  PROVE  /\ bytes # <<>> => SizeIn(bytes) \in Nat
         /\ Parse(bytes) \in Messages \cup {Nothing}
<1>1. bytes # <<>> => bytes[1] \in Bytes
  OBVIOUS
<1>2. bytes # <<>> => bytes[1][1] \in Messages
  BY <1>1 DEF Bytes
<1>3. bytes # <<>> => SizeIn(bytes) \in Nat
  BY <1>2, Serialized DEF SizeIn
<1>4. Parse(bytes) \in Messages \cup {Nothing}
  BY <1>2 DEF Parse
<1>5. QED
  BY <1>3, <1>4

-----------------------------------------------------------------------------

\* The worker only has a message's handler run on a message.
HandlesMessage == worker.phase = "handle" => worker.request \in Messages

Inv == TypeOK /\ HandlesMessage /\ WithinBuffer

\* The buffers the two ends start with are within their bounds.
LEMMA InitInv == Init => Inv
<1> SUFFICES ASSUME Init PROVE Inv
  OBVIOUS
<1> USE SizesAssumption, BoundsAssumption
<1>1. <<>> \in Seq(Bytes)
  OBVIOUS
<1>2. worker \in Workers /\ worker.phase = "size"
  BY <1>1 DEF Init, NewMessage, Workers
<1>3. incoming \in IncomingBuffers
  BY <1>1 DEF Init, IncomingBuffers
<1>4. /\ controller = "running" /\ asked = 0 /\ waiting = FALSE /\ learned = Nothing
      /\ outgoing = <<>> /\ c2w = <<>> /\ w2c = <<>>
  BY DEF Init
<1>5. 0 \in 0..Exchanges
  BY BoundsAssumption
<1>10. broken \in BOOLEAN
  BY Zenon DEF Init
<1>6. TypeOK
  BY <1>1, <1>2, <1>3, <1>4, <1>5, <1>10, Zenon DEF TypeOK
<1>7. HandlesMessage
  BY <1>2 DEF HandlesMessage
<1>8. WithinBuffer
  BY DEF Init, WithinBuffer
<1>9. QED
  BY <1>6, <1>7, <1>8 DEF Inv

\* IncomingBuffer::receive() of no more bytes than it asked for, and of a
\* size it accepts, stays within the buffer.
LEMMA ReceivedWithin ==
  ASSUME TypeOK, WithinBuffer,
         NEW bytes \in Seq(Bytes), bytes # <<>>, Len(bytes) <= bytes_left(incoming),
         NEW buffer, buffer = received_here(incoming, bytes)
  PROVE  /\ buffer \in IncomingBuffers
         /\ buffer.m_size <= MAX_INCOMING_FILE_SIZE =>
              /\ buffer.m_capacity <= MAX_INCOMING_FILE_SIZE
              /\ IF buffer.m_have_size
                 THEN Len(buffer.received) <= buffer.m_size /\ buffer.m_size <= buffer.m_capacity
                 ELSE Len(buffer.received) < SizeBytes
<1> DEFINE received == incoming.received \o bytes
<1> USE SizesAssumption
<1>1. incoming \in IncomingBuffers
  BY DEF TypeOK
<1>2. /\ incoming.received \in Seq(Bytes) /\ incoming.m_have_size \in BOOLEAN
      /\ incoming.m_size \in Nat /\ incoming.m_capacity \in Nat
  BY <1>1 DEF IncomingBuffers
<1>3. /\ received \in Seq(Bytes) /\ received # <<>>
      /\ Len(received) = Len(incoming.received) + Len(bytes)
  BY <1>2
<1>s. SizeIn(received) \in Nat
  <2> HIDE DEF received
  <2>1. QED
    BY <1>3, Decoded, Zenon
<1>4. Len(incoming.received) \in Nat /\ Len(bytes) \in Nat /\ SizeIn(received) \in Nat
  BY <1>2, <1>s
<1>5. CASE incoming.m_have_size \/ Len(received) < SizeBytes
  <2>1. buffer = [incoming EXCEPT !.received = received]
    BY <1>5 DEF received_here
  <2>2. /\ buffer \in IncomingBuffers /\ buffer.received = received
        /\ buffer.m_have_size = incoming.m_have_size /\ buffer.m_size = incoming.m_size
        /\ buffer.m_capacity = incoming.m_capacity
    BY <1>1, <1>3, <2>1 DEF IncomingBuffers
  <2>3. CASE incoming.m_have_size
    <3>1. Len(received) <= incoming.m_size
      BY <1>2, <1>3, <1>4, <2>3 DEF bytes_left
    <3>2. QED
      BY <2>2, <2>3, <3>1 DEF WithinBuffer
  <2>4. CASE ~incoming.m_have_size
    BY <1>5, <2>2, <2>4 DEF WithinBuffer
  <2>5. QED
    BY <2>3, <2>4
<1>6. CASE ~(incoming.m_have_size \/ Len(received) < SizeBytes)
  <2> DEFINE size == SizeIn(received)
             capacity == IF incoming.m_capacity < size THEN size ELSE incoming.m_capacity
  <2>1. buffer = [m_have_size |-> TRUE, m_size |-> size, received |-> <<>>,
                  m_capacity |-> capacity]
    BY <1>6 DEF received_here
  <2>2. capacity \in Nat /\ size <= capacity
    BY <1>2, <1>4
  <2>3. size <= MAX_INCOMING_FILE_SIZE => capacity <= MAX_INCOMING_FILE_SIZE
    BY <1>2, <1>4 DEF WithinBuffer
  <2>4. Len(<<>>) = 0 /\ <<>> \in Seq(Bytes)
    OBVIOUS
  <2>5. buffer \in IncomingBuffers
    BY <1>4, <2>1, <2>2, <2>4 DEF IncomingBuffers
  <2> HIDE DEF size, capacity
  <2>6. size \in Nat
    BY <1>4 DEF size
  <2>7. QED
    BY <2>1, <2>2, <2>3, <2>4, <2>5, <2>6
<1>7. QED
  BY <1>5, <1>6

\* IncomingBuffer::reset() leaves the buffer as large as it was.
LEMMA ResetWithin ==
  ASSUME NEW buffer \in IncomingBuffers
  PROVE  /\ reset(buffer) \in IncomingBuffers
         /\ ~reset(buffer).m_have_size
         /\ Len(reset(buffer).received) = 0
         /\ reset(buffer).m_capacity = buffer.m_capacity
<1>1. Len(<<>>) = 0 /\ <<>> \in Seq(Bytes)
  OBVIOUS
<1>2. QED
  BY <1>1 DEF reset, IncomingBuffers

\* Everything else the two ends and the streams do keeps the types.
LEMMA NextInv == Inv /\ [Next]_vars => Inv'
<1> SUFFICES ASSUME Inv, [Next]_vars PROVE Inv'
  OBVIOUS
<1> USE SizesAssumption, BoundsAssumption
<1>t. TypeOK /\ HandlesMessage /\ WithinBuffer
  BY DEF Inv
<1>s. /\ outgoing \in Seq(Bytes) /\ c2w \in Seq(Bytes) /\ w2c \in Seq(Bytes)
      /\ incoming \in IncomingBuffers /\ worker \in Workers
  BY <1>t DEF TypeOK
<1>w. /\ worker.received \in Seq(Bytes) /\ worker.left \in Seq(Bytes)
      /\ worker.size \in Nat /\ worker.request \in Messages \cup {Nothing}
  BY <1>s DEF Workers
<1>1. ASSUME NEW size \in RequestSizes, Ask(size) PROVE Inv'
  <2> DEFINE request == [kind |-> "request", number |-> asked + 1, size |-> size]
  <2>1. asked + 1 \in 1..Exchanges
    BY <1>1, <1>t DEF Ask, TypeOK
  <2>2. request \in Messages
    BY <2>1 DEF Messages
  <2>3. Serialize(request) \in Seq(Bytes)
    BY <2>2, Serialized
  <2>4. TypeOK'
    BY <1>1, <1>t, <1>s, <2>1, <2>3, ResetWithin DEF Ask, TypeOK
  <2>5. WithinBuffer'
    BY <1>1, <1>t, <1>s, ResetWithin DEF Ask, WithinBuffer
  <2>6. HandlesMessage'
    BY <1>1, <1>t DEF Ask, HandlesMessage
  <2>7. QED
    BY <2>4, <2>5, <2>6 DEF Inv
<1>2. ASSUME NEW n \in 1..Len(outgoing), Send(n) PROVE Inv'
  <2>1. SubSeq(outgoing, 1, n) \in Seq(Bytes) /\ From(outgoing, n) \in Seq(Bytes)
    BY <1>s, Parts
  <2>2. c2w' \in Seq(Bytes) /\ outgoing' \in Seq(Bytes)
    BY <1>2, <1>s, <2>1 DEF Send
  <2>3. TypeOK'
    BY <1>2, <1>t, <2>2 DEF Send, TypeOK
  <2>4. HandlesMessage' /\ WithinBuffer'
    BY <1>2, <1>t DEF Send, HandlesMessage, WithinBuffer
  <2>5. QED
    BY <2>3, <2>4 DEF Inv
<1>3. ASSUME NEW n \in 1..Len(w2c), Receive(n) PROVE Inv'
  <2> DEFINE bytes == SubSeq(w2c, 1, n)
             buffer == received_here(incoming, bytes)
  <2>1. bytes \in Seq(Bytes) /\ Len(bytes) = n /\ From(w2c, n) \in Seq(Bytes)
    BY <1>s, Parts
  <2>2. bytes # <<>> /\ Len(bytes) <= bytes_left(incoming)
    BY <1>3, <2>1 DEF Receive
  <2> HIDE DEF bytes
  <2>3. /\ buffer \in IncomingBuffers
        /\ buffer.m_size <= MAX_INCOMING_FILE_SIZE =>
             /\ buffer.m_capacity <= MAX_INCOMING_FILE_SIZE
             /\ IF buffer.m_have_size
                THEN Len(buffer.received) <= buffer.m_size /\ buffer.m_size <= buffer.m_capacity
                ELSE Len(buffer.received) < SizeBytes
    BY <1>t, <2>1, <2>2, ReceivedWithin
  <2>4. /\ w2c' \in Seq(Bytes)
        /\ UNCHANGED <<asked, outgoing, c2w, worker, broken>>
    BY <1>3, <2>1 DEF Receive
  <2>5. HandlesMessage'
    BY <1>t, <2>4 DEF HandlesMessage
  <2>6. /\ controller' \in {"running", "oversize", "garbled"}
        /\ waiting' \in BOOLEAN
        /\ learned' \in Messages \cup {Nothing}
        /\ \/ incoming' = incoming
           \/ incoming' = buffer /\ ~(buffer.m_size > MAX_INCOMING_FILE_SIZE)
           \/ incoming' = reset(buffer) /\ ~(buffer.m_size > MAX_INCOMING_FILE_SIZE)
    <3>1. buffer.received \in Seq(Bytes)
      BY <2>3 DEF IncomingBuffers
    <3>2. Parse(buffer.received) \in Messages \cup {Nothing}
      BY <3>1, Decoded
    <3>3. controller = "running" /\ waiting \in BOOLEAN /\ learned \in Messages \cup {Nothing}
      BY <1>3, <1>t DEF Receive, TypeOK
    <3>4. \/ controller' = "oversize" /\ UNCHANGED <<waiting, learned, incoming>>
          \/ /\ ~(buffer.m_size > MAX_INCOMING_FILE_SIZE)
             /\ incoming' = buffer /\ UNCHANGED <<controller, waiting, learned>>
          \/ /\ ~(buffer.m_size > MAX_INCOMING_FILE_SIZE)
             /\ learned' = Parse(buffer.received)
             /\ controller' = IF learned' = Nothing THEN "garbled" ELSE controller
             /\ incoming' = reset(buffer)
             /\ waiting' = FALSE
      BY <1>3 DEF Receive, bytes
    <3> HIDE DEF buffer
    <3>5. QED
      BY <3>2, <3>3, <3>4
  <2>7. buffer.m_size \in Nat /\ MAX_INCOMING_FILE_SIZE \in Nat
    BY <2>3 DEF IncomingBuffers
  <2> HIDE DEF buffer
  <2>8. incoming' \in IncomingBuffers
    BY <1>s, <2>3, <2>6, ResetWithin
  <2>9. TypeOK'
    BY <1>t, <2>4, <2>6, <2>8 DEF TypeOK
  <2>10. WithinBuffer'
    <3>1. CASE incoming' = incoming
      BY <1>t, <3>1 DEF WithinBuffer
    <3>2. CASE incoming' = buffer /\ ~(buffer.m_size > MAX_INCOMING_FILE_SIZE)
      BY <2>3, <2>7, <3>2 DEF WithinBuffer
    <3>3. CASE incoming' = reset(buffer) /\ ~(buffer.m_size > MAX_INCOMING_FILE_SIZE)
      <4>1. buffer.m_capacity <= MAX_INCOMING_FILE_SIZE
        BY <2>3, <2>7, <3>3
      <4>2. QED
        BY <2>3, <3>3, <4>1, ResetWithin DEF WithinBuffer
    <3>4. QED
      BY <2>6, <3>1, <3>2, <3>3
  <2>11. QED
    BY <2>5, <2>9, <2>10 DEF Inv
<1>4. ASSUME ReceiveEnd \/ ConnectionFails \/ ControllerEnds PROVE Inv'
  <2>1. /\ controller' \in {"dropped", "gone"}
        /\ UNCHANGED <<asked, waiting, learned, outgoing, incoming, c2w, w2c, worker, broken>>
    BY <1>4 DEF ReceiveEnd, ConnectionFails, ControllerEnds
  <2>2. QED
    BY <1>t, <2>1 DEF Inv, TypeOK, HandlesMessage, WithinBuffer
<1>5. ASSUME NEW n \in 1..Len(c2w), WorkerReceives(n) PROVE Inv'
  <2> DEFINE bytes == SubSeq(c2w, 1, n)
             received == worker.received \o bytes
  <2>1. /\ bytes \in Seq(Bytes) /\ Len(bytes) = n /\ From(c2w, n) \in Seq(Bytes)
    BY <1>s, Parts
  <2> HIDE DEF bytes
  <2>2. received \in Seq(Bytes) /\ received # <<>>
    BY <1>w, <2>1
  <2>3. /\ SizeIn(received) \in Nat
        /\ Parse(received) \in Messages \cup {Nothing}
        /\ <<>> \in Seq(Bytes)
    <3> HIDE DEF received
    <3>1. SizeIn(received) \in Nat /\ Parse(received) \in Messages \cup {Nothing}
      BY <2>2, Decoded, Zenon
    <3>2. QED
      BY <3>1
  <2>4. /\ \/ worker' = [worker EXCEPT !.received = received] /\ worker.phase # "handle"
           \/ worker' = [worker EXCEPT !.phase = "message", !.size = SizeIn(received),
                                       !.received = <<>>]
           \/ worker' = [worker EXCEPT
                           !.phase = IF Parse(received) = Nothing THEN "garbled" ELSE "handle",
                           !.request = Parse(received)]
        /\ UNCHANGED <<controller, asked, waiting, learned, outgoing, incoming, w2c, broken>>
        /\ c2w' \in Seq(Bytes)
    BY <1>5, <2>1 DEF WorkerReceives, WorkerSteps, bytes
  <2> HIDE DEF received
  <2>5. worker' \in Workers
    BY <1>s, <2>2, <2>3, <2>4 DEF Workers
  <2>6. HandlesMessage'
    BY <1>s, <2>3, <2>4 DEF HandlesMessage, Workers
  <2>7. TypeOK' /\ WithinBuffer'
    BY <1>t, <2>4, <2>5 DEF TypeOK, WithinBuffer
  <2>8. QED
    BY <2>6, <2>7 DEF Inv
<1>6. ASSUME WorkerReceivesEnd \/ WorkerEnds PROVE Inv'
  <2>1. /\ \E phase \in {"closed", "short"} : worker' = [worker EXCEPT !.phase = phase]
        /\ UNCHANGED <<controller, asked, waiting, learned, outgoing, incoming, c2w, w2c, broken>>
    BY <1>6 DEF WorkerReceivesEnd, WorkerEnds, WorkerSteps
  <2>2. worker' \in Workers /\ worker'.phase # "handle"
    BY <1>s, <2>1 DEF Workers
  <2>3. QED
    BY <1>t, <2>1, <2>2 DEF Inv, TypeOK, HandlesMessage, WithinBuffer
<1>7. ASSUME NEW size \in ResponseSizes, WorkerHandles(size) PROVE Inv'
  <2> DEFINE response == [kind |-> "response", number |-> worker.request.number, size |-> size]
  <2>1. worker.request \in Messages
    BY <1>7, <1>t DEF WorkerHandles, HandlesMessage
  <2>2. worker.request.number \in 1..Exchanges
    BY <2>1 DEF Messages
  <2>3. response \in Messages
    BY <2>2 DEF Messages
  <2>4. Serialize(response) \in Seq(Bytes)
    BY <2>3, Serialized
  <2>5. /\ worker' = [worker EXCEPT !.phase = "send", !.left = Serialize(response)]
        /\ UNCHANGED <<controller, asked, waiting, learned, outgoing, incoming, c2w, w2c, broken>>
    BY <1>7 DEF WorkerHandles, WorkerSteps
  <2> HIDE DEF response
  <2>6. worker' \in Workers /\ worker'.phase # "handle"
    BY <1>s, <2>4, <2>5 DEF Workers
  <2>7. QED
    BY <1>t, <2>5, <2>6 DEF Inv, TypeOK, HandlesMessage, WithinBuffer
<1>8. ASSUME NEW n \in 1..Len(worker.left), WorkerSends(n) PROVE Inv'
  <2>1. SubSeq(worker.left, 1, n) \in Seq(Bytes) /\ From(worker.left, n) \in Seq(Bytes)
    BY <1>w, Parts
  <2>2. /\ worker' = NewMessage \/ worker' = [worker EXCEPT !.left = From(worker.left, n)]
        /\ worker.phase = "send"
        /\ w2c' = w2c \o SubSeq(worker.left, 1, n)
        /\ UNCHANGED <<controller, asked, waiting, learned, outgoing, incoming, c2w, broken>>
    BY <1>8 DEF WorkerSends, WorkerSteps
  <2>3. w2c' \in Seq(Bytes) /\ <<>> \in Seq(Bytes)
    BY <1>s, <2>1, <2>2
  <2>4. worker' \in Workers /\ worker'.phase # "handle"
    <3>1. NewMessage \in Workers /\ NewMessage.phase = "size"
      BY <2>3 DEF Workers, NewMessage
    <3>2. ASSUME worker' = [worker EXCEPT !.left = From(worker.left, n)]
          PROVE  worker' \in Workers /\ worker'.phase = "send"
      BY <1>s, <2>1, <2>2, <3>2 DEF Workers
    <3>3. QED
      BY <2>2, <3>1, <3>2
  <2>5. QED
    BY <1>t, <2>2, <2>3, <2>4 DEF Inv, TypeOK, HandlesMessage, WithinBuffer
<1>9. CASE Breaks
  BY <1>t, <1>9 DEF Breaks, Inv, TypeOK, HandlesMessage, WithinBuffer
<1>10. CASE UNCHANGED vars
  BY <1>t, <1>10 DEF vars, Inv, TypeOK, HandlesMessage, WithinBuffer
<1>11. QED
  BY <1>1, <1>2, <1>3, <1>4, <1>5, <1>6, <1>7, <1>8, <1>9, <1>10 DEF Next

\* The variables of both ends and of the streams keep their types.
THEOREM TypeCorrect == Spec => []TypeOK
<1>1. Inv => TypeOK
  BY DEF Inv
<1>2. QED
  BY InitInv, NextInv, <1>1, PTL DEF Spec

\* No message, of any size its header may give and in whatever pieces it
\* arrives, is written beyond the end of the buffer, and the buffer never
\* grows beyond MAX_INCOMING_FILE_SIZE.
THEOREM StaysWithinBuffer == Spec => []WithinBuffer
<1>1. Inv => WithinBuffer
  BY DEF Inv
<1>2. QED
  BY InitInv, NextInv, <1>1, PTL DEF Spec

-----------------------------------------------------------------------------
(* Sequences of bytes, cut up and joined again.                            *)

\* Joining is associative.
LEMMA Associative == \A a, b, c \in Seq(Bytes) : (a \o b) \o c = a \o (b \o c)
  BY ConcatAssociative

\* A part taken from one sequence and put at the end of the one before it:
\* what all of them are together stays the same.
LEMMA Moved ==
  ASSUME NEW r \in Seq(Bytes), NEW s \in Seq(Bytes), NEW t \in Seq(Bytes)
  PROVE  /\ \A n \in 1..Len(s) : (r \o SubSeq(s, 1, n)) \o From(s, n) \o t = r \o s \o t
         /\ \A n \in 1..Len(t) : r \o (s \o SubSeq(t, 1, n)) \o From(t, n) = r \o s \o t
<1>1. ASSUME NEW u \in Seq(Bytes), NEW n \in 1..Len(u)
      PROVE  SubSeq(u, 1, n) \o From(u, n) = u
  <2>1. Len(u) \in Nat /\ 1 \in 1..Len(u)+1 /\ n \in 0..Len(u) /\ Len(u) \in n..Len(u)
        /\ 1 - 1 = 0
    OBVIOUS
  <2>2. SubSeq(u, 1, n) \o SubSeq(u, n + 1, Len(u)) = SubSeq(u, 1, Len(u))
    BY <2>1, ConcatAdjacentSubSeq
  <2>3. QED
    BY <2>2, SubSeqFull DEF From
<1>2. ASSUME NEW n \in 1..Len(s)
      PROVE  (r \o SubSeq(s, 1, n)) \o From(s, n) \o t = r \o s \o t
  <2> DEFINE part == SubSeq(s, 1, n)
             rest == From(s, n)
  <2>1. part \in Seq(Bytes) /\ rest \in Seq(Bytes)
    BY Parts
  <2>2. part \o rest = s
    BY <1>1
  <2> HIDE DEF part, rest
  <2>3. (r \o part) \o rest = r \o (part \o rest)
    BY Associative, <2>1, Zenon
  <2>4. (r \o part) \o rest \o t = r \o s \o t
    BY <2>2, <2>3, Zenon
  <2>5. QED
    BY <2>4 DEF part, rest
<1>3. ASSUME NEW n \in 1..Len(t)
      PROVE  r \o (s \o SubSeq(t, 1, n)) \o From(t, n) = r \o s \o t
  <2> DEFINE part == SubSeq(t, 1, n)
             rest == From(t, n)
  <2>1. part \in Seq(Bytes) /\ rest \in Seq(Bytes)
    BY Parts
  <2>2. part \o rest = t
    BY <1>1
  <2> HIDE DEF part, rest
  <2>3. r \o (s \o part) \o rest = (r \o s) \o (part \o rest)
    <3>1. r \o (s \o part) = (r \o s) \o part
      BY Associative, <2>1, Zenon
    <3>2. r \o s \in Seq(Bytes)
      BY ConcatProperties
    <3>3. ((r \o s) \o part) \o rest = (r \o s) \o (part \o rest)
      BY Associative, <2>1, <3>2, Zenon
    <3>4. QED
      BY <3>1, <3>3, Zenon
  <2>4. r \o (s \o part) \o rest = r \o s \o t
    BY <2>2, <2>3, Zenon
  <2>5. QED
    BY <2>4 DEF part, rest
<1>4. QED
  BY <1>2, <1>3

\* What a sequence starts with, and what is left of it.
LEMMA Split ==
  ASSUME NEW S, NEW a \in Seq(S), NEW b \in Seq(S)
  PROVE  /\ Len(a \o b) = Len(a) + Len(b)
         /\ \A i \in 1..Len(a) : (a \o b)[i] = a[i]
         /\ From(a \o b, Len(a)) = b
<1> DEFINE s == a \o b
           rest == From(s, Len(a))
<1>1. /\ Len(a) \in Nat /\ Len(b) \in Nat /\ s \in Seq(S) /\ Len(s) = Len(a) + Len(b)
      /\ \A i \in 1 .. Len(a) + Len(b) : s[i] = IF i <= Len(a) THEN a[i] ELSE b[i - Len(a)]
  BY ConcatProperties
<1> HIDE DEF s
<1>2. /\ Len(a) + 1 \in Int /\ Len(s) \in Int
      /\ \A i \in Len(a) + 1 .. Len(s) : s[i] \in S
  BY <1>1
<1>3. /\ rest \in Seq(S)
      /\ Len(rest) = IF Len(a) + 1 <= Len(s) THEN Len(s) - (Len(a) + 1) + 1 ELSE 0
      /\ \A i \in 1 .. Len(s) - (Len(a) + 1) + 1 : rest[i] = s[Len(a) + 1 + i - 1]
  BY <1>2, SubSeqProperties DEF From
<1> HIDE DEF rest
<1>4. Len(rest) = Len(b)
  BY <1>1, <1>3
<1>5. ASSUME NEW i \in 1..Len(b)
      PROVE  rest[i] = b[i]
  <2>1. /\ i \in 1 .. Len(s) - (Len(a) + 1) + 1 /\ Len(a) + 1 + i - 1 = Len(a) + i
        /\ Len(a) + i \in 1 .. Len(a) + Len(b)
        /\ ~(Len(a) + i <= Len(a)) /\ (Len(a) + i) - Len(a) = i
    BY <1>1
  <2>2. QED
    BY <1>1, <1>3, <2>1
<1>6. rest = b
  BY <1>3, <1>4, <1>5, SeqEqual
<1>7. \A i \in 1..Len(a) : s[i] = a[i]
  BY <1>1
<1>8. QED
  BY <1>1, <1>6, <1>7 DEF s, rest

\* The length of a sequence given by its elements.
LEMMA ImageLength ==
  ASSUME NEW n \in Nat, NEW s \in [1..n -> Bytes]
  PROVE  s \in Seq(Bytes) /\ Len(s) = n
<1>1. s \in Seq(Bytes)
  OBVIOUS
<1>2. DOMAIN s = 1..Len(s) /\ Len(s) \in Nat /\ DOMAIN s = 1..n
  BY <1>1, LenProperties
<1> DEFINE length == Len(s)
<1>3. length \in Nat /\ 1..length = 1..n
  BY <1>2
<1> HIDE DEF length
<1>4. n \in 1..length \/ n = 0
  BY <1>3
<1>5. length \in 1..n \/ length = 0
  BY <1>3
<1>6. length = n
  BY <1>3, <1>4, <1>5
<1>7. QED
  BY <1>1, <1>6 DEF length

\* The sizes of a message and of the bytes that carry it, each of which
\* tells the message.
LEMMA Sizes ==
  ASSUME NEW m \in Messages
  PROVE  /\ m.size \in Nat \ {0} /\ SizeBytes \in Nat \ {0}
         /\ Serialize(m) \in Seq(Bytes) /\ Len(Serialize(m)) = SizeBytes + m.size
         /\ Serialize(m) # <<>> /\ MessageIn(Serialize(m)) = m
         /\ Body(m) \in Seq(Bytes) /\ Len(Body(m)) = m.size
         /\ Body(m) # <<>> /\ MessageIn(Body(m)) = m
         /\ Body(m) = [i \in 1..m.size |-> <<m, SizeBytes + i>>]
<1> DEFINE s == Serialize(m)
           body == Body(m)
           image == [i \in 1..m.size |-> <<m, SizeBytes + i>>]
<1>1. m.size \in Nat \ {0} /\ SizeBytes \in Nat \ {0}
  BY SizesAssumption DEF Messages
<1>2. SizeBytes + m.size \in Nat
  BY <1>1
<1>3. s \in [1..SizeBytes + m.size -> Bytes]
  BY <1>2 DEF Serialize, Bytes
<1>4. /\ s \in Seq(Bytes) /\ Len(s) = SizeBytes + m.size
      /\ \A i \in 1..SizeBytes + m.size : s[i] = <<m, i>>
  <2>1. \A i \in 1..SizeBytes + m.size : s[i] = <<m, i>>
    BY DEF Serialize
  <2> HIDE DEF s
  <2>2. QED
    BY <1>2, <1>3, <2>1, ImageLength, Zenon
<1> HIDE DEF s
<1>5. /\ SizeBytes + 1 \in Int /\ Len(s) \in Int
      /\ \A i \in SizeBytes + 1 .. Len(s) : s[i] \in Bytes
  BY <1>1, <1>4
<1>6. /\ body \in Seq(Bytes)
      /\ Len(body) = IF SizeBytes + 1 <= Len(s) THEN Len(s) - (SizeBytes + 1) + 1 ELSE 0
      /\ \A i \in 1 .. Len(s) - (SizeBytes + 1) + 1 : body[i] = s[SizeBytes + 1 + i - 1]
  BY <1>5, SubSeqProperties DEF From, Body, s
<1> HIDE DEF body
<1>7. Len(body) = m.size
  BY <1>1, <1>4, <1>6
<1>8. ASSUME NEW i \in 1..m.size
      PROVE  body[i] = <<m, SizeBytes + i>>
  <2>1. /\ i \in 1 .. Len(s) - (SizeBytes + 1) + 1 /\ SizeBytes + 1 + i - 1 = SizeBytes + i
        /\ SizeBytes + i \in 1..SizeBytes + m.size
    BY <1>1, <1>4
  <2>2. QED
    BY <1>4, <1>6, <2>1
<1>9. body = image
  <2>1. \A i \in 1..m.size : <<m, SizeBytes + i>> \in Bytes
    BY <1>1 DEF Bytes
  <2>2. image \in Seq(Bytes) /\ Len(image) = m.size
    <3>1. image \in [1..m.size -> Bytes] /\ m.size \in Nat
      BY <1>1, <2>1
    <3> HIDE DEF image
    <3>2. QED
      BY <3>1, ImageLength, Zenon
  <2>3. \A i \in 1..Len(body) : body[i] = image[i]
    BY <1>7, <1>8
  <2> HIDE DEF image
  <2>4. QED
    BY <1>6, <1>7, <2>2, <2>3, SeqEqual
<1>10. s # <<>> /\ body # <<>>
  BY <1>1, <1>4, <1>6, <1>7
<1>11. s[1] = <<m, 1>> /\ body[1] = <<m, SizeBytes + 1>>
  BY <1>1, <1>4, <1>8
<1>12. MessageIn(s) = m /\ MessageIn(body) = m
  BY <1>10, <1>11 DEF MessageIn
<1>13. QED
  BY <1>1, <1>4, <1>6, <1>7, <1>9, <1>10, <1>12 DEF s, body

\* All bytes of the size are there: ntohl() gives the size of the message
\* they precede, and what is left is the message.
LEMMA SizeComplete ==
  ASSUME NEW m \in Messages, NEW a \in Seq(Bytes), NEW b \in Seq(Bytes),
         a \o b = Serialize(m), Len(a) = SizeBytes
  PROVE  SizeIn(a) = m.size /\ b = Body(m)
<1>1. SizeBytes \in Nat \ {0} /\ m.size \in Nat \ {0}
  BY Sizes
<1>2. Serialize(m)[1] = a[1] /\ From(Serialize(m), SizeBytes) = b
  <2>1. 1 \in 1..Len(a)
    BY <1>1
  <2>2. \A i \in 1..Len(a) : (a \o b)[i] = a[i]
    BY Split, Zenon
  <2>3. From(a \o b, Len(a)) = b
    BY Split, Zenon
  <2>4. QED
    BY <2>1, <2>2, <2>3
<1>3. 1 \in 1..SizeBytes + m.size
  BY <1>1
<1>4. Serialize(m)[1] = <<m, 1>>
  BY <1>3 DEF Serialize
<1>5. QED
  BY <1>2, <1>4 DEF SizeIn, Body

\* As many bytes as the size said are there: they are the message, and
\* nothing is left of it.
LEMMA MessageComplete ==
  ASSUME NEW m \in Messages, NEW a \in Seq(Bytes), NEW b \in Seq(Bytes),
         a \o b = Body(m), Len(a) = m.size
  PROVE  b = <<>> /\ Parse(a) = m
<1>1. /\ m.size \in Nat \ {0} /\ Len(Body(m)) = m.size /\ Body(m) # <<>>
      /\ Body(m) = [i \in 1..m.size |-> <<m, SizeBytes + i>>]
  BY Sizes
<1>2. Len(b) = 0
  <2>1. Len(a) \in Nat /\ Len(b) \in Nat /\ Len(a \o b) = Len(a) + Len(b)
    BY Split
  <2>2. QED
    BY <1>1, <2>1
<1>3. b = <<>>
  BY <1>2
<1>4. a = Body(m)
  BY <1>3, ConcatEmptySeq
<1>5. 1 \in 1..m.size
  BY <1>1
<1>6. a[1][1] = m
  <2>1. a[1] = <<m, SizeBytes + 1>>
    BY <1>1, <1>4, <1>5
  <2>2. QED
    BY <2>1
<1>7. Parse(a) = m
  BY <1>1, <1>4, <1>6 DEF Parse
<1>8. QED
  BY <1>3, <1>7

-----------------------------------------------------------------------------
(* The inductive invariant: at every moment, the bytes of a connection are  *)
(* those of one message.                                                   *)

IInv == Inv /\ WholeMessages /\ NothingGarbled /\ ShortOnlyIfCutOff

\* What the fields of both ends are.
LEMMA Fields ==
  ASSUME Inv
  PROVE  /\ outgoing \in Seq(Bytes) /\ c2w \in Seq(Bytes) /\ w2c \in Seq(Bytes)
         /\ worker \in Workers /\ worker.received \in Seq(Bytes)
         /\ worker.left \in Seq(Bytes) /\ worker.size \in Nat
         /\ incoming \in IncomingBuffers /\ incoming.received \in Seq(Bytes)
         /\ incoming.m_have_size \in BOOLEAN /\ incoming.m_size \in Nat
         /\ controller \in {"running", "gone", "dropped", "oversize", "garbled"}
         /\ waiting \in BOOLEAN
BY DEF Inv, TypeOK, Workers, IncomingBuffers

\* Joined sequences without a byte.
LEMMA NoBytes ==
  ASSUME NEW r \in Seq(Bytes), NEW s \in Seq(Bytes), NEW t \in Seq(Bytes)
  PROVE  /\ r \o s \o t = <<>> => r = <<>> /\ s = <<>> /\ t = <<>>
         /\ r \o s \o t \in Seq(Bytes)
         /\ <<>> \in Seq(Bytes) /\ Len(<<>>) = 0
         /\ <<>> \o s \o t = s \o t
         /\ <<>> \o <<>> \o t = t
         /\ r \o <<>> \o <<>> = r
<1>1. <<>> \in Seq(Bytes) /\ Len(<<>>) = 0
  BY EmptySeq
<1>2. \A a, b \in Seq(Bytes) : a \o b \in Seq(Bytes)
  BY ConcatProperties
<1>3. \A a, b \in Seq(Bytes) : a \o b = <<>> => a = <<>> /\ b = <<>>
  BY ConcatEqualIffEmpty
<1>4. \A a \in Seq(Bytes) : a \o <<>> = a /\ <<>> \o a = a
  BY ConcatEmptySeq
<1>5. QED
  BY <1>1, <1>2, <1>3, <1>4, Zenon

\* A request is sent when nothing is left of the last exchange.
LEMMA AskWhole ==
  ASSUME IInv, NEW size \in RequestSizes, Ask(size)
  PROVE  /\ WholeMessages' /\ NothingGarbled' /\ ShortOnlyIfCutOff'
         /\ worker.request = Nothing /\ ResponseBytes' = <<>>
         /\ \E m \in Messages : RequestBytes' = Serialize(m)
<1> DEFINE request == [kind |-> "request", number |-> asked + 1, size |-> size]
<1>1. /\ controller = "running" /\ ~waiting /\ waiting' = TRUE
      /\ incoming' = reset(incoming) /\ outgoing' = Serialize(request)
      /\ UNCHANGED <<controller, learned, c2w, w2c, worker, broken>>
  BY DEF Ask
<1>2. request \in Messages
  <2>1. asked + 1 \in 1..Exchanges
    BY BoundsAssumption DEF IInv, Inv, TypeOK, Ask
  <2>2. QED
    BY <2>1 DEF Messages
<1> HIDE DEF request
<1>i. Inv /\ WholeMessages /\ NothingGarbled /\ ShortOnlyIfCutOff
  BY DEF IInv
<1>3. worker.request = Nothing /\ RequestBytes = <<>> /\ ResponseBytes = <<>>
  BY <1>1, <1>i DEF WholeMessages, Turns
<1>4. worker.received = <<>> /\ c2w = <<>> /\ w2c = <<>> /\ worker.left = <<>>
  <2>1. worker.received \o c2w \o outgoing = <<>> /\ incoming.received \o w2c \o worker.left = <<>>
    BY <1>3 DEF RequestBytes, ResponseBytes
  <2>2. /\ worker.received \in Seq(Bytes) /\ c2w \in Seq(Bytes) /\ outgoing \in Seq(Bytes)
        /\ incoming.received \in Seq(Bytes) /\ w2c \in Seq(Bytes) /\ worker.left \in Seq(Bytes)
    BY <1>i, Fields
  <2>3. worker.received = <<>> /\ c2w = <<>>
    BY <2>1, <2>2, NoBytes
  <2>4. w2c = <<>> /\ worker.left = <<>>
    BY <2>1, <2>2, NoBytes
  <2>5. QED
    BY <2>3, <2>4
<1>5. Serialize(request) \in Seq(Bytes) /\ Serialize(request) # <<>>
  BY <1>2, Sizes, Zenon
<1>6. RequestBytes' = Serialize(request)
  <2>1. <<>> \o <<>> \o Serialize(request) = Serialize(request)
    BY <1>5, NoBytes, Zenon
  <2>2. QED
    BY <1>1, <1>4, <2>1, Zenon DEF RequestBytes
<1>7. ~incoming'.m_have_size /\ incoming'.received = <<>>
  BY <1>1, <1>i, Fields DEF reset, IncomingBuffers
<1>8. ResponseBytes' = <<>>
  <2>1. <<>> \o <<>> \o <<>> = <<>>
    BY <1>5, NoBytes, Zenon
  <2>2. QED
    BY <1>1, <1>4, <1>7, <2>1, Zenon DEF ResponseBytes
<1>9. worker.phase # "message"
  <2>1. \A m \in Messages : Body(m) # <<>>
    BY Sizes, Zenon
  <2>2. QED
    BY <1>i, <1>3, <2>1 DEF WholeMessages, RequestWhole
<1>10. RequestWhole'
  BY <1>1, <1>2, <1>i, <1>3, <1>4, <1>6, <1>9 DEF WholeMessages, RequestWhole
<1>11. ResponseWhole'
  BY <1>7, <1>8 DEF ResponseWhole
<1>12. Turns'
  BY <1>1, <1>3, <1>5, <1>6, <1>8 DEF Turns
<1>13. NothingGarbled' /\ ShortOnlyIfCutOff'
  BY <1>1, <1>5, <1>i DEF NothingGarbled, ShortOnlyIfCutOff
<1>14. QED
  BY <1>2, <1>3, <1>6, <1>8, <1>10, <1>11, <1>12, <1>13 DEF WholeMessages

\* Bytes taken by the stream are no fewer and no more.
LEMMA SendWhole ==
  ASSUME IInv, NEW n \in 1..Len(outgoing), Send(n)
  PROVE  /\ WholeMessages' /\ NothingGarbled' /\ ShortOnlyIfCutOff'
         /\ RequestBytes' = RequestBytes /\ ResponseBytes' = ResponseBytes
<1>1. /\ controller = "running"
      /\ c2w' = c2w \o SubSeq(outgoing, 1, n) /\ outgoing' = From(outgoing, n)
      /\ UNCHANGED <<controller, asked, waiting, learned, incoming, w2c, worker, broken>>
  BY DEF Send
<1>i. Inv /\ WholeMessages /\ NothingGarbled /\ ShortOnlyIfCutOff
  BY DEF IInv
<1>2. RequestBytes' = RequestBytes
  <2>1. worker.received \o (c2w \o SubSeq(outgoing, 1, n)) \o From(outgoing, n)
          = worker.received \o c2w \o outgoing
    <3>1. worker.received \in Seq(Bytes) /\ c2w \in Seq(Bytes) /\ outgoing \in Seq(Bytes)
      BY <1>i, Fields
    <3>2. QED
      BY <3>1, Moved, Zenon
  <2>2. QED
    BY <1>1, <2>1, Zenon DEF RequestBytes
<1>3. ResponseBytes' = ResponseBytes
  BY <1>1, Zenon DEF ResponseBytes
<1>4. worker.request = Nothing
  <2>1. outgoing # <<>>
    BY <1>i, Fields
  <2>2. QED
    BY <1>i, <2>1 DEF WholeMessages, RequestWhole
<1>5. RequestWhole'
  BY <1>1, <1>i, <1>2, <1>4, Zenon DEF WholeMessages, RequestWhole
<1>6. ResponseWhole' /\ Turns'
  BY <1>1, <1>i, <1>2, <1>3, Zenon DEF WholeMessages, ResponseWhole, Turns
<1>7. NothingGarbled' /\ ShortOnlyIfCutOff'
  <2> DEFINE bytes == SubSeq(outgoing, 1, n)
  <2>1. c2w \in Seq(Bytes) /\ outgoing \in Seq(Bytes)
    BY <1>i, Fields
  <2>2. bytes \in Seq(Bytes) /\ Len(bytes) = n /\ n # 0
    BY <2>1, Parts
  <2>3. c2w' = c2w \o bytes
    BY <1>1
  <2> HIDE DEF bytes
  <2>4. bytes # <<>>
    BY <2>2, EmptySeq
  <2>5. c2w' # <<>>
    BY <2>1, <2>2, <2>3, <2>4, ConcatEqualIffEmpty
  <2>6. QED
    BY <1>1, <1>i, <2>5 DEF NothingGarbled, ShortOnlyIfCutOff
<1>8. QED
  BY <1>2, <1>3, <1>5, <1>6, <1>7 DEF WholeMessages

\* A controller that is not to give the worker up has, after a part of the
\* response, the rest of the same message before it, or has decoded that
\* message.
LEMMA ReceiveWhole ==
  ASSUME IInv, NEW n \in 1..Len(w2c), Receive(n), controller' # "oversize"
  PROVE  \E m \in Messages :
           /\ ResponseBytes # <<>> /\ MessageIn(ResponseBytes) = m
           /\ UNCHANGED controller
           /\ \/ /\ UNCHANGED <<waiting, learned>>
                 /\ ResponseBytes' # <<>> /\ MessageIn(ResponseBytes') = m
                 /\ ResponseWhole'
              \/ /\ waiting' = FALSE /\ learned' = m
                 /\ ~incoming'.m_have_size /\ ResponseBytes' = <<>>
                 /\ worker.left = <<>>
<1> DEFINE bytes == SubSeq(w2c, 1, n)
           received == incoming.received \o bytes
           rest == From(w2c, n)
           left == worker.left
           buffer == received_here(incoming, bytes)
<1>i. Inv /\ ResponseWhole
  BY DEF IInv, WholeMessages
<1>f. /\ w2c \in Seq(Bytes) /\ incoming.received \in Seq(Bytes) /\ left \in Seq(Bytes)
      /\ incoming \in IncomingBuffers /\ incoming.m_have_size \in BOOLEAN
      /\ incoming.m_size \in Nat /\ SizeBytes \in Nat \ {0}
  BY <1>i, Fields, SizesAssumption
<1>1. bytes \in Seq(Bytes) /\ Len(bytes) = n /\ rest \in Seq(Bytes) /\ n \in Nat
  BY <1>f, Parts
<1>2. received \in Seq(Bytes) /\ Len(received) = Len(incoming.received) + n
  <2> HIDE DEF bytes
  <2>1. QED
    BY <1>f, <1>1, ConcatProperties
<1>3. ResponseBytes = received \o rest \o left
  <2>1. (incoming.received \o SubSeq(w2c, 1, n)) \o From(w2c, n) \o worker.left
           = incoming.received \o w2c \o worker.left
    BY <1>f, Moved
  <2>2. QED
    BY <2>1, Zenon DEF ResponseBytes
<1>4. received \o rest \o left = received \o (rest \o left) /\ rest \o left \in Seq(Bytes)
  <2> HIDE DEF received, rest, left
  <2>1. rest \o left \in Seq(Bytes)
    BY <1>1, <1>f, ConcatProperties
  <2>2. received \in Seq(Bytes) /\ rest \in Seq(Bytes) /\ left \in Seq(Bytes)
    BY <1>1, <1>2, <1>f
  <2>3. QED
    BY <2>1, <2>2, Associative, Zenon
<1>5. /\ controller = "running" /\ n <= bytes_left(incoming)
      /\ w2c' = rest /\ UNCHANGED <<asked, outgoing, c2w, worker, broken>>
      /\ IF need_receive(buffer)
         THEN incoming' = buffer /\ UNCHANGED <<controller, waiting, learned>>
         ELSE /\ learned' = Parse(buffer.received)
              /\ controller' = IF learned' = Nothing THEN "garbled" ELSE controller
              /\ incoming' = reset(buffer)
              /\ waiting' = FALSE
  BY DEF Receive
<1>6. ResponseBytes' = incoming'.received \o rest \o left
  BY <1>5 DEF ResponseBytes
<1>7. ASSUME incoming.m_have_size \/ Len(received) < SizeBytes
      PROVE  buffer = [incoming EXCEPT !.received = received]
  BY <1>7 DEF received_here
<1>8. ASSUME ~(incoming.m_have_size \/ Len(received) < SizeBytes)
      PROVE  \E capacity : buffer = [m_have_size |-> TRUE, m_size |-> SizeIn(received),
                                     received |-> <<>>, m_capacity |-> capacity]
  BY <1>8 DEF received_here
<1>9. Len(received) \in Nat /\ Len(incoming.received) \in Nat
  BY <1>2, <1>f
<1>10. received # <<>>
  BY <1>1, <1>2, <1>9
<1>11. ResponseBytes # <<>>
  <2> HIDE DEF received, rest, left
  <2>1. QED
    BY <1>1, <1>2, <1>3, <1>f, <1>10, NoBytes
<1> HIDE DEF bytes, received, rest, left, buffer
<1>12. CASE incoming.m_have_size
  <2>1. PICK m \in Messages : ResponseBytes = Body(m) /\ incoming.m_size = m.size
    BY <1>5, <1>i, <1>12 DEF ResponseWhole
  <2>2. MessageIn(ResponseBytes) = m
    BY <2>1, Sizes
  <2>3. /\ buffer.m_have_size /\ buffer.m_size = m.size /\ buffer.received = received
        /\ buffer \in IncomingBuffers
    BY <1>7, <1>12, <1>2, <1>f, <2>1 DEF IncomingBuffers
  <2>4. Len(received) <= m.size /\ m.size \in Nat
    BY <1>2, <1>5, <1>9, <1>12, <1>1, <1>f, <2>1 DEF bytes_left
  <2>5. CASE need_receive(buffer)
    <3>1. incoming' = buffer /\ UNCHANGED <<controller, waiting, learned>>
      BY <1>5, <2>5
    <3>2. ResponseBytes' = ResponseBytes
      BY <1>3, <1>6, <2>3, <3>1
    <3>3. Len(received) < m.size
      BY <2>3, <2>5 DEF need_receive
    <3>4. ResponseWhole'
      BY <2>1, <2>3, <3>1, <3>2, <3>3 DEF ResponseWhole
    <3>5. QED
      BY <1>11, <2>2, <3>1, <3>2, <3>4
  <2>6. CASE ~need_receive(buffer)
    <3>1. Len(received) = m.size
      BY <1>9, <2>3, <2>4, <2>6 DEF need_receive
    <3>2. received \o (rest \o left) = Body(m)
      BY <1>3, <1>4, <2>1
    <3>3. rest \o left = <<>> /\ Parse(received) = m
      BY <1>2, <1>4, <3>1, <3>2, MessageComplete
    <3>4. /\ learned' = m /\ controller' = controller /\ waiting' = FALSE
          /\ incoming' = reset(buffer)
      BY <1>5, <2>3, <2>6, <3>3, NothingAssumption
    <3>5. ~incoming'.m_have_size /\ incoming'.received = <<>>
      BY <2>3, <3>4 DEF reset, IncomingBuffers
    <3>6. left = <<>> /\ rest = <<>>
      BY <1>1, <1>f, <3>3, ConcatEqualIffEmpty
    <3>7. ResponseBytes' = <<>>
      BY <1>6, <1>f, <3>5, <3>6, NoBytes
    <3>8. QED
      BY <1>11, <2>2, <3>4, <3>5, <3>6, <3>7 DEF left
  <2>7. QED
    BY <2>5, <2>6
<1>13. CASE ~incoming.m_have_size
  <2>1. PICK m \in Messages : ResponseBytes = Serialize(m)
    BY <1>5, <1>i, <1>11, <1>13 DEF ResponseWhole
  <2>2. MessageIn(ResponseBytes) = m
    BY <2>1, Sizes
  <2>3. Len(received) <= SizeBytes
    BY <1>2, <1>5, <1>9, <1>13, <1>1, <1>f DEF bytes_left
  <2>4. CASE Len(received) < SizeBytes
    <3>1. buffer.received = received /\ ~buffer.m_have_size
      BY <1>7, <1>f, <1>13, <2>4 DEF IncomingBuffers
    <3>2. incoming' = buffer /\ UNCHANGED <<controller, waiting, learned>>
      BY <1>5, <3>1 DEF need_receive
    <3>3. ResponseBytes' = ResponseBytes
      BY <1>3, <1>6, <3>1, <3>2
    <3>4. ResponseWhole'
      BY <2>1, <3>1, <3>2, <3>3 DEF ResponseWhole
    <3>5. QED
      BY <1>11, <2>2, <3>2, <3>3, <3>4
  <2>5. CASE Len(received) = SizeBytes
    <3>1. received \o (rest \o left) = Serialize(m)
      BY <1>3, <1>4, <2>1
    <3>2. SizeIn(received) = m.size /\ rest \o left = Body(m)
      BY <1>2, <1>4, <2>5, <3>1, SizeComplete
    <3>3. buffer.m_have_size /\ buffer.m_size = m.size /\ buffer.received = <<>>
      BY <1>8, <1>13, <1>f, <2>5, <3>2
    <3>4. m.size \in Nat \ {0} /\ Len(<<>>) = 0 /\ Body(m) # <<>> /\ MessageIn(Body(m)) = m
      BY Sizes
    <3>5. incoming' = buffer /\ UNCHANGED <<controller, waiting, learned>>
      BY <1>5, <3>3, <3>4 DEF need_receive
    <3>6. ResponseBytes' = Body(m)
      <4>1. <<>> \o rest \o left = rest \o left
        BY <1>1, <1>f, NoBytes
      <4>2. QED
        BY <1>6, <3>2, <3>3, <3>5, <4>1
    <3>7. ResponseWhole'
      BY <3>3, <3>4, <3>5, <3>6 DEF ResponseWhole
    <3>8. QED
      BY <1>11, <2>2, <3>4, <3>5, <3>6, <3>7
  <2>6. Len(received) < SizeBytes \/ Len(received) = SizeBytes
    BY <1>9, <2>3, SizesAssumption
  <2>7. QED
    BY <2>4, <2>5, <2>6
<1>14. QED
  BY <1>12, <1>13, <1>f

\* The worker, after a part of the request, has the rest of the same message
\* before it, or has decoded that message.
LEMMA WorkerReceivesWhole ==
  ASSUME IInv, NEW n \in 1..Len(c2w), WorkerReceives(n)
  PROVE  \E m \in Messages :
           /\ RequestBytes # <<>> /\ MessageIn(RequestBytes) = m
           /\ worker.request = Nothing /\ worker'.left = <<>> /\ worker.left = <<>>
           /\ UNCHANGED <<controller, asked, waiting, learned, outgoing, incoming, w2c, broken>>
           /\ RequestWhole'
           /\ \/ /\ worker'.request = Nothing /\ worker'.phase \in {"size", "message"}
                 /\ RequestBytes' # <<>> /\ MessageIn(RequestBytes') = m
              \/ worker'.request = m /\ worker'.phase = "handle"
<1> DEFINE bytes == SubSeq(c2w, 1, n)
           received == worker.received \o bytes
           rest == From(c2w, n)
<1>i. Inv /\ RequestWhole
  BY DEF IInv, WholeMessages
<1>f. /\ c2w \in Seq(Bytes) /\ worker.received \in Seq(Bytes) /\ outgoing \in Seq(Bytes)
      /\ worker \in Workers /\ worker.size \in Nat /\ SizeBytes \in Nat \ {0}
  BY <1>i, Fields, SizesAssumption
<1>1. bytes \in Seq(Bytes) /\ Len(bytes) = n /\ rest \in Seq(Bytes) /\ n \in Nat
  BY <1>f, Parts
<1>2. received \in Seq(Bytes) /\ Len(received) = Len(worker.received) + n
  <2> HIDE DEF bytes
  <2>1. QED
    BY <1>f, <1>1, ConcatProperties
<1>3. RequestBytes = received \o rest \o outgoing
  <2>1. (worker.received \o SubSeq(c2w, 1, n)) \o From(c2w, n) \o outgoing
           = worker.received \o c2w \o outgoing
    BY <1>f, Moved
  <2>2. QED
    BY <2>1, Zenon DEF RequestBytes
<1>4. received \o rest \o outgoing = received \o (rest \o outgoing)
      /\ rest \o outgoing \in Seq(Bytes)
  <2> HIDE DEF received, rest
  <2>1. rest \o outgoing \in Seq(Bytes)
    BY <1>1, <1>f, ConcatProperties
  <2>2. received \in Seq(Bytes) /\ rest \in Seq(Bytes) /\ outgoing \in Seq(Bytes)
    BY <1>1, <1>2, <1>f
  <2>3. received \o rest \o outgoing = received \o (rest \o outgoing)
    BY <2>2, Associative, Zenon
  <2>4. QED
    BY <2>1, <2>3
<1>5. /\ worker.phase \in {"size", "message"} /\ n <= Wanted
      /\ worker' =
           IF n < Wanted THEN [worker EXCEPT !.received = received]
           ELSE IF worker.phase = "size"
           THEN [worker EXCEPT !.phase = "message", !.size = SizeIn(received), !.received = <<>>]
           ELSE [worker EXCEPT !.phase = IF Parse(received) = Nothing THEN "garbled" ELSE "handle",
                               !.request = Parse(received)]
      /\ c2w' = rest
      /\ UNCHANGED <<controller, asked, waiting, learned, outgoing, incoming, w2c, broken>>
  BY DEF WorkerReceives, WorkerSteps
<1>6. RequestBytes' = worker'.received \o rest \o outgoing
  BY <1>5 DEF RequestBytes
<1>9. Len(received) \in Nat /\ Len(worker.received) \in Nat
  BY <1>2, <1>f
<1>10. received # <<>>
  BY <1>1, <1>2, <1>9
<1>11. RequestBytes # <<>>
  <2> HIDE DEF received, rest
  <2>1. QED
    BY <1>1, <1>2, <1>3, <1>f, <1>10, NoBytes
<1>12. worker.request = Nothing /\ worker.left = <<>>
  BY <1>5, <1>i DEF RequestWhole
<1> HIDE DEF bytes, received, rest
<1>13. CASE n < Wanted
  <2>1. /\ worker'.phase = worker.phase /\ worker'.request = Nothing /\ worker'.left = <<>>
        /\ worker'.received = received /\ worker'.size = worker.size
    BY <1>5, <1>f, <1>12, <1>13 DEF Workers
  <2>2. RequestBytes' = RequestBytes
    BY <1>3, <1>6, <2>1
  <2>3. /\ worker.phase = "size" => Len(received) < SizeBytes
        /\ worker.phase = "message" => Len(received) < worker.size
    BY <1>1, <1>2, <1>9, <1>f, <1>13 DEF Wanted
  <2>4. RequestWhole'
    BY <1>5, <1>i, <2>1, <2>2, <2>3 DEF RequestWhole
  <2>5. PICK m \in Messages : RequestBytes \in {Serialize(m), Body(m)}
    BY <1>i, <1>11, <1>12 DEF RequestWhole
  <2>6. MessageIn(RequestBytes) = m
    BY <2>5, Sizes
  <2>7. QED
    BY <1>5, <1>11, <1>12, <2>1, <2>2, <2>4, <2>6
<1>14. CASE ~(n < Wanted) /\ worker.phase = "size"
  <2>1. PICK m \in Messages : RequestBytes = Serialize(m)
    BY <1>i, <1>11, <1>14 DEF RequestWhole
  <2>2. Len(received) = SizeBytes
    BY <1>1, <1>2, <1>5, <1>9, <1>f, <1>14 DEF Wanted
  <2>3. received \o (rest \o outgoing) = Serialize(m)
    BY <1>3, <1>4, <2>1
  <2>4. SizeIn(received) = m.size /\ rest \o outgoing = Body(m)
    BY <1>2, <1>4, <2>2, <2>3, SizeComplete
  <2>5. /\ worker'.phase = "message" /\ worker'.size = m.size /\ worker'.received = <<>>
        /\ worker'.request = Nothing /\ worker'.left = <<>>
    BY <1>5, <1>f, <1>12, <1>14, <2>4 DEF Workers
  <2>6. RequestBytes' = Body(m)
    BY <1>1, <1>6, <1>f, <2>4, <2>5, NoBytes
  <2>7. /\ m.size \in Nat \ {0} /\ Len(<<>>) = 0
        /\ Body(m) # <<>> /\ MessageIn(Body(m)) = m /\ MessageIn(Serialize(m)) = m
    BY Sizes
  <2>8. RequestWhole'
    BY <2>5, <2>6, <2>7 DEF RequestWhole
  <2>9. QED
    BY <1>5, <1>11, <1>12, <2>1, <2>5, <2>6, <2>7, <2>8
<1>15. CASE ~(n < Wanted) /\ worker.phase = "message"
  <2>1. PICK m \in Messages : RequestBytes = Body(m) /\ worker.size = m.size
    BY <1>i, <1>15 DEF RequestWhole
  <2>2. Len(received) = m.size
    BY <1>1, <1>2, <1>5, <1>9, <1>f, <1>15, <2>1 DEF Wanted
  <2>3. received \o (rest \o outgoing) = Body(m)
    BY <1>3, <1>4, <2>1
  <2>4. rest \o outgoing = <<>> /\ Parse(received) = m
    BY <1>2, <1>4, <2>2, <2>3, MessageComplete
  <2>5. rest = <<>> /\ outgoing = <<>>
    BY <1>1, <1>f, <2>4, ConcatEqualIffEmpty
  <2>6. m # Nothing
    BY NothingAssumption
  <2>7. /\ worker'.phase = "handle" /\ worker'.request = m /\ worker'.left = <<>>
    BY <1>5, <1>f, <1>12, <1>15, <2>4, <2>6 DEF Workers
  <2>8. RequestWhole'
    BY <1>5, <2>5, <2>6, <2>7 DEF RequestWhole
  <2>9. MessageIn(RequestBytes) = m
    BY <2>1, Sizes
  <2>10. QED
    BY <1>5, <1>11, <1>12, <2>7, <2>8, <2>9
<1>16. QED
  BY <1>5, <1>13, <1>14, <1>15

\* After the handler, nothing is left of the request and of the last
\* response, and the worker has a response to send.
LEMMA HandlesWhole ==
  ASSUME IInv, NEW size \in ResponseSizes, WorkerHandles(size)
  PROVE  /\ WholeMessages' /\ NothingGarbled' /\ ShortOnlyIfCutOff'
         /\ RequestBytes' = RequestBytes
         /\ worker.request # Nothing /\ worker'.request = worker.request
         /\ controller # "oversize" =>
              /\ ResponseBytes = <<>>
              /\ \E m \in Messages : ResponseBytes' = Serialize(m)
<1> DEFINE response == [kind |-> "response", number |-> worker.request.number, size |-> size]
<1>i. Inv /\ WholeMessages /\ NothingGarbled /\ ShortOnlyIfCutOff
  BY DEF IInv
<1>1. /\ worker.phase = "handle"
      /\ worker' = [worker EXCEPT !.phase = "send", !.left = Serialize(response)]
      /\ UNCHANGED <<controller, asked, waiting, learned, outgoing, incoming, c2w, w2c, broken>>
  BY DEF WorkerHandles, WorkerSteps
<1>2. response \in Messages
  <2>1. worker.request \in Messages
    BY <1>1, <1>i DEF Inv, HandlesMessage
  <2>2. QED
    BY <2>1 DEF Messages
<1> HIDE DEF response
<1>3. Serialize(response) \in Seq(Bytes) /\ Serialize(response) # <<>>
  BY <1>2, Sizes, Zenon
<1>4. /\ worker'.phase = "send" /\ worker'.left = Serialize(response)
      /\ worker'.received = worker.received /\ worker'.request = worker.request
  BY <1>1, <1>i, Fields DEF Workers
<1>5. worker.request # Nothing /\ worker.left = <<>> /\ c2w = <<>> /\ outgoing = <<>>
  BY <1>1, <1>i DEF WholeMessages, RequestWhole
<1>6. RequestBytes' = RequestBytes
  BY <1>1, <1>4, Zenon DEF RequestBytes
<1>7. RequestWhole'
  BY <1>1, <1>3, <1>4, <1>5 DEF RequestWhole
<1>8. ASSUME controller # "oversize"
      PROVE  ResponseBytes = <<>> /\ ResponseBytes' = Serialize(response)
  <2>1. ResponseBytes = <<>>
    BY <1>8, <1>5, <1>i DEF WholeMessages, Turns
  <2>2. incoming.received \o w2c \o worker.left = <<>>
    BY <2>1, Zenon DEF ResponseBytes
  <2>3. incoming.received = <<>> /\ w2c = <<>>
    BY <1>i, <2>2, Fields, NoBytes
  <2>4. <<>> \o <<>> \o Serialize(response) = Serialize(response)
    BY <1>3, NoBytes, Zenon
  <2>5. QED
    BY <1>1, <1>4, <2>1, <2>3, <2>4, Zenon DEF ResponseBytes
<1>9. ResponseWhole'
  <2>1. ASSUME controller # "oversize"
        PROVE  ~incoming.m_have_size
    <3>1. \A m \in Messages : Body(m) # <<>>
      BY Sizes, Zenon
    <3>2. QED
      BY <1>8, <1>i, <2>1, <3>1 DEF WholeMessages, ResponseWhole
  <2>2. QED
    BY <1>1, <1>2, <1>8, <2>1 DEF ResponseWhole
<1>10. Turns'
  BY <1>1, <1>3, <1>4, <1>5, <1>i DEF WholeMessages, Turns
<1>11. NothingGarbled' /\ ShortOnlyIfCutOff'
  BY <1>1, <1>4, <1>i DEF NothingGarbled, ShortOnlyIfCutOff
<1>12. QED
  BY <1>2, <1>4, <1>5, <1>6, <1>7, <1>8, <1>9, <1>10, <1>11 DEF WholeMessages

\* The bytes the stream takes from send_message() are no fewer and no more;
\* after the last, the worker waits for the next request.
LEMMA WorkerSendsWhole ==
  ASSUME IInv, NEW n \in 1..Len(worker.left), WorkerSends(n)
  PROVE  /\ WholeMessages' /\ NothingGarbled' /\ ShortOnlyIfCutOff'
         /\ ResponseBytes # <<>> /\ ResponseBytes' = ResponseBytes
         /\ UNCHANGED <<controller, waiting, learned>>
<1> DEFINE left == worker.left
           rest == From(left, n)
<1>i. Inv /\ WholeMessages /\ NothingGarbled /\ ShortOnlyIfCutOff
  BY DEF IInv
<1>f. /\ w2c \in Seq(Bytes) /\ incoming.received \in Seq(Bytes) /\ left \in Seq(Bytes)
      /\ worker \in Workers /\ worker.received \in Seq(Bytes)
  BY <1>i, Fields
<1>1. /\ worker.phase = "send"
      /\ w2c' = w2c \o SubSeq(left, 1, n)
      /\ worker' = IF n = Len(left) THEN NewMessage ELSE [worker EXCEPT !.left = rest]
      /\ UNCHANGED <<controller, asked, waiting, learned, outgoing, incoming, c2w, broken>>
  BY DEF WorkerSends, WorkerSteps
<1>2. worker.request # Nothing /\ c2w = <<>> /\ outgoing = <<>> /\ left # <<>>
  BY <1>1, <1>i DEF WholeMessages, RequestWhole
<1>3. /\ rest \in Seq(Bytes) /\ Len(left) \in Nat /\ n \in Nat /\ n <= Len(left)
      /\ Len(rest) = Len(left) - n
  <2>1. rest \in Seq(Bytes)
    BY <1>f, Parts
  <2>2. Len(left) \in Nat /\ n \in Nat /\ n <= Len(left)
    BY <1>f
  <2>3. \A i \in n + 1 .. Len(left) : left[i] \in Bytes
    BY <1>f, <2>2
  <2> HIDE DEF left
  <2>4. Len(rest) = IF n + 1 <= Len(left) THEN Len(left) - (n + 1) + 1 ELSE 0
    BY <2>2, <2>3, SubSeqProperties DEF From
  <2>5. QED
    BY <2>1, <2>2, <2>4
<1>4. worker'.left = rest
  <2>1. CASE n = Len(left)
    <3>1. Len(rest) = 0
      BY <1>3, <2>1
    <3>2. rest = <<>>
      BY <1>3, <3>1
    <3>3. QED
      BY <1>1, <2>1, <3>2 DEF NewMessage
  <2>2. CASE n # Len(left)
    BY <1>1, <1>f, <2>2 DEF Workers
  <2>3. QED
    BY <2>1, <2>2
<1>5. ResponseBytes' = ResponseBytes
  <2>1. incoming.received \o (w2c \o SubSeq(left, 1, n)) \o rest = incoming.received \o w2c \o left
    <3>1. incoming.received \in Seq(Bytes) /\ w2c \in Seq(Bytes) /\ left \in Seq(Bytes)
      BY <1>f
    <3>2. QED
      BY <3>1, Moved, Zenon
  <2>2. QED
    BY <1>1, <1>4, <2>1, Zenon DEF ResponseBytes
<1>6. ResponseBytes # <<>>
  BY <1>2, <1>f, NoBytes DEF ResponseBytes
<1>7. CASE n = Len(left)
  <2>1. /\ worker'.phase = "size" /\ worker'.request = Nothing
        /\ worker'.received = <<>> /\ worker'.left = <<>>
    BY <1>1, <1>7 DEF NewMessage
  <2>2. RequestBytes' = <<>>
    <3>1. <<>> \o <<>> \o <<>> = <<>>
      BY <1>f, NoBytes, Zenon
    <3>2. QED
      BY <1>1, <1>2, <2>1, <3>1, Zenon DEF RequestBytes
  <2>3. Len(<<>>) < SizeBytes
    BY SizesAssumption
  <2>4. RequestWhole'
    BY <2>1, <2>2, <2>3 DEF RequestWhole
  <2>5. ResponseWhole'
    BY <1>1, <1>5, <1>i DEF WholeMessages, ResponseWhole
  <2>6. Turns'
    BY <1>1, <1>2, <1>5, <1>6, <1>i, <2>1, <2>2 DEF WholeMessages, Turns
  <2>7. NothingGarbled' /\ ShortOnlyIfCutOff'
    BY <1>1, <1>i, <2>1 DEF NothingGarbled, ShortOnlyIfCutOff
  <2>8. QED
    BY <1>1, <1>5, <1>6, <2>4, <2>5, <2>6, <2>7 DEF WholeMessages
<1>8. CASE n # Len(left)
  <2>1. /\ worker'.phase = "send" /\ worker'.request = worker.request
        /\ worker'.received = worker.received
    BY <1>1, <1>f, <1>8 DEF Workers
  <2>2. worker'.left # <<>>
    <3>1. Len(rest) # 0
      BY <1>3, <1>8
    <3>2. QED
      BY <1>4, <3>1, EmptySeq
  <2>3. RequestBytes' = RequestBytes
    BY <1>1, <2>1, Zenon DEF RequestBytes
  <2>4. RequestWhole'
    BY <1>1, <1>2, <2>1, <2>2 DEF RequestWhole
  <2>5. ResponseWhole'
    BY <1>1, <1>5, <1>i DEF WholeMessages, ResponseWhole
  <2>6. Turns'
    BY <1>1, <1>2, <1>5, <1>i, <2>1, <2>2, <2>3 DEF WholeMessages, Turns
  <2>7. NothingGarbled' /\ ShortOnlyIfCutOff'
    BY <1>1, <1>i, <2>1 DEF NothingGarbled, ShortOnlyIfCutOff
  <2>8. QED
    BY <1>1, <1>5, <1>6, <2>4, <2>5, <2>6, <2>7 DEF WholeMessages
<1>9. QED
  BY <1>7, <1>8

\* A worker that ends leaves the bytes as they are, and ends in the middle of
\* a message only when the rest of it was not sent or is lost under way.
LEMMA WorkerOverWhole ==
  ASSUME IInv, WorkerReceivesEnd \/ WorkerEnds
  PROVE  /\ WholeMessages' /\ NothingGarbled' /\ ShortOnlyIfCutOff'
         /\ RequestBytes' = RequestBytes /\ ResponseBytes' = ResponseBytes
         /\ worker'.request = worker.request
         /\ UNCHANGED <<controller, waiting, learned>>
<1>i. Inv /\ WholeMessages /\ NothingGarbled /\ ShortOnlyIfCutOff
  BY DEF IInv
<1>f. worker \in Workers
  BY <1>i, Fields
<1>1. /\ \E phase \in {"closed", "short"} : worker' = [worker EXCEPT !.phase = phase]
      /\ UNCHANGED <<controller, asked, waiting, learned, outgoing, incoming, c2w, w2c, broken>>
  BY DEF WorkerReceivesEnd, WorkerEnds, WorkerSteps
<1>2. /\ worker'.phase \in {"closed", "short"} /\ worker'.request = worker.request
      /\ worker'.received = worker.received /\ worker'.left = worker.left
  BY <1>1, <1>f DEF Workers
<1>3. RequestBytes' = RequestBytes /\ ResponseBytes' = ResponseBytes
  BY <1>1, <1>2, Zenon DEF RequestBytes, ResponseBytes
<1>4. RequestWhole'
  BY <1>1, <1>2, <1>3, <1>i DEF WholeMessages, RequestWhole
<1>5. ResponseWhole' /\ Turns'
  BY <1>1, <1>2, <1>3, <1>i DEF WholeMessages, ResponseWhole, Turns
<1>6. NothingGarbled'
  BY <1>1, <1>2, <1>i DEF NothingGarbled
<1>7. ASSUME worker'.phase = "short"
      PROVE  /\ controller # "running" \/ broken
             /\ c2w # <<>> \/ outgoing # <<>>
  <2>1. /\ worker.phase \in {"size", "message"} /\ (controller # "running" \/ broken)
        /\ worker.received # <<>>
    <3>1. CASE WorkerReceivesEnd
      <4>1. worker.received = <<>> => worker' = [worker EXCEPT !.phase = "closed"]
        BY <3>1 DEF WorkerReceivesEnd
      <4>2. worker.received # <<>>
        BY <1>7, <1>f, <4>1 DEF Workers
      <4>3. QED
        BY <3>1, <4>2 DEF WorkerReceivesEnd
    <3>2. CASE WorkerEnds
      <4>1. worker' = [worker EXCEPT !.phase = "closed"]
        BY <3>2 DEF WorkerEnds
      <4>2. QED
        BY <1>7, <1>f, <4>1 DEF Workers
    <3>3. QED
      BY <3>1, <3>2
  <2>2. ASSUME c2w = <<>>, outgoing = <<>> PROVE FALSE
    <3>1. worker.received \in Seq(Bytes)
      BY <1>i, Fields
    <3>2. worker.received \o <<>> \o <<>> = worker.received
      BY <3>1, NoBytes
    <3>3. RequestBytes = worker.received
      BY <2>1, <2>2, <3>2 DEF RequestBytes
    <3>4. Len(RequestBytes) \in Nat
      BY <3>1, <3>3
    <3>5. CASE worker.phase = "size"
      <4>1. PICK m \in Messages : RequestBytes = Serialize(m)
        BY <1>i, <2>1, <3>3, <3>5 DEF WholeMessages, RequestWhole
      <4>2. Len(RequestBytes) < SizeBytes
        BY <1>i, <3>3, <3>5 DEF WholeMessages, RequestWhole
      <4>3. Len(Serialize(m)) = SizeBytes + m.size /\ m.size \in Nat /\ SizeBytes \in Nat
        BY Sizes
      <4>4. QED
        BY <4>1, <4>2, <4>3
    <3>6. CASE worker.phase = "message"
      <4>1. PICK m \in Messages : RequestBytes = Body(m) /\ worker.size = m.size
        BY <1>i, <3>6 DEF WholeMessages, RequestWhole
      <4>2. Len(RequestBytes) < m.size
        BY <1>i, <3>3, <3>6, <4>1 DEF WholeMessages, RequestWhole
      <4>3. Len(Body(m)) = m.size /\ m.size \in Nat
        BY Sizes
      <4>4. QED
        BY <4>1, <4>2, <4>3
    <3>7. QED
      BY <2>1, <3>5, <3>6
  <2>3. QED
    BY <2>1, <2>2
<1>8. ShortOnlyIfCutOff'
  BY <1>1, <1>7 DEF ShortOnlyIfCutOff
<1>9. QED
  BY <1>1, <1>2, <1>3, <1>4, <1>5, <1>6, <1>8 DEF WholeMessages

\* No byte has been sent yet.
LEMMA InitWhole == Init => IInv
<1> SUFFICES ASSUME Init PROVE IInv
  OBVIOUS
<1>1. Inv
  BY InitInv
<1>2. /\ controller = "running" /\ waiting = FALSE /\ outgoing = <<>> /\ c2w = <<>> /\ w2c = <<>>
      /\ ~incoming.m_have_size /\ incoming.received = <<>>
      /\ worker.phase = "size" /\ worker.received = <<>> /\ worker.left = <<>>
      /\ worker.request = Nothing
  BY DEF Init, NewMessage
<1>3. RequestBytes = <<>> /\ ResponseBytes = <<>>
  <2>1. <<>> \o <<>> \o <<>> = <<>>
    BY EmptySeq, NoBytes, Zenon
  <2>2. QED
    BY <1>2, <2>1, Zenon DEF RequestBytes, ResponseBytes
<1>4. Len(<<>>) < SizeBytes
  BY SizesAssumption
<1>5. RequestWhole
  BY <1>2, <1>3, <1>4 DEF RequestWhole
<1>6. ResponseWhole /\ Turns
  BY <1>2, <1>3 DEF ResponseWhole, Turns
<1>7. NothingGarbled /\ ShortOnlyIfCutOff
  BY <1>2 DEF NothingGarbled, ShortOnlyIfCutOff
<1>8. QED
  BY <1>1, <1>5, <1>6, <1>7 DEF IInv, WholeMessages

\* Every step of both ends leaves the bytes those of one message.
LEMMA NextWhole == IInv /\ [Next]_vars => IInv'
<1> SUFFICES ASSUME IInv, [Next]_vars PROVE IInv'
  OBVIOUS
<1>i. Inv /\ WholeMessages /\ NothingGarbled /\ ShortOnlyIfCutOff
  BY DEF IInv
<1>0. Inv'
  BY <1>i, NextInv
<1> SUFFICES WholeMessages' /\ NothingGarbled' /\ ShortOnlyIfCutOff'
  BY <1>0 DEF IInv
<1>1. ASSUME NEW size \in RequestSizes, Ask(size)
      PROVE  WholeMessages' /\ NothingGarbled' /\ ShortOnlyIfCutOff'
  BY <1>1, AskWhole
<1>2. ASSUME NEW n \in 1..Len(outgoing), Send(n)
      PROVE  WholeMessages' /\ NothingGarbled' /\ ShortOnlyIfCutOff'
  BY <1>2, SendWhole
<1>3. ASSUME NEW n \in 1..Len(w2c), Receive(n)
      PROVE  WholeMessages' /\ NothingGarbled' /\ ShortOnlyIfCutOff'
  <2>1. controller = "running" /\ UNCHANGED <<asked, outgoing, c2w, worker, broken>>
    BY <1>3 DEF Receive
  <2>2. RequestBytes' = RequestBytes
    BY <2>1, Zenon DEF RequestBytes
  <2>3. RequestWhole'
    BY <1>i, <2>1, <2>2, Zenon DEF WholeMessages, RequestWhole
  <2>4. CASE controller' = "oversize"
    <3>1. ResponseWhole' /\ Turns'
      BY <2>4 DEF ResponseWhole, Turns
    <3>2. NothingGarbled' /\ ShortOnlyIfCutOff'
      BY <1>i, <2>1, <2>4 DEF NothingGarbled, ShortOnlyIfCutOff
    <3>3. QED
      BY <2>3, <3>1, <3>2 DEF WholeMessages
  <2>5. CASE controller' # "oversize"
    <3>1. PICK m \in Messages :
            /\ ResponseBytes # <<>>
            /\ UNCHANGED controller
            /\ \/ /\ UNCHANGED <<waiting, learned>>
                  /\ ResponseBytes' # <<>> /\ ResponseWhole'
               \/ /\ waiting' = FALSE
                  /\ ~incoming'.m_have_size /\ ResponseBytes' = <<>>
                  /\ worker.left = <<>>
      BY <1>3, <2>5, ReceiveWhole
    <3>2. NothingGarbled' /\ ShortOnlyIfCutOff'
      BY <1>i, <2>1, <3>1 DEF NothingGarbled, ShortOnlyIfCutOff
    <3>3. ResponseWhole'
      BY <3>1 DEF ResponseWhole
    <3>4. Turns'
      BY <1>i, <2>1, <2>2, <3>1 DEF WholeMessages, Turns
    <3>5. QED
      BY <2>3, <3>2, <3>3, <3>4 DEF WholeMessages
  <2>6. QED
    BY <2>4, <2>5
<1>4. ASSUME ReceiveEnd \/ ConnectionFails \/ ControllerEnds
      PROVE  WholeMessages' /\ NothingGarbled' /\ ShortOnlyIfCutOff'
  <2>1. /\ controller = "running" /\ controller' \in {"dropped", "gone"}
        /\ UNCHANGED <<asked, waiting, learned, outgoing, incoming, c2w, w2c, worker, broken>>
    BY <1>4 DEF ReceiveEnd, ConnectionFails, ControllerEnds
  <2>2. RequestBytes' = RequestBytes /\ ResponseBytes' = ResponseBytes
    BY <2>1, Zenon DEF RequestBytes, ResponseBytes
  <2>3. RequestWhole' /\ ResponseWhole' /\ Turns'
    BY <1>i, <2>1, <2>2 DEF WholeMessages, RequestWhole, ResponseWhole, Turns
  <2>4. NothingGarbled' /\ ShortOnlyIfCutOff'
    BY <1>i, <2>1 DEF NothingGarbled, ShortOnlyIfCutOff
  <2>5. QED
    BY <2>3, <2>4 DEF WholeMessages
<1>5. ASSUME NEW n \in 1..Len(c2w), WorkerReceives(n)
      PROVE  WholeMessages' /\ NothingGarbled' /\ ShortOnlyIfCutOff'
  <2>1. PICK m \in Messages :
          /\ RequestBytes # <<>>
          /\ worker.request = Nothing /\ worker'.left = <<>> /\ worker.left = <<>>
          /\ UNCHANGED <<controller, asked, waiting, learned, outgoing, incoming, w2c, broken>>
          /\ RequestWhole'
          /\ \/ /\ worker'.request = Nothing /\ worker'.phase \in {"size", "message"}
                /\ RequestBytes' # <<>>
             \/ worker'.request = m /\ worker'.phase = "handle"
    BY <1>5, WorkerReceivesWhole
  <2>2. ResponseBytes' = ResponseBytes
    BY <2>1, Zenon DEF ResponseBytes
  <2>3. ResponseWhole'
    BY <1>i, <2>1, <2>2 DEF WholeMessages, ResponseWhole
  <2>4. m # Nothing
    BY NothingAssumption
  <2>5. Turns'
    BY <1>i, <2>1, <2>2, <2>4 DEF WholeMessages, Turns
  <2>6. NothingGarbled' /\ ShortOnlyIfCutOff'
    BY <1>i, <2>1 DEF NothingGarbled, ShortOnlyIfCutOff
  <2>7. QED
    BY <2>1, <2>3, <2>5, <2>6 DEF WholeMessages
<1>6. ASSUME WorkerReceivesEnd \/ WorkerEnds
      PROVE  WholeMessages' /\ NothingGarbled' /\ ShortOnlyIfCutOff'
  BY <1>6, WorkerOverWhole
<1>7. ASSUME NEW size \in ResponseSizes, WorkerHandles(size)
      PROVE  WholeMessages' /\ NothingGarbled' /\ ShortOnlyIfCutOff'
  BY <1>7, HandlesWhole
<1>8. ASSUME NEW n \in 1..Len(worker.left), WorkerSends(n)
      PROVE  WholeMessages' /\ NothingGarbled' /\ ShortOnlyIfCutOff'
  BY <1>8, WorkerSendsWhole
<1>9. CASE Breaks \/ UNCHANGED vars
  <2>1. /\ UNCHANGED <<controller, asked, waiting, learned, outgoing, incoming, c2w, w2c, worker>>
        /\ broken' \in {broken, TRUE}
    BY <1>9 DEF Breaks, vars
  <2>2. RequestBytes' = RequestBytes /\ ResponseBytes' = ResponseBytes
    BY <2>1, Zenon DEF RequestBytes, ResponseBytes
  <2>3. RequestWhole' /\ ResponseWhole' /\ Turns'
    BY <1>i, <2>1, <2>2 DEF WholeMessages, RequestWhole, ResponseWhole, Turns
  <2>4. NothingGarbled' /\ ShortOnlyIfCutOff'
    BY <1>i, <2>1 DEF NothingGarbled, ShortOnlyIfCutOff
  <2>5. QED
    BY <2>3, <2>4 DEF WholeMessages
<1>10. QED
  BY <1>1, <1>2, <1>3, <1>4, <1>5, <1>6, <1>7, <1>8, <1>9 DEF Next

LEMMA AlwaysIInv == Spec => []IInv
  BY InitWhole, NextWhole, PTL DEF Spec

\* At every moment, what one end has received, what travels and what the
\* other end has left to send make up one message, or what follows its size;
\* and the bytes of a request, the request in the worker's hands and the
\* bytes of the response follow upon each other.
THEOREM AlwaysWholeMessages == Spec => []WholeMessages
<1>1. IInv => WholeMessages
  BY DEF IInv
<1>2. QED
  BY AlwaysIInv, <1>1, PTL

\* For all sizes of messages and wherever recv() and send() cut them, neither
\* end takes a part of one message for a part of another: nothing is ever
\* decoded from bytes that are not one message.
THEOREM NeverGarbled == Spec => []NothingGarbled
<1>1. IInv => NothingGarbled
  BY DEF IInv
<1>2. QED
  BY AlwaysIInv, <1>1, PTL

\* A worker finds a message cut short only if the controller ended or the
\* connection broke, with a part of the message unsent or lost under way.
THEOREM ShortOnlyWhenCutOff == Spec => []ShortOnlyIfCutOff
<1>1. IInv => ShortOnlyIfCutOff
  BY DEF IInv
<1>2. QED
  BY AlwaysIInv, <1>1, PTL

-----------------------------------------------------------------------------
(* The refinement: bytes in pieces carry whole messages.                   *)

\* How far the exchange is, case by case.
LEMMA StageIs ==
  /\ controller # "running" => Stage = "over" /\ Understood = Nothing
  /\ controller = "running" /\ ~waiting => Stage = "idle" /\ Understood = learned
  /\ controller = "running" /\ waiting /\ ResponseBytes # <<>> =>
       Stage = "answered" /\ Understood = MessageIn(ResponseBytes)
  /\ controller = "running" /\ waiting /\ ResponseBytes = <<>> /\ worker.request # Nothing =>
       Stage = "handled" /\ Understood = worker.request
  /\ controller = "running" /\ waiting /\ ResponseBytes = <<>> /\ worker.request = Nothing =>
       Stage = "asked" /\ Understood = MessageIn(RequestBytes)
BY DEF Stage, Understood

\* The same after a step.
LEMMA NextStageIs ==
  /\ controller' # "running" => Stage' = "over" /\ Understood' = Nothing
  /\ controller' = "running" /\ ~waiting' => Stage' = "idle" /\ Understood' = learned'
  /\ controller' = "running" /\ waiting' /\ ResponseBytes' # <<>> =>
       Stage' = "answered" /\ Understood' = MessageIn(ResponseBytes')
  /\ controller' = "running" /\ waiting' /\ ResponseBytes' = <<>> /\ worker'.request # Nothing =>
       Stage' = "handled" /\ Understood' = worker'.request
  /\ controller' = "running" /\ waiting' /\ ResponseBytes' = <<>> /\ worker'.request = Nothing =>
       Stage' = "asked" /\ Understood' = MessageIn(RequestBytes')
BY DEF Stage, Understood

\* A step that leaves the controller, the bytes and the messages as they are
\* is no step of the exchange.
LEMMA SameStage ==
  ASSUME UNCHANGED <<controller, waiting, learned>>, worker'.request = worker.request,
         RequestBytes' = RequestBytes, ResponseBytes' = ResponseBytes
  PROVE  Stage' = Stage /\ Understood' = Understood
BY DEF Stage, Understood

\* Every step on bytes is one step of the exchange of messages, or none.
LEMMA StepCarries == IInv /\ [Next]_vars => [E!Next]_<<Stage, Understood>>
<1> SUFFICES ASSUME IInv, [Next]_vars
             PROVE  E!Next \/ (Stage' = Stage /\ Understood' = Understood)
  OBVIOUS
<1>i. Inv /\ WholeMessages
  BY DEF IInv
<1>g. ASSUME controller = "running", controller' # "running"
      PROVE  E!Next
  <2>1. Stage' = "over" /\ Understood' = Nothing
    BY <1>g, NextStageIs
  <2>2. Stage # "over"
    BY <1>g DEF Stage
  <2>3. E!GiveUp
    BY <2>1, <2>2 DEF E!GiveUp
  <2>4. QED
    BY <2>3 DEF E!Next
<1>1. ASSUME NEW size \in RequestSizes, Ask(size)
      PROVE  E!Next
  <2>1. controller = "running" /\ controller' = "running" /\ ~waiting /\ waiting'
        /\ worker' = worker
    BY <1>1 DEF Ask
  <2>2. PICK m \in Messages : RequestBytes' = Serialize(m)
    BY <1>1, AskWhole
  <2>3. worker'.request = Nothing /\ ResponseBytes' = <<>>
    BY <1>1, <2>1, AskWhole
  <2>4. MessageIn(RequestBytes') = m
    BY <2>2, Sizes
  <2>5. Stage = "idle"
    BY <2>1, StageIs
  <2>6. Stage' = "asked" /\ Understood' = m
    BY <2>1, <2>3, <2>4, NextStageIs
  <2>7. E!Ask
    BY <2>5, <2>6 DEF E!Ask, E!Moves
  <2>8. QED
    BY <2>7 DEF E!Next
<1>2. ASSUME NEW n \in 1..Len(outgoing), Send(n)
      PROVE  Stage' = Stage /\ Understood' = Understood
  <2>1. UNCHANGED <<controller, waiting, learned>> /\ worker'.request = worker.request
    BY <1>2 DEF Send
  <2>2. RequestBytes' = RequestBytes /\ ResponseBytes' = ResponseBytes
    BY <1>2, SendWhole
  <2>3. QED
    BY <2>1, <2>2, SameStage
<1>3. ASSUME NEW n \in 1..Len(w2c), Receive(n)
      PROVE  E!Next \/ (Stage' = Stage /\ Understood' = Understood)
  <2>1. controller = "running" /\ worker' = worker
    BY <1>3 DEF Receive
  <2>2. CASE controller' = "oversize"
    BY <1>g, <2>1, <2>2
  <2>3. CASE controller' # "oversize"
    <3>1. PICK m \in Messages :
            /\ ResponseBytes # <<>> /\ MessageIn(ResponseBytes) = m
            /\ UNCHANGED controller
            /\ \/ /\ UNCHANGED <<waiting, learned>>
                  /\ ResponseBytes' # <<>> /\ MessageIn(ResponseBytes') = m
               \/ /\ waiting' = FALSE /\ learned' = m
      BY <1>3, <2>3, ReceiveWhole
    <3>2. waiting
      BY <1>i, <2>1, <3>1 DEF WholeMessages, Turns
    <3>3. Stage = "answered" /\ Understood = m
      BY <2>1, <3>1, <3>2, StageIs
    <3>4. CASE waiting' = FALSE /\ learned' = m
      <4>1. Stage' = "idle" /\ Understood' = m
        BY <2>1, <3>1, <3>4, NextStageIs
      <4>2. E!Learn
        BY <3>3, <4>1 DEF E!Learn, E!Moves
      <4>3. QED
        BY <4>2 DEF E!Next
    <3>5. CASE UNCHANGED waiting /\ ResponseBytes' # <<>> /\ MessageIn(ResponseBytes') = m
      <4>1. Stage' = "answered" /\ Understood' = m
        BY <2>1, <3>1, <3>2, <3>5, NextStageIs
      <4>2. QED
        BY <3>3, <4>1
    <3>6. QED
      BY <3>1, <3>4, <3>5
  <2>4. QED
    BY <2>2, <2>3
<1>4. ASSUME ReceiveEnd \/ ConnectionFails \/ ControllerEnds
      PROVE  E!Next
  <2>1. controller = "running" /\ controller' # "running"
    BY <1>4 DEF ReceiveEnd, ConnectionFails, ControllerEnds
  <2>2. QED
    BY <1>g, <2>1
<1>5. ASSUME NEW n \in 1..Len(c2w), WorkerReceives(n)
      PROVE  E!Next \/ (Stage' = Stage /\ Understood' = Understood)
  <2>1. PICK m \in Messages :
          /\ RequestBytes # <<>> /\ MessageIn(RequestBytes) = m
          /\ worker.request = Nothing /\ worker'.left = <<>> /\ worker.left = <<>>
          /\ UNCHANGED <<controller, asked, waiting, learned, outgoing, incoming, w2c, broken>>
          /\ \/ /\ worker'.request = Nothing
                /\ RequestBytes' # <<>> /\ MessageIn(RequestBytes') = m
             \/ worker'.request = m
    BY <1>5, WorkerReceivesWhole
  <2>2. ResponseBytes' = ResponseBytes
    BY <2>1, Zenon DEF ResponseBytes
  <2>3. CASE controller # "running"
    <3>1. Stage = "over" /\ Understood = Nothing
      BY <2>3, StageIs
    <3>2. Stage' = "over" /\ Understood' = Nothing
      BY <2>1, <2>3, NextStageIs
    <3>3. QED
      BY <3>1, <3>2
  <2>4. CASE controller = "running"
    <3>1. waiting /\ ResponseBytes = <<>>
      BY <1>i, <2>1, <2>4 DEF WholeMessages, Turns
    <3>2. Stage = "asked" /\ Understood = m
      BY <2>1, <2>4, <3>1, StageIs
    <3>3. m # Nothing
      BY NothingAssumption
    <3>4. CASE worker'.request = m
      <4>1. Stage' = "handled" /\ Understood' = m
        BY <2>1, <2>2, <2>4, <3>1, <3>3, <3>4, NextStageIs
      <4>2. E!Hear
        BY <3>2, <4>1 DEF E!Hear, E!Moves
      <4>3. QED
        BY <4>2 DEF E!Next
    <3>5. CASE worker'.request = Nothing /\ MessageIn(RequestBytes') = m
      <4>1. Stage' = "asked" /\ Understood' = m
        BY <2>1, <2>2, <2>4, <3>1, <3>5, NextStageIs
      <4>2. QED
        BY <3>2, <4>1
    <3>6. QED
      BY <2>1, <3>4, <3>5
  <2>5. QED
    BY <2>3, <2>4
<1>6. ASSUME WorkerReceivesEnd \/ WorkerEnds
      PROVE  Stage' = Stage /\ Understood' = Understood
  BY <1>6, WorkerOverWhole, SameStage
<1>7. ASSUME NEW size \in ResponseSizes, WorkerHandles(size)
      PROVE  E!Next \/ (Stage' = Stage /\ Understood' = Understood)
  <2>1. UNCHANGED <<controller, waiting, learned>>
    BY <1>7 DEF WorkerHandles, WorkerSteps
  <2>2. CASE controller # "running"
    <3>1. Stage = "over" /\ Understood = Nothing
      BY <2>2, StageIs
    <3>2. Stage' = "over" /\ Understood' = Nothing
      BY <2>1, <2>2, NextStageIs
    <3>3. QED
      BY <3>1, <3>2
  <2>3. CASE controller = "running"
    <3>1. worker.request # Nothing /\ ResponseBytes = <<>>
      BY <1>7, <2>3, HandlesWhole
    <3>2. PICK m \in Messages : ResponseBytes' = Serialize(m)
      BY <1>7, <2>3, HandlesWhole
    <3>3. waiting
      BY <1>i, <2>3, <3>1 DEF WholeMessages, Turns
    <3>4. Stage = "handled"
      BY <2>3, <3>1, <3>3, StageIs
    <3>5. ResponseBytes' # <<>> /\ MessageIn(ResponseBytes') = m
      BY <3>2, Sizes
    <3>6. Stage' = "answered" /\ Understood' = m
      BY <2>1, <2>3, <3>3, <3>5, NextStageIs
    <3>7. E!Answer
      BY <3>4, <3>6 DEF E!Answer, E!Moves
    <3>8. QED
      BY <3>7 DEF E!Next
  <2>4. QED
    BY <2>2, <2>3
<1>8. ASSUME NEW n \in 1..Len(worker.left), WorkerSends(n)
      PROVE  Stage' = Stage /\ Understood' = Understood
  <2>1. /\ ResponseBytes # <<>> /\ ResponseBytes' = ResponseBytes
        /\ UNCHANGED <<controller, waiting, learned>>
    BY <1>8, WorkerSendsWhole
  <2>2. QED
    BY <2>1 DEF Stage, Understood
<1>9. CASE Breaks \/ UNCHANGED vars
  <2>1. /\ UNCHANGED <<controller, asked, waiting, learned, outgoing, incoming, c2w, w2c, worker>>
        /\ broken' \in {broken, TRUE}
    BY <1>9 DEF Breaks, vars
  <2>2. RequestBytes' = RequestBytes /\ ResponseBytes' = ResponseBytes
    BY <2>1, Zenon DEF RequestBytes, ResponseBytes
  <2>3. QED
    BY <2>1, <2>2, SameStage
<1>10. QED
  BY <1>1, <1>2, <1>3, <1>4, <1>5, <1>6, <1>7, <1>8, <1>9 DEF Next

\* OutgoingBuffer and IncomingBuffer at one end, send_message() and
\* receive_message() at the other, implement the exchange of whole messages:
\* the worker hears exactly what was asked, the controller learns exactly
\* what was answered, once, and asks nothing before that.
THEOREM FramingCarriesMessages == Spec => CarriesMessages
<1>1. Init => E!Init
  BY DEF Init, E!Init, Stage, Understood
<1>2. QED
  BY <1>1, StepCarries, AlwaysIInv, PTL DEF Spec, CarriesMessages, E!Spec

=============================================================================
