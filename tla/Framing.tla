------------------------------- MODULE Framing -------------------------------
(***************************************************************************)
(* Messages on a connection, byte by byte: OutgoingBuffer and              *)
(* IncomingBuffer at the controller's end, send_message() and              *)
(* receive_message() at the worker's, and a connection with a stream of    *)
(* bytes each way that delivers them in pieces of any length, and that may *)
(* break at any time.                                                      *)
(*                                                                         *)
(* A byte is <<message, position>>.  A message is preceded by its size in  *)
(* SizeBytes bytes.  Buffers are the bytes they still have to send, or     *)
(* have received.                                                          *)
(***************************************************************************)
EXTENDS Integers, Sequences

CONSTANTS
  SizeBytes,               \* sizeof(uint32_t)
  MAX_INCOMING_FILE_SIZE,
  RequestSizes,            \* sizes of serialized requests and responses
  ResponseSizes,
  WireSize,                \* bytes that a stream holds (a bound)
  Exchanges,               \* requests made (a bound)
  Nothing                  \* no message

\* Every message has a request_type, so none is serialized to zero bytes.
ASSUME SizesAssumption ==
  /\ SizeBytes \in Nat \ {0}
  /\ MAX_INCOMING_FILE_SIZE \in Nat
  /\ RequestSizes \subseteq Nat \ {0}
  /\ ResponseSizes \subseteq Nat \ {0}
ASSUME BoundsAssumption == WireSize \in Nat \ {0} /\ Exchanges \in Nat

Messages ==
  [kind : {"request"}, number : 1..Exchanges, size : RequestSizes] \cup
  [kind : {"response"}, number : 1..Exchanges, size : ResponseSizes]

ASSUME NothingAssumption == Nothing \notin Messages

Bytes == Messages \X (Nat \ {0})

\* set_message() and send_message(): the size, then the message.
Serialize(m) == [i \in 1..SizeBytes + m.size |-> <<m, i>>]

\* ntohl() of the size, and ParseFromArray().
SizeIn(header) == header[1][1].size
Parse(body) ==
  LET m == body[1][1]
  IN  IF body # <<>> /\ body = [i \in 1..m.size |-> <<m, SizeBytes + i>>] THEN m ELSE Nothing

VARIABLES
  controller,   \* "running", or how it ended
  asked,        \* requests made so far
  waiting,      \* is the RemoteWorker waiting for a response?
  learned,      \* the last response decoded
  outgoing,     \* OutgoingBuffer: the bytes left to send
  incoming,     \* IncomingBuffer
  c2w, w2c,     \* the two streams
  worker,       \* the worker in receive_message(), its handler or send_message()
  broken        \* was the connection closed on the way, reset or lost?

vars == <<controller, asked, waiting, learned, outgoing, incoming, c2w, w2c, worker, broken>>

IncomingBuffers ==
  [m_have_size : BOOLEAN, m_size : Nat, received : Seq(Bytes), m_capacity : Nat]

Workers ==
  [phase : {"size", "message", "handle", "send", "closed", "short", "garbled"},
   size : Nat, received : Seq(Bytes), request : Messages \cup {Nothing},
   left : Seq(Bytes)]

TypeOK ==
  /\ controller \in {"running", "gone", "dropped", "oversize", "garbled"}
  /\ asked \in 0..Exchanges
  /\ waiting \in BOOLEAN
  /\ learned \in Messages \cup {Nothing}
  /\ outgoing \in Seq(Bytes)
  /\ incoming \in IncomingBuffers
  /\ c2w \in Seq(Bytes)
  /\ w2c \in Seq(Bytes)
  /\ worker \in Workers
  /\ broken \in BOOLEAN

NewMessage == [phase |-> "size", size |-> 0, received |-> <<>>, request |-> Nothing,
               left |-> <<>>]

Init ==
  /\ controller = "running"
  /\ asked = 0 /\ waiting = FALSE /\ learned = Nothing
  /\ outgoing = <<>>
  /\ incoming = [m_have_size |-> FALSE, m_size |-> 0, received |-> <<>>, m_capacity |-> 0]
  /\ c2w = <<>> /\ w2c = <<>>
  /\ worker = NewMessage
  /\ broken = FALSE

From(s, n) == SubSeq(s, n + 1, Len(s))

-----------------------------------------------------------------------------
(* The controller's end.                                                   *)

\* m_have_size forgotten by reset().
reset_KeepsHaveSize(buffer) == [buffer EXCEPT !.m_size = 0, !.received = <<>>]

\* IncomingBuffer::reset()
reset(buffer) == [buffer EXCEPT !.m_have_size = FALSE, !.m_size = 0, !.received = <<>>]

\* The next request sent before the response to the last.
Ask_WhileWaiting(size) ==
  /\ controller = "running"
  /\ asked < Exchanges
  /\ asked' = asked + 1
  /\ waiting' = TRUE
  /\ incoming' = reset(incoming)
  /\ outgoing' = Serialize([kind |-> "request", number |-> asked + 1, size |-> size])
  /\ UNCHANGED <<controller, learned, c2w, w2c, worker, broken>>

\* RemoteWorker::send_request()
Ask(size) ==
  /\ controller = "running"
  /\ ~waiting
  /\ asked < Exchanges
  /\ asked' = asked + 1
  /\ waiting' = TRUE
  /\ incoming' = reset(incoming)
  /\ outgoing' = Serialize([kind |-> "request", number |-> asked + 1, size |-> size])
  /\ UNCHANGED <<controller, learned, c2w, w2c, worker, broken>>

\* All bytes taken for sent, however few were.
Send_TakenForAll(n) ==
  /\ controller = "running"
  /\ n \in 1..Len(outgoing)
  /\ n <= WireSize - Len(c2w)
  /\ c2w' = c2w \o SubSeq(outgoing, 1, n)
  /\ outgoing' = <<>>
  /\ UNCHANGED <<controller, asked, waiting, learned, incoming, w2c, worker, broken>>

\* OutgoingBuffer::send(), when send() takes the first n bytes.
Send(n) ==
  /\ controller = "running"
  /\ n \in 1..Len(outgoing)
  /\ n <= WireSize - Len(c2w)
  /\ c2w' = c2w \o SubSeq(outgoing, 1, n)
  /\ outgoing' = From(outgoing, n)
  /\ UNCHANGED <<controller, asked, waiting, learned, incoming, w2c, worker, broken>>

need_receive(buffer) == ~buffer.m_have_size \/ Len(buffer.received) < buffer.m_size

\* The second argument of recv().
bytes_left(buffer) ==
  (IF buffer.m_have_size THEN buffer.m_size ELSE SizeBytes) - Len(buffer.received)

\* The buffer allocated for the first message used for all.
received_here_NeverGrown(buffer, bytes) ==
  LET received == buffer.received \o bytes
      size == SizeIn(received)
  IN  IF buffer.m_have_size \/ Len(received) < SizeBytes
      THEN [buffer EXCEPT !.received = received]
      ELSE [m_have_size |-> TRUE, m_size |-> size, received |-> <<>>,
            m_capacity |-> IF buffer.m_capacity = 0 THEN size ELSE buffer.m_capacity]

\* IncomingBuffer::receive(), when recv() gives these bytes.
received_here(buffer, bytes) ==
  LET received == buffer.received \o bytes
      size == SizeIn(received)
  IN  IF buffer.m_have_size \/ Len(received) < SizeBytes
      THEN [buffer EXCEPT !.received = received]
      ELSE [m_have_size |-> TRUE, m_size |-> size, received |-> <<>>,
            m_capacity |-> IF buffer.m_capacity < size THEN size ELSE buffer.m_capacity]

\* RemoteWorker::receive()
Receive(n) ==
  /\ controller = "running"
  /\ n \in 1..Len(w2c)
  /\ n <= bytes_left(incoming)
  /\ LET buffer == received_here(incoming, SubSeq(w2c, 1, n))
     IN  IF buffer.m_size > MAX_INCOMING_FILE_SIZE
         THEN controller' = "oversize" /\ UNCHANGED <<waiting, learned, incoming>>
         ELSE IF need_receive(buffer)
         THEN incoming' = buffer /\ UNCHANGED <<controller, waiting, learned>>
         ELSE /\ learned' = Parse(buffer.received)
              /\ controller' = IF learned' = Nothing THEN "garbled" ELSE controller
              /\ incoming' = reset(buffer)
              /\ waiting' = FALSE
  /\ w2c' = From(w2c, n)
  /\ UNCHANGED <<asked, outgoing, c2w, worker, broken>>

WorkerGone == worker.phase \in {"closed", "short", "garbled"}

\* recv() returns 0, after the worker's last byte or at a break before it.
\* The worker is dropped if the message was expected; if the size was,
\* nothing changes and the next poll() reports the same again.
ReceiveEnd ==
  /\ controller = "running"
  /\ broken \/ (WorkerGone /\ w2c = <<>>)
  /\ incoming.m_have_size
  /\ controller' = "dropped"
  /\ UNCHANGED <<asked, waiting, learned, outgoing, incoming, c2w, w2c, worker, broken>>

\* recv() or send() returns -1, or poll() reports a hangup or an error.
ConnectionFails ==
  /\ controller = "running"
  /\ broken
  /\ controller' = "dropped"
  /\ UNCHANGED <<asked, waiting, learned, outgoing, incoming, c2w, w2c, worker, broken>>

\* The controller returns, exits or is killed.
ControllerEnds ==
  /\ controller = "running"
  /\ controller' = "gone"
  /\ UNCHANGED <<asked, waiting, learned, outgoing, incoming, c2w, w2c, worker, broken>>

-----------------------------------------------------------------------------
(* The worker's end.  recv() with MSG_WAITALL goes on until all bytes are   *)
(* there or the stream ends; send() until all bytes are taken.             *)

WorkerSteps == UNCHANGED <<controller, asked, waiting, learned, outgoing, incoming, broken>>

Wanted == (IF worker.phase = "size" THEN SizeBytes ELSE worker.size) - Len(worker.received)

\* MSG_WAITALL forgotten: the bytes that are there taken for all of them.
WorkerReceives_WithoutWaitall(n) ==
  /\ worker.phase \in {"size", "message"}
  /\ n \in 1..Len(c2w)
  /\ n <= Wanted
  /\ LET received == SubSeq(c2w, 1, n)
         request == Parse(received)
     IN  worker' =
           IF worker.phase = "size"
           THEN [worker EXCEPT !.phase = "message", !.size = SizeIn(received)]
           ELSE [worker EXCEPT !.phase = IF request = Nothing THEN "garbled" ELSE "handle",
                               !.request = request]
  /\ c2w' = From(c2w, n)
  /\ UNCHANGED w2c /\ WorkerSteps

\* receive_message(), when recv() comes by n more bytes.
WorkerReceives(n) ==
  /\ worker.phase \in {"size", "message"}
  /\ n \in 1..Len(c2w)
  /\ n <= Wanted
  /\ LET received == worker.received \o SubSeq(c2w, 1, n)
         request == Parse(received)
     IN  worker' =
           IF n < Wanted THEN [worker EXCEPT !.received = received]
           ELSE IF worker.phase = "size"
           THEN [worker EXCEPT !.phase = "message", !.size = SizeIn(received), !.received = <<>>]
           ELSE [worker EXCEPT !.phase = IF request = Nothing THEN "garbled" ELSE "handle",
                               !.request = request]
  /\ c2w' = From(c2w, n)
  /\ UNCHANGED w2c /\ WorkerSteps

\* The stream ends, after the controller's last byte or at a break before it:
\* nothing more is a shutdown, part of what was asked for "shouldn't happen".
WorkerReceivesEnd ==
  /\ worker.phase \in {"size", "message"}
  /\ broken \/ (controller # "running" /\ c2w = <<>>)
  /\ worker' = [worker EXCEPT !.phase = IF worker.received = <<>> THEN "closed" ELSE "short"]
  /\ UNCHANGED <<c2w, w2c>> /\ WorkerSteps

\* The handler, and the serialization of its response.
WorkerHandles(size) ==
  /\ worker.phase = "handle"
  /\ worker' = [worker EXCEPT !.phase = "send",
                  !.left = Serialize([kind |-> "response", number |-> worker.request.number,
                                      size |-> size])]
  /\ UNCHANGED <<c2w, w2c>> /\ WorkerSteps

\* send_message(), when the stream takes n more bytes.
WorkerSends(n) ==
  /\ worker.phase = "send"
  /\ n \in 1..Len(worker.left)
  /\ n <= WireSize - Len(w2c)
  /\ w2c' = w2c \o SubSeq(worker.left, 1, n)
  /\ worker' = IF n = Len(worker.left) THEN NewMessage
               ELSE [worker EXCEPT !.left = From(worker.left, n)]
  /\ UNCHANGED c2w /\ WorkerSteps

\* The worker is killed, or a call on its socket fails.
WorkerEnds ==
  /\ ~WorkerGone
  /\ worker' = [worker EXCEPT !.phase = "closed"]
  /\ UNCHANGED <<c2w, w2c>> /\ WorkerSteps

-----------------------------------------------------------------------------
(* The connection breaks: it is reset or lost, or the proxy ends or closes  *)
(* the pair.  Either end may still get some of the bytes under way to it,   *)
(* and then gets no more.                                                  *)
Breaks ==
  /\ ~broken
  /\ broken' = TRUE
  /\ UNCHANGED <<controller, asked, waiting, learned, outgoing, incoming, c2w, w2c, worker>>

-----------------------------------------------------------------------------

Next ==
  \/ \E size \in RequestSizes : Ask(size)
  \/ \E n \in 1..Len(outgoing) : Send(n)
  \/ \E n \in 1..Len(w2c) : Receive(n)
  \/ ReceiveEnd \/ ConnectionFails \/ ControllerEnds
  \/ \E n \in 1..Len(c2w) : WorkerReceives(n)
  \/ WorkerReceivesEnd
  \/ \E size \in ResponseSizes : WorkerHandles(size)
  \/ \E n \in 1..Len(worker.left) : WorkerSends(n)
  \/ WorkerEnds
  \/ Breaks

\* Both processes are scheduled, each is bound to make its next call, and what
\* a stream holds arrives as long as the connection is not broken.
Fairness ==
  /\ WF_vars(~broken /\ \E n \in 1..Len(outgoing) : Send(n))
  /\ WF_vars(~broken /\ \E n \in 1..Len(w2c) : Receive(n))
  /\ WF_vars(~broken /\ \E n \in 1..Len(c2w) : WorkerReceives(n))
  /\ WF_vars(\E size \in ResponseSizes : WorkerHandles(size))
  /\ WF_vars(~broken /\ \E n \in 1..Len(worker.left) : WorkerSends(n))

Spec == Init /\ [][Next]_vars
FairSpec == Spec /\ Fairness
=============================================================================
