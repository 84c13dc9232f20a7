-------------------------- MODULE FramingProperties --------------------------
(***************************************************************************)
(* What the framing of messages must never get wrong, and that it          *)
(* implements the exchange of whole messages.                              *)
(***************************************************************************)
EXTENDS Framing

\* IncomingBuffer never asks recv() for bytes beyond the end of m_size or of
\* m_buffer, although m_buffer is kept from message to message and only
\* replaced by a larger one; and what a peer says of a message's size never
\* makes the buffer larger than MAX_INCOMING_FILE_SIZE.
WithinBuffer ==
  /\ incoming.m_capacity <= MAX_INCOMING_FILE_SIZE
  /\ IF incoming.m_have_size
     THEN /\ Len(incoming.received) <= incoming.m_size
          /\ incoming.m_size <= incoming.m_capacity
     ELSE Len(incoming.received) < SizeBytes

\* However the streams cut the messages up, neither end ever takes a part of
\* one message for a part of another: "Can't decode" is never printed.
NothingGarbled == controller # "garbled" /\ worker.phase # "garbled"

\* The worker stops in the middle of a message ("Received ... bytes instead
\* of ...") only if the controller ended or the connection broke with a part
\* of it unsent or under way: MSG_WAITALL is never short otherwise, and an end
\* after the last whole message is always taken for a graceful shutdown.
ShortOnlyIfCutOff ==
  worker.phase = "short" =>
    /\ controller # "running" \/ broken
    /\ c2w # <<>> \/ outgoing # <<>>

\* The bytes of the request, and of the response, that the other end has not
\* made a message of yet.
RequestBytes == worker.received \o c2w \o outgoing
ResponseBytes == incoming.received \o w2c \o worker.left

MessageIn(bytes) == IF bytes = <<>> THEN Nothing ELSE bytes[1][1]

\* The exchange, as far as the controller and the worker have got.
Stage ==
  IF controller # "running" THEN "over"
  ELSE IF ~waiting THEN "idle"
  ELSE IF ResponseBytes # <<>> THEN "answered"
  ELSE IF worker.request # Nothing THEN "handled"
  ELSE "asked"

Understood ==
  CASE Stage = "over"     -> Nothing
    [] Stage = "idle"     -> learned
    [] Stage = "asked"    -> MessageIn(RequestBytes)
    [] Stage = "handled"  -> worker.request
    [] Stage = "answered" -> MessageIn(ResponseBytes)

E == INSTANCE Exchange WITH stage <- Stage, message <- Understood

\* OutgoingBuffer and IncomingBuffer at one end, send_message() and
\* receive_message() at the other, carry whole messages: the worker handles
\* exactly the request that was sent, the controller dispatches on exactly
\* the response to it, once, and sends nothing before it has.
CarriesMessages == E!Spec

-----------------------------------------------------------------------------
(* Parts of the inductive invariant of module FramingProofs.               *)

\* What follows the size of a message.
Body(m) == From(Serialize(m), SizeBytes)

\* While the worker has not made a message of it, what it has received, what
\* travels and what is left to send make up one request, or what follows its
\* size.
RequestWhole ==
  /\ worker.request = Nothing =>
       /\ worker.left = <<>>
       /\ \/ RequestBytes = <<>>
          \/ \E m \in Messages : RequestBytes \in {Serialize(m), Body(m)}
  /\ worker.request # Nothing => c2w = <<>> /\ outgoing = <<>>
  /\ worker.phase = "size" =>
       /\ worker.request = Nothing /\ Len(worker.received) < SizeBytes
       /\ RequestBytes = <<>> \/ \E m \in Messages : RequestBytes = Serialize(m)
  /\ worker.phase = "message" =>
       /\ worker.request = Nothing /\ Len(worker.received) < worker.size
       /\ \E m \in Messages : RequestBytes = Body(m) /\ worker.size = m.size
  /\ worker.phase = "handle" => worker.request # Nothing /\ worker.left = <<>>
  /\ worker.phase = "send" => worker.request # Nothing /\ worker.left # <<>>

\* So do the bytes of the response; a controller that refused one for its
\* size has thrown away what it had of it.
ResponseWhole ==
  controller # "oversize" =>
    IF incoming.m_have_size
    THEN /\ Len(incoming.received) < incoming.m_size
         /\ \E m \in Messages : ResponseBytes = Body(m) /\ incoming.m_size = m.size
    ELSE ResponseBytes = <<>> \/ \E m \in Messages : ResponseBytes = Serialize(m)

\* The bytes of a request, the request in the hands of the worker and the
\* bytes of its response follow upon each other.
Turns ==
  controller # "oversize" =>
    /\ waiting <=> worker.request # Nothing \/ RequestBytes # <<>> \/ ResponseBytes # <<>>
    /\ worker.request = Nothing => RequestBytes = <<>> \/ ResponseBytes = <<>>
    /\ worker.request # Nothing => worker.left # <<>> \/ ResponseBytes = <<>>

\* At every moment the bytes of a connection are those of one message.
WholeMessages == RequestWhole /\ ResponseWhole /\ Turns

-----------------------------------------------------------------------------
\* A request is answered, or the controller or the worker ends or their
\* connection breaks, whatever the sizes of the pieces in which bytes arrive.
RequestsAnswered ==
  waiting ~> (~waiting \/ controller # "running" \/ WorkerGone \/ broken)
=============================================================================
