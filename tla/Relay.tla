-------------------------------- MODULE Relay --------------------------------
(***************************************************************************)
(* The proxy between one controller, which is a single thread with one     *)
(* connection for each worker, and workers that answer one request each.   *)
(* The peers of Proxy whose processes are the same one cannot read while   *)
(* that process is in send(): the sockets are blocking.                    *)
(***************************************************************************)
EXTENDS Proxy

\* OutgoingBuffer::send() has begun on this connection and not returned.
Sending == {c \in Controllers : written[c] \in 1..MaxWritten[c]-1}

ControllerSends(c) == Writes(c) /\ Sending \subseteq {c}

ControllerReceives(c) == Reads(c) /\ Sending = {}

\* send_message() of the response, once the whole request is read.
WorkerSends(w) ==
  /\ read[w] # <<>>
  /\ LET writer == read[w][1][1] IN Len(read[w]) = MaxWritten[writer]
  /\ Writes(w)

WorkerReceives(w) == Reads(w)

RelayNext ==
  \/ ProxyStep
  \/ \E p \in Peers : Connects(p)
  \/ \E c \in Controllers : ControllerSends(c) \/ ControllerReceives(c)
  \/ \E w \in Workers : WorkerSends(w) \/ WorkerReceives(w)

\* All processes are scheduled; poll() tells the controller of every
\* connection that has something to read or to send.
RelaySpec ==
  /\ Init
  /\ [][RelayNext]_vars
  /\ WF_vars(ProxyStep)
  /\ \A p \in Peers : WF_vars(Connects(p))
  /\ \A c \in Controllers : WF_vars(ControllerSends(c)) /\ WF_vars(ControllerReceives(c))
  /\ \A w \in Workers : WF_vars(WorkerSends(w)) /\ WF_vars(WorkerReceives(w))

\* OutgoingBuffer.hpp:7 "Represents data that needs to be sent
\* asynchronously.": a send() to one worker does not wait for what the others
\* are doing; it returns while all the processes run.
SendReturns == \A c \in Controllers : c \in Sending ~> c \notin Sending \/ ~Running
=============================================================================
