--------------------------- MODULE ProxyProperties ---------------------------
(***************************************************************************)
(* What makes the proxy correct.                                           *)
(***************************************************************************)
EXTENDS Proxy

-----------------------------------------------------------------------------
(* The connections. *)

HasWorker(k) == connections[k].worker_fd # -1
HasController(k) == connections[k].controller_fd # -1

\* The exit(-1) branches marked "Programmer error" are never taken: whatever
\* earlier entries of the turn closed, an entry that is served belongs to a
\* connection.
NoProgrammerError == pc # "fatal"

\* An open descriptor is one side, and the right one, of exactly one
\* connection, and every side is an open descriptor: none leaks, is used
\* after close(), or is shared, although numbers are used again.
DescriptorsMatch ==
  /\ \A fd \in Fds : peer_of[fd] # NoPeer =>
       Cardinality({k \in DOMAIN connections : fd \in Sides(k)}) = 1
  /\ \A k \in DOMAIN connections :
       /\ HasWorker(k) => peer_of[connections[k].worker_fd] \in Workers
       /\ HasController(k) => peer_of[connections[k].controller_fd] \in Controllers

\* No worker waits for a controller while a controller waits for a worker,
\* in whatever order they came and left and whichever accept() failed.
NobodyWaitsInVain ==
  \A j, k \in DOMAIN connections :
    ~(HasWorker(j) /\ ~HasController(j) /\ ~HasWorker(k) /\ HasController(k))

\* While a turn lasts, no descriptor that it closed is that of a connection
\* again: its number is not used again before the set is emptied, so the
\* loop ignores no living connection.
DeletedStayClosed ==
  pc = "serve" => \A fd \in deleted_fds \ {-1} : peer_of[fd] = NoPeer

-----------------------------------------------------------------------------
(* Parts of the inductive invariant of module ProxyProofs.                 *)

\* No two connections share a descriptor.
SidesDiffer ==
  \A j, k \in DOMAIN connections :
    /\ HasWorker(j) /\ connections[j].worker_fd = connections[k].worker_fd => j = k
    /\ HasController(j) /\ connections[j].controller_fd = connections[k].controller_fd => j = k

OpenIsSide ==
  \A fd \in Fds : peer_of[fd] # NoPeer => \E k \in DOMAIN connections : fd \in Sides(k)

\* A connection without any side, which a failed accept() leaves behind, is
\* after all those that wait for the other side: it is never filled first.
BlankLast ==
  \A j, k \in DOMAIN connections :
    /\ HasWorker(j) /\ ~HasController(j) /\ ~HasWorker(k) => j < k
    /\ ~HasWorker(j) /\ HasController(j) /\ ~HasController(k) => j < k

\* An event is that of an open descriptor, or of one that the loop ignores.
EventsKnown ==
  \A n \in DOMAIN events : \/ events[n][1] \in Servers \cup deleted_fds
                           \/ peer_of[events[n][1]] # NoPeer

EventsOnce == \A m, n \in DOMAIN events : events[m] = events[n] => m = n

\* Nothing is closed before the last accept() of a turn.
ServersFirst ==
  \A n \in DOMAIN events :
    events[n][1] \in Servers =>
      deleted_fds = {} /\ \A m \in 1..n : events[m][1] \in Servers

\* Something is left to send for every POLLOUT that will be served.
SomethingToSend ==
  \A n \in DOMAIN events, k \in DOMAIN connections :
    events[n][2] = "POLLOUT" /\ events[n][1] \notin deleted_fds =>
      /\ events[n][1] = connections[k].worker_fd => connections[k].c2w # <<>>
      /\ events[n][1] = connections[k].controller_fd => connections[k].w2c # <<>>

SidesInv == DescriptorsMatch /\ SidesDiffer /\ OpenIsSide

EventsInv == EventsKnown /\ EventsOnce /\ ServersFirst /\ SomethingToSend

\* No entry that is served is out of date, and every waiting peer is the
\* first that find() comes to.
ProxyInv ==
  /\ NoProgrammerError /\ NobodyWaitsInVain /\ DeletedStayClosed
  /\ SidesInv /\ BlankLast /\ EventsInv

-----------------------------------------------------------------------------
(* The proxy implements Pipes. *)

Over(p) == state[p] \notin {"none", "open"}

\* The peer on each side of a connection, NoPeer if there is none.
WorkerOf(k) == IF HasWorker(k) THEN peer_of[connections[k].worker_fd] ELSE NoPeer
ControllerOf(k) == IF HasController(k) THEN peer_of[connections[k].controller_fd] ELSE NoPeer

Pairs == {<<WorkerOf(k), ControllerOf(k)>> : k \in {k \in DOMAIN connections :
                                                   HasWorker(k) /\ HasController(k)}}

Joined(p) == \E k \in DOMAIN connections :
  HasWorker(k) /\ HasController(k) /\ p \in {WorkerOf(k), ControllerOf(k)}

\* What p wrote and the proxy, or its kernel, still has.
Said(p) ==
  LET own == {k \in DOMAIN connections : p \in {WorkerOf(k), ControllerOf(k)}}
      buffer(k) == IF p \in Workers THEN connections[k].w2c ELSE connections[k].c2w
  IN  IF own = {} THEN in[p] ELSE buffer(Min(own)) \o in[p]

Outbox == [p \in Peers |-> IF Joined(p) THEN <<>> ELSE Said(p)]

Inbox ==
  LET pairs == Pairs
      coming(p) == {q \in Peers : <<p, q>> \in pairs \/ <<q, p>> \in pairs}
  IN  [p \in Peers |-> IF Over(p) \/ coming(p) = {} THEN out[p]
                       ELSE out[p] \o Said(CHOOSE q \in coming(p) : TRUE)]

P == INSTANCE Pipes WITH outbox <- Outbox, inbox <- Inbox, pairs <- Pairs,
                         gone <- {p \in Peers : Over(p)}

\* Joined workers and controllers have a pipe each way: bytes arrive in order,
\* without a gap and at the partner only, also those that a controller sent
\* before there was a worker; a pair is closed as a whole, after one end left.
ActsAsPipes == P!Spec

-----------------------------------------------------------------------------
(* Parts of the invariant from which module PipesProofs derives it.        *)

\* accept() is given a connection once, and close() ends it.
OneSocket ==
  \A fd, gd \in Fds : peer_of[fd] # NoPeer =>
    /\ peer_of[fd] = peer_of[gd] => fd = gd
    /\ state[peer_of[fd]] \notin {"none", "cut"}

\* A connection that was reported as hung up still is when it is closed.
HangupsTrue ==
  \A n \in DOMAIN events :
    events[n][2] = "POLLHUP" /\ events[n][1] \in Fds \ deleted_fds =>
      state[peer_of[events[n][1]]] \in HungUp

\* Nothing is buffered for the other side by a side that is not there.
BuffersOwned ==
  \A k \in DOMAIN connections :
    /\ ~HasWorker(k) => connections[k].w2c = <<>>
    /\ ~HasController(k) => connections[k].c2w = <<>>

\* A peer that has not been joined yet has heard nothing.
Unheard ==
  \A p \in Peers : ~Joined(p) /\ state[p] # "cut" => out[p] = <<>> /\ read[p] = <<>>

\* Besides the loop's own invariant: whose data is where, and that a close of
\* both sides comes after one of the two has left.
PipesInv == ProxyInv /\ OneSocket /\ HangupsTrue /\ BuffersOwned /\ Unheard

-----------------------------------------------------------------------------
(* Liveness. *)

\* Peers come once and write a bounded number of chunks; so it is enough that
\* again and again nothing is left to do.

\* No peer leaves what there is for it unread for ever.  The code does not
\* promise this of all peers: send() blocks, in the controller as in the proxy.
EveryoneReads == \A p \in Peers : []<>(state[p] # "open" \/ out[p] = <<>>)

\* What one of a pair wrote is read by the other, unless one of them leaves,
\* the proxy ends or some peer stops reading, which leaves the proxy in send()
\* for good.
Delivered ==
  EveryoneReads =>
    []<>(Running => \A pair \in Pairs : /\ Len(read[pair[2]]) = written[pair[1]]
                                        /\ Len(read[pair[1]]) = written[pair[2]])

\* A peer whose connection was closed, reset or given up by the kernel is
\* noticed and its descriptor is closed, as long as no peer stops reading.  One
\* that vanished without a word is not among them: its connection stays open.
Reaped == EveryoneReads => []<>(Running => \A p \in Peers : state[p] \notin Closed)
=============================================================================
