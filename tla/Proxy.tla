-------------------------------- MODULE Proxy --------------------------------
(***************************************************************************)
(* The proxy (proxy.cpp): a single thread that accepts workers on one      *)
(* socket and controllers on another, joins them in pairs, and forwards    *)
(* what either says to the other.  Composed with the peers and with the    *)
(* kernel (external): descriptors are numbers that are used again, and a   *)
(* peer may move between any two steps of the proxy.                       *)
(*                                                                         *)
(* What one recv() returns is a chunk, here <<who wrote it, its number>>.  *)
(***************************************************************************)
EXTENDS Integers, FiniteSets, SequencesExt

CONSTANTS
  Workers, Controllers,  \* the peers that may connect, each once
  NoPeer,                \* the user of a descriptor that is not in use
  MaxWritten,            \* how many chunks each peer writes (a bound)
  WireSize,              \* how many chunks a socket holds in each direction
  Faults                 \* what may go wrong in a run, a subset of AllFaults

Peers == Workers \cup Controllers

AllFaults == {"close", "lost", "accept", "poll"}

ASSUME PeersAssumption == Workers \cap Controllers = {} /\ NoPeer \notin Peers
ASSUME SizesAssumption == MaxWritten \in [Peers -> Nat] /\ WireSize \in Nat \ {0}
ASSUME ProxyFaultsAssumption == Faults \subseteq AllFaults

VARIABLES
  \* The proxy.
  pc,           \* "poll" or "serve", or how start_proxy() ended
  connections,  \* the vector of Connection pointers
  events,       \* what poll() reported and the loop has yet to look at
  deleted_fds,  \* the descriptors closed in this turn of the loop
  sent_here,    \* how much the send() in progress has sent
  \* The kernel.
  peer_of,      \* whose socket a descriptor is
  state,        \* how the connection of each peer stands
  in,           \* from the peer, for recv()
  out,          \* from send(), for the peer
  \* The peers.
  written,      \* how many chunks each has written
  read          \* what each has read

proxyVars  == <<connections, events, deleted_fds, sent_here>>
kernelVars == <<peer_of, state, in, out>>
peerVars   == <<written, read>>
vars == <<pc, proxyVars, kernelVars, peerVars>>

Stopped == {"failed", "fatal"}
Running == pc \notin Stopped

\* "fin" the peer closed, "finsent" and we sent since, "hup" and a reset
\* answered; "rst" the peer reset the connection; "lost" the network gave up;
\* "cut" the proxy closed it.
States == {"none", "open", "fin", "finsent", "hup", "rst", "lost", "cut"}
HungUp == {"hup", "rst", "lost"}
Closed == {"fin", "finsent"} \cup HungUp

worker_server_fd == 3
controller_server_fd == 4
Servers == {worker_server_fd, controller_server_fd}
Fds == 5..4 + Cardinality(Peers)

Chunks == UNION {{p} \X (1..MaxWritten[p]) : p \in Peers}
Connections == [worker_fd : Fds \cup {-1}, controller_fd : Fds \cup {-1},
                w2c : Seq(Chunks), c2w : Seq(Chunks)]
\* Mutant of Connection: the descriptors start as 0.
Connection_Zero == [worker_fd |-> 0, controller_fd |-> 0, w2c |-> <<>>, c2w |-> <<>>]

Connection == [worker_fd |-> -1, controller_fd |-> -1, w2c |-> <<>>, c2w |-> <<>>]

TypeOK ==
  /\ pc \in {"poll", "serve"} \cup Stopped
  /\ connections \in Seq(Connections)
  /\ events \in Seq((Servers \cup Fds) \X {"POLLIN", "POLLOUT", "POLLHUP"})
  /\ deleted_fds \subseteq Fds \cup {-1}
  /\ sent_here \in Nat
  /\ peer_of \in [Fds -> Peers \cup {NoPeer}]
  /\ state \in [Peers -> States]
  /\ in \in [Peers -> Seq(Chunks)]
  /\ out \in [Peers -> Seq(Chunks)]
  /\ written \in [Peers -> Nat]
  /\ read \in [Peers -> Seq(Chunks)]

Init ==
  /\ pc = "poll"
  /\ connections = <<>> /\ events = <<>> /\ deleted_fds = {} /\ sent_here = 0
  /\ peer_of = [fd \in Fds |-> NoPeer]
  /\ state = [p \in Peers |-> "none"]
  /\ in = [p \in Peers |-> <<>>]
  /\ out = [p \in Peers |-> <<>>]
  /\ written = [p \in Peers |-> 0]
  /\ read = [p \in Peers |-> <<>>]

\* return -1, exit(-1) or SIGPIPE
Stop(how) ==
  /\ pc' = how
  /\ UNCHANGED <<proxyVars, kernelVars, peerVars>>

-----------------------------------------------------------------------------
(* poll() *)

\* The peers whose connections wait for accept().
Backlog(S) ==
  {p \in S : state[p] \notin {"none", "cut"} /\ \A fd \in Fds : peer_of[fd] # p}

\* The entry that poll() leaves for an event, if it has occurred.
Event(fd, revent, occurred) == IF occurred THEN << <<fd, revent>> >> ELSE <<>>

Listening(fd, S) == Event(fd, "POLLIN", Backlog(S) # {})

\* add_pollfd(pollfds, fd, buffer), and what poll() then reports of it.
add_pollfd(fd, buffer) ==
  LET p == peer_of[fd]
      closed == state[p] \in Closed
  IN  IF fd = -1 THEN <<>>
      ELSE Event(fd, "POLLIN", in[p] # <<>> \/ closed) \o
           Event(fd, "POLLOUT", buffer # <<>> /\ (Len(out[p]) < WireSize \/ closed)) \o
           Event(fd, "POLLHUP", state[p] \in HungUp)

\* Mutant of add_pollfds: the buffer for the controller is forgotten.
add_pollfds_OneWay(connection) ==
  add_pollfd(connection.worker_fd, connection.c2w) \o
  add_pollfd(connection.controller_fd, <<>>)

add_pollfds(connection) ==
  add_pollfd(connection.worker_fd, connection.c2w) \o
  add_pollfd(connection.controller_fd, connection.w2c)

\* Mutant of Reported: the listening sockets come last, as in the controller.
Reported_ServersLast ==
  FlattenSeq([k \in DOMAIN connections |-> add_pollfds(connections[k])]) \o
  Listening(worker_server_fd, Workers) \o Listening(controller_server_fd, Controllers)

\* The events of one turn in the order in which the loop looks at them.
Reported ==
  Listening(worker_server_fd, Workers) \o Listening(controller_server_fd, Controllers) \o
  FlattenSeq([k \in DOMAIN connections |-> add_pollfds(connections[k])])

Poll ==
  /\ pc = "poll"
  /\ Reported # <<>>
  /\ events' = Reported
  /\ deleted_fds' = {}
  /\ pc' = "serve"
  /\ UNCHANGED <<connections, sent_here, kernelVars, peerVars>>

PollFails ==
  /\ pc = "poll"
  /\ "poll" \in Faults
  /\ Stop("failed")

-----------------------------------------------------------------------------
(* The loop over the entries. *)

Fd == Head(events)[1]

At(event) == pc = "serve" /\ events # <<>> /\ Head(events)[2] = event

\* continue, and skip_rest: close_connection() put the descriptor there.
Skipped == Fd \in deleted_fds

Served == events' = Tail(events)

Skip ==
  /\ pc = "serve" /\ events # <<>>
  /\ Skipped
  /\ Served
  /\ UNCHANGED <<pc, connections, deleted_fds, sent_here, kernelVars, peerVars>>

EndOfTurn ==
  /\ pc = "serve" /\ events = <<>>
  /\ pc' = "poll"
  /\ UNCHANGED <<proxyVars, kernelVars, peerVars>>

\* find(connections, worker_fd, controller_fd), 0 for null.
find(worker_fd, controller_fd) ==
  LET found == {k \in DOMAIN connections :
                  \/ connections[k].worker_fd = worker_fd
                  \/ connections[k].controller_fd = controller_fd}
  IN  IF found = {} THEN 0 ELSE Min(found)

\* Mutant of AddWorker: it does not look for a controller that waits.
AddWorker_Never(fd) == connections' = Append(connections, [Connection EXCEPT !.worker_fd = fd])

AddWorker(fd) ==
  LET k == find(-1, -2)
  IN  connections' = IF k # 0 THEN [connections EXCEPT ![k].worker_fd = fd]
                     ELSE Append(connections, [Connection EXCEPT !.worker_fd = fd])

AddController(fd) ==
  LET k == find(-2, -1)
  IN  connections' = IF k # 0 THEN [connections EXCEPT ![k].controller_fd = fd]
                     ELSE Append(connections, [Connection EXCEPT !.controller_fd = fd])

Add(fd) == IF Fd = worker_server_fd THEN AddWorker(fd) ELSE AddController(fd)

\* accept() returns the lowest free descriptor.  Its failure goes unnoticed,
\* since the code tests the result of poll(): the descriptor is -1.
Accept(p) ==
  /\ At("POLLIN") /\ ~Skipped
  /\ Fd \in Servers
  /\ p \in Backlog(IF Fd = worker_server_fd THEN Workers ELSE Controllers)
  /\ \/ \E fd \in Fds :
          /\ peer_of[fd] = NoPeer
          /\ \A lower \in Fds : lower < fd => peer_of[lower] # NoPeer
          /\ Add(fd)
          /\ peer_of' = [peer_of EXCEPT ![fd] = p]
          /\ UNCHANGED <<state, in>>
     \/ /\ "accept" \in Faults
        /\ Add(-1)
        /\ state' = [state EXCEPT ![p] = "cut"]
        /\ in' = [in EXCEPT ![p] = <<>>]
        /\ UNCHANGED peer_of
  /\ Served
  /\ UNCHANGED <<pc, deleted_fds, sent_here, out, peerVars>>

\* The connection that an event is served for; no connection is a
\* "Programmer error".
Index == find(Fd, Fd)
ToServe(event) == At(event) /\ ~Skipped /\ Fd \notin Servers
Peer == peer_of[Fd]

\* Mutant of Forwarded: the buffers are swapped.
Forwarded_Swapped(connection, chunk) ==
  IF Fd = connection.worker_fd
  THEN [connection EXCEPT !.c2w = Append(@, chunk)]
  ELSE [connection EXCEPT !.w2c = Append(@, chunk)]

\* Connection::receive()
Forwarded(connection, chunk) ==
  IF Fd = connection.worker_fd
  THEN [connection EXCEPT !.w2c = Append(@, chunk)]
  ELSE [connection EXCEPT !.c2w = Append(@, chunk)]

Receive ==
  /\ ToServe("POLLIN")
  /\ IF Index = 0 THEN Stop("fatal")
     ELSE /\ in[Peer] # <<>>
          /\ connections' = [connections EXCEPT ![Index] = Forwarded(@, Head(in[Peer]))]
          /\ in' = [in EXCEPT ![Peer] = Tail(@)]
          /\ Served
          /\ UNCHANGED <<pc, deleted_fds, sent_here, peer_of, state, out, peerVars>>

Sides(k) == {connections[k].worker_fd, connections[k].controller_fd}

\* What a kernel that resets the connection delivers of what was sent.
Cuts(s, reset) == IF reset THEN Prefixes(s) ELSE {s}

\* Mutants of close_connection: only the descriptor that failed is noted;
\* only that one is closed.
close_connection_OneNoted(k) ==
  /\ deleted_fds' = deleted_fds \cup {Fd}
  /\ connections' = RemoveAt(connections, k)
  /\ peer_of' = [fd \in Fds |-> IF fd \in Sides(k) THEN NoPeer ELSE peer_of[fd]]
  /\ state' = [p \in Peers |-> IF \E fd \in Sides(k) \ {-1} : peer_of[fd] = p
                               THEN "cut" ELSE state[p]]
  /\ in' = [p \in Peers |-> IF state'[p] = "cut" THEN <<>> ELSE in[p]]
  /\ UNCHANGED out
close_connection_OneClosed(k) ==
  /\ deleted_fds' = deleted_fds \cup Sides(k)
  /\ connections' = RemoveAt(connections, k)
  /\ peer_of' = [peer_of EXCEPT ![Fd] = NoPeer]
  /\ state' = [state EXCEPT ![Peer] = "cut"]
  /\ in' = [in EXCEPT ![Peer] = <<>>]
  /\ UNCHANGED out

\* close_connection(connections, connection, deleted_fds)
close_connection(k) ==
  LET fds == Sides(k) \ {-1}
      closed == {peer_of[fd] : fd \in fds}
  IN  /\ deleted_fds' = deleted_fds \cup Sides(k)
      /\ connections' = RemoveAt(connections, k)
      /\ peer_of' = [fd \in Fds |-> IF fd \in fds THEN NoPeer ELSE peer_of[fd]]
      /\ state' = [p \in Peers |-> IF p \in closed THEN "cut" ELSE state[p]]
      /\ in' = [p \in Peers |-> IF p \in closed THEN <<>> ELSE in[p]]
      /\ \E kept \in [closed -> UNION {Prefixes(out[p]) : p \in closed}] :
           /\ \A p \in closed : kept[p] \in Cuts(out[p], in[p] # <<>>)
           /\ out' = [p \in Peers |-> IF p \in closed THEN kept[p] ELSE out[p]]

\* Mutant of ReceiveEnd: a recv() that returns 0 is a success.
ReceiveEnd_ZeroRead ==
  /\ ToServe("POLLIN")
  /\ Index # 0
  /\ in[Peer] = <<>>
  /\ state[Peer] \in Closed \ {"lost"}
  /\ IF state[Peer] = "rst" THEN close_connection(Index)
     ELSE UNCHANGED <<connections, deleted_fds, kernelVars>>
  /\ Served
  /\ UNCHANGED <<pc, sent_here, peerVars>>

\* recv() returns 0 or fails with ECONNRESET.
ReceiveEnd ==
  /\ ToServe("POLLIN")
  /\ Index # 0
  /\ in[Peer] = <<>>
  /\ state[Peer] \in Closed \ {"lost"}
  /\ close_connection(Index)
  /\ Served
  /\ UNCHANGED <<pc, sent_here, peerVars>>

\* recv() fails with another error.
ReceiveFails ==
  /\ ToServe("POLLIN")
  /\ Index # 0
  /\ in[Peer] = <<>>
  /\ state[Peer] = "lost"
  /\ Stop("failed")

\* Buffer::send(): send() blocks until the socket has taken all of the
\* buffer, or until the connection ends.
Buffer == IF Fd = connections[Index].worker_fd THEN connections[Index].c2w
          ELSE connections[Index].w2c

Erased(connection) ==
  IF Fd = connection.worker_fd
  THEN [connection EXCEPT !.c2w = Tail(@)]
  ELSE [connection EXCEPT !.w2c = Tail(@)]

Send ==
  /\ ToServe("POLLOUT")
  /\ Index # 0
  /\ state[Peer] \notin HungUp
  /\ Len(out[Peer]) < WireSize
  /\ connections' = [connections EXCEPT ![Index] = Erased(@)]
  /\ out' = [out EXCEPT ![Peer] = IF state[Peer] = "open" THEN Append(@, Head(Buffer)) ELSE @]
  /\ state' = [state EXCEPT ![Peer] = IF @ = "fin" THEN "finsent" ELSE @]
  /\ IF Len(Buffer) = 1 THEN sent_here' = 0 /\ Served
     ELSE sent_here' = sent_here + 1 /\ UNCHANGED events
  /\ UNCHANGED <<pc, deleted_fds, peer_of, in, peerVars>>

\* The connection ended: what was sent counts, or send() fails or raises
\* SIGPIPE.
SendEnds ==
  /\ ToServe("POLLOUT")
  /\ IF Index = 0 THEN Stop("fatal")
     ELSE /\ state[Peer] \in HungUp
          /\ IF sent_here = 0 THEN Stop("failed")
             ELSE /\ sent_here' = 0
                  /\ Served
                  /\ UNCHANGED <<pc, connections, deleted_fds, kernelVars, peerVars>>

\* POLLERR, POLLHUP or POLLNVAL
Hangup ==
  /\ ToServe("POLLHUP")
  /\ IF Index = 0 THEN Stop("fatal")
     ELSE /\ close_connection(Index)
          /\ Served
          /\ UNCHANGED <<pc, sent_here, peerVars>>

ProxyStep ==
  \/ Poll \/ Skip \/ EndOfTurn
  \/ \E p \in Peers : Accept(p)
  \/ Receive \/ ReceiveEnd \/ ReceiveFails \/ Send \/ SendEnds \/ Hangup

-----------------------------------------------------------------------------
(* The peers and their kernels. *)

Connects(p) ==
  /\ Running
  /\ state[p] = "none"
  /\ state' = [state EXCEPT ![p] = "open"]
  /\ UNCHANGED <<pc, proxyVars, peer_of, in, out, peerVars>>

Writes(p) ==
  /\ Running
  /\ state[p] = "open"
  /\ written[p] < MaxWritten[p]
  /\ Len(in[p]) < WireSize
  /\ written' = [written EXCEPT ![p] = @ + 1]
  /\ in' = [in EXCEPT ![p] = Append(@, <<p, written[p] + 1>>)]
  /\ UNCHANGED <<pc, proxyVars, peer_of, state, out, read>>

Reads(p) ==
  /\ Running
  /\ out[p] # <<>>
  /\ read' = [read EXCEPT ![p] = Append(@, Head(out[p]))]
  /\ out' = [out EXCEPT ![p] = Tail(@)]
  /\ UNCHANGED <<pc, proxyVars, peer_of, state, in, written>>

\* The process ends.  Its kernel resets the connection if there is data that
\* it has not read; what the reset overtakes is lost.
Closes(p) ==
  /\ Running
  /\ "close" \in Faults
  /\ state[p] = "open"
  /\ state' = [state EXCEPT ![p] = IF out[p] = <<>> THEN "fin" ELSE "rst"]
  /\ in' \in {[in EXCEPT ![p] = s] : s \in Cuts(in[p], out[p] # <<>>)}
  /\ out' = [out EXCEPT ![p] = <<>>]
  /\ UNCHANGED <<pc, proxyVars, peer_of, peerVars>>

\* What the proxy sent to a closed socket comes back as a reset.
ResetArrives(p) ==
  /\ Running
  /\ state[p] = "finsent"
  /\ state' = [state EXCEPT ![p] = "hup"]
  /\ UNCHANGED <<pc, proxyVars, peer_of, in, out, peerVars>>

NetworkLost(p) ==
  /\ Running
  /\ "lost" \in Faults
  /\ state[p] = "open"
  /\ state' = [state EXCEPT ![p] = "lost"]
  /\ UNCHANGED <<pc, proxyVars, peer_of, in, out, peerVars>>

Next ==
  \/ ProxyStep \/ PollFails
  \/ \E p \in Peers : \/ Connects(p) \/ Writes(p) \/ Reads(p)
                      \/ Closes(p) \/ ResetArrives(p) \/ NetworkLost(p)

\* The proxy is a process that the operating system keeps scheduling.  Nothing
\* obliges a peer to read: a controller in send() does not (module Relay), and
\* one that vanished without a word never will.
Fairness == WF_vars(ProxyStep)

Spec == Init /\ [][Next]_vars
FairSpec == Spec /\ Fairness
=============================================================================
