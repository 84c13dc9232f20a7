----------------------------- MODULE PipesProofs -----------------------------
(***************************************************************************)
(* The proxy implements Pipes.  The proofs do not speak of the vector and  *)
(* of descriptors but of rows: which worker and which controller belong    *)
(* together, and what is buffered from each.                               *)
(***************************************************************************)
EXTENDS ProxyProofs

\* The part of the invariant that says whose each descriptor and buffer is.
RowInv == IndInv /\ OneSocket /\ BuffersOwned

PI == RowInv /\ HangupsTrue /\ Unheard

-----------------------------------------------------------------------------
(* The connections without their places in the vector.                     *)

Row(k) == [worker |-> WorkerOf(k), controller |-> ControllerOf(k),
           w2c |-> connections[k].w2c, c2w |-> connections[k].c2w]

Rows == {Row(k) : k \in {k \in DOMAIN connections : HasWorker(k) \/ HasController(k)}}

RowType == [worker : Workers \cup {NoPeer}, controller : Controllers \cup {NoPeer},
            w2c : Seq(Chunks), c2w : Seq(Chunks)]

RowsRight ==
  /\ Rows \subseteq RowType
  /\ \A r \in Rows : /\ r.worker = NoPeer => r.w2c = <<>>
                     /\ r.controller = NoPeer => r.c2w = <<>>
  /\ \A r, t \in Rows : /\ r.worker = t.worker /\ r.worker # NoPeer => r = t
                        /\ r.controller = t.controller /\ r.controller # NoPeer => r = t

Whole(r) == r.worker # NoPeer /\ r.controller # NoPeer

\* What the mapping to Pipes makes of the connections.
RowsMapped ==
  /\ \A r \in Rows : /\ r.worker # NoPeer => Said(r.worker) = r.w2c \o in[r.worker]
                     /\ r.controller # NoPeer => Said(r.controller) = r.c2w \o in[r.controller]
  /\ \A p \in Peers : (\A r \in Rows : p # r.worker /\ p # r.controller) => Said(p) = in[p]
  /\ \A p, q : <<p, q>> \in Pairs <=>
                 \E r \in Rows : Whole(r) /\ p = r.worker /\ q = r.controller
  /\ \A p \in Peers : Joined(p) <=> \E r \in Rows : Whole(r) /\ p \in {r.worker, r.controller}

LEMMA SideFacts ==
  ASSUME RowInv, NEW k \in DOMAIN connections
  PROVE  /\ WorkerOf(k) \in Workers \cup {NoPeer}
         /\ ControllerOf(k) \in Controllers \cup {NoPeer}
         /\ HasWorker(k) <=> WorkerOf(k) # NoPeer
         /\ HasController(k) <=> ControllerOf(k) # NoPeer
         /\ HasWorker(k) => /\ connections[k].worker_fd \in Fds
                            /\ WorkerOf(k) = peer_of[connections[k].worker_fd]
         /\ HasController(k) => /\ connections[k].controller_fd \in Fds
                                /\ ControllerOf(k) = peer_of[connections[k].controller_fd]
  <1>1. /\ connections[k].worker_fd \in Fds \cup {-1}
        /\ connections[k].controller_fd \in Fds \cup {-1}
    BY ConnectionsFacts DEF RowInv, IndInv
  <1>2. /\ HasWorker(k) => peer_of[connections[k].worker_fd] \in Workers
        /\ HasController(k) => peer_of[connections[k].controller_fd] \in Controllers
    BY DEF RowInv, IndInv, ProxyInv, SidesInv, DescriptorsMatch
  <1>3. QED
    BY <1>1, <1>2, PeerFacts DEF WorkerOf, ControllerOf, HasWorker, HasController

\* A peer is a side of one connection only.
LEMMA SideOnce ==
  ASSUME RowInv, NEW j \in DOMAIN connections, NEW k \in DOMAIN connections
  PROVE  /\ WorkerOf(j) = WorkerOf(k) /\ WorkerOf(j) # NoPeer => j = k
         /\ ControllerOf(j) = ControllerOf(k) /\ ControllerOf(j) # NoPeer => j = k
  <1>1. /\ HasWorker(j) /\ connections[j].worker_fd = connections[k].worker_fd => j = k
        /\ HasController(j) /\ connections[j].controller_fd = connections[k].controller_fd => j = k
    BY DEF RowInv, IndInv, ProxyInv, SidesInv, SidesDiffer
  <1>2. \A fd, gd \in Fds : peer_of[fd] # NoPeer /\ peer_of[fd] = peer_of[gd] => fd = gd
    BY DEF RowInv, OneSocket
  <1>3. QED
    BY <1>1, <1>2, SideFacts

LEMMA SaidOf ==
  ASSUME RowInv, NEW p \in Peers
  PROVE  /\ \A k \in DOMAIN connections :
              /\ p = WorkerOf(k) => Said(p) = connections[k].w2c \o in[p]
              /\ p = ControllerOf(k) => Said(p) = connections[k].c2w \o in[p]
         /\ (\A k \in DOMAIN connections : p # WorkerOf(k) /\ p # ControllerOf(k)) => Said(p) = in[p]
  <1> DEFINE own == {k \in DOMAIN connections : p \in {WorkerOf(k), ControllerOf(k)}}
  <1>1. p # NoPeer
    BY PeerFacts DEF Peers
  <1>2. own = {} => Said(p) = in[p]
    BY DEF Said
  <1>3. ASSUME NEW k \in DOMAIN connections, k \in own
        PROVE  Said(p) = (IF p \in Workers THEN connections[k].w2c ELSE connections[k].c2w) \o in[p]
    <2>1. own = {k}
      BY <1>1, <1>3, SideOnce, SideFacts, PeerFacts
    <2>2. k \in Nat
      BY ConnectionsFacts DEF RowInv, IndInv
    <2>3. Min({k}) = k
      BY <2>2, MinProperties
    <2>4. QED
      BY <2>1, <2>3 DEF Said
  <1>4. ASSUME NEW k \in DOMAIN connections
        PROVE  /\ p = WorkerOf(k) => Said(p) = connections[k].w2c \o in[p]
               /\ p = ControllerOf(k) => Said(p) = connections[k].c2w \o in[p]
    <2>1. p = WorkerOf(k) => p \in Workers /\ k \in own
      BY <1>1, SideFacts
    <2>2. p = ControllerOf(k) => p \notin Workers /\ k \in own
      BY <1>1, SideFacts, PeerFacts
    <2> HIDE DEF own
    <2>3. QED
      BY <1>3, <2>1, <2>2
  <1>5. (\A k \in DOMAIN connections : p # WorkerOf(k) /\ p # ControllerOf(k)) => own = {}
    OBVIOUS
  <1>6. QED
    BY <1>2, <1>4, <1>5, Zenon

LEMMA RowsOf ==
  ASSUME RowInv
  PROVE  /\ \A r \in Rows : \E k \in DOMAIN connections :
              /\ r = Row(k)
              /\ r.worker # NoPeer \/ r.controller # NoPeer
         /\ \A k \in DOMAIN connections :
              WorkerOf(k) # NoPeer \/ ControllerOf(k) # NoPeer => Row(k) \in Rows
         /\ \A k \in DOMAIN connections : /\ Row(k).worker = WorkerOf(k)
                                          /\ Row(k).controller = ControllerOf(k)
                                          /\ Row(k).w2c = connections[k].w2c
                                          /\ Row(k).c2w = connections[k].c2w
  <1>1. \A k \in DOMAIN connections : /\ Row(k).worker = WorkerOf(k)
                                      /\ Row(k).controller = ControllerOf(k)
                                      /\ Row(k).w2c = connections[k].w2c
                                      /\ Row(k).c2w = connections[k].c2w
    BY DEF Row
  <1>2. QED
    BY <1>1, SideFacts DEF Rows

LEMMA RowsView == RowInv => RowsRight /\ RowsMapped
  <1> SUFFICES ASSUME RowInv PROVE RowsRight /\ RowsMapped
    OBVIOUS
  <1>1. RowsRight
    <2>1. Rows \subseteq RowType
      <3>1. ASSUME NEW k \in DOMAIN connections
            PROVE  Row(k) \in RowType
        BY SideFacts, ConnectionsFacts DEF RowInv, IndInv, Row, RowType
      <3>2. QED
        BY <3>1 DEF Rows
    <2>2. \A k \in DOMAIN connections : /\ WorkerOf(k) = NoPeer => connections[k].w2c = <<>>
                                        /\ ControllerOf(k) = NoPeer => connections[k].c2w = <<>>
      BY SideFacts DEF RowInv, BuffersOwned
    <2>3. QED
      BY <2>1, <2>2, RowsOf, SideOnce DEF RowsRight
  <1>2. ASSUME NEW r \in Rows
        PROVE  /\ r.worker # NoPeer => Said(r.worker) = r.w2c \o in[r.worker]
               /\ r.controller # NoPeer => Said(r.controller) = r.c2w \o in[r.controller]
    <2>1. PICK k \in DOMAIN connections : r = Row(k)
      BY RowsOf
    <2>2. /\ r.worker # NoPeer => r.worker \in Peers
          /\ r.controller # NoPeer => r.controller \in Peers
      BY <2>1, RowsOf, SideFacts, PeerFacts
    <2>3. /\ r.worker = WorkerOf(k) /\ r.controller = ControllerOf(k)
          /\ r.w2c = connections[k].w2c /\ r.c2w = connections[k].c2w
      BY <2>1, RowsOf
    <2>4. r.worker # NoPeer => Said(r.worker) = r.w2c \o in[r.worker]
      BY <2>2, <2>3, SaidOf, Zenon
    <2>5. r.controller # NoPeer => Said(r.controller) = r.c2w \o in[r.controller]
      BY <2>2, <2>3, SaidOf, Zenon
    <2>6. QED
      BY <2>4, <2>5
  <1>3. ASSUME NEW p \in Peers, \A r \in Rows : p # r.worker /\ p # r.controller
        PROVE  Said(p) = in[p]
    <2>1. p # NoPeer
      BY PeerFacts DEF Peers
    <2>2. \A k \in DOMAIN connections : p # WorkerOf(k) /\ p # ControllerOf(k)
      BY <1>3, <2>1, RowsOf
    <2>3. QED
      BY <2>2, SaidOf
  <1>4. \A p, q : <<p, q>> \in Pairs <=>
                    \E k \in DOMAIN connections :
                      /\ WorkerOf(k) # NoPeer /\ ControllerOf(k) # NoPeer
                      /\ p = WorkerOf(k) /\ q = ControllerOf(k)
    BY SideFacts DEF Pairs
  <1>5. \A p : Joined(p) <=>
                 \E k \in DOMAIN connections :
                   /\ WorkerOf(k) # NoPeer /\ ControllerOf(k) # NoPeer
                   /\ p \in {WorkerOf(k), ControllerOf(k)}
    BY SideFacts DEF Joined
  <1>6. /\ \A p, q : <<p, q>> \in Pairs <=>
                        \E r \in Rows : Whole(r) /\ p = r.worker /\ q = r.controller
        /\ \A p : Joined(p) <=> \E r \in Rows : Whole(r) /\ p \in {r.worker, r.controller}
    BY <1>4, <1>5, RowsOf DEF Whole
  <1>7. QED
    BY <1>1, <1>2, <1>3, <1>6 DEF RowsMapped

-----------------------------------------------------------------------------
(* The invariant: the parts that a step may disturb.                       *)

LEMMA OneSocketKept ==
  ASSUME RowInv, TypeOK',
         \A fd \in Fds : peer_of'[fd] # NoPeer =>
           /\ peer_of'[fd] = peer_of[fd]
           /\ state[peer_of[fd]] \notin {"none", "cut"} => state'[peer_of[fd]] \notin {"none", "cut"}
  PROVE  OneSocket'
  BY DEF RowInv, OneSocket

\* Connections that hang up stay so until they are closed.
LEMMA HangupsKept ==
  ASSUME PI, deleted_fds \subseteq deleted_fds',
         \A n \in DOMAIN events' : \E m \in DOMAIN events : events'[n] = events[m],
         \A fd \in Fds \ deleted_fds' :
           /\ peer_of[fd] # NoPeer
           /\ state[peer_of[fd]] \in HungUp
           => state'[peer_of'[fd]] \in HungUp
  PROVE  HangupsTrue'
  <1> SUFFICES ASSUME NEW n \in DOMAIN events',
                      events'[n][2] = "POLLHUP", events'[n][1] \in Fds \ deleted_fds'
               PROVE  state'[peer_of'[events'[n][1]]] \in HungUp
    BY DEF HangupsTrue
  <1>1. PICK m \in DOMAIN events : events'[n] = events[m]
    OBVIOUS
  <1>2. events[m][2] = "POLLHUP" /\ events[m][1] \in Fds \ deleted_fds
    BY <1>1
  <1>3. state[peer_of[events[m][1]]] \in HungUp
    BY <1>2 DEF PI, HangupsTrue
  <1>4. peer_of[events[m][1]] # NoPeer
    BY <1>2, FdFacts DEF PI, RowInv, IndInv, ProxyInv, EventsInv, EventsKnown
  <1>5. QED
    BY <1>1, <1>2, <1>3, <1>4

LEMMA UnheardKept ==
  ASSUME PI,
         \A p \in Peers : ~Joined(p)' /\ state'[p] # "cut" =>
           /\ ~Joined(p) /\ state[p] # "cut"
           /\ out[p] = <<>> => out'[p] = <<>>
           /\ out[p] = <<>> => read'[p] = read[p]
  PROVE  Unheard'
  BY DEF PI, Unheard

\* The sides of a connection that stays.
LEMMA SidesStay ==
  ASSUME NEW j \in DOMAIN connections, NEW k \in DOMAIN connections',
         connections'[k].worker_fd = connections[j].worker_fd,
         connections'[k].controller_fd = connections[j].controller_fd,
         HasWorker(j) => peer_of'[connections[j].worker_fd] = peer_of[connections[j].worker_fd],
         HasController(j) => peer_of'[connections[j].controller_fd] = peer_of[connections[j].controller_fd]
  PROVE  /\ HasWorker(k)' = HasWorker(j)
         /\ HasController(k)' = HasController(j)
         /\ WorkerOf(k)' = WorkerOf(j)
         /\ ControllerOf(k)' = ControllerOf(j)
  BY DEF WorkerOf, ControllerOf, HasWorker, HasController

\* As long as the sides are the same, so are the pairs.
LEMMA PairsKept ==
  ASSUME peer_of' = peer_of, DOMAIN connections' = DOMAIN connections,
         \A k \in DOMAIN connections :
           /\ connections'[k].worker_fd = connections[k].worker_fd
           /\ connections'[k].controller_fd = connections[k].controller_fd
  PROVE  /\ \A k \in DOMAIN connections : /\ HasWorker(k)' = HasWorker(k)
                                           /\ HasController(k)' = HasController(k)
                                           /\ WorkerOf(k)' = WorkerOf(k)
                                           /\ ControllerOf(k)' = ControllerOf(k)
         /\ Pairs' = Pairs
         /\ \A p : Joined(p)' <=> Joined(p)
  <1>1. \A k \in DOMAIN connections : /\ HasWorker(k)' = HasWorker(k)
                                      /\ HasController(k)' = HasController(k)
                                      /\ WorkerOf(k)' = WorkerOf(k)
                                      /\ ControllerOf(k)' = ControllerOf(k)
    BY SidesStay
  <1>2. Pairs' = Pairs
    BY <1>1 DEF Pairs
  <1>3. \A p : Joined(p)' <=> Joined(p)
    BY <1>1 DEF Joined
  <1>4. QED
    BY <1>1, <1>2, <1>3

-----------------------------------------------------------------------------
(* The invariant: every step keeps it.                                     *)

LEMMA InitPI == Init => PI
  <1> SUFFICES ASSUME Init PROVE PI
    OBVIOUS
  <1>1. IndInv
    BY InitIndInv
  <1>2. DOMAIN connections = {} /\ DOMAIN events = {}
    BY DEF Init
  <1>3. QED
    BY <1>1, <1>2 DEF Init, PI, RowInv, OneSocket, BuffersOwned, HangupsTrue, Unheard

\* Steps that only move the loop on.
LEMMA LoopPI ==
  ASSUME PI, IndInv', UNCHANGED <<connections, kernelVars, peerVars>>, HangupsTrue'
  PROVE  PI'
  <1>1. OneSocket' /\ BuffersOwned'
    BY DEF PI, RowInv, OneSocket, BuffersOwned, HasWorker, HasController, kernelVars
  <1>2. \A p : Joined(p)' <=> Joined(p)
    BY PairsKept DEF kernelVars
  <1>3. Unheard'
    BY <1>2 DEF PI, Unheard, kernelVars, peerVars
  <1>4. QED
    BY <1>1, <1>3 DEF PI, RowInv

LEMMA ServedPI ==
  ASSUME PI, IndInv', UNCHANGED <<connections, deleted_fds, kernelVars, peerVars>>,
         events' = events \/ (events # <<>> /\ Served)
  PROVE  PI'
  <1>1. \A n \in DOMAIN events' : \E m \in DOMAIN events : events'[n] = events[m]
    BY ServedFacts DEF PI, RowInv, IndInv
  <1>2. HangupsTrue'
    BY <1>1, HangupsKept DEF kernelVars
  <1>3. QED
    BY <1>2, LoopPI

LEMMA PollPI ==
  ASSUME PI, IndInv', Poll
  PROVE  PI'
  <1>1. PICK servers \in Seq(Servers \X Revents), rest \in Seq(Wanted) :
          Reported = servers \o rest
    BY ReportedProperties DEF PI, RowInv, IndInv, ProxyInv
  <1> DEFINE either == (Servers \X Revents) \cup Wanted
  <1>2. servers \in Seq(either) /\ rest \in Seq(either)
    BY SeqMonotonic
  <1> HIDE DEF either
  <1>3. events' \in Seq(either)
    <2>1. events' = servers \o rest
      BY <1>1 DEF Poll
    <2>2. QED
      BY <1>2, <2>1, ConcatProperties
  <1>4. ASSUME NEW n \in DOMAIN events', events'[n][1] \in Fds, events'[n][2] = "POLLHUP"
        PROVE  state[peer_of[events'[n][1]]] \in HungUp
    <2>1. events'[n] \in either
      BY <1>3, LenProperties, ElementOfSeq
    <2>2. events'[n] \in Wanted
      BY <1>4, <2>1, FdFacts DEF either
    <2>3. QED
      BY <1>4, <2>2 DEF Wanted
  <1>5. HangupsTrue'
    BY <1>4 DEF HangupsTrue, Poll, kernelVars
  <1>6. QED
    BY <1>5, LoopPI DEF Poll

\* The peers and their kernels.
LEMMA PeerPI ==
  ASSUME PI, IndInv', NEW p \in Peers,
         \/ Connects(p) \/ Writes(p) \/ Reads(p)
         \/ Closes(p) \/ ResetArrives(p) \/ NetworkLost(p)
  PROVE  PI'
  <1>1. UNCHANGED <<connections, events, deleted_fds, peer_of>>
    BY DEF Connects, Writes, Reads, Closes, ResetArrives, NetworkLost, proxyVars
  <1>2. /\ TypeOK /\ TypeOK' /\ state \in [Peers -> States] /\ out \in [Peers -> Seq(Chunks)]
        /\ read \in [Peers -> Seq(Chunks)] /\ peer_of \in [Fds -> Peers \cup {NoPeer}]
    BY DEF PI, RowInv, IndInv, TypeOK
  <1>3. \A q \in Peers : /\ state[q] \notin {"none", "cut"} => state'[q] \notin {"none", "cut"}
                         /\ state[q] \in HungUp => state'[q] \in HungUp
                         /\ state[q] = "cut" => state'[q] = "cut"
                         /\ out[q] = <<>> => out'[q] = <<>> /\ read'[q] = read[q]
    BY <1>2 DEF Connects, Writes, Reads, Closes, ResetArrives, NetworkLost, peerVars, HungUp
  <1>4. OneSocket'
    BY <1>1, <1>2, <1>3, OneSocketKept DEF PI
  <1>5. BuffersOwned'
    BY <1>1 DEF PI, RowInv, BuffersOwned, HasWorker, HasController
  <1>6. HangupsTrue'
    BY <1>1, <1>2, <1>3, HangupsKept
  <1>7. \A q : Joined(q)' <=> Joined(q)
    BY <1>1, PairsKept
  <1>8. Unheard'
    BY <1>3, <1>7, UnheardKept
  <1>9. QED
    BY <1>4, <1>5, <1>6, <1>8 DEF PI, RowInv

-----------------------------------------------------------------------------
(* recv() and send().                                                      *)

\* The peer that is served is one side of its connection.
LEMMA PeerSide ==
  ASSUME RowInv, pc = "serve", events # <<>>, ~Skipped, Fd \notin Servers
  PROVE  /\ Peer \in Peers /\ Fd \in Fds /\ Fd # -1
         /\ Index \in DOMAIN connections /\ Index # 0
         /\ \/ /\ Fd = connections[Index].worker_fd
               /\ Peer = WorkerOf(Index) /\ Peer # NoPeer
            \/ /\ Fd # connections[Index].worker_fd
               /\ Fd = connections[Index].controller_fd
               /\ Peer = ControllerOf(Index) /\ Peer # NoPeer
  <1>1. /\ Peer \in Peers /\ Fd \in Fds /\ Fd # -1 /\ Fd \in Sides(Index)
        /\ Index \in DOMAIN connections /\ Index # 0
    BY ServeFacts DEF RowInv, IndInv
  <1>2. Peer # NoPeer
    BY <1>1, PeerFacts DEF Peers
  <1>3. QED
    BY <1>1, <1>2 DEF Sides, WorkerOf, ControllerOf, HasWorker, HasController, Peer

\* A chunk goes from the socket of a peer to the end of its buffer.
LEMMA ReceiveEffect ==
  ASSUME RowInv, Receive
  PROVE  LET chunk == Head(in[Peer])
         IN  /\ pc = "serve" /\ events # <<>> /\ ~Skipped /\ Fd \notin Servers
             /\ in[Peer] # <<>> /\ in' = [in EXCEPT ![Peer] = Tail(in[Peer])]
             /\ Served /\ UNCHANGED <<deleted_fds, peer_of, state, out, peerVars>>
             /\ DOMAIN connections' = DOMAIN connections
             /\ \A j \in DOMAIN connections :
                  /\ j # Index => connections'[j] = connections[j]
                  /\ connections'[j].worker_fd = connections[j].worker_fd
                  /\ connections'[j].controller_fd = connections[j].controller_fd
             /\ connections'[Index].w2c =
                  IF Peer = WorkerOf(Index) THEN Append(connections[Index].w2c, chunk)
                  ELSE connections[Index].w2c
             /\ connections'[Index].c2w =
                  IF Peer = ControllerOf(Index) THEN Append(connections[Index].c2w, chunk)
                  ELSE connections[Index].c2w
  <1> DEFINE old == connections[Index]
             chunk == Head(in[Peer])
             new == Forwarded(old, chunk)
  <1>1. /\ TypeOK /\ pc = "serve" /\ events # <<>> /\ ~Skipped /\ Fd \notin Servers
    BY DEF RowInv, IndInv, Receive, ToServe, At
  <1>2. /\ Peer \in Peers /\ Index \in DOMAIN connections /\ Index # 0
        /\ \/ Fd = old.worker_fd /\ Peer = WorkerOf(Index) /\ Peer # NoPeer
           \/ /\ Fd # old.worker_fd /\ Fd = old.controller_fd
              /\ Peer = ControllerOf(Index) /\ Peer # NoPeer
    BY <1>1, PeerSide
  <1>3. WorkerOf(Index) # ControllerOf(Index) \/ WorkerOf(Index) = NoPeer
    BY <1>2, SideFacts, PeerFacts
  <1>4. /\ in[Peer] # <<>>
        /\ connections' = [connections EXCEPT ![Index] = new]
        /\ in' = [in EXCEPT ![Peer] = Tail(in[Peer])]
        /\ Served /\ UNCHANGED <<deleted_fds, peer_of, state, out, peerVars>>
    BY <1>2 DEF Receive
  <1>5. chunk \in Chunks
    <2>1. in[Peer] \in Seq(Chunks)
      BY <1>1, <1>2 DEF TypeOK
    <2>2. QED
      BY <1>4, <2>1, HeadTailProperties
  <1>6. old \in Connections /\ old.w2c \in Seq(Chunks) /\ old.c2w \in Seq(Chunks)
    BY <1>1, <1>2, ConnectionsFacts
  <1> HIDE DEF old, chunk
  <1>7. /\ new \in Connections
        /\ new.worker_fd = old.worker_fd /\ new.controller_fd = old.controller_fd
        /\ new.w2c = IF Fd = old.worker_fd THEN Append(old.w2c, chunk) ELSE old.w2c
        /\ new.c2w = IF Fd = old.worker_fd THEN old.c2w ELSE Append(old.c2w, chunk)
    <2>1. Append(old.w2c, chunk) \in Seq(Chunks) /\ Append(old.c2w, chunk) \in Seq(Chunks)
      BY <1>5, <1>6, AppendProperties
    <2>2. QED
      BY <1>6, <2>1 DEF Forwarded, Connections
  <1> HIDE DEF new
  <1>8. /\ DOMAIN connections' = DOMAIN connections
        /\ connections'[Index] = new
        /\ \A j \in DOMAIN connections :
             /\ j # Index => connections'[j] = connections[j]
             /\ connections'[j].worker_fd = connections[j].worker_fd
             /\ connections'[j].controller_fd = connections[j].controller_fd
    BY <1>1, <1>2, <1>4, <1>7, BufferChanges DEF old
  <1>9. QED
    BY <1>1, <1>2, <1>3, <1>4, <1>7, <1>8 DEF old, chunk

LEMMA ReceivePI ==
  ASSUME PI, IndInv', Receive
  PROVE  PI'
  <1>1. RowInv /\ TypeOK' /\ BuffersOwned
    BY DEF PI, RowInv, IndInv
  <1>2. /\ Served /\ events # <<>> /\ UNCHANGED <<deleted_fds, peer_of, state, out, peerVars>>
        /\ DOMAIN connections' = DOMAIN connections
        /\ \A j \in DOMAIN connections :
             /\ j # Index => connections'[j] = connections[j]
             /\ connections'[j].worker_fd = connections[j].worker_fd
             /\ connections'[j].controller_fd = connections[j].controller_fd
        /\ Peer # WorkerOf(Index) => connections'[Index].w2c = connections[Index].w2c
        /\ Peer # ControllerOf(Index) => connections'[Index].c2w = connections[Index].c2w
        /\ Peer # NoPeer /\ Index \in DOMAIN connections
    BY <1>1, ReceiveEffect, PeerSide
  <1>3. OneSocket'
    BY <1>1, <1>2, OneSocketKept
  <1>4. BuffersOwned'
    BY <1>1, <1>2, PairsKept, SideFacts DEF BuffersOwned
  <1>5. HangupsTrue'
    <2>1. \A n \in DOMAIN events' : \E m \in DOMAIN events : events'[n] = events[m]
      BY <1>2, ServedFacts DEF PI, RowInv, IndInv
    <2>2. QED
      BY <1>2, <2>1, HangupsKept
  <1>6. Unheard'
    BY <1>2, PairsKept, UnheardKept DEF peerVars
  <1>7. QED
    BY <1>3, <1>4, <1>5, <1>6 DEF PI, RowInv

\* A chunk goes from the front of the buffer for a peer to its socket.
LEMMA SendEffect ==
  ASSUME RowInv, Send
  PROVE  /\ pc = "serve" /\ events # <<>> /\ ~Skipped /\ Fd \notin Servers
         /\ Buffer \in Seq(Chunks) /\ Buffer # <<>>
         /\ Buffer = IF Peer = WorkerOf(Index) THEN connections[Index].c2w
                     ELSE connections[Index].w2c
         /\ events' = events \/ Served
         /\ UNCHANGED <<deleted_fds, peer_of, in, peerVars>>
         /\ out' = [out EXCEPT ![Peer] = IF state[Peer] = "open" THEN Append(@, Head(Buffer)) ELSE @]
         /\ state' = [state EXCEPT ![Peer] = IF @ = "fin" THEN "finsent" ELSE @]
         /\ DOMAIN connections' = DOMAIN connections
         /\ \A j \in DOMAIN connections :
              /\ j # Index => connections'[j] = connections[j]
              /\ connections'[j].worker_fd = connections[j].worker_fd
              /\ connections'[j].controller_fd = connections[j].controller_fd
         /\ connections'[Index].c2w =
              IF Peer = WorkerOf(Index) THEN Tail(Buffer) ELSE connections[Index].c2w
         /\ connections'[Index].w2c =
              IF Peer = ControllerOf(Index) THEN Tail(Buffer) ELSE connections[Index].w2c
  <1> DEFINE old == connections[Index]
             new == Erased(old)
  <1>1. /\ TypeOK /\ ProxyInv /\ pc = "serve" /\ events # <<>> /\ ~Skipped /\ Fd \notin Servers
        /\ Head(events)[2] = "POLLOUT"
    BY DEF RowInv, IndInv, Send, ToServe, At
  <1>2. /\ Peer \in Peers /\ Index \in DOMAIN connections /\ Index # 0
        /\ \/ Fd = old.worker_fd /\ Peer = WorkerOf(Index) /\ Peer # NoPeer
           \/ /\ Fd # old.worker_fd /\ Fd = old.controller_fd
              /\ Peer = ControllerOf(Index) /\ Peer # NoPeer
    BY <1>1, PeerSide
  <1>3. WorkerOf(Index) # ControllerOf(Index) \/ WorkerOf(Index) = NoPeer
    BY <1>2, SideFacts, PeerFacts
  <1>4. /\ connections' = [connections EXCEPT ![Index] = new]
        /\ out' = [out EXCEPT ![Peer] = IF state[Peer] = "open" THEN Append(@, Head(Buffer)) ELSE @]
        /\ state' = [state EXCEPT ![Peer] = IF @ = "fin" THEN "finsent" ELSE @]
        /\ events' = events \/ Served
        /\ UNCHANGED <<deleted_fds, peer_of, in, peerVars>>
    BY DEF Send
  <1>5. old \in Connections /\ old.w2c \in Seq(Chunks) /\ old.c2w \in Seq(Chunks)
    BY <1>1, <1>2, ConnectionsFacts
  <1>6. Buffer = (IF Fd = old.worker_fd THEN old.c2w ELSE old.w2c)
    BY DEF Buffer
  <1>7. Buffer # <<>> /\ Buffer \in Seq(Chunks)
    <2>1. 1 \in DOMAIN events /\ Head(events) = events[1] /\ Fd = events[1][1]
      BY <1>1, EventsFacts DEF Fd
    <2>2. /\ Fd = old.worker_fd => old.c2w # <<>>
          /\ Fd = old.controller_fd => old.w2c # <<>>
      BY <1>1, <1>2, <2>1 DEF ProxyInv, EventsInv, SomethingToSend, Skipped
    <2>3. QED
      BY <1>2, <1>5, <1>6, <2>2
  <1> HIDE DEF old
  <1>8. /\ new \in Connections
        /\ new.worker_fd = old.worker_fd /\ new.controller_fd = old.controller_fd
        /\ new.c2w = (IF Fd = old.worker_fd THEN Tail(Buffer) ELSE old.c2w)
        /\ new.w2c = (IF Fd = old.worker_fd THEN old.w2c ELSE Tail(Buffer))
    <2>1. Tail(Buffer) \in Seq(Chunks)
      BY <1>7, HeadTailProperties
    <2>2. QED
      BY <1>5, <1>6, <2>1 DEF Erased, Connections
  <1> HIDE DEF new
  <1>9. /\ DOMAIN connections' = DOMAIN connections
        /\ connections'[Index] = new
        /\ \A j \in DOMAIN connections :
             /\ j # Index => connections'[j] = connections[j]
             /\ connections'[j].worker_fd = connections[j].worker_fd
             /\ connections'[j].controller_fd = connections[j].controller_fd
    BY <1>1, <1>2, <1>4, <1>8, BufferChanges DEF old
  <1>10. /\ Peer = WorkerOf(Index) <=> Fd = old.worker_fd
         /\ Peer = ControllerOf(Index) <=> Fd # old.worker_fd
    BY <1>2, <1>3
  <1>11. Buffer = IF Peer = WorkerOf(Index) THEN connections[Index].c2w ELSE connections[Index].w2c
    BY <1>6, <1>10 DEF old
  <1>12. /\ connections'[Index].c2w =
              IF Peer = WorkerOf(Index) THEN Tail(Buffer) ELSE connections[Index].c2w
         /\ connections'[Index].w2c =
              IF Peer = ControllerOf(Index) THEN Tail(Buffer) ELSE connections[Index].w2c
    BY <1>8, <1>9, <1>10 DEF old
  <1>13. QED
    BY <1>1, <1>4, <1>7, <1>9, <1>11, <1>12, Zenon

\* There is something to send only to one of two that are joined.
LEMMA SendJoined ==
  ASSUME RowInv, Send
  PROVE  /\ Index \in DOMAIN connections
         /\ Peer \in {WorkerOf(Index), ControllerOf(Index)}
         /\ WorkerOf(Index) # NoPeer /\ ControllerOf(Index) # NoPeer
         /\ Joined(Peer)
  <1>1. /\ pc = "serve" /\ events # <<>> /\ ~Skipped /\ Fd \notin Servers /\ Buffer # <<>>
        /\ Buffer = IF Peer = WorkerOf(Index) THEN connections[Index].c2w
                    ELSE connections[Index].w2c
    BY SendEffect
  <1>2. /\ Index \in DOMAIN connections
        /\ Peer = WorkerOf(Index) \/ Peer = ControllerOf(Index)
        /\ Peer # NoPeer
    BY <1>1, PeerSide
  <1>3. WorkerOf(Index) # NoPeer /\ ControllerOf(Index) # NoPeer
    BY <1>1, <1>2, SideFacts DEF RowInv, BuffersOwned
  <1>4. HasWorker(Index) /\ HasController(Index)
    BY <1>2, <1>3, SideFacts
  <1>5. QED
    BY <1>2, <1>3, <1>4 DEF Joined

LEMMA SendPI ==
  ASSUME PI, IndInv', Send
  PROVE  PI'
  <1>1. /\ RowInv /\ TypeOK' /\ BuffersOwned
        /\ state \in [Peers -> States] /\ out \in [Peers -> Seq(Chunks)]
        /\ peer_of \in [Fds -> Peers \cup {NoPeer}]
    BY DEF PI, RowInv, IndInv, TypeOK
  <1>2. /\ events # <<>> /\ (events' = events \/ Served)
        /\ UNCHANGED <<deleted_fds, peer_of, in, peerVars>>
        /\ out' = [out EXCEPT ![Peer] = IF state[Peer] = "open" THEN Append(@, Head(Buffer)) ELSE @]
        /\ state' = [state EXCEPT ![Peer] = IF @ = "fin" THEN "finsent" ELSE @]
        /\ DOMAIN connections' = DOMAIN connections
        /\ \A j \in DOMAIN connections :
             /\ j # Index => connections'[j] = connections[j]
             /\ connections'[j].worker_fd = connections[j].worker_fd
             /\ connections'[j].controller_fd = connections[j].controller_fd
    BY <1>1, SendEffect
  <1>3. \A q \in Peers : /\ state[q] \notin {"none", "cut"} => state'[q] \notin {"none", "cut"}
                         /\ state[q] \in HungUp => state'[q] \in HungUp
                         /\ state[q] = "cut" => state'[q] = "cut"
                         /\ q # Peer => out'[q] = out[q]
    BY <1>1, <1>2 DEF HungUp
  <1>4. OneSocket'
    BY <1>1, <1>2, <1>3, OneSocketKept
  <1>5. BuffersOwned'
    BY <1>1, <1>2, PairsKept, SideFacts, SendJoined DEF BuffersOwned
  <1>6. HangupsTrue'
    <2>1. \A n \in DOMAIN events' : \E m \in DOMAIN events : events'[n] = events[m]
      <3>1. CASE events' = events
        BY <3>1
      <3>2. CASE Served
        BY <1>2, <3>2, ServedFacts DEF PI, RowInv, IndInv
      <3>3. QED
        BY <1>2, <3>1, <3>2
    <2>2. deleted_fds' = deleted_fds /\ peer_of' = peer_of
      BY <1>2
    <2>3. \A fd \in Fds : peer_of[fd] # NoPeer /\ state[peer_of[fd]] \in HungUp
                          => state'[peer_of'[fd]] \in HungUp
      BY <1>1, <1>3, <2>2
    <2>4. QED
      BY <2>1, <2>2, <2>3, HangupsKept
  <1>7. Unheard'
    BY <1>1, <1>2, <1>3, PairsKept, SendJoined, UnheardKept DEF peerVars
  <1>8. QED
    BY <1>4, <1>5, <1>6, <1>7 DEF PI, RowInv

-----------------------------------------------------------------------------
(* close_connection()                                                      *)

LEMMA CloseEffect ==
  ASSUME RowInv, pc = "serve", events # <<>>, ~Skipped, Fd \notin Servers,
         close_connection(Index)
  PROVE  /\ Row(Index) \in Rows
         /\ Rows' = Rows \ {Row(Index)}
         /\ Peer \in {WorkerOf(Index), ControllerOf(Index)} /\ Peer \in Peers
         /\ deleted_fds \subseteq deleted_fds'
         /\ \A fd \in Fds : \/ peer_of'[fd] = NoPeer /\ fd \in deleted_fds'
                            \/ /\ peer_of'[fd] = peer_of[fd]
                               /\ peer_of[fd] # NoPeer =>
                                    peer_of[fd] \notin {WorkerOf(Index), ControllerOf(Index)}
         /\ BuffersOwned'
         /\ \A p \in Peers :
              IF p \in {WorkerOf(Index), ControllerOf(Index)}
              THEN state'[p] = "cut" /\ in'[p] = <<>> /\ out'[p] \in Prefixes(out[p])
              ELSE state'[p] = state[p] /\ in'[p] = in[p] /\ out'[p] = out[p]
  <1> DEFINE fds == Sides(Index) \ {-1}
             closed == {peer_of[fd] : fd \in fds}
             mine == {WorkerOf(Index), ControllerOf(Index)}
  <1>1. /\ TypeOK /\ SidesInv /\ BuffersOwned /\ peer_of \in [Fds -> Peers \cup {NoPeer}]
    BY DEF RowInv, IndInv, ProxyInv, TypeOK
  <1>2. /\ Index \in DOMAIN connections /\ Peer \in Peers /\ Peer \in mine
        /\ HasWorker(Index) \/ HasController(Index)
    BY PeerSide, SideFacts
  <1>3. /\ deleted_fds' = deleted_fds \cup Sides(Index)
        /\ connections' = RemoveAt(connections, Index)
        /\ peer_of' = [fd \in Fds |-> IF fd \in fds THEN NoPeer ELSE peer_of[fd]]
        /\ state' = [p \in Peers |-> IF p \in closed THEN "cut" ELSE state[p]]
        /\ in' = [p \in Peers |-> IF p \in closed THEN <<>> ELSE in[p]]
    BY DEF close_connection
  <1>4. PICK kept \in [closed -> UNION {Prefixes(out[p]) : p \in closed}] :
          /\ \A p \in closed : kept[p] \in Cuts(out[p], in[p] # <<>>)
          /\ out' = [p \in Peers |-> IF p \in closed THEN kept[p] ELSE out[p]]
    BY DEF close_connection
  <1>5. /\ fds \subseteq Fds
        /\ \A fd \in Fds : fd \in fds <=> \/ HasWorker(Index) /\ fd = connections[Index].worker_fd
                                          \/ HasController(Index) /\ fd = connections[Index].controller_fd
    BY <1>2, SideFacts, FdFacts DEF Sides, HasWorker, HasController
  <1>6. closed = mine \ {NoPeer}
    BY <1>2, <1>5, SideFacts
  <1> HIDE DEF fds, closed
  <1>7. ASSUME NEW p \in Peers
        PROVE  IF p \in mine
               THEN state'[p] = "cut" /\ in'[p] = <<>> /\ out'[p] \in Prefixes(out[p])
               ELSE state'[p] = state[p] /\ in'[p] = in[p] /\ out'[p] = out[p]
    <2>1. p \in mine <=> p \in closed
      BY <1>6, PeerFacts DEF Peers
    <2>2. p \in closed => kept[p] \in Prefixes(out[p])
      <3>1. out[p] \in Prefixes(out[p])
        <4>1. out[p] \in Seq(Chunks)
          BY <1>1 DEF TypeOK
        <4>2. QED
          BY <4>1, PrefixExtremes
      <3>2. QED
        BY <1>4, <3>1 DEF Cuts
    <2>3. QED
      BY <1>3, <1>4, <2>1, <2>2
  <1>8. ASSUME NEW fd \in Fds
        PROVE  \/ peer_of'[fd] = NoPeer /\ fd \in deleted_fds'
               \/ peer_of'[fd] = peer_of[fd] /\ (peer_of[fd] # NoPeer => peer_of[fd] \notin mine)
    <2>1. CASE fd \in fds
      BY <1>3, <2>1 DEF fds
    <2>2. CASE fd \notin fds
      <3>1. ASSUME peer_of[fd] # NoPeer, peer_of[fd] \in mine
            PROVE  FALSE
        <4>1. PICK gd \in fds : peer_of[gd] = peer_of[fd]
          BY <1>6, <3>1 DEF closed
        <4>2. fd = gd
          BY <1>5, <3>1, <4>1 DEF RowInv, OneSocket
        <4>3. QED
          BY <2>2, <4>1, <4>2
      <3>2. QED
        BY <1>3, <2>2, <3>1
    <2>3. QED
      BY <2>1, <2>2
  <1>9. PICK old \in [DOMAIN connections' -> DOMAIN connections] :
          /\ \A n \in DOMAIN connections' : connections'[n] = connections[old[n]] /\ old[n] # Index
          /\ \A j \in DOMAIN connections : j # Index => \E n \in DOMAIN connections' : old[n] = j
    BY <1>1, <1>2, <1>3, RemovedConnection
  <1>10. ASSUME NEW n \in DOMAIN connections'
         PROVE  /\ HasWorker(n)' = HasWorker(old[n])
                /\ HasController(n)' = HasController(old[n])
                /\ Row(n)' = Row(old[n])
    <2>1. /\ old[n] \in DOMAIN connections /\ old[n] # Index
          /\ connections'[n] = connections[old[n]]
      BY <1>9
    <2>2. \A fd \in Sides(old[n]) : fd \notin fds
      BY <1>1, <1>2, <2>1, SidesApart DEF fds
    <2>3. /\ HasWorker(old[n]) => peer_of'[connections[old[n]].worker_fd] = peer_of[connections[old[n]].worker_fd]
          /\ HasController(old[n]) => peer_of'[connections[old[n]].controller_fd] = peer_of[connections[old[n]].controller_fd]
      BY <1>3, <2>1, <2>2, SideFacts DEF Sides
    <2>4. /\ HasWorker(n)' = HasWorker(old[n])
          /\ HasController(n)' = HasController(old[n])
          /\ WorkerOf(n)' = WorkerOf(old[n])
          /\ ControllerOf(n)' = ControllerOf(old[n])
      BY <2>1, <2>3, SidesStay
    <2>5. QED
      BY <2>1, <2>4 DEF Row
  <1>11. \A j \in DOMAIN connections :
           j # Index /\ (HasWorker(j) \/ HasController(j)) => Row(j) # Row(Index)
    BY <1>2, SideFacts, SideOnce DEF Row
  <1>12. Rows' = Rows \ {Row(Index)}
    <2>1. ASSUME NEW r \in Rows'
          PROVE  r \in Rows \ {Row(Index)}
      <3>1. PICK n \in DOMAIN connections' : r = Row(n)' /\ (HasWorker(n)' \/ HasController(n)')
        BY DEF Rows
      <3>2. /\ old[n] \in DOMAIN connections /\ old[n] # Index
            /\ r = Row(old[n]) /\ (HasWorker(old[n]) \/ HasController(old[n]))
        BY <1>9, <1>10, <3>1
      <3>3. QED
        BY <1>11, <3>2 DEF Rows
    <2>2. ASSUME NEW r \in Rows, r # Row(Index)
          PROVE  r \in Rows'
      <3>1. PICK j \in DOMAIN connections : r = Row(j) /\ (HasWorker(j) \/ HasController(j))
        BY DEF Rows
      <3>2. PICK n \in DOMAIN connections' : old[n] = j
        BY <1>9, <2>2, <3>1
      <3>3. r = Row(n)' /\ (HasWorker(n)' \/ HasController(n)')
        BY <1>10, <3>1, <3>2
      <3>4. QED
        BY <3>3 DEF Rows
    <2>3. QED
      BY <2>1, <2>2
  <1>13. BuffersOwned'
    BY <1>1, <1>9, <1>10 DEF BuffersOwned
  <1>14. Row(Index) \in Rows /\ deleted_fds \subseteq deleted_fds'
    BY <1>2, <1>3 DEF Rows
  <1>15. QED
    BY <1>2, <1>7, <1>8, <1>12, <1>13, <1>14

LEMMA ClosePI ==
  ASSUME PI, IndInv', pc = "serve", events # <<>>, ~Skipped, Fd \notin Servers,
         close_connection(Index), Served, UNCHANGED <<pc, sent_here, peerVars>>
  PROVE  PI'
  <1> DEFINE mine == {WorkerOf(Index), ControllerOf(Index)}
  <1>1. /\ RowInv /\ IndInv /\ TypeOK /\ TypeOK'
        /\ peer_of \in [Fds -> Peers \cup {NoPeer}]
    BY DEF PI, RowInv, IndInv, TypeOK
  <1>2. /\ Rows' = Rows \ {Row(Index)}
        /\ deleted_fds \subseteq deleted_fds'
        /\ \A fd \in Fds : \/ peer_of'[fd] = NoPeer /\ fd \in deleted_fds'
                           \/ /\ peer_of'[fd] = peer_of[fd]
                              /\ peer_of[fd] # NoPeer => peer_of[fd] \notin mine
        /\ BuffersOwned'
        /\ \A p \in Peers :
             IF p \in mine THEN state'[p] = "cut"
             ELSE state'[p] = state[p] /\ in'[p] = in[p] /\ out'[p] = out[p]
    BY <1>1, CloseEffect
  <1>3. OneSocket'
    BY <1>1, <1>2, OneSocketKept
  <1>4. HangupsTrue'
    <2>1. \A n \in DOMAIN events' : \E m \in DOMAIN events : events'[n] = events[m]
      BY <1>1, ServedFacts
    <2>2. \A fd \in Fds \ deleted_fds' : peer_of[fd] # NoPeer /\ state[peer_of[fd]] \in HungUp
                                         => state'[peer_of'[fd]] \in HungUp
      BY <1>1, <1>2
    <2>3. QED
      BY <1>2, <2>1, <2>2, HangupsKept
  <1>5. RowInv'
    BY <1>2, <1>3 DEF RowInv
  <1>6. /\ RowsMapped /\ RowsMapped'
    BY <1>1, <1>5, RowsView, PTL
  <1>7. ASSUME NEW p \in Peers, ~Joined(p)', state'[p] # "cut"
        PROVE  ~Joined(p) /\ state[p] # "cut" /\ out'[p] = out[p] /\ read'[p] = read[p]
    <2>1. p \notin mine /\ state[p] # "cut" /\ out'[p] = out[p]
      BY <1>2, <1>7
    <2>2. ~Joined(p)
      <3>1. SUFFICES ASSUME NEW r \in Rows, Whole(r), p \in {r.worker, r.controller}
                     PROVE  FALSE
        BY <1>6 DEF RowsMapped
      <3>2. r # Row(Index)
        BY <2>1, <3>1 DEF Row
      <3>3. Joined(p)'
        BY <1>2, <1>6, <3>1, <3>2 DEF RowsMapped, Whole
      <3>4. QED
        BY <1>7, <3>3
    <2>3. QED
      BY <2>1, <2>2 DEF peerVars
  <1>8. Unheard'
    BY <1>7, UnheardKept
  <1>9. QED
    BY <1>4, <1>5, <1>8 DEF PI

-----------------------------------------------------------------------------
(* accept()                                                                *)

\* A worker that is accepted becomes the worker of a controller that waits,
\* with what that controller has said, or waits itself.
WorkerSeated(p, c, b) ==
  LET seat == [worker |-> NoPeer, controller |-> c, w2c |-> <<>>, c2w |-> b]
      taken == [worker |-> p, controller |-> c, w2c |-> <<>>, c2w |-> b]
  IN  /\ IF c = NoPeer THEN b = <<>> ELSE seat \in Rows
      /\ Rows' = (Rows \ {seat}) \cup {taken}

ControllerSeated(p, w, b) ==
  LET seat == [worker |-> w, controller |-> NoPeer, w2c |-> b, c2w |-> <<>>]
      taken == [worker |-> w, controller |-> p, w2c |-> b, c2w |-> <<>>]
  IN  /\ IF w = NoPeer THEN b = <<>> ELSE seat \in Rows
      /\ Rows' = (Rows \ {seat}) \cup {taken}

\* The other connections stay as they are.
LEMMA OthersStay ==
  ASSUME RowInv, NEW k, Placed(k), NEW fd, NEW p, Accepted(fd, p)
  PROVE  \A j \in DOMAIN connections :
           /\ HasWorker(j) => peer_of'[connections[j].worker_fd] = WorkerOf(j)
           /\ HasController(j) => peer_of'[connections[j].controller_fd] = ControllerOf(j)
           /\ j # k => /\ HasWorker(j)' = HasWorker(j)
                       /\ HasController(j)' = HasController(j)
                       /\ Row(j)' = Row(j)
  <1>1. peer_of \in [Fds -> Peers \cup {NoPeer}]
    BY DEF RowInv, IndInv, TypeOK
  <1>2. ASSUME NEW j \in DOMAIN connections
        PROVE  /\ HasWorker(j) => peer_of'[connections[j].worker_fd] = WorkerOf(j)
               /\ HasController(j) => peer_of'[connections[j].controller_fd] = ControllerOf(j)
    BY <1>1, SideFacts DEF Accepted
  <1>3. ASSUME NEW j \in DOMAIN connections, j # k
        PROVE  /\ HasWorker(j)' = HasWorker(j)
               /\ HasController(j)' = HasController(j)
               /\ Row(j)' = Row(j)
    <2>1. j \in DOMAIN connections' /\ connections'[j] = connections[j]
      BY <1>3 DEF Placed
    <2>2. /\ HasWorker(j)' = HasWorker(j)
          /\ HasController(j)' = HasController(j)
          /\ WorkerOf(j)' = WorkerOf(j)
          /\ ControllerOf(j)' = ControllerOf(j)
      BY <1>2, <2>1, SidesStay, SideFacts
    <2>3. QED
      BY <2>1, <2>2 DEF Row
  <1>4. QED
    BY <1>2, <1>3

\* What becomes of the rows when one place changes.
LEMMA RowsPlaced ==
  ASSUME RowInv, NEW k, Placed(k), NEW fd, NEW p, Accepted(fd, p),
         HasWorker(k)' \/ HasController(k)',
         k \in DOMAIN connections => ~HasWorker(k) \/ ~HasController(k)
  PROVE  Rows' = {r \in Rows : k \in DOMAIN connections => r # Row(k)} \cup {Row(k)'}
  <1>1. \A j \in DOMAIN connections :
          j # k => /\ HasWorker(j)' = HasWorker(j)
                   /\ HasController(j)' = HasController(j)
                   /\ Row(j)' = Row(j)
    BY OthersStay
  <1>2. DOMAIN connections' = DOMAIN connections \cup {k}
    BY DEF Placed
  <1>3. \A j \in DOMAIN connections :
          j # k /\ k \in DOMAIN connections /\ (HasWorker(j) \/ HasController(j)) => Row(j) # Row(k)
    BY SideFacts, SideOnce DEF Row
  <1>4. ASSUME NEW r \in Rows'
        PROVE  r \in {t \in Rows : k \in DOMAIN connections => t # Row(k)} \cup {Row(k)'}
    <2>1. PICK j \in DOMAIN connections' : r = Row(j)' /\ (HasWorker(j)' \/ HasController(j)')
      BY DEF Rows
    <2>2. CASE j # k
      <3>1. j \in DOMAIN connections /\ r = Row(j) /\ (HasWorker(j) \/ HasController(j))
        BY <1>1, <1>2, <2>1, <2>2
      <3>2. QED
        BY <1>3, <2>2, <3>1 DEF Rows
    <2>3. CASE j = k
      BY <2>1, <2>3
    <2>4. QED
      BY <2>2, <2>3
  <1>5. ASSUME NEW r \in Rows, k \in DOMAIN connections => r # Row(k)
        PROVE  r \in Rows'
    <2>1. PICK j \in DOMAIN connections : r = Row(j) /\ (HasWorker(j) \/ HasController(j))
      BY DEF Rows
    <2>2. j # k
      BY <1>5, <2>1
    <2>3. j \in DOMAIN connections' /\ r = Row(j)' /\ (HasWorker(j)' \/ HasController(j)')
      BY <1>1, <1>2, <2>1, <2>2
    <2>4. QED
      BY <2>3 DEF Rows
  <1>6. Row(k)' \in Rows'
    BY <1>2 DEF Rows
  <1>7. QED
    BY <1>4, <1>5, <1>6

LEMMA WorkerSeats ==
  ASSUME RowInv, NEW p \in Workers, NEW fd \in Fds, Accepted(fd, p),
         NEW k \in Nat, WorkerPlaced(k, fd)
  PROVE  \E c \in Controllers \cup {NoPeer}, b \in Seq(Chunks) : WorkerSeated(p, c, b)
  <1>1. /\ peer_of \in [Fds -> Peers \cup {NoPeer}] /\ BuffersOwned /\ fd # -1
    BY FdFacts DEF RowInv, IndInv, TypeOK
  <1>2. peer_of'[fd] = p
    BY <1>1 DEF Accepted
  <1>3. /\ Placed(k) /\ connections'[k].worker_fd = fd
        /\ connections'[k].controller_fd = IF k \in DOMAIN connections THEN connections[k].controller_fd ELSE -1
        /\ k \in DOMAIN connections => ~HasWorker(k)
    BY DEF WorkerPlaced
  <1>4. HasWorker(k)' /\ WorkerOf(k)' = p
    BY <1>1, <1>2, <1>3 DEF HasWorker, WorkerOf
  <1>5. Rows' = {r \in Rows : k \in DOMAIN connections => r # Row(k)} \cup {Row(k)'}
    BY <1>3, <1>4, RowsPlaced
  <1>6. CASE k \in DOMAIN connections
    <2> DEFINE c == ControllerOf(k)
               b == connections[k].c2w
    <2>1. /\ c \in Controllers \cup {NoPeer} /\ WorkerOf(k) = NoPeer
          /\ HasController(k) <=> c # NoPeer
          /\ ~HasController(k) => b = <<>>
          /\ connections[k].w2c = <<>> /\ b \in Seq(Chunks)
      BY <1>1, <1>3, <1>6, SideFacts, ConnectionsFacts DEF BuffersOwned, RowInv, IndInv
    <2>2. ControllerOf(k)' = c
      <3>1. HasController(k) => peer_of'[connections[k].controller_fd] = c
        BY <1>3, <1>6, OthersStay
      <3>2. QED
        BY <1>3, <1>6, <3>1 DEF ControllerOf, HasController
    <2>3. connections'[k].w2c = <<>> /\ connections'[k].c2w = b
      BY <1>3, <1>6, <2>1 DEF Placed
    <2>4. /\ Row(k) = [worker |-> NoPeer, controller |-> c, w2c |-> <<>>, c2w |-> b]
          /\ Row(k)' = [worker |-> p, controller |-> c, w2c |-> <<>>, c2w |-> b]
      BY <1>4, <2>1, <2>2, <2>3 DEF Row
    <2>5. IF c = NoPeer THEN b = <<>> ELSE Row(k) \in Rows
      BY <1>6, <2>1 DEF Rows
    <2> HIDE DEF c, b
    <2>6. WorkerSeated(p, c, b)
      BY <1>5, <1>6, <2>4, <2>5 DEF WorkerSeated
    <2>7. QED
      BY <2>1, <2>6
  <1>7. CASE k \notin DOMAIN connections
    <2>1. connections'[k].w2c = <<>> /\ connections'[k].c2w = <<>> /\ ControllerOf(k)' = NoPeer
      BY <1>3, <1>7 DEF Placed, ControllerOf, HasController
    <2>2. Row(k)' = [worker |-> p, controller |-> NoPeer, w2c |-> <<>>, c2w |-> <<>>]
      BY <1>4, <2>1 DEF Row
    <2>3. [worker |-> NoPeer, controller |-> NoPeer, w2c |-> <<>>, c2w |-> <<>>] \notin Rows
      BY RowsOf
    <2>4. WorkerSeated(p, NoPeer, <<>>)
      BY <1>5, <1>7, <2>2, <2>3 DEF WorkerSeated
    <2>5. <<>> \in Seq(Chunks)
      BY EmptySeq
    <2>6. QED
      BY <2>4, <2>5
  <1>8. QED
    BY <1>6, <1>7

LEMMA ControllerSeats ==
  ASSUME RowInv, NEW p \in Controllers, NEW fd \in Fds, Accepted(fd, p),
         NEW k \in Nat, ControllerPlaced(k, fd)
  PROVE  \E w \in Workers \cup {NoPeer}, b \in Seq(Chunks) : ControllerSeated(p, w, b)
  <1>1. /\ peer_of \in [Fds -> Peers \cup {NoPeer}] /\ BuffersOwned /\ fd # -1
    BY FdFacts DEF RowInv, IndInv, TypeOK
  <1>2. peer_of'[fd] = p
    BY <1>1 DEF Accepted
  <1>3. /\ Placed(k) /\ connections'[k].controller_fd = fd
        /\ connections'[k].worker_fd = IF k \in DOMAIN connections THEN connections[k].worker_fd ELSE -1
        /\ k \in DOMAIN connections => ~HasController(k)
    BY DEF ControllerPlaced
  <1>4. HasController(k)' /\ ControllerOf(k)' = p
    BY <1>1, <1>2, <1>3 DEF HasController, ControllerOf
  <1>5. Rows' = {r \in Rows : k \in DOMAIN connections => r # Row(k)} \cup {Row(k)'}
    BY <1>3, <1>4, RowsPlaced
  <1>6. CASE k \in DOMAIN connections
    <2> DEFINE w == WorkerOf(k)
               b == connections[k].w2c
    <2>1. /\ w \in Workers \cup {NoPeer} /\ ControllerOf(k) = NoPeer
          /\ HasWorker(k) <=> w # NoPeer
          /\ ~HasWorker(k) => b = <<>>
          /\ connections[k].c2w = <<>> /\ b \in Seq(Chunks)
      BY <1>1, <1>3, <1>6, SideFacts, ConnectionsFacts DEF BuffersOwned, RowInv, IndInv
    <2>2. WorkerOf(k)' = w
      <3>1. HasWorker(k) => peer_of'[connections[k].worker_fd] = w
        BY <1>3, <1>6, OthersStay
      <3>2. QED
        BY <1>3, <1>6, <3>1 DEF WorkerOf, HasWorker
    <2>3. connections'[k].c2w = <<>> /\ connections'[k].w2c = b
      BY <1>3, <1>6, <2>1 DEF Placed
    <2>4. /\ Row(k) = [worker |-> w, controller |-> NoPeer, w2c |-> b, c2w |-> <<>>]
          /\ Row(k)' = [worker |-> w, controller |-> p, w2c |-> b, c2w |-> <<>>]
      BY <1>4, <2>1, <2>2, <2>3 DEF Row
    <2>5. IF w = NoPeer THEN b = <<>> ELSE Row(k) \in Rows
      BY <1>6, <2>1 DEF Rows
    <2> HIDE DEF w, b
    <2>6. ControllerSeated(p, w, b)
      BY <1>5, <1>6, <2>4, <2>5 DEF ControllerSeated
    <2>7. QED
      BY <2>1, <2>6
  <1>7. CASE k \notin DOMAIN connections
    <2>1. connections'[k].w2c = <<>> /\ connections'[k].c2w = <<>> /\ WorkerOf(k)' = NoPeer
      BY <1>3, <1>7 DEF Placed, WorkerOf, HasWorker
    <2>2. Row(k)' = [worker |-> NoPeer, controller |-> p, w2c |-> <<>>, c2w |-> <<>>]
      BY <1>4, <2>1 DEF Row
    <2>3. [worker |-> NoPeer, controller |-> NoPeer, w2c |-> <<>>, c2w |-> <<>>] \notin Rows
      BY RowsOf
    <2>4. ControllerSeated(p, NoPeer, <<>>)
      BY <1>5, <1>7, <2>2, <2>3 DEF ControllerSeated
    <2>5. <<>> \in Seq(Chunks)
      BY EmptySeq
    <2>6. QED
      BY <2>4, <2>5
  <1>8. QED
    BY <1>6, <1>7

\* A failed accept() changes no connection and adds at most a blank one.
LEMMA FailedPlaces ==
  ASSUME RowInv, NEW k \in Nat, WorkerPlaced(k, -1) \/ ControllerPlaced(k, -1), peer_of' = peer_of
  PROVE  Rows' = Rows
  <1>1. /\ Placed(k) /\ Accepted(-1, NoPeer)
        /\ k \in DOMAIN connections => /\ connections'[k].worker_fd = connections[k].worker_fd
                                       /\ connections'[k].controller_fd = connections[k].controller_fd
        /\ k \notin DOMAIN connections => ~HasWorker(k)' /\ ~HasController(k)'
    BY DEF WorkerPlaced, ControllerPlaced, HasWorker, HasController, Accepted
  <1>2. /\ DOMAIN connections' = DOMAIN connections \cup {k}
        /\ k \in DOMAIN connections => /\ connections'[k].w2c = connections[k].w2c
                                       /\ connections'[k].c2w = connections[k].c2w
    BY <1>1 DEF Placed
  <1>3. \A j \in DOMAIN connections : /\ HasWorker(j)' = HasWorker(j)
                                      /\ HasController(j)' = HasController(j)
                                      /\ Row(j)' = Row(j)
    <2>1. \A j \in DOMAIN connections :
            j # k => /\ HasWorker(j)' = HasWorker(j)
                     /\ HasController(j)' = HasController(j)
                     /\ Row(j)' = Row(j)
      BY <1>1, OthersStay
    <2>2. k \in DOMAIN connections => /\ HasWorker(k)' = HasWorker(k)
                                      /\ HasController(k)' = HasController(k)
                                      /\ Row(k)' = Row(k)
      BY <1>1, <1>2 DEF Row, WorkerOf, ControllerOf, HasWorker, HasController
    <2>3. QED
      BY <2>1, <2>2
  <1>4. QED
    BY <1>1, <1>2, <1>3 DEF Rows

LEMMA AcceptEffect ==
  ASSUME RowInv, NEW p \in Peers, Accept(p)
  PROVE  /\ events # <<>> /\ Served /\ UNCHANGED <<deleted_fds, out, written, read>>
         /\ state[p] \notin {"none", "cut"} /\ \A fd \in Fds : peer_of[fd] # p
         /\ BuffersOwned'
         /\ \/ /\ UNCHANGED <<state, in>>
               /\ \E fd \in Fds : peer_of[fd] = NoPeer /\ peer_of' = [peer_of EXCEPT ![fd] = p]
               /\ \/ /\ p \in Workers
                     /\ \E c \in Controllers \cup {NoPeer}, b \in Seq(Chunks) : WorkerSeated(p, c, b)
                  \/ /\ p \in Controllers
                     /\ \E w \in Workers \cup {NoPeer}, b \in Seq(Chunks) : ControllerSeated(p, w, b)
            \/ /\ state' = [state EXCEPT ![p] = "cut"]
               /\ in' = [in EXCEPT ![p] = <<>>]
               /\ peer_of' = peer_of
               /\ Rows' = Rows
  <1>1. /\ TypeOK /\ BuffersOwned /\ events # <<>> /\ Served
        /\ UNCHANGED <<deleted_fds, out, written, read>>
    BY DEF RowInv, IndInv, Accept, At, peerVars
  <1>2. /\ state[p] \notin {"none", "cut"} /\ \A fd \in Fds : peer_of[fd] # p
    BY DEF Accept, Backlog
  <1>3. ASSUME NEW fd \in Fds \cup {-1}, Add(fd)
        PROVE  \E k \in Nat : \/ WorkerPlaced(k, fd) /\ p \in Workers
                              \/ ControllerPlaced(k, fd) /\ p \in Controllers
    <2>1. CASE Fd = worker_server_fd
      <3>1. AddWorker(fd) /\ p \in Workers
        BY <1>3, <2>1 DEF Accept, Add, Backlog
      <3>2. QED
        BY <1>1, <3>1, AddWorkerPlaces
    <2>2. CASE Fd # worker_server_fd
      <3>1. AddController(fd) /\ p \in Controllers
        BY <1>3, <2>2 DEF Accept, Add, Backlog
      <3>2. QED
        BY <1>1, <3>1, AddControllerPlaces
    <2>3. QED
      BY <2>1, <2>2
  <1>4. ASSUME NEW k \in Nat, NEW fd, WorkerPlaced(k, fd) \/ ControllerPlaced(k, fd)
        PROVE  BuffersOwned'
    <2>1. Placed(k)
      BY <1>4 DEF WorkerPlaced, ControllerPlaced
    <2>2. k \in DOMAIN connections => /\ HasWorker(k) => HasWorker(k)'
                                      /\ HasController(k) => HasController(k)'
      BY <1>4 DEF WorkerPlaced, ControllerPlaced, HasWorker, HasController
    <2>3. \A j \in DOMAIN connections : j # k => /\ HasWorker(j)' = HasWorker(j)
                                                 /\ HasController(j)' = HasController(j)
      BY <2>1 DEF Placed, HasWorker, HasController
    <2>4. QED
      BY <1>1, <2>1, <2>2, <2>3 DEF Placed, BuffersOwned
  <1>5. CASE \E fd \in Fds : /\ peer_of[fd] = NoPeer
                             /\ Add(fd)
                             /\ peer_of' = [peer_of EXCEPT ![fd] = p]
                             /\ UNCHANGED <<state, in>>
    <2>1. PICK fd \in Fds : /\ peer_of[fd] = NoPeer
                            /\ Add(fd)
                            /\ peer_of' = [peer_of EXCEPT ![fd] = p]
                            /\ UNCHANGED <<state, in>>
      BY <1>5
    <2>2. PICK k \in Nat : \/ WorkerPlaced(k, fd) /\ p \in Workers
                           \/ ControllerPlaced(k, fd) /\ p \in Controllers
      BY <1>3, <2>1
    <2>3. Accepted(fd, p)
      BY <2>1 DEF Accepted
    <2>4. BuffersOwned'
      BY <1>4, <2>2
    <2>5. \/ /\ p \in Workers
             /\ \E c \in Controllers \cup {NoPeer}, b \in Seq(Chunks) : WorkerSeated(p, c, b)
          \/ /\ p \in Controllers
             /\ \E w \in Workers \cup {NoPeer}, b \in Seq(Chunks) : ControllerSeated(p, w, b)
      BY <2>2, <2>3, WorkerSeats, ControllerSeats
    <2>6. QED
      BY <1>1, <1>2, <2>1, <2>4, <2>5
  <1>6. CASE /\ Add(-1)
             /\ state' = [state EXCEPT ![p] = "cut"]
             /\ in' = [in EXCEPT ![p] = <<>>]
             /\ UNCHANGED peer_of
    <2>1. PICK k \in Nat : WorkerPlaced(k, -1) \/ ControllerPlaced(k, -1)
      BY <1>3, <1>6
    <2>2. Rows' = Rows
      BY <1>6, <2>1, FailedPlaces
    <2>3. BuffersOwned'
      BY <1>4, <2>1
    <2>4. QED
      BY <1>1, <1>2, <1>6, <2>2, <2>3
  <1>7. QED
    BY <1>5, <1>6 DEF Accept

\* Nobody is parted by an accept().
LEMMA AcceptJoins ==
  ASSUME RowInv, RowInv', NEW p \in Peers, Accept(p)
  PROVE  \A q \in Peers : Joined(q) => Joined(q)'
  <1>1. RowsMapped /\ RowsMapped' /\ RowsRight
    BY RowsView, PTL
  <1>2. \A r \in Rows : Whole(r) => r \in Rows'
    <2>1. \/ \E c, b : WorkerSeated(p, c, b)
          \/ \E w, b : ControllerSeated(p, w, b)
          \/ Rows' = Rows
      BY AcceptEffect
    <2>2. ASSUME NEW c, NEW b, WorkerSeated(p, c, b), NEW r \in Rows, Whole(r)
          PROVE  r \in Rows'
      BY <2>2 DEF WorkerSeated, Whole
    <2>3. ASSUME NEW w, NEW b, ControllerSeated(p, w, b), NEW r \in Rows, Whole(r)
          PROVE  r \in Rows'
      BY <2>3 DEF ControllerSeated, Whole
    <2>4. QED
      BY <2>1, <2>2, <2>3
  <1>3. QED
    BY <1>1, <1>2 DEF RowsMapped, Whole

LEMMA AcceptPI ==
  ASSUME PI, IndInv', NEW p \in Peers, Accept(p)
  PROVE  PI'
  <1>1. /\ RowInv /\ IndInv /\ TypeOK /\ TypeOK' /\ OneSocket
        /\ peer_of \in [Fds -> Peers \cup {NoPeer}] /\ state \in [Peers -> States]
    BY DEF PI, RowInv, IndInv, TypeOK
  <1>2. /\ events # <<>> /\ Served /\ UNCHANGED <<deleted_fds, out, written, read>>
        /\ state[p] \notin {"none", "cut"} /\ \A fd \in Fds : peer_of[fd] # p
        /\ BuffersOwned'
        /\ \/ /\ UNCHANGED state
              /\ \E fd \in Fds : peer_of[fd] = NoPeer /\ peer_of' = [peer_of EXCEPT ![fd] = p]
           \/ /\ state' = [state EXCEPT ![p] = "cut"]
              /\ peer_of' = peer_of
    BY <1>1, AcceptEffect
  <1>3. \A fd \in Fds : /\ peer_of[fd] # NoPeer => /\ peer_of'[fd] = peer_of[fd]
                                                   /\ peer_of[fd] # p
                        /\ peer_of'[fd] # NoPeer => peer_of'[fd] = p \/ peer_of'[fd] = peer_of[fd]
    BY <1>1, <1>2
  <1>4. \A q \in Peers : q # p => state'[q] = state[q]
    BY <1>1, <1>2
  <1>5. OneSocket'
    <2>1. CASE UNCHANGED state
      <3>1. \A fd, gd \in Fds : peer_of'[fd] = p /\ peer_of'[gd] = p => fd = gd
        BY <1>1, <1>2, PeerFacts DEF Peers
      <3>2. QED
        BY <1>1, <1>2, <1>3, <2>1, <3>1 DEF OneSocket
    <2>2. CASE peer_of' = peer_of
      BY <1>1, <1>2, <1>4, <2>2 DEF OneSocket
    <2>3. QED
      BY <1>2, <2>1, <2>2
  <1>6. RowInv'
    BY <1>2, <1>5 DEF RowInv
  <1>7. HangupsTrue'
    <2>1. \A n \in DOMAIN events' : \E m \in DOMAIN events : events'[n] = events[m]
      BY <1>1, <1>2, ServedFacts
    <2>2. \A fd \in Fds : peer_of[fd] # NoPeer /\ state[peer_of[fd]] \in HungUp
                          => state'[peer_of'[fd]] \in HungUp
      BY <1>1, <1>3, <1>4
    <2>3. QED
      BY <1>2, <2>1, <2>2, HangupsKept
  <1>8. Unheard'
    <2>1. \A q \in Peers : state'[q] # "cut" => state[q] # "cut"
      BY <1>1, <1>2, <1>4
    <2>2. QED
      BY <1>1, <1>2, <1>6, <2>1, AcceptJoins, UnheardKept
  <1>9. QED
    BY <1>6, <1>7, <1>8 DEF PI

LEMMA NextPI == PI /\ [Next]_vars => PI'
  <1> SUFFICES ASSUME PI, [Next]_vars PROVE PI'
    OBVIOUS
  <1>1. IndInv /\ IndInv' /\ TypeOK /\ ProxyInv
    BY NextIndInv DEF PI, RowInv, IndInv
  <1>2. CASE Poll
    BY <1>1, <1>2, PollPI
  <1>3. CASE Skip
    BY <1>1, <1>3, ServedPI DEF Skip
  <1>4. CASE EndOfTurn
    BY <1>1, <1>4, ServedPI DEF EndOfTurn, proxyVars
  <1>5. ASSUME NEW p \in Peers, Accept(p) PROVE PI'
    BY <1>1, <1>5, AcceptPI
  <1>6. CASE Receive
    BY <1>1, <1>6, ReceivePI
  <1>7. CASE ReceiveEnd
    BY <1>1, <1>7, ClosePI DEF ReceiveEnd, ToServe, At
  <1>8. CASE Send
    BY <1>1, <1>8, SendPI
  <1>9. CASE \E how : Stop(how)
    BY <1>1, <1>9, ServedPI DEF Stop, proxyVars
  <1>10. CASE SendEnds
    <2>1. CASE \E how : Stop(how)
      BY <1>9, <2>1
    <2>2. CASE Served /\ UNCHANGED <<connections, deleted_fds, kernelVars, peerVars>>
      BY <1>1, <1>10, <2>2, ServedPI DEF SendEnds, ToServe, At
    <2>3. QED
      BY <1>10, <2>1, <2>2 DEF SendEnds
  <1>11. CASE Hangup
    <2>1. /\ pc = "serve" /\ events # <<>> /\ ~Skipped /\ Fd \notin Servers
      BY <1>11 DEF Hangup, ToServe, At
    <2>2. Index # 0
      BY <1>1, <2>1, ServeFacts
    <2>3. close_connection(Index) /\ Served /\ UNCHANGED <<pc, sent_here, peerVars>>
      BY <1>11, <2>2 DEF Hangup
    <2>4. QED
      BY <1>1, <2>1, <2>3, ClosePI
  <1>12. CASE ReceiveFails \/ PollFails
    BY <1>9, <1>12 DEF ReceiveFails, PollFails
  <1>13. ASSUME NEW p \in Peers,
                \/ Connects(p) \/ Writes(p) \/ Reads(p)
                \/ Closes(p) \/ ResetArrives(p) \/ NetworkLost(p)
         PROVE  PI'
    BY <1>1, <1>13, PeerPI
  <1>14. CASE UNCHANGED vars
    BY <1>1, <1>14, ServedPI DEF vars, proxyVars
  <1>15. QED
    BY <1>2, <1>3, <1>4, <1>5, <1>6, <1>7, <1>8, <1>10, <1>11, <1>12, <1>13, <1>14
    DEF Next, ProxyStep

-----------------------------------------------------------------------------
(* What the state of Pipes is.                                             *)

Mates(p, q) == <<p, q>> \in Pairs \/ <<q, p>> \in Pairs

BoxType ==
  /\ Outbox \in [Peers -> Seq(Chunks)]
  /\ Inbox \in [Peers -> Seq(Chunks)]
  /\ \A p \in Peers : Said(p) \in Seq(Chunks)

\* Partners are one to one, of different kinds.
MatesRight ==
  /\ Pairs \subseteq Workers \X Controllers
  /\ \A p, q \in Peers : Mates(p, q) => p # q /\ Mates(q, p) /\ Joined(p)
  /\ \A p, q, r \in Peers : Mates(p, q) /\ Mates(p, r) => q = r
  /\ \A p \in Peers : Joined(p) => \E q \in Peers : Mates(p, q)
  /\ \A p, q \in Peers : Mates(p, q) => P!Partners(p) = {q}
  /\ \A p \in Peers : ~Joined(p) => P!Partners(p) = {}

\* What waits in the pipes.
BoxesHold ==
  /\ \A p \in Peers : Outbox[p] = IF Joined(p) THEN <<>> ELSE Said(p)
  /\ \A p \in Peers : ~Joined(p) \/ Over(p) => Inbox[p] = out[p]
  /\ \A p, q \in Peers : Mates(p, q) /\ ~Over(p) => Inbox[p] = out[p] \o Said(q)

LEMMA Boxes == RowInv => BoxType /\ MatesRight /\ BoxesHold
  <1> SUFFICES ASSUME RowInv PROVE BoxType /\ MatesRight /\ BoxesHold
    OBVIOUS
  <1>1. RowsRight /\ RowsMapped
    BY RowsView
  <1>2. in \in [Peers -> Seq(Chunks)] /\ out \in [Peers -> Seq(Chunks)]
    BY DEF RowInv, IndInv, TypeOK
  <1>3. ASSUME NEW p \in Peers
        PROVE  Said(p) \in Seq(Chunks)
    <2>1. CASE \A r \in Rows : p # r.worker /\ p # r.controller
      <3>1. Said(p) = in[p]
        BY <1>1, <2>1, Zenon DEF RowsMapped
      <3>2. QED
        BY <1>2, <3>1
    <2>2. ASSUME NEW r \in Rows, p = r.worker \/ p = r.controller
          PROVE  Said(p) \in Seq(Chunks)
      <3>1. p # NoPeer
        BY PeerFacts DEF Peers
      <3>2. r.w2c \in Seq(Chunks) /\ r.c2w \in Seq(Chunks)
        BY <1>1 DEF RowsRight, RowType
      <3>3. Said(p) = r.w2c \o in[p] \/ Said(p) = r.c2w \o in[p]
        BY <1>1, <2>2, <3>1 DEF RowsMapped
      <3>4. in[p] \in Seq(Chunks)
        BY <1>2
      <3>5. r.w2c \o in[p] \in Seq(Chunks) /\ r.c2w \o in[p] \in Seq(Chunks)
        BY <3>2, <3>4, ConcatProperties
      <3>6. QED
        BY <3>3, <3>5
    <2>3. QED
      BY <2>1, <2>2
  <1>4. Pairs \subseteq Workers \X Controllers
    <2>1. ASSUME NEW k \in DOMAIN connections, HasWorker(k), HasController(k)
          PROVE  <<WorkerOf(k), ControllerOf(k)>> \in Workers \X Controllers
      BY <2>1, SideFacts
    <2>2. QED
      BY <2>1 DEF Pairs
  <1>5. \A p, q : Mates(p, q) => p \in Peers /\ q \in Peers /\ p # q /\ Mates(q, p)
    BY <1>4, PeerFacts DEF Mates
  <1>6. \A p, q : Mates(p, q) <=> \E r \in Rows : /\ Whole(r)
                                                  /\ \/ p = r.worker /\ q = r.controller
                                                     \/ q = r.worker /\ p = r.controller
    <2>1. \A p, q : <<p, q>> \in Pairs <=>
                      \E r \in Rows : Whole(r) /\ p = r.worker /\ q = r.controller
      BY <1>1, Zenon DEF RowsMapped
    <2>2. ASSUME NEW p, NEW q
          PROVE  Mates(p, q) <=> \E r \in Rows : /\ Whole(r)
                                                 /\ \/ p = r.worker /\ q = r.controller
                                                    \/ q = r.worker /\ p = r.controller
      <3>1. <<p, q>> \in Pairs <=> \E r \in Rows : Whole(r) /\ p = r.worker /\ q = r.controller
        BY <2>1
      <3>2. <<q, p>> \in Pairs <=> \E r \in Rows : Whole(r) /\ q = r.worker /\ p = r.controller
        BY <2>1
      <3>3. QED
        BY <3>1, <3>2 DEF Mates
    <2>3. QED
      BY <2>2, Zenon
  <1>7. \A r, t \in Rows : /\ r.worker = t.worker /\ r.worker # NoPeer => r = t
                           /\ r.controller = t.controller /\ r.controller # NoPeer => r = t
    BY <1>1 DEF RowsRight
  <1>8. ASSUME NEW r \in Rows, Whole(r)
        PROVE  r.worker \in Workers /\ r.controller \in Controllers /\ r.worker # NoPeer /\ r.controller # NoPeer
    BY <1>1, <1>8 DEF RowsRight, RowType, Whole
  <1>9. ASSUME NEW p \in Peers, NEW q \in Peers, NEW r \in Peers, Mates(p, q), Mates(p, r)
        PROVE  q = r
    <2>1. PICK s \in Rows : Whole(s) /\ \/ p = s.worker /\ q = s.controller
                                        \/ q = s.worker /\ p = s.controller
      BY <1>6, <1>9
    <2>2. PICK t \in Rows : Whole(t) /\ \/ p = t.worker /\ r = t.controller
                                        \/ r = t.worker /\ p = t.controller
      BY <1>6, <1>9
    <2>3. QED
      BY <1>7, <1>8, <2>1, <2>2, PeerFacts
  <1>10. \A p \in Peers : Joined(p) <=> \E q \in Peers : Mates(p, q)
    BY <1>1, <1>6, <1>8, PeerFacts DEF RowsMapped
  <1>11. ASSUME NEW p \in Peers
         PROVE  P!Partners(p) = {q \in Peers : Mates(p, q)}
    BY DEF P!Partners, P!Peers, Peers, Mates
  <1>12. MatesRight
    <2>1. \A p, q \in Peers : Mates(p, q) => P!Partners(p) = {q}
      BY <1>9, <1>11
    <2>2. \A p \in Peers : ~Joined(p) => P!Partners(p) = {}
      BY <1>10, <1>11
    <2>3. \A p, q, r \in Peers : Mates(p, q) /\ Mates(p, r) => q = r
      BY <1>9
    <2>4. QED
      BY <1>4, <1>5, <1>10, <2>1, <2>2, <2>3 DEF MatesRight
  <1> DEFINE coming(p) == {q \in Peers : <<p, q>> \in Pairs \/ <<q, p>> \in Pairs}
  <1>13. /\ DOMAIN Inbox = Peers
         /\ Inbox = [p \in Peers |-> IF Over(p) \/ coming(p) = {} THEN out[p]
                                     ELSE out[p] \o Said(CHOOSE q \in coming(p) : TRUE)]
    BY DEF Inbox
  <1>14. \A p \in Peers : coming(p) = {q \in Peers : Mates(p, q)}
    BY DEF Mates
  <1> HIDE DEF coming
  <1>15. ASSUME NEW p \in Peers
         PROVE  /\ ~Joined(p) \/ Over(p) => Inbox[p] = out[p]
                /\ \A q \in Peers : Mates(p, q) /\ ~Over(p) => Inbox[p] = out[p] \o Said(q)
    <2>1. ~Joined(p) => coming(p) = {}
      BY <1>10, <1>14
    <2>2. ASSUME NEW q \in Peers, Mates(p, q)
          PROVE  coming(p) = {q}
      BY <1>9, <1>14, <2>2
    <2>3. ASSUME NEW q \in Peers, Mates(p, q), ~Over(p)
          PROVE  Inbox[p] = out[p] \o Said(q)
      <3>1. coming(p) # {} /\ (CHOOSE r \in coming(p) : TRUE) = q
        BY <2>2, <2>3
      <3>2. QED
        BY <1>13, <2>3, <3>1
    <2>4. ~Joined(p) \/ Over(p) => Inbox[p] = out[p]
      BY <1>13, <2>1
    <2>5. QED
      BY <2>3, <2>4
  <1>16. BoxesHold
    BY <1>15 DEF BoxesHold, Outbox
  <1>17. BoxType
    <2>1. Outbox \in [Peers -> Seq(Chunks)]
      BY <1>3, EmptySeq DEF Outbox
    <2>2. ASSUME NEW p \in Peers
          PROVE  Inbox[p] \in Seq(Chunks)
      <3>1. CASE ~Joined(p) \/ Over(p)
        BY <1>2, <1>15, <3>1
      <3>2. CASE Joined(p) /\ ~Over(p)
        <4>1. PICK q \in Peers : Mates(p, q)
          BY <1>10, <3>2
        <4>2. Inbox[p] = out[p] \o Said(q)
          BY <1>15, <3>2, <4>1
        <4>3. out[p] \in Seq(Chunks) /\ Said(q) \in Seq(Chunks)
          BY <1>2, <1>3
        <4>4. QED
          BY <4>2, <4>3, ConcatProperties
      <3>3. QED
        BY <3>1, <3>2
    <2>3. Inbox \in [Peers -> Seq(Chunks)]
      <3>1. Inbox = [p \in Peers |-> Inbox[p]]
        BY <1>13
      <3>2. QED
        BY <2>2, <3>1
    <2>4. QED
      BY <1>3, <2>1, <2>3 DEF BoxType
  <1>18. QED
    BY <1>12, <1>16, <1>17

-----------------------------------------------------------------------------
(* Every step maps to a step of Pipes or to a stutter.                     *)

Gone == {p \in Peers : Over(p)}

SaidRight ==
  \A p \in Peers :
    /\ \A k \in DOMAIN connections :
         /\ p = WorkerOf(k) => Said(p) = connections[k].w2c \o in[p]
         /\ p = ControllerOf(k) => Said(p) = connections[k].c2w \o in[p]
    /\ (\A k \in DOMAIN connections : p # WorkerOf(k) /\ p # ControllerOf(k)) => Said(p) = in[p]

LEMMA SaidIsRight == RowInv => SaidRight
  BY SaidOf DEF SaidRight

\* What a peer has said is in the same buffer, and its socket, as before.
LEMMA SaidSame ==
  ASSUME RowInv, RowInv', peer_of' = peer_of, DOMAIN connections' = DOMAIN connections,
         \A k \in DOMAIN connections :
           /\ connections'[k].worker_fd = connections[k].worker_fd
           /\ connections'[k].controller_fd = connections[k].controller_fd,
         NEW p \in Peers
  PROVE  \/ \E k \in DOMAIN connections :
              /\ p = WorkerOf(k) /\ p # ControllerOf(k)
              /\ Said(p) = connections[k].w2c \o in[p]
              /\ Said(p)' = connections'[k].w2c \o in'[p]
         \/ \E k \in DOMAIN connections :
              /\ p # WorkerOf(k) /\ p = ControllerOf(k)
              /\ Said(p) = connections[k].c2w \o in[p]
              /\ Said(p)' = connections'[k].c2w \o in'[p]
         \/ /\ \A k \in DOMAIN connections : p # WorkerOf(k) /\ p # ControllerOf(k)
            /\ Said(p) = in[p]
            /\ Said(p)' = in'[p]
  <1>1. SaidRight /\ SaidRight'
    BY SaidIsRight, PTL
  <1>2. \A k \in DOMAIN connections : WorkerOf(k)' = WorkerOf(k) /\ ControllerOf(k)' = ControllerOf(k)
    BY PairsKept
  <1>3. ASSUME NEW k \in DOMAIN connections, p = WorkerOf(k)
        PROVE  /\ p # ControllerOf(k)
               /\ Said(p) = connections[k].w2c \o in[p]
               /\ Said(p)' = connections'[k].w2c \o in'[p]
    <2>1. p # ControllerOf(k)
      BY <1>3, SideFacts, PeerFacts DEF Peers
    <2>2. Said(p) = connections[k].w2c \o in[p]
      BY <1>1, <1>3, Zenon DEF SaidRight
    <2>3. p = WorkerOf(k)' /\ k \in DOMAIN connections'
      BY <1>2, <1>3
    <2>4. Said(p)' = connections'[k].w2c \o in'[p]
      BY <1>1, <2>3, Zenon DEF SaidRight
    <2>5. QED
      BY <2>1, <2>2, <2>4
  <1>4. ASSUME NEW k \in DOMAIN connections, p = ControllerOf(k)
        PROVE  /\ p # WorkerOf(k)
               /\ Said(p) = connections[k].c2w \o in[p]
               /\ Said(p)' = connections'[k].c2w \o in'[p]
    <2>1. p # WorkerOf(k)
      BY <1>4, SideFacts, PeerFacts DEF Peers
    <2>2. Said(p) = connections[k].c2w \o in[p]
      BY <1>1, <1>4, Zenon DEF SaidRight
    <2>3. p = ControllerOf(k)' /\ k \in DOMAIN connections'
      BY <1>2, <1>4
    <2>4. Said(p)' = connections'[k].c2w \o in'[p]
      BY <1>1, <2>3, Zenon DEF SaidRight
    <2>5. QED
      BY <2>1, <2>2, <2>4
  <1>5. ASSUME \A k \in DOMAIN connections : p # WorkerOf(k) /\ p # ControllerOf(k)
        PROVE  Said(p) = in[p] /\ Said(p)' = in'[p]
    <2>1. \A k \in DOMAIN connections' : p # WorkerOf(k)' /\ p # ControllerOf(k)'
      BY <1>2, <1>5
    <2>2. Said(p) = in[p]
      BY <1>1, <1>5, Zenon DEF SaidRight
    <2>3. Said(p)' = in'[p]
      BY <1>1, <2>1, Zenon DEF SaidRight
    <2>4. QED
      BY <2>2, <2>3
  <1>6. QED
    BY <1>3, <1>4, <1>5, Zenon

\* What the pipes hold after a step, from the state before it, if the step
\* joins and parts nobody.
LEMMA BoxesAfter ==
  ASSUME RowInv, RowInv', Pairs' = Pairs
  PROVE  /\ \A p \in Peers : Joined(p)' = Joined(p)
         /\ \A p, q \in Peers : Mates(p, q)' = Mates(p, q)
         /\ \A p \in Peers :
              /\ Joined(p) => Outbox[p] = <<>> /\ Outbox'[p] = <<>>
              /\ ~Joined(p) => Outbox[p] = Said(p) /\ Outbox'[p] = Said(p)'
              /\ ~Joined(p) \/ Over(p) => Inbox[p] = out[p]
              /\ ~Joined(p) \/ Over(p)' => Inbox'[p] = out'[p]
         /\ \A p, q \in Peers : Mates(p, q) =>
              /\ ~Over(p) => Inbox[p] = out[p] \o Said(q)
              /\ ~Over(p)' => Inbox'[p] = out'[p] \o Said(q)'
  <1>1. MatesRight /\ MatesRight' /\ BoxesHold /\ BoxesHold'
    BY Boxes, PTL
  <1>2. \A p, q : Mates(p, q)' = Mates(p, q)
    BY DEF Mates
  <1>3. \A p \in Peers : Joined(p)' = Joined(p)
    <2>1. \A p \in Peers : Joined(p) <=> \E q \in Peers : Mates(p, q)
      BY <1>1 DEF MatesRight
    <2>2. \A p \in Peers : Joined(p)' <=> \E q \in Peers : Mates(p, q)'
      BY <1>1 DEF MatesRight
    <2>3. QED
      BY <1>2, <2>1, <2>2 DEF Joined
  <1>4. ASSUME NEW p \in Peers
        PROVE  /\ Joined(p) => Outbox[p] = <<>> /\ Outbox'[p] = <<>>
               /\ ~Joined(p) => Outbox[p] = Said(p) /\ Outbox'[p] = Said(p)'
               /\ ~Joined(p) \/ Over(p) => Inbox[p] = out[p]
               /\ ~Joined(p) \/ Over(p)' => Inbox'[p] = out'[p]
    <2>1. /\ Outbox[p] = IF Joined(p) THEN <<>> ELSE Said(p)
          /\ ~Joined(p) \/ Over(p) => Inbox[p] = out[p]
      BY <1>1, Zenon DEF BoxesHold
    <2>2. /\ Outbox'[p] = IF Joined(p)' THEN <<>> ELSE Said(p)'
          /\ ~Joined(p)' \/ Over(p)' => Inbox'[p] = out'[p]
      BY <1>1, Zenon DEF BoxesHold
    <2>3. QED
      BY <1>3, <2>1, <2>2
  <1>5. ASSUME NEW p \in Peers, NEW q \in Peers, Mates(p, q)
        PROVE  /\ ~Over(p) => Inbox[p] = out[p] \o Said(q)
               /\ ~Over(p)' => Inbox'[p] = out'[p] \o Said(q)'
    <2>1. ~Over(p) => Inbox[p] = out[p] \o Said(q)
      BY <1>1, <1>5, Zenon DEF BoxesHold
    <2>2. Mates(p, q)'
      BY <1>2, <1>5
    <2>3. ~Over(p)' => Inbox'[p] = out'[p] \o Said(q)'
      BY <1>1, <2>2, Zenon DEF BoxesHold
    <2>4. QED
      BY <2>1, <2>3
  <1>6. QED
    BY <1>2, <1>3, <1>4, <1>5

LEMMA BoxFunctions ==
  /\ Outbox = [p \in Peers |-> Outbox[p]]
  /\ Inbox = [p \in Peers |-> Inbox[p]]
  BY DEF Outbox, Inbox

\* A step that leaves everything where it is, or moves it on in its pipe.
LEMMA BoxesSame ==
  ASSUME RowInv, RowInv', Pairs' = Pairs, UNCHANGED <<written, read>>,
         \A p \in Peers : /\ Over(p)' = Over(p)
                          /\ Over(p) \/ ~Joined(p) => out'[p] = out[p]
                          /\ ~Joined(p) => Said(p)' = Said(p),
         \A p, q \in Peers : Mates(p, q) /\ ~Over(p) => out'[p] \o Said(q)' = out[p] \o Said(q)
  PROVE  UNCHANGED P!pipesVars
  <1>1. MatesRight
    BY Boxes
  <1>2. ASSUME NEW p \in Peers
        PROVE  Outbox'[p] = Outbox[p] /\ Inbox'[p] = Inbox[p]
    <2>1. Outbox'[p] = Outbox[p]
      BY BoxesAfter
    <2>2. CASE ~Joined(p) \/ Over(p)
      BY <2>1, <2>2, BoxesAfter
    <2>3. CASE Joined(p) /\ ~Over(p)
      <3>1. PICK q \in Peers : Mates(p, q)
        BY <1>1, <2>3 DEF MatesRight
      <3>2. Inbox[p] = out[p] \o Said(q) /\ Inbox'[p] = out'[p] \o Said(q)'
        BY <2>3, <3>1, BoxesAfter
      <3>3. out'[p] \o Said(q)' = out[p] \o Said(q)
        BY <2>3, <3>1, Zenon
      <3>4. QED
        BY <2>1, <3>2, <3>3
    <2>4. QED
      BY <2>2, <2>3
  <1>3. Outbox' = Outbox /\ Inbox' = Inbox
    <2>1. /\ Outbox' = [p \in Peers |-> Outbox'[p]]
          /\ Inbox' = [p \in Peers |-> Inbox'[p]]
      BY DEF Outbox, Inbox
    <2>2. QED
      BY <1>2, <2>1, BoxFunctions
  <1>4. {p \in Peers : Over(p)'} = {p \in Peers : Over(p)}
    OBVIOUS
  <1>5. QED
    BY <1>3, <1>4 DEF P!pipesVars

\* The turns of the loop, and recv() and send(): nothing that Pipes tells apart.
LEMMA LoopMapped ==
  ASSUME RowInv, RowInv', UNCHANGED <<connections, kernelVars, peerVars>>
  PROVE  UNCHANGED P!pipesVars
  <1>1. UNCHANGED <<connections, peer_of, state, in, out, written, read>>
    BY DEF kernelVars, peerVars
  <1>2. Pairs' = Pairs
    BY <1>1, PairsKept
  <1>3. \A p \in Peers : Said(p)' = Said(p)
    BY <1>1, SaidSame
  <1>4. \A p \in Peers : Over(p)' = Over(p)
    BY <1>1 DEF Over
  <1>5. QED
    BY <1>1, <1>2, <1>3, <1>4, BoxesSame

\* Connecting, and a reset that arrives.
LEMMA QuietMapped ==
  ASSUME RowInv, RowInv', NEW p \in Peers, Connects(p) \/ ResetArrives(p)
  PROVE  UNCHANGED P!pipesVars
  <1>1. UNCHANGED <<connections, peer_of, in, out, written, read>>
    BY DEF Connects, ResetArrives, proxyVars, peerVars
  <1>2. Pairs' = Pairs
    BY <1>1, PairsKept
  <1>3. \A q \in Peers : Said(q)' = Said(q)
    BY <1>1, SaidSame
  <1>4. \A q \in Peers : Over(q)' = Over(q)
    <2>1. state \in [Peers -> States]
      BY DEF RowInv, IndInv, TypeOK
    <2>2. QED
      BY <2>1 DEF Over, Connects, ResetArrives
  <1>5. QED
    BY <1>1, <1>2, <1>3, <1>4, BoxesSame

LEMMA ReceiveMapped ==
  ASSUME RowInv, RowInv', Receive
  PROVE  UNCHANGED P!pipesVars
  <1>1. /\ in[Peer] # <<>> /\ in' = [in EXCEPT ![Peer] = Tail(in[Peer])]
        /\ Served /\ UNCHANGED <<deleted_fds, peer_of, state, out, peerVars>>
        /\ DOMAIN connections' = DOMAIN connections
        /\ \A j \in DOMAIN connections :
             /\ j # Index => connections'[j] = connections[j]
             /\ connections'[j].worker_fd = connections[j].worker_fd
             /\ connections'[j].controller_fd = connections[j].controller_fd
    BY ReceiveEffect
  <1>2. /\ connections'[Index].w2c =
             IF Peer = WorkerOf(Index) THEN Append(connections[Index].w2c, Head(in[Peer]))
             ELSE connections[Index].w2c
        /\ connections'[Index].c2w =
             IF Peer = ControllerOf(Index) THEN Append(connections[Index].c2w, Head(in[Peer]))
             ELSE connections[Index].c2w
    BY ReceiveEffect
  <1>3. /\ Peer \in Peers /\ Index \in DOMAIN connections
        /\ Peer # NoPeer /\ Peer \in {WorkerOf(Index), ControllerOf(Index)}
    BY PeerSide, ReceiveEffect
  <1>4. /\ TypeOK /\ in \in [Peers -> Seq(Chunks)]
    BY DEF RowInv, IndInv, TypeOK
  <1>5. in[Peer] \in Seq(Chunks)
    BY <1>3, <1>4
  <1>6. ASSUME NEW k \in DOMAIN connections
        PROVE  /\ connections[k].w2c \in Seq(Chunks) /\ connections[k].c2w \in Seq(Chunks)
               /\ WorkerOf(k) = Peer \/ ControllerOf(k) = Peer => k = Index
    BY <1>3, <1>4, ConnectionsFacts, SideOnce, SideFacts, PeerFacts
  <1>7. \A s \in Seq(Chunks) : Append(s, Head(in[Peer])) \o Tail(in[Peer]) = s \o in[Peer]
    BY <1>1, <1>5, ConcatMove
  <1>8. Pairs' = Pairs
    BY <1>1, PairsKept
  <1>9. ASSUME NEW p \in Peers
        PROVE  Said(p)' = Said(p)
    <2>1. ASSUME NEW k \in DOMAIN connections,
                 p = WorkerOf(k), p # ControllerOf(k),
                 Said(p) = connections[k].w2c \o in[p],
                 Said(p)' = connections'[k].w2c \o in'[p]
          PROVE  Said(p)' = Said(p)
      <3>1. CASE p = Peer
        <4>1. k = Index /\ in'[p] = Tail(in[Peer])
          BY <1>1, <1>3, <1>4, <1>6, <2>1, <3>1
        <4>2. connections'[k].w2c = Append(connections[k].w2c, Head(in[Peer]))
          BY <1>2, <2>1, <3>1, <4>1
        <4>3. QED
          BY <1>6, <1>7, <2>1, <3>1, <4>1, <4>2
      <3>2. CASE p # Peer
        <4>1. in'[p] = in[p]
          BY <1>1, <1>4, <3>2
        <4>2. connections'[k].w2c = connections[k].w2c
          BY <1>1, <1>2, <2>1, <3>2
        <4>3. QED
          BY <2>1, <4>1, <4>2
      <3>3. QED
        BY <3>1, <3>2
    <2>2. ASSUME NEW k \in DOMAIN connections,
                 p # WorkerOf(k), p = ControllerOf(k),
                 Said(p) = connections[k].c2w \o in[p],
                 Said(p)' = connections'[k].c2w \o in'[p]
          PROVE  Said(p)' = Said(p)
      <3>1. CASE p = Peer
        <4>1. k = Index /\ in'[p] = Tail(in[Peer])
          BY <1>1, <1>3, <1>4, <1>6, <2>2, <3>1
        <4>2. connections'[k].c2w = Append(connections[k].c2w, Head(in[Peer]))
          BY <1>2, <2>2, <3>1, <4>1
        <4>3. QED
          BY <1>6, <1>7, <2>2, <3>1, <4>1, <4>2
      <3>2. CASE p # Peer
        <4>1. in'[p] = in[p]
          BY <1>1, <1>4, <3>2
        <4>2. connections'[k].c2w = connections[k].c2w
          BY <1>1, <1>2, <2>2, <3>2
        <4>3. QED
          BY <2>2, <4>1, <4>2
      <3>3. QED
        BY <3>1, <3>2
    <2>3. ASSUME \A k \in DOMAIN connections : p # WorkerOf(k) /\ p # ControllerOf(k),
                 Said(p) = in[p], Said(p)' = in'[p]
          PROVE  Said(p)' = Said(p)
      <3>1. p # Peer
        BY <1>3, <2>3
      <3>2. QED
        BY <1>1, <1>4, <2>3, <3>1
    <2>4. QED
      BY <1>1, <2>1, <2>2, <2>3, SaidSame
  <1>10. \A p \in Peers : Over(p)' = Over(p) /\ out'[p] = out[p]
    BY <1>1 DEF Over
  <1>11. UNCHANGED <<written, read>>
    BY <1>1 DEF peerVars
  <1>12. QED
    BY <1>8, <1>9, <1>10, <1>11, BoxesSame

LEMMA ChunksAssociate == \A s, t, u \in Seq(Chunks) : (s \o t) \o u = s \o (t \o u)
  BY ConcatAssociative

LEMMA SendMapped ==
  ASSUME RowInv, RowInv', Send
  PROVE  UNCHANGED P!pipesVars
  <1>1. /\ UNCHANGED <<deleted_fds, peer_of, in, peerVars>>
        /\ out' = [out EXCEPT ![Peer] = IF state[Peer] = "open" THEN Append(@, Head(Buffer)) ELSE @]
        /\ state' = [state EXCEPT ![Peer] = IF @ = "fin" THEN "finsent" ELSE @]
        /\ DOMAIN connections' = DOMAIN connections
        /\ \A j \in DOMAIN connections :
             /\ j # Index => connections'[j] = connections[j]
             /\ connections'[j].worker_fd = connections[j].worker_fd
             /\ connections'[j].controller_fd = connections[j].controller_fd
        /\ Buffer \in Seq(Chunks) /\ Buffer # <<>>
    BY SendEffect
  <1>2. /\ connections'[Index].c2w =
             IF Peer = WorkerOf(Index) THEN Tail(Buffer) ELSE connections[Index].c2w
        /\ connections'[Index].w2c =
             IF Peer = ControllerOf(Index) THEN Tail(Buffer) ELSE connections[Index].w2c
        /\ Buffer = IF Peer = WorkerOf(Index) THEN connections[Index].c2w
                    ELSE connections[Index].w2c
    BY SendEffect
  <1>3. /\ Index \in DOMAIN connections
        /\ Peer \in {WorkerOf(Index), ControllerOf(Index)}
        /\ WorkerOf(Index) \in Workers /\ ControllerOf(Index) \in Controllers
        /\ WorkerOf(Index) # NoPeer /\ ControllerOf(Index) # NoPeer
        /\ WorkerOf(Index) # ControllerOf(Index)
        /\ WorkerOf(Index) \in Peers /\ ControllerOf(Index) \in Peers
        /\ Joined(Peer)
    BY SendJoined, SideFacts, PeerFacts
  \* The connection, the peer that is sent to, its partner, and the buffer.
  <1>4. PICK k, p, q, b :
          /\ k = Index /\ p = Peer /\ b = Buffer
          /\ q = IF p = WorkerOf(k) THEN ControllerOf(k) ELSE WorkerOf(k)
    OBVIOUS
  <1>5. /\ k \in DOMAIN connections /\ p \in Peers /\ q \in Peers /\ p # q
        /\ p # NoPeer /\ q # NoPeer
        /\ Joined(p) /\ b \in Seq(Chunks) /\ b # <<>>
        /\ \/ /\ p = WorkerOf(k) /\ q = ControllerOf(k)
              /\ b = connections[k].c2w /\ connections'[k].c2w = Tail(b)
              /\ connections'[k].w2c = connections[k].w2c
           \/ /\ p = ControllerOf(k) /\ q = WorkerOf(k)
              /\ b = connections[k].w2c /\ connections'[k].w2c = Tail(b)
              /\ connections'[k].c2w = connections[k].c2w
    BY <1>1, <1>2, <1>3, <1>4
  <1>6. /\ TypeOK /\ in \in [Peers -> Seq(Chunks)] /\ out \in [Peers -> Seq(Chunks)]
        /\ state \in [Peers -> States]
        /\ in[q] \in Seq(Chunks) /\ out[p] \in Seq(Chunks)
    BY <1>5 DEF RowInv, IndInv, TypeOK
  <1>7. /\ state' = [state EXCEPT ![p] = IF @ = "fin" THEN "finsent" ELSE @]
        /\ out'[p] = IF state[p] = "open" THEN Append(out[p], Head(b)) ELSE out[p]
        /\ \A r \in Peers : r # p => out'[r] = out[r]
        /\ in' = in /\ UNCHANGED <<written, read>>
        /\ \A j \in DOMAIN connections : j # k => connections'[j] = connections[j]
        /\ peer_of' = peer_of
    BY <1>1, <1>4, <1>5, <1>6 DEF peerVars
  <1>8. \A r \in Peers : Over(r)' = Over(r)
    BY <1>6, <1>7 DEF Over
  <1>9. Pairs' = Pairs
    BY <1>1, PairsKept
  <1>10. \A j \in DOMAIN connections : /\ WorkerOf(j) = WorkerOf(k) => j = k
                                       /\ ControllerOf(j) = ControllerOf(k) => j = k
    BY <1>3, <1>4, <1>5, SideOnce
  <1>18. ASSUME NEW r \in Peers
         PROVE  \/ \E j \in DOMAIN connections :
                     /\ r = WorkerOf(j) /\ r # ControllerOf(j)
                     /\ Said(r) = connections[j].w2c \o in[r]
                     /\ Said(r)' = connections'[j].w2c \o in[r]
                \/ \E j \in DOMAIN connections :
                     /\ r # WorkerOf(j) /\ r = ControllerOf(j)
                     /\ Said(r) = connections[j].c2w \o in[r]
                     /\ Said(r)' = connections'[j].c2w \o in[r]
                \/ /\ \A j \in DOMAIN connections : r # WorkerOf(j) /\ r # ControllerOf(j)
                   /\ Said(r) = in[r]
                   /\ Said(r)' = in[r]
    <2>1. in'[r] = in[r] /\ peer_of' = peer_of
      BY <1>7
    <2>2. DOMAIN connections' = DOMAIN connections
      BY <1>1
    <2>3. \A j \in DOMAIN connections : /\ connections'[j].worker_fd = connections[j].worker_fd
                                        /\ connections'[j].controller_fd = connections[j].controller_fd
      BY <1>1
    <2>4. QED
      BY <2>1, <2>2, <2>3, SaidSame
  <1>11. ASSUME NEW r \in Peers, r # q
         PROVE  Said(r)' = Said(r)
    <2>1. \A j \in DOMAIN connections : /\ r = WorkerOf(j) => connections'[j].w2c = connections[j].w2c
                                        /\ r = ControllerOf(j) => connections'[j].c2w = connections[j].c2w
      BY <1>5, <1>7, <1>11
    <2>2. QED
      BY <1>18, <2>1
  <1>12. Said(q) = b \o in[q] /\ Said(q)' = Tail(b) \o in[q]
    <2>1. ASSUME NEW j \in DOMAIN connections, q = WorkerOf(j) \/ q = ControllerOf(j)
          PROVE  j = k /\ (q = WorkerOf(j) <=> q = WorkerOf(k))
      BY <1>3, <1>4, <1>5, <1>10, <2>1, SideFacts, PeerFacts
    <2>2. ~\A j \in DOMAIN connections : q # WorkerOf(j) /\ q # ControllerOf(j)
      BY <1>5
    <2>3. \/ /\ q = WorkerOf(k)
             /\ Said(q) = connections[k].w2c \o in[q]
             /\ Said(q)' = connections'[k].w2c \o in[q]
          \/ /\ q = ControllerOf(k) /\ q # WorkerOf(k)
             /\ Said(q) = connections[k].c2w \o in[q]
             /\ Said(q)' = connections'[k].c2w \o in[q]
      <3>1. q \in Peers
        BY <1>5
      <3>2. QED
        BY <1>18, <2>1, <2>2, <3>1
    <2>4. QED
      BY <1>3, <1>4, <1>5, <2>3
  <1>13. MatesRight /\ Mates(p, q)
    BY <1>5, Boxes, SideFacts DEF Mates, Pairs
  <1>14. ~Over(p) => out'[p] \o Said(q)' = out[p] \o Said(q)
    <2>1. ASSUME ~Over(p)
          PROVE  state[p] = "open"
      <3>1. PICK fd \in Fds : p = peer_of[fd]
        BY <1>3, <1>4, <1>5, SideFacts
      <3>2. state[p] # "none"
        BY <1>5, <3>1 DEF RowInv, OneSocket
      <3>3. QED
        BY <2>1, <3>2 DEF Over
    <2>2. Head(b) \in Chunks /\ Tail(b) \in Seq(Chunks) /\ Append(out[p], Head(b)) \in Seq(Chunks)
      <3>1. Head(b) \in Chunks /\ Tail(b) \in Seq(Chunks)
        BY <1>5, HeadTailProperties
      <3>2. ASSUME NEW c \in Chunks
            PROVE  Append(out[p], c) \in Seq(Chunks)
        BY <1>6, AppendProperties
      <3>3. QED
        BY <3>1, <3>2, Zenon
    <2>3. Append(out[p], Head(b)) \o (Tail(b) \o in[q]) = (Append(out[p], Head(b)) \o Tail(b)) \o in[q]
      BY <1>6, <2>2, ChunksAssociate, Zenon
    <2>4. Append(out[p], Head(b)) \o Tail(b) = out[p] \o b
      BY <1>5, <1>6, ConcatMove
    <2>5. (out[p] \o b) \o in[q] = out[p] \o (b \o in[q])
      BY <1>5, <1>6, ChunksAssociate, Zenon
    <2>6. Append(out[p], Head(b)) \o (Tail(b) \o in[q]) = out[p] \o (b \o in[q])
      BY <2>3, <2>4, <2>5, Zenon
    <2>7. QED
      BY <1>7, <1>12, <2>1, <2>6
  <1>15. ASSUME NEW r \in Peers, NEW s \in Peers, Mates(r, s), ~Over(r)
         PROVE  out'[r] \o Said(s)' = out[r] \o Said(s)
    <2>1. CASE r = p
      BY <1>5, <1>13, <1>14, <1>15, <2>1 DEF MatesRight
    <2>2. CASE r # p
      <3>1. s # q
        BY <1>5, <1>13, <1>15, <2>2 DEF MatesRight
      <3>2. QED
        BY <1>7, <1>11, <2>2, <3>1
    <2>3. QED
      BY <2>1, <2>2
  <1>16. \A r \in Peers : /\ Over(r) \/ ~Joined(r) => out'[r] = out[r]
                          /\ ~Joined(r) => Said(r)' = Said(r)
    <2>1. Over(p) => out'[p] = out[p]
      BY <1>7 DEF Over
    <2>2. Joined(q)
      BY <1>5, <1>13 DEF MatesRight
    <2>3. QED
      BY <1>5, <1>7, <1>11, <2>1, <2>2
  <1>17. QED
    BY <1>7, <1>8, <1>9, <1>15, <1>16, BoxesSame

-----------------------------------------------------------------------------
(* The steps of a peer and of its kernel, and what joins and parts.        *)

\* The steps of a peer and of its kernel: the proxy's part of the state stays.
LEMMA ChunksAppend ==
  \A s, t \in Seq(Chunks), e \in Chunks : s \o Append(t, e) = Append(s \o t, e)
  BY ConcatAppend

LEMMA PeerBoxes ==
  ASSUME RowInv, RowInv', UNCHANGED <<connections, peer_of>>
  PROVE  /\ Pairs' = Pairs
         /\ \A p \in Peers : \E b \in Seq(Chunks) :
              Said(p) = b \o in[p] /\ Said(p)' = b \o in'[p]
  <1>1. Pairs' = Pairs
    BY PairsKept
  <1>2. /\ TypeOK /\ in \in [Peers -> Seq(Chunks)] /\ in' \in [Peers -> Seq(Chunks)]
    BY DEF RowInv, IndInv, TypeOK
  <1>3. ASSUME NEW p \in Peers
        PROVE  \E b \in Seq(Chunks) : Said(p) = b \o in[p] /\ Said(p)' = b \o in'[p]
    <2>1. \A k \in DOMAIN connections : connections[k].w2c \in Seq(Chunks) /\ connections[k].c2w \in Seq(Chunks)
      BY <1>2, ConnectionsFacts
    <2>2. \/ \E k \in DOMAIN connections :
               Said(p) = connections[k].w2c \o in[p] /\ Said(p)' = connections[k].w2c \o in'[p]
          \/ \E k \in DOMAIN connections :
               Said(p) = connections[k].c2w \o in[p] /\ Said(p)' = connections[k].c2w \o in'[p]
          \/ Said(p) = in[p] /\ Said(p)' = in'[p]
      BY SaidSame
    <2>3. <<>> \in Seq(Chunks) /\ <<>> \o in[p] = in[p] /\ <<>> \o in'[p] = in'[p]
      <3>1. in[p] \in Seq(Chunks) /\ in'[p] \in Seq(Chunks)
        BY <1>2
      <3>2. QED
        BY <3>1, EmptySeq, ConcatEmptySeq
    <2>4. QED
      BY <2>1, <2>2, <2>3, Zenon
  <1>4. QED
    BY <1>1, <1>3

LEMMA WriteMapped ==
  ASSUME RowInv, RowInv', NEW p \in Peers, Writes(p)
  PROVE  P!Write(p)
  <1> DEFINE chunk == <<p, written[p] + 1>>
  <1>1. /\ state[p] = "open" /\ written[p] < MaxWritten[p]
        /\ written' = [written EXCEPT ![p] = @ + 1]
        /\ in' = [in EXCEPT ![p] = Append(@, chunk)]
        /\ UNCHANGED <<connections, peer_of, state, out, read>>
    BY DEF Writes, proxyVars
  <1>2. /\ TypeOK /\ in \in [Peers -> Seq(Chunks)] /\ out \in [Peers -> Seq(Chunks)]
        /\ written \in [Peers -> Nat]
    BY DEF RowInv, IndInv, TypeOK
  <1>3. chunk \in Chunks
    BY <1>1, <1>2, ChunkFacts
  <1> HIDE DEF chunk
  <1>4. BoxType /\ BoxType' /\ MatesRight
    BY Boxes, PTL
  <1>5. /\ Pairs' = Pairs
        /\ \A q \in Peers : \E b \in Seq(Chunks) :
             Said(q) = b \o in[q] /\ Said(q)' = b \o in'[q]
    BY <1>1, PeerBoxes
  <1>6. Said(p)' = Append(Said(p), chunk)
    <2>1. PICK b \in Seq(Chunks) : Said(p) = b \o in[p] /\ Said(p)' = b \o in'[p]
      BY <1>5
    <2>2. in'[p] = Append(in[p], chunk) /\ in[p] \in Seq(Chunks)
      BY <1>1, <1>2
    <2>3. b \o Append(in[p], chunk) = Append(b \o in[p], chunk)
      BY <1>3, <2>2, ConcatAppend
    <2>4. QED
      BY <2>1, <2>2, <2>3
  <1>7. \A q \in Peers : q # p => Said(q)' = Said(q)
    <2>1. \A q \in Peers : q # p => in'[q] = in[q]
      BY <1>1, <1>2
    <2>2. QED
      BY <1>5, <2>1
  <1>8. \A q \in Peers : Over(q)' = Over(q) /\ out'[q] = out[q]
    BY <1>1 DEF Over
  <1>9. ~Over(p)
    BY <1>1 DEF Over
  <1>10. P!Partners(p) = {} <=> ~Joined(p)
    BY <1>4 DEF MatesRight
  <1>11. \A q \in Peers : q \in P!Partners(p) <=> Mates(q, p)
    BY <1>4 DEF P!Partners, P!Peers, Peers, Mates
  <1>12. \A q, r \in Peers : Mates(q, r) =>
           /\ ~Over(q) => Inbox[q] = out[q] \o Said(r)
           /\ ~Over(q)' => Inbox'[q] = out'[q] \o Said(r)'
    BY <1>5, BoxesAfter
  <1>13. ASSUME NEW q \in Peers
         PROVE  Outbox'[q] = IF q = p /\ ~Joined(p) THEN Append(Outbox[q], chunk) ELSE Outbox[q]
    BY <1>5, <1>6, <1>7, BoxesAfter
  <1>14. ASSUME NEW q \in Peers
         PROVE  Inbox'[q] = IF Mates(q, p) /\ ~Over(q) THEN Append(Inbox[q], chunk) ELSE Inbox[q]
    <2>1. CASE ~Joined(q) \/ Over(q)
      <3>1. Mates(q, p) => Joined(q)
        BY <1>4 DEF MatesRight
      <3>2. QED
        BY <1>5, <1>8, <2>1, <3>1, BoxesAfter
    <2>2. CASE Joined(q) /\ ~Over(q)
      <3>1. PICK r \in Peers : Mates(q, r)
        BY <1>4, <2>2 DEF MatesRight
      <3>2. Inbox[q] = out[q] \o Said(r) /\ Inbox'[q] = out[q] \o Said(r)'
        <4>1. ~Over(q) /\ ~Over(q)' /\ out'[q] = out[q]
          BY <1>8, <2>2
        <4>2. Inbox'[q] = out'[q] \o Said(r)'
          BY <1>12, <3>1, <4>1, Zenon
        <4>3. Inbox[q] = out[q] \o Said(r)
          BY <1>12, <3>1, <4>1, Zenon
        <4>4. QED
          BY <4>1, <4>2, <4>3
      <3>3. CASE r = p
        <4>1. out[q] \in Seq(Chunks) /\ Said(p) \in Seq(Chunks)
          BY <1>2, <1>4 DEF BoxType
        <4>2. out[q] \o Append(Said(p), chunk) = Append(out[q] \o Said(p), chunk)
          BY <1>3, <4>1, ChunksAppend, Zenon
        <4>3. QED
          BY <1>6, <2>2, <3>1, <3>2, <3>3, <4>2
      <3>4. CASE r # p
        <4>1. ~Mates(q, p)
          BY <1>4, <3>1, <3>4 DEF MatesRight
        <4>2. QED
          BY <1>7, <3>2, <3>4, <4>1
      <3>5. QED
        BY <3>3, <3>4
    <2>3. QED
      BY <2>1, <2>2
  <1>15. Outbox' = [Outbox EXCEPT ![p] = IF P!Partners(p) = {} THEN Append(@, chunk) ELSE @]
    BY <1>4, <1>10, <1>13 DEF BoxType
  <1>16. Inbox' = [q \in Peers |-> IF q \in P!Partners(p) \ Gone
                                   THEN Append(Inbox[q], chunk) ELSE Inbox[q]]
    <2>1. \A q \in Peers : q \in P!Partners(p) \ Gone <=> Mates(q, p) /\ ~Over(q)
      BY <1>11 DEF Gone
    <2>2. Inbox' = [q \in Peers |-> Inbox'[q]]
      BY <1>4 DEF BoxType
    <2>3. QED
      BY <1>14, <2>1, <2>2
  <1>17. Gone' = Gone
    BY <1>8 DEF Gone
  <1>18. P!Peers = Peers
    BY DEF P!Peers, Peers
  <1>19. QED
    BY <1>1, <1>5, <1>9, <1>15, <1>16, <1>17, <1>18 DEF P!Write, Gone, chunk

LEMMA ReadMapped ==
  ASSUME RowInv, RowInv', NEW p \in Peers, Reads(p)
  PROVE  P!Read(p)
  <1>1. /\ out[p] # <<>>
        /\ read' = [read EXCEPT ![p] = Append(@, Head(out[p]))]
        /\ out' = [out EXCEPT ![p] = Tail(@)]
        /\ UNCHANGED <<connections, peer_of, state, in, written>>
    BY DEF Reads, proxyVars
  <1>2. /\ out \in [Peers -> Seq(Chunks)] /\ out[p] \in Seq(Chunks)
    BY DEF RowInv, IndInv, TypeOK
  <1>3. BoxType /\ BoxType' /\ MatesRight
    BY Boxes, PTL
  <1>4. /\ Pairs' = Pairs
        /\ \A q \in Peers : \E b \in Seq(Chunks) :
             Said(q) = b \o in[q] /\ Said(q)' = b \o in'[q]
    BY <1>1, PeerBoxes
  <1>5. \A q \in Peers : Said(q)' = Said(q) /\ Over(q)' = Over(q) /\ (q # p => out'[q] = out[q])
    BY <1>1, <1>2, <1>4 DEF Over
  <1>6. out'[p] = Tail(out[p])
    BY <1>1, <1>2
  <1>7. \A q \in Peers : Outbox'[q] = Outbox[q]
    BY <1>4, <1>5, BoxesAfter
  <1>8. /\ Inbox[p] # <<>> /\ Head(Inbox[p]) = Head(out[p])
        /\ Inbox'[p] = Tail(Inbox[p])
    <2>1. CASE ~Joined(p) \/ Over(p)
      BY <1>1, <1>4, <1>5, <1>6, <2>1, BoxesAfter
    <2>2. CASE Joined(p) /\ ~Over(p)
      <3>1. PICK q \in Peers : Mates(p, q)
        BY <1>3, <2>2 DEF MatesRight
      <3>2. Inbox[p] = out[p] \o Said(q) /\ Inbox'[p] = Tail(out[p]) \o Said(q)
        BY <1>4, <1>5, <1>6, <2>2, <3>1, BoxesAfter
      <3>3. Said(q) \in Seq(Chunks)
        BY <1>3 DEF BoxType
      <3>4. /\ out[p] \o Said(q) # <<>>
            /\ Head(out[p] \o Said(q)) = Head(out[p])
            /\ Tail(out[p] \o Said(q)) = Tail(out[p]) \o Said(q)
        BY <1>1, <1>2, <3>3, ConcatHead
      <3>5. QED
        BY <3>2, <3>4
    <2>3. QED
      BY <2>1, <2>2
  <1>9. \A q, r \in Peers : Mates(q, r) =>
           /\ ~Over(q) => Inbox[q] = out[q] \o Said(r)
           /\ ~Over(q)' => Inbox'[q] = out'[q] \o Said(r)'
    BY <1>4, BoxesAfter
  <1>10. ASSUME NEW q \in Peers, q # p
        PROVE  Inbox'[q] = Inbox[q]
    <2>1. CASE ~Joined(q) \/ Over(q)
      BY <1>4, <1>5, <1>10, <2>1, BoxesAfter
    <2>2. CASE Joined(q) /\ ~Over(q)
      <3>1. PICK r \in Peers : Mates(q, r)
        BY <1>3, <2>2 DEF MatesRight
      <3>2. ~Over(q)' /\ out'[q] = out[q] /\ Said(r)' = Said(r)
        BY <1>5, <1>10, <2>2
      <3>3. Inbox[q] = out[q] \o Said(r) /\ Inbox'[q] = out'[q] \o Said(r)'
        BY <1>9, <2>2, <3>1, <3>2, Zenon
      <3>4. QED
        BY <3>2, <3>3
    <2>3. QED
      BY <2>1, <2>2
  <1>11. Outbox' = Outbox /\ Inbox' = [Inbox EXCEPT ![p] = Tail(@)]
    BY <1>3, <1>7, <1>8, <1>10 DEF BoxType
  <1>12. read' = [read EXCEPT ![p] = Append(@, Head(Inbox[p]))]
    BY <1>1, <1>8
  <1>13. Gone' = Gone
    BY <1>5 DEF Gone
  <1>14. QED
    BY <1>1, <1>4, <1>8, <1>11, <1>12, <1>13 DEF P!Read, Gone

\* A peer whose pipes a step leaves alone.
LEMMA BoxAt ==
  ASSUME RowInv, RowInv', NEW p \in Peers,
         \A q \in Peers : Mates(p, q)' = Mates(p, q),
         \A q \in Peers : q = p \/ Mates(p, q) => Said(q)' = Said(q),
         Over(p)' = Over(p), out'[p] = out[p]
  PROVE  Outbox'[p] = Outbox[p] /\ Inbox'[p] = Inbox[p]
  <1>1. MatesRight /\ MatesRight' /\ BoxesHold /\ BoxesHold'
    BY Boxes, PTL
  <1>2. Joined(p) <=> \E q \in Peers : Mates(p, q)
    BY <1>1 DEF MatesRight
  <1>3. Joined(p)' <=> \E q \in Peers : Mates(p, q)'
    BY <1>1 DEF MatesRight
  <1>4. /\ Outbox[p] = IF Joined(p) THEN <<>> ELSE Said(p)
        /\ ~Joined(p) \/ Over(p) => Inbox[p] = out[p]
        /\ \A q \in Peers : Mates(p, q) /\ ~Over(p) => Inbox[p] = out[p] \o Said(q)
    BY <1>1, Zenon DEF BoxesHold
  <1>5. /\ Outbox'[p] = IF Joined(p)' THEN <<>> ELSE Said(p)'
        /\ ~Joined(p)' \/ Over(p)' => Inbox'[p] = out'[p]
        /\ \A q \in Peers : Mates(p, q)' /\ ~Over(p)' => Inbox'[p] = out'[p] \o Said(q)'
    BY <1>1, Zenon DEF BoxesHold
  <1>6. Joined(p)' = Joined(p)
    BY <1>2, <1>3 DEF Joined
  <1>7. CASE ~Joined(p) \/ Over(p)
    BY <1>4, <1>5, <1>6, <1>7
  <1>8. CASE Joined(p) /\ ~Over(p)
    <2>1. PICK q \in Peers : Mates(p, q)
      BY <1>2, <1>8
    <2>2. Inbox[p] = out[p] \o Said(q)
      BY <1>4, <1>8, <2>1, Zenon
    <2>3. Mates(p, q)' /\ ~Over(p)' /\ Said(q)' = Said(q)
      BY <1>8, <2>1
    <2>4. Inbox'[p] = out'[p] \o Said(q)'
      BY <1>5, <2>3, Zenon
    <2>5. QED
      BY <1>4, <1>5, <1>6, <1>8, <2>2, <2>3, <2>4
  <1>9. QED
    BY <1>7, <1>8

LEMMA PipesPrefixes ==
  \A s, t : P!Prefixes(s) = Prefixes(s) /\ P!IsPrefix(s, t) = IsPrefix(s, t)
  BY DEF P!Prefixes, Prefixes, P!IsPrefix, IsPrefix

\* A peer leaves, or its connection is lost.
LEMMA LeaveMapped ==
  ASSUME RowInv, RowInv', Pairs' = Pairs, UNCHANGED <<written, read>>,
         NEW p \in Peers, ~Over(p), Over(p)',
         out'[p] \in Prefixes(out[p]), Said(p)' \in Prefixes(Said(p)),
         \A q \in Peers : q # p => /\ Over(q)' = Over(q)
                                   /\ out'[q] = out[q]
                                   /\ Said(q)' = Said(q)
  PROVE  P!Leave(p)
  <1>1. /\ BoxType /\ BoxType' /\ MatesRight
        /\ \A q \in Peers : out[q] \in Seq(Chunks)
    <2>1. BoxType /\ BoxType' /\ MatesRight
      BY Boxes, PTL
    <2>2. QED
      BY <2>1 DEF RowInv, IndInv, TypeOK
  <1>2. \A q, r \in Peers : Mates(q, r)' = Mates(q, r)
    BY DEF Mates
  <1>3. /\ Outbox[p] = IF Joined(p) THEN <<>> ELSE Said(p)
        /\ Outbox'[p] = IF Joined(p) THEN <<>> ELSE Said(p)'
        /\ ~Joined(p) => Inbox[p] = out[p]
        /\ Inbox'[p] = out'[p]
    BY BoxesAfter
  <1>4. \A q, r \in Peers : Mates(q, r) =>
           /\ ~Over(q) => Inbox[q] = out[q] \o Said(r)
           /\ ~Over(q)' => Inbox'[q] = out'[q] \o Said(r)'
    BY BoxesAfter
  <1>5. ASSUME NEW q \in Peers, q # p
        PROVE  Outbox'[q] = Outbox[q] /\ (~Mates(p, q) => Inbox'[q] = Inbox[q])
    <2>1. Outbox'[q] = Outbox[q]
      BY <1>5, BoxesAfter
    <2>2. ASSUME ~Mates(p, q)
          PROVE  Inbox'[q] = Inbox[q]
      <3>1. ~Mates(q, p)
        BY <2>2 DEF Mates
      <3>2. \A r \in Peers : r = q \/ Mates(q, r) => Said(r)' = Said(r)
        BY <1>5, <3>1
      <3>3. Over(q)' = Over(q) /\ out'[q] = out[q]
        BY <1>5
      <3>4. QED
        BY <1>2, <3>2, <3>3, BoxAt
    <2>3. QED
      BY <2>1, <2>2
  <1>6. Outbox' \in {[Outbox EXCEPT ![p] = s] : s \in Prefixes(Outbox[p])}
    <2>1. Outbox'[p] \in Prefixes(Outbox[p])
      <3>1. <<>> \in Prefixes(<<>>)
        BY EmptySeq, PrefixExtremes
      <3>2. QED
        BY <1>3, <3>1
    <2>2. Outbox' = [Outbox EXCEPT ![p] = Outbox'[p]]
      BY <1>1, <1>5 DEF BoxType
    <2>3. QED
      BY <2>1, <2>2
  <1>7. Gone' = Gone \cup {p} /\ p \notin Gone
    BY DEF Gone
  <1>8. \E s_ \in Prefixes(Inbox[p]) :
          \/ P!Partners(p) = {} /\ Inbox' = [Inbox EXCEPT ![p] = s_]
          \/ \E q \in P!Partners(p), t \in UNION {Prefixes(Inbox[r]) : r \in P!Partners(p)} :
               IsPrefix(t, Inbox[q]) /\ Inbox' = [Inbox EXCEPT ![p] = s_, ![q] = t]
    <2>1. CASE ~Joined(p)
      <3>1. P!Partners(p) = {} /\ \A q \in Peers : ~Mates(p, q)
        BY <1>1, <2>1 DEF MatesRight
      <3>2. Inbox' = [Inbox EXCEPT ![p] = out'[p]]
        BY <1>1, <1>3, <1>5, <3>1 DEF BoxType
      <3>3. out'[p] \in Prefixes(Inbox[p])
        BY <1>3, <2>1
      <3>4. QED
        BY <3>1, <3>2, <3>3
    <2>2. CASE Joined(p)
      <3>1. PICK q \in Peers : Mates(p, q)
        BY <1>1, <2>2 DEF MatesRight
      <3>2. /\ P!Partners(p) = {q} /\ p # q /\ Mates(q, p)
            /\ \A r \in Peers : Mates(p, r) => r = q
        BY <1>1, <3>1 DEF MatesRight
      <3>3. out'[p] \in Prefixes(Inbox[p])
        <4>1. Inbox[p] = out[p] \o Said(q)
          BY <1>4, <3>1, Zenon
        <4>2. Said(q) \in Seq(Chunks)
          BY <1>1 DEF BoxType
        <4>3. Said(q) \in Prefixes(Said(q))
          BY <4>2, PrefixExtremes
        <4>4. QED
          BY <1>1, <4>1, <4>2, <4>3, PrefixOfConcat
      <3>4. Inbox'[q] \in Prefixes(Inbox[q]) /\ IsPrefix(Inbox'[q], Inbox[q])
        <4>1. CASE Over(q)
          <5>1. Inbox'[q] = Inbox[q]
            BY <3>2, <4>1, BoxesAfter
          <5>2. Inbox[q] \in Seq(Chunks)
            BY <1>1 DEF BoxType
          <5>3. QED
            BY <5>1, <5>2, PrefixExtremes
        <4>2. CASE ~Over(q)
          <5>1. ~Over(q)' /\ out'[q] = out[q]
            BY <3>2, <4>2
          <5>2. Inbox[q] = out[q] \o Said(p) /\ Inbox'[q] = out'[q] \o Said(p)'
            BY <1>4, <3>2, <4>2, <5>1, Zenon
          <5>3. Said(p) \in Seq(Chunks) /\ out[q] \in Seq(Chunks)
            BY <1>1 DEF BoxType
          <5>4. <<>> \in Prefixes(out[q])
            BY <5>3, PrefixExtremes
          <5>5. ASSUME NEW c \in Prefixes(Said(p))
                PROVE  out[q] \o c \in Prefixes(out[q] \o Said(p)) /\ IsPrefix(out[q] \o c, out[q] \o Said(p))
            BY <5>3, <5>4, PrefixOfConcat
          <5>6. QED
            BY <5>1, <5>2, <5>5
        <4>3. QED
          BY <4>1, <4>2
      <3>5. Inbox' = [Inbox EXCEPT ![p] = out'[p], ![q] = Inbox'[q]]
        BY <1>1, <1>3, <1>5, <3>2 DEF BoxType
      <3>6. Inbox'[q] \in UNION {Prefixes(Inbox[r]) : r \in P!Partners(p)} /\ q \in P!Partners(p)
        BY <3>2, <3>4
      <3>7. QED
        BY <3>3, <3>4, <3>5, <3>6
    <2>3. QED
      BY <2>1, <2>2
  <1>9. UNCHANGED <<written, read>> /\ Pairs' = Pairs
    OBVIOUS
  <1>10. QED
    BY <1>6, <1>7, <1>8, <1>9, PipesPrefixes DEF P!Leave, Gone

\* A peer that has left before it had a partner.
LEMMA ForgetMapped ==
  ASSUME RowInv, RowInv', Pairs' = Pairs, UNCHANGED <<written, read>>,
         NEW p \in Peers, Over(p), ~Joined(p), Said(p)' = <<>>,
         \A q \in Peers : Over(q)' = Over(q) /\ out'[q] = out[q],
         \A q \in Peers : q # p => Said(q)' = Said(q)
  PROVE  P!Forget(p)
  <1>1. BoxType /\ BoxType' /\ MatesRight
    BY Boxes, PTL
  <1>2. \A q, r \in Peers : Mates(q, r)' = Mates(q, r)
    BY DEF Mates
  <1>3. Outbox'[p] = <<>> /\ Inbox'[p] = Inbox[p]
    BY BoxesAfter
  <1>4. ASSUME NEW q \in Peers, q # p
        PROVE  Outbox'[q] = Outbox[q] /\ Inbox'[q] = Inbox[q]
    <2>1. ~Mates(q, p)
      BY <1>1 DEF MatesRight, Mates
    <2>2. \A r \in Peers : r = q \/ Mates(q, r) => Said(r)' = Said(r)
      BY <1>4, <2>1
    <2>3. QED
      BY <1>2, <2>2, BoxAt
  <1>5. Outbox' = [Outbox EXCEPT ![p] = <<>>] /\ Inbox' = Inbox
    BY <1>1, <1>3, <1>4 DEF BoxType
  <1>6. Gone' = Gone /\ p \in Gone
    BY DEF Gone
  <1>7. QED
    BY <1>5, <1>6 DEF P!Forget, Gone

LEMMA JoinMapped ==
  ASSUME RowInv, RowInv', UNCHANGED <<written, read, out>>,
         NEW w \in Workers, NEW c \in Controllers, Pairs' = Pairs \cup {<<w, c>>},
         \A p \in {w, c} : ~Joined(p) /\ read[p] = <<>> /\ out[p] = <<>>,
         \A p \in Peers : Over(p)' = Over(p) /\ Said(p)' = Said(p)
  PROVE  P!Join(w, c)
  <1>1. BoxType /\ BoxType' /\ MatesRight /\ MatesRight' /\ BoxesHold /\ BoxesHold'
    BY Boxes, PTL
  <1>2. w \in Peers /\ c \in Peers /\ w # c
    BY PeerFacts
  <1>3. Mates(w, c)' /\ Mates(c, w)'
    BY DEF Mates
  <1>4. Joined(w)' /\ Joined(c)'
    BY <1>1, <1>2, <1>3 DEF MatesRight
  <1>5. /\ Outbox[w] = Said(w) /\ Outbox[c] = Said(c)
        /\ Inbox[w] = out[w] /\ Inbox[c] = out[c]
    BY <1>1, <1>2 DEF BoxesHold
  <1>6. /\ Outbox'[w] = <<>> /\ Outbox'[c] = <<>>
        /\ Over(w)' => Inbox'[w] = out'[w]
        /\ Over(c)' => Inbox'[c] = out'[c]
    BY <1>1, <1>2, <1>4, Zenon DEF BoxesHold
  <1>7. /\ ~Over(w)' => Inbox'[w] = out'[w] \o Said(c)'
        /\ ~Over(c)' => Inbox'[c] = out'[c] \o Said(w)'
    BY <1>1, <1>2, <1>3, Zenon DEF BoxesHold
  <1>8. /\ Inbox'[w] = IF Over(w) THEN Inbox[w] ELSE Outbox[c]
        /\ Inbox'[c] = IF Over(c) THEN Inbox[c] ELSE Outbox[w]
    <2>1. Said(c) \in Seq(Chunks) /\ Said(w) \in Seq(Chunks)
      BY <1>1, <1>2 DEF BoxType
    <2>2. <<>> \o Said(c) = Said(c) /\ <<>> \o Said(w) = Said(w)
      BY <2>1, ConcatEmptySeq
    <2>3. out'[w] = <<>> /\ out'[c] = <<>> /\ Said(c)' = Said(c) /\ Said(w)' = Said(w)
      BY <1>2
    <2>4. Over(w)' = Over(w) /\ Over(c)' = Over(c)
      BY <1>2
    <2>5. QED
      BY <1>5, <1>6, <1>7, <2>2, <2>3, <2>4
  <1>9. ASSUME NEW p \in Peers, p \notin {w, c}
        PROVE  Outbox'[p] = Outbox[p] /\ Inbox'[p] = Inbox[p]
    <2>1. \A q \in Peers : Mates(p, q)' = Mates(p, q)
      BY <1>9 DEF Mates
    <2>2. QED
      BY <2>1, BoxAt
  <1>10. /\ Outbox' = [Outbox EXCEPT ![w] = <<>>, ![c] = <<>>]
         /\ Inbox' = [Inbox EXCEPT ![w] = IF Over(w) THEN @ ELSE Outbox[c],
                                   ![c] = IF Over(c) THEN @ ELSE Outbox[w]]
    BY <1>1, <1>2, <1>6, <1>8, <1>9 DEF BoxType
  <1>11. Gone' = Gone /\ (w \in Gone <=> Over(w)) /\ (c \in Gone <=> Over(c))
    BY <1>2 DEF Gone
  <1>12. \A p \in {w, c} : P!Partners(p) = {} /\ read[p] = <<>>
    BY <1>1, <1>2 DEF MatesRight
  <1>13. QED
    BY <1>10, <1>11, <1>12 DEF P!Join, Gone

LEMMA PartMapped ==
  ASSUME RowInv, RowInv', UNCHANGED <<written, read>>,
         NEW w \in Workers, NEW c \in Controllers, <<w, c>> \in Pairs,
         Pairs' = Pairs \ {<<w, c>>}, Over(w) \/ Over(c),
         \A p \in {w, c} : Over(p)' /\ out'[p] \in Prefixes(out[p]) /\ Said(p)' = <<>>,
         \A p \in Peers : p \notin {w, c} => /\ Over(p)' = Over(p)
                                             /\ out'[p] = out[p]
                                             /\ Said(p)' = Said(p)
  PROVE  P!Part(w, c)
  <1>1. /\ BoxType /\ BoxType' /\ MatesRight /\ MatesRight' /\ BoxesHold /\ BoxesHold'
        /\ \A p \in Peers : out[p] \in Seq(Chunks)
    <2>1. BoxType /\ BoxType' /\ MatesRight /\ MatesRight' /\ BoxesHold /\ BoxesHold'
      BY Boxes, PTL
    <2>2. QED
      BY <2>1 DEF RowInv, IndInv, TypeOK
  <1>2. w \in Peers /\ c \in Peers /\ w # c /\ Mates(w, c) /\ Mates(c, w)
    BY PeerFacts DEF Mates
  <1>3. /\ \A p \in Peers : Mates(w, p) => p = c
        /\ \A p \in Peers : Mates(c, p) => p = w
    BY <1>1, <1>2 DEF MatesRight
  <1>4. \A p \in Peers : ~Mates(w, p)' /\ ~Mates(c, p)'
    <2>1. ASSUME NEW p \in Peers
          PROVE  ~Mates(w, p)' /\ ~Mates(c, p)'
      <3>1. /\ <<w, p>> \in Pairs \/ <<p, w>> \in Pairs => p = c
            /\ <<c, p>> \in Pairs \/ <<p, c>> \in Pairs => p = w
        BY <1>3 DEF Mates
      <3>2. /\ <<c, w>> \notin Pairs
        <4>1. Pairs \subseteq Workers \X Controllers
          BY <1>1, Zenon DEF MatesRight
        <4>2. QED
          BY <1>2, <4>1, PeersAssumption
      <3>3. QED
        BY <1>2, <3>1, <3>2 DEF Mates
    <2>2. QED
      BY <2>1
  <1>5. ~Joined(w)' /\ ~Joined(c)'
    BY <1>1, <1>2, <1>4 DEF MatesRight
  <1>6. Joined(w) /\ Joined(c)
    BY <1>1, <1>2 DEF MatesRight
  <1>7. /\ Outbox[w] = <<>> /\ Outbox[c] = <<>>
        /\ Over(w) => Inbox[w] = out[w]
        /\ Over(c) => Inbox[c] = out[c]
        /\ ~Over(w) => Inbox[w] = out[w] \o Said(c)
        /\ ~Over(c) => Inbox[c] = out[c] \o Said(w)
    BY <1>1, <1>2, <1>6, Zenon DEF BoxesHold
  <1>8. /\ Outbox'[w] = <<>> /\ Outbox'[c] = <<>>
        /\ Inbox'[w] = out'[w] /\ Inbox'[c] = out'[c]
    <2>1. /\ Outbox'[w] = Said(w)' /\ Outbox'[c] = Said(c)'
          /\ Inbox'[w] = out'[w] /\ Inbox'[c] = out'[c]
      BY <1>1, <1>2, <1>5, Zenon DEF BoxesHold
    <2>2. QED
      BY <2>1
  <1>9. ASSUME NEW s \in Seq(Chunks), NEW t \in Seq(Chunks), NEW d \in Prefixes(s)
        PROVE  d \in Prefixes(s \o t)
    <2>1. t \in Prefixes(t)
      BY PrefixExtremes
    <2>2. QED
      BY <2>1, PrefixOfConcat
  <1>10. Inbox'[w] \in Prefixes(Inbox[w]) /\ Inbox'[c] \in Prefixes(Inbox[c])
    <2>1. /\ out[w] \in Seq(Chunks) /\ out[c] \in Seq(Chunks)
          /\ Said(w) \in Seq(Chunks) /\ Said(c) \in Seq(Chunks)
          /\ out'[w] \in Prefixes(out[w]) /\ out'[c] \in Prefixes(out[c])
      BY <1>1, <1>2 DEF BoxType
    <2>2. /\ out'[w] \in Prefixes(out[w] \o Said(c))
          /\ out'[c] \in Prefixes(out[c] \o Said(w))
      BY <1>9, <2>1
    <2>3. QED
      BY <1>7, <1>8, <2>1, <2>2
  <1>11. ASSUME NEW p \in Peers, p \notin {w, c}
         PROVE  Outbox'[p] = Outbox[p] /\ Inbox'[p] = Inbox[p]
    <2>1. \A q \in Peers : Mates(p, q)' = Mates(p, q)
      BY <1>11 DEF Mates
    <2>2. ~Mates(p, w) /\ ~Mates(p, c)
      BY <1>3, <1>11 DEF Mates
    <2>3. \A q \in Peers : q = p \/ Mates(p, q) => Said(q)' = Said(q)
      BY <1>11, <2>2
    <2>4. Over(p)' = Over(p) /\ out'[p] = out[p]
      BY <1>11
    <2>5. QED
      BY <2>1, <2>3, <2>4, BoxAt
  <1>12. /\ Outbox' = Outbox
         /\ Inbox' = [Inbox EXCEPT ![w] = Inbox'[w], ![c] = Inbox'[c]]
    <2>1. \A p \in Peers : Outbox'[p] = Outbox[p]
      BY <1>2, <1>7, <1>8, <1>11
    <2>2. \A p \in Peers : p \notin {w, c} => Inbox'[p] = Inbox[p]
      BY <1>11
    <2>3. /\ Outbox \in [Peers -> Seq(Chunks)] /\ Outbox' \in [Peers -> Seq(Chunks)]
          /\ Inbox \in [Peers -> Seq(Chunks)] /\ Inbox' \in [Peers -> Seq(Chunks)]
      BY <1>1 DEF BoxType
    <2>4. Outbox' = Outbox
      BY <2>1, <2>3
    <2>5. Inbox' = [Inbox EXCEPT ![w] = Inbox'[w], ![c] = Inbox'[c]]
      BY <1>2, <2>2, <2>3
    <2>6. QED
      BY <2>4, <2>5
  <1>13. /\ Gone' = Gone \cup {w, c}
         /\ {w, c} \cap Gone # {}
    BY <1>2 DEF Gone
  <1>14. QED
    BY <1>10, <1>12, <1>13, PipesPrefixes DEF P!Part, Gone

LEMMA EndMapped ==
  ASSUME RowInv, RowInv', NEW p \in Peers, Closes(p) \/ NetworkLost(p)
  PROVE  P!Leave(p)
  <1>1. /\ state[p] = "open" /\ UNCHANGED <<connections, peer_of, written, read>>
        /\ state' \in {[state EXCEPT ![p] = s] : s \in {"fin", "rst", "lost"}}
        /\ out' = out \/ out' = [out EXCEPT ![p] = <<>>]
        /\ in' = in \/ in' \in {[in EXCEPT ![p] = s] : s \in Cuts(in[p], out[p] # <<>>)}
    BY DEF Closes, NetworkLost, proxyVars, peerVars
  <1>2. /\ in \in [Peers -> Seq(Chunks)] /\ out \in [Peers -> Seq(Chunks)]
        /\ state \in [Peers -> States]
    BY DEF RowInv, IndInv, TypeOK
  <1>3. in[p] \in Prefixes(in[p]) /\ out[p] \in Prefixes(out[p]) /\ <<>> \in Prefixes(out[p])
    BY <1>2, PrefixExtremes
  <1>4. in'[p] \in Prefixes(in[p]) /\ out'[p] \in Prefixes(out[p])
    BY <1>1, <1>2, <1>3 DEF Cuts
  <1>5. ~Over(p) /\ Over(p)'
    BY <1>1, <1>2 DEF Over
  <1>6. \A q \in Peers : q # p => Over(q)' = Over(q) /\ out'[q] = out[q] /\ in'[q] = in[q]
    BY <1>1, <1>2 DEF Over
  <1>7. /\ Pairs' = Pairs
        /\ \A q \in Peers : \E b \in Seq(Chunks) :
             Said(q) = b \o in[q] /\ Said(q)' = b \o in'[q]
    BY <1>1, PeerBoxes
  <1>8. Said(p)' \in Prefixes(Said(p))
    <2>1. PICK b \in Seq(Chunks) : Said(p) = b \o in[p] /\ Said(p)' = b \o in'[p]
      BY <1>7
    <2>2. in[p] \in Seq(Chunks)
      BY <1>2
    <2>3. b \o in'[p] \in Prefixes(b \o in[p])
      BY <1>4, <2>2, PrefixExtremes, PrefixOfConcat
    <2>4. QED
      BY <2>1, <2>3
  <1>9. \A q \in Peers : q # p => Said(q)' = Said(q)
    BY <1>6, <1>7
  <1>10. UNCHANGED <<written, read>>
    BY <1>1
  <1>11. \A q \in Peers : q # p => /\ Over(q)' = Over(q)
                                   /\ out'[q] = out[q]
                                   /\ Said(q)' = Said(q)
    BY <1>6, <1>9
  <1>12. QED
    BY <1>4, <1>5, <1>7, <1>8, <1>10, <1>11, LeaveMapped

-----------------------------------------------------------------------------
(* accept() and close(): the rows before and after.                        *)

WholeRows == {r \in Rows : Whole(r)}

LEMMA PairsOf ==
  RowInv => Pairs = {<<r.worker, r.controller>> : r \in WholeRows}
  <1> SUFFICES ASSUME RowInv
               PROVE  Pairs = {<<r.worker, r.controller>> : r \in WholeRows}
    OBVIOUS
  <1>1. RowsMapped /\ MatesRight
    BY RowsView, Boxes
  <1>2. Pairs \subseteq Workers \X Controllers
    BY <1>1, Zenon DEF MatesRight
  <1>3. \A p, q : <<p, q>> \in Pairs <=> \E r \in WholeRows : p = r.worker /\ q = r.controller
    <2>1. \A p, q : <<p, q>> \in Pairs <=>
                      \E r \in Rows : Whole(r) /\ p = r.worker /\ q = r.controller
      BY <1>1, Zenon DEF RowsMapped
    <2>2. \A r : r \in WholeRows <=> r \in Rows /\ Whole(r)
      BY DEF WholeRows
    <2>3. \A p, q : (\E r \in WholeRows : p = r.worker /\ q = r.controller) <=>
                      \E r \in Rows : Whole(r) /\ p = r.worker /\ q = r.controller
      BY <2>2, Zenon
    <2>4. ASSUME NEW p, NEW q
          PROVE  <<p, q>> \in Pairs <=> \E r \in WholeRows : p = r.worker /\ q = r.controller
      BY <2>1, <2>3
    <2>5. QED
      BY <2>4
  <1>4. QED
    <2>1. ASSUME NEW z \in Pairs
          PROVE  z \in {<<r.worker, r.controller>> : r \in WholeRows}
      <3>1. PICK p \in Workers, q \in Controllers : z = <<p, q>>
        BY <1>2
      <3>2. QED
        BY <1>3, <3>1
    <2>2. ASSUME NEW r \in WholeRows
          PROVE  <<r.worker, r.controller>> \in Pairs
      BY <1>3
    <2>3. QED
      BY <2>1, <2>2

LEMMA PairsAround ==
  ASSUME RowInv, RowInv'
  PROVE  /\ Pairs = {<<r.worker, r.controller>> : r \in WholeRows}
         /\ Pairs' = {<<r.worker, r.controller>> : r \in WholeRows'}
  <1>1. (Pairs = {<<r.worker, r.controller>> : r \in WholeRows})'
    BY PairsOf, PTL
  <1>2. QED
    BY <1>1, PairsOf

\* A peer whose row, or whose lack of one, is the same after a step.
LEMMA RowKept ==
  ASSUME RowInv, RowInv', NEW p \in Peers, in'[p] = in[p],
         NEW r \in Rows, NEW t \in Rows',
         \/ p = r.worker /\ p = t.worker /\ t.w2c = r.w2c
         \/ p = r.controller /\ p = t.controller /\ t.c2w = r.c2w
  PROVE  Said(p)' = Said(p)
  <1>1. RowsMapped /\ RowsMapped'
    BY RowsView, PTL
  <1>2. p # NoPeer
    BY PeerFacts DEF Peers
  <1>3. CASE p = r.worker /\ p = t.worker /\ t.w2c = r.w2c
    <2>1. Said(p) = r.w2c \o in[p]
      BY <1>1, <1>2, <1>3, Zenon DEF RowsMapped
    <2>2. Said(p)' = t.w2c \o in'[p]
      BY <1>1, <1>2, <1>3, Zenon DEF RowsMapped
    <2>3. QED
      BY <1>3, <2>1, <2>2
  <1>4. CASE p = r.controller /\ p = t.controller /\ t.c2w = r.c2w
    <2>1. Said(p) = r.c2w \o in[p]
      BY <1>1, <1>2, <1>4, Zenon DEF RowsMapped
    <2>2. Said(p)' = t.c2w \o in'[p]
      BY <1>1, <1>2, <1>4, Zenon DEF RowsMapped
    <2>3. QED
      BY <1>4, <2>1, <2>2
  <1>5. QED
    BY <1>3, <1>4

LEMMA NoRowKept ==
  ASSUME RowInv, RowInv', NEW p \in Peers, in'[p] = in[p],
         \A r \in Rows : p # r.worker /\ p # r.controller,
         \A r \in Rows' : p # r.worker /\ p # r.controller
  PROVE  Said(p)' = Said(p)
  <1>1. RowsMapped /\ RowsMapped'
    BY RowsView, PTL
  <1>2. Said(p) = in[p]
    BY <1>1, Zenon DEF RowsMapped
  <1>3. Said(p)' = in'[p]
    BY <1>1, Zenon DEF RowsMapped
  <1>4. QED
    BY <1>2, <1>3

\* The rows are those of the descriptors that are open.
LEMMA RowOpen ==
  ASSUME RowInv, NEW p \in Peers, NEW r \in Rows, p = r.worker \/ p = r.controller
  PROVE  (\E fd \in Fds : peer_of[fd] = p) /\ state[p] \notin {"none", "cut"}
  <1>1. PICK k \in DOMAIN connections : r = Row(k)
    BY RowsOf
  <1>2. p = WorkerOf(k) \/ p = ControllerOf(k)
    BY <1>1, RowsOf
  <1>3. \E fd \in Fds : peer_of[fd] = p
    BY <1>2, SideFacts, PeerFacts DEF Peers
  <1>4. QED
    BY <1>3, PeerFacts DEF RowInv, OneSocket, Peers

\* accept() gives p a seat, alone or beside the peer that waits there.
LEMMA SeatSaid ==
  ASSUME RowInv, RowInv', in' = in, NEW p \in Peers, NEW seat, NEW taken,
         Rows' = (Rows \ {seat}) \cup {taken},
         \A r \in Rows : p # r.worker /\ p # r.controller,
         seat \in Rows \/ (seat.worker = NoPeer /\ seat.controller = NoPeer),
         \/ /\ p = taken.worker /\ taken.w2c = <<>> /\ seat.worker = NoPeer
            /\ taken.controller = seat.controller /\ taken.c2w = seat.c2w
         \/ /\ p = taken.controller /\ taken.c2w = <<>> /\ seat.controller = NoPeer
            /\ taken.worker = seat.worker /\ taken.w2c = seat.w2c
  PROVE  \A x \in Peers : Said(x)' = Said(x)
  <1>1. RowsMapped /\ RowsMapped' /\ in[p] \in Seq(Chunks) /\ taken \in Rows'
    <2>1. RowsMapped /\ RowsMapped'
      BY RowsView, PTL
    <2>2. in[p] \in Seq(Chunks)
      BY DEF RowInv, IndInv, TypeOK
    <2>3. QED
      BY <2>1, <2>2
  <1>2. p # NoPeer
    BY PeerFacts DEF Peers
  <1>3. Said(p)' = Said(p)
    <2>1. Said(p) = in[p]
      BY <1>1, Zenon DEF RowsMapped
    <2>2. Said(p)' = <<>> \o in'[p]
      <3>1. CASE p = taken.worker /\ taken.w2c = <<>>
        <4>1. Said(p)' = taken.w2c \o in'[p]
          BY <1>1, <1>2, <3>1, Zenon DEF RowsMapped
        <4>2. QED
          BY <3>1, <4>1
      <3>2. CASE p = taken.controller /\ taken.c2w = <<>>
        <4>1. Said(p)' = taken.c2w \o in'[p]
          BY <1>1, <1>2, <3>2, Zenon DEF RowsMapped
        <4>2. QED
          BY <3>2, <4>1
      <3>3. QED
        BY <3>1, <3>2
    <2>3. <<>> \o in[p] = in[p]
      BY <1>1, ConcatEmptySeq
    <2>4. QED
      BY <2>1, <2>2, <2>3
  <1>4. ASSUME NEW x \in Peers, x # p
        PROVE  Said(x)' = Said(x)
    <2>1. in'[x] = in[x] /\ x # NoPeer
      BY PeerFacts DEF Peers
    <2>2. CASE \E r \in Rows : x = r.worker \/ x = r.controller
      <3>1. PICK r \in Rows : x = r.worker \/ x = r.controller
        BY <2>2
      <3>2. \E t \in Rows' : \/ x = r.worker /\ x = t.worker /\ t.w2c = r.w2c
                             \/ x = r.controller /\ x = t.controller /\ t.c2w = r.c2w
        <4>1. CASE r = seat
          BY <1>1, <2>1, <3>1, <4>1
        <4>2. CASE r # seat
          BY <3>1, <4>2
        <4>3. QED
          BY <4>1, <4>2
      <3>3. QED
        BY <2>1, <3>2, RowKept
    <2>3. CASE \A r \in Rows : x # r.worker /\ x # r.controller
      <3>1. \A r \in Rows' : x # r.worker /\ x # r.controller
        BY <1>4, <2>1, <2>3
      <3>2. QED
        BY <2>1, <2>3, <3>1, NoRowKept
    <2>4. QED
      BY <2>2, <2>3
  <1>5. QED
    BY <1>3, <1>4

LEMMA SeatPairs ==
  ASSUME RowInv, RowInv', NEW seat, NEW taken, ~Whole(seat),
         Rows' = (Rows \ {seat}) \cup {taken}
  PROVE  Pairs' = IF Whole(taken) THEN Pairs \cup {<<taken.worker, taken.controller>>} ELSE Pairs
  <1>1. WholeRows' = IF Whole(taken) THEN WholeRows \cup {taken} ELSE WholeRows
    BY DEF WholeRows, Whole
  <1>2. QED
    BY <1>1, PairsAround

LEMMA SeatMapped ==
  ASSUME PI, PI', NEW p \in Peers, UNCHANGED <<state, in, out, written, read>>,
         state[p] \notin {"none", "cut"}, \A fd \in Fds : peer_of[fd] # p,
         \/ p \in Workers /\ \E c \in Controllers \cup {NoPeer}, b \in Seq(Chunks) : WorkerSeated(p, c, b)
         \/ p \in Controllers /\ \E w \in Workers \cup {NoPeer}, b \in Seq(Chunks) : ControllerSeated(p, w, b)
  PROVE  \/ UNCHANGED P!pipesVars
         \/ \E w \in Workers, c \in Controllers : P!Join(w, c)
  <1>1. RowInv /\ RowInv' /\ RowsRight /\ RowsMapped /\ Unheard
    <2>1. RowInv /\ RowInv' /\ Unheard
      BY DEF PI
    <2>2. QED
      BY <2>1, RowsView
  <1>2. \A r \in Rows : p # r.worker /\ p # r.controller
    BY <1>1, RowOpen
  <1>3. PICK seat, taken :
          /\ seat \in Rows \/ (seat.worker = NoPeer /\ seat.controller = NoPeer)
          /\ Rows' = (Rows \ {seat}) \cup {taken}
          /\ \/ /\ p = taken.worker /\ taken.w2c = <<>> /\ seat.worker = NoPeer /\ p \in Workers
                /\ taken.controller = seat.controller /\ taken.c2w = seat.c2w
                /\ seat.controller \in Controllers \cup {NoPeer}
             \/ /\ p = taken.controller /\ taken.c2w = <<>> /\ seat.controller = NoPeer /\ p \in Controllers
                /\ taken.worker = seat.worker /\ taken.w2c = seat.w2c
                /\ seat.worker \in Workers \cup {NoPeer}
    <2>1. ASSUME NEW c \in Controllers \cup {NoPeer}, NEW b \in Seq(Chunks), WorkerSeated(p, c, b), p \in Workers
          PROVE  \E seat, taken :
                   /\ seat \in Rows \/ (seat.worker = NoPeer /\ seat.controller = NoPeer)
                   /\ Rows' = (Rows \ {seat}) \cup {taken}
                   /\ p = taken.worker /\ taken.w2c = <<>> /\ seat.worker = NoPeer
                   /\ taken.controller = seat.controller /\ taken.c2w = seat.c2w
                   /\ seat.controller \in Controllers \cup {NoPeer}
      <3> DEFINE seat == [worker |-> NoPeer, controller |-> c, w2c |-> <<>>, c2w |-> b]
                 taken == [worker |-> p, controller |-> c, w2c |-> <<>>, c2w |-> b]
      <3>1. /\ IF c = NoPeer THEN b = <<>> ELSE seat \in Rows
            /\ Rows' = (Rows \ {seat}) \cup {taken}
        BY <2>1 DEF WorkerSeated
      <3>2. /\ seat.worker = NoPeer /\ seat.controller = c /\ seat.c2w = b
            /\ taken.worker = p /\ taken.controller = c /\ taken.w2c = <<>> /\ taken.c2w = b
        OBVIOUS
      <3> HIDE DEF seat, taken
      <3>3. /\ seat \in Rows \/ (seat.worker = NoPeer /\ seat.controller = NoPeer)
            /\ Rows' = (Rows \ {seat}) \cup {taken}
            /\ p = taken.worker /\ taken.w2c = <<>> /\ seat.worker = NoPeer
            /\ taken.controller = seat.controller /\ taken.c2w = seat.c2w
            /\ seat.controller \in Controllers \cup {NoPeer}
        BY <3>1, <3>2
      <3>4. QED
        BY <3>3, Zenon
    <2>2. ASSUME NEW w \in Workers \cup {NoPeer}, NEW b \in Seq(Chunks), ControllerSeated(p, w, b), p \in Controllers
          PROVE  \E seat, taken :
                   /\ seat \in Rows \/ (seat.worker = NoPeer /\ seat.controller = NoPeer)
                   /\ Rows' = (Rows \ {seat}) \cup {taken}
                   /\ p = taken.controller /\ taken.c2w = <<>> /\ seat.controller = NoPeer
                   /\ taken.worker = seat.worker /\ taken.w2c = seat.w2c
                   /\ seat.worker \in Workers \cup {NoPeer}
      <3> DEFINE seat == [worker |-> w, controller |-> NoPeer, w2c |-> b, c2w |-> <<>>]
                 taken == [worker |-> w, controller |-> p, w2c |-> b, c2w |-> <<>>]
      <3>1. /\ IF w = NoPeer THEN b = <<>> ELSE seat \in Rows
            /\ Rows' = (Rows \ {seat}) \cup {taken}
        BY <2>2 DEF ControllerSeated
      <3>2. /\ seat.controller = NoPeer /\ seat.worker = w /\ seat.w2c = b
            /\ taken.worker = w /\ taken.controller = p /\ taken.w2c = b /\ taken.c2w = <<>>
        OBVIOUS
      <3> HIDE DEF seat, taken
      <3>3. /\ seat \in Rows \/ (seat.worker = NoPeer /\ seat.controller = NoPeer)
            /\ Rows' = (Rows \ {seat}) \cup {taken}
            /\ p = taken.controller /\ taken.c2w = <<>> /\ seat.controller = NoPeer
            /\ taken.worker = seat.worker /\ taken.w2c = seat.w2c
            /\ seat.worker \in Workers \cup {NoPeer}
        BY <3>1, <3>2
      <3>4. QED
        BY <3>3, Zenon
    <2>3. QED
      BY <2>1, <2>2
  <1>4. \A x \in Peers : Said(x)' = Said(x)
    <2>1. in' = in
      OBVIOUS
    <2>2. QED
      BY <1>1, <1>2, <1>3, <2>1, SeatSaid
  <1>5. \A x \in Peers : Over(x)' = Over(x) /\ out'[x] = out[x]
    BY DEF Over
  <1>6. ~Whole(seat)
    BY <1>3 DEF Whole
  <1>7. Pairs' = IF Whole(taken) THEN Pairs \cup {<<taken.worker, taken.controller>>} ELSE Pairs
    BY <1>1, <1>3, <1>6, SeatPairs
  <1>8. CASE ~Whole(taken)
    <2>1. Pairs' = Pairs
      BY <1>7, <1>8
    <2>2. UNCHANGED <<written, read>>
      OBVIOUS
    <2>3. UNCHANGED P!pipesVars
      BY <1>1, <1>4, <1>5, <2>1, <2>2, BoxesSame
    <2>4. QED
      BY <2>3
  <1>9. CASE Whole(taken)
    <2>1. PICK w, c : w = taken.worker /\ c = taken.controller
      OBVIOUS
    <2>2. /\ w \in Workers /\ c \in Controllers /\ w \in Peers /\ c \in Peers
          /\ seat \in Rows
          /\ \/ p = w /\ c = seat.controller
             \/ p = c /\ w = seat.worker
      BY <1>3, <1>9, <2>1, PeerFacts DEF Whole
    <2>3. ASSUME NEW x \in {w, c}
          PROVE  ~Joined(x) /\ read[x] = <<>> /\ out[x] = <<>>
      <3>1. x \in Peers /\ x # NoPeer
        BY <2>2, PeerFacts DEF Peers
      <3>2. \A r \in Rows : x = r.worker \/ x = r.controller => ~Whole(r)
        <4>1. CASE x = p
          BY <1>2, <4>1
        <4>2. CASE x = seat.worker /\ x \in Workers
          BY <1>1, <1>6, <2>2, <3>1, <4>2, PeerFacts DEF RowsRight, RowType
        <4>3. CASE x = seat.controller /\ x \in Controllers
          BY <1>1, <1>6, <2>2, <3>1, <4>3, PeerFacts DEF RowsRight, RowType
        <4>4. QED
          BY <2>2, <2>3, <4>1, <4>2, <4>3
      <3>3. state[x] # "cut"
        <4>1. CASE x = p
          BY <4>1
        <4>2. CASE x # p
          BY <1>1, <2>2, <2>3, <3>1, <4>2, RowOpen
        <4>3. QED
          BY <4>1, <4>2
      <3>4. ~Joined(x)
        BY <1>1, <3>1, <3>2 DEF RowsMapped
      <3>5. QED
        BY <1>1, <3>1, <3>3, <3>4 DEF Unheard
    <2>4. Pairs' = Pairs \cup {<<w, c>>}
      BY <1>7, <1>9, <2>1
    <2>5. UNCHANGED <<written, read, out>>
      OBVIOUS
    <2>6. \A x \in Peers : Over(x)' = Over(x) /\ Said(x)' = Said(x)
      BY <1>4, <1>5
    <2>7. P!Join(w, c)
      BY <1>1, <2>2, <2>3, <2>4, <2>5, <2>6, JoinMapped
    <2>8. QED
      BY <2>2, <2>7
  <1>10. QED
    BY <1>8, <1>9

\* accept() fails: the peer's connection is gone before it had a seat.
LEMMA RefusedMapped ==
  ASSUME RowInv, RowInv', NEW p \in Peers, \A fd \in Fds : peer_of[fd] # p,
         state' = [state EXCEPT ![p] = "cut"], in' = [in EXCEPT ![p] = <<>>],
         Rows' = Rows, UNCHANGED <<out, written, read>>
  PROVE  P!Leave(p) \/ P!Forget(p)
  <1>1. RowsMapped /\ RowsMapped'
    BY RowsView, PTL
  <1>2. /\ in \in [Peers -> Seq(Chunks)] /\ out \in [Peers -> Seq(Chunks)]
        /\ state \in [Peers -> States]
    BY DEF RowInv, IndInv, TypeOK
  <1>3. \A r \in Rows : p # r.worker /\ p # r.controller
    BY RowOpen
  <1>4. Said(p)' = <<>>
    <2>1. Said(p)' = in'[p]
      BY <1>1, <1>3, Zenon DEF RowsMapped
    <2>2. QED
      BY <1>2, <2>1
  <1>5. ASSUME NEW q \in Peers, q # p
        PROVE  Said(q)' = Said(q)
    <2>1. in'[q] = in[q]
      BY <1>2, <1>5
    <2>2. CASE \E r \in Rows : q = r.worker \/ q = r.controller
      <3>1. PICK r \in Rows : q = r.worker \/ q = r.controller
        BY <2>2
      <3>2. r \in Rows'
        OBVIOUS
      <3>3. \/ q = r.worker /\ q = r.worker /\ r.w2c = r.w2c
            \/ q = r.controller /\ q = r.controller /\ r.c2w = r.c2w
        BY <3>1
      <3>4. QED
        BY <2>1, <3>2, <3>3, RowKept
    <2>3. CASE \A r \in Rows : q # r.worker /\ q # r.controller
      BY <2>1, <2>3, NoRowKept
    <2>4. QED
      BY <2>2, <2>3
  <1>6. Pairs' = Pairs
    <2>1. WholeRows' = WholeRows
      BY DEF WholeRows
    <2>2. QED
      BY <2>1, PairsAround
  <1>7. /\ Over(p)'
        /\ \A q \in Peers : out'[q] = out[q]
        /\ \A q \in Peers : q # p => Over(q)' = Over(q)
    BY <1>2 DEF Over
  <1>8. UNCHANGED <<written, read>>
    OBVIOUS
  <1>9. CASE ~Over(p)
    <2>1. <<>> \in Prefixes(Said(p)) /\ out'[p] \in Prefixes(out[p])
      <3>1. BoxType
        BY Boxes
      <3>2. Said(p) \in Seq(Chunks) /\ out[p] \in Seq(Chunks)
        BY <1>2, <3>1 DEF BoxType
      <3>3. QED
        BY <1>7, <3>2, PrefixExtremes
    <2>2. Said(p)' \in Prefixes(Said(p))
      BY <1>4, <2>1
    <2>3. \A q \in Peers : q # p => /\ Over(q)' = Over(q)
                                    /\ out'[q] = out[q]
                                    /\ Said(q)' = Said(q)
      BY <1>5, <1>7
    <2>4. P!Leave(p)
      BY <1>6, <1>7, <1>8, <1>9, <2>1, <2>2, <2>3, LeaveMapped
    <2>5. QED
      BY <2>4
  <1>10. CASE Over(p)
    <2>1. ~Joined(p)
      <3>1. Joined(p) => \E r \in Rows : Whole(r) /\ p \in {r.worker, r.controller}
        BY <1>1, Zenon DEF RowsMapped
      <3>2. QED
        BY <1>3, <3>1
    <2>2. \A q \in Peers : Over(q)' = Over(q) /\ out'[q] = out[q]
      BY <1>7, <1>10 DEF Over
    <2>3. \A q \in Peers : q # p => Said(q)' = Said(q)
      BY <1>5
    <2>4. P!Forget(p)
      BY <1>4, <1>6, <1>8, <1>10, <2>1, <2>2, <2>3, ForgetMapped
    <2>5. QED
      BY <2>4
  <1>11. QED
    BY <1>9, <1>10

LEMMA AcceptMapped ==
  ASSUME PI, PI', NEW p \in Peers, Accept(p)
  PROVE  [P!Next]_P!pipesVars
  <1>1. RowInv /\ RowInv'
    BY DEF PI
  <1>2. /\ UNCHANGED <<out, written, read>>
        /\ state[p] \notin {"none", "cut"} /\ \A fd \in Fds : peer_of[fd] # p
        /\ \/ /\ UNCHANGED <<state, in>>
              /\ \/ /\ p \in Workers
                    /\ \E c \in Controllers \cup {NoPeer}, b \in Seq(Chunks) : WorkerSeated(p, c, b)
                 \/ /\ p \in Controllers
                    /\ \E w \in Workers \cup {NoPeer}, b \in Seq(Chunks) : ControllerSeated(p, w, b)
           \/ /\ state' = [state EXCEPT ![p] = "cut"]
              /\ in' = [in EXCEPT ![p] = <<>>]
              /\ Rows' = Rows
    BY <1>1, AcceptEffect
  <1>3. CASE /\ UNCHANGED <<state, in>>
             /\ \/ /\ p \in Workers
                   /\ \E c \in Controllers \cup {NoPeer}, b \in Seq(Chunks) : WorkerSeated(p, c, b)
                \/ /\ p \in Controllers
                   /\ \E w \in Workers \cup {NoPeer}, b \in Seq(Chunks) : ControllerSeated(p, w, b)
    <2>1. UNCHANGED <<state, in, out, written, read>>
      BY <1>2, <1>3
    <2>2. \/ UNCHANGED P!pipesVars
          \/ \E w \in Workers, c \in Controllers : P!Join(w, c)
      BY <1>2, <1>3, <2>1, SeatMapped
    <2>3. QED
      BY <2>2, Zenon DEF P!Next
  <1>4. CASE /\ state' = [state EXCEPT ![p] = "cut"]
             /\ in' = [in EXCEPT ![p] = <<>>]
             /\ Rows' = Rows
    <2>1. P!Leave(p) \/ P!Forget(p)
      BY <1>1, <1>2, <1>4, RefusedMapped
    <2>2. p \in P!Peers
      BY DEF P!Peers, Peers
    <2>3. QED
      BY <2>1, <2>2, Zenon DEF P!Next
  <1>5. QED
    BY <1>2, <1>3, <1>4

\* close_connection(), after a peer has left: the pair is parted, or, if the
\* peer was alone, what it said is forgotten.
LEMMA CloseSaid ==
  ASSUME RowInv, RowInv', NEW r \in Rows, Rows' = Rows \ {r},
         \A p \in Peers : IF p \in {r.worker, r.controller} THEN in'[p] = <<>>
                          ELSE in'[p] = in[p]
  PROVE  \A p \in Peers : Said(p)' = IF p \in {r.worker, r.controller} THEN <<>> ELSE Said(p)
  <1>1. RowsMapped /\ RowsMapped' /\ RowsRight
    BY RowsView, PTL
  <1>2. ASSUME NEW p \in Peers, p \in {r.worker, r.controller}
        PROVE  Said(p)' = <<>>
    <2>1. \A t \in Rows' : p # t.worker /\ p # t.controller
      <3>1. /\ Rows \subseteq RowType
            /\ \A s, t \in Rows : /\ s.worker = t.worker /\ s.worker # NoPeer => s = t
                                  /\ s.controller = t.controller /\ s.controller # NoPeer => s = t
        BY <1>1, Zenon DEF RowsRight
      <3>2. \A t \in Rows : /\ t.worker \in Workers \cup {NoPeer}
                            /\ t.controller \in Controllers \cup {NoPeer}
        BY <3>1 DEF RowType
      <3>3. p # NoPeer
        BY PeerFacts DEF Peers
      <3>4. \A t \in Rows : p \in {t.worker, t.controller} => t = r
        BY <1>2, <3>1, <3>2, <3>3, PeerFacts
      <3>5. QED
        BY <3>4
    <2>2. Said(p)' = in'[p]
      BY <1>1, <2>1, Zenon DEF RowsMapped
    <2>3. QED
      BY <1>2, <2>2
  <1>3. ASSUME NEW p \in Peers, p \notin {r.worker, r.controller}
        PROVE  Said(p)' = Said(p)
    <2>1. in'[p] = in[p]
      BY <1>3
    <2>2. CASE \E t \in Rows : p = t.worker \/ p = t.controller
      <3>1. PICK t \in Rows : p = t.worker \/ p = t.controller
        BY <2>2
      <3>2. t \in Rows'
        BY <1>3, <3>1
      <3>3. \/ p = t.worker /\ p = t.worker /\ t.w2c = t.w2c
            \/ p = t.controller /\ p = t.controller /\ t.c2w = t.c2w
        BY <3>1
      <3>4. QED
        BY <2>1, <3>2, <3>3, RowKept
    <2>3. CASE \A t \in Rows : p # t.worker /\ p # t.controller
      <3>1. \A t \in Rows' : p # t.worker /\ p # t.controller
        BY <2>3
      <3>2. QED
        BY <2>1, <2>3, <3>1, NoRowKept
    <2>4. QED
      BY <2>2, <2>3
  <1>4. QED
    BY <1>2, <1>3

LEMMA ClosePairs ==
  ASSUME RowInv, RowInv', NEW r \in Rows, Rows' = Rows \ {r}
  PROVE  Pairs' = IF Whole(r) THEN Pairs \ {<<r.worker, r.controller>>} ELSE Pairs
  <1>1. WholeRows' = WholeRows \ {r} /\ (Whole(r) <=> r \in WholeRows)
    BY DEF WholeRows
  <1>2. CASE ~Whole(r)
    <2>1. WholeRows' = WholeRows
      BY <1>1, <1>2
    <2>2. QED
      BY <1>2, <2>1, PairsAround
  <1>3. CASE Whole(r)
    <2>1. \A t \in WholeRows \ {r} : <<t.worker, t.controller>> # <<r.worker, r.controller>>
      <3>1. RowsRight
        BY RowsView
      <3>2. QED
        BY <1>3, <3>1 DEF RowsRight, WholeRows, Whole
    <2>2. {<<t.worker, t.controller>> : t \in WholeRows \ {r}}
            = {<<t.worker, t.controller>> : t \in WholeRows} \ {<<r.worker, r.controller>>}
      BY <2>1
    <2>3. QED
      BY <1>1, <1>3, <2>2, PairsAround
  <1>4. QED
    BY <1>2, <1>3

LEMMA CloseMapped ==
  ASSUME PI, PI', pc = "serve", events # <<>>, ~Skipped, Fd \notin Servers,
         close_connection(Index), UNCHANGED peerVars, Over(Peer)
  PROVE  [P!Next]_P!pipesVars
  <1>1. RowInv /\ RowInv' /\ Unheard /\ UNCHANGED <<written, read>>
    BY DEF PI, peerVars
  <1>2. RowsMapped /\ RowsRight
    BY <1>1, RowsView
  <1>3. PICK r, p : r = Row(Index) /\ p = Peer
    OBVIOUS
  <1>4. /\ r \in Rows /\ Rows' = Rows \ {r}
        /\ p \in {r.worker, r.controller} /\ p \in Peers /\ Over(p)
        /\ \A q \in Peers :
             IF q \in {r.worker, r.controller}
             THEN state'[q] = "cut" /\ in'[q] = <<>> /\ out'[q] \in Prefixes(out[q])
             ELSE state'[q] = state[q] /\ in'[q] = in[q] /\ out'[q] = out[q]
    <2>1. Index \in DOMAIN connections
      BY <1>1, PeerSide
    <2>2. r.worker = WorkerOf(Index) /\ r.controller = ControllerOf(Index)
      BY <1>1, <1>3, <2>1, RowsOf
    <2>3. /\ Row(Index) \in Rows
          /\ Rows' = Rows \ {Row(Index)}
          /\ Peer \in {WorkerOf(Index), ControllerOf(Index)} /\ Peer \in Peers
          /\ \A q \in Peers :
               IF q \in {WorkerOf(Index), ControllerOf(Index)}
               THEN state'[q] = "cut" /\ in'[q] = <<>> /\ out'[q] \in Prefixes(out[q])
               ELSE state'[q] = state[q] /\ in'[q] = in[q] /\ out'[q] = out[q]
      BY <1>1, CloseEffect
    <2>4. QED
      BY <1>3, <2>2, <2>3
  <1>5. \A q \in Peers : Said(q)' = IF q \in {r.worker, r.controller} THEN <<>> ELSE Said(q)
    BY <1>1, <1>4, CloseSaid
  <1>6. Pairs' = IF Whole(r) THEN Pairs \ {<<r.worker, r.controller>>} ELSE Pairs
    BY <1>1, <1>4, ClosePairs
  <1>7. \A q \in Peers : IF q \in {r.worker, r.controller} THEN Over(q)' ELSE Over(q)' = Over(q)
    BY <1>4 DEF Over
  <1>8. r.worker \in Workers \cup {NoPeer} /\ r.controller \in Controllers \cup {NoPeer}
    BY <1>2, <1>4 DEF RowsRight, RowType
  <1>9. CASE Whole(r)
    <2>1. PICK w, c : w = r.worker /\ c = r.controller
      OBVIOUS
    <2>2. w \in Workers /\ c \in Controllers /\ w \in Peers /\ c \in Peers
      BY <1>8, <1>9, <2>1, PeerFacts DEF Whole
    <2>3. <<w, c>> \in Pairs
      <3>1. r \in WholeRows
        BY <1>4, <1>9 DEF WholeRows
      <3>2. QED
        BY <1>1, <2>1, <3>1, PairsOf
    <2>4. Pairs' = Pairs \ {<<w, c>>} /\ (Over(w) \/ Over(c))
      BY <1>4, <1>6, <1>9, <2>1
    <2>5. \A q \in {w, c} : Over(q)' /\ out'[q] \in Prefixes(out[q]) /\ Said(q)' = <<>>
      BY <1>4, <1>5, <1>7, <2>1, <2>2
    <2>6. \A q \in Peers : q \notin {w, c} => /\ Over(q)' = Over(q)
                                              /\ out'[q] = out[q]
                                              /\ Said(q)' = Said(q)
      BY <1>4, <1>5, <1>7, <2>1
    <2>7. P!Part(w, c)
      BY <1>1, <2>2, <2>3, <2>4, <2>5, <2>6, PartMapped
    <2>8. QED
      BY <2>2, <2>7, Zenon DEF P!Next
  <1>10. CASE ~Whole(r)
    <2>1. \A q \in Peers : q \in {r.worker, r.controller} <=> q = p
      BY <1>4, <1>8, <1>10, PeerFacts DEF Whole, Peers
    <2>2. ~Joined(p)
      <3>1. Joined(p) => \E t \in Rows : Whole(t) /\ p \in {t.worker, t.controller}
        BY <1>2, <1>4, Zenon DEF RowsMapped
      <3>2. \A t \in Rows : p \in {t.worker, t.controller} => t = r
        BY <1>2, <1>4, PeerFacts DEF RowsRight, RowType, Peers
      <3>3. QED
        BY <1>10, <3>1, <3>2
    <2>3. out[p] = <<>>
      BY <1>1, <1>4, <2>2, RowOpen DEF Unheard
    <2>4. out'[p] = <<>>
      <3>1. out'[p] \in Prefixes(out[p]) /\ out[p] \in Seq(Chunks)
        BY <1>1, <1>4 DEF RowInv, IndInv, TypeOK
      <3>2. out'[p] \in Seq(Chunks) /\ Len(out'[p]) <= Len(out[p])
        BY <3>1, PrefixProperties
      <3>3. QED
        BY <2>3, <3>2, LenProperties, EmptySeq
    <2>5. Pairs' = Pairs /\ Said(p)' = <<>>
      BY <1>4, <1>5, <1>6, <1>10
    <2>6. \A q \in Peers : Over(q)' = Over(q) /\ out'[q] = out[q]
      BY <1>4, <1>7, <2>1, <2>3, <2>4 DEF Over
    <2>7. \A q \in Peers : q # p => Said(q)' = Said(q)
      BY <1>5, <2>1
    <2>8. P!Forget(p)
      BY <1>1, <1>4, <2>2, <2>5, <2>6, <2>7, ForgetMapped
    <2>9. p \in P!Peers
      BY <1>4 DEF P!Peers, Peers
    <2>10. QED
      BY <2>8, <2>9, Zenon DEF P!Next
  <1>11. QED
    BY <1>9, <1>10

-----------------------------------------------------------------------------
(* The proxy implements Pipes.                                             *)

LEMMA InitMapped == Init => P!Init
  <1> SUFFICES ASSUME Init PROVE P!Init
    OBVIOUS
  <1>1. /\ connections = <<>> /\ DOMAIN connections = {}
        /\ state = [p \in Peers |-> "none"] /\ in = [p \in Peers |-> <<>>]
        /\ out = [p \in Peers |-> <<>>]
        /\ written = [p \in Peers |-> 0] /\ read = [p \in Peers |-> <<>>]
    BY DEF Init
  <1>2. Pairs = {} /\ \A p : ~Joined(p)
    BY <1>1 DEF Pairs, Joined
  <1>3. \A p \in Peers : Said(p) = <<>>
    BY <1>1 DEF Said
  <1>4. Outbox = [p \in Peers |-> <<>>]
    BY <1>2, <1>3 DEF Outbox
  <1>5. Inbox = [p \in Peers |-> <<>>]
    BY <1>1, <1>2 DEF Inbox
  <1>6. {p \in Peers : Over(p)} = {}
    BY <1>1 DEF Over
  <1>7. QED
    BY <1>1, <1>2, <1>4, <1>5, <1>6 DEF P!Init, P!Peers, Peers

LEMMA NextMapped == PI /\ PI' /\ [Next]_vars => [P!Next]_P!pipesVars
  <1> SUFFICES ASSUME PI, PI', [Next]_vars PROVE [P!Next]_P!pipesVars
    OBVIOUS
  <1>1. RowInv /\ RowInv' /\ IndInv /\ TypeOK /\ ProxyInv /\ HangupsTrue
    BY DEF PI, RowInv, IndInv
  <1>2. P!Peers = Peers
    BY DEF P!Peers, Peers
  <1>3. CASE UNCHANGED <<connections, kernelVars, peerVars>>
    BY <1>1, <1>3, LoopMapped
  <1>4. CASE Poll \/ Skip \/ EndOfTurn \/ ReceiveFails \/ SendEnds \/ PollFails \/ UNCHANGED vars
    BY <1>3, <1>4 DEF Poll, Skip, EndOfTurn, ReceiveFails, SendEnds, PollFails, Stop, vars, proxyVars
  <1>5. ASSUME NEW p \in Peers, Accept(p)
        PROVE  [P!Next]_P!pipesVars
    BY <1>5, AcceptMapped
  <1>6. CASE Receive
    BY <1>1, <1>6, ReceiveMapped
  <1>7. CASE Send
    BY <1>1, <1>7, SendMapped
  <1>8. CASE ReceiveEnd
    <2>1. /\ pc = "serve" /\ events # <<>> /\ ~Skipped /\ Fd \notin Servers
          /\ close_connection(Index) /\ UNCHANGED peerVars /\ state[Peer] \in Closed
      BY <1>8 DEF ReceiveEnd, ToServe, At
    <2>2. Over(Peer)
      BY <2>1 DEF Over, Closed, HungUp
    <2>3. QED
      BY <2>1, <2>2, CloseMapped
  <1>9. CASE Hangup
    <2>1. /\ pc = "serve" /\ events # <<>> /\ ~Skipped /\ Fd \notin Servers
          /\ Head(events)[2] = "POLLHUP"
      BY <1>9 DEF Hangup, ToServe, At
    <2>2. Index # 0 /\ Fd \in Fds
      BY <1>1, <2>1, ServeFacts
    <2>3. close_connection(Index) /\ UNCHANGED peerVars
      BY <1>9, <2>2 DEF Hangup
    <2>4. 1 \in DOMAIN events /\ events[1] = Head(events)
      BY <1>1, <2>1, EventsFacts DEF Fd
    <2>5. state[Peer] \in HungUp
      BY <1>1, <2>1, <2>2, <2>4 DEF HangupsTrue, Fd, Peer, Skipped
    <2>6. Over(Peer)
      BY <2>5 DEF Over, HungUp
    <2>7. QED
      BY <2>1, <2>3, <2>6, CloseMapped
  <1>10. ASSUME NEW p \in Peers, Connects(p) \/ ResetArrives(p)
         PROVE  [P!Next]_P!pipesVars
    BY <1>1, <1>10, QuietMapped
  <1>11. ASSUME NEW p \in Peers, Writes(p) \/ Reads(p) \/ Closes(p) \/ NetworkLost(p)
         PROVE  [P!Next]_P!pipesVars
    <2>1. P!Write(p) \/ P!Read(p) \/ P!Leave(p)
      BY <1>1, <1>11, WriteMapped, ReadMapped, EndMapped
    <2>2. QED
      BY <1>2, <2>1, Zenon DEF P!Next
  <1>12. QED
    BY <1>4, <1>5, <1>6, <1>7, <1>8, <1>9, <1>10, <1>11 DEF Next, ProxyStep

\* Every connection has the buffers of the peers that it has, each of them
\* accepted once and heard by nobody before it is joined, and is closed only
\* after one of them has left: with the loop's invariant an inductive one.
THEOREM PipesInvariant == Spec => []PipesInv
  <1>1. PI => PipesInv
    BY DEF PI, RowInv, IndInv, PipesInv
  <1>2. QED
    BY InitPI, NextPI, <1>1, PTL DEF Spec

\* The proxy is, for its workers and controllers, a set of pipes: whatever
\* joins, leaves, fails and uses a descriptor again, each step of the loop and
\* of the peers is a step of Pipes or none.
THEOREM Piping == Spec => ActsAsPipes
  BY InitPI, NextPI, InitMapped, NextMapped, PTL DEF Spec, ActsAsPipes, P!Spec
=============================================================================
