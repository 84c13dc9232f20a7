----------------------------- MODULE ProxyProofs -----------------------------
(***************************************************************************)
(* The proxy: types, descriptors and waiting peers.                        *)
(***************************************************************************)
EXTENDS ProxyProperties, DataLemmas

IndInv == TypeOK /\ ProxyInv

-----------------------------------------------------------------------------
(* Constants.                                                              *)

LEMMA FdFacts ==
  /\ Fds \subseteq Int /\ -1 \notin Fds /\ -2 \notin Fds /\ Servers \cap Fds = {} /\ -1 \notin Servers
  BY DEF Fds, Servers, worker_server_fd, controller_server_fd

LEMMA PeerFacts ==
  /\ NoPeer \notin Workers /\ NoPeer \notin Controllers /\ Workers \cap Controllers = {}
  /\ Workers \subseteq Peers /\ Controllers \subseteq Peers
  BY PeersAssumption DEF Peers

LEMMA ChunkFacts ==
  ASSUME NEW p \in Peers, NEW n \in Nat, n < MaxWritten[p]
  PROVE  <<p, n + 1>> \in Chunks
  <1>1. MaxWritten[p] \in Nat
    BY SizesAssumption
  <1>2. n + 1 \in 1..MaxWritten[p]
    BY <1>1
  <1>3. QED
    BY <1>2 DEF Chunks

\* What is left of a sequence is a sequence.
LEMMA CutsType ==
  ASSUME NEW T, NEW s \in Seq(T), NEW reset, NEW c \in Cuts(s, reset)
  PROVE  c \in Seq(T)
  <1>1. ASSUME NEW l \in 0..Len(s)
        PROVE  SubSeq(s, 1, l) \in Seq(T)
    <2>1. l \in Int /\ \A i \in 1..l : s[i] \in T
      BY LenProperties
    <2>2. QED
      BY <2>1, SubSeqProperties
  <1>2. QED
    BY <1>1 DEF Cuts, Prefixes

-----------------------------------------------------------------------------
(* The vector of connections.                                              *)

LEMMA ConnectionsFacts ==
  ASSUME TypeOK
  PROVE  /\ Len(connections) \in Nat
         /\ DOMAIN connections = 1..Len(connections)
         /\ \A k \in DOMAIN connections :
              /\ connections[k] \in Connections
              /\ connections[k].worker_fd \in Fds \cup {-1}
              /\ connections[k].controller_fd \in Fds \cup {-1}
              /\ connections[k].w2c \in Seq(Chunks)
              /\ connections[k].c2w \in Seq(Chunks)
              /\ Sides(k) \subseteq Fds \cup {-1}
  <1>1. connections \in Seq(Connections)
    BY DEF TypeOK
  <1>2. Len(connections) \in Nat /\ DOMAIN connections = 1..Len(connections)
    BY <1>1, LenProperties
  <1>3. ASSUME NEW k \in DOMAIN connections
        PROVE  connections[k] \in Connections
    BY <1>1, <1>2, ElementOfSeq
  <1>4. \A c \in Connections :
          /\ c.worker_fd \in Fds \cup {-1} /\ c.controller_fd \in Fds \cup {-1}
          /\ c.w2c \in Seq(Chunks) /\ c.c2w \in Seq(Chunks)
    BY DEF Connections
  <1>5. QED
    BY <1>2, <1>3, <1>4, Zenon DEF Sides

\* find() returns the first connection that has one of the descriptors.
LEMMA FindProperties ==
  ASSUME TypeOK, NEW worker_fd, NEW controller_fd
  PROVE  LET Has(k) == \/ connections[k].worker_fd = worker_fd
                       \/ connections[k].controller_fd = controller_fd
             found == find(worker_fd, controller_fd)
         IN  \/ found = 0 /\ \A k \in DOMAIN connections : ~Has(k)
             \/ /\ found \in DOMAIN connections
                /\ found # 0
                /\ Has(found)
                /\ \A k \in DOMAIN connections : Has(k) => found <= k
  <1> DEFINE Has(k) == \/ connections[k].worker_fd = worker_fd
                       \/ connections[k].controller_fd = controller_fd
             matching == {k \in DOMAIN connections : Has(k)}
  <1>1. matching \in SUBSET Nat /\ 0 \notin matching
    BY ConnectionsFacts
  <1>2. CASE matching = {}
    BY <1>2 DEF find
  <1>3. CASE matching # {}
    <2>1. Min(matching) \in matching /\ \A k \in matching : Min(matching) <= k
      BY <1>1, <1>3, MinProperties
    <2>2. find(worker_fd, controller_fd) = Min(matching)
      BY <1>3 DEF find
    <2>3. QED
      BY <1>1, <2>1, <2>2
  <1>4. QED
    BY <1>2, <1>3

-----------------------------------------------------------------------------
(* The events that are left.                                               *)

EventSet == (Servers \cup Fds) \X {"POLLIN", "POLLOUT", "POLLHUP"}

LEMMA EventsFacts ==
  ASSUME TypeOK
  PROVE  /\ Len(events) \in Nat
         /\ DOMAIN events = 1..Len(events)
         /\ \A n \in DOMAIN events : /\ events[n] \in EventSet
                                     /\ events[n][1] \in Servers \cup Fds
                                     /\ events[n][1] # -1
         /\ events # <<>> => 1 \in DOMAIN events /\ Head(events) = events[1]
  <1>1. events \in Seq(EventSet)
    BY DEF TypeOK, EventSet
  <1>2. /\ Len(events) \in Nat
        /\ DOMAIN events = 1..Len(events)
        /\ \A n \in DOMAIN events : events[n] \in EventSet
    BY <1>1, LenProperties, ElementOfSeq
  <1>3. \A e \in EventSet : e[1] \in Servers \cup Fds /\ e[1] # -1
    BY FdFacts DEF EventSet
  <1>4. events # <<>> => 1 \in DOMAIN events /\ Head(events) = events[1]
    BY <1>1, <1>2, EmptySeq
  <1>5. QED
    BY <1>2, <1>3, <1>4

LEMMA ServedFacts ==
  ASSUME TypeOK, events # <<>>, Served
  PROVE  /\ events' \in Seq(EventSet)
         /\ \A n \in DOMAIN events' :
              n \in Nat /\ n + 1 \in DOMAIN events /\ events'[n] = events[n+1]
  <1>1. events \in Seq(EventSet)
    BY DEF TypeOK, EventSet
  <1>2. /\ Tail(events) \in Seq(EventSet)
        /\ Len(Tail(events)) = Len(events) - 1
        /\ \A i \in 1 .. Len(Tail(events)) : Tail(events)[i] = events[i+1]
    BY <1>1, HeadTailProperties
  <1>3. DOMAIN Tail(events) = 1..Len(events)-1
    BY <1>2, LenProperties
  <1>4. QED
    BY <1>2, <1>3, EventsFacts DEF Served

\* The connection that an event is served for has the descriptor, and the
\* listening sockets have been served.
LEMMA ServeFacts ==
  ASSUME TypeOK, ProxyInv, pc = "serve", events # <<>>, ~Skipped, Fd \notin Servers
  PROVE  /\ Fd \in Fds /\ Fd # -1
         /\ Peer \in Peers
         /\ Index \in DOMAIN connections /\ Index # 0
         /\ Fd \in Sides(Index)
         /\ \A n \in DOMAIN events : events[n][1] \notin Servers
  <1>1. 1 \in DOMAIN events /\ Fd = events[1][1]
    BY EventsFacts DEF Fd
  <1>2. Fd \in Fds /\ Fd # -1
    BY <1>1, EventsFacts
  <1>3. peer_of[Fd] # NoPeer
    BY <1>1 DEF ProxyInv, EventsInv, EventsKnown, Skipped
  <1>4. Peer \in Peers
    BY <1>2, <1>3 DEF TypeOK, Peer
  <1>5. PICK k \in DOMAIN connections : Fd \in Sides(k)
    BY <1>2, <1>3 DEF ProxyInv, SidesInv, OpenIsSide
  <1>6. connections[k].worker_fd = Fd \/ connections[k].controller_fd = Fd
    BY <1>5 DEF Sides
  <1>7. Index \in DOMAIN connections /\ Index # 0 /\ Fd \in Sides(Index)
    BY <1>6, FindProperties DEF Index, Sides
  <1>8. \A n \in DOMAIN events : events[n][1] \notin Servers
    <2> SUFFICES ASSUME NEW n \in DOMAIN events, events[n][1] \in Servers
                 PROVE  FALSE
      OBVIOUS
    <2>1. 1 \in 1..n
      BY EventsFacts
    <2>2. events[1][1] \in Servers
      BY <2>1 DEF ProxyInv, EventsInv, ServersFirst
    <2>3. QED
      BY <1>1, <2>2
  <1>9. QED
    BY <1>2, <1>4, <1>7, <1>8

-----------------------------------------------------------------------------
(* The initial states, and the steps that leave the connections alone.     *)

LEMMA InitIndInv == Init => IndInv
  <1> SUFFICES ASSUME Init PROVE IndInv
    OBVIOUS
  <1>1. <<>> \in Seq(Connections) /\ <<>> \in Seq(EventSet) /\ <<>> \in Seq(Chunks)
    BY EmptySeq
  <1>2. TypeOK
    BY <1>1, PeerFacts DEF Init, TypeOK, States, EventSet
  <1>3. DOMAIN connections = {} /\ DOMAIN events = {}
    BY DEF Init
  <1>4. ProxyInv
    BY <1>3 DEF Init, ProxyInv, NoProgrammerError, NobodyWaitsInVain, DeletedStayClosed,
         SidesInv, DescriptorsMatch, SidesDiffer, OpenIsSide, BlankLast, EventsInv,
         EventsKnown, EventsOnce, ServersFirst, SomethingToSend
  <1>5. QED
    BY <1>2, <1>4 DEF IndInv

LEMMA ConnectionsKept ==
  ASSUME ProxyInv, UNCHANGED <<connections, events, deleted_fds, peer_of>>,
         pc' # "fatal", pc' = "serve" => pc = "serve"
  PROVE  ProxyInv'
  <1>1. connections' = connections /\ events' = events /\ deleted_fds' = deleted_fds
        /\ peer_of' = peer_of
    OBVIOUS
  <1>2. NoProgrammerError' /\ DeletedStayClosed'
    <2>1. NoProgrammerError /\ DeletedStayClosed
      BY DEF ProxyInv
    <2>2. QED
      BY <1>1, <2>1 DEF NoProgrammerError, DeletedStayClosed
  <1>3. (NobodyWaitsInVain' <=> NobodyWaitsInVain) /\ (BlankLast' <=> BlankLast)
    BY <1>1 DEF NobodyWaitsInVain, BlankLast, HasWorker, HasController
  <1>4. SidesInv' <=> SidesInv
    <2>1. DescriptorsMatch' <=> DescriptorsMatch
      BY <1>1 DEF DescriptorsMatch, HasWorker, HasController, Sides
    <2>2. SidesDiffer' <=> SidesDiffer
      BY <1>1 DEF SidesDiffer, HasWorker, HasController
    <2>3. OpenIsSide' <=> OpenIsSide
      BY <1>1 DEF OpenIsSide, Sides
    <2>4. QED
      BY <2>1, <2>2, <2>3 DEF SidesInv
  <1>5. EventsInv' <=> EventsInv
    <2>1. EventsKnown' <=> EventsKnown
      BY <1>1 DEF EventsKnown
    <2>2. EventsOnce' <=> EventsOnce
      BY <1>1 DEF EventsOnce
    <2>3. ServersFirst' <=> ServersFirst
      BY <1>1 DEF ServersFirst
    <2>4. SomethingToSend' <=> SomethingToSend
      BY <1>1 DEF SomethingToSend
    <2>5. QED
      BY <2>1, <2>2, <2>3, <2>4 DEF EventsInv
  <1>6. QED
    BY <1>2, <1>3, <1>4, <1>5 DEF ProxyInv

LEMMA StopStep ==
  ASSUME IndInv, Stop("failed")
  PROVE  IndInv'
  <1>1. /\ UNCHANGED <<proxyVars, kernelVars, peerVars>>
        /\ pc' = "failed"
    BY DEF Stop
  <1>2. TypeOK'
    BY <1>1 DEF IndInv, TypeOK, Stopped, proxyVars, kernelVars, peerVars
  <1>3. ProxyInv'
    BY <1>1, ConnectionsKept DEF IndInv, proxyVars, kernelVars
  <1>4. QED
    BY <1>2, <1>3 DEF IndInv

LEMMA EndOfTurnStep ==
  ASSUME IndInv, EndOfTurn
  PROVE  IndInv'
  <1>1. /\ UNCHANGED <<proxyVars, kernelVars, peerVars>>
        /\ pc' = "poll"
    BY DEF EndOfTurn
  <1>2. TypeOK'
    BY <1>1 DEF IndInv, TypeOK, Stopped, proxyVars, kernelVars, peerVars
  <1>3. ProxyInv'
    BY <1>1, ConnectionsKept DEF IndInv, proxyVars, kernelVars
  <1>4. QED
    BY <1>2, <1>3 DEF IndInv

LEMMA PeerStep ==
  ASSUME IndInv, NEW p \in Peers,
         \/ Connects(p) \/ Writes(p) \/ Reads(p)
         \/ Closes(p) \/ ResetArrives(p) \/ NetworkLost(p)
  PROVE  IndInv'
  <1>1. UNCHANGED <<pc, proxyVars, peer_of>>
    BY DEF Connects, Writes, Reads, Closes, ResetArrives, NetworkLost
  <1>2. ProxyInv'
    <2>1. pc' # "fatal"
      BY <1>1 DEF IndInv, ProxyInv, NoProgrammerError
    <2>2. QED
      BY <1>1, <2>1, ConnectionsKept DEF IndInv, proxyVars
  <1>3. /\ state \in [Peers -> States] /\ in \in [Peers -> Seq(Chunks)]
        /\ out \in [Peers -> Seq(Chunks)] /\ written \in [Peers -> Nat]
        /\ read \in [Peers -> Seq(Chunks)]
        /\ in[p] \in Seq(Chunks) /\ out[p] \in Seq(Chunks) /\ read[p] \in Seq(Chunks)
        /\ written[p] \in Nat
    BY DEF IndInv, TypeOK
  <1>4. /\ state' \in [Peers -> States] /\ in' \in [Peers -> Seq(Chunks)]
        /\ out' \in [Peers -> Seq(Chunks)] /\ written' \in [Peers -> Nat]
        /\ read' \in [Peers -> Seq(Chunks)]
    <2>1. CASE Connects(p) \/ ResetArrives(p) \/ NetworkLost(p)
      BY <1>3, <2>1 DEF Connects, ResetArrives, NetworkLost, peerVars, States
    <2>2. CASE Writes(p)
      <3>1. <<p, written[p] + 1>> \in Chunks
        BY <1>3, <2>2, ChunkFacts DEF Writes
      <3>2. Append(in[p], <<p, written[p] + 1>>) \in Seq(Chunks)
        BY <1>3, <3>1, AppendProperties
      <3>3. QED
        BY <1>3, <2>2, <3>2 DEF Writes
    <2>3. CASE Reads(p)
      <3>1. Head(out[p]) \in Chunks /\ Tail(out[p]) \in Seq(Chunks)
        BY <1>3, <2>3, HeadTailProperties DEF Reads
      <3>2. Append(read[p], Head(out[p])) \in Seq(Chunks)
        BY <1>3, <3>1, AppendProperties
      <3>3. QED
        BY <1>3, <2>3, <3>1, <3>2 DEF Reads
    <2>4. CASE Closes(p)
      <3>1. PICK s \in Cuts(in[p], out[p] # <<>>) : in' = [in EXCEPT ![p] = s]
        BY <2>4 DEF Closes
      <3>2. s \in Seq(Chunks)
        BY <1>3, <3>1, CutsType
      <3>3. <<>> \in Seq(Chunks)
        BY EmptySeq
      <3>4. QED
        BY <1>3, <2>4, <3>1, <3>2, <3>3 DEF Closes, peerVars, States
    <2>5. QED
      BY <2>1, <2>2, <2>3, <2>4
  <1>5. TypeOK'
    BY <1>1, <1>4 DEF IndInv, TypeOK, proxyVars
  <1>6. QED
    BY <1>2, <1>5 DEF IndInv

-----------------------------------------------------------------------------
(* What a step that serves an event has to show.                           *)

LEMMA ServedEventsKept ==
  ASSUME TypeOK, EventsInv, events # <<>>, Served,
         deleted_fds \subseteq deleted_fds',
         \A fd \in Fds : peer_of[fd] # NoPeer => peer_of'[fd] # NoPeer \/ fd \in deleted_fds',
         deleted_fds' = deleted_fds \/ \A n \in DOMAIN events : events[n][1] \notin Servers
  PROVE  EventsKnown' /\ EventsOnce' /\ ServersFirst'
  <1>1. \A n \in DOMAIN events' :
          n \in Nat /\ n + 1 \in DOMAIN events /\ events'[n] = events[n+1]
    BY ServedFacts
  <1>2. EventsKnown'
    <2> SUFFICES ASSUME NEW n \in DOMAIN events'
                 PROVE  \/ events'[n][1] \in Servers \cup deleted_fds'
                        \/ peer_of'[events'[n][1]] # NoPeer
      BY DEF EventsKnown
    <2>1. n + 1 \in DOMAIN events /\ events'[n] = events[n+1]
      BY <1>1
    <2>2. events[n+1][1] \in Servers \cup Fds
      BY <2>1, EventsFacts
    <2>3. \/ events[n+1][1] \in Servers \cup deleted_fds
          \/ peer_of[events[n+1][1]] # NoPeer
      BY <2>1 DEF EventsInv, EventsKnown
    <2>4. QED
      BY <2>1, <2>2, <2>3
  <1>3. EventsOnce'
    <2> SUFFICES ASSUME NEW m \in DOMAIN events', NEW n \in DOMAIN events',
                        events'[m] = events'[n]
                 PROVE  m = n
      BY DEF EventsOnce
    <2>1. m + 1 = n + 1
      BY <1>1 DEF EventsInv, EventsOnce
    <2>2. QED
      BY <1>1, <2>1
  <1>4. ServersFirst'
    <2> SUFFICES ASSUME NEW n \in DOMAIN events', events'[n][1] \in Servers
                 PROVE  deleted_fds' = {} /\ \A m \in 1..n : events'[m][1] \in Servers
      BY DEF ServersFirst
    <2>1. n \in Nat /\ n + 1 \in DOMAIN events /\ events[n+1][1] \in Servers
      BY <1>1
    <2>2. deleted_fds = {} /\ \A m \in 1..n+1 : events[m][1] \in Servers
      BY <2>1 DEF EventsInv, ServersFirst
    <2>3. ASSUME NEW m \in 1..n
          PROVE  events'[m][1] \in Servers
      <3>1. m \in DOMAIN events'
        <4>1. events' \in Seq(EventSet)
          BY ServedFacts
        <4>2. DOMAIN events' = 1..Len(events') /\ Len(events') \in Nat
          BY <4>1, LenProperties
        <4>3. QED
          BY <4>2
      <3>2. m + 1 \in 1..n+1 /\ events'[m] = events[m+1]
        BY <1>1, <2>1, <3>1
      <3>3. QED
        BY <2>2, <3>2
    <2>4. QED
      BY <2>1, <2>2, <2>3
  <1>5. QED
    BY <1>2, <1>3, <1>4

\* The second part of DescriptorsMatch, from which the first follows.
SidesRight ==
  \A k \in DOMAIN connections :
    /\ HasWorker(k) => peer_of[connections[k].worker_fd] \in Workers
    /\ HasController(k) => peer_of[connections[k].controller_fd] \in Controllers

LEMMA OneConnection ==
  TypeOK /\ SidesRight /\ SidesDiffer /\ OpenIsSide => SidesInv
  <1> SUFFICES ASSUME TypeOK, SidesRight, SidesDiffer, OpenIsSide,
                      NEW fd \in Fds, peer_of[fd] # NoPeer
               PROVE  Cardinality({k \in DOMAIN connections : fd \in Sides(k)}) = 1
    BY DEF SidesInv, DescriptorsMatch, SidesRight
  <1>1. PICK k \in DOMAIN connections : fd \in Sides(k)
    BY DEF OpenIsSide
  <1>2. ASSUME NEW j \in DOMAIN connections, fd \in Sides(j)
        PROVE  j = k
    BY <1>1, <1>2, FdFacts, PeerFacts
    DEF Sides, SidesRight, SidesDiffer, HasWorker, HasController
  <1>3. {j \in DOMAIN connections : fd \in Sides(j)} = {k}
    BY <1>1, <1>2
  <1>4. QED
    BY <1>3, FS_Singleton

\* Joined and waiting peers stay as they are.
LEMMA SidesKept ==
  ASSUME TypeOK, TypeOK', ProxyInv, peer_of' = peer_of,
         DOMAIN connections' = DOMAIN connections,
         \A k \in DOMAIN connections :
           /\ connections'[k].worker_fd = connections[k].worker_fd
           /\ connections'[k].controller_fd = connections[k].controller_fd
  PROVE  SidesInv' /\ BlankLast' /\ NobodyWaitsInVain'
  <1>1. SidesRight' /\ SidesDiffer' /\ OpenIsSide'
    BY DEF ProxyInv, SidesInv, DescriptorsMatch, SidesRight, SidesDiffer, OpenIsSide,
           HasWorker, HasController, Sides
  <1>2. SidesInv'
    BY <1>1, OneConnection, PTL
  <1>3. BlankLast' /\ NobodyWaitsInVain'
    BY DEF ProxyInv, BlankLast, NobodyWaitsInVain, HasWorker, HasController
  <1>4. QED
    BY <1>2, <1>3

LEMMA SkipStep ==
  ASSUME IndInv, Skip
  PROVE  IndInv'
  <1>1. /\ TypeOK /\ ProxyInv /\ events # <<>> /\ Served /\ pc' = pc
        /\ UNCHANGED <<connections, deleted_fds, sent_here, kernelVars, peerVars>>
    BY DEF IndInv, Skip
  <1>2. TypeOK'
    <2>1. events' \in Seq(EventSet)
      BY <1>1, ServedFacts
    <2>2. QED
      BY <1>1, <2>1 DEF TypeOK, EventSet, kernelVars, peerVars
  <1>3. SidesInv' /\ BlankLast' /\ NobodyWaitsInVain'
    BY <1>1, <1>2, SidesKept DEF kernelVars
  <1>4. EventsKnown' /\ EventsOnce' /\ ServersFirst'
    BY <1>1, ServedEventsKept DEF kernelVars, ProxyInv
  <1>5. SomethingToSend'
    BY <1>1, ServedFacts DEF ProxyInv, EventsInv, SomethingToSend
  <1>6. NoProgrammerError' /\ DeletedStayClosed'
    BY <1>1 DEF ProxyInv, NoProgrammerError, DeletedStayClosed, kernelVars
  <1>7. QED
    BY <1>2, <1>3, <1>4, <1>5, <1>6 DEF IndInv, ProxyInv, EventsInv

-----------------------------------------------------------------------------
(* recv() and send().                                                      *)

LEMMA BufferChanges ==
  ASSUME TypeOK, NEW k \in DOMAIN connections, NEW c \in Connections,
         c.worker_fd = connections[k].worker_fd,
         c.controller_fd = connections[k].controller_fd,
         connections' = [connections EXCEPT ![k] = c]
  PROVE  /\ connections' \in Seq(Connections)
         /\ DOMAIN connections' = DOMAIN connections
         /\ connections'[k] = c
         /\ \A j \in DOMAIN connections :
              /\ j # k => connections'[j] = connections[j]
              /\ connections'[j].worker_fd = connections[j].worker_fd
              /\ connections'[j].controller_fd = connections[j].controller_fd
  <1>1. connections \in Seq(Connections)
    BY DEF TypeOK
  <1>2. connections' \in Seq(Connections) /\ DOMAIN connections' = DOMAIN connections
    BY <1>1, ConnectionsFacts
  <1>3. QED
    BY <1>2

LEMMA ReceiveStep ==
  ASSUME IndInv, Receive
  PROVE  IndInv'
  <1>1. TypeOK /\ ProxyInv /\ pc = "serve" /\ events # <<>> /\ ~Skipped /\ Fd \notin Servers
    BY DEF IndInv, Receive, ToServe, At
  <1>2. /\ Peer \in Peers /\ Index \in DOMAIN connections /\ Index # 0
    BY <1>1, ServeFacts
  <1>3. /\ in[Peer] # <<>>
        /\ connections' = [connections EXCEPT ![Index] =
                             Forwarded(connections[Index], Head(in[Peer]))]
        /\ in' = [in EXCEPT ![Peer] = Tail(in[Peer])]
        /\ Served
        /\ UNCHANGED <<pc, deleted_fds, sent_here, peer_of, state, out, peerVars>>
    BY <1>2 DEF Receive
  <1> DEFINE old == connections[Index]
             chunk == Head(in[Peer])
             new == Forwarded(old, chunk)
  <1>4. chunk \in Chunks /\ Tail(in[Peer]) \in Seq(Chunks)
    <2>1. in[Peer] \in Seq(Chunks)
      BY <1>1, <1>2 DEF TypeOK
    <2>2. QED
      BY <1>3, <2>1, HeadTailProperties
  <1>5. old \in Connections /\ old.w2c \in Seq(Chunks) /\ old.c2w \in Seq(Chunks)
    BY <1>1, <1>2, ConnectionsFacts
  <1> HIDE DEF old, chunk
  <1>6. /\ new \in Connections
        /\ new.worker_fd = old.worker_fd /\ new.controller_fd = old.controller_fd
        /\ old.w2c # <<>> => new.w2c # <<>>
        /\ old.c2w # <<>> => new.c2w # <<>>
    <2>1. /\ Append(old.w2c, chunk) \in Seq(Chunks) /\ Append(old.w2c, chunk) # <<>>
          /\ Append(old.c2w, chunk) \in Seq(Chunks) /\ Append(old.c2w, chunk) # <<>>
      BY <1>4, <1>5, AppendProperties
    <2>2. QED
      BY <1>5, <2>1 DEF Forwarded, Connections
  <1> HIDE DEF new
  <1>7. /\ connections' \in Seq(Connections)
        /\ DOMAIN connections' = DOMAIN connections
        /\ connections'[Index] = new
        /\ \A j \in DOMAIN connections :
             /\ j # Index => connections'[j] = connections[j]
             /\ connections'[j].worker_fd = connections[j].worker_fd
             /\ connections'[j].controller_fd = connections[j].controller_fd
    BY <1>1, <1>2, <1>3, <1>6, BufferChanges DEF new, old, chunk
  <1>8. TypeOK'
    <2>1. events' \in Seq(EventSet)
      BY <1>1, <1>3, ServedFacts
    <2>2. in' \in [Peers -> Seq(Chunks)]
      BY <1>1, <1>3, <1>4 DEF TypeOK
    <2>3. QED
      BY <1>1, <1>3, <1>7, <2>1, <2>2 DEF TypeOK, EventSet, peerVars
  <1>9. SidesInv' /\ BlankLast' /\ NobodyWaitsInVain'
    BY <1>1, <1>3, <1>7, <1>8, SidesKept
  <1>10. EventsKnown' /\ EventsOnce' /\ ServersFirst'
    BY <1>1, <1>3, ServedEventsKept DEF ProxyInv
  <1>11. SomethingToSend'
    <2> SUFFICES ASSUME NEW n \in DOMAIN events', NEW k \in DOMAIN connections',
                        events'[n][2] = "POLLOUT", events'[n][1] \notin deleted_fds'
                 PROVE  /\ events'[n][1] = connections'[k].worker_fd => connections'[k].c2w # <<>>
                        /\ events'[n][1] = connections'[k].controller_fd => connections'[k].w2c # <<>>
      BY DEF SomethingToSend
    <2>1. n + 1 \in DOMAIN events /\ events'[n] = events[n+1] /\ k \in DOMAIN connections
      BY <1>1, <1>3, <1>7, ServedFacts
    <2>2. /\ events'[n][1] = connections[k].worker_fd => connections[k].c2w # <<>>
          /\ events'[n][1] = connections[k].controller_fd => connections[k].w2c # <<>>
      BY <1>1, <1>3, <2>1 DEF ProxyInv, EventsInv, SomethingToSend
    <2>3. CASE k # Index
      BY <1>7, <2>1, <2>2, <2>3
    <2>4. CASE k = Index
      BY <1>6, <1>7, <2>2, <2>4 DEF old
    <2>5. QED
      BY <2>3, <2>4
  <1>12. NoProgrammerError' /\ DeletedStayClosed'
    BY <1>1, <1>3 DEF ProxyInv, NoProgrammerError, DeletedStayClosed
  <1>13. QED
    BY <1>8, <1>9, <1>10, <1>11, <1>12 DEF IndInv, ProxyInv, EventsInv

LEMMA SendStep ==
  ASSUME IndInv, Send
  PROVE  IndInv'
  <1>1. /\ TypeOK /\ ProxyInv /\ pc = "serve" /\ events # <<>> /\ ~Skipped /\ Fd \notin Servers
        /\ Head(events)[2] = "POLLOUT"
    BY DEF IndInv, Send, ToServe, At
  <1>2. /\ Fd # -1 /\ Peer \in Peers /\ Index \in DOMAIN connections /\ Fd \in Sides(Index)
        /\ \A n \in DOMAIN events : events[n][1] \notin Servers
    BY <1>1, ServeFacts
  <1>3. 1 \in DOMAIN events /\ Head(events) = events[1] /\ Fd = events[1][1]
    BY <1>1, EventsFacts DEF Fd
  <1> DEFINE old == connections[Index]
             new == Erased(old)
  <1>4. /\ connections' = [connections EXCEPT ![Index] = new]
        /\ out' = [out EXCEPT ![Peer] = IF state[Peer] = "open" THEN Append(@, Head(Buffer)) ELSE @]
        /\ state' = [state EXCEPT ![Peer] = IF @ = "fin" THEN "finsent" ELSE @]
        /\ \/ Len(Buffer) = 1 /\ sent_here' = 0 /\ Served
           \/ Len(Buffer) # 1 /\ sent_here' = sent_here + 1 /\ UNCHANGED events
        /\ UNCHANGED <<pc, deleted_fds, peer_of, in, peerVars>>
    BY DEF Send
  <1>5. old \in Connections /\ old.w2c \in Seq(Chunks) /\ old.c2w \in Seq(Chunks)
    BY <1>1, <1>2, ConnectionsFacts
  <1>6. Fd = old.worker_fd \/ Fd = old.controller_fd
    BY <1>2 DEF Sides
  <1>7. Buffer = (IF Fd = old.worker_fd THEN old.c2w ELSE old.w2c)
    BY DEF Buffer
  <1>8. Buffer # <<>> /\ Buffer \in Seq(Chunks)
    <2>1. /\ Fd = old.worker_fd => old.c2w # <<>>
          /\ Fd = old.controller_fd => old.w2c # <<>>
      BY <1>1, <1>2, <1>3 DEF ProxyInv, EventsInv, SomethingToSend, Skipped
    <2>2. QED
      BY <1>5, <1>6, <1>7, <2>1
  <1> HIDE DEF old
  <1>9. /\ Head(Buffer) \in Chunks /\ Tail(Buffer) \in Seq(Chunks)
        /\ Len(Buffer) # 1 => Tail(Buffer) # <<>>
    <2>1. /\ Head(Buffer) \in Chunks /\ Tail(Buffer) \in Seq(Chunks)
          /\ Len(Tail(Buffer)) = Len(Buffer) - 1 /\ Len(Buffer) \in Nat
      BY <1>8, HeadTailProperties, LenProperties
    <2>2. Len(Buffer) # 1 => Len(Tail(Buffer)) # 0
      BY <2>1
    <2>3. QED
      BY <2>1, <2>2, EmptySeq
  <1>10. /\ new \in Connections
         /\ new.worker_fd = old.worker_fd /\ new.controller_fd = old.controller_fd
         /\ new.c2w = (IF Fd = old.worker_fd THEN Tail(Buffer) ELSE old.c2w)
         /\ new.w2c = (IF Fd = old.worker_fd THEN old.w2c ELSE Tail(Buffer))
    BY <1>5, <1>7, <1>9 DEF Erased, Connections
  <1> HIDE DEF new
  <1>11. /\ connections' \in Seq(Connections)
         /\ DOMAIN connections' = DOMAIN connections
         /\ connections'[Index] = new
         /\ \A j \in DOMAIN connections :
              /\ j # Index => connections'[j] = connections[j]
              /\ connections'[j].worker_fd = connections[j].worker_fd
              /\ connections'[j].controller_fd = connections[j].controller_fd
    BY <1>1, <1>2, <1>4, <1>10, BufferChanges DEF old
  <1>12. TypeOK'
    <2>1. events' \in Seq(EventSet)
      BY <1>1, <1>4, ServedFacts DEF TypeOK, EventSet
    <2>2. out' \in [Peers -> Seq(Chunks)] /\ state' \in [Peers -> States]
      <3>1. out[Peer] \in Seq(Chunks) /\ state[Peer] \in States
        BY <1>1, <1>2 DEF TypeOK
      <3>2. Append(out[Peer], Head(Buffer)) \in Seq(Chunks) /\ "finsent" \in States
        BY <1>9, <3>1, AppendProperties DEF States
      <3>3. QED
        BY <1>1, <1>4, <3>1, <3>2 DEF TypeOK
    <2>3. sent_here' \in Nat
      BY <1>1, <1>4 DEF TypeOK
    <2>4. QED
      BY <1>1, <1>4, <1>11, <2>1, <2>2, <2>3 DEF TypeOK, EventSet, peerVars
  <1>13. SidesInv' /\ BlankLast' /\ NobodyWaitsInVain'
    BY <1>1, <1>4, <1>11, <1>12, SidesKept
  <1>14. EventsKnown' /\ EventsOnce' /\ ServersFirst'
    <2>1. CASE Served
      BY <1>1, <1>4, <2>1, ServedEventsKept DEF ProxyInv
    <2>2. CASE UNCHANGED events
      BY <1>1, <1>4, <2>2 DEF ProxyInv, EventsInv, EventsKnown, EventsOnce, ServersFirst
    <2>3. QED
      BY <1>4, <2>1, <2>2
  \* The only event that asks for this buffer is the one that is served.
  <1>15. SomethingToSend'
    <2> SUFFICES ASSUME NEW n \in DOMAIN events', NEW k \in DOMAIN connections',
                        events'[n][2] = "POLLOUT", events'[n][1] \notin deleted_fds'
                 PROVE  /\ events'[n][1] = connections'[k].worker_fd => connections'[k].c2w # <<>>
                        /\ events'[n][1] = connections'[k].controller_fd => connections'[k].w2c # <<>>
      BY DEF SomethingToSend
    <2>1. k \in DOMAIN connections
      BY <1>11
    <2>2. PICK m \in DOMAIN events : events'[n] = events[m] /\ (Served => m # 1)
      <3>1. CASE Served
        BY <1>1, <3>1, ServedFacts
      <3>2. CASE ~Served
        BY <1>4, <3>2
      <3>3. QED
        BY <3>1, <3>2
    <2>3. /\ events'[n][1] = connections[k].worker_fd => connections[k].c2w # <<>>
          /\ events'[n][1] = connections[k].controller_fd => connections[k].w2c # <<>>
      BY <1>1, <1>4, <2>1, <2>2 DEF ProxyInv, EventsInv, SomethingToSend
    <2>4. CASE k # Index
      BY <1>11, <2>1, <2>3, <2>4
    <2>5. CASE k = Index
      <3>1. CASE Len(Buffer) # 1
        BY <1>9, <1>10, <1>11, <2>3, <2>5, <3>1 DEF old
      <3>2. CASE Len(Buffer) = 1
        <4>1. m # 1 /\ events[m] # events[1]
          BY <1>1, <1>3, <1>4, <2>2, <3>2 DEF ProxyInv, EventsInv, EventsOnce
        <4>2. events[m][1] # Fd
          <5>1. events[m] \in EventSet /\ events[1] \in EventSet
            BY <1>1, <1>3, EventsFacts
          <5>2. events[m][2] = "POLLOUT" /\ events[1][2] = "POLLOUT"
            BY <1>1, <1>3, <2>2
          <5>3. QED
            BY <1>3, <4>1, <5>1, <5>2 DEF EventSet
        <4>3. QED
          BY <1>6, <1>10, <1>11, <2>2, <2>3, <2>5, <4>2 DEF old
      <3>3. QED
        BY <3>1, <3>2
    <2>6. QED
      BY <2>4, <2>5
  <1>16. NoProgrammerError' /\ DeletedStayClosed'
    BY <1>1, <1>4 DEF ProxyInv, NoProgrammerError, DeletedStayClosed
  <1>17. QED
    BY <1>12, <1>13, <1>14, <1>15, <1>16 DEF IndInv, ProxyInv, EventsInv

-----------------------------------------------------------------------------
(* close_connection()                                                      *)

LEMMA RemovedConnection ==
  ASSUME TypeOK, NEW k \in DOMAIN connections, connections' = RemoveAt(connections, k)
  PROVE  /\ connections' \in Seq(Connections)
         /\ \E old \in [DOMAIN connections' -> DOMAIN connections] :
              /\ \A n \in DOMAIN connections' :
                   connections'[n] = connections[old[n]] /\ old[n] # k
              /\ \A m, n \in DOMAIN connections' : old[m] < old[n] => m < n
              /\ \A m, n \in DOMAIN connections' : old[m] = old[n] => m = n
              /\ \A j \in DOMAIN connections :
                   j # k => \E n \in DOMAIN connections' : old[n] = j
  <1>1. /\ connections \in Seq(Connections) /\ Len(connections) \in Nat
        /\ DOMAIN connections = 1..Len(connections)
    BY ConnectionsFacts DEF TypeOK
  <1>2. /\ connections' \in Seq(Connections)
        /\ Len(connections') = Len(connections) - 1
        /\ \A n \in 1..Len(connections)-1 :
             connections'[n] = IF n < k THEN connections[n] ELSE connections[n+1]
    BY <1>1, RemoveAtProperties
  <1>3. DOMAIN connections' = 1..Len(connections)-1
    BY <1>2, LenProperties
  <1> DEFINE old == [n \in DOMAIN connections' |-> IF n < k THEN n ELSE n + 1]
  <1>4. old \in [DOMAIN connections' -> DOMAIN connections]
    BY <1>1, <1>3
  <1>5. \A n \in DOMAIN connections' :
          connections'[n] = connections[old[n]] /\ old[n] # k
    BY <1>1, <1>2, <1>3
  <1>6. \A m, n \in DOMAIN connections' : /\ old[m] < old[n] => m < n
                                          /\ old[m] = old[n] => m = n
    BY <1>1, <1>3
  <1>7. ASSUME NEW j \in DOMAIN connections, j # k
        PROVE  \E n \in DOMAIN connections' : old[n] = j
    <2>1. CASE j < k
      <3>1. j \in DOMAIN connections' /\ old[j] = j
        BY <1>1, <1>3, <2>1
      <3>2. QED
        BY <3>1
    <2>2. CASE j > k
      <3>1. j - 1 \in DOMAIN connections' /\ old[j-1] = j
        BY <1>1, <1>3, <2>2
      <3>2. QED
        BY <3>1
    <2>3. QED
      BY <1>1, <1>7, <2>1, <2>2
  <1> HIDE DEF old
  <1>8. QED
    BY <1>2, <1>4, <1>5, <1>6, <1>7

\* No other connection has one of the sides of a connection.
LEMMA SidesApart ==
  ASSUME TypeOK, SidesInv, NEW j \in DOMAIN connections, NEW k \in DOMAIN connections, j # k
  PROVE  \A fd \in Sides(k) : fd # -1 => fd \notin Sides(j)
  BY PeerFacts DEF SidesInv, DescriptorsMatch, SidesDiffer, Sides, HasWorker, HasController

LEMMA CloseStep ==
  ASSUME IndInv, pc = "serve", events # <<>>, ~Skipped, Fd \notin Servers,
         close_connection(Index), Served, UNCHANGED <<pc, sent_here, peerVars>>
  PROVE  IndInv'
  <1>1. /\ TypeOK /\ ProxyInv /\ SidesInv /\ EventsInv
        /\ Index \in DOMAIN connections
        /\ \A n \in DOMAIN events : events[n][1] \notin Servers
    BY ServeFacts DEF IndInv, ProxyInv
  <1> DEFINE k == Index
             fds == Sides(k) \ {-1}
             closed == {peer_of[fd] : fd \in fds}
  <1>2. /\ deleted_fds' = deleted_fds \cup Sides(k)
        /\ connections' = RemoveAt(connections, k)
        /\ peer_of' = [fd \in Fds |-> IF fd \in fds THEN NoPeer ELSE peer_of[fd]]
        /\ state' = [p \in Peers |-> IF p \in closed THEN "cut" ELSE state[p]]
        /\ in' = [p \in Peers |-> IF p \in closed THEN <<>> ELSE in[p]]
    BY DEF close_connection
  <1>3. PICK kept \in [closed -> UNION {Prefixes(out[p]) : p \in closed}] :
          /\ \A p \in closed : kept[p] \in Cuts(out[p], in[p] # <<>>)
          /\ out' = [p \in Peers |-> IF p \in closed THEN kept[p] ELSE out[p]]
    BY DEF close_connection
  <1> HIDE DEF closed
  <1> HIDE DEF k
  <1>4. k \in DOMAIN connections
    BY <1>1 DEF k
  <1>5. connections' \in Seq(Connections)
    BY <1>1, <1>2, <1>4, RemovedConnection
  <1>6. PICK old \in [DOMAIN connections' -> DOMAIN connections] :
          /\ \A n \in DOMAIN connections' :
               connections'[n] = connections[old[n]] /\ old[n] # k
          /\ \A m, n \in DOMAIN connections' : old[m] < old[n] => m < n
          /\ \A m, n \in DOMAIN connections' : old[m] = old[n] => m = n
          /\ \A j \in DOMAIN connections :
               j # k => \E n \in DOMAIN connections' : old[n] = j
    BY <1>1, <1>2, <1>4, RemovedConnection
  <1>7. TypeOK'
    <2>1. events' \in Seq(EventSet)
      BY <1>1, ServedFacts
    <2>2. deleted_fds' \subseteq Fds \cup {-1}
      BY <1>1, <1>2, <1>4, ConnectionsFacts DEF TypeOK
    <2>3. /\ peer_of' \in [Fds -> Peers \cup {NoPeer}]
          /\ state' \in [Peers -> States]
      BY <1>1, <1>2 DEF TypeOK, States
    <2>4. in' \in [Peers -> Seq(Chunks)]
      BY <1>1, <1>2, EmptySeq DEF TypeOK
    <2>5. out' \in [Peers -> Seq(Chunks)]
      <3>1. ASSUME NEW p \in Peers
            PROVE  (IF p \in closed THEN kept[p] ELSE out[p]) \in Seq(Chunks)
        <4>1. out[p] \in Seq(Chunks)
          BY <1>1 DEF TypeOK
        <4>2. p \in closed => kept[p] \in Seq(Chunks)
          BY <1>3, <4>1, CutsType
        <4>3. QED
          BY <4>1, <4>2
      <3>2. QED
        BY <1>3, <3>1
    <2>6. QED
      BY <1>1, <1>5, <2>1, <2>2, <2>3, <2>4, <2>5 DEF TypeOK, EventSet, peerVars
  <1>8. ASSUME NEW n \in DOMAIN connections'
        PROVE  /\ old[n] \in DOMAIN connections /\ old[n] # k
               /\ connections'[n] = connections[old[n]]
               /\ connections[old[n]].worker_fd # -1 =>
                    /\ connections[old[n]].worker_fd \in Fds
                    /\ peer_of'[connections[old[n]].worker_fd]
                         = peer_of[connections[old[n]].worker_fd]
               /\ connections[old[n]].controller_fd # -1 =>
                    /\ connections[old[n]].controller_fd \in Fds
                    /\ peer_of'[connections[old[n]].controller_fd]
                         = peer_of[connections[old[n]].controller_fd]
    <2>1. old[n] \in DOMAIN connections /\ old[n] # k /\ connections'[n] = connections[old[n]]
      BY <1>6
    <2>2. \A fd \in Sides(old[n]) : fd # -1 => fd \in Fds /\ fd \notin Sides(k)
      BY <1>1, <1>4, <2>1, SidesApart, ConnectionsFacts
    <2>3. \A fd \in Sides(old[n]) : fd # -1 => fd \in Fds /\ peer_of'[fd] = peer_of[fd]
      BY <1>2, <2>2
    <2>4. QED
      BY <2>1, <2>3 DEF Sides
  <1>9. SidesRight'
    BY <1>1, <1>8 DEF SidesInv, DescriptorsMatch, SidesRight, HasWorker, HasController
  <1>10. SidesDiffer'
    BY <1>1, <1>6 DEF SidesInv, SidesDiffer, HasWorker, HasController
  <1>11. OpenIsSide'
    <2> SUFFICES ASSUME NEW fd \in Fds, peer_of'[fd] # NoPeer
                 PROVE  \E n \in DOMAIN connections' :
                          fd \in {connections'[n].worker_fd, connections'[n].controller_fd}
      BY DEF OpenIsSide, Sides
    <2>1. fd \notin fds /\ peer_of[fd] # NoPeer /\ fd # -1
      BY <1>2, FdFacts
    <2>2. PICK j \in DOMAIN connections : fd \in Sides(j)
      BY <1>1, <2>1 DEF SidesInv, OpenIsSide
    <2>3. j # k
      BY <2>1, <2>2
    <2>4. PICK n \in DOMAIN connections' : old[n] = j
      BY <1>6, <2>3
    <2>5. QED
      BY <1>6, <2>2, <2>4 DEF Sides
  <1>12. SidesInv'
    BY <1>7, <1>9, <1>10, <1>11, OneConnection, PTL
  <1>13. BlankLast' /\ NobodyWaitsInVain'
    <2>1. BlankLast'
      BY <1>1, <1>6 DEF ProxyInv, BlankLast, HasWorker, HasController
    <2>2. NobodyWaitsInVain'
      BY <1>1, <1>6 DEF ProxyInv, NobodyWaitsInVain, HasWorker, HasController
    <2>3. QED
      BY <2>1, <2>2
  <1>14. EventsKnown' /\ EventsOnce' /\ ServersFirst'
    <2>1. \A fd \in Fds : peer_of[fd] # NoPeer => peer_of'[fd] # NoPeer \/ fd \in deleted_fds'
      BY <1>2
    <2>2. deleted_fds \subseteq deleted_fds'
      BY <1>2
    <2>3. QED
      BY <1>1, <2>1, <2>2, ServedEventsKept
  <1>15. SomethingToSend'
    <2>1. \A n \in DOMAIN events' : n + 1 \in DOMAIN events /\ events'[n] = events[n+1]
      BY <1>1, ServedFacts
    <2>2. QED
      BY <1>1, <1>2, <1>6, <2>1 DEF EventsInv, SomethingToSend
  <1>16. NoProgrammerError' /\ DeletedStayClosed'
    <2>1. DeletedStayClosed'
      <3> SUFFICES ASSUME NEW fd \in deleted_fds', fd # -1
                   PROVE  peer_of'[fd] = NoPeer
        BY DEF DeletedStayClosed
      <3>1. fd \in Fds
        BY <1>7 DEF TypeOK
      <3>2. fd \in deleted_fds => peer_of[fd] = NoPeer
        BY <1>1 DEF ProxyInv, DeletedStayClosed
      <3>3. QED
        BY <1>2, <3>1, <3>2
    <2>2. QED
      BY <1>1, <2>1 DEF ProxyInv, NoProgrammerError
  <1>17. QED
    BY <1>7, <1>12, <1>13, <1>14, <1>15, <1>16 DEF IndInv, ProxyInv, EventsInv

-----------------------------------------------------------------------------
(* accept()                                                                *)

\* The descriptor becomes the worker's, or the controller's, side of the
\* first connection that lacks it, or of a new one at the end.
Placed(k) ==
  /\ connections' \in Seq(Connections)
  /\ DOMAIN connections' = DOMAIN connections \cup {k}
  /\ \A j \in DOMAIN connections : j # k => connections'[j] = connections[j]
  /\ k \in DOMAIN connections => /\ connections'[k].w2c = connections[k].w2c
                                 /\ connections'[k].c2w = connections[k].c2w
  /\ k \notin DOMAIN connections => /\ \A j \in DOMAIN connections : j < k
                                    /\ connections'[k].w2c = <<>> /\ connections'[k].c2w = <<>>

WorkerPlaced(k, fd) ==
  /\ Placed(k)
  /\ connections'[k].worker_fd = fd
  /\ connections'[k].controller_fd =
       IF k \in DOMAIN connections THEN connections[k].controller_fd ELSE -1
  /\ k \in DOMAIN connections => ~HasWorker(k)
  /\ \A j \in DOMAIN connections : ~HasWorker(j) => k <= j

ControllerPlaced(k, fd) ==
  /\ Placed(k)
  /\ connections'[k].controller_fd = fd
  /\ connections'[k].worker_fd =
       IF k \in DOMAIN connections THEN connections[k].worker_fd ELSE -1
  /\ k \in DOMAIN connections => ~HasController(k)
  /\ \A j \in DOMAIN connections : ~HasController(j) => k <= j

LEMMA AppendedConnection ==
  ASSUME TypeOK, NEW c \in Connections, connections' = Append(connections, c)
  PROVE  /\ connections' \in Seq(Connections)
         /\ Len(connections) + 1 \notin DOMAIN connections
         /\ DOMAIN connections' = DOMAIN connections \cup {Len(connections) + 1}
         /\ \A j \in DOMAIN connections :
              connections'[j] = connections[j] /\ j < Len(connections) + 1
         /\ connections'[Len(connections) + 1] = c
  <1>1. /\ connections \in Seq(Connections) /\ Len(connections) \in Nat
        /\ DOMAIN connections = 1..Len(connections)
    BY ConnectionsFacts DEF TypeOK
  <1>2. /\ connections' \in Seq(Connections)
        /\ Len(connections') = Len(connections) + 1
        /\ \A i \in 1..Len(connections) : connections'[i] = connections[i]
        /\ connections'[Len(connections) + 1] = c
    BY <1>1, AppendProperties
  <1>3. DOMAIN connections' = 1..Len(connections)+1
    BY <1>2, LenProperties
  <1>4. QED
    BY <1>1, <1>2, <1>3

LEMMA AddWorkerPlaces ==
  ASSUME TypeOK, NEW fd \in Fds \cup {-1}, AddWorker(fd)
  PROVE  \E k \in Nat : WorkerPlaced(k, fd)
  <1> DEFINE k == find(-1, -2)
  <1>1. /\ connections \in Seq(Connections) /\ Len(connections) \in Nat
        /\ DOMAIN connections = 1..Len(connections)
        /\ \A j \in DOMAIN connections : connections[j].controller_fd # -2
    <2>1. connections \in Seq(Connections)
      BY DEF TypeOK
    <2>2. QED
      BY <2>1, ConnectionsFacts, FdFacts
  <1>2. \/ k = 0 /\ \A j \in DOMAIN connections : HasWorker(j)
        \/ /\ k \in DOMAIN connections /\ k # 0 /\ ~HasWorker(k)
           /\ \A j \in DOMAIN connections : ~HasWorker(j) => k <= j
    <2>1. \/ k = 0 /\ \A j \in DOMAIN connections : ~(connections[j].worker_fd = -1 \/ connections[j].controller_fd = -2)
          \/ /\ k \in DOMAIN connections /\ k # 0
             /\ connections[k].worker_fd = -1 \/ connections[k].controller_fd = -2
             /\ \A j \in DOMAIN connections :
                  connections[j].worker_fd = -1 \/ connections[j].controller_fd = -2 => k <= j
      BY FindProperties
    <2>2. QED
      BY <1>1, <2>1 DEF HasWorker
  <1>3. connections' = IF k # 0 THEN [connections EXCEPT ![k].worker_fd = fd]
                       ELSE Append(connections, [Connection EXCEPT !.worker_fd = fd])
    BY DEF AddWorker
  <1> HIDE DEF k
  <1>4. CASE k # 0
    <2>1. k \in DOMAIN connections /\ ~HasWorker(k) /\ connections[k] \in Connections
      BY <1>2, <1>4, ConnectionsFacts
    <2>2. [connections[k] EXCEPT !.worker_fd = fd] \in Connections
      BY <2>1 DEF Connections
    <2>3. connections' = [connections EXCEPT ![k] = [connections[k] EXCEPT !.worker_fd = fd]]
      BY <1>3, <1>4
    <2>4. Placed(k)
      BY <1>1, <2>1, <2>2, <2>3 DEF Placed, Connections
    <2>5. connections'[k].worker_fd = fd /\ connections'[k].controller_fd = connections[k].controller_fd
      BY <1>1, <2>1, <2>3 DEF Connections
    <2>6. WorkerPlaced(k, fd)
      BY <1>2, <1>4, <2>1, <2>4, <2>5 DEF WorkerPlaced
    <2>7. QED
      BY <1>1, <2>1, <2>6
  <1>5. CASE k = 0
    <2> DEFINE c == [Connection EXCEPT !.worker_fd = fd]
               last == Len(connections) + 1
    <2>1. /\ c \in Connections /\ c.worker_fd = fd /\ c.controller_fd = -1
          /\ c.w2c = <<>> /\ c.c2w = <<>>
      BY EmptySeq DEF Connection, Connections
    <2>2. connections' = Append(connections, c)
      BY <1>3, <1>5
    <2> HIDE DEF c
    <2>3. /\ connections' \in Seq(Connections)
          /\ last \notin DOMAIN connections
          /\ DOMAIN connections' = DOMAIN connections \cup {last}
          /\ \A j \in DOMAIN connections : connections'[j] = connections[j] /\ j < last
          /\ connections'[last] = c
      BY <2>1, <2>2, AppendedConnection
    <2>4. last \in Nat
      BY <1>1
    <2> HIDE DEF last
    <2>5. WorkerPlaced(last, fd)
      BY <1>2, <1>5, <2>1, <2>3 DEF WorkerPlaced, Placed
    <2>6. QED
      BY <2>4, <2>5
  <1>6. QED
    BY <1>4, <1>5

LEMMA AddControllerPlaces ==
  ASSUME TypeOK, NEW fd \in Fds \cup {-1}, AddController(fd)
  PROVE  \E k \in Nat : ControllerPlaced(k, fd)
  <1> DEFINE k == find(-2, -1)
  <1>1. /\ connections \in Seq(Connections) /\ Len(connections) \in Nat
        /\ DOMAIN connections = 1..Len(connections)
        /\ \A j \in DOMAIN connections : connections[j].worker_fd # -2
    <2>1. connections \in Seq(Connections)
      BY DEF TypeOK
    <2>2. QED
      BY <2>1, ConnectionsFacts, FdFacts
  <1>2. \/ k = 0 /\ \A j \in DOMAIN connections : HasController(j)
        \/ /\ k \in DOMAIN connections /\ k # 0 /\ ~HasController(k)
           /\ \A j \in DOMAIN connections : ~HasController(j) => k <= j
    <2>1. \/ k = 0 /\ \A j \in DOMAIN connections : ~(connections[j].worker_fd = -2 \/ connections[j].controller_fd = -1)
          \/ /\ k \in DOMAIN connections /\ k # 0
             /\ connections[k].worker_fd = -2 \/ connections[k].controller_fd = -1
             /\ \A j \in DOMAIN connections :
                  connections[j].worker_fd = -2 \/ connections[j].controller_fd = -1 => k <= j
      BY FindProperties
    <2>2. QED
      BY <1>1, <2>1 DEF HasController
  <1>3. connections' = IF k # 0 THEN [connections EXCEPT ![k].controller_fd = fd]
                       ELSE Append(connections, [Connection EXCEPT !.controller_fd = fd])
    BY DEF AddController
  <1> HIDE DEF k
  <1>4. CASE k # 0
    <2>1. k \in DOMAIN connections /\ ~HasController(k) /\ connections[k] \in Connections
      BY <1>2, <1>4, ConnectionsFacts
    <2>2. [connections[k] EXCEPT !.controller_fd = fd] \in Connections
      BY <2>1 DEF Connections
    <2>3. connections' = [connections EXCEPT ![k] = [connections[k] EXCEPT !.controller_fd = fd]]
      BY <1>3, <1>4
    <2>4. Placed(k)
      BY <1>1, <2>1, <2>2, <2>3 DEF Placed, Connections
    <2>5. connections'[k].controller_fd = fd /\ connections'[k].worker_fd = connections[k].worker_fd
      BY <1>1, <2>1, <2>3 DEF Connections
    <2>6. ControllerPlaced(k, fd)
      BY <1>2, <1>4, <2>1, <2>4, <2>5 DEF ControllerPlaced
    <2>7. QED
      BY <1>1, <2>1, <2>6
  <1>5. CASE k = 0
    <2> DEFINE c == [Connection EXCEPT !.controller_fd = fd]
               last == Len(connections) + 1
    <2>1. /\ c \in Connections /\ c.controller_fd = fd /\ c.worker_fd = -1
          /\ c.w2c = <<>> /\ c.c2w = <<>>
      BY EmptySeq DEF Connection, Connections
    <2>2. connections' = Append(connections, c)
      BY <1>3, <1>5
    <2> HIDE DEF c
    <2>3. /\ connections' \in Seq(Connections)
          /\ last \notin DOMAIN connections
          /\ DOMAIN connections' = DOMAIN connections \cup {last}
          /\ \A j \in DOMAIN connections : connections'[j] = connections[j] /\ j < last
          /\ connections'[last] = c
      BY <2>1, <2>2, AppendedConnection
    <2>4. last \in Nat
      BY <1>1
    <2> HIDE DEF last
    <2>5. ControllerPlaced(last, fd)
      BY <1>2, <1>5, <2>1, <2>3 DEF ControllerPlaced, Placed
    <2>6. QED
      BY <2>4, <2>5
  <1>6. QED
    BY <1>4, <1>5

\* A free descriptor, or -1 when accept() fails, and the peer it is for.
Accepted(fd, p) ==
  \/ fd = -1 /\ peer_of' = peer_of
  \/ fd \in Fds /\ peer_of[fd] = NoPeer /\ peer_of' = [peer_of EXCEPT ![fd] = p]

LEMMA WorkerAccepted ==
  ASSUME TypeOK, TypeOK', ProxyInv, NEW fd, NEW p \in Workers, Accepted(fd, p),
         NEW k \in Nat, WorkerPlaced(k, fd)
  PROVE  SidesInv' /\ BlankLast' /\ NobodyWaitsInVain'
  <1>1. /\ DOMAIN connections' = DOMAIN connections \cup {k}
        /\ \A j \in DOMAIN connections : j # k => connections'[j] = connections[j]
        /\ k \notin DOMAIN connections => \A j \in DOMAIN connections : j < k
        /\ connections'[k].worker_fd = fd
        /\ connections'[k].controller_fd =
             IF k \in DOMAIN connections THEN connections[k].controller_fd ELSE -1
        /\ k \in DOMAIN connections => connections[k].worker_fd = -1
        /\ \A j \in DOMAIN connections : connections[j].worker_fd = -1 => k <= j
    BY DEF WorkerPlaced, Placed, HasWorker
  <1>2. /\ DOMAIN connections \subseteq Nat
        /\ \A j \in DOMAIN connections : /\ connections[j].worker_fd \in Fds \cup {-1}
                                         /\ connections[j].controller_fd \in Fds \cup {-1}
    BY ConnectionsFacts
  <1>3. /\ SidesRight /\ SidesDiffer /\ OpenIsSide
    BY DEF ProxyInv, SidesInv, DescriptorsMatch, SidesRight
  <1>4. peer_of \in [Fds -> Peers \cup {NoPeer}]
    BY DEF TypeOK
  <1>5. /\ fd # -1 => fd \in Fds /\ peer_of[fd] = NoPeer /\ peer_of'[fd] = p
        /\ \A g \in Fds : g # fd => peer_of'[g] = peer_of[g]
    BY <1>4, FdFacts DEF Accepted
  <1>6. \A j \in DOMAIN connections :
          /\ connections[j].worker_fd # -1 => connections[j].worker_fd # fd
          /\ connections[j].controller_fd # -1 => connections[j].controller_fd # fd
    BY <1>2, <1>3, <1>5, PeerFacts DEF SidesRight, HasWorker, HasController
  <1>7. SidesRight'
    <2> SUFFICES ASSUME NEW j \in DOMAIN connections'
                 PROVE  /\ connections'[j].worker_fd # -1
                             => peer_of'[connections'[j].worker_fd] \in Workers
                        /\ connections'[j].controller_fd # -1
                             => peer_of'[connections'[j].controller_fd] \in Controllers
      BY DEF SidesRight, HasWorker, HasController
    <2>1. CASE j # k
      BY <1>1, <1>2, <1>3, <1>5, <1>6, <2>1 DEF SidesRight, HasWorker, HasController
    <2>2. CASE j = k
      BY <1>1, <1>2, <1>3, <1>5, <1>6, <2>2 DEF SidesRight, HasWorker, HasController
    <2>3. QED
      BY <2>1, <2>2
  <1>8. SidesDiffer'
    BY <1>1, <1>3, <1>6 DEF SidesDiffer, HasWorker, HasController
  <1>9. OpenIsSide'
    <2> SUFFICES ASSUME NEW g \in Fds, peer_of'[g] # NoPeer
                 PROVE  \E j \in DOMAIN connections' :
                          g \in {connections'[j].worker_fd, connections'[j].controller_fd}
      BY DEF OpenIsSide, Sides
    <2>1. CASE g = fd
      BY <1>1, <2>1
    <2>2. CASE g # fd
      <3>1. PICK j \in DOMAIN connections :
              g \in {connections[j].worker_fd, connections[j].controller_fd}
        BY <1>3, <1>5, <2>2 DEF OpenIsSide, Sides
      <3>2. g # -1
        BY FdFacts
      <3>3. QED
        BY <1>1, <3>1, <3>2
    <2>3. QED
      BY <2>1, <2>2
  <1>10. SidesInv'
    BY <1>7, <1>8, <1>9, OneConnection, PTL
  <1>11. /\ \A i, j \in DOMAIN connections :
              /\ connections[i].worker_fd # -1 /\ connections[i].controller_fd = -1
                   /\ connections[j].worker_fd = -1
                   => i < j /\ connections[j].controller_fd = -1
              /\ connections[i].worker_fd = -1 /\ connections[i].controller_fd # -1
                   /\ connections[j].controller_fd = -1
                   => i < j /\ connections[j].worker_fd = -1
    BY DEF ProxyInv, BlankLast, NobodyWaitsInVain, HasWorker, HasController
  <1>12. \A i, j \in DOMAIN connections' :
           /\ connections'[i].worker_fd # -1 /\ connections'[i].controller_fd = -1
                /\ connections'[j].worker_fd = -1
                => i < j /\ connections'[j].controller_fd = -1
           /\ connections'[i].worker_fd = -1 /\ connections'[i].controller_fd # -1
                /\ connections'[j].controller_fd = -1
                => i < j /\ connections'[j].worker_fd = -1
    BY <1>1, <1>2, <1>11
  <1>13. BlankLast' /\ NobodyWaitsInVain'
    BY <1>12 DEF BlankLast, NobodyWaitsInVain, HasWorker, HasController
  <1>14. QED
    BY <1>10, <1>13

LEMMA ControllerAccepted ==
  ASSUME TypeOK, TypeOK', ProxyInv, NEW fd, NEW p \in Controllers, Accepted(fd, p),
         NEW k \in Nat, ControllerPlaced(k, fd)
  PROVE  SidesInv' /\ BlankLast' /\ NobodyWaitsInVain'
  <1>1. /\ DOMAIN connections' = DOMAIN connections \cup {k}
        /\ \A j \in DOMAIN connections : j # k => connections'[j] = connections[j]
        /\ k \notin DOMAIN connections => \A j \in DOMAIN connections : j < k
        /\ connections'[k].controller_fd = fd
        /\ connections'[k].worker_fd =
             IF k \in DOMAIN connections THEN connections[k].worker_fd ELSE -1
        /\ k \in DOMAIN connections => connections[k].controller_fd = -1
        /\ \A j \in DOMAIN connections : connections[j].controller_fd = -1 => k <= j
    BY DEF ControllerPlaced, Placed, HasController
  <1>2. /\ DOMAIN connections \subseteq Nat
        /\ \A j \in DOMAIN connections : /\ connections[j].worker_fd \in Fds \cup {-1}
                                         /\ connections[j].controller_fd \in Fds \cup {-1}
    BY ConnectionsFacts
  <1>3. /\ SidesRight /\ SidesDiffer /\ OpenIsSide
    BY DEF ProxyInv, SidesInv, DescriptorsMatch, SidesRight
  <1>4. peer_of \in [Fds -> Peers \cup {NoPeer}]
    BY DEF TypeOK
  <1>5. /\ fd # -1 => fd \in Fds /\ peer_of[fd] = NoPeer /\ peer_of'[fd] = p
        /\ \A g \in Fds : g # fd => peer_of'[g] = peer_of[g]
    BY <1>4, FdFacts DEF Accepted
  <1>6. \A j \in DOMAIN connections :
          /\ connections[j].worker_fd # -1 => connections[j].worker_fd # fd
          /\ connections[j].controller_fd # -1 => connections[j].controller_fd # fd
    BY <1>2, <1>3, <1>5, PeerFacts DEF SidesRight, HasWorker, HasController
  <1>7. SidesRight'
    <2> SUFFICES ASSUME NEW j \in DOMAIN connections'
                 PROVE  /\ connections'[j].worker_fd # -1
                             => peer_of'[connections'[j].worker_fd] \in Workers
                        /\ connections'[j].controller_fd # -1
                             => peer_of'[connections'[j].controller_fd] \in Controllers
      BY DEF SidesRight, HasWorker, HasController
    <2>1. CASE j # k
      BY <1>1, <1>2, <1>3, <1>5, <1>6, <2>1 DEF SidesRight, HasWorker, HasController
    <2>2. CASE j = k
      BY <1>1, <1>2, <1>3, <1>5, <1>6, <2>2 DEF SidesRight, HasWorker, HasController
    <2>3. QED
      BY <2>1, <2>2
  <1>8. SidesDiffer'
    BY <1>1, <1>3, <1>6 DEF SidesDiffer, HasWorker, HasController
  <1>9. OpenIsSide'
    <2> SUFFICES ASSUME NEW g \in Fds, peer_of'[g] # NoPeer
                 PROVE  \E j \in DOMAIN connections' :
                          g \in {connections'[j].worker_fd, connections'[j].controller_fd}
      BY DEF OpenIsSide, Sides
    <2>1. CASE g = fd
      BY <1>1, <2>1
    <2>2. CASE g # fd
      <3>1. PICK j \in DOMAIN connections :
              g \in {connections[j].worker_fd, connections[j].controller_fd}
        BY <1>3, <1>5, <2>2 DEF OpenIsSide, Sides
      <3>2. g # -1
        BY FdFacts
      <3>3. QED
        BY <1>1, <3>1, <3>2
    <2>3. QED
      BY <2>1, <2>2
  <1>10. SidesInv'
    BY <1>7, <1>8, <1>9, OneConnection, PTL
  <1>11. /\ \A i, j \in DOMAIN connections :
              /\ connections[i].worker_fd # -1 /\ connections[i].controller_fd = -1
                   /\ connections[j].worker_fd = -1
                   => i < j /\ connections[j].controller_fd = -1
              /\ connections[i].worker_fd = -1 /\ connections[i].controller_fd # -1
                   /\ connections[j].controller_fd = -1
                   => i < j /\ connections[j].worker_fd = -1
    BY DEF ProxyInv, BlankLast, NobodyWaitsInVain, HasWorker, HasController
  <1>12. \A i, j \in DOMAIN connections' :
           /\ connections'[i].worker_fd # -1 /\ connections'[i].controller_fd = -1
                /\ connections'[j].worker_fd = -1
                => i < j /\ connections'[j].controller_fd = -1
           /\ connections'[i].worker_fd = -1 /\ connections'[i].controller_fd # -1
                /\ connections'[j].controller_fd = -1
                => i < j /\ connections'[j].worker_fd = -1
    BY <1>1, <1>2, <1>11
  <1>13. BlankLast' /\ NobodyWaitsInVain'
    BY <1>12 DEF BlankLast, NobodyWaitsInVain, HasWorker, HasController
  <1>14. QED
    BY <1>10, <1>13

LEMMA AcceptStep ==
  ASSUME IndInv, NEW p \in Peers, Accept(p)
  PROVE  IndInv'
  <1>1. /\ TypeOK /\ ProxyInv /\ EventsInv /\ pc = "serve" /\ events # <<>> /\ Fd \in Servers
        /\ Served
        /\ UNCHANGED <<pc, deleted_fds, sent_here, out, peerVars>>
    BY DEF IndInv, ProxyInv, Accept, At
  <1>2. PICK fd \in Fds \cup {-1} : Add(fd) /\ Accepted(fd, p)
    BY DEF Accept, Accepted
  <1>3. 1 \in DOMAIN events /\ Fd = events[1][1]
    BY <1>1, EventsFacts DEF Fd
  <1>4. deleted_fds = {}
    BY <1>1, <1>3 DEF EventsInv, ServersFirst
  <1>5. /\ events' \in Seq(EventSet)
        /\ \A n \in DOMAIN events' : n + 1 \in DOMAIN events /\ events'[n] = events[n+1]
    BY <1>1, ServedFacts
  <1>6. PICK k \in Nat :
          /\ Placed(k)
          /\ \/ WorkerPlaced(k, fd) /\ p \in Workers
             \/ ControllerPlaced(k, fd) /\ p \in Controllers
    <2>1. CASE Fd = worker_server_fd
      <3>1. AddWorker(fd) /\ p \in Workers
        BY <1>2, <2>1 DEF Accept, Add, Backlog
      <3>2. QED
        BY <1>1, <3>1, AddWorkerPlaces DEF WorkerPlaced
    <2>2. CASE Fd # worker_server_fd
      <3>1. AddController(fd) /\ p \in Controllers
        BY <1>2, <2>2 DEF Accept, Add, Backlog
      <3>2. QED
        BY <1>1, <3>1, AddControllerPlaces DEF ControllerPlaced
    <2>3. QED
      BY <2>1, <2>2
  <1>7. TypeOK'
    <2>1. connections' \in Seq(Connections)
      BY <1>6 DEF Placed
    <2>2. peer_of' \in [Fds -> Peers \cup {NoPeer}]
      BY <1>1, <1>2 DEF Accepted, TypeOK
    <2>3. state' \in [Peers -> States] /\ in' \in [Peers -> Seq(Chunks)]
      <3>1. state \in [Peers -> States] /\ in \in [Peers -> Seq(Chunks)]
        BY <1>1 DEF TypeOK
      <3>2. \/ state' = state /\ in' = in
            \/ state' = [state EXCEPT ![p] = "cut"] /\ in' = [in EXCEPT ![p] = <<>>]
        BY DEF Accept
      <3>3. <<>> \in Seq(Chunks) /\ "cut" \in States
        BY EmptySeq DEF States
      <3>4. QED
        BY <3>1, <3>2, <3>3
    <2>4. QED
      BY <1>1, <1>5, <2>1, <2>2, <2>3 DEF TypeOK, EventSet, peerVars
  <1>8. SidesInv' /\ BlankLast' /\ NobodyWaitsInVain'
    BY <1>1, <1>2, <1>6, <1>7, WorkerAccepted, ControllerAccepted
  <1>9. \A g \in Fds : peer_of[g] # NoPeer => peer_of'[g] # NoPeer /\ g # fd
    <2>1. peer_of \in [Fds -> Peers \cup {NoPeer}]
      BY <1>1 DEF TypeOK
    <2>2. QED
      BY <1>2, <2>1, FdFacts DEF Accepted
  <1>10. EventsKnown' /\ EventsOnce' /\ ServersFirst'
    BY <1>1, <1>9, ServedEventsKept
  \* No event is that of the new descriptor.
  <1>11. SomethingToSend'
    <2> SUFFICES ASSUME NEW n \in DOMAIN events', NEW j \in DOMAIN connections',
                        events'[n][2] = "POLLOUT"
                 PROVE  /\ events'[n][1] = connections'[j].worker_fd => connections'[j].c2w # <<>>
                        /\ events'[n][1] = connections'[j].controller_fd => connections'[j].w2c # <<>>
      BY DEF SomethingToSend
    <2>1. n + 1 \in DOMAIN events /\ events'[n] = events[n+1]
      BY <1>5
    <2>2. CASE events[n+1][1] \in Servers
      <3>1. /\ connections'[j].worker_fd \in Fds \cup {-1}
            /\ connections'[j].controller_fd \in Fds \cup {-1}
        <4>1. connections' \in Seq(Connections)
          BY <1>7 DEF TypeOK
        <4>2. connections'[j] \in Connections
          BY <4>1, LenProperties, ElementOfSeq
        <4>3. QED
          BY <4>2 DEF Connections
      <3>2. QED
        BY <2>1, <2>2, <3>1, FdFacts
    <2>3. CASE events[n+1][1] \notin Servers
      <3>1. events[n+1][1] \in Fds /\ events[n+1][1] # -1
        BY <1>1, <2>1, <2>3, EventsFacts
      <3>2. peer_of[events[n+1][1]] # NoPeer
        BY <1>1, <1>4, <2>1, <2>3 DEF EventsInv, EventsKnown
      <3>3. events[n+1][1] # fd
        BY <1>9, <3>1, <3>2
      <3>4. ASSUME NEW i \in DOMAIN connections
            PROVE  /\ events[n+1][1] = connections[i].worker_fd => connections[i].c2w # <<>>
                   /\ events[n+1][1] = connections[i].controller_fd => connections[i].w2c # <<>>
        BY <1>1, <1>4, <2>1 DEF EventsInv, SomethingToSend
      <3>5. CASE j # k
        BY <1>6, <2>1, <3>4, <3>5 DEF Placed
      <3>6. CASE j = k
        <4>1. CASE WorkerPlaced(k, fd)
          BY <1>6, <2>1, <3>1, <3>3, <3>4, <3>6, <4>1 DEF WorkerPlaced, Placed
        <4>2. CASE ControllerPlaced(k, fd)
          BY <1>6, <2>1, <3>1, <3>3, <3>4, <3>6, <4>2 DEF ControllerPlaced, Placed
        <4>3. QED
          BY <1>6, <4>1, <4>2
      <3>7. QED
        BY <3>5, <3>6
    <2>4. QED
      BY <2>2, <2>3
  <1>12. NoProgrammerError' /\ DeletedStayClosed'
    BY <1>1, <1>4 DEF ProxyInv, NoProgrammerError, DeletedStayClosed
  <1>13. QED
    BY <1>7, <1>8, <1>10, <1>11, <1>12 DEF IndInv, ProxyInv, EventsInv

-----------------------------------------------------------------------------
(* poll()                                                                  *)

LEMMA EventProperties ==
  ASSUME NEW T, NEW fd, NEW revent, NEW occurred \in BOOLEAN,
         occurred => <<fd, revent>> \in T
  PROVE  /\ Event(fd, revent, occurred) \in Seq(T)
         /\ IsInjective(Event(fd, revent, occurred))
         /\ Range(Event(fd, revent, occurred)) \subseteq {<<fd, revent>>}
  <1>1. CASE occurred
    <2> DEFINE e == <<fd, revent>>
    <2>1. Event(fd, revent, occurred) = <<e>>
      BY <1>1 DEF Event
    <2> HIDE DEF e
    <2>2. <<e>> \in Seq({e}) /\ DOMAIN <<e>> = {1} /\ <<e>>[1] = e
      OBVIOUS
    <2>3. <<e>> \in Seq(T)
      BY <1>1 DEF e
    <2>4. QED
      BY <2>1, <2>2, <2>3 DEF IsInjective, Range, e
  <1>2. CASE ~occurred
    <2>1. Event(fd, revent, occurred) = <<>>
      BY <1>2 DEF Event
    <2>2. <<>> \in Seq(T) /\ DOMAIN <<>> = {}
      BY EmptySeq
    <2>3. QED
      BY <2>1, <2>2 DEF IsInjective, Range
  <1>3. QED
    BY <1>1, <1>2

Revents == {"POLLIN", "POLLOUT", "POLLHUP"}

\* The events of one descriptor: each once, POLLOUT with something to send,
\* POLLHUP if the connection has ended.
LEMMA AddPollfdProperties ==
  ASSUME NEW T, NEW fd, NEW buffer,
         \A e \in Revents :
           /\ fd # -1
           /\ e = "POLLOUT" => buffer # <<>>
           /\ e = "POLLHUP" => state[peer_of[fd]] \in HungUp
           => <<fd, e>> \in T
  PROVE  /\ add_pollfd(fd, buffer) \in Seq(T)
         /\ IsInjective(add_pollfd(fd, buffer))
         /\ Range(add_pollfd(fd, buffer)) \subseteq {fd} \X Revents
         /\ fd = -1 => Range(add_pollfd(fd, buffer)) = {}
  <1>1. CASE fd = -1
    <2>1. add_pollfd(fd, buffer) = <<>>
      BY <1>1 DEF add_pollfd
    <2>2. <<>> \in Seq(T) /\ DOMAIN <<>> = {}
      BY EmptySeq
    <2>3. QED
      BY <2>1, <2>2 DEF IsInjective, Range
  <1>2. CASE fd # -1
    <2> DEFINE p == peer_of[fd]
               closed == state[p] \in Closed
               readable == in[p] # <<>> \/ closed
               writable == buffer # <<>> /\ (Len(out[p]) < WireSize \/ closed)
               hung == state[p] \in HungUp
               one == Event(fd, "POLLIN", readable)
               two == Event(fd, "POLLOUT", writable)
               three == Event(fd, "POLLHUP", hung)
    <2>1. add_pollfd(fd, buffer) = (one \o two) \o three
      BY <1>2 DEF add_pollfd
    <2>2. /\ <<fd, "POLLIN">> \in T
          /\ writable => <<fd, "POLLOUT">> \in T
          /\ hung => <<fd, "POLLHUP">> \in T
      BY <1>2 DEF Revents
    <2>3. readable \in BOOLEAN /\ writable \in BOOLEAN /\ hung \in BOOLEAN
      OBVIOUS
    <2> HIDE DEF readable, writable, hung
    <2>4. one \in Seq(T) /\ IsInjective(one) /\ Range(one) \subseteq {<<fd, "POLLIN">>}
      BY <2>2, <2>3, EventProperties
    <2>5. two \in Seq(T) /\ IsInjective(two) /\ Range(two) \subseteq {<<fd, "POLLOUT">>}
      BY <2>2, <2>3, EventProperties
    <2>6. three \in Seq(T) /\ IsInjective(three) /\ Range(three) \subseteq {<<fd, "POLLHUP">>}
      BY <2>2, <2>3, EventProperties
    <2> HIDE DEF one, two, three
    <2>7. /\ one \o two \in Seq(T) /\ IsInjective(one \o two)
          /\ Range(one \o two) \subseteq {<<fd, "POLLIN">>, <<fd, "POLLOUT">>}
      <3>1. Range(one) \cap Range(two) = {}
        BY <2>4, <2>5
      <3>2. one \o two \in Seq(T)
        BY <2>4, <2>5, ConcatProperties
      <3>3. IsInjective(one \o two) /\ Range(one \o two) \subseteq Range(one) \cup Range(two)
        BY <2>4, <2>5, <3>1, ConcatInjective
      <3>4. QED
        BY <2>4, <2>5, <3>2, <3>3
    <2> DEFINE both == one \o two
    <2> HIDE DEF both
    <2>8. /\ both \in Seq(T) /\ IsInjective(both)
          /\ Range(both) \subseteq {<<fd, "POLLIN">>, <<fd, "POLLOUT">>}
      BY <2>7 DEF both
    <2>9. /\ both \o three \in Seq(T) /\ IsInjective(both \o three)
          /\ Range(both \o three) \subseteq {fd} \X Revents
      <3>1. Range(both) \cap Range(three) = {}
        BY <2>6, <2>8
      <3>2. both \o three \in Seq(T)
        BY <2>6, <2>8, ConcatProperties
      <3>3. IsInjective(both \o three) /\ Range(both \o three) \subseteq Range(both) \cup Range(three)
        BY <2>6, <2>8, <3>1, ConcatInjective
      <3>4. QED
        BY <2>6, <2>8, <3>2, <3>3 DEF Revents
    <2>10. QED
      BY <1>2, <2>1, <2>9 DEF both
  <1>3. QED
    BY <1>1, <1>2

\* What poll() may report of the connections.
Wanted ==
  {e \in Fds \X Revents :
     /\ peer_of[e[1]] # NoPeer
     /\ e[2] = "POLLHUP" => state[peer_of[e[1]]] \in HungUp
     /\ e[2] = "POLLOUT" => \A k \in DOMAIN connections :
          /\ e[1] = connections[k].worker_fd => connections[k].c2w # <<>>
          /\ e[1] = connections[k].controller_fd => connections[k].w2c # <<>>}

LEMMA AddPollfdsProperties ==
  ASSUME TypeOK, SidesInv, NEW k \in DOMAIN connections
  PROVE  /\ add_pollfds(connections[k]) \in Seq(Wanted)
         /\ IsInjective(add_pollfds(connections[k]))
         /\ Range(add_pollfds(connections[k])) \subseteq (Sides(k) \ {-1}) \X Revents
  <1> DEFINE worker == connections[k].worker_fd
             controller == connections[k].controller_fd
             c2w == connections[k].c2w
             w2c == connections[k].w2c
  <1>1. /\ worker \in Fds \cup {-1} /\ controller \in Fds \cup {-1}
        /\ worker # -1 => peer_of[worker] # NoPeer
        /\ controller # -1 => peer_of[controller] # NoPeer
        /\ worker = controller => worker = -1
    BY ConnectionsFacts, PeerFacts
    DEF SidesInv, DescriptorsMatch, HasWorker, HasController
  <1>2. ASSUME NEW j \in DOMAIN connections
        PROVE  /\ worker # -1 /\ worker = connections[j].worker_fd => j = k
               /\ worker # -1 => worker # connections[j].controller_fd
               /\ controller # -1 /\ controller = connections[j].controller_fd => j = k
               /\ controller # -1 => controller # connections[j].worker_fd
    BY PeerFacts
    DEF SidesInv, DescriptorsMatch, SidesDiffer, HasWorker, HasController
  <1>3. \A e \in Revents :
          /\ worker # -1
          /\ e = "POLLOUT" => c2w # <<>>
          /\ e = "POLLHUP" => state[peer_of[worker]] \in HungUp
          => <<worker, e>> \in Wanted
    BY <1>1, <1>2 DEF Wanted
  <1>4. \A e \in Revents :
          /\ controller # -1
          /\ e = "POLLOUT" => w2c # <<>>
          /\ e = "POLLHUP" => state[peer_of[controller]] \in HungUp
          => <<controller, e>> \in Wanted
    BY <1>1, <1>2 DEF Wanted
  <1> DEFINE one == add_pollfd(worker, c2w)
             two == add_pollfd(controller, w2c)
  <1>5. add_pollfds(connections[k]) = one \o two
    BY DEF add_pollfds
  <1>6. Sides(k) = {worker, controller}
    BY DEF Sides
  <1> HIDE DEF worker, controller, c2w, w2c
  <1>7. /\ one \in Seq(Wanted) /\ IsInjective(one) /\ Range(one) \subseteq {worker} \X Revents
        /\ worker = -1 => Range(one) = {}
    BY <1>3, AddPollfdProperties
  <1>8. /\ two \in Seq(Wanted) /\ IsInjective(two) /\ Range(two) \subseteq {controller} \X Revents
        /\ controller = -1 => Range(two) = {}
    BY <1>4, AddPollfdProperties
  <1> HIDE DEF one, two
  <1>9. Range(one) \cap Range(two) = {}
    BY <1>1, <1>7, <1>8
  <1>10. one \o two \in Seq(Wanted)
    BY <1>7, <1>8, ConcatProperties
  <1>11. IsInjective(one \o two) /\ Range(one \o two) \subseteq Range(one) \cup Range(two)
    BY <1>7, <1>8, <1>9, ConcatInjective
  <1>12. Range(one \o two) \subseteq (Sides(k) \ {-1}) \X Revents
    BY <1>6, <1>7, <1>8, <1>11
  <1>13. QED
    BY <1>5, <1>10, <1>11, <1>12

\* The listening sockets come first, nothing is reported twice, and what is
\* reported of the connections can be served.
LEMMA ReportedProperties ==
  ASSUME TypeOK, SidesInv
  PROVE  \E servers \in Seq(Servers \X Revents), rest \in Seq(Wanted) :
           /\ Reported = servers \o rest
           /\ IsInjective(servers) /\ IsInjective(rest)
  <1> DEFINE one == Listening(worker_server_fd, Workers)
             two == Listening(controller_server_fd, Controllers)
             seqs == [k \in DOMAIN connections |-> add_pollfds(connections[k])]
  <1>1. Reported = (one \o two) \o FlattenSeq(seqs)
    BY DEF Reported
  <1>2. /\ one \in Seq(Servers \X Revents) /\ IsInjective(one)
        /\ Range(one) \subseteq {<<worker_server_fd, "POLLIN">>}
    <2>1. (Backlog(Workers) # {}) \in BOOLEAN /\ <<worker_server_fd, "POLLIN">> \in Servers \X Revents
      BY DEF Servers, Revents
    <2>2. QED
      BY <2>1, EventProperties DEF Listening
  <1>3. /\ two \in Seq(Servers \X Revents) /\ IsInjective(two)
        /\ Range(two) \subseteq {<<controller_server_fd, "POLLIN">>}
    <2>1. (Backlog(Controllers) # {}) \in BOOLEAN /\ <<controller_server_fd, "POLLIN">> \in Servers \X Revents
      BY DEF Servers, Revents
    <2>2. QED
      BY <2>1, EventProperties DEF Listening
  <1> HIDE DEF one, two
  <1>4. one \o two \in Seq(Servers \X Revents) /\ IsInjective(one \o two)
    <2>1. Range(one) \cap Range(two) = {}
      BY <1>2, <1>3 DEF worker_server_fd, controller_server_fd
    <2>2. one \o two \in Seq(Servers \X Revents)
      BY <1>2, <1>3, ConcatProperties
    <2>3. QED
      BY <1>2, <1>3, <2>1, <2>2, ConcatInjective
  <1>5. /\ Len(connections) \in Nat /\ DOMAIN connections = 1..Len(connections)
    BY ConnectionsFacts
  <1>6. /\ seqs \in Seq(Seq(Wanted)) /\ Len(seqs) = Len(connections)
        /\ \A k \in 1..Len(connections) : seqs[k] = add_pollfds(connections[k])
    <2>1. seqs \in [1..Len(connections) -> Seq(Wanted)]
      BY <1>5, AddPollfdsProperties
    <2>2. seqs \in Seq(Seq(Wanted)) /\ Len(seqs) = Len(connections)
      BY <1>5, <2>1
    <2>3. QED
      BY <1>5, <2>2
  <1> HIDE DEF seqs
  <1>7. \A i \in 1..Len(seqs) : IsInjective(seqs[i])
    BY <1>5, <1>6, AddPollfdsProperties
  <1>8. ASSUME NEW i \in 1..Len(seqs), NEW j \in 1..Len(seqs), i # j
        PROVE  Range(seqs[i]) \cap Range(seqs[j]) = {}
    <2>1. /\ Range(seqs[i]) \subseteq (Sides(i) \ {-1}) \X Revents
          /\ Range(seqs[j]) \subseteq (Sides(j) \ {-1}) \X Revents
      BY <1>5, <1>6, AddPollfdsProperties
    <2>2. \A fd \in Sides(j) : fd # -1 => fd \notin Sides(i)
      BY <1>5, <1>6, <1>8, SidesApart
    <2>3. QED
      BY <2>1, <2>2
  <1>9. FlattenSeq(seqs) \in Seq(Wanted) /\ IsInjective(FlattenSeq(seqs))
    BY <1>6, <1>7, <1>8, FlattenSeqType, FlattenSeqInjective
  <1>10. QED
    BY <1>1, <1>4, <1>9

LEMMA PollStep ==
  ASSUME IndInv, Poll
  PROVE  IndInv'
  <1>1. /\ TypeOK /\ ProxyInv /\ SidesInv
        /\ events' = Reported /\ deleted_fds' = {} /\ pc' = "serve"
        /\ UNCHANGED <<connections, sent_here, kernelVars, peerVars>>
    BY DEF IndInv, ProxyInv, Poll
  <1>2. PICK servers \in Seq(Servers \X Revents), rest \in Seq(Wanted) :
          /\ events' = servers \o rest
          /\ IsInjective(servers) /\ IsInjective(rest)
    BY <1>1, ReportedProperties
  <1>3. /\ Servers \X Revents \subseteq EventSet /\ Wanted \subseteq EventSet
        /\ (Servers \X Revents) \cap Wanted = {}
    BY FdFacts DEF EventSet, Wanted, Revents
  <1>4. /\ servers \in Seq(EventSet) /\ rest \in Seq(EventSet)
        /\ Len(servers) \in Nat /\ Len(rest) \in Nat
        /\ DOMAIN servers = 1..Len(servers) /\ DOMAIN rest = 1..Len(rest)
    BY <1>2, <1>3, SeqMonotonic, LenProperties
  <1>5. /\ events' \in Seq(EventSet)
        /\ DOMAIN events' = 1 .. Len(servers) + Len(rest)
        /\ \A i \in 1 .. Len(servers) + Len(rest) :
             events'[i] = IF i <= Len(servers) THEN servers[i] ELSE rest[i - Len(servers)]
    <2>1. /\ servers \o rest \in Seq(EventSet)
          /\ Len(servers \o rest) = Len(servers) + Len(rest)
          /\ \A i \in 1 .. Len(servers) + Len(rest) : (servers \o rest)[i] =
               IF i <= Len(servers) THEN servers[i] ELSE rest[i - Len(servers)]
      BY <1>4, ConcatProperties
    <2>2. DOMAIN (servers \o rest) = 1..Len(servers \o rest)
      BY <2>1, LenProperties
    <2>3. QED
      BY <1>2, <2>1, <2>2
  <1>6. ASSUME NEW n \in DOMAIN events'
        PROVE  /\ n \in Nat
               /\ n <= Len(servers) => events'[n] \in Servers \X Revents
               /\ ~(n <= Len(servers)) => events'[n] \in Wanted
    <2>1. CASE n <= Len(servers)
      <3>1. n \in DOMAIN servers /\ events'[n] = servers[n]
        BY <1>4, <1>5, <2>1
      <3>2. QED
        BY <1>2, <1>4, <1>5, <2>1, <3>1, ElementOfSeq
    <2>2. CASE ~(n <= Len(servers))
      <3>1. n - Len(servers) \in 1..Len(rest) /\ events'[n] = rest[n - Len(servers)]
        BY <1>4, <1>5, <2>2
      <3>2. QED
        BY <1>2, <1>4, <1>5, <2>2, <3>1, ElementOfSeq
    <2>3. QED
      BY <2>1, <2>2
  <1>7. TypeOK'
    BY <1>1, <1>5 DEF TypeOK, EventSet, kernelVars, peerVars
  <1>8. SidesInv' /\ BlankLast' /\ NobodyWaitsInVain'
    BY <1>1, <1>7, SidesKept DEF kernelVars
  <1>9. EventsKnown'
    BY <1>1, <1>6 DEF EventsKnown, Wanted, kernelVars
  <1>10. EventsOnce'
    <2>1. IsInjective(events')
      <3>1. Range(servers) \cap Range(rest) = {}
        <4>1. Range(servers) \subseteq Servers \X Revents /\ Range(rest) \subseteq Wanted
          BY <1>2, <1>4, ElementOfSeq DEF Range
        <4>2. QED
          BY <1>3, <4>1
      <3>2. QED
        BY <1>2, <1>4, <3>1, ConcatInjective
    <2>2. QED
      BY <2>1 DEF EventsOnce, IsInjective
  <1>11. ServersFirst'
    <2> SUFFICES ASSUME NEW n \in DOMAIN events', events'[n][1] \in Servers
                 PROVE  \A m \in 1..n : events'[m][1] \in Servers
      BY <1>1 DEF ServersFirst
    <2>1. n <= Len(servers)
      BY <1>6, FdFacts DEF Wanted
    <2>2. ASSUME NEW m \in 1..n
          PROVE  events'[m][1] \in Servers
      <3>1. m \in DOMAIN events' /\ m <= Len(servers)
        BY <1>4, <1>5, <2>1
      <3>2. QED
        BY <1>6, <3>1
    <2>3. QED
      BY <2>2
  <1>12. SomethingToSend'
    <2> SUFFICES ASSUME NEW n \in DOMAIN events', NEW k \in DOMAIN connections,
                        events'[n][2] = "POLLOUT"
                 PROVE  /\ events'[n][1] = connections[k].worker_fd => connections[k].c2w # <<>>
                        /\ events'[n][1] = connections[k].controller_fd => connections[k].w2c # <<>>
      BY <1>1 DEF SomethingToSend
    <2>1. CASE n <= Len(servers)
      BY <1>1, <1>6, <2>1, ConnectionsFacts, FdFacts
    <2>2. CASE ~(n <= Len(servers))
      BY <1>6, <2>2 DEF Wanted
    <2>3. QED
      BY <2>1, <2>2
  <1>13. NoProgrammerError' /\ DeletedStayClosed'
    BY <1>1 DEF NoProgrammerError, DeletedStayClosed
  <1>14. QED
    BY <1>7, <1>8, <1>9, <1>10, <1>11, <1>12, <1>13 DEF IndInv, ProxyInv, EventsInv

-----------------------------------------------------------------------------
(* The theorems.                                                           *)

LEMMA SendEndsStep ==
  ASSUME IndInv, SendEnds
  PROVE  IndInv'
  <1>1. /\ TypeOK /\ ProxyInv /\ pc = "serve" /\ events # <<>> /\ ~Skipped /\ Fd \notin Servers
    BY DEF IndInv, SendEnds, ToServe, At
  <1>2. Index # 0
    BY <1>1, ServeFacts
  <1>3. CASE Stop("failed")
    BY <1>3, StopStep
  <1>4. CASE /\ sent_here' = 0 /\ Served
             /\ UNCHANGED <<pc, connections, deleted_fds, kernelVars, peerVars>>
    <2>1. TypeOK'
      <3>1. events' \in Seq(EventSet)
        BY <1>1, <1>4, ServedFacts
      <3>2. QED
        BY <1>1, <1>4, <3>1 DEF TypeOK, EventSet, kernelVars, peerVars
    <2>2. SidesInv' /\ BlankLast' /\ NobodyWaitsInVain'
      BY <1>1, <1>4, <2>1, SidesKept DEF kernelVars
    <2>3. EventsKnown' /\ EventsOnce' /\ ServersFirst'
      BY <1>1, <1>4, ServedEventsKept DEF kernelVars, ProxyInv
    <2>4. SomethingToSend'
      BY <1>1, <1>4, ServedFacts DEF ProxyInv, EventsInv, SomethingToSend
    <2>5. NoProgrammerError' /\ DeletedStayClosed'
      BY <1>1, <1>4 DEF ProxyInv, NoProgrammerError, DeletedStayClosed, kernelVars
    <2>6. QED
      BY <2>1, <2>2, <2>3, <2>4, <2>5 DEF IndInv, ProxyInv, EventsInv
  <1>5. QED
    BY <1>2, <1>3, <1>4 DEF SendEnds

LEMMA NextIndInv == IndInv /\ [Next]_vars => IndInv'
  <1> SUFFICES ASSUME IndInv, [Next]_vars PROVE IndInv'
    OBVIOUS
  <1>1. CASE Poll
    BY <1>1, PollStep
  <1>2. CASE Skip
    BY <1>2, SkipStep
  <1>3. CASE EndOfTurn
    BY <1>3, EndOfTurnStep
  <1>4. ASSUME NEW p \in Peers, Accept(p) PROVE IndInv'
    BY <1>4, AcceptStep
  <1>5. CASE Receive
    BY <1>5, ReceiveStep
  <1>6. CASE ReceiveEnd
    BY <1>6, CloseStep DEF ReceiveEnd, ToServe, At
  <1>7. CASE ReceiveFails
    BY <1>7, StopStep DEF ReceiveFails
  <1>8. CASE Send
    BY <1>8, SendStep
  <1>9. CASE SendEnds
    BY <1>9, SendEndsStep
  <1>10. CASE Hangup
    <2>1. /\ TypeOK /\ ProxyInv /\ pc = "serve" /\ events # <<>> /\ ~Skipped /\ Fd \notin Servers
      BY <1>10 DEF IndInv, Hangup, ToServe, At
    <2>2. Index # 0
      BY <2>1, ServeFacts
    <2>3. close_connection(Index) /\ Served /\ UNCHANGED <<pc, sent_here, peerVars>>
      BY <1>10, <2>2 DEF Hangup
    <2>4. QED
      BY <2>1, <2>3, CloseStep
  <1>11. CASE PollFails
    BY <1>11, StopStep DEF PollFails
  <1>12. ASSUME NEW p \in Peers,
                \/ Connects(p) \/ Writes(p) \/ Reads(p)
                \/ Closes(p) \/ ResetArrives(p) \/ NetworkLost(p)
         PROVE  IndInv'
    BY <1>12, PeerStep
  <1>13. CASE UNCHANGED vars
    <2>1. TypeOK'
      BY <1>13 DEF IndInv, TypeOK, vars, proxyVars, kernelVars, peerVars
    <2>2. pc' # "fatal"
      BY <1>13 DEF IndInv, ProxyInv, NoProgrammerError, vars
    <2>3. ProxyInv'
      BY <1>13, <2>2, ConnectionsKept DEF IndInv, vars, proxyVars, kernelVars
    <2>4. QED
      BY <2>1, <2>3 DEF IndInv
  <1>14. QED
    BY <1>1, <1>2, <1>3, <1>4, <1>5, <1>6, <1>7, <1>8, <1>9, <1>10, <1>11, <1>12, <1>13
    DEF Next, ProxyStep

\* Every variable of the proxy and of its sockets keeps its type; send() is
\* never given an empty buffer, and find() is in range.
THEOREM TypeCorrect == Spec => []TypeOK
  BY InitIndInv, NextIndInv, PTL DEF Spec, IndInv

\* The invariant from which the following theorems are read: descriptors are
\* sides, events are up to date, waiting peers come first.
THEOREM ProxyInvariant == Spec => []ProxyInv
  BY InitIndInv, NextIndInv, PTL DEF Spec, IndInv

\* The branches marked "Programmer error" are never taken.
THEOREM NeverProgrammerError == Spec => []NoProgrammerError
  BY ProxyInvariant, PTL DEF ProxyInv

\* Every open descriptor is the right side of exactly one connection, and
\* every side is open, for any number of peers and whatever fails.
THEOREM DescriptorsAlwaysMatch == Spec => []DescriptorsMatch
  BY ProxyInvariant, PTL DEF ProxyInv, SidesInv

\* A worker and a controller never both wait for the other kind.
THEOREM NobodyEverWaitsInVain == Spec => []NobodyWaitsInVain
  BY ProxyInvariant, PTL DEF ProxyInv

\* A descriptor that a turn closed is not used again in that turn.
THEOREM DeletedAlwaysStayClosed == Spec => []DeletedStayClosed
  BY ProxyInvariant, PTL DEF ProxyInv
=============================================================================
