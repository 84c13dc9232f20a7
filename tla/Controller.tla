----------------------------- MODULE Controller -----------------------------
(***************************************************************************)
(* The controller (controller.cpp): a single thread that polls one socket  *)
(* per worker and hands out frames, composed with the sockets (external)   *)
(* and with the workers at their other end (module Worker).  A connection  *)
(* is either accepted from a worker or opened by the controller to a proxy *)
(* that later puts a worker behind it.                                     *)
(*                                                                         *)
(* Between any two steps of the controller the workers and the network may *)
(* move: what poll() reported can be stale by the time it is acted on.     *)
(***************************************************************************)
EXTENDS RemoteWorker, Worker, SequencesExt

CONSTANTS
  Direct,      \* connections made by workers to the controller's socket
  Proxied,     \* descriptors left for connections to proxies (a bound)
  ProxyCount   \* how many --proxy flags there are

Conns == Direct \cup Proxied

ASSUME ConnsAssumption == Direct \cap Proxied = {}
ASSUME ProxyCountAssumption == ProxyCount \in Nat

VARIABLES
  \* The controller.
  pc,          \* where start_controller() is, or how it ended
  frames,      \* the deque of frames to hand out
  workers,     \* the vector of RemoteWorker pointers
  rw,          \* the RemoteWorker each connection's pointer refers to
  local,       \* the files the controller has saved
  pollfds,     \* the worker entries poll() filled, one per worker
  accepting,   \* whether the listening socket's entry has POLLIN
  poll_index,  \* the entry being served; 0 is the listening socket
  \* The sockets.
  conn,        \* how each connection stands, seen from the controller
  c2w,         \* the request that is on its way to the worker
  w2c,         \* the parts of a response that recv() has yet to return
  \* The workers.
  peer,        \* where start_worker() is, and its current request
  files,       \* each worker's files
  rendered     \* the frames whose program ran to a successful end somewhere

controllerVars == <<frames, workers, rw, local>>
loopVars       == <<pollfds, accepting, poll_index>>
socketVars     == <<conn, c2w, w2c>>
workerVars     == <<peer, files, rendered>>
vars == <<pc, controllerVars, loopVars, socketVars, workerVars>>

Stopped == {"returned", "failed", "assertion", "undefined"}
Running == pc \notin Stopped

\* conn[c]: "none" not connected, "backlog" waiting for accept(), "open";
\* "fin" the other end closed, "finsent" it closed and we sent since,
\* "hup" and our data was answered by a reset; "rst" it reset the
\* connection; "lost" the network gave up on it.
ConnStates == {"none", "backlog", "open", "fin", "finsent", "hup", "rst", "lost"}
HungUp == {"hup", "rst", "lost"}
Closed == {"fin", "finsent"} \cup HungUp

Pollfds == [fd : Conns, in : BOOLEAN, out : BOOLEAN, hangup : BOOLEAN]
Parts   == [part : {"header", "body"}, response : Responses \cup {NoResponse}]
Peers   == [phase : {"receive", "handle", "reply"},
            request : Requests \cup {NoRequest}, response : Responses \cup {NoResponse}]

TypeOK ==
  /\ pc \in Stopped \cup {"top", "connect", "poll", "read", "write", "hangup", "handout"}
  /\ frames \in Seq(FrameSet)
  /\ workers \in Seq(Conns)
  /\ rw \in [Conns -> RemoteWorkers]
  /\ local \in [LocalPaths -> Contents]
  /\ pollfds \in Seq(Pollfds)
  /\ accepting \in BOOLEAN
  /\ poll_index \in Nat
  /\ conn \in [Conns -> ConnStates]
  /\ c2w \in [Conns -> Requests \cup {NoRequest}]
  /\ w2c \in [Conns -> Seq(Parts)]
  /\ peer \in [Conns -> Peers]
  /\ files \in [Conns -> [RemotePaths -> Contents]]
  /\ rendered \subseteq Names

Init ==
  /\ pc = "top"
  /\ frames = AllFrames
  /\ workers = <<>>
  /\ rw = [c \in Conns |-> new_remote_worker(FALSE, -1)]
  /\ local = [p \in LocalPaths |-> NoFile]
  /\ pollfds = <<>> /\ accepting = FALSE /\ poll_index = 0
  /\ conn = [c \in Conns |-> "none"]
  /\ c2w = [c \in Conns |-> NoRequest]
  /\ w2c = [c \in Conns |-> <<>>]
  /\ peer = [c \in Conns |-> [phase |-> "receive", request |-> NoRequest,
                              response |-> NoResponse]]
  /\ files = [c \in Conns |-> [p \in RemotePaths |-> NoFile]]
  /\ rendered = {}

\* return -1, exit(...), or the signal that send() raises on a dead socket:
\* the process is gone and nothing else changes.
Stop(how) ==
  /\ pc' = how
  /\ UNCHANGED <<controllerVars, loopVars, socketVars, workerVars>>

Goto(label) == pc' = label

-----------------------------------------------------------------------------
(* The main loop of start_controller(). *)

Live == {workers[k] : k \in DOMAIN workers}

\* Mutants of any_worker_working: only programs that run count; every worker
\* counts.
any_worker_working_Executing == \E c \in Live : rw[c].m_state = "RECEIVE_EXECUTE_RESPONSE"
any_worker_working_Connected == Live # {}

any_worker_working == \E c \in Live : ~is_idle(rw[c])

\* while (!frames.empty() || any_worker_working(...))
LoopTest ==
  /\ pc = "top"
  /\ Goto(IF frames # <<>> \/ any_worker_working THEN "connect" ELSE "returned")
  /\ UNCHANGED <<controllerVars, loopVars, socketVars, workerVars>>

\* Mutant of proxy_indices: those that have a connection are not removed.
proxy_indices_All == 0..ProxyCount-1

\* The proxies to which no connection waits for a worker.
proxy_indices ==
  {p \in 0..ProxyCount-1 : \A c \in Live : rw[c].m_proxy_index # p}

\* One turn of the loop that connects to the proxies that are left.
ConnectProxy ==
  /\ pc = "connect"
  /\ proxy_indices # {}
  /\ \/ \E c \in Proxied :
          /\ conn[c] = "none"
          /\ conn' = [conn EXCEPT ![c] = "open"]
          /\ rw' = [rw EXCEPT ![c] = new_remote_worker(TRUE, Min(proxy_indices))]
          /\ workers' = Append(workers, c)
          /\ UNCHANGED <<pc, frames, local, loopVars, c2w, w2c, workerVars>>
     \/ /\ "connect" \in Faults \/ \A c \in Proxied : conn[c] # "none"
        /\ Stop("failed")

ProxiesConnected ==
  /\ pc = "connect"
  /\ proxy_indices = {}
  /\ Goto("poll")
  /\ UNCHANGED <<controllerVars, loopVars, socketVars, workerVars>>

\* What fill_pollfd() asks for and poll() answers.  A RemoteWorker always
\* wants to read; poll() ignores the entries whose descriptor is negative.
PollEntry(c) ==
  [fd |-> c,
   in |-> rw[c].m_fd_valid /\ (w2c[c] # <<>> \/ conn[c] \in Closed),
   out |-> rw[c].m_fd_valid /\ need_send(rw[c]),
   hangup |-> rw[c].m_fd_valid /\ conn[c] \in HungUp]

Poll ==
  /\ pc = "poll"
  /\ LET entries == [k \in 1..Len(workers) |-> PollEntry(workers[k])]
         listening == \E c \in Direct : conn[c] = "backlog"
     IN  /\ \/ listening
            \/ \E k \in DOMAIN entries :
                 entries[k].in \/ entries[k].out \/ entries[k].hangup
         /\ pollfds' = entries
         /\ accepting' = listening
         /\ poll_index' = Len(workers)
  /\ Goto("read")
  /\ UNCHANGED <<controllerVars, socketVars, workerVars>>

PollFails ==
  /\ pc = "poll"
  /\ "poll" \in Faults
  /\ Stop("failed")

-----------------------------------------------------------------------------
(* Serving one entry, from the last to the first: read, write, hang up.    *)
(* Every one of the three indexes the vector anew with the entry's number. *)

\* Mutants of kill_worker: the frame -1 of a pending connection is put in the
\* deque; the frame is not put back; the worker is not erased; the wrong one
\* is; a pending connection is only warned about.
kill_worker_PendingPushed(index) ==
  /\ frames' = <<rw[workers[index]].m_frame>> \o frames
  /\ workers' = RemoveAt(workers, index)
kill_worker_FrameDropped(index) ==
  /\ frames' = frames
  /\ workers' = RemoveAt(workers, index)
kill_worker_NotErased(index) ==
  /\ frames' = <<rw[workers[index]].m_frame>> \o frames
  /\ workers' = workers
kill_worker_OffByOne(index) ==
  LET frame == rw[workers[index]].m_frame
  IN  /\ frames' = IF frame = NoFrame THEN frames ELSE <<frame>> \o frames
      /\ workers' = RemoveAt(workers, IF index > 1 THEN index - 1 ELSE index)
kill_worker_PendingKept(index) ==
  LET frame == rw[workers[index]].m_frame
  IN  IF frame = NoFrame THEN UNCHANGED <<frames, workers>>
      ELSE frames' = <<frame>> \o frames /\ workers' = RemoveAt(workers, index)

\* kill_worker(remote_workers, frames, index)
kill_worker(index) ==
  LET frame == rw[workers[index]].m_frame
  IN  /\ frames' = IF frame = NoFrame THEN frames ELSE <<frame>> \o frames
      /\ workers' = RemoveAt(workers, index)

Entry == pollfds[poll_index]

\* receive() is about to be called on c.
Reading(c) ==
  /\ pc = "read"
  /\ poll_index > 0
  /\ Entry.in
  /\ c = workers[poll_index]

NothingToRead ==
  /\ pc = "read"
  /\ poll_index > 0
  /\ ~Entry.in
  /\ Goto("write")
  /\ UNCHANGED <<controllerVars, loopVars, socketVars, workerVars>>

\* IncomingBuffer::receive() completes the size.
ReceiveSize(c) ==
  /\ Reading(c)
  /\ w2c[c] # <<>>
  /\ ~rw[c].m_have_size
  /\ \/ /\ rw' = [rw EXCEPT ![c].m_have_size = TRUE]
        /\ w2c' = [w2c EXCEPT ![c] = Tail(@)]
        /\ Goto("write")
        /\ UNCHANGED <<frames, workers, local, loopVars, conn, c2w, workerVars>>
     \/ /\ "oversize" \in Faults
        /\ Stop("failed")

\* receive() completes the message and dispatch() acts on it.  A file that
\* opens is taken for saved, whether or not it is written to its end.
ReceiveMessage(c) ==
  /\ Reading(c)
  /\ w2c[c] # <<>>
  /\ rw[c].m_have_size
  /\ LET r == rw[c]
         response == Head(w2c[c]).response
         expected == response.request_type = ExpectedType(r.m_state)
         next == dispatch(r)
     IN  \/ /\ expected
            /\ response.success
            /\ rw' = [rw EXCEPT ![c] = next]
            /\ IF r.m_state = "RECEIVE_COPY_OUT_FRAME_FILE"
               THEN \E content \in Partial({response.content}) :
                      local' = [local EXCEPT ![OutName(r.m_state_index, r.m_frame)] = content]
               ELSE UNCHANGED local
            /\ w2c' = [w2c EXCEPT ![c] = Tail(@)]
            /\ Goto("write")
            /\ UNCHANGED <<frames, workers, loopVars, conn, c2w, workerVars>>
         \/ /\ ~(expected /\ response.success)
            /\ Stop(IF expected THEN "failed" ELSE "assertion")
         \/ /\ expected /\ response.success
            /\ \/ /\ "write_file" \in Faults
                  /\ r.m_state = "RECEIVE_COPY_OUT_FRAME_FILE"
               \/ /\ "read_file" \in Faults
                  /\ next.outgoing.request_type = "COPY_IN"
            /\ Stop("failed")

\* recv() returns 0.  With the size still to come this is taken for a
\* successful read of no bytes.
ReceiveEnd(c) ==
  /\ Reading(c)
  /\ w2c[c] = <<>>
  /\ conn[c] \in {"fin", "finsent", "hup"}
  /\ IF rw[c].m_have_size THEN kill_worker(poll_index) ELSE UNCHANGED <<frames, workers>>
  /\ Goto("write")
  /\ UNCHANGED <<rw, local, loopVars, socketVars, workerVars>>

\* recv() fails with ECONNRESET.
ReceiveReset(c) ==
  /\ Reading(c)
  /\ w2c[c] = <<>>
  /\ conn[c] = "rst"
  /\ kill_worker(poll_index)
  /\ Goto("write")
  /\ UNCHANGED <<rw, local, loopVars, socketVars, workerVars>>

\* recv() fails with anything else.
ReceiveError(c) ==
  /\ Reading(c)
  /\ w2c[c] = <<>>
  /\ conn[c] = "lost"
  /\ Stop("failed")

\* After a kill_worker() in the same turn the index refers to another
\* worker, or to none: then it is read past the end of the vector.
Indexed == workers[poll_index]
PastTheEnd == poll_index > Len(workers)

NothingToWrite ==
  /\ pc = "write"
  /\ ~Entry.out \/ (~PastTheEnd /\ ~need_send(rw[Indexed]))
  /\ Goto("hangup")
  /\ UNCHANGED <<controllerVars, loopVars, socketVars, workerVars>>

Sendable(c) == rw[c].m_fd_valid /\ conn[c] \notin HungUp

\* OutgoingBuffer::send() hands the request to the socket.
Send ==
  /\ pc = "write"
  /\ Entry.out
  /\ ~PastTheEnd
  /\ need_send(rw[Indexed])
  /\ Sendable(Indexed)
  /\ c2w' = [c2w EXCEPT ![Indexed] = IF conn[Indexed] = "open" THEN rw[Indexed].outgoing ELSE @]
  /\ conn' = [conn EXCEPT ![Indexed] = IF @ = "fin" THEN "finsent" ELSE @]
  /\ rw' = [rw EXCEPT ![Indexed].outgoing = NoRequest]
  /\ Goto("hangup")
  /\ UNCHANGED <<frames, workers, local, loopVars, w2c, workerVars>>

\* send() fails, although poll() found the socket writable.
SendFails ==
  /\ pc = "write"
  /\ Entry.out
  /\ PastTheEnd \/ (need_send(rw[Indexed]) /\ ~Sendable(Indexed))
  /\ Stop(IF PastTheEnd THEN "undefined" ELSE "failed")

\* POLLERR, POLLHUP or POLLNVAL: kill whatever worker has the index now.
Hangup ==
  /\ pc = "hangup"
  /\ IF Entry.hangup /\ PastTheEnd
     THEN Stop("undefined")
     ELSE /\ IF Entry.hangup THEN kill_worker(poll_index) ELSE UNCHANGED <<frames, workers>>
          /\ poll_index' = poll_index - 1
          /\ Goto("read")
          /\ UNCHANGED <<rw, local, pollfds, accepting, socketVars, workerVars>>

\* The entry of the listening socket, the last to be served.
ServedAll ==
  /\ pollfds' = <<>>
  /\ accepting' = FALSE
  /\ poll_index' = 0
  /\ Goto("handout")

NothingToAccept ==
  /\ pc = "read"
  /\ poll_index = 0
  /\ ~accepting
  /\ ServedAll
  /\ UNCHANGED <<controllerVars, socketVars, workerVars>>

\* accept().  The code tests the result of poll() in place of the one of
\* accept(), so a failure yields a RemoteWorker whose descriptor is -1.
Accept(c) ==
  /\ pc = "read"
  /\ poll_index = 0
  /\ accepting
  /\ conn[c] = "backlog"
  /\ \/ /\ conn' = [conn EXCEPT ![c] = "open"]
        /\ rw' = [rw EXCEPT ![c] = new_remote_worker(TRUE, -1)]
     \/ /\ "accept" \in Faults
        /\ conn' = [conn EXCEPT ![c] = "lost"]
        /\ rw' = [rw EXCEPT ![c] = new_remote_worker(FALSE, -1)]
  /\ workers' = Append(workers, c)
  /\ ServedAll
  /\ UNCHANGED <<frames, local, c2w, w2c, workerVars>>

-----------------------------------------------------------------------------
(* Handing out frames. *)

\* Mutant of IdleIndices: is_idle() is not asked.
IdleIndices_Any == DOMAIN workers

IdleIndices == {k \in DOMAIN workers : is_idle(rw[workers[k]])}

get_idle_worker == workers[Min(IdleIndices)]

HandOut ==
  /\ pc = "handout"
  /\ frames # <<>>
  /\ IdleIndices # {}
  /\ LET c == get_idle_worker
         next == run_frame(rw[c], Head(frames))
     IN  \/ /\ run_frame_check(rw[c])
            /\ rw' = [rw EXCEPT ![c] = next]
            /\ frames' = Tail(frames)
            /\ UNCHANGED <<pc, workers, local, loopVars, socketVars, workerVars>>
         \/ /\ \/ ~run_frame_check(rw[c])
               \/ "read_file" \in Faults /\ next.outgoing.request_type = "COPY_IN"
            /\ Stop(IF run_frame_check(rw[c]) THEN "failed" ELSE "assertion")

HandedOut ==
  /\ pc = "handout"
  /\ frames = <<>> \/ IdleIndices = {}
  /\ Goto("top")
  /\ UNCHANGED <<controllerVars, loopVars, socketVars, workerVars>>

ControllerStep ==
  \/ LoopTest \/ ConnectProxy \/ ProxiesConnected \/ Poll \/ PollFails
  \/ NothingToRead
  \/ \E c \in Conns : \/ ReceiveSize(c) \/ ReceiveMessage(c) \/ ReceiveEnd(c)
                      \/ ReceiveReset(c) \/ ReceiveError(c)
  \/ NothingToWrite \/ Send \/ SendFails \/ Hangup
  \/ NothingToAccept \/ \E c \in Direct : Accept(c)
  \/ HandOut \/ HandedOut

-----------------------------------------------------------------------------
(* The workers: start_worker() connects once and then serves requests one  *)
(* at a time until its connection ends.                                    *)

WorkerConnects(c) ==
  /\ Running
  /\ conn[c] = "none"
  /\ conn' = [conn EXCEPT ![c] = "backlog"]
  /\ UNCHANGED <<pc, controllerVars, loopVars, c2w, w2c, workerVars>>

\* receive_message()
WorkerReceives(c) ==
  /\ Running
  /\ conn[c] = "open"
  /\ peer[c].phase = "receive"
  /\ c2w[c] # NoRequest
  /\ peer' = [peer EXCEPT ![c].phase = "handle", ![c].request = c2w[c]]
  /\ c2w' = [c2w EXCEPT ![c] = NoRequest]
  /\ UNCHANGED <<pc, controllerVars, loopVars, conn, w2c, files, rendered>>

\* The handler, and the size at the front of what send_message() sends.
WorkerHandles(c) ==
  /\ Running
  /\ conn[c] = "open"
  /\ peer[c].phase = "handle"
  /\ \E outcome \in Outcomes :
       LET request == peer[c].request
           handled == handle(request, files[c], outcome)
       IN  /\ files' = [files EXCEPT ![c] = handled.files]
           /\ rendered' = IF request.request_type = "EXECUTE" /\ outcome = "ok"
                          THEN rendered \cup {request.value} ELSE rendered
           /\ peer' = [peer EXCEPT ![c] = [phase |-> "reply", request |-> NoRequest,
                                           response |-> handled.response]]
  /\ w2c' = [w2c EXCEPT ![c] = Append(@, [part |-> "header", response |-> NoResponse])]
  /\ UNCHANGED <<pc, controllerVars, loopVars, conn, c2w>>

\* The rest of send_message().
WorkerReplies(c) ==
  /\ Running
  /\ conn[c] = "open"
  /\ peer[c].phase = "reply"
  /\ w2c' = [w2c EXCEPT ![c] = Append(@, [part |-> "body", response |-> peer[c].response])]
  /\ peer' = [peer EXCEPT ![c] = [phase |-> "receive", request |-> NoRequest,
                                  response |-> NoResponse]]
  /\ UNCHANGED <<pc, controllerVars, loopVars, conn, c2w, files, rendered>>

-----------------------------------------------------------------------------
(* The sockets, as the kernel behaves.                                     *)

\* The other process ends.  Its kernel resets a connection on which a
\* request lies unread and closes any other; a proxy may have taken the
\* request into its buffer.
PeerCloses(c) ==
  /\ Running
  /\ "close" \in Faults
  /\ conn[c] = "open"
  /\ \/ /\ c2w[c] # NoRequest
        /\ conn' = [conn EXCEPT ![c] = "rst"]
     \/ /\ c2w[c] = NoRequest \/ c \in Proxied
        /\ conn' = [conn EXCEPT ![c] = "fin"]
  /\ UNCHANGED <<pc, controllerVars, loopVars, c2w, w2c, workerVars>>

\* What we sent to a closed socket comes back as a reset.
ResetArrives(c) ==
  /\ Running
  /\ conn[c] = "finsent"
  /\ conn' = [conn EXCEPT ![c] = "hup"]
  /\ UNCHANGED <<pc, controllerVars, loopVars, c2w, w2c, workerVars>>

\* Retransmissions time out or the host becomes unreachable.
NetworkLost(c) ==
  /\ Running
  /\ "lost" \in Faults
  /\ conn[c] = "open"
  /\ conn' = [conn EXCEPT ![c] = "lost"]
  /\ UNCHANGED <<pc, controllerVars, loopVars, c2w, w2c, workerVars>>

Next ==
  \/ ControllerStep
  \/ \E c \in Direct : WorkerConnects(c)
  \/ \E c \in Conns : \/ WorkerReceives(c) \/ WorkerHandles(c) \/ WorkerReplies(c)
                      \/ PeerCloses(c) \/ ResetArrives(c) \/ NetworkLost(c)

\* The controller and the workers are processes the operating system keeps
\* scheduling, the direct workers are started, and a reset is delivered.
\* Nothing obliges a worker to come to a proxy, so a connection to a proxy
\* may wait for its welcome for ever.  Nothing makes a process end or a
\* network fail.
Served(c) == c \in Direct \/ rw[c].m_state # "RECEIVE_WELCOME_RESPONSE"

Fairness ==
  /\ WF_vars(ControllerStep)
  /\ \A c \in Direct : WF_vars(WorkerConnects(c))
  /\ \A c \in Conns : /\ WF_vars(Served(c) /\ WorkerReceives(c))
                      /\ WF_vars(WorkerHandles(c))
                      /\ WF_vars(WorkerReplies(c))
                      /\ WF_vars(ResetArrives(c))

Spec == Init /\ [][Next]_vars
FairSpec == Spec /\ Fairness
=============================================================================
