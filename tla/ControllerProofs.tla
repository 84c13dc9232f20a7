-------------------------- MODULE ControllerProofs --------------------------
(***************************************************************************)
(* Theorems about the controller, for all copies, frames, workers, proxies *)
(* and faults: types, entries, pending connections and frames.             *)
(***************************************************************************)
EXTENDS ControllerProperties, DataLemmas

-----------------------------------------------------------------------------
(* What the operators of Drp, RemoteWorker and Worker return, for all      *)
(* copies and frames.                                                      *)

LEMMA CopyFields ==
  /\ \A k \in DOMAIN InCopies : InCopies[k] \in FileCopy
  /\ \A k \in DOMAIN OutCopies : OutCopies[k] \in FileCopy
  BY CopiesAssumption, ElementOfSeq, LenProperties

\* The names and requests of the protocol have the types of module Drp.
LEMMA ProtocolRequests ==
  ASSUME NEW frame \in FrameSet \cup {NoFrame}
  PROVE  /\ \A p \in BOOLEAN : substitute_parameter(p, frame) \in Names
         /\ \A k \in DOMAIN InCopies : CopyInRequest(k, frame) \in Requests
         /\ \A k \in DOMAIN OutCopies : CopyOutRequest(k, frame) \in Requests
         /\ ExecuteRequest(frame) \in Requests
         /\ WelcomeRequest \in Requests
  <1>1. \A p \in BOOLEAN : substitute_parameter(p, frame) \in Names
    BY DEF substitute_parameter, Names, NoFrame, Unsubstituted
  <1>2. ASSUME NEW k \in DOMAIN InCopies
        PROVE  CopyInRequest(k, frame) \in Requests
    <2>1. InCopies[k].source \in BOOLEAN /\ InCopies[k].destination \in BOOLEAN
      BY CopyFields DEF FileCopy
    <2>2. InPath(k, frame) \in RemotePaths
      BY <1>1, <2>1 DEF InPath, RemotePaths
    <2>3. InContent(k, frame) \in Names
      BY <1>1, <2>1 DEF InContent
    <2>4. QED
      BY <2>2, <2>3 DEF CopyInRequest, Request, Requests, RequestsOf
  <1>3. ASSUME NEW k \in DOMAIN OutCopies
        PROVE  CopyOutRequest(k, frame) \in Requests
    <2>1. OutCopies[k].source \in BOOLEAN
      BY CopyFields DEF FileCopy
    <2>2. OutPath(k, frame) \in RemotePaths
      BY <1>1, <2>1 DEF OutPath, RemotePaths
    <2>3. QED
      BY <2>2 DEF CopyOutRequest, Request, Requests, RequestsOf
  <1>4. ExecuteRequest(frame) \in Requests
    BY <1>1 DEF ExecuteRequest, Request, Requests, RequestsOf
  <1>5. WelcomeRequest \in Requests
    BY DEF WelcomeRequest, Request, Requests, RequestsOf
  <1>6. QED
    BY <1>1, <1>2, <1>3, <1>4, <1>5

\* The copy that the object stops at is the first one that is left.
LEMMA FirstCopyLeft ==
  ASSUME NEW copies \in Seq(FileCopy), NEW index \in Nat \ {0}, NEW frame \in Int,
         CopiesLeft(copies, index, frame) # {}
  PROVE  LET first == Min(CopiesLeft(copies, index, frame))
         IN  /\ first \in CopiesLeft(copies, index, frame)
             /\ first \in DOMAIN copies
             /\ first \in Nat \ {0}
             /\ \A k \in CopiesLeft(copies, index, frame) : first <= k
  <1>1. /\ CopiesLeft(copies, index, frame) \in SUBSET Nat
        /\ CopiesLeft(copies, index, frame) \subseteq DOMAIN copies
        /\ 0 \notin CopiesLeft(copies, index, frame)
    BY DEF CopiesLeft
  <1>2. QED
    BY <1>1, MinProperties

LEMMA SendRequestType ==
  ASSUME NEW r \in RemoteWorkers, NEW request \in Requests, NEW state \in States
  PROVE  send_request(r, request, state) \in RemoteWorkers
  BY DEF send_request, RemoteWorkers

LEMMA FrameIsInt == FrameSet \cup {NoFrame} \subseteq Int
  BY FramesAssumption DEF FrameSet, NoFrame

\* Every operator that stands for a part of dispatch() gives an object.
LEMMA CopyOperatorsType ==
  ASSUME NEW r \in RemoteWorkers
  PROVE  /\ copy_in_non_frame_files(r) \in RemoteWorkers
         /\ send_execute_request(r) \in RemoteWorkers
         /\ copy_in_frame_files(r) \in RemoteWorkers
         /\ copy_out_frame_files(r) \in RemoteWorkers
  <1> DEFINE at(k) == [r EXCEPT !.m_state_index = k]
  <1>1. /\ r.m_frame \in FrameSet \cup {NoFrame} /\ r.m_frame \in Int
        /\ -1 \in FrameSet \cup {NoFrame} /\ -1 \in Int
        /\ r.m_state_index \in Nat \ {0}
    BY FrameIsInt DEF RemoteWorkers, NoFrame
  <1>2. /\ \A k \in Nat \ {0} : at(k) \in RemoteWorkers
        /\ \A k \in Nat \ {0} : [at(k) EXCEPT !.m_state = "IDLE"] \in RemoteWorkers
        /\ \A k \in Nat \ {0} : [r EXCEPT !.m_state_index = k, !.m_state = "IDLE"] \in RemoteWorkers
    BY DEF RemoteWorkers, States
  <1>3. Len(InCopies) + 1 \in Nat \ {0} /\ Len(OutCopies) + 1 \in Nat \ {0}
    BY CopiesAssumption, LenProperties
  <1>4. ReceiveStates \subseteq States
    BY DEF States
  <1>5. \A q \in RemoteWorkers : send_execute_request(q) \in RemoteWorkers
    BY FrameIsInt, ProtocolRequests, SendRequestType DEF send_execute_request, RemoteWorkers, States, ReceiveStates
  <1> HIDE DEF at
  <1>6. copy_in_non_frame_files(r) \in RemoteWorkers
    BY <1>1, <1>2, <1>3, <1>4, CopiesAssumption, FirstCopyLeft, ProtocolRequests, SendRequestType
       DEF copy_in_non_frame_files, at, ReceiveStates
  <1>7. copy_in_frame_files(r) \in RemoteWorkers
    BY <1>1, <1>2, <1>3, <1>4, <1>5, CopiesAssumption, FirstCopyLeft, ProtocolRequests, SendRequestType
       DEF copy_in_frame_files, at, ReceiveStates
  <1>8. copy_out_frame_files(r) \in RemoteWorkers
    BY <1>1, <1>2, <1>3, <1>4, CopiesAssumption, FirstCopyLeft, ProtocolRequests, SendRequestType
       DEF copy_out_frame_files, at, ReceiveStates
  <1>9. QED
    BY <1>5, <1>6, <1>7, <1>8

LEMMA NewRemoteWorkerType ==
  ASSUME NEW fdValid \in BOOLEAN, NEW proxy_index \in Int
  PROVE  new_remote_worker(fdValid, proxy_index) \in RemoteWorkers
  <1>1. WelcomeRequest \in Requests
    BY ProtocolRequests
  <1>2. QED
    BY <1>1 DEF new_remote_worker, RemoteWorkers, States, ReceiveStates

LEMMA RunFrameType ==
  ASSUME NEW r \in RemoteWorkers, NEW frame \in FrameSet
  PROVE  run_frame(r, frame) \in RemoteWorkers
  <1>1. 1 \in Nat \ {0} /\ frame \in FrameSet \cup {NoFrame}
    OBVIOUS
  <1>2. [r EXCEPT !.m_frame = frame, !.m_state_index = 1] \in RemoteWorkers
    BY <1>1 DEF RemoteWorkers
  <1>3. QED
    BY <1>2, CopyOperatorsType DEF run_frame

LEMMA DispatchType ==
  ASSUME NEW r \in RemoteWorkers
  PROVE  dispatch(r) \in RemoteWorkers
  <1> DEFINE q == [r EXCEPT !.m_have_size = FALSE]
  <1>1. /\ q \in RemoteWorkers
        /\ [q EXCEPT !.m_proxy_index = -1, !.m_state_index = 1] \in RemoteWorkers
        /\ [q EXCEPT !.m_state_index = @ + 1] \in RemoteWorkers
        /\ [q EXCEPT !.m_state_index = 1] \in RemoteWorkers
    <2>1. q \in RemoteWorkers
      BY DEF RemoteWorkers
    <2> HIDE DEF q
    <2>2. /\ 1 \in Nat \ {0}
          /\ q.m_state_index + 1 \in Nat \ {0}
          /\ -1 \in Int
      BY <2>1 DEF RemoteWorkers
    <2>3. [q EXCEPT !.m_proxy_index = -1, !.m_state_index = 1] \in RemoteWorkers
      BY <2>1, <2>2 DEF RemoteWorkers
    <2>4. [q EXCEPT !.m_state_index = @ + 1] \in RemoteWorkers
      BY <2>1, <2>2 DEF RemoteWorkers
    <2>5. [q EXCEPT !.m_state_index = 1] \in RemoteWorkers
      BY <2>1, <2>2 DEF RemoteWorkers
    <2>6. QED
      BY <2>1, <2>3, <2>4, <2>5
  <1> HIDE DEF q
  <1>2. r.m_state \in ReceiveStates \cup {"IDLE"}
    BY DEF RemoteWorkers, States
  <1>3. QED
    BY <1>1, <1>2, CopyOperatorsType DEF dispatch, q, ReceiveStates

\* A copy is whole, or damaged where that may happen.
LEMMA CopiedType ==
  ASSUME NEW outcome \in Outcomes, NEW content
  PROVE  /\ Copied(content, outcome) \in Partial({content})
         /\ content \in Contents => Partial({content}) \subseteq Contents
         /\ content # NoFile => NoFile \notin Partial({content})
  BY NoFileAssumption DEF Copied, Outcomes, Partial, Contents

\* A request of the protocol is answered with a response of the protocol, of
\* the request's type, and the files stay files.
LEMMA HandleType ==
  ASSUME NEW request \in Requests, NEW fs \in [RemotePaths -> Contents],
         NEW outcome \in Outcomes
  PROVE  /\ handle(request, fs, outcome).files \in [RemotePaths -> Contents]
         /\ handle(request, fs, outcome).response \in Responses
         /\ handle(request, fs, outcome).response.request_type = request.request_type
  <1>1. CASE request \in RequestsOf("WELCOME", {NoPath}, {Unsubstituted})
    BY <1>1 DEF RequestsOf, handle, handle_welcome, Handled, Response, Responses, RequestTypes
  <1>2. CASE request \in RequestsOf("COPY_IN", RemotePaths, Names)
    <2>1. request.value \in Contents
      BY <1>2 DEF RequestsOf, Contents, Partial
    <2>2. Copied(request.value, outcome) \in Contents
      BY <2>1, CopiedType
    <2>3. QED
      BY <1>2, <2>2 DEF RequestsOf, handle, handle_copy_in, Handled, Response, Responses,
                        RequestTypes
  <1>3. CASE request \in RequestsOf("EXECUTE", {NoPath}, Names)
    <2> DEFINE content == Copied(request.value, outcome)
    <2>1. request.value \in Contents
      BY <1>3 DEF RequestsOf, Contents, Partial
    <2>2. content \in Contents
      BY <2>1, CopiedType
    <2> HIDE DEF content
    <2>3. RenderedFiles(fs, request.value, content) \in [RemotePaths -> Contents]
      BY <2>2 DEF RenderedFiles
    <2>4. request.request_type = "EXECUTE"
          /\ handle(request, fs, outcome) = handle_execute(request, fs, outcome)
      BY <1>3 DEF RequestsOf, handle
    <2>5. PICK after, success : /\ handle(request, fs, outcome)
                                     = Handled(after, Response("EXECUTE", success, NoFile))
                                /\ after \in [RemotePaths -> Contents] /\ success \in BOOLEAN
      <3>1. CASE outcome \in {"ok", "partial"}
        <4>1. handle(request, fs, outcome)
                = Handled(RenderedFiles(fs, request.value, content), Response("EXECUTE", TRUE, NoFile))
          BY <2>4, <3>1, Zenon DEF handle_execute, content
        <4>2. QED
          BY <2>3, <4>1, Zenon
      <3>2. CASE outcome \notin {"ok", "partial"}
        <4>1. handle(request, fs, outcome)
                = Handled(fs, Response("EXECUTE", outcome \in {"signal", "fork"}, NoFile))
          BY <2>4, <3>2, Zenon DEF handle_execute
        <4>2. (outcome \in {"signal", "fork"}) \in BOOLEAN /\ fs \in [RemotePaths -> Contents]
          OBVIOUS
        <4>3. QED
          BY <4>1, <4>2, Zenon
      <3>3. QED
        BY <3>1, <3>2
    <2>6. QED
      BY <2>4, <2>5 DEF Handled, Response, Responses, RequestTypes
  <1>4. CASE request \in RequestsOf("COPY_OUT", RemotePaths, {Unsubstituted})
    <2> DEFINE old == fs[request.pathname]
    <2>1. handle(request, fs, outcome) = handle_copy_out(request, fs, outcome)
          /\ request.request_type = "COPY_OUT"
      BY <1>4 DEF RequestsOf, handle
    <2>2. CASE outcome \in {"ok", "partial"} /\ old # NoFile
      <3>1. old \in Partial(Names)
        BY <1>4, <2>2 DEF RequestsOf, Contents, Partial
      <3>2. Copied(old, outcome) \in Partial(Names)
        BY <3>1, CopiedType DEF Partial
      <3>3. handle(request, fs, outcome)
               = Handled(fs, Response("COPY_OUT", TRUE, Copied(old, outcome)))
        BY <2>1, <2>2 DEF handle_copy_out
      <3> HIDE DEF old
      <3>4. QED
        BY <2>1, <3>2, <3>3 DEF Handled, Response, Responses
    <2>3. CASE ~(outcome \in {"ok", "partial"} /\ old # NoFile)
      <3>1. handle(request, fs, outcome) = Handled(fs, Response("COPY_OUT", FALSE, NoFile))
        BY <2>1, <2>3 DEF handle_copy_out
      <3>2. QED
        BY <2>1, <3>1 DEF Handled, Response, Responses
    <2>4. QED
      BY <2>2, <2>3
  <1>5. QED
    BY <1>1, <1>2, <1>3, <1>4 DEF Requests

USE DEF controllerVars, loopVars, socketVars, workerVars, vars

-----------------------------------------------------------------------------
(* Types and the alignment of the entries with the vector.                 *)

LEMMA LoopInit == Init => LoopInv
  <1> SUFFICES ASSUME Init PROVE LoopInv
    OBVIOUS
  <1>1. new_remote_worker(FALSE, -1) \in RemoteWorkers
    <2>1. FALSE \in BOOLEAN /\ -1 \in Int
      OBVIOUS
    <2>2. QED
      BY <2>1, NewRemoteWorkerType
  <1>2. frames \in Seq(FrameSet)
    BY FramesAssumption, SeqOfRange, RangeOfSeq, LenProperties DEF Init, FrameSet
  <1>3. workers \in Seq(Conns) /\ pollfds \in Seq(Pollfds) /\ <<>> \in Seq(Parts)
    BY DEF Init
  <1>4. /\ pc = "top" /\ accepting \in BOOLEAN /\ poll_index \in Nat
        /\ conn \in [Conns -> ConnStates]
        /\ c2w \in [Conns -> Requests \cup {NoRequest}]
        /\ rendered \subseteq Names
    BY DEF Init, ConnStates
  <1>5. /\ rw \in [Conns -> RemoteWorkers]
        /\ w2c \in [Conns -> Seq(Parts)]
    BY <1>1, <1>3 DEF Init
  <1>6. /\ local \in [LocalPaths -> Contents]
        /\ files \in [Conns -> [RemotePaths -> Contents]]
    BY DEF Init, Contents, Partial
  <1>7. peer \in [Conns -> Peers]
    BY DEF Init, Peers
  <1>8. EntriesAligned /\ LiveConnected
    BY DEF Init, EntriesAligned, Serving, LiveConnected, Live
  <1>9. QED
    BY <1>2, <1>3, <1>4, <1>5, <1>6, <1>7, <1>8 DEF LoopInv, TypeOK

LEMMA LiveConns == TypeOK => Live \subseteq Conns
  BY ElementOfSeq, LenProperties DEF TypeOK, Live

LEMMA LoopStop == ASSUME LoopInv, NEW how \in Stopped, Stop(how) PROVE LoopInv'
  BY DEF LoopInv, TypeOK, EntriesAligned, LiveConnected, Live, Serving, Unserved, Stop, Stopped, Running

\* The steps that move the program counter, or a worker or a socket, and
\* leave the controller's own data alone.
LEMMA LoopControl ==
  ASSUME LoopInv,
         \/ LoopTest \/ ProxiesConnected \/ PollFails \/ NothingToRead \/ NothingToWrite
         \/ SendFails \/ NothingToAccept \/ HandedOut
  PROVE  LoopInv'
  <1>6. CASE SendFails
    <2>1. PICK how \in Stopped : Stop(how)
      BY <1>6 DEF SendFails, Stopped
    <2>2. QED
      BY <2>1, LoopStop
  <1> USE DEF LoopInv, TypeOK, EntriesAligned, LiveConnected, Live, Serving, Unserved,
              Goto, Stopped, ServedAll
  <1>1. CASE LoopTest
    BY <1>1 DEF LoopTest
  <1>2. CASE ProxiesConnected
    BY <1>2 DEF ProxiesConnected
  <1>3. CASE PollFails
    BY <1>3, LoopStop DEF PollFails
  <1>4. CASE NothingToRead
    BY <1>4 DEF NothingToRead
  <1>5. CASE NothingToWrite
    BY <1>5 DEF NothingToWrite
  <1>7. CASE NothingToAccept
    <2>1. <<>> \in Seq(Pollfds)
      OBVIOUS
    <2>2. QED
      BY <1>7, <2>1 DEF NothingToAccept
  <1>8. CASE HandedOut
    BY <1>8 DEF HandedOut
  <1>9. QED
    BY <1>1, <1>2, <1>3, <1>4, <1>5, <1>6, <1>7, <1>8

\* The steps of the workers and of the sockets.
LEMMA LoopWorkers ==
  ASSUME LoopInv, NEW c \in Conns,
         \/ WorkerConnects(c)
         \/ WorkerReceives(c) \/ WorkerHandles(c) \/ WorkerReplies(c)
         \/ PeerCloses(c) \/ ResetArrives(c) \/ NetworkLost(c)
  PROVE  LoopInv'
  <1> USE DEF WorkerConnects, WorkerReceives, WorkerHandles, WorkerReplies,
              PeerCloses, ResetArrives, NetworkLost
  <1>1. TypeOK
    BY DEF LoopInv
  <1>2. UNCHANGED <<pc, frames, workers, rw, local, pollfds, accepting, poll_index>>
    OBVIOUS
  <1>3. \E state \in ConnStates \ {"none"} : conn' = [conn EXCEPT ![c] = state] \/ UNCHANGED conn
    BY DEF ConnStates
  <1>4. conn' \in [Conns -> ConnStates]
    BY <1>1, <1>3 DEF TypeOK
  <1>5. c2w' \in [Conns -> Requests \cup {NoRequest}]
    BY <1>1 DEF TypeOK
  <1>6. peer[c] \in Peers /\ c2w[c] \in Requests \cup {NoRequest}
    BY <1>1 DEF TypeOK
  <1>7. /\ peer' \in [Conns -> Peers] /\ w2c' \in [Conns -> Seq(Parts)]
        /\ files' \in [Conns -> [RemotePaths -> Contents]] /\ rendered' \subseteq Names
    <2>1. CASE WorkerReceives(c)
      BY <1>1, <1>6, <2>1 DEF TypeOK, Peers
    <2>2. CASE WorkerHandles(c)
      <3>1. PICK outcome \in Outcomes :
              LET request == peer[c].request
                  handled == handle(request, files[c], outcome)
              IN  /\ files' = [files EXCEPT ![c] = handled.files]
                  /\ rendered' = IF request.request_type = "EXECUTE" /\ outcome = "ok"
                                 THEN rendered \cup {request.value} ELSE rendered
                  /\ peer' = [peer EXCEPT ![c] = [phase |-> "reply", request |-> NoRequest,
                                                  response |-> handled.response]]
        BY <2>2
      <3> DEFINE request == peer[c].request
                 handled == handle(request, files[c], outcome)
      <3>2. files[c] \in [RemotePaths -> Contents]
        BY <1>1 DEF TypeOK
      <3>3. /\ handled.files \in [RemotePaths -> Contents]
            /\ handled.response \in Responses \cup {NoResponse}
        <4>1. CASE request \in Requests
          BY <3>2, <4>1, HandleType
        <4>2. CASE request = NoRequest
          <5>1. request.request_type = "NONE"
            BY <4>2 DEF NoRequest, Request
          <5> HIDE DEF request
          <5>2. handled = Handled(files[c], NoResponse)
            BY <5>1 DEF handle, NoResponse
          <5>3. QED
            BY <3>2, <5>2 DEF Handled
        <4>3. QED
          BY <1>6, <4>1, <4>2 DEF Peers
      <3>4. request.request_type = "EXECUTE" => request.value \in Names
        BY <1>6 DEF Peers, Requests, RequestsOf, NoRequest, Request
      <3> HIDE DEF handled, request
      <3>5. files' \in [Conns -> [RemotePaths -> Contents]]
        BY <1>1, <3>1, <3>3 DEF TypeOK, handled, request
      <3>6. rendered' \subseteq Names
        BY <1>1, <3>1, <3>4 DEF TypeOK, request
      <3>7. peer' \in [Conns -> Peers]
        <4>1. [phase |-> "reply", request |-> NoRequest, response |-> handled.response] \in Peers
          BY <3>3 DEF Peers
        <4>2. QED
          BY <1>1, <3>1, <4>1 DEF TypeOK, handled, request
      <3>8. w2c' \in [Conns -> Seq(Parts)]
        <4>1. [part |-> "header", response |-> NoResponse] \in Parts
          BY DEF Parts
        <4>2. Append(w2c[c], [part |-> "header", response |-> NoResponse]) \in Seq(Parts)
          BY <1>1, <4>1, AppendProperties DEF TypeOK
        <4>3. QED
          BY <1>1, <2>2, <4>2 DEF TypeOK
      <3>9. QED
        BY <3>5, <3>6, <3>7, <3>8
    <2>3. CASE WorkerReplies(c)
      <3>1. [part |-> "body", response |-> peer[c].response] \in Parts
        BY <1>6 DEF Parts, Peers
      <3>2. Append(w2c[c], [part |-> "body", response |-> peer[c].response]) \in Seq(Parts)
        BY <1>1, <3>1, AppendProperties DEF TypeOK
      <3>3. [phase |-> "receive", request |-> NoRequest, response |-> NoResponse] \in Peers
        BY DEF Peers
      <3>4. QED
        BY <1>1, <2>3, <3>2, <3>3 DEF TypeOK
    <2>4. CASE UNCHANGED <<peer, w2c, files, rendered>>
      BY <1>1, <2>4 DEF TypeOK
    <2>5. QED
      BY <2>1, <2>2, <2>3, <2>4
  <1>8. EntriesAligned'
    BY <1>2 DEF LoopInv, EntriesAligned, Serving, Unserved
  <1>9. LiveConnected'
    <2>1. ASSUME NEW d \in Live
          PROVE  conn'[d] \notin {"none", "backlog"}
      BY <1>1, <2>1, LiveConns DEF LoopInv, LiveConnected, TypeOK
    <2>2. QED
      BY <1>2, <2>1 DEF LiveConnected, Live
  <1>10. QED
    BY <1>1, <1>2, <1>4, <1>5, <1>7, <1>8, <1>9 DEF LoopInv, TypeOK

\* An accepted or opened connection is new to the vector.
LEMMA LoopNewWorker ==
  ASSUME LoopInv, NEW c \in Conns, NEW r \in RemoteWorkers, NEW state \in ConnStates,
         conn[c] \in {"none", "backlog"}, state \notin {"none", "backlog"},
         conn' = [conn EXCEPT ![c] = state],
         rw' = [rw EXCEPT ![c] = r],
         workers' = Append(workers, c),
         UNCHANGED <<frames, local, c2w, w2c, workerVars>>,
         \/ pc = "connect" /\ UNCHANGED <<pc, loopVars>>
         \/ ServedAll
  PROVE  LoopInv'
  <1>1. TypeOK /\ LiveConnected
    BY DEF LoopInv
  <1>2. /\ workers' \in Seq(Conns)
        /\ Len(workers') = Len(workers) + 1
        /\ \A n \in 1..Len(workers) : workers'[n] = workers[n]
        /\ workers'[Len(workers)+1] = c
    BY <1>1, AppendProperties DEF TypeOK
  <1>3. rw' \in [Conns -> RemoteWorkers] /\ conn' \in [Conns -> ConnStates]
    BY <1>1 DEF TypeOK
  <1>4. <<>> \in Seq(Pollfds)
    OBVIOUS
  <1>5. /\ pc' \in {"connect", "handout"} /\ accepting' \in BOOLEAN /\ poll_index' \in Nat
        /\ pollfds' \in Seq(Pollfds)
    <2>1. CASE pc = "connect" /\ UNCHANGED <<pc, loopVars>>
      BY <1>1, <2>1 DEF TypeOK
    <2>2. CASE ServedAll
      BY <1>4, <2>2 DEF ServedAll, Goto
    <2>3. QED
      BY <2>1, <2>2
  <1>6. TypeOK'
    BY <1>1, <1>2, <1>3, <1>5 DEF TypeOK
  <1>7. EntriesAligned'
    BY <1>5 DEF EntriesAligned, Serving
  <1>8. LiveConnected'
    <2>1. ASSUME NEW n \in DOMAIN workers'
          PROVE  conn'[workers'[n]] \notin {"none", "backlog"}
      <3>1. n \in 1..Len(workers)+1
        BY <1>2, LenProperties
      <3>2. CASE n = Len(workers) + 1
        <4>1. workers'[n] = c
          BY <1>2, <3>2
        <4>2. conn'[c] = state
          BY <1>1 DEF TypeOK
        <4>3. QED
          BY <4>1, <4>2
      <3>3. CASE n \in 1..Len(workers)
        <4>1. workers[n] \in Live /\ workers[n] \in Conns
          BY <1>1, <3>3, LenProperties, LiveConns DEF Live, TypeOK
        <4>2. conn[workers[n]] \notin {"none", "backlog"} /\ workers[n] # c
          BY <1>1, <4>1 DEF LiveConnected
        <4>3. workers'[n] = workers[n]
          BY <1>2, <3>3
        <4>4. conn'[workers[n]] = conn[workers[n]]
          BY <1>1, <4>1, <4>2 DEF TypeOK
        <4>5. QED
          BY <4>2, <4>3, <4>4
      <3>4. n = Len(workers) + 1 \/ n \in 1..Len(workers)
        <4>1. Len(workers) \in Nat
          BY <1>1, LenProperties DEF TypeOK
        <4>2. QED
          BY <3>1, <4>1
      <3>5. QED
        BY <3>2, <3>3, <3>4
    <2>2. QED
      BY <2>1 DEF LiveConnected, Live
  <1>9. QED
    BY <1>6, <1>7, <1>8 DEF LoopInv

\* Connecting to a proxy and accepting a worker.
LEMMA LoopConnect ==
  ASSUME LoopInv, ConnectProxy \/ \E c \in Direct : Accept(c)
  PROVE  LoopInv'
  <1>1. CASE ConnectProxy
    <2>1. CASE Stop("failed")
      BY <2>1, LoopStop DEF Stopped
    <2>2. CASE ~Stop("failed")
      <3>1. PICK c \in Proxied :
              /\ conn[c] = "none"
              /\ conn' = [conn EXCEPT ![c] = "open"]
              /\ rw' = [rw EXCEPT ![c] = new_remote_worker(TRUE, Min(proxy_indices))]
              /\ workers' = Append(workers, c)
              /\ UNCHANGED <<pc, frames, local, loopVars, c2w, w2c, workerVars>>
        BY <1>1, <2>2 DEF ConnectProxy
      <3>2. Min(proxy_indices) \in Int
        <4>1. proxy_indices \in SUBSET Nat /\ proxy_indices # {}
          BY <1>1 DEF ConnectProxy, proxy_indices
        <4>2. Min(proxy_indices) \in proxy_indices
          BY <4>1, MinProperties, Zenon
        <4>3. Min(proxy_indices) \in Nat
          BY <4>1, <4>2, Zenon
        <4>4. QED
          BY <4>3
      <3>3. new_remote_worker(TRUE, Min(proxy_indices)) \in RemoteWorkers
        BY <3>2, NewRemoteWorkerType
      <3>4. c \in Conns /\ pc = "connect" /\ "open" \in ConnStates
        BY <1>1 DEF Conns, ConnectProxy, ConnStates
      <3>5. QED
        BY <3>1, <3>3, <3>4, LoopNewWorker
    <2>3. QED
      BY <2>1, <2>2
  <1>2. ASSUME NEW c \in Direct, Accept(c)
        PROVE  LoopInv'
    <2>1. PICK state \in {"open", "lost"}, valid \in BOOLEAN :
            /\ conn' = [conn EXCEPT ![c] = state]
            /\ rw' = [rw EXCEPT ![c] = new_remote_worker(valid, -1)]
      BY <1>2 DEF Accept
    <2>2. new_remote_worker(valid, -1) \in RemoteWorkers
      <3>1. -1 \in Int
        OBVIOUS
      <3>2. QED
        BY <3>1, NewRemoteWorkerType
    <2>3. c \in Conns /\ state \in ConnStates /\ conn[c] = "backlog"
      BY <1>2 DEF Conns, Accept, ConnStates
    <2>4. /\ workers' = Append(workers, c) /\ ServedAll
          /\ UNCHANGED <<frames, local, c2w, w2c, workerVars>>
      BY <1>2 DEF Accept
    <2>5. QED
      BY <2>1, <2>2, <2>3, <2>4, LoopNewWorker
  <1>3. QED
    BY <1>1, <1>2

\* After poll() there is one entry for every worker.
LEMMA LoopPoll ==
  ASSUME LoopInv, Poll
  PROVE  LoopInv'
  <1>1. TypeOK /\ LiveConnected
    BY DEF LoopInv
  <1> DEFINE entries == [k \in 1..Len(workers) |-> PollEntry(workers[k])]
  <1>2. /\ pollfds' = entries /\ accepting' \in BOOLEAN /\ poll_index' = Len(workers)
        /\ pc' = "read"
        /\ UNCHANGED <<controllerVars, socketVars, workerVars>>
    BY DEF Poll, Goto
  <1>3. Len(workers) \in Nat /\ \A k \in 1..Len(workers) : workers[k] \in Conns
    BY <1>1, ElementOfSeq, LenProperties DEF TypeOK
  <1>4. \A c \in Conns : PollEntry(c) \in Pollfds /\ PollEntry(c).fd = c
    <2>1. ASSUME NEW c \in Conns
          PROVE  rw[c].m_fd_valid \in BOOLEAN
      BY <1>1, <2>1 DEF TypeOK, RemoteWorkers
    <2>2. QED
      BY <2>1 DEF PollEntry, Pollfds
  <1>5. /\ entries \in Seq(Pollfds) /\ Len(entries) = Len(workers)
        /\ \A n \in 1..Len(workers) : entries[n].fd = workers[n]
    BY <1>3, <1>4, IsASeq
  <1> HIDE DEF entries
  <1>6. TypeOK'
    BY <1>1, <1>2, <1>3, <1>5 DEF TypeOK
  <1>7. EntriesAligned'
    BY <1>2, <1>3, <1>5 DEF EntriesAligned, Unserved, Serving
  <1>8. LiveConnected'
    BY <1>1, <1>2 DEF LiveConnected, Live
  <1>9. QED
    BY <1>6, <1>7, <1>8 DEF LoopInv

\* kill_worker() takes one worker out and leaves those before it in place.
LEMMA KillWorkerKeeps ==
  ASSUME TypeOK, NEW index \in 1..Len(workers), kill_worker(index)
  PROVE  /\ frames' \in Seq(FrameSet)
         /\ workers' \in Seq(Conns)
         /\ Len(workers') = Len(workers) - 1
         /\ \A n \in 1..index-1 : workers'[n] = workers[n]
         /\ {workers'[n] : n \in DOMAIN workers'} \subseteq Live
  <1>1. workers \in Seq(Conns) /\ frames \in Seq(FrameSet) /\ rw \in [Conns -> RemoteWorkers]
    BY DEF TypeOK
  <1>2. workers[index] \in Conns
    BY <1>1, ElementOfSeq
  <1>3. rw[workers[index]].m_frame \in FrameSet \cup {NoFrame}
    BY <1>1, <1>2 DEF RemoteWorkers
  <1>4. frames' \in Seq(FrameSet)
    <2> DEFINE frame == rw[workers[index]].m_frame
    <2>1. CASE frame = NoFrame
      BY <1>1, <2>1 DEF kill_worker
    <2>2. CASE frame # NoFrame
      <3>1. frames' = <<frame>> \o frames
        BY <2>2 DEF kill_worker
      <3>2. <<frame>> \in Seq(FrameSet)
        BY <1>3, <2>2
      <3> HIDE DEF frame
      <3>3. QED
        BY <1>1, <3>1, <3>2, ConcatProperties
    <2>3. QED
      BY <2>1, <2>2
  <1>5. workers' = RemoveAt(workers, index)
    BY DEF kill_worker
  <1>6. /\ workers' \in Seq(Conns) /\ Len(workers') = Len(workers) - 1
        /\ \A n \in 1..Len(workers)-1 :
             workers'[n] = IF n < index THEN workers[n] ELSE workers[n+1]
    BY <1>1, <1>5, RemoveAtProperties
  <1>7. Len(workers) \in Nat /\ index \in Nat /\ index <= Len(workers)
        /\ DOMAIN workers = 1..Len(workers) /\ DOMAIN workers' = 1..Len(workers)-1
    BY <1>1, <1>6, LenProperties
  <1>8. \A n \in 1..index-1 : n \in 1..Len(workers)-1 /\ n < index
    BY <1>7
  <1>9. ASSUME NEW n \in 1..Len(workers)-1
        PROVE  workers'[n] \in Live
    <2>1. n \in 1..Len(workers) /\ n + 1 \in 1..Len(workers)
      BY <1>7
    <2>2. workers[n] \in Live /\ workers[n+1] \in Live
      BY <1>7, <2>1 DEF Live
    <2>3. QED
      BY <1>6, <2>2
  <1>10. QED
    BY <1>4, <1>6, <1>7, <1>8, <1>9

\* Killing the worker at the index of the entry that is being served.
LEMMA LoopKill ==
  ASSUME LoopInv, pc \in {"read", "hangup"}, poll_index \in 1..Len(workers),
         kill_worker(poll_index),
         UNCHANGED <<rw, local, pollfds, accepting, socketVars, workerVars>>,
         \/ pc = "read" /\ pc' = "write" /\ poll_index' = poll_index
         \/ pc = "hangup" /\ pc' = "read" /\ poll_index' = poll_index - 1
  PROVE  LoopInv'
  <1>1. TypeOK /\ LiveConnected /\ EntriesAligned
    BY DEF LoopInv
  <1>2. /\ frames' \in Seq(FrameSet)
        /\ workers' \in Seq(Conns)
        /\ Len(workers') = Len(workers) - 1
        /\ \A n \in 1..poll_index-1 : workers'[n] = workers[n]
        /\ Live' \subseteq Live
    BY <1>1, KillWorkerKeeps DEF Live
  <1>3. Len(workers) \in Nat /\ poll_index \in Nat /\ poll_index > 0
        /\ poll_index <= Len(workers) /\ Len(pollfds) \in Nat
    BY <1>1, LenProperties DEF TypeOK
  <1>4. poll_index' \in Nat /\ pc' \in {"write", "read"}
    BY <1>3
  <1>5. TypeOK'
    BY <1>1, <1>2, <1>4 DEF TypeOK
  <1>6. Unserved' = poll_index - 1 /\ poll_index - 1 <= Unserved
    BY <1>3 DEF Unserved
  <1>7. EntriesAligned'
    <2>1. /\ poll_index <= Len(pollfds)
          /\ \A n \in 1..poll_index-1 : workers[n] = pollfds[n].fd
      <3>1. /\ poll_index <= Len(pollfds)
            /\ \A n \in 1..Unserved : workers[n] = pollfds[n].fd
        BY <1>1 DEF EntriesAligned, Serving
      <3>2. QED
        BY <1>3, <1>6, <3>1 DEF Unserved
    <2>2. QED
      BY <1>2, <1>3, <1>6, <2>1 DEF EntriesAligned, Serving
  <1>8. LiveConnected'
    BY <1>1, <1>2 DEF LiveConnected
  <1>9. QED
    BY <1>5, <1>7, <1>8 DEF LoopInv

\* Steps that change a RemoteWorker, a saved file or a socket in the vector's
\* place and move the program counter to the next part of the same entry.
LEMMA LoopSameEntry ==
  ASSUME LoopInv, TypeOK',
         pc \in {"read", "write"}, pc' \in {"write", "hangup"}, poll_index > 0,
         UNCHANGED <<workers, pollfds, poll_index>>,
         \A c \in Live : conn[c] \notin {"none", "backlog"} => conn'[c] \notin {"none", "backlog"}
  PROVE  LoopInv'
  <1>1. EntriesAligned /\ LiveConnected /\ TypeOK
    BY DEF LoopInv
  <1>2. Unserved' <= Unserved /\ Unserved' = poll_index - 1 /\ Unserved \in Int
        /\ poll_index \in Nat /\ Len(workers) \in Nat
    BY <1>1, LenProperties DEF Unserved, TypeOK
  <1>3. EntriesAligned'
    BY <1>1, <1>2 DEF EntriesAligned, Serving
  <1>4. LiveConnected'
    BY <1>1 DEF LiveConnected, Live
  <1>5. QED
    BY <1>3, <1>4 DEF LoopInv

\* The entry that is read has its worker at its index.
LEMMA ReadingIndex ==
  ASSUME LoopInv, NEW c \in Conns, Reading(c)
  PROVE  /\ pc = "read" /\ poll_index \in 1..Len(workers) /\ c = workers[poll_index]
         /\ c = Entry.fd
  <1>1. pc = "read" /\ poll_index > 0 /\ c = workers[poll_index]
    BY DEF Reading
  <1>2. /\ poll_index \in Nat /\ Len(workers) \in Nat /\ poll_index <= Len(workers)
        /\ \A n \in 1..poll_index : workers[n] = pollfds[n].fd
    BY <1>1, LenProperties DEF LoopInv, TypeOK, EntriesAligned, Serving, Unserved
  <1>3. QED
    BY <1>1, <1>2 DEF Entry

LEMMA LoopReceiveSize ==
  ASSUME LoopInv, NEW c \in Conns, ReceiveSize(c)
  PROVE  LoopInv'
  <1>1. CASE Stop("failed")
    BY <1>1, LoopStop DEF Stopped
  <1>2. CASE ~Stop("failed")
    <2>1. /\ rw' = [rw EXCEPT ![c].m_have_size = TRUE]
          /\ w2c' = [w2c EXCEPT ![c] = Tail(@)]
          /\ pc' = "write" /\ w2c[c] # <<>>
          /\ UNCHANGED <<frames, workers, local, loopVars, conn, c2w, workerVars>>
      BY <1>2 DEF ReceiveSize, Goto
    <2>2. TypeOK
      BY DEF LoopInv
    <2>3. Tail(w2c[c]) \in Seq(Parts)
      BY <2>1, <2>2, HeadTailProperties DEF TypeOK
    <2>4. [rw[c] EXCEPT !.m_have_size = TRUE] \in RemoteWorkers
      BY <2>2 DEF TypeOK, RemoteWorkers
    <2>5. rw' \in [Conns -> RemoteWorkers] /\ w2c' \in [Conns -> Seq(Parts)]
      BY <2>1, <2>2, <2>3, <2>4 DEF TypeOK
    <2>6. TypeOK'
      BY <2>1, <2>2, <2>5 DEF TypeOK
    <2>7. QED
      BY <2>1, <2>6, ReadingIndex, LoopSameEntry DEF ReceiveSize, Reading
  <1>3. QED
    BY <1>1, <1>2

\* What the step that decodes a response does when it does not exit.
LEMMA ReceiveMessageEffect ==
  ASSUME NEW c \in Conns, ReceiveMessage(c), \A how \in Stopped : ~Stop(how)
  PROVE  LET r == rw[c]
             response == Head(w2c[c]).response
         IN  /\ response.request_type = ExpectedType(r.m_state)
             /\ response.success
             /\ rw' = [rw EXCEPT ![c] = dispatch(r)]
             /\ r.m_state # "RECEIVE_COPY_OUT_FRAME_FILE" => UNCHANGED local
             /\ r.m_state = "RECEIVE_COPY_OUT_FRAME_FILE" =>
                  \E content \in Partial({response.content}) :
                    local' = [local EXCEPT ![OutName(r.m_state_index, r.m_frame)] = content]
             /\ w2c' = [w2c EXCEPT ![c] = Tail(@)]
             /\ w2c[c] # <<>>
             /\ pc' = "write"
             /\ UNCHANGED <<frames, workers, loopVars, conn, c2w, workerVars>>
  BY Zenon DEF ReceiveMessage, Goto, Stopped

LEMMA LoopReceiveMessage ==
  ASSUME LoopInv, NEW c \in Conns, ReceiveMessage(c)
  PROVE  LoopInv'
  <1>1. CASE \E how \in Stopped : Stop(how)
    BY <1>1, LoopStop
  <1>2. CASE \A how \in Stopped : ~Stop(how)
    <2> DEFINE response == Head(w2c[c]).response
    <2>1. /\ rw' = [rw EXCEPT ![c] = dispatch(rw[c])]
          /\ \/ UNCHANGED local
             \/ \E content \in Partial({response.content}) :
                  local' = [local EXCEPT ![OutName(rw[c].m_state_index, rw[c].m_frame)]
                                           = content]
          /\ w2c' = [w2c EXCEPT ![c] = Tail(@)]
          /\ w2c[c] # <<>> /\ pc' = "write"
          /\ UNCHANGED <<frames, workers, loopVars, conn, c2w, workerVars>>
      BY <1>2, ReceiveMessageEffect
    <2>2. TypeOK
      BY DEF LoopInv
    <2>3. Head(w2c[c]) \in Parts /\ Tail(w2c[c]) \in Seq(Parts)
      BY <2>1, <2>2, HeadTailProperties DEF TypeOK
    <2>4. Partial({response.content}) \subseteq Contents
      <3>1. response \in Responses \/ response = NoResponse
        BY <2>3 DEF Parts
      <3> HIDE DEF response
      <3>2. NoResponse.content = NoFile
        BY DEF NoResponse, Response
      <3>3. response \in Responses => response.content \in Contents
        BY DEF Responses, Contents, Partial
      <3>4. QED
        BY <3>1, <3>2, <3>3 DEF Contents, Partial
    <2>5. dispatch(rw[c]) \in RemoteWorkers
      BY <2>2, DispatchType DEF TypeOK
    <2> HIDE DEF response
    <2>6. /\ rw' \in [Conns -> RemoteWorkers] /\ w2c' \in [Conns -> Seq(Parts)]
          /\ local' \in [LocalPaths -> Contents]
      BY <2>1, <2>2, <2>3, <2>4, <2>5 DEF TypeOK
    <2>7. TypeOK'
      BY <2>1, <2>2, <2>6 DEF TypeOK
    <2>8. QED
      BY <2>1, <2>7, ReadingIndex, LoopSameEntry DEF ReceiveMessage, Reading
  <1>3. QED
    BY <1>1, <1>2

\* recv() that returns no bytes or fails.
LEMMA LoopReceiveNothing ==
  ASSUME LoopInv, NEW c \in Conns, ReceiveEnd(c) \/ ReceiveReset(c) \/ ReceiveError(c)
  PROVE  LoopInv'
  <1>1. CASE Stop("failed")
    BY <1>1, LoopStop DEF Stopped
  <1>2. CASE ~Stop("failed")
    <2>1. /\ Reading(c) /\ pc' = "write"
          /\ UNCHANGED <<rw, local, loopVars, socketVars, workerVars>>
          /\ kill_worker(poll_index) \/ UNCHANGED <<frames, workers>>
      BY <1>2 DEF ReceiveEnd, ReceiveReset, ReceiveError, Goto
    <2>2. pc = "read" /\ poll_index \in 1..Len(workers)
      BY <2>1, ReadingIndex
    <2>3. CASE kill_worker(poll_index)
      BY <2>1, <2>2, <2>3, LoopKill
    <2>4. CASE UNCHANGED <<frames, workers>>
      <3>1. TypeOK'
        BY <2>1, <2>4 DEF LoopInv, TypeOK
      <3>2. QED
        BY <2>1, <2>2, <2>4, <3>1, LoopSameEntry DEF Reading
    <2>5. QED
      BY <2>1, <2>3, <2>4
  <1>3. QED
    BY <1>1, <1>2

LEMMA LoopSend ==
  ASSUME LoopInv, Send
  PROVE  LoopInv'
  <1>1. TypeOK /\ EntriesAligned
    BY DEF LoopInv
  <1>2. pc = "write" /\ poll_index > 0 /\ poll_index \in 1..Len(workers)
    BY <1>1, LenProperties DEF Send, EntriesAligned, Serving, PastTheEnd, TypeOK
  <1>3. Indexed \in Conns
    BY <1>1, <1>2, ElementOfSeq DEF TypeOK, Indexed
  <1>4. rw[Indexed].outgoing \in Requests \cup {NoRequest}
        /\ [rw[Indexed] EXCEPT !.outgoing = NoRequest] \in RemoteWorkers
    BY <1>1, <1>3 DEF TypeOK, RemoteWorkers
  <1>5. /\ c2w' \in [Conns -> Requests \cup {NoRequest}]
        /\ rw' \in [Conns -> RemoteWorkers]
        /\ conn' \in [Conns -> ConnStates]
    BY <1>1, <1>3, <1>4 DEF Send, TypeOK, ConnStates
  <1>6. TypeOK'
    BY <1>1, <1>5 DEF Send, TypeOK, Goto
  <1>7. \A c \in Live : conn[c] \notin {"none", "backlog"} => conn'[c] \notin {"none", "backlog"}
    BY <1>1, <1>3, LiveConns DEF Send, TypeOK
  <1>8. QED
    BY <1>2, <1>6, <1>7, LoopSameEntry DEF Send, Goto

LEMMA LoopHangup ==
  ASSUME LoopInv, Hangup
  PROVE  LoopInv'
  <1>1. TypeOK /\ EntriesAligned /\ LiveConnected
    BY DEF LoopInv
  <1>2. pc = "hangup" /\ poll_index > 0 /\ poll_index \in Nat /\ Len(workers) \in Nat
        /\ Len(pollfds) \in Nat /\ Unserved = poll_index - 1
    BY <1>1, LenProperties DEF Hangup, EntriesAligned, Serving, TypeOK, Unserved
  <1>3. CASE Entry.hangup /\ PastTheEnd
    BY <1>3, LoopStop DEF Hangup, Stopped
  <1>4. CASE Entry.hangup /\ ~PastTheEnd
    <2>1. /\ kill_worker(poll_index) /\ poll_index' = poll_index - 1 /\ pc' = "read"
          /\ UNCHANGED <<rw, local, pollfds, accepting, socketVars, workerVars>>
      BY <1>4 DEF Hangup, Goto
    <2>2. poll_index \in 1..Len(workers)
      BY <1>2, <1>4 DEF PastTheEnd
    <2>3. QED
      BY <1>2, <2>1, <2>2, LoopKill
  <1>5. CASE ~Entry.hangup
    <2>1. /\ UNCHANGED <<frames, workers, rw, local, pollfds, accepting, socketVars, workerVars>>
          /\ poll_index' = poll_index - 1 /\ pc' = "read"
      BY <1>5 DEF Hangup, Goto
    <2>2. TypeOK'
      BY <1>1, <1>2, <2>1 DEF TypeOK
    <2>3. EntriesAligned'
      BY <1>1, <1>2, <2>1 DEF EntriesAligned, Serving, Unserved
    <2>4. LiveConnected'
      BY <1>1, <2>1 DEF LiveConnected, Live
    <2>5. QED
      BY <2>2, <2>3, <2>4 DEF LoopInv
  <1>6. QED
    BY <1>3, <1>4, <1>5

\* The worker that get_idle_worker() finds and the frame it is given.
LEMMA IdleWorkerFound ==
  ASSUME TypeOK, IdleIndices # {}
  PROVE  \E k \in 1..Len(workers) :
           get_idle_worker = workers[k] /\ is_idle(rw[workers[k]]) /\ workers[k] \in Conns
  <1>1. IdleIndices \subseteq 1..Len(workers) /\ IdleIndices \in SUBSET Nat
    BY LenProperties DEF IdleIndices, TypeOK
  <1>2. Min(IdleIndices) \in IdleIndices
    BY <1>1, MinProperties, Zenon
  <1>3. Min(IdleIndices) \in 1..Len(workers) /\ is_idle(rw[workers[Min(IdleIndices)]])
    BY <1>1, <1>2, Zenon DEF IdleIndices
  <1>4. workers[Min(IdleIndices)] \in Conns
    BY <1>3, ElementOfSeq DEF TypeOK
  <1>5. QED
    BY <1>3, <1>4, Zenon DEF get_idle_worker

\* get_idle_worker() returns an idle worker, so the check of run_frame()
\* passes.
LEMMA HandOutEffect ==
  ASSUME TypeOK, HandOut, ~Stop("failed")
  PROVE  /\ pc = "handout" /\ frames # <<>> /\ IdleIndices # {}
         /\ rw' = [rw EXCEPT ![get_idle_worker] = run_frame(rw[get_idle_worker], Head(frames))]
         /\ frames' = Tail(frames)
         /\ UNCHANGED <<pc, workers, local, loopVars, socketVars, workerVars>>
  <1>1. pc = "handout" /\ frames # <<>> /\ IdleIndices # {}
    BY DEF HandOut
  <1>2. run_frame_check(rw[get_idle_worker])
    BY <1>1, IdleWorkerFound DEF run_frame_check
  <1>3. QED
    BY <1>1, <1>2, Zenon DEF HandOut

LEMMA LoopHandOut ==
  ASSUME LoopInv, HandOut
  PROVE  LoopInv'
  <1>1. TypeOK /\ LiveConnected
    BY DEF LoopInv
  <1>2. CASE Stop("failed")
    BY <1>2, LoopStop DEF Stopped
  <1>3. CASE ~Stop("failed")
    <2>1. /\ pc = "handout" /\ frames # <<>> /\ IdleIndices # {}
          /\ rw' = [rw EXCEPT ![get_idle_worker] = run_frame(rw[get_idle_worker], Head(frames))]
          /\ frames' = Tail(frames)
          /\ UNCHANGED <<pc, workers, local, loopVars, socketVars, workerVars>>
      BY <1>1, <1>3, HandOutEffect
    <2>2. get_idle_worker \in Conns
      BY <1>1, <2>1, IdleWorkerFound
    <2>3. Head(frames) \in FrameSet /\ frames' \in Seq(FrameSet)
      BY <1>1, <2>1, HeadTailProperties DEF TypeOK
    <2>4. run_frame(rw[get_idle_worker], Head(frames)) \in RemoteWorkers
      BY <1>1, <2>2, <2>3, RunFrameType DEF TypeOK
    <2>5. rw' \in [Conns -> RemoteWorkers]
      BY <1>1, <2>1, <2>2, <2>4 DEF TypeOK
    <2>6. TypeOK'
      BY <1>1, <2>1, <2>3, <2>5 DEF TypeOK
    <2>7. EntriesAligned'
      BY <2>1 DEF EntriesAligned, Serving
    <2>8. LiveConnected'
      BY <1>1, <2>1 DEF LiveConnected, Live
    <2>9. QED
      BY <2>6, <2>7, <2>8 DEF LoopInv
  <1>4. QED
    BY <1>2, <1>3

LEMMA LoopStep == LoopInv /\ [Next]_vars => LoopInv'
  <1> SUFFICES ASSUME LoopInv, [Next]_vars PROVE LoopInv'
    OBVIOUS
  <1>1. CASE \/ LoopTest \/ ProxiesConnected \/ PollFails \/ NothingToRead \/ NothingToWrite
             \/ SendFails \/ NothingToAccept \/ HandedOut
    BY <1>1, LoopControl
  <1>2. CASE ConnectProxy \/ \E c \in Direct : Accept(c)
    BY <1>2, LoopConnect
  <1>3. CASE Poll
    BY <1>3, LoopPoll
  <1>4. ASSUME NEW c \in Conns,
               ReceiveSize(c) \/ ReceiveMessage(c) \/ ReceiveEnd(c) \/ ReceiveReset(c)
                 \/ ReceiveError(c)
        PROVE  LoopInv'
    BY <1>4, LoopReceiveSize, LoopReceiveMessage, LoopReceiveNothing
  <1>5. CASE Send
    BY <1>5, LoopSend
  <1>6. CASE Hangup
    BY <1>6, LoopHangup
  <1>7. CASE HandOut
    BY <1>7, LoopHandOut
  <1>8. ASSUME NEW c \in Conns,
               WorkerConnects(c) \/ WorkerReceives(c) \/ WorkerHandles(c) \/ WorkerReplies(c)
                 \/ PeerCloses(c) \/ ResetArrives(c) \/ NetworkLost(c)
        PROVE  LoopInv'
    BY <1>8, LoopWorkers
  <1>9. CASE UNCHANGED vars
    BY <1>9 DEF LoopInv, TypeOK, EntriesAligned, LiveConnected, Live, Serving, Unserved
  <1>10. Direct \subseteq Conns
    BY DEF Conns
  <1>11. QED
    BY <1>1, <1>2, <1>3, <1>4, <1>5, <1>6, <1>7, <1>8, <1>9, <1>10 DEF Next, ControllerStep

\* Every variable always has its type.
THEOREM TypeCorrect == Spec => []TypeOK
  <1>1. LoopInv => TypeOK
    BY DEF LoopInv
  <1>2. QED
    BY <1>1, LoopInit, LoopStep, PTL DEF Spec

\* Serving the entries backwards keeps every entry that is still to be read
\* aligned with the vector, whoever was erased before.
THEOREM EntriesStayAligned == Spec => []ServedFdAligned
  <1>1. LoopInv => ServedFdAligned
    <2> SUFFICES ASSUME LoopInv, pc = "read", poll_index > 0
                 PROVE  poll_index <= Len(workers) /\ workers[poll_index] = Entry.fd
      BY DEF ServedFdAligned
    <2>1. /\ poll_index \in Nat /\ poll_index <= Len(workers)
          /\ \A n \in 1..poll_index : workers[n] = pollfds[n].fd
      BY DEF LoopInv, TypeOK, EntriesAligned, Serving, Unserved
    <2>2. QED
      BY <2>1 DEF Entry
  <1>2. QED
    BY <1>1, LoopInit, LoopStep, PTL DEF Spec

-----------------------------------------------------------------------------
(* The connections that wait for a worker at a proxy.                      *)

\* An object keeps its proxy until the welcome response takes it away.
LEMMA ProxyIndexKept ==
  ASSUME NEW r \in RemoteWorkers
  PROVE  /\ \A frame : run_frame(r, frame).m_proxy_index = r.m_proxy_index
         /\ dispatch(r).m_proxy_index \in {r.m_proxy_index, -1}
  <1>1. \A q : DOMAIN q = DOMAIN r =>
          /\ copy_in_non_frame_files(q).m_proxy_index = q.m_proxy_index
          /\ copy_in_frame_files(q).m_proxy_index = q.m_proxy_index
          /\ copy_out_frame_files(q).m_proxy_index = q.m_proxy_index
    BY DEF copy_in_non_frame_files, copy_in_frame_files, copy_out_frame_files,
           send_execute_request, send_request, RemoteWorkers
  <1>2. \A frame : run_frame(r, frame).m_proxy_index = r.m_proxy_index
    BY <1>1 DEF run_frame, RemoteWorkers
  <1>3. dispatch(r).m_proxy_index \in {r.m_proxy_index, -1}
    BY <1>1 DEF dispatch, RemoteWorkers, States, ReceiveStates
  <1>4. QED
    BY <1>2, <1>3

LEMMA PendingKept ==
  ASSUME AtMostOnePending, Live' \subseteq Live,
         \A c \in Live' : rw'[c].m_proxy_index \in {rw[c].m_proxy_index, -1}
  PROVE  AtMostOnePending'
  BY DEF AtMostOnePending

\* A new connection is the only one to its proxy that waits, or to none.
LEMMA PendingConnected ==
  ASSUME LoopInv, AtMostOnePending, NEW c \in Conns, conn[c] \in {"none", "backlog"},
         NEW valid, NEW index, index = -1 \/ \A d \in Live : rw[d].m_proxy_index # index,
         rw' = [rw EXCEPT ![c] = new_remote_worker(valid, index)],
         workers' = Append(workers, c)
  PROVE  AtMostOnePending'
  <1>1. TypeOK /\ LiveConnected
    BY DEF LoopInv
  <1>2. Live' = Live \cup {c}
    <2>1. /\ Len(workers') = Len(workers) + 1 /\ Len(workers) \in Nat
          /\ \A n \in 1..Len(workers) : workers'[n] = workers[n]
          /\ workers'[Len(workers) + 1] = c
          /\ DOMAIN workers = 1..Len(workers) /\ DOMAIN workers' = 1..Len(workers')
      BY <1>1, AppendProperties, LenProperties DEF TypeOK
    <2>2. ASSUME NEW n \in DOMAIN workers'
          PROVE  n \in DOMAIN workers \/ n = Len(workers) + 1
      BY <2>1
    <2>3. DOMAIN workers \subseteq DOMAIN workers' /\ Len(workers) + 1 \in DOMAIN workers'
      BY <2>1
    <2>4. QED
      BY <2>1, <2>2, <2>3 DEF Live
  <1>3. c \notin Live /\ Live \subseteq Conns
    BY <1>1, LiveConns DEF LiveConnected
  <1>4. rw'[c].m_proxy_index = index /\ \A d \in Live : rw'[d] = rw[d]
    BY <1>1, <1>3 DEF TypeOK, new_remote_worker
  <1>5. QED
    BY <1>2, <1>3, <1>4 DEF AtMostOnePending

\* A step that changes one object, in its place in the vector.
ObjectBecomes(c, r) == UNCHANGED workers /\ rw' = [rw EXCEPT ![c] = r]

LEMMA PendingStep == LoopInv /\ AtMostOnePending /\ [Next]_vars => AtMostOnePending'
  <1> SUFFICES ASSUME LoopInv, AtMostOnePending, [Next]_vars PROVE AtMostOnePending'
    OBVIOUS
  <1>1. TypeOK /\ Live \subseteq Conns
    BY LiveConns DEF LoopInv
  <1>2. CASE UNCHANGED <<workers, rw>>
    BY <1>2 DEF AtMostOnePending, Live
  <1>3. CASE ConnectProxy
    <2>1. CASE Stop("failed")
      BY <1>2, <2>1 DEF Stop
    <2>2. CASE ~Stop("failed")
      <3>1. PICK c \in Proxied :
              /\ conn[c] = "none"
              /\ rw' = [rw EXCEPT ![c] = new_remote_worker(TRUE, Min(proxy_indices))]
              /\ workers' = Append(workers, c)
        BY <1>3, <2>2 DEF ConnectProxy
      <3>2. Min(proxy_indices) \in proxy_indices
        <4>1. proxy_indices \in SUBSET Nat /\ proxy_indices # {}
          BY <1>3 DEF ConnectProxy, proxy_indices
        <4>2. QED
          BY <4>1, MinProperties, Zenon
      <3>3. \A d \in Live : rw[d].m_proxy_index # Min(proxy_indices)
        BY <3>2, Zenon DEF proxy_indices
      <3>4. c \in Conns /\ conn[c] \in {"none", "backlog"}
        BY <3>1 DEF Conns
      <3>5. QED
        BY <3>1, <3>3, <3>4, PendingConnected, Zenon
    <2>3. QED
      BY <2>1, <2>2
  <1>4. ASSUME NEW c \in Direct, Accept(c)
        PROVE  AtMostOnePending'
    <2>1. PICK valid, index :
            index = -1 /\ rw' = [rw EXCEPT ![c] = new_remote_worker(valid, index)]
      BY <1>4, Zenon DEF Accept
    <2>2. c \in Conns /\ conn[c] \in {"none", "backlog"} /\ workers' = Append(workers, c)
      BY <1>4 DEF Accept, Conns
    <2>3. QED
      BY <2>1, <2>2, PendingConnected, Zenon
  <1>5. ASSUME UNCHANGED rw, NEW index \in 1..Len(workers), kill_worker(index)
        PROVE  AtMostOnePending'
    <2>1. Live' \subseteq Live
      BY <1>1, <1>5, KillWorkerKeeps DEF Live
    <2>2. QED
      BY <1>5, <2>1, PendingKept
  <1>6. ASSUME NEW c \in Conns, NEW r, r.m_proxy_index \in {rw[c].m_proxy_index, -1},
               ObjectBecomes(c, r)
        PROVE  AtMostOnePending'
    <2>1. Live' = Live /\ \A d \in Conns : rw'[d] = IF d = c THEN r ELSE rw[d]
      BY <1>1, <1>6 DEF Live, TypeOK, ObjectBecomes
    <2>2. QED
      BY <1>1, <1>6, <2>1, PendingKept
  <1>7. ASSUME NEW c \in Conns, ReceiveSize(c)
        PROVE  AtMostOnePending'
    <2>1. CASE Stop("failed")
      BY <1>2, <2>1 DEF Stop
    <2>2. CASE ~Stop("failed")
      <3>1. rw[c] \in RemoteWorkers
        BY <1>1 DEF TypeOK
      <3>2. PICK r : r = [rw[c] EXCEPT !.m_have_size = TRUE]
        OBVIOUS
      <3>3. r.m_proxy_index = rw[c].m_proxy_index
        BY <3>1, <3>2 DEF RemoteWorkers
      <3>4. ObjectBecomes(c, r)
        BY <1>7, <2>2, <3>2 DEF ReceiveSize, ObjectBecomes
      <3>5. QED
        BY <1>6, <3>3, <3>4
    <2>3. QED
      BY <2>1, <2>2
  <1>8. ASSUME NEW c \in Conns, ReceiveMessage(c)
        PROVE  AtMostOnePending'
    <2>1. CASE \E how \in Stopped : Stop(how)
      BY <1>2, <2>1 DEF Stop
    <2>2. CASE \A how \in Stopped : ~Stop(how)
      <3>1. ObjectBecomes(c, dispatch(rw[c]))
        BY <1>8, <2>2, ReceiveMessageEffect DEF ObjectBecomes
      <3>2. dispatch(rw[c]).m_proxy_index \in {rw[c].m_proxy_index, -1}
        BY <1>1, ProxyIndexKept DEF TypeOK
      <3>3. QED
        BY <1>6, <3>1, <3>2
    <2>3. QED
      BY <2>1, <2>2
  <1>9. ASSUME NEW c \in Conns, ReceiveEnd(c) \/ ReceiveReset(c) \/ ReceiveError(c)
        PROVE  AtMostOnePending'
    <2>1. poll_index \in 1..Len(workers)
      BY <1>9, ReadingIndex DEF ReceiveEnd, ReceiveReset, ReceiveError
    <2>2. UNCHANGED <<workers, rw>> \/ (UNCHANGED rw /\ kill_worker(poll_index))
      BY <1>9 DEF ReceiveEnd, ReceiveReset, ReceiveError, Stop
    <2>3. QED
      BY <1>2, <1>5, <2>1, <2>2
  <1>10. CASE Send
    <2>1. Indexed \in Conns
      BY <1>1, <1>10, ElementOfSeq, LenProperties
         DEF Send, PastTheEnd, LoopInv, EntriesAligned, Serving, TypeOK, Indexed
    <2>2. rw[Indexed] \in RemoteWorkers
      BY <1>1, <2>1 DEF TypeOK
    <2>3. PICK r : r = [rw[Indexed] EXCEPT !.outgoing = NoRequest]
      OBVIOUS
    <2>4. r.m_proxy_index = rw[Indexed].m_proxy_index
      BY <2>2, <2>3 DEF RemoteWorkers
    <2>5. ObjectBecomes(Indexed, r)
      BY <1>10, <2>3 DEF Send, ObjectBecomes
    <2>6. QED
      BY <1>6, <2>1, <2>4, <2>5
  <1>11. CASE Hangup
    <2>1. CASE UNCHANGED <<workers, rw>>
      BY <1>2, <2>1
    <2>2. CASE ~UNCHANGED <<workers, rw>>
      <3>1. kill_worker(poll_index) /\ UNCHANGED rw /\ ~PastTheEnd /\ pc = "hangup"
        BY <1>11, <2>2 DEF Hangup, Stop
      <3>2. poll_index \in 1..Len(workers)
        BY <1>1, <3>1, LenProperties DEF LoopInv, EntriesAligned, Serving, TypeOK, PastTheEnd
      <3>3. QED
        BY <1>5, <3>1, <3>2
    <2>3. QED
      BY <2>1, <2>2
  <1>12. CASE HandOut
    <2>1. CASE Stop("failed")
      BY <1>2, <2>1 DEF Stop
    <2>2. CASE ~Stop("failed")
      <3>1. PICK c, r : /\ c = get_idle_worker /\ r = run_frame(rw[c], Head(frames))
                        /\ ObjectBecomes(c, r) /\ IdleIndices # {}
        BY <1>1, <1>12, <2>2, HandOutEffect DEF ObjectBecomes
      <3>2. c \in Conns /\ rw[c] \in RemoteWorkers
        BY <1>1, <3>1, IdleWorkerFound DEF TypeOK
      <3>3. r.m_proxy_index = rw[c].m_proxy_index
        BY <3>1, <3>2, ProxyIndexKept
      <3>4. QED
        BY <1>6, <3>1, <3>2, <3>3
    <2>3. QED
      BY <2>1, <2>2
  <1>13. CASE ControllerStep
    <2>1. CASE \/ LoopTest \/ ProxiesConnected \/ Poll \/ PollFails \/ NothingToRead
               \/ NothingToWrite \/ SendFails \/ NothingToAccept \/ HandedOut
      BY <1>2, <2>1 DEF LoopTest, ProxiesConnected, Poll, PollFails, NothingToRead,
                        NothingToWrite, SendFails, NothingToAccept, HandedOut, Stop
    <2>2. QED
      BY <1>3, <1>4, <1>7, <1>8, <1>9, <1>10, <1>11, <1>12, <1>13, <2>1 DEF ControllerStep
  <1>14. QED
    BY <1>2, <1>13 DEF Next, WorkerConnects, WorkerReceives, WorkerHandles, WorkerReplies,
                       PeerCloses, ResetArrives, NetworkLost

\* The controller polls after it has connected to every proxy, and until it
\* has polled only others move.
LEMMA PollingStep == PendingWhenPolling /\ [Next]_vars => PendingWhenPolling'
  <1> SUFFICES ASSUME PendingWhenPolling, [Next]_vars, pc' = "poll"
               PROVE  PendingWhenPolling'
    BY DEF PendingWhenPolling
  <1>1. CASE pc = "poll" /\ UNCHANGED <<workers, rw>>
    BY <1>1 DEF PendingWhenPolling, Live
  <1>2. CASE ControllerStep
    <2>1. ProxiesConnected
      BY <1>2 DEF ControllerStep, LoopTest, ConnectProxy, Poll, PollFails, NothingToRead,
         ReceiveSize, ReceiveMessage, ReceiveEnd, ReceiveReset, ReceiveError, NothingToWrite,
         Send, SendFails, Hangup, NothingToAccept, Accept, HandOut, HandedOut, ServedAll,
         Stop, Goto
    <2>2. proxy_indices = {} /\ UNCHANGED <<workers, rw>>
      BY <2>1 DEF ProxiesConnected
    <2>3. \A p \in 0..ProxyCount-1 : \E c \in Live : rw[c].m_proxy_index = p
      BY <2>2 DEF proxy_indices
    <2>4. QED
      BY <2>2, <2>3 DEF PendingWhenPolling, Live
  <1>3. QED
    BY <1>1, <1>2 DEF Next, WorkerConnects, WorkerReceives, WorkerHandles, WorkerReplies,
                      PeerCloses, ResetArrives, NetworkLost

\* However connections to proxies come and go, no proxy is left with two that
\* wait for a worker, and each has one whenever the controller polls.
THEOREM AlwaysOnePending == Spec => []OnePendingPerProxy
  <1>1. Init => AtMostOnePending /\ PendingWhenPolling
    BY DEF Init, AtMostOnePending, PendingWhenPolling, Live
  <1>2. AtMostOnePending /\ PendingWhenPolling => OnePendingPerProxy
    BY DEF OnePendingPerProxy
  <1>3. QED
    BY <1>1, <1>2, LoopInit, LoopStep, PendingStep, PollingStep, PTL DEF Spec

-----------------------------------------------------------------------------
(* The frames: each is held once, none is lost, one that is neither in the *)
(* deque nor with a worker has all its files saved, and when the loop is   *)
(* left that is so for every frame.  The steps of the system are first     *)
(* sorted by what they do to the deque, the vector and the objects' frames. *)

-----------------------------------------------------------------------------
(* What the operators of RemoteWorker do to the frame of an object. *)

\* Nothing but run_frame() changes m_frame.
LEMMA FrameOfOperators ==
  ASSUME NEW r \in RemoteWorkers
  PROVE  /\ dispatch(r).m_frame = r.m_frame
         /\ \A frame \in FrameSet : run_frame(r, frame).m_frame = frame
  <1> DEFINE q == [r EXCEPT !.m_have_size = FALSE]
  <1>1. ASSUME NEW t \in RemoteWorkers
        PROVE  /\ copy_in_non_frame_files(t).m_frame = t.m_frame
               /\ copy_in_frame_files(t).m_frame = t.m_frame
               /\ copy_out_frame_files(t).m_frame = t.m_frame
    BY DEF copy_in_non_frame_files, copy_in_frame_files, copy_out_frame_files,
           send_execute_request, send_request, RemoteWorkers
  <1>2. ASSUME NEW frame \in FrameSet
        PROVE  run_frame(r, frame).m_frame = frame
    <2> DEFINE t == [r EXCEPT !.m_frame = frame, !.m_state_index = 1]
    <2>1. 1 \in Nat \ {0} /\ frame \in FrameSet \cup {NoFrame}
      OBVIOUS
    <2>2. t \in RemoteWorkers /\ t.m_frame = frame
      BY <2>1 DEF RemoteWorkers
    <2>3. QED
      BY <1>1, <2>2 DEF run_frame
  <1>3. /\ q \in RemoteWorkers /\ q.m_frame = r.m_frame
    BY DEF RemoteWorkers
  <1> HIDE DEF q
  <1>4. /\ 1 \in Nat \ {0} /\ -1 \in Int
        /\ q.m_state_index + 1 \in Nat \ {0}
    BY <1>3 DEF RemoteWorkers
  <1>5. /\ [q EXCEPT !.m_proxy_index = -1, !.m_state_index = 1] \in RemoteWorkers
        /\ [q EXCEPT !.m_proxy_index = -1, !.m_state_index = 1].m_frame = r.m_frame
    BY <1>3, <1>4 DEF RemoteWorkers
  <1>6. /\ [q EXCEPT !.m_state_index = @ + 1] \in RemoteWorkers
        /\ [q EXCEPT !.m_state_index = @ + 1].m_frame = r.m_frame
        /\ [q EXCEPT !.m_state_index = 1] \in RemoteWorkers
        /\ [q EXCEPT !.m_state_index = 1].m_frame = r.m_frame
    BY <1>3, <1>4 DEF RemoteWorkers
  <1>7. dispatch(r).m_frame = r.m_frame
    BY <1>1, <1>3, <1>5, <1>6 DEF dispatch, q
  <1>8. QED
    BY <1>2, <1>7

-----------------------------------------------------------------------------
(* The kinds of steps. *)

FramesKept ==
  /\ UNCHANGED <<frames, workers>>
  /\ \A c \in Conns : rw'[c].m_frame = rw[c].m_frame

WorkerAdded(c) ==
  /\ c \in Conns \ Live
  /\ workers' = Append(workers, c)
  /\ frames' = frames
  /\ rw'[c].m_frame = NoFrame
  /\ \A d \in Conns \ {c} : rw'[d].m_frame = rw[d].m_frame

WorkerKilled(index) ==
  /\ index \in 1..Len(workers)
  /\ kill_worker(index)
  /\ rw' = rw

FrameHandedOut(index) ==
  /\ index \in 1..Len(workers)
  /\ is_idle(rw[workers[index]])
  /\ frames # <<>>
  /\ frames' = Tail(frames)
  /\ workers' = workers
  /\ rw'[workers[index]].m_frame = Head(frames)
  /\ \A d \in Conns \ {workers[index]} : rw'[d].m_frame = rw[d].m_frame

\* A response that is decoded changes no frame.
LEMMA DecodeKeepsFrames ==
  ASSUME LoopInv, NEW c \in Conns, ReceiveSize(c) \/ ReceiveMessage(c)
  PROVE  FramesKept
  <1>1. rw \in [Conns -> RemoteWorkers]
    BY DEF LoopInv, TypeOK
  <1>2. CASE UNCHANGED <<frames, workers, rw>>
    BY <1>2 DEF FramesKept
  <1>3. CASE ~UNCHANGED <<frames, workers, rw>>
    <2>1. \A how \in Stopped : ~Stop(how)
      BY <1>3 DEF Stop
    <2>2. CASE ReceiveSize(c)
      <3>1. rw' = [rw EXCEPT ![c].m_have_size = TRUE] /\ UNCHANGED <<frames, workers>>
        BY <2>1, <2>2 DEF ReceiveSize, Stopped
      <3>2. QED
        BY <1>1, <3>1 DEF FramesKept, RemoteWorkers
    <2>3. CASE ReceiveMessage(c)
      <3>1. rw' = [rw EXCEPT ![c] = dispatch(rw[c])] /\ UNCHANGED <<frames, workers>>
        BY <2>1, <2>3, ReceiveMessageEffect
      <3>2. dispatch(rw[c]).m_frame = rw[c].m_frame
        BY <1>1, FrameOfOperators
      <3>3. QED
        BY <1>1, <3>1, <3>2 DEF FramesKept
    <2>4. QED
      BY <2>2, <2>3
  <1>4. QED
    BY <1>2, <1>3

LEMMA SendKeepsFrames ==
  ASSUME LoopInv, Send
  PROVE  FramesKept
  <1>1. rw \in [Conns -> RemoteWorkers]
    BY DEF LoopInv, TypeOK
  <1>2. rw' = [rw EXCEPT ![Indexed].outgoing = NoRequest] /\ UNCHANGED <<frames, workers>>
    BY DEF Send
  <1>3. QED
    BY <1>1, <1>2 DEF FramesKept, RemoteWorkers

\* Connecting and accepting add a worker, or stop.
LEMMA ConnectAddsWorker ==
  ASSUME LoopInv, ConnectProxy \/ \E c \in Direct : Accept(c)
  PROVE  FramesKept \/ \E c \in Conns : WorkerAdded(c)
  <1>1. rw \in [Conns -> RemoteWorkers] /\ Direct \subseteq Conns /\ Proxied \subseteq Conns
    BY DEF LoopInv, TypeOK, Conns
  <1>2. CASE Stop("failed")
    BY <1>2 DEF Stop, FramesKept
  <1>3. CASE ~Stop("failed")
    <2> DEFINE added(c) == /\ conn[c] \in {"none", "backlog"}
                           /\ rw'[c].m_frame = NoFrame
                           /\ \A d \in Conns \ {c} : rw'[d] = rw[d]
                           /\ workers' = Append(workers, c)
                           /\ frames' = frames
    <2>1. ASSUME NEW c \in Conns, NEW valid, NEW proxy_index,
                 rw' = [rw EXCEPT ![c] = new_remote_worker(valid, proxy_index)]
          PROVE  /\ rw'[c].m_frame = NoFrame
                 /\ \A d \in Conns \ {c} : rw'[d] = rw[d]
      BY <1>1, <2>1 DEF new_remote_worker
    <2>2. \E c \in Conns : added(c)
      <3>1. CASE ConnectProxy
        <4>1. PICK c \in Proxied :
                /\ conn[c] = "none"
                /\ rw' = [rw EXCEPT ![c] = new_remote_worker(TRUE, Min(proxy_indices))]
                /\ workers' = Append(workers, c)
                /\ frames' = frames
          BY <1>3, <3>1 DEF ConnectProxy
        <4>2. added(c)
          BY <1>1, <2>1, <4>1
        <4>3. QED
          BY <1>1, <4>2
      <3>2. ASSUME NEW c \in Direct, Accept(c)
            PROVE  added(c)
        <4>1. PICK valid \in BOOLEAN : rw' = [rw EXCEPT ![c] = new_remote_worker(valid, -1)]
          BY <3>2 DEF Accept
        <4>2. conn[c] = "backlog" /\ workers' = Append(workers, c) /\ frames' = frames
          BY <3>2 DEF Accept
        <4>3. QED
          BY <1>1, <2>1, <4>1, <4>2
      <3>3. QED
        BY <1>1, <3>1, <3>2
    <2>3. ASSUME NEW c \in Conns, added(c)
          PROVE  WorkerAdded(c)
      <3>1. c \notin Live
        BY <2>3 DEF LoopInv, LiveConnected
      <3>2. QED
        BY <1>1, <2>3, <3>1 DEF WorkerAdded
    <2>4. QED
      BY <2>2, <2>3
  <1>4. QED
    BY <1>2, <1>3

LEMMA EndKillsWorker ==
  ASSUME LoopInv,
         Hangup \/ \E c \in Conns : ReceiveEnd(c) \/ ReceiveReset(c) \/ ReceiveError(c)
  PROVE  FramesKept \/ \E index \in 1..Len(workers) : WorkerKilled(index)
  <1>1. CASE UNCHANGED <<frames, workers, rw>>
    BY <1>1 DEF FramesKept
  <1>2. CASE ~UNCHANGED <<frames, workers, rw>>
    <2>1. CASE Hangup
      <3>1. kill_worker(poll_index) /\ rw' = rw /\ ~PastTheEnd
        BY <1>2, <2>1 DEF Hangup, Stop
      <3>2. poll_index \in 1..Len(workers)
        BY <2>1, <3>1, LenProperties
           DEF Hangup, LoopInv, TypeOK, EntriesAligned, Serving, PastTheEnd
      <3>3. QED
        BY <3>1, <3>2 DEF WorkerKilled
    <2>2. ASSUME NEW c \in Conns, ReceiveEnd(c) \/ ReceiveReset(c) \/ ReceiveError(c)
          PROVE  \E index \in 1..Len(workers) : WorkerKilled(index)
      <3>1. kill_worker(poll_index) /\ rw' = rw /\ Reading(c)
        BY <1>2, <2>2 DEF ReceiveEnd, ReceiveReset, ReceiveError, Stop
      <3>2. QED
        BY <3>1, ReadingIndex DEF WorkerKilled
    <2>3. QED
      BY <2>1, <2>2
  <1>3. QED
    BY <1>1, <1>2

LEMMA HandOutHandsOut ==
  ASSUME LoopInv, HandOut
  PROVE  FramesKept \/ \E index \in 1..Len(workers) : FrameHandedOut(index)
  <1>1. TypeOK
    BY DEF LoopInv
  <1>2. CASE Stop("failed")
    BY <1>2 DEF Stop, FramesKept
  <1>3. CASE ~Stop("failed")
    <2>1. /\ frames # <<>> /\ IdleIndices # {}
          /\ rw' = [rw EXCEPT ![get_idle_worker] = run_frame(rw[get_idle_worker], Head(frames))]
          /\ frames' = Tail(frames)
          /\ workers' = workers
      BY <1>1, <1>3, HandOutEffect
    <2>2. PICK k \in 1..Len(workers) :
            get_idle_worker = workers[k] /\ is_idle(rw[workers[k]]) /\ workers[k] \in Conns
      BY <1>1, <2>1, IdleWorkerFound
    <2>3. run_frame(rw[workers[k]], Head(frames)).m_frame = Head(frames)
      BY <1>1, <2>1, <2>2, HeadTailProperties, FrameOfOperators DEF TypeOK
    <2>4. FrameHandedOut(k)
      BY <1>1, <2>1, <2>2, <2>3 DEF FrameHandedOut, TypeOK
    <2>5. QED
      BY <2>4
  <1>4. QED
    BY <1>2, <1>3

\* Every step is of one of the four kinds.
LEMMA StepKinds ==
  ASSUME LoopInv, [Next]_vars
  PROVE  \/ FramesKept
         \/ \E c \in Conns : WorkerAdded(c)
         \/ \E index \in 1..Len(workers) : WorkerKilled(index) \/ FrameHandedOut(index)
  <1>1. CASE UNCHANGED <<frames, workers, rw>>
    BY <1>1 DEF FramesKept
  <1>2. CASE \/ LoopTest \/ ProxiesConnected \/ Poll \/ PollFails \/ NothingToRead
             \/ NothingToWrite \/ SendFails \/ NothingToAccept \/ HandedOut
    BY <1>1, <1>2 DEF LoopTest, ProxiesConnected, Poll, PollFails, NothingToRead,
         NothingToWrite, SendFails, NothingToAccept, HandedOut, Stop
  <1>3. ASSUME NEW c \in Conns,
               WorkerConnects(c) \/ WorkerReceives(c) \/ WorkerHandles(c) \/ WorkerReplies(c)
                 \/ PeerCloses(c) \/ ResetArrives(c) \/ NetworkLost(c)
        PROVE  FramesKept
    BY <1>3 DEF FramesKept, WorkerConnects, WorkerReceives, WorkerHandles, WorkerReplies,
         PeerCloses, ResetArrives, NetworkLost
  <1>4. CASE UNCHANGED vars
    BY <1>1, <1>4
  <1>5. Direct \subseteq Conns
    BY DEF Conns
  <1>6. QED
    BY <1>2, <1>3, <1>4, <1>5, DecodeKeepsFrames, SendKeepsFrames, ConnectAddsWorker,
       EndKillsWorker, HandOutHandsOut DEF Next, ControllerStep

-----------------------------------------------------------------------------
(* No frame is held twice. *)

\* FrameHeldOnce, one quantified formula for each pair of places.
FramesDistinct == \A m, n \in 1..Len(frames) : frames[m] = frames[n] => m = n
WorkersDistinct == \A m, n \in 1..Len(workers) : workers[m] = workers[n] => m = n
HeldDistinct ==
  \A m, n \in 1..Len(workers) :
    m # n /\ rw[workers[m]].m_frame = rw[workers[n]].m_frame
      => rw[workers[m]].m_frame = NoFrame
HeldApart ==
  \A m \in 1..Len(workers), n \in 1..Len(frames) :
    rw[workers[m]].m_frame = frames[n] => frames[n] = NoFrame
Distinct == FramesDistinct /\ WorkersDistinct /\ HeldDistinct /\ HeldApart

LEMMA HeldOnceIsDistinct ==
  ASSUME TypeOK
  PROVE  FrameHeldOnce <=> Distinct
  <1>1. DOMAIN frames = 1..Len(frames) /\ DOMAIN workers = 1..Len(workers)
    BY LenProperties DEF TypeOK
  <1>2. Held \cap Queued = {} <=> HeldApart
    BY <1>1, Zenon DEF Held, Queued, Live, HeldApart
  <1>3. QED
    BY <1>1, <1>2, Zenon DEF FrameHeldOnce, Distinct, FramesDistinct, WorkersDistinct, HeldDistinct

LEMMA HeldOnceIsDistinctNext ==
  ASSUME TypeOK'
  PROVE  FrameHeldOnce' <=> Distinct'
  <1>1. DOMAIN frames' = 1..Len(frames') /\ DOMAIN workers' = 1..Len(workers')
    BY LenProperties DEF TypeOK
  <1>2. Held' \cap Queued' = {} <=> HeldApart'
    BY <1>1, Zenon DEF Held, Queued, Live, HeldApart
  <1>3. QED
    BY <1>1, <1>2, Zenon DEF FrameHeldOnce, Distinct, FramesDistinct, WorkersDistinct, HeldDistinct

LEMMA KeptDistinct ==
  ASSUME TypeOK, Distinct, FramesKept
  PROVE  Distinct'
  <1>1. workers' = workers /\ frames' = frames
        /\ \A n \in 1..Len(workers) : rw'[workers[n]].m_frame = rw[workers[n]].m_frame
    BY ElementOfSeq DEF FramesKept, TypeOK
  <1>2. QED
    BY <1>1 DEF Distinct, FramesDistinct, WorkersDistinct, HeldDistinct, HeldApart

LEMMA AddedDistinct ==
  ASSUME TypeOK, Distinct, NEW c \in Conns, WorkerAdded(c)
  PROVE  Distinct'
  <1>1. /\ Len(workers) \in Nat /\ Len(workers') = Len(workers) + 1
        /\ \A n \in 1..Len(workers) : workers'[n] = workers[n]
        /\ workers'[Len(workers) + 1] = c
        /\ frames' = frames
    BY AppendProperties DEF WorkerAdded, TypeOK
  <1>2. \A n \in 1..Len(workers) : workers[n] \in Conns \ {c}
    BY ElementOfSeq, LenProperties DEF WorkerAdded, TypeOK, Live
  <1>3. /\ \A n \in 1..Len(workers) : rw'[workers'[n]].m_frame = rw[workers[n]].m_frame
        /\ rw'[workers'[Len(workers) + 1]].m_frame = NoFrame
    BY <1>1, <1>2 DEF WorkerAdded
  <1>4. 1..Len(workers') = 1..Len(workers) \cup {Len(workers) + 1}
    BY <1>1
  <1>5. FramesDistinct'
    BY <1>1 DEF Distinct, FramesDistinct
  <1>6. WorkersDistinct'
    <2>1. \A n \in 1..Len(workers) : workers'[n] # workers'[Len(workers) + 1]
      BY <1>1, <1>2
    <2>2. QED
      BY <1>1, <1>4, <2>1, Zenon DEF Distinct, WorkersDistinct
  <1>7. HeldDistinct'
    BY <1>1, <1>3, <1>4, Zenon DEF Distinct, HeldDistinct
  <1>8. HeldApart'
    BY <1>1, <1>3, <1>4, Zenon DEF Distinct, HeldApart
  <1>9. QED
    BY <1>5, <1>6, <1>7, <1>8 DEF Distinct

\* What kill_worker() leaves at each index of the vector and of the deque.
LEMMA KilledPlaces ==
  ASSUME TypeOK, NEW index \in 1..Len(workers), WorkerKilled(index)
  PROVE  LET frame  == rw[workers[index]].m_frame
             old(n) == IF n < index THEN n ELSE n + 1
         IN  /\ Len(workers') = Len(workers) - 1
             /\ \A n \in 1..Len(workers') : /\ workers'[n] = workers[old(n)]
                                            /\ old(n) \in 1..Len(workers) \ {index}
             /\ frame = NoFrame => frames' = frames
             /\ frame # NoFrame =>
                  /\ Len(frames') = Len(frames) + 1
                  /\ frames'[1] = frame
                  /\ \A n \in 1..Len(frames) : frames'[n + 1] = frames[n]
  <1> DEFINE frame == rw[workers[index]].m_frame
             old(n) == IF n < index THEN n ELSE n + 1
  <1>1. Len(workers) \in Nat /\ index \in Nat
    BY LenProperties DEF TypeOK
  <1>2. /\ Len(workers') = Len(workers) - 1
        /\ \A n \in 1..Len(workers)-1 : workers'[n] = workers[old(n)]
    BY RemoveAtProperties DEF WorkerKilled, kill_worker, TypeOK
  <1>3. \A n \in 1..Len(workers)-1 : old(n) \in 1..Len(workers) \ {index}
    BY <1>1
  <1>4. frame = NoFrame => frames' = frames
    BY DEF WorkerKilled, kill_worker
  <1>5. ASSUME frame # NoFrame
        PROVE  /\ Len(frames') = Len(frames) + 1
               /\ frames'[1] = frame
               /\ \A n \in 1..Len(frames) : frames'[n + 1] = frames[n]
    <2>1. frames' = <<frame>> \o frames
      BY <1>5 DEF WorkerKilled, kill_worker
    <2>2. frames \in Seq(FrameSet \cup {frame}) /\ <<frame>> \in Seq(FrameSet \cup {frame})
      BY DEF TypeOK
    <2>3. Len(<<frame>>) = 1 /\ <<frame>>[1] = frame /\ Len(frames) \in Nat
      BY LenProperties DEF TypeOK
    <2> HIDE DEF frame
    <2>4. /\ Len(<<frame>> \o frames) = 1 + Len(frames)
          /\ \A n \in 1..1 + Len(frames) :
               (<<frame>> \o frames)[n] = IF n <= 1 THEN <<frame>>[n] ELSE frames[n - 1]
      BY <2>2, <2>3, ConcatProperties
    <2>5. \A n \in 1..Len(frames) : /\ n + 1 \in 1..1 + Len(frames)
                                    /\ ~(n + 1 <= 1) /\ (n + 1) - 1 = n
      BY <2>3
    <2>6. 1 \in 1..1 + Len(frames)
      BY <2>3
    <2>7. \A n \in 1..Len(frames) : frames'[n + 1] = frames[n]
      BY <2>1, <2>4, <2>5
    <2>8. QED
      BY <2>1, <2>3, <2>4, <2>6, <2>7
  <1>6. QED
    BY <1>2, <1>3, <1>4, <1>5

LEMMA KilledDistinct ==
  ASSUME TypeOK, Distinct, NEW index \in 1..Len(workers), WorkerKilled(index)
  PROVE  Distinct'
  <1> DEFINE frame == rw[workers[index]].m_frame
             old(n) == IF n < index THEN n ELSE n + 1
  <1>1. /\ Len(workers') = Len(workers) - 1
        /\ \A n \in 1..Len(workers') : /\ workers'[n] = workers[old(n)]
                                       /\ old(n) \in 1..Len(workers) \ {index}
        /\ rw' = rw
    BY KilledPlaces, Zenon DEF WorkerKilled
  <1>2. frame = NoFrame => frames' = frames
    BY KilledPlaces, Zenon
  <1>3. ASSUME frame # NoFrame
        PROVE  /\ Len(frames') = Len(frames) + 1
               /\ frames'[1] = frame
               /\ \A n \in 1..Len(frames) : frames'[n + 1] = frames[n]
    BY <1>3, KilledPlaces, Zenon
  <1>4. \A m, n \in 1..Len(workers') : old(m) = old(n) => m = n
    BY <1>1, LenProperties DEF TypeOK
  <1>5. Len(frames) \in Nat
    BY LenProperties DEF TypeOK
  <1>6. ASSUME frame # NoFrame, NEW n \in 1..Len(frames')
        PROVE  \/ n = 1 /\ frames'[n] = frame
               \/ n - 1 \in 1..Len(frames) /\ frames'[n] = frames[n - 1]
    <2>1. CASE n = 1
      BY <1>3, <1>6, <2>1
    <2>2. CASE n # 1
      <3>1. n - 1 \in 1..Len(frames) /\ (n - 1) + 1 = n
        BY <1>3, <1>5, <1>6, <2>2
      <3>2. QED
        BY <1>3, <1>6, <3>1
    <2>3. QED
      BY <2>1, <2>2
  <1> HIDE DEF frame, old
  <1>7. WorkersDistinct'
    BY <1>1, <1>4, Zenon DEF Distinct, WorkersDistinct
  <1>8. HeldDistinct'
    <2>1. ASSUME NEW m \in 1..Len(workers'), NEW n \in 1..Len(workers'), m # n,
                 rw'[workers'[m]].m_frame = rw'[workers'[n]].m_frame
          PROVE  rw'[workers'[m]].m_frame = NoFrame
      <3>1. /\ old(m) \in 1..Len(workers) /\ old(n) \in 1..Len(workers) /\ old(m) # old(n)
            /\ rw'[workers'[m]] = rw[workers[old(m)]] /\ rw'[workers'[n]] = rw[workers[old(n)]]
        BY <1>1, <1>4, <2>1
      <3>2. QED
        BY <2>1, <3>1, Zenon DEF Distinct, HeldDistinct
    <2>2. QED
      BY <2>1 DEF HeldDistinct
  <1>9. ASSUME frame # NoFrame
        PROVE  \A n \in 1..Len(frames) : frames[n] # frame
    BY <1>9 DEF Distinct, HeldApart, frame
  <1>10. FramesDistinct'
    <2>1. CASE frame = NoFrame
      BY <1>2, <2>1 DEF Distinct, FramesDistinct
    <2>2. CASE frame # NoFrame
      <3>1. ASSUME NEW m \in 1..Len(frames'), NEW n \in 1..Len(frames'),
                   frames'[m] = frames'[n]
            PROVE  m = n
        <4>1. /\ \/ m = 1 /\ frames'[m] = frame
                 \/ m - 1 \in 1..Len(frames) /\ frames'[m] = frames[m - 1]
              /\ \/ n = 1 /\ frames'[n] = frame
                 \/ n - 1 \in 1..Len(frames) /\ frames'[n] = frames[n - 1]
          BY <1>6, <2>2
        <4>2. m - 1 = n - 1 \/ m = n
          BY <1>9, <2>2, <3>1, <4>1, Zenon DEF Distinct, FramesDistinct
        <4>3. m \in Int /\ n \in Int
          OBVIOUS
        <4>4. QED
          BY <4>2, <4>3
      <3>2. QED
        BY <3>1 DEF FramesDistinct
    <2>3. QED
      BY <2>1, <2>2
  <1>11. HeldApart'
    <2>1. ASSUME NEW m \in 1..Len(workers'), NEW n \in 1..Len(frames'),
                 rw'[workers'[m]].m_frame = frames'[n]
          PROVE  frames'[n] = NoFrame
      <3>1. old(m) \in 1..Len(workers) /\ old(m) # index
            /\ rw[workers[old(m)]].m_frame = frames'[n]
        BY <1>1, <2>1
      <3>2. CASE frame = NoFrame
        BY <1>2, <3>1, <3>2 DEF Distinct, HeldApart
      <3>3. CASE frame # NoFrame /\ n - 1 \in 1..Len(frames) /\ frames'[n] = frames[n - 1]
        BY <3>1, <3>3 DEF Distinct, HeldApart
      <3>4. CASE frame # NoFrame /\ frames'[n] = frame
        BY <3>1, <3>4 DEF Distinct, HeldDistinct, frame
      <3>5. QED
        BY <1>6, <3>2, <3>3, <3>4
    <2>2. QED
      BY <2>1 DEF HeldApart
  <1>12. QED
    BY <1>7, <1>8, <1>10, <1>11 DEF Distinct

LEMMA HandedOutDistinct ==
  ASSUME TypeOK, Distinct, NEW index \in 1..Len(workers), FrameHandedOut(index)
  PROVE  Distinct'
  <1>1. workers' = workers /\ frames # <<>>
    BY DEF FrameHandedOut
  <1>2. /\ Len(frames) \in Nat /\ Len(frames') = Len(frames) - 1
        /\ \A n \in 1..Len(frames') : frames'[n] = frames[n + 1]
        /\ Head(frames) = frames[1]
        /\ 1 \in 1..Len(frames)
    BY HeadTailProperties, EmptySeq, LenProperties DEF FrameHandedOut, TypeOK
  <1>3. \A n \in 1..Len(frames') : n + 1 \in 1..Len(frames) /\ n + 1 # 1
    BY <1>2
  <1>4. \A n \in 1..Len(workers) : workers[n] \in Conns
    BY ElementOfSeq DEF TypeOK
  <1>5. /\ rw'[workers[index]].m_frame = frames[1]
        /\ \A n \in 1..Len(workers) \ {index} :
             rw'[workers[n]].m_frame = rw[workers[n]].m_frame
    BY <1>2, <1>4 DEF FrameHandedOut, Distinct, WorkersDistinct
  <1>6. FramesDistinct'
    <2>1. ASSUME NEW m \in 1..Len(frames'), NEW n \in 1..Len(frames'),
                 frames'[m] = frames'[n]
          PROVE  m = n
      <3>1. m + 1 = n + 1
        BY <1>2, <1>3, <2>1 DEF Distinct, FramesDistinct
      <3>2. m \in Int /\ n \in Int
        OBVIOUS
      <3>3. QED
        BY <3>1, <3>2
    <2>2. QED
      BY <2>1 DEF FramesDistinct
  <1>7. WorkersDistinct'
    BY <1>1 DEF Distinct, WorkersDistinct
  <1>8. HeldDistinct'
    <2>1. ASSUME NEW m \in 1..Len(workers) \ {index},
                 rw[workers[m]].m_frame = frames[1]
          PROVE  frames[1] = NoFrame
      BY <1>2, <2>1, Zenon DEF Distinct, HeldApart
    <2>2. ASSUME NEW m \in 1..Len(workers), NEW n \in 1..Len(workers), m # n,
                 rw'[workers[m]].m_frame = rw'[workers[n]].m_frame
          PROVE  rw'[workers[m]].m_frame = NoFrame
      <3>1. CASE m = index
        <4>1. n \in 1..Len(workers) \ {index} /\ rw[workers[n]].m_frame = frames[1]
          BY <1>5, <2>2, <3>1
        <4>2. QED
          BY <1>5, <2>1, <3>1, <4>1, Zenon
      <3>2. CASE n = index
        <4>1. m \in 1..Len(workers) \ {index} /\ rw[workers[m]].m_frame = frames[1]
              /\ rw'[workers[m]].m_frame = frames[1]
          BY <1>5, <2>2, <3>2
        <4>2. QED
          BY <2>1, <4>1, Zenon
      <3>3. CASE m # index /\ n # index
        <4>1. /\ rw'[workers[m]].m_frame = rw[workers[m]].m_frame
              /\ rw'[workers[n]].m_frame = rw[workers[n]].m_frame
          BY <1>5, <3>3
        <4>2. QED
          BY <2>2, <4>1, Zenon DEF Distinct, HeldDistinct
      <3>4. QED
        BY <3>1, <3>2, <3>3
    <2>3. QED
      BY <1>1, <2>2 DEF HeldDistinct
  <1>9. HeldApart'
    <2>1. ASSUME NEW m \in 1..Len(workers), NEW n \in 1..Len(frames'),
                 rw'[workers[m]].m_frame = frames'[n]
          PROVE  frames'[n] = NoFrame
      <3>1. frames'[n] = frames[n + 1] /\ n + 1 \in 1..Len(frames)
        BY <1>2, <1>3
      <3>2. CASE m = index
        BY <1>2, <1>3, <1>5, <2>1, <3>1, <3>2, Zenon DEF Distinct, FramesDistinct
      <3>3. CASE m # index
        BY <1>5, <2>1, <3>1, <3>3, Zenon DEF Distinct, HeldApart
      <3>4. QED
        BY <3>2, <3>3
    <2>2. QED
      BY <1>1, <2>1 DEF HeldApart
  <1>10. QED
    BY <1>6, <1>7, <1>8, <1>9 DEF Distinct

LEMMA HeldOnceInit ==
  ASSUME Init
  PROVE  FrameHeldOnce
  <1>1. workers = <<>> /\ frames = AllFrames
    BY DEF Init
  <1>2. Live = {} /\ DOMAIN workers = {}
    BY <1>1 DEF Live
  <1>3. QED
    BY <1>1, <1>2, FramesAssumption DEF FrameHeldOnce, Held

LEMMA HeldOnceStep ==
  ASSUME LoopInv, LoopInv', FrameHeldOnce, [Next]_vars
  PROVE  FrameHeldOnce'
  <1>1. TypeOK /\ TypeOK'
    BY DEF LoopInv
  <1>2. Distinct
    BY <1>1, HeldOnceIsDistinct
  <1>3. Distinct'
    BY <1>1, <1>2, StepKinds, KeptDistinct, AddedDistinct, KilledDistinct, HandedOutDistinct
  <1>4. QED
    BY <1>1, <1>3, HeldOnceIsDistinctNext

\* No frame is in two places, however often workers die and their frames are
\* put back (kill_worker(), and the loop that hands out frames).
THEOREM FramesHeldOnce == Spec => []FrameHeldOnce
  <1>1. Init => LoopInv /\ FrameHeldOnce
    BY LoopInit, HeldOnceInit
  <1>2. LoopInv /\ FrameHeldOnce /\ [Next]_vars => (LoopInv /\ FrameHeldOnce)'
    BY LoopStep, HeldOnceStep
  <1>3. QED
    BY <1>1, <1>2, PTL DEF Spec

-----------------------------------------------------------------------------
(* How far one object is with its frame. *)

\* FrameProgress for one object and a set of saved files.
Progress(r, saved) ==
  /\ r.m_state \in {"RECEIVE_WELCOME_RESPONSE", "RECEIVE_COPY_IN_NON_FRAME_FILE"}
       => r.m_frame = NoFrame
  /\ r.m_state = "RECEIVE_COPY_OUT_FRAME_FILE" /\ r.m_frame >= 0
       => \A k \in FrameOutCopies :
            k < r.m_state_index => saved[OutName(k, r.m_frame)] # NoFile
  /\ is_idle(r) /\ r.m_frame >= 0
       => \A k \in FrameOutCopies : saved[OutName(k, r.m_frame)] # NoFile

\* No saved file goes away.
Grows(saved, more) == \A p \in LocalPaths : saved[p] # NoFile => more[p] # NoFile

LEMMA FrameProgressIsProgress ==
  /\ FrameProgress <=> \A c \in Conns : Progress(rw[c], local)
  /\ FrameProgress' <=> \A c \in Conns : Progress(rw'[c], local')
  BY DEF FrameProgress, Progress, Saved

LEMMA OutNameIsLocal ==
  ASSUME NEW k \in DOMAIN OutCopies, NEW frame \in FrameSet \cup {NoFrame}
  PROVE  OutName(k, frame) \in LocalPaths
  <1>1. OutCopies[k].destination \in BOOLEAN
    BY CopyFields DEF FileCopy
  <1>2. QED
    BY <1>1, ProtocolRequests DEF OutName, LocalPaths

LEMMA ProgressGrows ==
  ASSUME NEW r \in RemoteWorkers, NEW saved, NEW more, Grows(saved, more), Progress(r, saved)
  PROVE  Progress(r, more)
  <1>1. \A k \in FrameOutCopies : OutName(k, r.m_frame) \in LocalPaths
    BY OutNameIsLocal DEF FrameOutCopies, RemoteWorkers
  <1>2. QED
    BY <1>1 DEF Progress, Grows

\* Copying out goes on from an index below which everything is saved.
LEMMA CopyOutProgress ==
  ASSUME NEW r \in RemoteWorkers, NEW saved,
         r.m_frame >= 0 => \A k \in FrameOutCopies :
                             k < r.m_state_index => saved[OutName(k, r.m_frame)] # NoFile
  PROVE  Progress(copy_out_frame_files(r), saved)
  <1> DEFINE next == copy_out_frame_files(r)
             left == CopiesLeft(OutCopies, r.m_state_index, r.m_frame)
  <1>1. r.m_frame \in Int /\ r.m_state_index \in Nat \ {0}
    BY FrameIsInt DEF RemoteWorkers
  <1>2. ASSUME r.m_frame >= 0, NEW k \in FrameOutCopies, saved[OutName(k, r.m_frame)] = NoFile
        PROVE  k \in left
    <2>1. k \in 1..Len(OutCopies) /\ has_parameter(OutCopies[k])
      BY CopiesAssumption, LenProperties DEF FrameOutCopies
    <2>2. ~(k < r.m_state_index)
      BY <1>2
    <2>3. k \in r.m_state_index..Len(OutCopies)
      BY <1>1, <2>1, <2>2, CopiesAssumption, LenProperties
    <2>4. QED
      BY <1>2, <2>1, <2>3 DEF CopiesLeft
  <1>3. CASE left = {}
    <2>1. next = [r EXCEPT !.m_state_index = Len(OutCopies) + 1, !.m_state = "IDLE"]
      BY <1>3 DEF copy_out_frame_files
    <2>2. next.m_state = "IDLE" /\ next.m_frame = r.m_frame
      BY <2>1 DEF RemoteWorkers
    <2>3. QED
      BY <1>2, <1>3, <2>2 DEF Progress
  <1>4. CASE left # {}
    <2>1. next = send_request([r EXCEPT !.m_state_index = Min(left)],
                              CopyOutRequest(Min(left), r.m_frame), "RECEIVE_COPY_OUT_FRAME_FILE")
      BY <1>4 DEF copy_out_frame_files
    <2>2. /\ next.m_state = "RECEIVE_COPY_OUT_FRAME_FILE"
          /\ next.m_frame = r.m_frame
          /\ next.m_state_index = Min(left)
      BY <2>1 DEF send_request, RemoteWorkers
    <2>3. /\ Min(left) \in Nat \ {0}
          /\ \A k \in left : Min(left) <= k
      BY <1>1, <1>4, FirstCopyLeft, CopiesAssumption
    <2>4. \A k \in left : k \in Int /\ ~(k < Min(left))
      BY <1>1, <2>3 DEF CopiesLeft
    <2> HIDE DEF left
    <2>5. QED
      BY <1>2, <2>2, <2>4 DEF Progress, is_idle
  <1>5. QED
    BY <1>3, <1>4

LEMMA CopyInProgress ==
  ASSUME NEW r \in RemoteWorkers, NEW saved
  PROVE  /\ r.m_frame = NoFrame => Progress(copy_in_non_frame_files(r), saved)
         /\ Progress(copy_in_frame_files(r), saved)
  <1>1. copy_in_non_frame_files(r).m_frame = r.m_frame
    BY DEF copy_in_non_frame_files, send_request, RemoteWorkers
  <1>2. copy_in_non_frame_files(r).m_state \in {"RECEIVE_COPY_IN_NON_FRAME_FILE", "IDLE"}
    BY DEF copy_in_non_frame_files, send_request, RemoteWorkers
  <1>3. copy_in_frame_files(r).m_state \in {"RECEIVE_COPY_IN_FRAME_FILE", "RECEIVE_EXECUTE_RESPONSE"}
    BY DEF copy_in_frame_files, send_execute_request, send_request, RemoteWorkers
  <1>4. ~(NoFrame >= 0)
    BY DEF NoFrame
  <1>5. QED
    BY <1>1, <1>2, <1>3, <1>4 DEF Progress, is_idle

LEMMA RunFrameProgress ==
  ASSUME NEW r \in RemoteWorkers, NEW frame \in FrameSet, NEW saved
  PROVE  Progress(run_frame(r, frame), saved)
  <1>1. 1 \in Nat \ {0} /\ frame \in FrameSet \cup {NoFrame}
    OBVIOUS
  <1>2. [r EXCEPT !.m_frame = frame, !.m_state_index = 1] \in RemoteWorkers
    BY <1>1 DEF RemoteWorkers
  <1>3. QED
    BY <1>2, CopyInProgress DEF run_frame

\* dispatch() saves the copy it waited for before it goes on to the next.
LEMMA DispatchProgress ==
  ASSUME NEW r \in RemoteWorkers, NEW saved, NEW more,
         Progress(r, saved), Grows(saved, more),
         r.m_state = "RECEIVE_COPY_OUT_FRAME_FILE" /\ r.m_state_index \in DOMAIN OutCopies
           => more[OutName(r.m_state_index, r.m_frame)] # NoFile
  PROVE  Progress(dispatch(r), more)
  <1> DEFINE q == [r EXCEPT !.m_have_size = FALSE]
  <1>1. /\ q \in RemoteWorkers /\ q.m_frame = r.m_frame
        /\ q.m_state_index = r.m_state_index /\ q.m_state = r.m_state
    BY DEF RemoteWorkers
  <1> HIDE DEF q
  <1>2. /\ 1 \in Nat \ {0} /\ -1 \in Int
        /\ q.m_state_index + 1 \in Nat \ {0}
    BY <1>1 DEF RemoteWorkers
  <1>3. CASE r.m_state = "RECEIVE_WELCOME_RESPONSE"
    <2> DEFINE t == [q EXCEPT !.m_proxy_index = -1, !.m_state_index = 1]
    <2>1. t \in RemoteWorkers /\ t.m_frame = q.m_frame
      BY <1>1, <1>2 DEF RemoteWorkers
    <2>2. t.m_frame = NoFrame
      BY <1>1, <1>3, <2>1 DEF Progress
    <2>3. QED
      BY <1>3, <2>1, <2>2, CopyInProgress DEF dispatch, q
  <1>4. CASE r.m_state = "RECEIVE_COPY_IN_NON_FRAME_FILE"
    <2> DEFINE t == [q EXCEPT !.m_state_index = @ + 1]
    <2>1. t \in RemoteWorkers /\ t.m_frame = q.m_frame
      BY <1>1, <1>2 DEF RemoteWorkers
    <2>2. t.m_frame = NoFrame
      BY <1>1, <1>4, <2>1 DEF Progress
    <2>3. QED
      BY <1>4, <2>1, <2>2, CopyInProgress DEF dispatch, q
  <1>5. CASE r.m_state = "RECEIVE_COPY_IN_FRAME_FILE"
    <2>1. [q EXCEPT !.m_state_index = @ + 1] \in RemoteWorkers
      BY <1>1, <1>2 DEF RemoteWorkers
    <2>2. QED
      BY <1>5, <2>1, CopyInProgress DEF dispatch, q
  <1>6. CASE r.m_state = "RECEIVE_EXECUTE_RESPONSE"
    <2> DEFINE t == [q EXCEPT !.m_state_index = 1]
    <2>1. t \in RemoteWorkers /\ t.m_state_index = 1
      BY <1>1, <1>2 DEF RemoteWorkers
    <2>2. \A k \in FrameOutCopies : ~(k < t.m_state_index)
      BY <2>1, CopiesAssumption, LenProperties DEF FrameOutCopies
    <2>3. dispatch(r) = copy_out_frame_files(t)
      BY <1>6 DEF dispatch, q
    <2> HIDE DEF t
    <2>4. QED
      BY <2>1, <2>2, <2>3, CopyOutProgress
  <1>7. CASE r.m_state = "RECEIVE_COPY_OUT_FRAME_FILE"
    <2> DEFINE t == [q EXCEPT !.m_state_index = @ + 1]
    <2>1. t \in RemoteWorkers /\ t.m_frame = r.m_frame /\ t.m_state_index = r.m_state_index + 1
      BY <1>1, <1>2 DEF RemoteWorkers
    <2>2. dispatch(r) = copy_out_frame_files(t)
      BY <1>7 DEF dispatch, q
    <2> HIDE DEF t
    <2>3. ASSUME r.m_frame >= 0, NEW k \in FrameOutCopies, k < r.m_state_index + 1
          PROVE  more[OutName(k, r.m_frame)] # NoFile
      <3>1. k \in DOMAIN OutCopies /\ k \in Int /\ r.m_state_index \in Int
        BY CopiesAssumption, LenProperties DEF FrameOutCopies, RemoteWorkers
      <3>2. CASE k = r.m_state_index
        BY <1>7, <3>1, <3>2
      <3>3. CASE k < r.m_state_index
        <4>1. saved[OutName(k, r.m_frame)] # NoFile
          BY <1>7, <2>3, <3>3 DEF Progress
        <4>2. OutName(k, r.m_frame) \in LocalPaths
          BY <3>1, OutNameIsLocal DEF RemoteWorkers
        <4>3. QED
          BY <4>1, <4>2 DEF Grows
      <3>4. QED
        BY <2>3, <3>1, <3>2, <3>3
    <2>4. QED
      BY <2>1, <2>2, <2>3, CopyOutProgress
  <1>8. CASE r.m_state = "IDLE"
    <2>1. dispatch(r) = q
      BY <1>8 DEF dispatch, q
    <2>2. Progress(q, saved)
      BY <1>1 DEF Progress, is_idle
    <2>3. QED
      BY <1>1, <2>1, <2>2, ProgressGrows
  <1>9. QED
    BY <1>3, <1>4, <1>5, <1>6, <1>7, <1>8 DEF RemoteWorkers, States, ReceiveStates

-----------------------------------------------------------------------------
(* Every step keeps the progress of every object and the saved files. *)

LEMMA GrowsSame == ASSUME UNCHANGED local PROVE Grows(local, local')
  BY DEF Grows

\* A step that changes one object at most, and saves nothing.
LEMMA OneObjectProgress ==
  ASSUME TypeOK, FrameProgress, UNCHANGED local, NEW c, NEW r,
         rw' = [rw EXCEPT ![c] = r],
         c \in Conns => Progress(r, local)
  PROVE  FrameProgress'
  <1>1. \A d \in Conns : rw'[d] = IF d = c THEN r ELSE rw[d]
    BY DEF TypeOK
  <1>2. \A d \in Conns : Progress(rw[d], local)
    BY FrameProgressIsProgress
  <1>3. \A d \in Conns : Progress(rw'[d], local')
    BY <1>1, <1>2, Zenon
  <1>4. QED
    BY <1>3, FrameProgressIsProgress

\* A decoded response: the COPY_OUT that is waited for brings a content.
LEMMA ReceiveMessageProgress ==
  ASSUME TypeOK, FrameProgress, NEW c \in Conns, ReceiveMessage(c),
         \A how \in Stopped : ~Stop(how)
  PROVE  FrameProgress' /\ Grows(local, local')
  <1> DEFINE r == rw[c]
             response == Head(w2c[c]).response
             name == OutName(r.m_state_index, r.m_frame)
  <1>1. /\ response.request_type = ExpectedType(r.m_state)
        /\ response.success
        /\ rw' = [rw EXCEPT ![c] = dispatch(r)]
        /\ r.m_state # "RECEIVE_COPY_OUT_FRAME_FILE" => UNCHANGED local
        /\ r.m_state = "RECEIVE_COPY_OUT_FRAME_FILE" =>
             \E content \in Partial({response.content}) : local' = [local EXCEPT ![name] = content]
        /\ w2c[c] # <<>>
    BY ReceiveMessageEffect
  <1>2. r \in RemoteWorkers /\ response \in Responses \cup {NoResponse}
        /\ local \in [LocalPaths -> Contents]
    <2>1. Head(w2c[c]) \in Parts
      BY <1>1, HeadTailProperties DEF TypeOK
    <2>2. QED
      BY <2>1 DEF TypeOK, Parts
  <1> HIDE DEF r, response, name
  <1>3. ASSUME r.m_state = "RECEIVE_COPY_OUT_FRAME_FILE"
        PROVE  \E content : content # NoFile /\ local' = [local EXCEPT ![name] = content]
    <2>1. response.request_type = "COPY_OUT"
      BY <1>1, <1>3 DEF ExpectedType
    <2>2. response \in Responses
      BY <1>2, <2>1 DEF NoResponse, Response
    <2>3. response.content \in Partial(Names)
      BY <1>1, <2>1, <2>2 DEF Responses
    <2>4. Names \subseteq Int
      BY FrameIsInt DEF Names, Unsubstituted
    <2>5. NoFile \notin Partial({response.content})
      BY <2>3, <2>4, NoFileAssumption DEF Partial
    <2>6. QED
      BY <1>1, <1>3, <2>5, Zenon
  <1>4. Grows(local, local')
    <2>1. CASE r.m_state = "RECEIVE_COPY_OUT_FRAME_FILE"
      <3>1. PICK content : content # NoFile /\ local' = [local EXCEPT ![name] = content]
        BY <1>3, <2>1
      <3>2. \A p \in LocalPaths : local'[p] = IF p = name THEN content ELSE local[p]
        BY <1>2, <3>1
      <3>3. QED
        BY <3>1, <3>2, Zenon DEF Grows
    <2>2. CASE r.m_state # "RECEIVE_COPY_OUT_FRAME_FILE"
      BY <1>1, <2>2, GrowsSame
    <2>3. QED
      BY <2>1, <2>2
  <1>5. ASSUME r.m_state = "RECEIVE_COPY_OUT_FRAME_FILE", r.m_state_index \in DOMAIN OutCopies
        PROVE  local'[name] # NoFile
    <2>1. name \in LocalPaths
      BY <1>2, <1>5, OutNameIsLocal DEF name, RemoteWorkers
    <2>2. QED
      BY <1>2, <1>3, <1>5, <2>1
  <1>6. \A d \in Conns : Progress(rw[d], local) /\ rw[d] \in RemoteWorkers
    BY FrameProgressIsProgress DEF TypeOK
  <1>7. Progress(dispatch(r), local')
    <2>1. Progress(r, local)
      BY <1>6 DEF r
    <2>2. QED
      BY <1>2, <1>4, <1>5, <2>1, DispatchProgress DEF name
  <1>8. \A d \in Conns : rw'[d] = IF d = c THEN dispatch(r) ELSE rw[d]
    BY <1>1 DEF TypeOK
  <1>9. \A d \in Conns : Progress(rw'[d], local')
    <2>1. \A d \in Conns : Progress(rw[d], local')
      BY <1>4, <1>6, ProgressGrows, Zenon
    <2>2. QED
      BY <1>7, <1>8, <2>1, Zenon
  <1>10. QED
    BY <1>4, <1>9, FrameProgressIsProgress

LEMMA NewRemoteWorkerProgress ==
  ASSUME NEW valid, NEW proxy_index, NEW saved
  PROVE  Progress(new_remote_worker(valid, proxy_index), saved)
  BY DEF Progress, new_remote_worker, is_idle

LEMMA ProgressStep ==
  ASSUME LoopInv, FrameProgress, [Next]_vars
  PROVE  FrameProgress' /\ Grows(local, local')
  <1>1. TypeOK
    BY DEF LoopInv
  <1>2. CASE UNCHANGED <<rw, local>>
    BY <1>2, FrameProgressIsProgress, GrowsSame
  <1>3. CASE \/ LoopTest \/ ProxiesConnected \/ Poll \/ PollFails \/ NothingToRead
             \/ NothingToWrite \/ SendFails \/ Hangup \/ NothingToAccept \/ HandedOut
    BY <1>2, <1>3 DEF LoopTest, ProxiesConnected, Poll, PollFails, NothingToRead,
         NothingToWrite, SendFails, Hangup, NothingToAccept, HandedOut, Stop
  <1>4. ASSUME NEW c \in Conns,
               \/ ReceiveEnd(c) \/ ReceiveReset(c) \/ ReceiveError(c)
               \/ WorkerConnects(c) \/ WorkerReceives(c) \/ WorkerHandles(c)
               \/ WorkerReplies(c) \/ PeerCloses(c) \/ ResetArrives(c) \/ NetworkLost(c)
        PROVE  UNCHANGED <<rw, local>>
    BY <1>4 DEF ReceiveEnd, ReceiveReset, ReceiveError, WorkerConnects, WorkerReceives,
         WorkerHandles, WorkerReplies, PeerCloses, ResetArrives, NetworkLost, Stop
  <1>5. ASSUME NEW c \in Conns, ReceiveSize(c), ~Stop("failed")
        PROVE  FrameProgress' /\ Grows(local, local')
    <2> DEFINE r == [rw[c] EXCEPT !.m_have_size = TRUE]
    <2>1. rw' = [rw EXCEPT ![c] = r] /\ UNCHANGED local
      BY <1>5 DEF ReceiveSize
    <2>2. /\ r.m_state = rw[c].m_state /\ r.m_frame = rw[c].m_frame
          /\ r.m_state_index = rw[c].m_state_index
      BY <1>1 DEF TypeOK, RemoteWorkers
    <2>3. Progress(r, local)
      BY <2>2, FrameProgressIsProgress DEF Progress, is_idle
    <2> HIDE DEF r
    <2>4. QED
      BY <1>1, <2>1, <2>3, OneObjectProgress, GrowsSame
  <1>6. ASSUME NEW c \in Conns, ReceiveMessage(c), ~UNCHANGED <<rw, local>>
        PROVE  FrameProgress' /\ Grows(local, local')
    <2>1. \A how \in Stopped : ~Stop(how)
      BY <1>6 DEF Stop
    <2>2. QED
      BY <1>1, <1>6, <2>1, ReceiveMessageProgress
  <1>7. CASE Send
    <2> DEFINE r == [rw[Indexed] EXCEPT !.outgoing = NoRequest]
    <2>1. rw' = [rw EXCEPT ![Indexed] = r] /\ UNCHANGED local
      BY <1>7 DEF Send
    <2>2. ASSUME Indexed \in Conns
          PROVE  /\ r.m_state = rw[Indexed].m_state /\ r.m_frame = rw[Indexed].m_frame
                 /\ r.m_state_index = rw[Indexed].m_state_index
      BY <1>1, <2>2 DEF TypeOK, RemoteWorkers
    <2>3. Indexed \in Conns => Progress(r, local)
      BY <2>2, FrameProgressIsProgress DEF Progress, is_idle
    <2> HIDE DEF r
    <2>4. QED
      BY <1>1, <2>1, <2>3, OneObjectProgress, GrowsSame
  <1>8. ASSUME ConnectProxy \/ \E c \in Direct : Accept(c), ~Stop("failed")
        PROVE  FrameProgress' /\ Grows(local, local')
    <2>1. CASE ConnectProxy
      <3>1. PICK c \in Proxied :
              /\ rw' = [rw EXCEPT ![c] = new_remote_worker(TRUE, Min(proxy_indices))]
              /\ UNCHANGED local
        BY <1>8, <2>1 DEF ConnectProxy
      <3>2. QED
        BY <1>1, <3>1, NewRemoteWorkerProgress, OneObjectProgress, GrowsSame
    <2>2. ASSUME NEW c \in Direct, Accept(c)
          PROVE  FrameProgress' /\ Grows(local, local')
      <3>1. /\ UNCHANGED local
            /\ \E valid \in BOOLEAN : rw' = [rw EXCEPT ![c] = new_remote_worker(valid, -1)]
        BY <2>2 DEF Accept
      <3>2. QED
        BY <1>1, <3>1, NewRemoteWorkerProgress, OneObjectProgress, GrowsSame
    <2>3. QED
      BY <1>8, <2>1, <2>2
  <1>9. ASSUME HandOut, ~Stop("failed")
        PROVE  FrameProgress' /\ Grows(local, local')
    <2>1. /\ rw' = [rw EXCEPT ![get_idle_worker] = run_frame(rw[get_idle_worker], Head(frames))]
          /\ frames # <<>> /\ UNCHANGED local
      BY <1>1, <1>9, HandOutEffect
    <2>2. ASSUME get_idle_worker \in Conns
          PROVE  Progress(run_frame(rw[get_idle_worker], Head(frames)), local)
      BY <1>1, <2>1, <2>2, HeadTailProperties, RunFrameProgress DEF TypeOK
    <2>3. QED
      BY <1>1, <2>1, <2>2, OneObjectProgress, GrowsSame
  <1>10. Stop("failed") => UNCHANGED <<rw, local>>
    BY DEF Stop
  <1>11. UNCHANGED vars => UNCHANGED <<rw, local>>
    OBVIOUS
  <1>12. Direct \subseteq Conns
    BY DEF Conns
  <1>13. QED
    BY <1>2, <1>3, <1>4, <1>5, <1>6, <1>7, <1>8, <1>9, <1>10, <1>11, <1>12
       DEF Next, ControllerStep

-----------------------------------------------------------------------------
(* The frames that are left. *)

LEMMA SavedGrows ==
  ASSUME Grows(local, local'), NEW f \in FrameSet, Saved(f)
  PROVE  Saved(f)'
  <1>1. \A k \in FrameOutCopies : OutName(k, f) \in LocalPaths
    BY OutNameIsLocal DEF FrameOutCopies
  <1>2. QED
    BY <1>1 DEF Saved, Grows

\* Where a frame is, index by index.
LEMMA FrameIsSomewhere ==
  ASSUME TypeOK, NEW f \in FrameSet, f >= 0
  PROVE  /\ f \in Queued <=> \E n \in 1..Len(frames) : frames[n] = f
         /\ f \in Held <=> \E n \in 1..Len(workers) : rw[workers[n]].m_frame = f
  <1>1. DOMAIN frames = 1..Len(frames) /\ DOMAIN workers = 1..Len(workers)
    BY LenProperties DEF TypeOK
  <1>2. f # NoFrame
    BY DEF NoFrame
  <1>3. QED
    BY <1>1, <1>2, Zenon DEF Queued, Held, Live

LEMMA FrameIsSomewhereNext ==
  ASSUME TypeOK', NEW f \in FrameSet, f >= 0
  PROVE  /\ f \in Queued' <=> \E n \in 1..Len(frames') : frames'[n] = f
         /\ f \in Held' <=> \E n \in 1..Len(workers') : rw'[workers'[n]].m_frame = f
  <1>1. DOMAIN frames' = 1..Len(frames') /\ DOMAIN workers' = 1..Len(workers')
    BY LenProperties DEF TypeOK
  <1>2. f # NoFrame
    BY DEF NoFrame
  <1>3. QED
    BY <1>1, <1>2, Zenon DEF Queued, Held, Live

LEMMA NoFrameLostStep ==
  ASSUME LoopInv, LoopInv', FrameHeldOnce, FrameProgress, NoFrameLost, [Next]_vars
  PROVE  NoFrameLost'
  <1>1. TypeOK /\ TypeOK' /\ Grows(local, local') /\ Distinct
    BY ProgressStep, HeldOnceIsDistinct DEF LoopInv
  <1> SUFFICES ASSUME NEW f \in FrameSet, f >= 0
               PROVE  (f \in Queued \/ f \in Held \/ Saved(f))'
    BY DEF NoFrameLost
  <1> DEFINE queued == \E n \in 1..Len(frames') : frames'[n] = f
             held == \E n \in 1..Len(workers') : rw'[workers'[n]].m_frame = f
  <1>2. CASE Saved(f)
    BY <1>1, <1>2, SavedGrows
  <1>3. ASSUME ~Saved(f)
        PROVE  queued \/ held
    <2>1. \/ \E n \in 1..Len(frames) : frames[n] = f
          \/ \E n \in 1..Len(workers) : rw[workers[n]].m_frame = f
      BY <1>1, <1>3, FrameIsSomewhere DEF NoFrameLost
    <2>2. \A n \in 1..Len(workers) : workers[n] \in Conns
      BY <1>1, ElementOfSeq DEF TypeOK
    <2>3. CASE FramesKept
      BY <2>1, <2>2, <2>3 DEF FramesKept
    <2>4. ASSUME NEW c \in Conns, WorkerAdded(c)
          PROVE  queued \/ held
      <3>1. /\ Len(workers) \in Nat /\ Len(workers') = Len(workers) + 1
            /\ \A n \in 1..Len(workers) : workers'[n] = workers[n]
            /\ frames' = frames
        BY <1>1, <2>4, AppendProperties DEF WorkerAdded, TypeOK
      <3>2. \A n \in 1..Len(workers) : workers[n] \in Conns \ {c} /\ n \in 1..Len(workers')
        <4>1. \A n \in 1..Len(workers) : n \in 1..Len(workers')
          BY <3>1
        <4>2. \A n \in 1..Len(workers) : workers[n] \in Live
          BY <1>1, LenProperties DEF TypeOK, Live
        <4>3. QED
          BY <2>2, <2>4, <4>1, <4>2 DEF WorkerAdded
      <3>3. \A n \in 1..Len(workers) : rw'[workers'[n]].m_frame = rw[workers[n]].m_frame
        BY <2>4, <3>1, <3>2 DEF WorkerAdded
      <3>4. QED
        BY <2>1, <3>1, <3>2, <3>3, Zenon
    <2>5. ASSUME NEW index \in 1..Len(workers), WorkerKilled(index)
          PROVE  queued \/ held
      <3> DEFINE frame == rw[workers[index]].m_frame
                 old(n) == IF n < index THEN n ELSE n + 1
      <3>1. /\ Len(workers') = Len(workers) - 1 /\ rw' = rw
            /\ \A n \in 1..Len(workers') : workers'[n] = workers[old(n)]
        BY <1>1, <2>5, KilledPlaces, Zenon DEF WorkerKilled
      <3>2. frame = NoFrame => frames' = frames
        BY <1>1, <2>5, KilledPlaces, Zenon
      <3>3. ASSUME frame # NoFrame
            PROVE  /\ Len(frames') = Len(frames) + 1
                   /\ frames'[1] = frame
                   /\ \A n \in 1..Len(frames) : frames'[n + 1] = frames[n]
        BY <1>1, <2>5, <3>3, KilledPlaces, Zenon
      <3>4. Len(frames) \in Nat /\ Len(workers) \in Nat
        BY <1>1, LenProperties DEF TypeOK
      <3>5. ASSUME NEW n \in 1..Len(frames), frames[n] = f
            PROVE  queued
        <4>1. CASE frame = NoFrame
          BY <3>2, <3>5, <4>1
        <4>2. CASE frame # NoFrame
          <5>1. n + 1 \in 1..Len(frames') /\ frames'[n + 1] = f
            BY <3>3, <3>4, <3>5, <4>2
          <5>2. QED
            BY <5>1
        <4>3. QED
          BY <4>1, <4>2
      <3>6. CASE frame = f
        <4>1. frame # NoFrame
          BY <3>6 DEF NoFrame
        <4>2. 1 \in 1..Len(frames') /\ frames'[1] = f
          BY <3>3, <3>4, <3>6, <4>1
        <4>3. QED
          BY <4>2
      <3>7. ASSUME NEW n \in 1..Len(workers), n # index, rw[workers[n]].m_frame = f
            PROVE  held
        <4> DEFINE now == IF n < index THEN n ELSE n - 1
        <4>1. now \in 1..Len(workers') /\ old(now) = n
          BY <3>1, <3>4, <3>7
        <4>2. rw'[workers'[now]].m_frame = f
          BY <3>1, <3>7, <4>1
        <4>3. QED
          BY <4>1, <4>2
      <3>8. QED
        BY <2>1, <3>5, <3>6, <3>7
    <2>6. ASSUME NEW index \in 1..Len(workers), FrameHandedOut(index)
          PROVE  queued \/ held
      <3>1. /\ workers' = workers
            /\ rw'[workers[index]].m_frame = Head(frames)
            /\ \A n \in 1..Len(workers) \ {index} :
                 rw'[workers[n]].m_frame = rw[workers[n]].m_frame
        BY <1>1, <2>2, <2>6 DEF FrameHandedOut, Distinct, WorkersDistinct
      <3>2. /\ Len(frames) \in Nat /\ Len(frames') = Len(frames) - 1
            /\ \A n \in 1..Len(frames') : frames'[n] = frames[n + 1]
            /\ Head(frames) = frames[1]
        BY <1>1, <2>6, HeadTailProperties, LenProperties DEF FrameHandedOut, TypeOK
      <3>3. rw[workers[index]].m_frame # f
        <4>1. is_idle(rw[workers[index]]) /\ workers[index] \in Conns
          BY <2>2, <2>6 DEF FrameHandedOut
        <4>2. rw[workers[index]].m_frame >= 0 => Saved(rw[workers[index]].m_frame)
          BY <4>1 DEF FrameProgress
        <4>3. QED
          BY <1>3, <4>2
      <3>4. ASSUME NEW n \in 1..Len(frames), frames[n] = f
            PROVE  queued \/ held
        <4>1. CASE n = 1
          BY <3>1, <3>2, <3>4, <4>1
        <4>2. CASE n # 1
          <5>1. n - 1 \in 1..Len(frames') /\ (n - 1) + 1 = n
            BY <3>2, <4>2
          <5>2. frames'[n - 1] = f
            BY <3>2, <3>4, <5>1
          <5>3. QED
            BY <5>1, <5>2
        <4>3. QED
          BY <4>1, <4>2
      <3>5. ASSUME NEW n \in 1..Len(workers), rw[workers[n]].m_frame = f
            PROVE  held
        BY <3>1, <3>3, <3>5
      <3>6. QED
        BY <2>1, <3>4, <3>5
    <2>7. QED
      BY <2>3, <2>4, <2>5, <2>6, StepKinds
  <1>4. QED
    BY <1>1, <1>2, <1>3, FrameIsSomewhereNext

LEMMA NothingLeftStep ==
  ASSUME LoopInv, NothingLeft, [Next]_vars
  PROVE  NothingLeft'
  <1>1. CASE UNCHANGED vars
    BY <1>1 DEF NothingLeft, any_worker_working, Live
  <1>2. CASE LoopTest
    BY <1>2 DEF LoopTest, Goto, NothingLeft, any_worker_working, Live
  <1>3. CASE Next /\ ~LoopTest
    <2>1. pc # "returned"
      BY <1>3 DEF Next, ControllerStep, ConnectProxy, ProxiesConnected, Poll, PollFails,
           NothingToRead, ReceiveSize, ReceiveMessage, ReceiveEnd, ReceiveReset, ReceiveError,
           Reading, NothingToWrite, Send, SendFails, Hangup, NothingToAccept, Accept,
           HandOut, HandedOut, WorkerConnects, WorkerReceives, WorkerHandles, WorkerReplies,
           PeerCloses, ResetArrives, NetworkLost, Running, Stopped
    <2>2. CASE ControllerStep
      BY <1>3, <2>1, <2>2 DEF ControllerStep, ConnectProxy, ProxiesConnected, Poll, PollFails,
           NothingToRead, ReceiveSize, ReceiveMessage, ReceiveEnd, ReceiveReset, ReceiveError,
           NothingToWrite, Send, SendFails, Hangup, NothingToAccept, Accept,
           ServedAll, HandOut, HandedOut, Stop, Goto, NothingLeft
    <2>3. CASE ~ControllerStep
      BY <1>3, <2>1, <2>3 DEF Next, WorkerConnects, WorkerReceives, WorkerHandles,
           WorkerReplies, PeerCloses, ResetArrives, NetworkLost, NothingLeft
    <2>4. QED
      BY <2>2, <2>3
  <1>4. QED
    BY <1>1, <1>2, <1>3

-----------------------------------------------------------------------------

LEMMA IndInvInit ==
  ASSUME Init
  PROVE  IndInv
  <1>1. FrameProgress
    <2>1. \A c \in Conns : rw[c] = new_remote_worker(FALSE, -1)
      BY DEF Init
    <2>2. QED
      BY <2>1, NewRemoteWorkerProgress, FrameProgressIsProgress
  <1>2. FrameSet \subseteq Queued
    BY DEF Init, FrameSet, Queued
  <1>3. NothingLeft
    BY DEF Init, NothingLeft
  <1>4. QED
    BY <1>1, <1>2, <1>3, LoopInit, HeldOnceInit DEF IndInv, NoFrameLost

\* The invariant from which the theorems below follow is one: it holds at
\* first and every step keeps it.
THEOREM IndInvHolds == Spec => []IndInv
  <1>1. Init => IndInv
    BY IndInvInit
  <1>2. IndInv /\ [Next]_vars => IndInv'
    BY LoopStep, HeldOnceStep, ProgressStep, NoFrameLostStep, NothingLeftStep DEF IndInv
  <1>3. QED
    BY <1>1, <1>2, PTL DEF Spec

\* Whenever and however often workers die, each frame is in the deque, with a
\* live worker, or saved (kill_worker(), run_frame(), dispatch()).
THEOREM FramesNotLost == Spec => []NoFrameLost
  <1>1. IndInv => NoFrameLost
    BY DEF IndInv
  <1>2. QED
    BY <1>1, IndInvHolds, PTL

\* When start_controller() returns 0, the files of every frame are saved.
THEOREM AllSavedAtReturn == Spec => []AllFramesSaved
  <1>1. IndInv => AllFramesSaved
    <2> SUFFICES ASSUME IndInv, pc = "returned", NEW f \in FrameSet, f >= 0
                 PROVE  Saved(f)
      BY DEF AllFramesSaved
    <2>1. frames = <<>> /\ ~any_worker_working
      BY DEF IndInv, NothingLeft
    <2>2. f \notin Queued
      BY <2>1 DEF Queued
    <2>3. ASSUME f \in Held
          PROVE  Saved(f)
      <3>1. PICK c \in Live : rw[c].m_frame = f
        BY <2>3 DEF Held
      <3>2. c \in Conns
        BY LiveConns DEF IndInv, LoopInv
      <3>3. is_idle(rw[c])
        BY <2>1 DEF any_worker_working
      <3>4. QED
        BY <3>1, <3>2, <3>3 DEF IndInv, FrameProgress
    <2>4. QED
      BY <2>2, <2>3 DEF IndInv, NoFrameLost
  <1>2. QED
    BY <1>1, IndInvHolds, PTL

-----------------------------------------------------------------------------
(* The controller implements WorkQueue: each kind of step is a step of the *)
(* queue, or changes nothing that the queue has.                           *)

\* The variables of WorkQueue.
Todo    == Queued \cap Frames
Holding == Held \cap Frames
Done    == {f \in Frames : Saved(f)}
Over    == pc = "returned"

\* The frames of an --out copy that is made after every frame are saved under
\* different names.
NamesDiffer == \A k \in FrameOutCopies : OutCopies[k].destination

-----------------------------------------------------------------------------
(* The frames that wait or are held, after each kind of step. *)

LEMMA FramesAreFrames ==
  ASSUME NEW f \in Frames
  PROVE  f \in FrameSet /\ f \in Int /\ f >= 0 /\ f # NoFrame
  BY FrameIsInt DEF Frames, NoFrame

LEMMA QueuePlaces ==
  ASSUME TypeOK, NEW f \in Frames
  PROVE  /\ f \in Todo <=> \E n \in 1..Len(frames) : frames[n] = f
         /\ f \in Holding <=> \E n \in 1..Len(workers) : rw[workers[n]].m_frame = f
  BY FramesAreFrames, FrameIsSomewhere DEF Todo, Holding

LEMMA QueuePlacesNext ==
  ASSUME TypeOK', NEW f \in Frames
  PROVE  /\ f \in Todo' <=> \E n \in 1..Len(frames') : frames'[n] = f
         /\ f \in Holding' <=> \E n \in 1..Len(workers') : rw'[workers'[n]].m_frame = f
  BY FramesAreFrames, FrameIsSomewhereNext DEF Todo, Holding

LEMMA KeptQueue ==
  ASSUME TypeOK, TypeOK', FramesKept
  PROVE  Todo' = Todo /\ Holding' = Holding
  <1>1. workers' = workers /\ frames' = frames
        /\ \A n \in 1..Len(workers) : rw'[workers[n]].m_frame = rw[workers[n]].m_frame
    BY ElementOfSeq DEF FramesKept, TypeOK
  <1>2. \A f \in Frames : (f \in Todo' <=> f \in Todo) /\ (f \in Holding' <=> f \in Holding)
    BY <1>1, QueuePlaces, QueuePlacesNext
  <1>3. QED
    BY <1>2 DEF Todo, Holding

LEMMA AddedQueue ==
  ASSUME TypeOK, TypeOK', NEW c \in Conns, WorkerAdded(c)
  PROVE  Todo' = Todo /\ Holding' = Holding
  <1>1. /\ Len(workers) \in Nat /\ Len(workers') = Len(workers) + 1
        /\ \A n \in 1..Len(workers) : workers'[n] = workers[n]
        /\ workers'[Len(workers) + 1] = c
        /\ frames' = frames
    BY AppendProperties DEF WorkerAdded, TypeOK
  <1>2. \A n \in 1..Len(workers) : workers[n] \in Conns \ {c}
    <2>1. \A n \in 1..Len(workers) : workers[n] \in Live /\ workers[n] \in Conns
      BY LenProperties, ElementOfSeq DEF TypeOK, Live
    <2>2. QED
      BY <2>1 DEF WorkerAdded
  <1>3. /\ \A n \in 1..Len(workers) : rw'[workers'[n]].m_frame = rw[workers[n]].m_frame
        /\ rw'[workers'[Len(workers) + 1]].m_frame = NoFrame
    BY <1>1, <1>2 DEF WorkerAdded
  <1>4. \A n \in 1..Len(workers') : n \in 1..Len(workers) \/ n = Len(workers) + 1
    BY <1>1
  <1>5. \A n \in 1..Len(workers) : n \in 1..Len(workers')
    BY <1>1
  <1>6. ASSUME NEW f \in Frames
        PROVE  (f \in Todo' <=> f \in Todo) /\ (f \in Holding' <=> f \in Holding)
    <2>1. f # NoFrame
      BY FramesAreFrames
    <2>2. (\E n \in 1..Len(workers') : rw'[workers'[n]].m_frame = f)
            <=> (\E n \in 1..Len(workers) : rw[workers[n]].m_frame = f)
      BY <1>3, <1>4, <1>5, <2>1, Zenon
    <2>3. QED
      BY <1>1, <2>2, QueuePlaces, QueuePlacesNext
  <1>7. QED
    BY <1>6 DEF Todo, Holding

\* The frame of a killed worker goes from the held ones to the waiting ones.
LEMMA KilledQueue ==
  ASSUME TypeOK, TypeOK', Distinct, NEW index \in 1..Len(workers), WorkerKilled(index)
  PROVE  LET frame == rw[workers[index]].m_frame
         IN  /\ Todo' = Todo \cup ({frame} \cap Frames)
             /\ Holding' = Holding \ {frame}
             /\ frame \in Frames => frame \in Holding
  <1> DEFINE frame == rw[workers[index]].m_frame
             old(n) == IF n < index THEN n ELSE n + 1
  <1>1. /\ Len(workers') = Len(workers) - 1 /\ rw' = rw
        /\ \A n \in 1..Len(workers') : /\ workers'[n] = workers[old(n)]
                                       /\ old(n) \in 1..Len(workers) \ {index}
    BY KilledPlaces, Zenon DEF WorkerKilled
  <1>2. frame = NoFrame => frames' = frames
    BY KilledPlaces, Zenon
  <1>3. ASSUME frame # NoFrame
        PROVE  /\ Len(frames') = Len(frames) + 1
               /\ frames'[1] = frame
               /\ \A n \in 1..Len(frames) : frames'[n + 1] = frames[n]
    BY <1>3, KilledPlaces, Zenon
  <1>4. Len(frames) \in Nat /\ Len(workers) \in Nat
    BY LenProperties DEF TypeOK
  <1>5. \A n \in 1..Len(workers) \ {index} : \E m \in 1..Len(workers') : old(m) = n
    <2> TAKE n \in 1..Len(workers) \ {index}
    <2> DEFINE now == IF n < index THEN n ELSE n - 1
    <2>1. now \in 1..Len(workers') /\ old(now) = n
      BY <1>1, <1>4
    <2>2. QED
      BY <2>1
  <1>6. \A n \in 1..Len(workers) \ {index} :
          rw[workers[n]].m_frame = frame => frame = NoFrame
    BY DEF Distinct, HeldDistinct
  <1> HIDE DEF frame, old
  <1>7. ASSUME NEW f \in Frames
        PROVE  /\ f \in Todo' <=> f \in Todo \/ f = frame
               /\ f \in Holding' <=> f \in Holding /\ f # frame
    <2>1. f # NoFrame
      BY FramesAreFrames
    <2>2. (\E n \in 1..Len(frames') : frames'[n] = f)
            <=> (\E n \in 1..Len(frames) : frames[n] = f) \/ f = frame
      <3>1. CASE frame = NoFrame
        BY <1>2, <2>1, <3>1
      <3>2. CASE frame # NoFrame
        <4>1. \A n \in 1..Len(frames) : n + 1 \in 1..Len(frames')
          BY <1>3, <1>4, <3>2
        <4>2. 1 \in 1..Len(frames')
          BY <1>3, <1>4, <3>2
        <4>3. \A n \in 1..Len(frames') : n = 1 \/ \E m \in 1..Len(frames) : n = m + 1
          <5> TAKE n \in 1..Len(frames')
          <5>1. n # 1 => n - 1 \in 1..Len(frames) /\ n = (n - 1) + 1
            BY <1>3, <1>4, <3>2
          <5>2. QED
            BY <5>1
        <4>4. /\ frames'[1] = frame
              /\ \A n \in 1..Len(frames) : frames'[n + 1] = frames[n]
          BY <1>3, <3>2
        <4>5. ASSUME NEW n \in 1..Len(frames'), frames'[n] = f
              PROVE  (\E m \in 1..Len(frames) : frames[m] = f) \/ f = frame
          BY <4>3, <4>4, <4>5
        <4>6. ASSUME NEW n \in 1..Len(frames), frames[n] = f
              PROVE  \E m \in 1..Len(frames') : frames'[m] = f
          BY <4>1, <4>4, <4>6
        <4>7. QED
          BY <4>2, <4>4, <4>5, <4>6
      <3>3. QED
        BY <3>1, <3>2
    <2>3. (\E n \in 1..Len(workers') : rw'[workers'[n]].m_frame = f)
            <=> (\E n \in 1..Len(workers) \ {index} : rw[workers[n]].m_frame = f)
      <3>1. \A n \in 1..Len(workers') : rw'[workers'[n]].m_frame = rw[workers[old(n)]].m_frame
        BY <1>1
      <3>2. ASSUME NEW n \in 1..Len(workers'), rw'[workers'[n]].m_frame = f
            PROVE  \E m \in 1..Len(workers) \ {index} : rw[workers[m]].m_frame = f
        BY <1>1, <3>1, <3>2
      <3>3. ASSUME NEW n \in 1..Len(workers) \ {index}, rw[workers[n]].m_frame = f
            PROVE  \E m \in 1..Len(workers') : rw'[workers'[m]].m_frame = f
        <4>1. PICK m \in 1..Len(workers') : old(m) = n
          BY <1>5
        <4>2. rw'[workers'[m]].m_frame = f
          BY <3>1, <3>3, <4>1
        <4>3. QED
          BY <4>1, <4>2
      <3>4. QED
        BY <3>2, <3>3
    <2>4. (\E n \in 1..Len(workers) \ {index} : rw[workers[n]].m_frame = f)
            <=> (\E n \in 1..Len(workers) : rw[workers[n]].m_frame = f) /\ f # frame
      BY <1>6, <2>1, Zenon DEF frame
    <2>5. QED
      BY <2>2, <2>3, <2>4, QueuePlaces, QueuePlacesNext
  <1>8. frame \in Frames => frame \in Holding
    BY QueuePlaces DEF frame
  <1>9. Todo' = Todo \cup ({frame} \cap Frames) /\ Holding' = Holding \ {frame}
    BY <1>7 DEF Todo, Holding
  <1>10. QED
    BY <1>8, <1>9 DEF frame

\* A frame that is handed out waits no more; the worker's last frame is saved.
LEMMA HandedOutQueue ==
  ASSUME TypeOK, TypeOK', Distinct, FrameProgress,
         NEW index \in 1..Len(workers), FrameHandedOut(index)
  PROVE  LET old == rw[workers[index]].m_frame
             new == Head(frames)
         IN  /\ Todo' = Todo \ {new}
             /\ Holding' = (Holding \ {old}) \cup ({new} \cap Frames)
             /\ new \in FrameSet
             /\ new \in Frames => new \in Todo
             /\ old \in Frames => old \in Holding \cap Done
  <1> DEFINE old == rw[workers[index]].m_frame
             new == Head(frames)
  <1>1. \A n \in 1..Len(workers) : workers[n] \in Conns
    BY ElementOfSeq DEF TypeOK
  <1>2. /\ workers' = workers
        /\ rw'[workers[index]].m_frame = new
        /\ \A n \in 1..Len(workers) \ {index} :
             rw'[workers[n]].m_frame = rw[workers[n]].m_frame
    BY <1>1 DEF FrameHandedOut, Distinct, WorkersDistinct
  <1>3. /\ Len(frames) \in Nat \ {0} /\ Len(frames') = Len(frames) - 1
        /\ \A n \in 1..Len(frames') : frames'[n] = frames[n + 1]
        /\ new = frames[1] /\ new \in FrameSet
    BY HeadTailProperties, LenProperties, EmptySeq DEF FrameHandedOut, TypeOK
  <1>4. \A n \in 1..Len(frames) : n # 1 => frames[n] # new
    <2>1. 1 \in 1..Len(frames)
      BY <1>3
    <2>2. QED
      BY <1>3, <2>1 DEF Distinct, FramesDistinct
  <1>5. \A n \in 1..Len(workers) \ {index} :
          rw[workers[n]].m_frame = old => old = NoFrame
    BY DEF Distinct, HeldDistinct
  <1>6. ASSUME old \in Frames
        PROVE  old \in Holding \cap Done
    <2>1. is_idle(rw[workers[index]]) /\ workers[index] \in Conns
      BY <1>1 DEF FrameHandedOut
    <2>2. Saved(old)
      BY <1>6, <2>1, FramesAreFrames DEF FrameProgress
    <2>3. QED
      BY <1>6, <2>2, QueuePlaces DEF Done
  <1> HIDE DEF old, new
  <1>7. ASSUME NEW f \in Frames
        PROVE  /\ f \in Todo' <=> f \in Todo /\ f # new
               /\ f \in Holding' <=> f = new \/ (f \in Holding /\ f # old)
    <2>1. f # NoFrame
      BY FramesAreFrames
    <2>2. ASSUME NEW n \in 1..Len(frames'), frames'[n] = f
          PROVE  (\E m \in 1..Len(frames) : frames[m] = f) /\ f # new
      <3>1. n + 1 \in 1..Len(frames) /\ n + 1 # 1
        BY <1>3
      <3>2. QED
        BY <1>3, <1>4, <2>2, <3>1
    <2>3. ASSUME NEW n \in 1..Len(frames), frames[n] = f, f # new
          PROVE  \E m \in 1..Len(frames') : frames'[m] = f
      <3>1. n - 1 \in 1..Len(frames') /\ (n - 1) + 1 = n
        BY <1>3, <2>3
      <3>2. frames'[n - 1] = f
        BY <1>3, <2>3, <3>1
      <3>3. QED
        BY <3>1, <3>2
    <2>4. ASSUME NEW n \in 1..Len(workers), rw'[workers'[n]].m_frame = f
          PROVE  f = new \/ ((\E m \in 1..Len(workers) : rw[workers[m]].m_frame = f) /\ f # old)
      BY <1>2, <1>5, <2>1, <2>4
    <2>5. ASSUME NEW n \in 1..Len(workers), rw[workers[n]].m_frame = f, f # old
          PROVE  \E m \in 1..Len(workers') : rw'[workers'[m]].m_frame = f
      BY <1>2, <2>5 DEF old
    <2>6. f = new => \E m \in 1..Len(workers') : rw'[workers'[m]].m_frame = f
      BY <1>2
    <2>7. f \in Todo' <=> f \in Todo /\ f # new
      BY <2>2, <2>3, QueuePlaces, QueuePlacesNext
    <2>8. f \in Holding' <=> f = new \/ (f \in Holding /\ f # old)
      <3>1. (\E n \in 1..Len(workers') : rw'[workers'[n]].m_frame = f)
              <=> f = new \/ ((\E n \in 1..Len(workers) : rw[workers[n]].m_frame = f) /\ f # old)
        BY <1>2, <2>4, <2>5, <2>6
      <3>2. QED
        BY <3>1, QueuePlaces, QueuePlacesNext
    <2>9. QED
      BY <2>7, <2>8
  <1>8. new \in Frames => new \in Todo
    <2>1. 1 \in 1..Len(frames)
      BY <1>3
    <2>2. QED
      BY <1>3, <2>1, QueuePlaces
  <1>9. Todo' = Todo \ {new} /\ Holding' = (Holding \ {old}) \cup ({new} \cap Frames)
    BY <1>7 DEF Todo, Holding
  <1>10. QED
    BY <1>3, <1>6, <1>8, <1>9 DEF old, new

-----------------------------------------------------------------------------
(* The frames that are saved. *)

\* Only a response that is decoded saves a file.
LEMMA LocalKept ==
  ASSUME [Next]_vars, \A c \in Conns : ~ReceiveMessage(c)
  PROVE  local' = local
  <1>1. Direct \subseteq Conns
    BY DEF Conns
  <1>2. CASE UNCHANGED vars
    BY <1>2
  <1>3. CASE \E c \in Conns : \/ WorkerConnects(c) \/ WorkerReceives(c) \/ WorkerHandles(c)
                              \/ WorkerReplies(c) \/ PeerCloses(c) \/ ResetArrives(c)
                              \/ NetworkLost(c)
    BY <1>3 DEF WorkerConnects, WorkerReceives, WorkerHandles, WorkerReplies, PeerCloses,
         ResetArrives, NetworkLost
  <1>4. CASE ControllerStep
    BY <1>4 DEF ControllerStep, LoopTest, ConnectProxy, ProxiesConnected, Poll, PollFails,
         NothingToRead, ReceiveSize, ReceiveEnd, ReceiveReset, ReceiveError, NothingToWrite,
         Send, SendFails, Hangup, NothingToAccept, Accept, HandOut, HandedOut, Stop
  <1>5. QED
    BY <1>1, <1>2, <1>3, <1>4 DEF Next

\* What a step saves belongs to a frame that a worker has.
LEMMA SavedQueue ==
  ASSUME LoopInv, FrameProgress, NamesDiffer, [Next]_vars
  PROVE  \/ Done' = Done
         \/ \E f \in Holding : Done' = Done \cup {f} /\ FramesKept
  <1>1. TypeOK /\ Grows(local, local')
    BY ProgressStep DEF LoopInv
  <1>2. CASE local' = local
    BY <1>2 DEF Done, Saved
  <1>3. ASSUME NEW c \in Conns, ReceiveMessage(c), local' # local
        PROVE  Done' = Done \/ \E f \in Holding : Done' = Done \cup {f} /\ FramesKept
    <2> DEFINE frame == rw[c].m_frame
               index == rw[c].m_state_index
    <2>1. \A how \in Stopped : ~Stop(how)
      BY <1>3 DEF Stop
    <2>2. \E content : local' = [local EXCEPT ![OutName(index, frame)] = content]
      BY <1>3, <2>1, ReceiveMessageEffect
    <2>3. FramesKept
      BY <1>3, DecodeKeepsFrames
    <2>4. frame \in FrameSet \cup {NoFrame} /\ frame \in Int
      BY <1>1, FrameIsInt DEF TypeOK, RemoteWorkers
    <2>5. frame \in Frames => frame \in Holding
      <3>1. c \in {workers[n] : n \in 1..Len(workers)}
        BY <1>3, ReadingIndex DEF ReceiveMessage
      <3>2. QED
        BY <1>1, <3>1, QueuePlaces
    <2> HIDE DEF frame, index
    <2>6. PICK g \in FrameSet \cup {NoFrame} : g = frame
      BY <2>4
    <2>7. ASSUME NEW f \in Frames, f # g, NEW k \in FrameOutCopies
          PROVE  OutName(k, f) # OutName(index, frame)
      <3>1. OutName(k, f) = <<k, f>>
        BY <2>7, FramesAreFrames DEF NamesDiffer, OutName, substitute_parameter
      <3>2. \E h \in {frame, -1} : OutName(index, frame) = <<index, h>>
        BY DEF OutName, substitute_parameter, Unsubstituted
      <3>3. f # -1
        BY FramesAreFrames
      <3>4. QED
        BY <2>6, <2>7, <3>1, <3>2, <3>3
    <2>8. ASSUME NEW f \in Frames, f # g
          PROVE  Saved(f)' <=> Saved(f)
      <3>1. \A k \in FrameOutCopies : OutName(k, f) \in LocalPaths
        BY OutNameIsLocal, FramesAreFrames DEF FrameOutCopies
      <3>2. \A p \in LocalPaths : p # OutName(index, frame) => local'[p] = local[p]
        BY <1>1, <2>2 DEF TypeOK
      <3>3. \A k \in FrameOutCopies : local'[OutName(k, f)] = local[OutName(k, f)]
        BY <2>7, <2>8, <3>1, <3>2
      <3>4. QED
        BY <3>3 DEF Saved
    <2>9. /\ \A f \in Frames : f \in Done <=> Saved(f)
          /\ \A f \in Frames : f \in Done' <=> Saved(f)'
          /\ Done \subseteq Frames /\ Done' \subseteq Frames
      BY DEF Done
    <2>10. CASE g \in Frames /\ Saved(g)'
      <3>1. \A f \in Frames : f \in Done' <=> f \in Done \/ f = g
        BY <2>8, <2>9, <2>10, Zenon
      <3>2. Done' = Done \cup {g}
        BY <2>9, <2>10, <3>1
      <3>3. QED
        BY <2>3, <2>5, <2>6, <2>10, <3>2
    <2>11. CASE g \in Frames /\ ~Saved(g)'
      <3>1. ~Saved(g)
        BY <1>1, <2>11, SavedGrows, FramesAreFrames
      <3>2. \A f \in Frames : f \in Done' <=> f \in Done
        BY <2>8, <2>9, <2>11, <3>1, Zenon
      <3>3. QED
        BY <2>9, <3>2
    <2>12. CASE g \notin Frames
      <3>1. \A f \in Frames : f \in Done' <=> f \in Done
        BY <2>8, <2>9, <2>12, Zenon
      <3>2. QED
        BY <2>9, <3>1
    <2>13. QED
      BY <2>10, <2>11, <2>12
  <1>4. QED
    BY <1>2, <1>3, LocalKept

-----------------------------------------------------------------------------
(* The end. *)

\* Nothing happens after the end, and only the loop test ends the loop so.
LEMMA OverAfterTest ==
  ASSUME Next
  PROVE  ~Over /\ (Over' => LoopTest)
  <1>1. pc # "returned"
    BY DEF Next, ControllerStep, LoopTest, ConnectProxy, ProxiesConnected, Poll, PollFails,
         NothingToRead, ReceiveSize, ReceiveMessage, ReceiveEnd, ReceiveReset, ReceiveError,
         Reading, NothingToWrite, Send, SendFails, Hangup, NothingToAccept, Accept,
         HandOut, HandedOut, WorkerConnects, WorkerReceives, WorkerHandles, WorkerReplies,
         PeerCloses, ResetArrives, NetworkLost, Running, Stopped
  <1>2. CASE ControllerStep
    BY <1>1, <1>2 DEF ControllerStep, ConnectProxy, ProxiesConnected, Poll, PollFails,
         NothingToRead, ReceiveSize, ReceiveMessage, ReceiveEnd, ReceiveReset, ReceiveError,
         NothingToWrite, Send, SendFails, Hangup, NothingToAccept, Accept,
         ServedAll, HandOut, HandedOut, Stop, Goto, Over
  <1>3. CASE ~ControllerStep
    BY <1>1, <1>3 DEF Next, WorkerConnects, WorkerReceives, WorkerHandles,
         WorkerReplies, PeerCloses, ResetArrives, NetworkLost, Over
  <1>4. QED
    BY <1>1, <1>2, <1>3 DEF Over

\* When nobody works, what the workers hold is saved.
LEMMA IdleHoldSaved ==
  ASSUME LoopInv, FrameProgress, frames = <<>>, ~any_worker_working
  PROVE  Todo = {} /\ Holding \subseteq Done
  <1>1. Todo = {}
    BY DEF Todo, Queued
  <1>2. ASSUME NEW f \in Frames, f \in Held
        PROVE  f \in Done
    <2>1. PICK c \in Live : rw[c].m_frame = f
      BY <1>2 DEF Held
    <2>2. c \in Conns /\ is_idle(rw[c])
      BY LiveConns DEF LoopInv, any_worker_working
    <2>3. Saved(f)
      BY <2>1, <2>2, FramesAreFrames DEF FrameProgress
    <2>4. QED
      BY <2>3 DEF Done
  <1>3. QED
    BY <1>1, <1>2 DEF Holding

-----------------------------------------------------------------------------
(* The refinement. *)

\* WorkQueue in terms of the definitions of this module.
LEMMA QueueActions ==
  /\ Q!queueVars = <<Todo, Holding, Done, Over>>
  /\ Q!queueVars' = <<Todo', Holding', Done', Over'>>
  BY DEF Q!queueVars, Todo, Holding, Done, Over

LEMMA QueueStep ==
  ASSUME ~Over, ~Over', NEW w \in Frames,
         \/ /\ w \in Todo /\ Todo' = Todo \ {w} /\ Done' = Done
            /\ \/ Holding' = Holding \cup {w}
               \/ \E old \in Holding \cap Done : Holding' = (Holding \ {old}) \cup {w}
         \/ w \in Holding /\ Done' = Done \cup {w} /\ Todo' = Todo /\ Holding' = Holding
         \/ /\ w \in Holding /\ Holding' = Holding \ {w} /\ Todo' = Todo \cup {w}
            /\ Done' = Done
         \/ /\ w \in Holding \cap Done /\ Holding' = Holding \ {w} /\ Todo' = Todo
            /\ Done' = Done
  PROVE  Q!Next
  <1>1. Q!Take(w) \/ Q!Save(w) \/ Q!GiveBack(w) \/ Q!Release(w)
    BY Zenon DEF Q!Take, Q!Save, Q!GiveBack, Q!Release, Todo, Holding, Done, Over
  <1>2. QED
    BY <1>1 DEF Q!Next, Over

LEMMA StepIsQueueStep ==
  ASSUME IndInv, IndInv', NamesDiffer, [Next]_vars
  PROVE  [Q!Next]_(Q!queueVars)
  <1>1. /\ TypeOK /\ TypeOK' /\ Distinct /\ FrameProgress
        /\ LoopInv /\ LoopInv'
    BY HeldOnceIsDistinct DEF IndInv, LoopInv
  <1>2. CASE UNCHANGED vars
    <2>1. Todo' = Todo /\ Holding' = Holding /\ Done' = Done /\ Over' = Over
      BY <1>2 DEF Todo, Holding, Done, Over, Queued, Held, Live, Saved
    <2>2. QED
      BY <2>1, QueueActions
  <1>3. CASE LoopTest
    <2>1. Todo' = Todo /\ Holding' = Holding /\ Done' = Done
      BY <1>3 DEF LoopTest, Todo, Holding, Done, Queued, Held, Live, Saved
    <2>2. CASE Over'
      <3>1. frames = <<>> /\ ~any_worker_working /\ ~Over
        BY <1>3, <2>2 DEF LoopTest, Goto, Over
      <3>2. Q!End /\ ~Over
        BY <1>1, <2>1, <2>2, <3>1, IdleHoldSaved DEF Q!End, Todo, Holding, Done, Over
      <3>3. QED
        BY <3>2 DEF Q!Next, Over
    <2>3. CASE ~Over'
      <3>1. Over' = Over
        BY <1>3, <2>3 DEF LoopTest, Over
      <3>2. QED
        BY <2>1, <3>1, QueueActions
    <2>4. QED
      BY <2>2, <2>3
  <1>4. CASE Next /\ ~LoopTest
    <2>1. ~Over /\ ~Over' /\ (Over' = Over)
      BY <1>4, OverAfterTest DEF Over
    <2>2. ASSUME NEW f \in Holding, Done' = Done \cup {f}, FramesKept
          PROVE  Q!Next
      <3>1. f \in Frames
        BY DEF Holding
      <3>2. Todo' = Todo /\ Holding' = Holding
        BY <1>1, <2>2, KeptQueue
      <3>3. QED
        BY <2>1, <2>2, <3>1, <3>2, QueueStep
    <2>3. ASSUME Done' = Done
          PROVE  Q!Next \/ (Todo' = Todo /\ Holding' = Holding)
      <3>1. CASE FramesKept
        BY <1>1, <3>1, KeptQueue
      <3>2. ASSUME NEW c \in Conns, WorkerAdded(c)
            PROVE  Todo' = Todo /\ Holding' = Holding
        BY <1>1, <3>2, AddedQueue
      <3>3. ASSUME NEW index \in 1..Len(workers), WorkerKilled(index)
            PROVE  Q!Next \/ (Todo' = Todo /\ Holding' = Holding)
        <4>1. PICK frame : /\ Todo' = Todo \cup ({frame} \cap Frames)
                           /\ Holding' = Holding \ {frame}
                           /\ frame \in Frames => frame \in Holding
          BY <1>1, <3>3, KilledQueue
        <4>2. CASE frame \in Frames
          BY <2>1, <2>3, <4>1, <4>2, QueueStep
        <4>3. CASE frame \notin Frames
          BY <4>1, <4>3 DEF Holding
        <4>4. QED
          BY <4>2, <4>3
      <3>4. ASSUME NEW index \in 1..Len(workers), FrameHandedOut(index)
            PROVE  Q!Next \/ (Todo' = Todo /\ Holding' = Holding)
        <4>1. PICK old, new : /\ Todo' = Todo \ {new}
                              /\ Holding' = (Holding \ {old}) \cup ({new} \cap Frames)
                              /\ new \in Frames => new \in Todo
                              /\ old \in Frames => old \in Holding \cap Done
          BY <1>1, <3>4, HandedOutQueue
        <4>2. /\ Holding \subseteq Frames /\ Todo \subseteq Frames
              /\ old \notin Frames => Holding \ {old} = Holding
              /\ new \notin Frames => Todo \ {new} = Todo
          BY DEF Holding, Todo
        <4>3. CASE new \in Frames /\ old \in Frames
          BY <2>1, <2>3, <4>1, <4>3, QueueStep
        <4>4. CASE new \in Frames /\ old \notin Frames
          BY <2>1, <2>3, <4>1, <4>2, <4>4, QueueStep
        <4>5. CASE new \notin Frames /\ old \in Frames
          BY <2>1, <2>3, <4>1, <4>2, <4>5, QueueStep
        <4>6. CASE new \notin Frames /\ old \notin Frames
          BY <4>1, <4>2, <4>6
        <4>7. QED
          BY <4>3, <4>4, <4>5, <4>6
      <3>5. QED
        BY <1>1, <3>1, <3>2, <3>3, <3>4, StepKinds
    <2>4. QED
      BY <1>1, <2>1, <2>2, <2>3, SavedQueue, QueueActions
  <1>5. QED
    BY <1>2, <1>3, <1>4

\* start_controller() implements WorkQueue, for all workers, frames and
\* copies, if the name under which an --out copy is saved has a parameter.
THEOREM ControllerIsWorkQueue ==
  ASSUME NamesDiffer
  PROVE  Spec => ActsAsWorkQueue
  <1>1. Init => Q!Init
    <2> SUFFICES ASSUME Init
                 PROVE  Todo = Frames /\ Holding = {} /\ Done \subseteq Frames /\ ~Over
      BY DEF Q!Init, Todo, Holding, Done, Over
    <2>1. Todo = Frames
      BY DEF Init, Todo, Frames, Queued, FrameSet
    <2>2. Holding = {}
      BY DEF Init, Holding, Held, Live
    <2>3. QED
      BY <2>1, <2>2 DEF Init, Done, Over
  <1>2. IndInv /\ IndInv' /\ [Next]_vars => [Q!Next]_(Q!queueVars)
    BY StepIsQueueStep
  <1>3. QED
    BY <1>1, <1>2, IndInvHolds, PTL DEF Spec, ActsAsWorkQueue, Q!Spec
=============================================================================
