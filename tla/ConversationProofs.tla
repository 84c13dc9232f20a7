-------------------------- MODULE ConversationProofs --------------------------
(***************************************************************************)
(* Theorems about the conversation between a RemoteWorker and its worker:  *)
(* they move in lockstep, the program finds its input files and what is    *)
(* saved for a frame was made for it.                                      *)
(***************************************************************************)
EXTENDS ControllerProofs

USE DEF controllerVars, loopVars, socketVars, workerVars, vars

-----------------------------------------------------------------------------
(* What the operators of RemoteWorker leave.                               *)

\* An object that is called back from a method either waits for the response
\* to the request in its buffer or is idle and has none.
Asks(r) ==
  /\ ~r.m_have_size
  /\ r.outgoing = IF is_idle(r) THEN NoRequest ELSE Requested(r)
  /\ IndexInRange(r)

\* Nothing is in either buffer: a method may be called.
Quiet(r) == r.outgoing = NoRequest /\ ~r.m_have_size

Common == CopiesLeft(InCopies, 1, -1)
CommonReady(fs) == \A k \in Common : Ready(fs, k, -1)

\* An index that is left from some index on is left from the first on.
LEMMA LeftFromFirst ==
  ASSUME NEW copies \in Seq(FileCopy), NEW index \in Nat \ {0}, NEW frame \in Int,
         NEW k
  PROVE  k \in CopiesLeft(copies, index, frame)
           <=> k \in CopiesLeft(copies, 1, frame) /\ ~(k < index)
  BY LenProperties DEF CopiesLeft

\* From the first index on, everything before the first copy left is done.
LEMMA BeforeFirstLeft ==
  ASSUME NEW copies \in Seq(FileCopy), NEW index \in Nat \ {0}, NEW frame \in Int,
         CopiesLeft(copies, index, frame) # {}
  PROVE  LET first == Min(CopiesLeft(copies, index, frame))
         IN  /\ first \in CopiesLeft(copies, 1, frame)
             /\ first \in Nat \ {0}
             /\ \A k \in CopiesLeft(copies, 1, frame) : k < first => k < index
  <1> DEFINE left == CopiesLeft(copies, index, frame)
  <1>1. /\ Min(left) \in left /\ Min(left) \in Nat \ {0}
        /\ \A k \in left : Min(left) <= k
    BY FirstCopyLeft
  <1>2. \A k \in left : k \in Int
    BY LenProperties DEF CopiesLeft
  <1> HIDE DEF left
  <1>3. QED
    BY <1>1, <1>2, LeftFromFirst DEF left

\* case SEND_COPY_IN_NON_FRAME_FILE
LEMMA CopyInCommon ==
  ASSUME NEW r \in RemoteWorkers, Quiet(r), NEW fs,
         \A k \in Common : k < r.m_state_index => Ready(fs, k, -1)
  PROVE  LET next == copy_in_non_frame_files(r)
         IN  Asks(next) /\ CopiedIn(next, fs)
             /\ next.m_state # "RECEIVE_COPY_OUT_FRAME_FILE"
  <1> DEFINE left == CopiesLeft(InCopies, r.m_state_index, -1)
             next == copy_in_non_frame_files(r)
  <1>1. r.m_state_index \in Nat \ {0} /\ -1 \in Int /\ InCopies \in Seq(FileCopy)
    BY CopiesAssumption DEF RemoteWorkers
  <1>2. CASE left = {}
    <2>1. /\ next.m_state = "IDLE" /\ next.outgoing = NoRequest /\ ~next.m_have_size
      BY <1>2 DEF copy_in_non_frame_files, RemoteWorkers, Quiet
    <2>2. \A k \in Common : k < r.m_state_index
      BY <1>1, <1>2, LeftFromFirst DEF Common
    <2> HIDE DEF next
    <2>3. QED
      BY <2>1, <2>2 DEF Asks, is_idle, IndexInRange, CopiedIn, Common, next
  <1>3. CASE left # {}
    <2>1. next = send_request([r EXCEPT !.m_state_index = Min(left)],
                        CopyInRequest(Min(left), -1), "RECEIVE_COPY_IN_NON_FRAME_FILE")
      BY <1>3 DEF copy_in_non_frame_files
    <2>2. /\ next.m_state = "RECEIVE_COPY_IN_NON_FRAME_FILE"
          /\ next.m_state_index = Min(left)
          /\ next.outgoing = CopyInRequest(Min(left), -1) /\ ~next.m_have_size
      BY <2>1 DEF send_request, RemoteWorkers
    <2>3. /\ Min(left) \in Common
          /\ \A k \in Common : k < Min(left) => k < r.m_state_index
      BY <1>1, <1>3, BeforeFirstLeft DEF Common
    <2> HIDE DEF left, next
    <2>4. Asks(next)
      BY <2>2, <2>3 DEF Asks, is_idle, Requested, IndexInRange, Common
    <2>5. CopiedIn(next, fs)
      BY <2>2, <2>3 DEF CopiedIn, Common
    <2>6. QED
      BY <2>2, <2>4, <2>5 DEF next
  <1>4. QED
    BY <1>2, <1>3

\* case SEND_COPY_IN_FRAME_FILE
LEMMA CopyInFrame ==
  ASSUME NEW r \in RemoteWorkers, Quiet(r), NEW fs, CommonReady(fs),
         r.m_frame >= 0 => \A k \in CopiesLeft(InCopies, 1, r.m_frame) :
                             k < r.m_state_index => Ready(fs, k, r.m_frame)
  PROVE  LET next == copy_in_frame_files(r)
         IN  Asks(next) /\ CopiedIn(next, fs)
             /\ next.m_state # "RECEIVE_COPY_OUT_FRAME_FILE"
  <1> DEFINE left == CopiesLeft(InCopies, r.m_state_index, r.m_frame)
             all  == CopiesLeft(InCopies, 1, r.m_frame)
             next == copy_in_frame_files(r)
  <1>1. r.m_state_index \in Nat \ {0} /\ r.m_frame \in Int /\ InCopies \in Seq(FileCopy)
    BY CopiesAssumption, FrameIsInt DEF RemoteWorkers
  <1>2. CASE left = {}
    <2>1. next = send_execute_request([r EXCEPT !.m_state_index = Len(InCopies) + 1])
      BY <1>2 DEF copy_in_frame_files
    <2>2. /\ next.m_state = "RECEIVE_EXECUTE_RESPONSE" /\ next.m_frame = r.m_frame
          /\ next.outgoing = ExecuteRequest(r.m_frame) /\ ~next.m_have_size
      BY <2>1 DEF send_execute_request, send_request, RemoteWorkers
    <2>3. \A k \in all : k < r.m_state_index
      BY <1>1, <1>2, LeftFromFirst
    <2> HIDE DEF next
    <2>4. Asks(next)
      BY <2>2 DEF Asks, is_idle, Requested, IndexInRange
    <2>5. CopiedIn(next, fs)
      BY <2>2, <2>3 DEF CopiedIn, CommonReady, Common
    <2>6. QED
      BY <2>2, <2>4, <2>5 DEF next
  <1>3. CASE left # {}
    <2>1. next = send_request([r EXCEPT !.m_state_index = Min(left)],
                        CopyInRequest(Min(left), r.m_frame), "RECEIVE_COPY_IN_FRAME_FILE")
      BY <1>3 DEF copy_in_frame_files
    <2>2. /\ next.m_state = "RECEIVE_COPY_IN_FRAME_FILE"
          /\ next.m_state_index = Min(left) /\ next.m_frame = r.m_frame
          /\ next.outgoing = CopyInRequest(Min(left), r.m_frame) /\ ~next.m_have_size
      BY <2>1 DEF send_request, RemoteWorkers
    <2>3. /\ Min(left) \in all
          /\ \A k \in all : k < Min(left) => k < r.m_state_index
      BY <1>1, <1>3, BeforeFirstLeft
    <2> HIDE DEF left, next
    <2>4. Asks(next)
      BY <2>2, <2>3 DEF Asks, is_idle, Requested, IndexInRange
    <2>5. CopiedIn(next, fs)
      BY <2>2, <2>3 DEF CopiedIn, CommonReady, Common
    <2>6. QED
      BY <2>2, <2>4, <2>5 DEF next
  <1>4. QED
    BY <1>2, <1>3

\* case SEND_COPY_OUT_FRAME_FILE
LEMMA CopyOutFrame ==
  ASSUME NEW r \in RemoteWorkers, Quiet(r), NEW fs, CommonReady(fs)
  PROVE  LET next == copy_out_frame_files(r)
         IN  Asks(next) /\ CopiedIn(next, fs) /\ next.m_frame = r.m_frame
  <1> DEFINE left == CopiesLeft(OutCopies, r.m_state_index, r.m_frame)
             next == copy_out_frame_files(r)
  <1>1. r.m_state_index \in Nat \ {0} /\ r.m_frame \in Int /\ OutCopies \in Seq(FileCopy)
    BY CopiesAssumption, FrameIsInt DEF RemoteWorkers
  <1>2. CASE left = {}
    <2>1. /\ next.m_state = "IDLE" /\ next.m_frame = r.m_frame
          /\ next.outgoing = NoRequest /\ ~next.m_have_size
      BY <1>2 DEF copy_out_frame_files, RemoteWorkers, Quiet
    <2> HIDE DEF next
    <2>2. QED
      BY <2>1 DEF Asks, is_idle, IndexInRange, CopiedIn, CommonReady, Common, next
  <1>3. CASE left # {}
    <2>1. next = send_request([r EXCEPT !.m_state_index = Min(left)],
                        CopyOutRequest(Min(left), r.m_frame), "RECEIVE_COPY_OUT_FRAME_FILE")
      BY <1>3 DEF copy_out_frame_files
    <2>2. /\ next.m_state = "RECEIVE_COPY_OUT_FRAME_FILE"
          /\ next.m_state_index = Min(left) /\ next.m_frame = r.m_frame
          /\ next.outgoing = CopyOutRequest(Min(left), r.m_frame) /\ ~next.m_have_size
      BY <2>1 DEF send_request, RemoteWorkers
    <2>3. Min(left) \in CopiesLeft(OutCopies, 1, r.m_frame)
      BY <1>1, <1>3, BeforeFirstLeft
    <2> HIDE DEF left, next
    <2>4. Asks(next)
      BY <2>2, <2>3 DEF Asks, is_idle, Requested, IndexInRange
    <2>5. CopiedIn(next, fs)
      BY <2>2 DEF CopiedIn, CommonReady, Common
    <2>6. QED
      BY <2>2, <2>4, <2>5 DEF next
  <1>4. QED
    BY <1>2, <1>3

\* run_frame() on an idle object: the files of all frames are there, those
\* of this one come first.
LEMMA RunFrameTalks ==
  ASSUME NEW r \in RemoteWorkers, Quiet(r), is_idle(r), NEW frame \in FrameSet,
         NEW fs, CopiedIn(r, fs)
  PROVE  LET next == run_frame(r, frame)
         IN  Asks(next) /\ CopiedIn(next, fs)
             /\ next.m_state # "RECEIVE_COPY_OUT_FRAME_FILE"
  <1> DEFINE t == [r EXCEPT !.m_frame = frame, !.m_state_index = 1]
  <1>1. 1 \in Nat \ {0} /\ frame \in FrameSet \cup {NoFrame}
    OBVIOUS
  <1>2. t \in RemoteWorkers /\ Quiet(t) /\ t.m_frame = frame /\ t.m_state_index = 1
    BY <1>1 DEF RemoteWorkers, Quiet
  <1>3. CommonReady(fs)
    BY DEF CopiedIn, CommonReady, Common, is_idle
  <1>4. \A k \in CopiesLeft(InCopies, 1, t.m_frame) : ~(k < t.m_state_index)
    BY <1>2, CopiesAssumption, LenProperties DEF CopiesLeft
  <1>5. run_frame(r, frame) = copy_in_frame_files(t)
    BY DEF run_frame
  <1> HIDE DEF t
  <1>6. QED
    BY <1>2, <1>3, <1>4, <1>5, CopyInFrame

\* dispatch() on a successful response.
LEMMA DispatchTalks ==
  ASSUME NEW r \in RemoteWorkers, r.outgoing = NoRequest, NEW fs, NEW s,
         IndexInRange(r), CopiedIn(r, fs), Promised(r, fs, s),
         r.m_state = "RECEIVE_COPY_OUT_FRAME_FILE" /\ r.m_frame >= 0 => Rendered(fs, r.m_frame)
  PROVE  LET next == dispatch(r)
         IN  /\ Asks(next) /\ CopiedIn(next, fs)
             /\ next.m_state = "RECEIVE_COPY_OUT_FRAME_FILE" /\ next.m_frame >= 0
                  => Rendered(fs, next.m_frame)
  <1> DEFINE q == [r EXCEPT !.m_have_size = FALSE]
  <1>1. /\ q \in RemoteWorkers /\ q.m_frame = r.m_frame /\ Quiet(q)
        /\ q.m_state_index = r.m_state_index /\ q.m_state = r.m_state
    BY DEF RemoteWorkers, Quiet
  <1> HIDE DEF q
  <1>2. /\ 1 \in Nat \ {0} /\ -1 \in Int
        /\ q.m_state_index \in Nat /\ q.m_state_index + 1 \in Nat \ {0}
    BY <1>1 DEF RemoteWorkers
  <1>3. \A frame \in Int : \A k \in CopiesLeft(InCopies, 1, frame) : k \in Nat \ {0}
    BY CopiesAssumption, LenProperties DEF CopiesLeft
  <1>4. CASE r.m_state = "RECEIVE_WELCOME_RESPONSE"
    <2> DEFINE t == [q EXCEPT !.m_proxy_index = -1, !.m_state_index = 1]
    <2>1. t \in RemoteWorkers /\ Quiet(t) /\ t.m_state_index = 1
      BY <1>1, <1>2 DEF RemoteWorkers, Quiet
    <2>2. \A k \in Common : ~(k < t.m_state_index)
      BY <1>3, <2>1 DEF Common
    <2>3. dispatch(r) = copy_in_non_frame_files(t)
      BY <1>4 DEF dispatch, q
    <2> HIDE DEF t
    <2>4. QED
      BY <2>1, <2>2, <2>3, CopyInCommon
  <1>5. CASE r.m_state = "RECEIVE_COPY_IN_NON_FRAME_FILE"
    <2> DEFINE t == [q EXCEPT !.m_state_index = @ + 1]
    <2>1. t \in RemoteWorkers /\ Quiet(t) /\ t.m_state_index = r.m_state_index + 1
      BY <1>1, <1>2 DEF RemoteWorkers, Quiet
    <2>2. \A k \in Common : k < t.m_state_index => k < r.m_state_index \/ k = r.m_state_index
      BY <1>1, <1>2, <1>3, <2>1 DEF Common
    <2>3. \A k \in Common : k < t.m_state_index => Ready(fs, k, -1)
      BY <1>5, <2>2 DEF CopiedIn, Promised, Common
    <2>4. dispatch(r) = copy_in_non_frame_files(t)
      BY <1>5 DEF dispatch, q
    <2> HIDE DEF t
    <2>5. QED
      BY <2>1, <2>3, <2>4, CopyInCommon
  <1>6. CASE r.m_state = "RECEIVE_COPY_IN_FRAME_FILE"
    <2> DEFINE t == [q EXCEPT !.m_state_index = @ + 1]
               all == CopiesLeft(InCopies, 1, r.m_frame)
    <2>1. /\ t \in RemoteWorkers /\ Quiet(t) /\ t.m_state_index = r.m_state_index + 1
          /\ t.m_frame = r.m_frame
      BY <1>1, <1>2 DEF RemoteWorkers, Quiet
    <2>2. \A k \in all : k < t.m_state_index => k < r.m_state_index \/ k = r.m_state_index
      BY <1>1, <1>2, <1>3, <2>1, FrameIsInt DEF RemoteWorkers
    <2>3. t.m_frame >= 0 =>
            \A k \in all : k < t.m_state_index => Ready(fs, k, t.m_frame)
      BY <1>6, <2>1, <2>2 DEF CopiedIn, Promised
    <2>4. dispatch(r) = copy_in_frame_files(t)
      BY <1>6 DEF dispatch, q
    <2>5. CommonReady(fs)
      BY <1>6 DEF CopiedIn, CommonReady, Common
    <2> HIDE DEF t
    <2>6. QED
      BY <2>1, <2>3, <2>4, <2>5, CopyInFrame
  <1>7. CASE r.m_state \in {"RECEIVE_EXECUTE_RESPONSE", "RECEIVE_COPY_OUT_FRAME_FILE"}
    <2>1. PICK index \in Nat \ {0} :
            dispatch(r) = copy_out_frame_files([q EXCEPT !.m_state_index = index])
      BY <1>2, <1>7 DEF dispatch, q
    <2> DEFINE t == [q EXCEPT !.m_state_index = index]
    <2>2. t \in RemoteWorkers /\ Quiet(t) /\ t.m_frame = r.m_frame
      BY <1>1 DEF RemoteWorkers, Quiet
    <2>3. CommonReady(fs)
      BY <1>7 DEF CopiedIn, CommonReady, Common
    <2>4. r.m_frame >= 0 => Rendered(fs, r.m_frame)
      BY <1>7 DEF Promised
    <2> HIDE DEF t
    <2>5. QED
      BY <2>1, <2>2, <2>3, <2>4, CopyOutFrame DEF t
  <1>8. CASE r.m_state = "IDLE"
    <2>1. dispatch(r) = q
      BY <1>8 DEF dispatch, q
    <2>2. QED
      BY <1>1, <1>8, <2>1 DEF Asks, Quiet, is_idle, IndexInRange, CopiedIn
  <1>9. QED
    BY <1>4, <1>5, <1>6, <1>7, <1>8 DEF RemoteWorkers, States, ReceiveStates

LEMMA NewRemoteWorkerTalks ==
  ASSUME NEW valid, NEW proxy_index, NEW fs
  PROVE  LET next == new_remote_worker(valid, proxy_index)
         IN  Asks(next) /\ ~is_idle(next) /\ CopiedIn(next, fs)
             /\ next.m_state # "RECEIVE_COPY_OUT_FRAME_FILE"
  BY DEF new_remote_worker, Asks, is_idle, Requested, IndexInRange, CopiedIn

-----------------------------------------------------------------------------
(* What a worker makes of the requests.                                    *)

LEMMA NamesOfCopies ==
  ASSUME NEW frame \in FrameSet \cup {NoFrame}
  PROVE  /\ \A k \in DOMAIN InCopies :
              InPath(k, frame) \in RemotePaths /\ InContent(k, frame) \in Contents
         /\ \A k \in DOMAIN OutCopies : OutPath(k, frame) \in RemotePaths
  <1>1. \A k \in DOMAIN InCopies : InCopies[k].source \in BOOLEAN /\ InCopies[k].destination \in BOOLEAN
    BY CopyFields DEF FileCopy
  <1>2. \A k \in DOMAIN OutCopies : OutCopies[k].source \in BOOLEAN
    BY CopyFields DEF FileCopy
  <1>3. \A b \in BOOLEAN : substitute_parameter(b, frame) \in Names
    BY ProtocolRequests
  <1>4. QED
    BY <1>1, <1>2, <1>3 DEF InPath, InContent, OutPath, RemotePaths, Contents, Partial

\* The files after the index-th --in copy was made for the frame.
WithCopy(fs, index, frame, content) == [fs EXCEPT ![InPath(index, frame)] = content]

\* A file that is copied in changes no other, and none that is copied out.
LEMMA CopyInKeeps ==
  ASSUME NEW fs \in [RemotePaths -> Contents],
         NEW index \in DOMAIN InCopies, NEW frame \in FrameSet \cup {NoFrame},
         NEW content \in Partial({InContent(index, frame)})
  PROVE  LET more == WithCopy(fs, index, frame, content)
         IN  /\ Ready(more, index, frame)
             /\ \A k \in DOMAIN InCopies, g \in FrameSet \cup {NoFrame} :
                  /\ Ready(fs, k, g)
                  /\ k # index \/ InContent(k, g) = InContent(index, frame)
                  => Ready(more, k, g)
             /\ \A k \in DOMAIN OutCopies, g \in FrameSet \cup {NoFrame} :
                  more[OutPath(k, g)] = fs[OutPath(k, g)]
  <1> DEFINE path == InPath(index, frame)
             more == WithCopy(fs, index, frame, content)
  <1>1. path \in RemotePaths
    BY NamesOfCopies
  <1>2. \A p \in RemotePaths : more[p] = IF p = path THEN content ELSE fs[p]
    BY <1>1 DEF WithCopy
  <1>3. \A k \in DOMAIN InCopies, g \in FrameSet \cup {NoFrame} :
          InPath(k, g) \in RemotePaths /\ (InPath(k, g) = path => k = index)
    BY NamesOfCopies DEF InPath
  <1>4. \A k \in DOMAIN OutCopies, g \in FrameSet \cup {NoFrame} :
          OutPath(k, g) \in RemotePaths /\ OutPath(k, g) # path
    BY NamesOfCopies DEF InPath, OutPath
  <1> HIDE DEF path, more
  <1>5. Ready(more, index, frame)
    BY <1>1, <1>2 DEF Ready, path
  <1>6. QED
    BY <1>2, <1>3, <1>4, <1>5, Zenon DEF Ready, path, more

\* The names of the copies that are made once do not depend on the frame.
LEMMA CommonContent ==
  ASSUME NEW k \in Common, NEW frame
  PROVE  k \in DOMAIN InCopies /\ InContent(k, frame) = InContent(k, -1)
  <1>1. k \in DOMAIN InCopies /\ ~has_parameter(InCopies[k])
    BY CopiesAssumption, LenProperties DEF Common, CopiesLeft, has_parameter
  <1>2. QED
    BY <1>1 DEF has_parameter, InContent, substitute_parameter

\* The requests that an object waits for are requests of the protocol.
LEMMA RequestedIsRequest ==
  ASSUME NEW r \in RemoteWorkers, ~is_idle(r), IndexInRange(r)
  PROVE  Requested(r) \in Requests /\ Requested(r).request_type = ExpectedType(r.m_state)
  <1>1. r.m_frame \in FrameSet \cup {NoFrame} /\ -1 \in FrameSet \cup {NoFrame}
    BY DEF RemoteWorkers, NoFrame
  <1>2. r.m_state \in ReceiveStates
    BY DEF RemoteWorkers, States, is_idle
  <1>3. r.m_state \in {"RECEIVE_COPY_IN_NON_FRAME_FILE", "RECEIVE_COPY_IN_FRAME_FILE"}
          => r.m_state_index \in DOMAIN InCopies
    BY CopiesAssumption, LenProperties DEF IndexInRange, CopiesLeft
  <1>4. r.m_state = "RECEIVE_COPY_OUT_FRAME_FILE" => r.m_state_index \in DOMAIN OutCopies
    BY CopiesAssumption, LenProperties DEF IndexInRange, CopiesLeft
  <1>5. Requested(r) \in Requests
    BY <1>1, <1>2, <1>3, <1>4, ProtocolRequests DEF Requested, ReceiveStates
  <1>6. Requested(r).request_type = ExpectedType(r.m_state)
    BY <1>2 DEF Requested, ReceiveStates, ExpectedType, WelcomeRequest, CopyInRequest,
                ExecuteRequest, CopyOutRequest, Request
  <1>7. QED
    BY <1>5, <1>6

\* What the files of a worker and its response are good for after a request.
Kept(r, fs) ==
  /\ CopiedIn(r, fs)
  /\ NamedForFrame(fs)
  /\ r.m_state = "RECEIVE_COPY_OUT_FRAME_FILE" /\ r.m_frame >= 0 => Rendered(fs, r.m_frame)

LEMMA CopyInHandled ==
  ASSUME NEW r \in RemoteWorkers, IndexInRange(r), NEW fs \in [RemotePaths -> Contents],
         Kept(r, fs), NEW outcome \in Outcomes,
         r.m_state \in {"RECEIVE_COPY_IN_NON_FRAME_FILE", "RECEIVE_COPY_IN_FRAME_FILE"}
  PROVE  LET handled == handle(Requested(r), fs, outcome)
         IN  /\ Kept(r, handled.files)
             /\ handled.response.success => Promised(r, handled.files, handled.response)
  <1> DEFINE handled == handle(Requested(r), fs, outcome)
  <1>1. PICK frame, index : /\ frame = IF r.m_state = "RECEIVE_COPY_IN_FRAME_FILE"
                                       THEN r.m_frame ELSE -1
                            /\ index = r.m_state_index
    OBVIOUS
  <1>2. Requested(r) = CopyInRequest(index, frame)
    BY <1>1 DEF Requested
  <1>3. CASE outcome \notin {"ok", "partial"}
    <2>1. handled = Handled(fs, Response("COPY_IN", FALSE, NoFile))
      BY <1>2, <1>3 DEF handle, handle_copy_in, CopyInRequest, Request
    <2>2. handled.files = fs /\ ~handled.response.success
      BY <2>1 DEF Handled, Response
    <2> HIDE DEF handled
    <2>3. QED
      BY <2>2 DEF handled
  <1>4. CASE outcome \in {"ok", "partial"}
    <2> DEFINE content == Copied(InContent(index, frame), outcome)
               more == WithCopy(fs, index, frame, content)
    <2>1. handled = Handled(more, Response("COPY_IN", TRUE, NoFile))
      BY <1>2, <1>4 DEF handle, handle_copy_in, CopyInRequest, Request, WithCopy
    <2>2. handled.files = more
      BY <2>1 DEF Handled, Response
    <2>3. frame \in FrameSet \cup {NoFrame} /\ frame \in Int /\ -1 \in FrameSet \cup {NoFrame}
      BY <1>1, FrameIsInt DEF RemoteWorkers, NoFrame
    <2>4. index \in CopiesLeft(InCopies, 1, frame)
      BY <1>1 DEF IndexInRange
    <2>5. /\ index \in DOMAIN InCopies
          /\ \A g \in Int : \A k \in CopiesLeft(InCopies, 1, g) : k \in DOMAIN InCopies /\ k \in Int
      BY <2>3, <2>4, CopiesAssumption, LenProperties DEF CopiesLeft
    <2>12. content \in Partial({InContent(index, frame)})
      BY CopiedType
    <2> HIDE DEF handled, more, content
    <2>6. /\ Ready(more, index, frame)
          /\ \A k \in DOMAIN InCopies, g \in FrameSet \cup {NoFrame} :
               /\ Ready(fs, k, g)
               /\ k # index \/ InContent(k, g) = InContent(index, frame)
               => Ready(more, k, g)
          /\ \A k \in DOMAIN OutCopies, g \in FrameSet \cup {NoFrame} :
               more[OutPath(k, g)] = fs[OutPath(k, g)]
      BY <2>3, <2>5, <2>12, CopyInKeeps DEF more
    <2>7. ASSUME NEW k \in Common, Ready(fs, k, -1)
          PROVE  Ready(more, k, -1)
      <3>1. CASE k # index
        BY <2>3, <2>6, <2>7, <3>1, CommonContent
      <3>2. CASE k = index
        BY <2>3, <2>6, <2>7, <3>2, CommonContent
      <3>3. QED
        BY <3>1, <3>2
    <2>8. CopiedIn(r, more)
      <3>1. r.m_state = "RECEIVE_COPY_IN_FRAME_FILE" => r.m_frame = frame
        BY <1>1
      <3>2. \A k \in CopiesLeft(InCopies, 1, frame) :
              k < index /\ Ready(fs, k, frame) => Ready(more, k, frame)
        BY <2>3, <2>5, <2>6
      <3>3. QED
        BY <1>1, <2>7, <3>1, <3>2 DEF Kept, CopiedIn, Common
    <2>9. NamedForFrame(more)
      BY <2>6 DEF Kept, NamedForFrame
    <2>10. Promised(r, more, handled.response)
      BY <1>1, <2>6 DEF Promised
    <2>11. QED
      BY <2>2, <2>8, <2>9, <2>10 DEF Kept, handled
  <1>5. QED
    BY <1>3, <1>4

\* The names of output files that have a frame in them tell it and the copy.
LEMMA FrameInOutPath ==
  ASSUME NEW k \in DOMAIN OutCopies, NEW n \in DOMAIN OutCopies, NEW frame \in Int,
         NEW value \in Int, frame >= 0, OutCopies[k].source,
         OutPath(n, value) = OutPath(k, frame)
  PROVE  value = frame
  <1>1. n = k /\ substitute_parameter(OutCopies[n].source, value)
                   = substitute_parameter(OutCopies[k].source, frame)
    BY DEF OutPath
  <1>2. QED
    BY <1>1 DEF substitute_parameter, Unsubstituted

\* What the program writes for a frame is what the --out copies fetch for it;
\* no name with another frame and no file that was copied in is touched.
LEMMA RenderKeeps ==
  ASSUME NEW fs \in [RemotePaths -> Contents], NEW value \in FrameSet \cup {NoFrame},
         NEW content \in Partial({value})
  PROVE  LET after == RenderedFiles(fs, value, content)
         IN  /\ \A k \in DOMAIN OutCopies : after[OutPath(k, value)] = content
             /\ NamedForFrame(fs) => NamedForFrame(after)
             /\ \A k \in DOMAIN InCopies, g \in FrameSet \cup {NoFrame} :
                  after[InPath(k, g)] = fs[InPath(k, g)]
  <1> DEFINE after == RenderedFiles(fs, value, content)
             written(p) == \E k \in DOMAIN OutCopies : p = OutPath(k, value)
  <1>1. \A p \in RemotePaths : after[p] = IF written(p) THEN content ELSE fs[p]
    BY DEF RenderedFiles
  <1> HIDE DEF after
  <1>2. \A k \in DOMAIN OutCopies : after[OutPath(k, value)] = content
    <2>1. \A k \in DOMAIN OutCopies : OutPath(k, value) \in RemotePaths
      BY NamesOfCopies
    <2>2. QED
      BY <1>1, <2>1, Zenon
  <1>3. ASSUME NEW k \in DOMAIN InCopies, NEW g \in FrameSet \cup {NoFrame}
        PROVE  after[InPath(k, g)] = fs[InPath(k, g)]
    <2>1. InPath(k, g) \in RemotePaths
      BY NamesOfCopies
    <2>2. ~written(InPath(k, g))
      BY DEF InPath, OutPath
    <2>3. QED
      BY <1>1, <2>1, <2>2, Zenon
  <1>4. ASSUME NamedForFrame(fs), NEW k \in DOMAIN OutCopies, NEW frame \in FrameSet,
               frame >= 0, OutCopies[k].source
        PROVE  after[OutPath(k, frame)] \in Partial({NoFile, frame})
    <2>1. OutPath(k, frame) \in RemotePaths /\ fs[OutPath(k, frame)] \in Partial({NoFile, frame})
      BY <1>4, NamesOfCopies DEF NamedForFrame
    <2>2. CASE written(OutPath(k, frame))
      <3>1. frame \in Int /\ value \in Int
        BY FrameIsInt
      <3>2. value = frame
        BY <1>4, <2>2, <3>1, FrameInOutPath
      <3>3. QED
        BY <1>1, <2>1, <2>2, <3>2 DEF Partial
    <2>3. CASE ~written(OutPath(k, frame))
      BY <1>1, <2>1, <2>3
    <2>4. QED
      BY <2>2, <2>3
  <1>5. NamedForFrame(fs) => NamedForFrame(after)
    BY <1>4 DEF NamedForFrame
  <1>6. QED
    BY <1>2, <1>3, <1>5 DEF after

LEMMA ExecuteHandled ==
  ASSUME NEW r \in RemoteWorkers, IndexInRange(r), NEW fs \in [RemotePaths -> Contents],
         Kept(r, fs), NEW outcome \in Outcomes, r.m_state = "RECEIVE_EXECUTE_RESPONSE"
  PROVE  LET handled == handle(Requested(r), fs, outcome)
         IN  /\ Kept(r, handled.files)
             /\ handled.response.success => Promised(r, handled.files, handled.response)
  <1> DEFINE handled == handle(Requested(r), fs, outcome)
             value == substitute_parameter(TRUE, r.m_frame)
             content == Copied(value, outcome)
             after == RenderedFiles(fs, value, content)
  <1>1. /\ value \in FrameSet \cup {NoFrame} /\ r.m_frame \in Int
        /\ r.m_frame >= 0 => value = r.m_frame /\ r.m_frame \in FrameSet
    BY FrameIsInt DEF RemoteWorkers, substitute_parameter, NoFrame, Unsubstituted
  <1>2. Requested(r) = Request("EXECUTE", NoPath, value)
    BY DEF Requested, ExecuteRequest
  <1>3. CASE outcome \in {"ok", "partial"}
    <2>1. handled = Handled(after, Response("EXECUTE", TRUE, NoFile))
      BY <1>2, <1>3 DEF handle, handle_execute, Request
    <2>2. handled.files = after
      BY <2>1 DEF Handled, Response
    <2>10. content \in Partial({value})
      BY CopiedType
    <2> HIDE DEF handled, after, content, value
    <2>3. /\ \A k \in DOMAIN OutCopies : after[OutPath(k, value)] = content
          /\ NamedForFrame(fs) => NamedForFrame(after)
          /\ \A k \in DOMAIN InCopies, g \in FrameSet \cup {NoFrame} :
               after[InPath(k, g)] = fs[InPath(k, g)]
      BY <1>1, <2>10, RenderKeeps DEF after
    <2>4. \A k \in DOMAIN InCopies, g \in FrameSet \cup {NoFrame} :
            Ready(fs, k, g) => Ready(after, k, g)
      BY <2>3 DEF Ready
    <2>5. \A g \in Int : \A k \in CopiesLeft(InCopies, 1, g) : k \in DOMAIN InCopies
      BY CopiesAssumption, LenProperties DEF CopiesLeft
    <2>6. -1 \in Int /\ -1 \in FrameSet \cup {NoFrame} /\ r.m_frame \in FrameSet \cup {NoFrame}
      BY DEF NoFrame, RemoteWorkers
    <2>7. CopiedIn(r, after)
      BY <1>1, <2>4, <2>5, <2>6 DEF Kept, CopiedIn
    <2>8. Promised(r, after, handled.response)
      BY <1>1, <2>3, <2>10 DEF Promised, Rendered, Partial
    <2>9. QED
      BY <2>2, <2>3, <2>7, <2>8 DEF Kept, handled
  <1>4. CASE outcome \notin {"ok", "partial"}
    <2>1. handled = Handled(fs, Response("EXECUTE", outcome \in {"signal", "fork"}, NoFile))
      BY <1>2, <1>4 DEF handle, handle_execute, Request
    <2>2. handled.files = fs /\ (handled.response.success => Faults \cap {"signal", "fork"} # {})
      <3>1. outcome \in {"signal", "fork"} => Faults \cap {"signal", "fork"} # {}
        BY DEF Outcomes
      <3>2. handled.files = fs /\ handled.response.success = (outcome \in {"signal", "fork"})
        BY <2>1 DEF Handled, Response
      <3> HIDE DEF handled
      <3>3. QED
        BY <3>1, <3>2
    <2> HIDE DEF handled
    <2>3. handled.response.success => Promised(r, fs, handled.response)
      BY <1>1, <2>2 DEF Promised, Rendered, StaleOutputTold, Kept, NamedForFrame
    <2>4. QED
      BY <2>2, <2>3 DEF handled
  <1>5. QED
    BY <1>3, <1>4

LEMMA CopyOutHandled ==
  ASSUME NEW r \in RemoteWorkers, IndexInRange(r), NEW fs \in [RemotePaths -> Contents],
         Kept(r, fs), NEW outcome \in Outcomes, r.m_state = "RECEIVE_COPY_OUT_FRAME_FILE"
  PROVE  LET handled == handle(Requested(r), fs, outcome)
         IN  /\ Kept(r, handled.files)
             /\ handled.response.success => Promised(r, handled.files, handled.response)
  <1> DEFINE handled == handle(Requested(r), fs, outcome)
             path == OutPath(r.m_state_index, r.m_frame)
  <1>1. Requested(r) = CopyOutRequest(r.m_state_index, r.m_frame)
    BY DEF Requested
  <1>2. handled = handle_copy_out(Requested(r), fs, outcome) /\ Requested(r).pathname = path
    BY <1>1 DEF handle, CopyOutRequest, Request
  <1> HIDE DEF path
  <1>3. /\ handled.files = fs
        /\ handled.response.success =>
             fs[path] # NoFile /\ handled.response.content \in Partial({fs[path]})
    <2>1. CASE outcome \in {"ok", "partial"} /\ fs[path] # NoFile
      <3>1. PICK content \in Partial({fs[path]}) :
              handled = Handled(fs, Response("COPY_OUT", TRUE, content))
        BY <1>2, <2>1, CopiedType DEF handle_copy_out
      <3>2. QED
        BY <2>1, <3>1 DEF Handled, Response
    <2>2. CASE ~(outcome \in {"ok", "partial"} /\ fs[path] # NoFile)
      <3>1. handled = Handled(fs, Response("COPY_OUT", FALSE, NoFile))
        BY <1>2, <2>2 DEF handle_copy_out
      <3>2. QED
        BY <3>1 DEF Handled, Response
    <2>3. QED
      BY <2>1, <2>2
  <1>4. r.m_state_index \in DOMAIN OutCopies
    BY CopiesAssumption, LenProperties DEF IndexInRange, CopiesLeft
  <1> HIDE DEF handled
  <1>5. handled.response.success => Promised(r, fs, handled.response)
    BY <1>3, <1>4 DEF Promised, Kept, Rendered, Partial, path
  <1>6. QED
    BY <1>3, <1>5 DEF handled

\* Whatever the operating system does, a worker's response is of the type
\* its controller expects and a successful one keeps what it promises.
LEMMA HandleTalks ==
  ASSUME NEW r \in RemoteWorkers, ~is_idle(r), IndexInRange(r),
         NEW fs \in [RemotePaths -> Contents], Kept(r, fs), NEW outcome \in Outcomes
  PROVE  LET handled == handle(Requested(r), fs, outcome)
         IN  /\ handled.files \in [RemotePaths -> Contents]
             /\ handled.response \in Responses
             /\ handled.response.request_type = ExpectedType(r.m_state)
             /\ Kept(r, handled.files)
             /\ handled.response.success => Promised(r, handled.files, handled.response)
  <1> DEFINE handled == handle(Requested(r), fs, outcome)
  <1>1. /\ handled.files \in [RemotePaths -> Contents]
        /\ handled.response \in Responses
        /\ handled.response.request_type = ExpectedType(r.m_state)
    BY RequestedIsRequest, HandleType
  <1>2. /\ Kept(r, handled.files)
        /\ handled.response.success => Promised(r, handled.files, handled.response)
    <2>1. CASE r.m_state = "RECEIVE_WELCOME_RESPONSE"
      <3>1. handled = Handled(fs, Response("WELCOME", TRUE, NoFile))
        BY <2>1 DEF handle, handle_welcome, Requested, WelcomeRequest, Request
      <3>2. handled.files = fs
        BY <3>1 DEF Handled
      <3> HIDE DEF handled
      <3>3. QED
        BY <2>1, <3>2 DEF Promised
    <2>2. QED
      BY <2>1, CopyInHandled, ExecuteHandled, CopyOutHandled
         DEF RemoteWorkers, States, ReceiveStates, is_idle
  <1>3. QED
    BY <1>1, <1>2

-----------------------------------------------------------------------------
(* The steps.  What TalkInv says of one connection only depends on what is *)
(* kept for that connection, and a step moves one connection at most.      *)

Talks(c) ==
  /\ conn[c] \in {"none", "backlog"} => Unsent(c)
  /\ AtPoint(c)
  /\ IndexInRange(rw[c])
  /\ Kept(rw[c], files[c])
  /\ \A s \in Responses :
       (Replying(c, s) \/ Replied(c, s)) /\ s.success => Promised(rw[c], files[c], s)

LEMMA TalkInvIsTalks == TalkInv <=> \A c \in Conns : Talks(c)
  BY DEF TalkInv, Fresh, InStep, FilesInStep, Talks, Kept

\* What a step leaves of a connection that it does not move.
Same(c) == /\ rw'[c] = rw[c] /\ c2w'[c] = c2w[c] /\ w2c'[c] = w2c[c]
           /\ peer'[c] = peer[c] /\ files'[c] = files[c]
Ages(c) == /\ conn[c] \in Closed => conn'[c] \in Closed
           /\ conn'[c] \in {"none", "backlog"} => conn[c] \in {"none", "backlog"}

LEMMA SameTalks ==
  ASSUME NEW c \in Conns, Talks(c), Same(c), Ages(c)
  PROVE  Talks(c)'
  <1>1. /\ Unsent(c)' <=> Unsent(c)
        /\ AtRest(c)' <=> AtRest(c)
        /\ Sent(c)' <=> Sent(c)
        /\ Handling(c)' <=> Handling(c)
        /\ Lost(c) => Lost(c)'
    BY DEF Same, Ages, Unsent, AtRest, Sent, Handling, Lost, Waits, Listens, Silent
  <1>2. \A s : /\ Replying(c, s)' <=> Replying(c, s)
               /\ Replied(c, s)' <=> Replied(c, s)
               /\ Answering(c, s)' <=> Answering(c, s)
    BY DEF Same, Replying, Replied, Answering, Waits, Listens
  <1>3. AtPoint(c)'
    BY <1>1, <1>2 DEF Talks, AtPoint
  <1>4. QED
    BY <1>1, <1>2, <1>3 DEF Talks, Same, Ages

LEMMA OneMoves ==
  ASSUME TalkInv, NEW c \in Conns, Talks(c)',
         \A d \in Conns \ {c} : Same(d) /\ conn'[d] = conn[d]
  PROVE  TalkInv'
  <1>1. ASSUME NEW d \in Conns
        PROVE  Talks(d)'
    <2>1. CASE d = c
      BY <2>1
    <2>2. CASE d # c
      BY <2>2, SameTalks, TalkInvIsTalks DEF Ages
    <2>3. QED
      BY <2>1, <2>2
  <1>2. TalkInv' <=> \A d \in Conns : Talks(d)'
    BY DEF TalkInv, Fresh, InStep, FilesInStep, Talks, Kept
  <1>3. QED
    BY <1>1, <1>2

\* A step that moves no connection, but may end some of them.
LEMMA NoneMoves ==
  ASSUME TalkInv, \A d \in Conns : Same(d) /\ Ages(d)
  PROVE  TalkInv'
  <1>1. \A d \in Conns : Talks(d)'
    BY SameTalks, TalkInvIsTalks
  <1>2. TalkInv' <=> \A d \in Conns : Talks(d)'
    BY DEF TalkInv, Fresh, InStep, FilesInStep, Talks, Kept
  <1>3. QED
    BY <1>1, <1>2

\* A connection without messages whose object is called.
LEMMA CalledTalks ==
  ASSUME NEW c \in Conns,
         Asks(rw'[c]), Kept(rw'[c], files'[c]),
         c2w'[c] = NoRequest, Listens(c)', w2c'[c] = <<>>,
         conn'[c] \notin {"none", "backlog"}
  PROVE  Talks(c)'
  <1>1. (AtRest(c) \/ Unsent(c))'
    BY DEF AtRest, Unsent, Asks, Silent
  <1>2. \A s : ~(Replying(c, s) \/ Replied(c, s))'
    BY DEF Replying, Replied, Listens, Body, Header
  <1>3. QED
    BY <1>1, <1>2 DEF Talks, AtPoint, Asks

\* An object that was just made sends its first request.
LEMMA ConnectedTalks ==
  ASSUME TypeOK, TalkInv, NEW c \in Conns, conn[c] \in {"none", "backlog"},
         NEW valid, NEW proxy_index, NEW state \in {"open", "lost"},
         rw' = [rw EXCEPT ![c] = new_remote_worker(valid, proxy_index)],
         conn' = [conn EXCEPT ![c] = state], UNCHANGED <<c2w, w2c, peer, files>>
  PROVE  TalkInv'
  <1>1. Talks(c) /\ Unsent(c)
    BY TalkInvIsTalks DEF Talks
  <1>2. rw'[c] = new_remote_worker(valid, proxy_index) /\ conn'[c] = state
    BY DEF TypeOK
  <1>3. Asks(rw'[c]) /\ Kept(rw'[c], files'[c])
    BY <1>1, <1>2, NewRemoteWorkerTalks DEF Talks, Kept
  <1>4. c2w'[c] = NoRequest /\ Listens(c)' /\ w2c'[c] = <<>>
    BY <1>1 DEF Unsent, Listens, Silent
  <1>5. Talks(c)'
    BY <1>2, <1>3, <1>4, CalledTalks
  <1>6. \A d \in Conns \ {c} : Same(d) /\ conn'[d] = conn[d]
    BY DEF TypeOK, Same
  <1>7. QED
    BY <1>5, <1>6, OneMoves

LEMMA Parcels ==
  ASSUME NEW a, NEW b
  PROVE  /\ Head(<<a>>) = a /\ Tail(<<a>>) = <<>> /\ <<a>> # <<>>
         /\ Tail(<<a, b>>) = <<b>> /\ <<a, b>> # <<>>
         /\ Append(<<>>, a) = <<a>> /\ Append(<<a>>, b) = <<a, b>>
         /\ <<a>> = <<b>> => a = b
  <1>1. Head(<<a>>) = a /\ <<a>> # <<>> /\ <<a, b>> # <<>>
    OBVIOUS
  <1>2. Tail(<<a>>) = <<>>
    OBVIOUS
  <1>3. Tail(<<a, b>>) = <<b>>
    OBVIOUS
  <1>4. Append(<<>>, a) = <<a>>
    OBVIOUS
  <1>5. Append(<<a>>, b) = <<a, b>>
    <2> DEFINE one == <<a>>
               two == <<a, b>>
    <2>1. /\ one \in Seq({a, b}) /\ Len(one) = 1 /\ one[1] = a
          /\ two \in Seq({a, b}) /\ Len(two) = 2 /\ two[1] = a /\ two[2] = b
      OBVIOUS
    <2> HIDE DEF one, two
    <2> DEFINE more == Append(one, b)
    <2>2. /\ more \in Seq({a, b}) /\ Len(more) = Len(one) + 1
          /\ \A i \in 1..Len(one) : more[i] = one[i]
          /\ more[Len(one) + 1] = b
      <3>1. b \in {a, b} /\ one \in Seq({a, b})
        BY <2>1
      <3>2. QED
        BY <3>1, AppendProperties DEF more
    <2> HIDE DEF more
    <2>3. Len(more) = 2 /\ \A i \in 1..Len(more) : more[i] = two[i]
      BY <2>1, <2>2
    <2>4. more = two
      BY <2>1, <2>2, <2>3, SeqEqual, Zenon
    <2>5. QED
      BY <2>4 DEF one, two, more
  <1>6. <<a>> = <<b>> => a = b
    OBVIOUS
  <1>7. QED
    BY <1>1, <1>2, <1>3, <1>4, <1>5, <1>6

LEMMA BodyTells == \A s, t : /\ Body(s) = Body(t) => s = t
                            /\ Body(s).response = s
  BY DEF Body

\* receive() of the size: the rest of the response stays what it is.
LEMMA ReceiveSizeTalks ==
  ASSUME TypeOK, TalkInv, NEW c \in Conns, ~rw[c].m_have_size, w2c[c] # <<>>,
         rw' = [rw EXCEPT ![c].m_have_size = TRUE], w2c' = [w2c EXCEPT ![c] = Tail(@)],
         UNCHANGED <<conn, c2w, peer, files>>
  PROVE  TalkInv'
  <1> DEFINE r == rw[c]
             q == rw'[c]
  <1>1. Talks(c)
    BY TalkInvIsTalks
  <1>2. /\ r \in RemoteWorkers /\ q = [r EXCEPT !.m_have_size = TRUE]
        /\ w2c'[c] = Tail(w2c[c])
    BY DEF TypeOK
  <1>3. /\ q.m_have_size /\ q.m_state = r.m_state /\ q.m_frame = r.m_frame
        /\ q.m_state_index = r.m_state_index /\ q.outgoing = r.outgoing
    BY <1>2 DEF RemoteWorkers
  <1> HIDE DEF r, q
  <1>4. /\ Requested(q) = Requested(r)
        /\ is_idle(q) <=> is_idle(r)
        /\ IndexInRange(q) <=> IndexInRange(r)
        /\ \A fs : Kept(q, fs) <=> Kept(r, fs)
        /\ \A fs, s : Promised(q, fs, s) <=> Promised(r, fs, s)
    BY <1>3 DEF Requested, is_idle, IndexInRange, Kept, CopiedIn, Promised
  <1>5. PICK s \in Responses : Answering(c, s)
    BY <1>1 DEF Talks, AtPoint, AtRest, Unsent, Sent, Handling, Lost, Silent
  <1>6. Waits(c)' <=> Waits(c)
    BY <1>3, <1>4 DEF Waits, is_idle, r, q
  <1>7. Replying(c, s) => Replying(c, s)'
    BY <1>2, <1>3, <1>6, Parcels DEF Replying, q
  <1>8. Replied(c, s) => Replied(c, s)'
    BY <1>2, <1>3, <1>6, Parcels DEF Replied, Listens, q
  <1>9. ASSUME NEW t, (Replying(c, t) \/ Replied(c, t))'
        PROVE  t = s
    <2>1. CASE Replying(c, s)
      <3>1. peer[c].phase = "reply" /\ peer[c].response = s
        BY <2>1 DEF Replying
      <3>2. QED
        BY <1>9, <3>1 DEF Replying, Replied, Listens
    <2>2. CASE Replied(c, s)
      <3>1. Listens(c) /\ w2c'[c] = <<Body(s)>>
        BY <1>2, <2>2, Parcels DEF Replied
      <3>2. w2c'[c] = <<Body(t)>>
        BY <1>3, <1>9, <3>1 DEF Replying, Replied, Listens, q
      <3>3. QED
        BY <3>1, <3>2, Parcels, BodyTells
    <2>3. QED
      BY <1>5, <2>1, <2>2 DEF Answering
  <1>10. Answering(c, s)' /\ AtPoint(c)'
    BY <1>3, <1>5, <1>7, <1>8 DEF Answering, AtPoint, r, q
  <1>11. conn[c] \notin {"none", "backlog"}
    BY <1>1 DEF Talks, Unsent, Silent
  <1>12. Talks(c)'
    BY <1>1, <1>4, <1>5, <1>9, <1>10, <1>11 DEF Talks, Answering, r, q
  <1>13. \A d \in Conns \ {c} : Same(d) /\ conn'[d] = conn[d]
    BY DEF TypeOK, Same
  <1>14. QED
    BY <1>12, <1>13, OneMoves

\* A response that is complete is the one the object waits for.
LEMMA ResponseInStep ==
  ASSUME TalkInv, NEW c \in Conns, rw[c].m_have_size, w2c[c] # <<>>
  PROVE  \E s \in Responses :
           /\ Head(w2c[c]).response = s /\ Tail(w2c[c]) = <<>>
           /\ Answering(c, s) /\ Replied(c, s)
  <1>1. Talks(c)
    BY TalkInvIsTalks
  <1>2. PICK s \in Responses : Answering(c, s)
    BY <1>1 DEF Talks, AtPoint, AtRest, Unsent, Sent, Handling, Lost, Silent
  <1>3. Replied(c, s) /\ w2c[c] = <<Body(s)>>
    BY <1>2 DEF Answering, Replying, Replied
  <1>4. QED
    BY <1>2, <1>3, Parcels, BodyTells

\* receive() completes the message and dispatch() acts on it.
LEMMA ReceiveMessageTalks ==
  ASSUME TypeOK, TalkInv, NEW c \in Conns, rw[c].m_have_size, w2c[c] # <<>>,
         Head(w2c[c]).response.success,
         rw' = [rw EXCEPT ![c] = dispatch(rw[c])], w2c' = [w2c EXCEPT ![c] = Tail(@)],
         UNCHANGED <<conn, c2w, peer, files>>
  PROVE  TalkInv'
  <1>1. Talks(c)
    BY TalkInvIsTalks
  <1>2. PICK s \in Responses : /\ Head(w2c[c]).response = s /\ Tail(w2c[c]) = <<>>
                               /\ Replied(c, s)
    BY ResponseInStep
  <1>3. /\ rw[c] \in RemoteWorkers /\ rw'[c] = dispatch(rw[c]) /\ w2c'[c] = <<>>
    BY <1>2 DEF TypeOK
  <1>4. rw[c].outgoing = NoRequest /\ Promised(rw[c], files[c], s)
    BY <1>1, <1>2 DEF Talks, Replied, Waits
  <1>5. Asks(rw'[c]) /\ Kept(rw'[c], files'[c])
    BY <1>1, <1>3, <1>4, DispatchTalks DEF Talks, Kept
  <1>6. c2w'[c] = NoRequest /\ Listens(c)' /\ conn'[c] \notin {"none", "backlog"}
    BY <1>1, <1>2 DEF Talks, Replied, Listens, Unsent, Silent
  <1>7. Talks(c)'
    BY <1>3, <1>5, <1>6, CalledTalks
  <1>8. \A d \in Conns \ {c} : Same(d) /\ conn'[d] = conn[d]
    BY DEF TypeOK, Same
  <1>9. QED
    BY <1>7, <1>8, OneMoves

\* run_frame() on an idle object.
LEMMA HandOutTalks ==
  ASSUME TypeOK, TalkInv, NEW c \in Conns, is_idle(rw[c]), NEW frame \in FrameSet,
         rw' = [rw EXCEPT ![c] = run_frame(rw[c], frame)],
         UNCHANGED <<conn, c2w, w2c, peer, files>>
  PROVE  TalkInv'
  <1>1. Talks(c)
    BY TalkInvIsTalks
  <1>2. rw[c] \in RemoteWorkers /\ rw'[c] = run_frame(rw[c], frame)
    BY DEF TypeOK
  <1>3. AtRest(c)
    BY <1>1 DEF Talks, AtPoint, Unsent, Sent, Handling, Lost, Waits, Answering, Replying, Replied
  <1>4. Asks(rw'[c]) /\ Kept(rw'[c], files'[c])
    BY <1>1, <1>2, <1>3, RunFrameTalks DEF Talks, Kept, AtRest, Quiet, Silent
  <1>5. /\ c2w'[c] = NoRequest /\ Listens(c)' /\ w2c'[c] = <<>>
        /\ conn'[c] \notin {"none", "backlog"}
    BY <1>1, <1>3 DEF Talks, AtRest, Listens, Silent, Unsent
  <1>6. Talks(c)'
    BY <1>4, <1>5, CalledTalks
  <1>7. \A d \in Conns \ {c} : Same(d) /\ conn'[d] = conn[d]
    BY DEF TypeOK, Same
  <1>8. QED
    BY <1>6, <1>7, OneMoves

\* OutgoingBuffer::send(): the request leaves the object, and is lost if the
\* other end is gone.
LEMMA SendTalks ==
  ASSUME TypeOK, TalkInv, NEW c \in Conns, need_send(rw[c]),
         conn[c] \notin {"none", "backlog"} \cup HungUp,
         c2w' = [c2w EXCEPT ![c] = IF conn[c] = "open" THEN rw[c].outgoing ELSE @],
         conn' = [conn EXCEPT ![c] = IF @ = "fin" THEN "finsent" ELSE @],
         rw' = [rw EXCEPT ![c].outgoing = NoRequest],
         UNCHANGED <<w2c, peer, files>>
  PROVE  TalkInv'
  <1> DEFINE r == rw[c]
             q == rw'[c]
  <1>1. Talks(c)
    BY TalkInvIsTalks
  <1>2. Unsent(c)
    BY <1>1 DEF Talks, AtPoint, AtRest, Sent, Handling, Lost, Waits, Answering, Replying,
                Replied, need_send
  <1>3. /\ r \in RemoteWorkers /\ q = [r EXCEPT !.outgoing = NoRequest]
        /\ c2w'[c] = IF conn[c] = "open" THEN r.outgoing ELSE c2w[c]
        /\ conn'[c] = IF conn[c] = "fin" THEN "finsent" ELSE conn[c]
        /\ conn[c] \in ConnStates
    BY DEF TypeOK
  <1>4. /\ q.m_have_size = r.m_have_size /\ q.m_state = r.m_state /\ q.m_frame = r.m_frame
        /\ q.m_state_index = r.m_state_index /\ q.outgoing = NoRequest
    BY <1>3 DEF RemoteWorkers
  <1> HIDE DEF r, q
  <1>5. /\ Requested(q) = Requested(r)
        /\ is_idle(q) <=> is_idle(r)
        /\ IndexInRange(q) <=> IndexInRange(r)
        /\ \A fs : Kept(q, fs) <=> Kept(r, fs)
    BY <1>4 DEF Requested, is_idle, IndexInRange, Kept, CopiedIn, Promised
  <1>6. /\ ~is_idle(q) /\ Listens(c)' /\ Silent(c)'
    BY <1>2, <1>4, <1>5 DEF Unsent, Listens, Silent, r, q
  <1>7. Waits(c)'
    BY <1>4, <1>6 DEF Waits, is_idle, q
  <1>8. conn[c] = "open" => Sent(c)'
    <2>1. conn[c] = "open" => c2w'[c] = Requested(q)
      BY <1>2, <1>3, <1>5 DEF Unsent, r
    <2>2. QED
      BY <1>6, <1>7, <2>1 DEF Sent, Requested, q
  <1>9. conn[c] # "open" => Lost(c)'
    <2>1. conn[c] # "open" => c2w'[c] = NoRequest /\ conn'[c] \in Closed
      BY <1>2, <1>3 DEF Unsent, ConnStates, Closed, HungUp
    <2>2. QED
      BY <1>6, <1>7, <2>1 DEF Lost
  <1>10. AtPoint(c)'
    BY <1>8, <1>9 DEF AtPoint
  <1>11. \A s : ~(Replying(c, s) \/ Replied(c, s))'
    BY <1>6 DEF Replying, Replied, Listens, Silent
  <1>12. conn'[c] \notin {"none", "backlog"}
    BY <1>3
  <1>13. Talks(c)'
    BY <1>1, <1>5, <1>10, <1>11, <1>12 DEF Talks, r, q
  <1>14. \A d \in Conns \ {c} : Same(d) /\ conn'[d] = conn[d]
    BY DEF TypeOK, Same
  <1>15. QED
    BY <1>13, <1>14, OneMoves

LEMMA ListensPhase == \A c : Listens(c) => peer[c].phase = "receive"
  BY DEF Listens

\* receive_message() of the worker.
LEMMA WorkerReceivesTalks ==
  ASSUME TypeOK, TalkInv, NEW c \in Conns, WorkerReceives(c)
  PROVE  TalkInv'
  <1>1. Talks(c)
    BY TalkInvIsTalks
  <1>2. /\ conn[c] = "open" /\ c2w[c] # NoRequest /\ c2w' = [c2w EXCEPT ![c] = NoRequest]
        /\ peer' = [peer EXCEPT ![c].phase = "handle", ![c].request = c2w[c]]
        /\ UNCHANGED <<rw, conn, w2c, files>>
    BY DEF WorkerReceives
  <1>3. Sent(c)
    BY <1>1, <1>2 DEF Talks, AtPoint, AtRest, Unsent, Handling, Lost, Answering, Replying, Replied
  <1>4. /\ peer'[c].phase = "handle" /\ peer'[c].request = Requested(rw[c])
        /\ c2w'[c] = NoRequest
    BY <1>2, <1>3 DEF TypeOK, Peers, Sent
  <1>5. Handling(c)'
    BY <1>2, <1>3, <1>4 DEF Sent, Handling, Waits, Silent
  <1>6. \A s : ~(Replying(c, s) \/ Replied(c, s))'
    BY <1>4 DEF Replying, Replied, Listens
  <1>7. Talks(c)'
    BY <1>1, <1>2, <1>5, <1>6 DEF Talks, AtPoint
  <1>8. \A d \in Conns \ {c} : Same(d) /\ conn'[d] = conn[d]
    BY <1>2 DEF TypeOK, Same
  <1>9. QED
    BY <1>7, <1>8, OneMoves

\* The handler of the worker: what it leaves and answers is for the request
\* that the object waits for.
LEMMA WorkerHandlesTalks ==
  ASSUME TypeOK, TalkInv, NEW c \in Conns, WorkerHandles(c)
  PROVE  TalkInv'
  <1> DEFINE r == rw[c]
  <1>1. Talks(c)
    BY TalkInvIsTalks
  <1>2. conn[c] = "open" /\ peer[c].phase = "handle"
    BY DEF WorkerHandles
  <1>3. Handling(c)
    BY <1>1, <1>2, ListensPhase DEF Talks, AtPoint, AtRest, Unsent, Sent, Lost, Answering,
                                    Replying, Replied
  <1>4. PICK outcome \in Outcomes :
          /\ files' = [files EXCEPT ![c] = handle(Requested(r), files[c], outcome).files]
          /\ peer' = [peer EXCEPT ![c] = [phase |-> "reply", request |-> NoRequest,
                        response |-> handle(Requested(r), files[c], outcome).response]]
    BY <1>3 DEF WorkerHandles, Handling
  <1>5. /\ w2c' = [w2c EXCEPT ![c] = Append(@, Header)]
        /\ UNCHANGED <<rw, conn, c2w>>
    BY DEF WorkerHandles, Header
  <1>6. PICK handled, s : handled = handle(Requested(r), files[c], outcome) /\ s = handled.response
    OBVIOUS
  <1>7. /\ r \in RemoteWorkers /\ files[c] \in [RemotePaths -> Contents]
        /\ files'[c] = handled.files
        /\ peer'[c] = [phase |-> "reply", request |-> NoRequest, response |-> s]
        /\ w2c'[c] = Append(w2c[c], Header)
    BY <1>4, <1>5, <1>6 DEF TypeOK
  <1>8. /\ s \in Responses
        /\ s.request_type = ExpectedType(r.m_state)
        /\ Kept(r, handled.files)
        /\ s.success => Promised(r, handled.files, s)
    BY <1>1, <1>3, <1>6, <1>7, HandleTalks DEF Talks, Handling, Waits
  <1>9. w2c'[c] = <<Header>> /\ ~r.m_have_size
    BY <1>3, <1>7, Parcels DEF Handling, Silent
  <1>10. Replying(c, s)'
    BY <1>3, <1>5, <1>7, <1>9 DEF Handling, Replying, Waits
  <1>11. Answering(c, s)' /\ AtPoint(c)'
    BY <1>5, <1>8, <1>10 DEF Answering, AtPoint
  <1>12. \A t : (Replying(c, t) \/ Replied(c, t))' => t = s
    BY <1>7, ListensPhase DEF Replying, Replied, Listens
  <1>13. Talks(c)'
    BY <1>1, <1>2, <1>5, <1>7, <1>8, <1>11, <1>12 DEF Talks
  <1>14. \A d \in Conns \ {c} : Same(d) /\ conn'[d] = conn[d]
    BY <1>4, <1>5 DEF TypeOK, Same
  <1>15. QED
    BY <1>13, <1>14, OneMoves

\* The rest of send_message() of the worker.
LEMMA WorkerRepliesTalks ==
  ASSUME TypeOK, TalkInv, NEW c \in Conns, WorkerReplies(c)
  PROVE  TalkInv'
  <1>1. Talks(c)
    BY TalkInvIsTalks
  <1>2. /\ conn[c] = "open" /\ peer[c].phase = "reply"
        /\ w2c' = [w2c EXCEPT ![c] = Append(@, Body(peer[c].response))]
        /\ peer' = [peer EXCEPT ![c] = [phase |-> "receive", request |-> NoRequest,
                                        response |-> NoResponse]]
        /\ UNCHANGED <<rw, conn, c2w, files>>
    BY DEF WorkerReplies, Body
  <1>3. PICK s \in Responses : Answering(c, s) /\ Replying(c, s)
    BY <1>1, <1>2, ListensPhase DEF Talks, AtPoint, AtRest, Unsent, Sent, Handling, Lost,
                                    Answering, Replied
  <1>4. /\ w2c'[c] = Append(w2c[c], Body(s))
        /\ peer'[c] = [phase |-> "receive", request |-> NoRequest, response |-> NoResponse]
    BY <1>2, <1>3 DEF TypeOK, Replying
  <1>5. w2c'[c] = IF rw[c].m_have_size THEN <<Body(s)>> ELSE <<Header, Body(s)>>
    BY <1>3, <1>4, Parcels DEF Replying
  <1>6. Replied(c, s)'
    BY <1>2, <1>3, <1>4, <1>5 DEF Replying, Replied, Listens, Waits
  <1>7. Answering(c, s)' /\ AtPoint(c)'
    BY <1>2, <1>3, <1>6 DEF Answering, AtPoint
  <1>8. ASSUME NEW t, (Replying(c, t) \/ Replied(c, t))'
        PROVE  t = s
    <2>1. w2c'[c] = IF rw[c].m_have_size THEN <<Body(t)>> ELSE <<Header, Body(t)>>
      BY <1>2, <1>4, <1>8 DEF Replying, Replied
    <2>2. QED
      BY <1>5, <2>1, Parcels, BodyTells
  <1>9. Talks(c)'
    BY <1>1, <1>2, <1>3, <1>7, <1>8 DEF Talks
  <1>10. \A d \in Conns \ {c} : Same(d) /\ conn'[d] = conn[d]
    BY <1>2 DEF TypeOK, Same
  <1>11. QED
    BY <1>9, <1>10, OneMoves

LEMMA TalkInit == Init => TalkInv
  <1> SUFFICES ASSUME Init PROVE TalkInv
    OBVIOUS
  <1>1. ASSUME NEW c \in Conns
        PROVE  Talks(c)
    <2>1. /\ rw[c] = new_remote_worker(FALSE, -1) /\ c2w[c] = NoRequest /\ w2c[c] = <<>>
          /\ Listens(c) /\ files[c] = [p \in RemotePaths |-> NoFile]
      BY DEF Init, Listens
    <2>2. /\ Asks(rw[c]) /\ ~is_idle(rw[c]) /\ CopiedIn(rw[c], files[c])
          /\ rw[c].m_state # "RECEIVE_COPY_OUT_FRAME_FILE"
      <3>1. PICK valid, proxy_index : rw[c] = new_remote_worker(valid, proxy_index)
        BY <2>1
      <3>2. QED
        BY <3>1, NewRemoteWorkerTalks
    <2>3. NamedForFrame(files[c])
      BY <2>1, NamesOfCopies DEF NamedForFrame, Partial
    <2>4. Unsent(c)
      BY <2>1, <2>2 DEF Unsent, Asks, Silent
    <2>5. \A s : ~(Replying(c, s) \/ Replied(c, s))
      BY <2>4, ListensPhase DEF Unsent, Silent, Replying, Replied
    <2>6. QED
      BY <2>2, <2>3, <2>4, <2>5 DEF Talks, Kept, Asks, AtPoint
  <1>2. QED
    BY <1>1, TalkInvIsTalks

\* The steps that leave the objects, the sockets and the workers alone.
LEMMA ControlTalks ==
  ASSUME TalkInv, UNCHANGED <<rw, conn, c2w, w2c, peer, files>>
  PROVE  TalkInv'
  BY NoneMoves DEF Same, Ages

LEMMA StopTalks ==
  ASSUME TalkInv, NEW how, Stop(how)
  PROVE  TalkInv'
  BY ControlTalks DEF Stop

LEMMA ControllerTalks ==
  ASSUME LoopInv, TalkInv, ControllerStep
  PROVE  TalkInv'
  <1>1. TypeOK /\ LiveConnected
    BY DEF LoopInv
  <1>2. CASE \/ LoopTest \/ ProxiesConnected \/ Poll \/ PollFails \/ NothingToRead
             \/ NothingToWrite \/ SendFails \/ NothingToAccept \/ HandedOut
    BY <1>2, ControlTalks DEF LoopTest, ProxiesConnected, Poll, PollFails, NothingToRead,
                              NothingToWrite, SendFails, NothingToAccept, HandedOut, Stop
  <1>3. CASE ConnectProxy
    <2>1. CASE Stop("failed")
      BY <2>1, StopTalks
    <2>2. CASE ~Stop("failed")
      <3>1. PICK c \in Proxied :
              /\ conn[c] = "none"
              /\ conn' = [conn EXCEPT ![c] = "open"]
              /\ rw' = [rw EXCEPT ![c] = new_remote_worker(TRUE, Min(proxy_indices))]
              /\ UNCHANGED <<c2w, w2c, peer, files>>
        BY <1>3, <2>2 DEF ConnectProxy
      <3>2. c \in Conns /\ conn[c] \in {"none", "backlog"} /\ "open" \in {"open", "lost"}
        BY <3>1 DEF Conns
      <3>3. QED
        BY <1>1, <3>1, <3>2, ConnectedTalks, Zenon
    <2>3. QED
      BY <2>1, <2>2
  <1>4. CASE \E c \in Direct : Accept(c)
    <2>1. PICK c \in Direct : Accept(c)
      BY <1>4
    <2>2. c \in Conns /\ conn[c] \in {"none", "backlog"}
      BY <2>1 DEF Accept, Conns
    <2>3. PICK state \in {"open", "lost"}, valid \in BOOLEAN :
            /\ conn' = [conn EXCEPT ![c] = state]
            /\ rw' = [rw EXCEPT ![c] = new_remote_worker(valid, -1)]
            /\ UNCHANGED <<c2w, w2c, peer, files>>
      BY <2>1, Zenon DEF Accept
    <2>4. QED
      BY <1>1, <2>2, <2>3, ConnectedTalks, Zenon
  <1>5. ASSUME NEW c \in Conns, ReceiveSize(c)
        PROVE  TalkInv'
    <2>1. CASE Stop("failed")
      BY <2>1, StopTalks
    <2>2. CASE ~Stop("failed")
      BY <1>1, <1>5, <2>2, ReceiveSizeTalks DEF ReceiveSize
    <2>3. QED
      BY <2>1, <2>2
  <1>6. ASSUME NEW c \in Conns, ReceiveMessage(c)
        PROVE  TalkInv'
    <2>1. CASE \E how \in Stopped : Stop(how)
      BY <2>1, StopTalks
    <2>2. CASE \A how \in Stopped : ~Stop(how)
      <3>1. /\ Head(w2c[c]).response.success /\ w2c[c] # <<>>
            /\ rw' = [rw EXCEPT ![c] = dispatch(rw[c])] /\ w2c' = [w2c EXCEPT ![c] = Tail(@)]
            /\ UNCHANGED <<conn, c2w, peer, files>>
        BY <1>6, <2>2, ReceiveMessageEffect
      <3>2. rw[c].m_have_size
        BY <1>6 DEF ReceiveMessage
      <3>3. QED
        BY <1>1, <3>1, <3>2, ReceiveMessageTalks
    <2>3. QED
      BY <2>1, <2>2
  <1>7. ASSUME NEW c \in Conns, ReceiveEnd(c) \/ ReceiveReset(c) \/ ReceiveError(c)
        PROVE  TalkInv'
    BY <1>7, ControlTalks DEF ReceiveEnd, ReceiveReset, ReceiveError, Stop
  <1>8. CASE Send
    <2>1. poll_index \in 1..Len(workers) /\ Indexed \in Live
      BY <1>1, <1>8, LenProperties
         DEF Send, PastTheEnd, LoopInv, EntriesAligned, Serving, TypeOK, Indexed, Live
    <2>2. Indexed \in Conns /\ conn[Indexed] \notin {"none", "backlog"} \cup HungUp
      BY <1>1, <1>8, <2>1, LiveConns DEF Send, Sendable, LiveConnected
    <2>3. QED
      BY <1>1, <1>8, <2>2, SendTalks DEF Send
  <1>9. CASE Hangup
    BY <1>9, ControlTalks DEF Hangup, Stop
  <1>10. CASE HandOut
    <2>1. CASE Stop("failed")
      BY <2>1, StopTalks
    <2>2. CASE ~Stop("failed")
      <3>1. /\ frames # <<>> /\ IdleIndices # {}
            /\ rw' = [rw EXCEPT ![get_idle_worker] = run_frame(rw[get_idle_worker], Head(frames))]
            /\ UNCHANGED <<conn, c2w, w2c, peer, files>>
        BY <1>1, <1>10, <2>2, HandOutEffect
      <3>2. get_idle_worker \in Conns /\ is_idle(rw[get_idle_worker])
        BY <1>1, <3>1, IdleWorkerFound
      <3>3. Head(frames) \in FrameSet
        BY <1>1, <3>1, HeadTailProperties DEF TypeOK
      <3>4. QED
        BY <1>1, <3>1, <3>2, <3>3, HandOutTalks
    <2>3. QED
      BY <2>1, <2>2
  <1>11. QED
    BY <1>2, <1>3, <1>4, <1>5, <1>6, <1>7, <1>8, <1>9, <1>10 DEF ControllerStep

\* The steps of the sockets move no connection: at most they end it.
LEMMA SocketTalks ==
  ASSUME TypeOK, TalkInv, NEW c \in Conns,
         WorkerConnects(c) \/ PeerCloses(c) \/ ResetArrives(c) \/ NetworkLost(c)
  PROVE  TalkInv'
  <1>1. /\ UNCHANGED <<rw, c2w, w2c, peer, files>>
        /\ \/ conn[c] = "none" /\ conn' = [conn EXCEPT ![c] = "backlog"]
           \/ \E state \in Closed : conn' = [conn EXCEPT ![c] = state]
    BY DEF WorkerConnects, PeerCloses, ResetArrives, NetworkLost, Closed, HungUp
  <1>2. \A d \in Conns : Ages(d)
    BY <1>1 DEF TypeOK, Ages, Closed, HungUp
  <1>3. QED
    BY <1>1, <1>2, NoneMoves DEF Same

LEMMA TalkStep == LoopInv /\ TalkInv /\ [Next]_vars => TalkInv'
  <1> SUFFICES ASSUME LoopInv, TalkInv, [Next]_vars PROVE TalkInv'
    OBVIOUS
  <1>1. TypeOK /\ Direct \subseteq Conns
    BY DEF LoopInv, Conns
  <1>2. CASE ControllerStep
    BY <1>2, ControllerTalks
  <1>3. CASE UNCHANGED vars
    BY <1>3, ControlTalks
  <1>4. QED
    BY <1>1, <1>2, <1>3, SocketTalks, WorkerReceivesTalks, WorkerHandlesTalks,
       WorkerRepliesTalks DEF Next

-----------------------------------------------------------------------------
(* The theorems.                                                           *)

\* Every connection is always at one of the points of the conversation, with
\* the files that this point needs.
THEOREM ConversationInvariant == Spec => []TalkInv
  BY LoopInit, LoopStep, TalkInit, TalkStep, PTL DEF Spec

-----------------------------------------------------------------------------
(* What the points of the conversation say.                                *)

LEMMA RequestedIsSomething ==
  ASSUME TypeOK, TalkInv, NEW c \in Conns, ~is_idle(rw[c])
  PROVE  /\ Requested(rw[c]) # NoRequest
         /\ Requested(rw[c]).request_type = ExpectedType(rw[c].m_state)
  <1>1. rw[c] \in RemoteWorkers /\ IndexInRange(rw[c])
    BY DEF TypeOK, TalkInv, FilesInStep
  <1>2. Requested(rw[c]) \in Requests /\ Requested(rw[c]).request_type = ExpectedType(rw[c].m_state)
    BY <1>1, RequestedIsRequest
  <1>3. NoRequest \notin Requests
    BY DEF NoRequest, Request, Requests, RequestsOf
  <1>4. QED
    BY <1>2, <1>3

\* At each point the message is in one place, or lost with the connection.
LEMMA PlaceAtPoint ==
  ASSUME TypeOK, TalkInv, NEW c \in Conns
  PROVE  \/ Places(c) = {} /\ (is_idle(rw[c]) \/ conn[c] \in Closed)
         \/ ~is_idle(rw[c]) /\ \E place : Places(c) = {place}
  <1>1. Talks(c)
    BY TalkInvIsTalks
  <1>2. w2c[c] = <<>> => ~ \E n \in DOMAIN w2c[c] : w2c[c][n].part = "body"
    OBVIOUS
  <1>3. CASE AtRest(c)
    <2>1. Places(c) = {}
      BY <1>2, <1>3, ListensPhase DEF AtRest, Silent, Places, need_send
    <2>2. QED
      BY <1>3, <2>1 DEF AtRest
  <1>4. CASE Unsent(c)
    <2>1. rw[c].outgoing # NoRequest
      BY <1>4, RequestedIsSomething DEF Unsent
    <2>2. Places(c) = {"buffer"}
      BY <1>2, <1>4, <2>1, ListensPhase DEF Unsent, Silent, Places, need_send
    <2>3. QED
      BY <1>4, <2>2 DEF Unsent
  <1>5. CASE Sent(c)
    <2>1. c2w[c] # NoRequest
      BY <1>5, RequestedIsSomething DEF Sent, Waits
    <2>2. Places(c) = {"request"}
      BY <1>2, <1>5, <2>1, ListensPhase DEF Sent, Silent, Waits, Places, need_send
    <2>3. QED
      BY <1>5, <2>2 DEF Sent, Waits
  <1>6. CASE Handling(c)
    <2>1. Places(c) = {"handler"}
      BY <1>2, <1>6 DEF Handling, Silent, Waits, Places, need_send
    <2>2. QED
      BY <1>6, <2>1 DEF Handling, Waits
  <1>7. CASE Lost(c)
    <2>1. Places(c) = {}
      BY <1>2, <1>7, ListensPhase DEF Lost, Silent, Waits, Places, need_send
    <2>2. QED
      BY <1>7, <2>1 DEF Lost
  <1>8. ASSUME NEW s, Replying(c, s)
        PROVE  ~is_idle(rw[c]) /\ Places(c) = {"reply"}
    <2>1. ~ \E n \in DOMAIN w2c[c] : w2c[c][n].part = "body"
      BY <1>8 DEF Replying, Header
    <2>2. QED
      BY <1>8, <2>1 DEF Replying, Waits, Places, need_send
  <1>9. ASSUME NEW s, Replied(c, s)
        PROVE  ~is_idle(rw[c]) /\ Places(c) = {"response"}
    <2>1. \E n \in DOMAIN w2c[c] : w2c[c][n].part = "body"
      <3>1. CASE rw[c].m_have_size
        <4>1. 1 \in DOMAIN w2c[c] /\ w2c[c][1] = Body(s)
          BY <1>9, <3>1 DEF Replied
        <4>2. QED
          BY <4>1 DEF Body
      <3>2. CASE ~rw[c].m_have_size
        <4>1. 2 \in DOMAIN w2c[c] /\ w2c[c][2] = Body(s)
          BY <1>9, <3>2 DEF Replied
        <4>2. QED
          BY <4>1 DEF Body
      <3>3. QED
        BY <3>1, <3>2
    <2>2. QED
      BY <1>9, <2>1, ListensPhase DEF Replied, Waits, Places, need_send
  <1>10. QED
    BY <1>1, <1>3, <1>4, <1>5, <1>6, <1>7, <1>8, <1>9 DEF Talks, AtPoint, Answering

\* Controller and worker move in lockstep: no request overwrites one that is
\* not sent, no response meets an idle object, and only the end of the
\* connection can lose one.
THEOREM AlwaysLockstep == Spec => []Lockstep
  <1>1. LoopInv /\ TalkInv => Lockstep
    <2> SUFFICES ASSUME LoopInv, TalkInv, NEW c \in Live
                 PROVE  /\ Cardinality(Places(c)) <= (IF is_idle(rw[c]) THEN 0 ELSE 1)
                        /\ conn[c] = "open" /\ ~is_idle(rw[c]) => Places(c) # {}
      BY DEF Lockstep
    <2>1. TypeOK /\ c \in Conns
      BY LiveConns DEF LoopInv
    <2>2. "open" \notin Closed
      BY DEF Closed, HungUp
    <2>3. CASE Places(c) = {} /\ (is_idle(rw[c]) \/ conn[c] \in Closed)
      <3>1. Cardinality(Places(c)) = 0
        BY <2>3, FS_EmptySet
      <3>2. QED
        BY <2>2, <2>3, <3>1
    <2>4. CASE ~is_idle(rw[c]) /\ \E place : Places(c) = {place}
      <3>1. Cardinality(Places(c)) = 1
        BY <2>4, FS_Singleton
      <3>2. QED
        BY <2>4, <3>1
    <2>5. QED
      BY <2>1, <2>3, <2>4, PlaceAtPoint
  <1>2. QED
    BY <1>1, LoopInit, LoopStep, TalkInit, TalkStep, PTL DEF Spec

\* The program of a frame always finds its input files on the worker: those
\* of all frames, and its own instead of those of the frame before.
THEOREM InputsAlwaysReady == Spec => []InputsReady
  <1>1. LoopInv /\ TalkInv => InputsReady
    <2> SUFFICES ASSUME LoopInv, TalkInv, NEW c \in Conns, peer[c].phase = "handle",
                        peer[c].request.request_type = "EXECUTE", NEW k \in DOMAIN InCopies
                 PROVE  IF has_parameter(InCopies[k])
                        THEN peer[c].request.value >= 0
                               => Ready(files[c], k, peer[c].request.value)
                        ELSE Ready(files[c], k, -1)
      BY Zenon DEF InputsReady
    <2> DEFINE r == rw[c]
    <2>1. TypeOK /\ Talks(c) /\ r \in RemoteWorkers
      BY TalkInvIsTalks DEF LoopInv, TypeOK
    <2>2. Handling(c)
      BY <2>1, ListensPhase DEF Talks, AtPoint, AtRest, Unsent, Sent, Lost, Answering, Replying, Replied
    <2>3. ExpectedType(r.m_state) = "EXECUTE"
      BY <2>1, <2>2, RequestedIsSomething DEF Handling, Waits
    <2>4. r.m_state = "RECEIVE_EXECUTE_RESPONSE"
      BY <2>1, <2>3 DEF ExpectedType, RemoteWorkers, States, ReceiveStates
    <2>5. peer[c].request.value = substitute_parameter(TRUE, r.m_frame)
      <3>1. peer[c].request = ExecuteRequest(r.m_frame)
        BY <2>2, <2>4 DEF Handling, Requested
      <3>2. QED
        BY <3>1 DEF ExecuteRequest, Request
    <2>6. r.m_frame \in Int /\ (peer[c].request.value >= 0 => /\ r.m_frame >= 0
                                                              /\ peer[c].request.value = r.m_frame)
      BY <2>1, <2>5, FrameIsInt DEF substitute_parameter, Unsubstituted, RemoteWorkers
    <2>7. CopiedIn(r, files[c])
      BY <2>1 DEF Talks, Kept
    <2>8. /\ has_parameter(InCopies[k])
               => \A frame \in Int : frame >= 0 => k \in CopiesLeft(InCopies, 1, frame)
          /\ ~has_parameter(InCopies[k]) => k \in CopiesLeft(InCopies, 1, -1)
      <3>1. k \in 1..Len(InCopies)
        BY CopiesAssumption, LenProperties
      <3>2. QED
        BY <3>1 DEF CopiesLeft, has_parameter
    <2>9. CASE has_parameter(InCopies[k])
      <3>1. peer[c].request.value >= 0 => k \in CopiesLeft(InCopies, 1, r.m_frame)
        BY <2>6, <2>8, <2>9
      <3>2. peer[c].request.value >= 0 => Ready(files[c], k, r.m_frame)
        BY <2>4, <2>6, <2>7, <3>1 DEF CopiedIn
      <3>3. QED
        BY <2>6, <2>9, <3>2
    <2>10. CASE ~has_parameter(InCopies[k])
      <3>1. k \in CopiesLeft(InCopies, 1, -1)
        BY <2>8, <2>10
      <3>2. QED
        BY <2>4, <2>7, <2>10, <3>1 DEF CopiedIn
    <2>11. QED
      BY <2>9, <2>10
  <1>2. QED
    BY <1>1, LoopInit, LoopStep, TalkInit, TalkStep, PTL DEF Spec

\* A response never is of another type than the state of its object asks
\* for, and no frame is given to an object that has one: the checks that end
\* the controller with exit(1) never fire.
THEOREM NeverAnAssertion == Spec => []NoAssertion
  <1>1. Init => NoAssertion
    BY DEF Init, NoAssertion
  <1>2. LoopInv /\ TalkInv /\ NoAssertion /\ [Next]_vars => NoAssertion'
    <2> SUFFICES ASSUME LoopInv, TalkInv, NoAssertion, [Next]_vars PROVE NoAssertion'
      OBVIOUS
    <2>5. HandOut => pc' # "assertion"
      <3>1. HandOut => run_frame_check(rw[get_idle_worker])
        BY IdleWorkerFound DEF HandOut, LoopInv, run_frame_check
      <3>2. QED
        BY <3>1, Zenon DEF HandOut, Stop, NoAssertion
    <2>1. ASSUME NEW c \in Conns, ReceiveMessage(c)
          PROVE  pc' # "assertion"
      <3>1. rw[c].m_have_size /\ w2c[c] # <<>>
        BY <2>1 DEF ReceiveMessage
      <3>2. Head(w2c[c]).response.request_type = ExpectedType(rw[c].m_state)
        BY <3>1, ResponseInStep DEF Answering
      <3>3. QED
        BY <2>1, <3>2, Zenon DEF ReceiveMessage, Stop, Goto
    <2>2. CASE ControllerStep
      BY <2>1, <2>2, <2>5 DEF ControllerStep, NoAssertion, LoopTest, ConnectProxy, ProxiesConnected,
         Poll, PollFails, NothingToRead, ReceiveSize, ReceiveEnd, ReceiveReset, ReceiveError,
         NothingToWrite, Send, SendFails, Hangup, NothingToAccept, Accept, HandedOut,
         ServedAll, Stop, Goto
    <2>3. CASE UNCHANGED vars
      BY <2>3 DEF NoAssertion
    <2>4. QED
      BY <2>2, <2>3 DEF Next, NoAssertion, WorkerConnects, WorkerReceives, WorkerHandles,
         WorkerReplies, PeerCloses, ResetArrives, NetworkLost
  <1>3. QED
    BY <1>1, <1>2, LoopInit, LoopStep, TalkInit, TalkStep, PTL DEF Spec

\* Of all steps only the response to a COPY_OUT changes a saved file, and
\* what it saves under the name of a frame was made for that frame.
LEMMA SavedMatches ==
  ASSUME StaleOutputTold, TypeOK, TalkInv, OutputsMatchFrame,
         NEW c \in Conns, ReceiveMessage(c), \A how \in Stopped : ~Stop(how)
  PROVE  OutputsMatchFrame'
  <1> DEFINE r == rw[c]
  <1>1. /\ rw[c].m_have_size /\ w2c[c] # <<>>
        /\ Head(w2c[c]).response.success
        /\ r.m_state # "RECEIVE_COPY_OUT_FRAME_FILE" => UNCHANGED local
        /\ r.m_state = "RECEIVE_COPY_OUT_FRAME_FILE" =>
             \E content \in Partial({Head(w2c[c]).response.content}) :
               local' = [local EXCEPT ![OutName(r.m_state_index, r.m_frame)] = content]
    BY ReceiveMessageEffect DEF ReceiveMessage
  <1>2. PICK s \in Responses : Head(w2c[c]).response = s /\ Replied(c, s)
    BY <1>1, ResponseInStep
  <1>3. Talks(c) /\ r \in RemoteWorkers /\ r.m_frame \in Int
    BY TalkInvIsTalks, FrameIsInt DEF TypeOK, RemoteWorkers
  <1>4. Promised(r, files[c], s)
    BY <1>1, <1>2, <1>3 DEF Talks
  <1> HIDE DEF r
  <1>5. CASE r.m_state # "RECEIVE_COPY_OUT_FRAME_FILE"
    BY <1>1, <1>5 DEF OutputsMatchFrame
  <1>6. CASE r.m_state = "RECEIVE_COPY_OUT_FRAME_FILE"
    <2> DEFINE index == r.m_state_index
    <2>3. PICK content \in Partial({s.content}) :
            local' = [local EXCEPT ![OutName(index, r.m_frame)] = content]
      BY <1>1, <1>2, <1>6
    <2>1. ASSUME NEW k \in FrameOutCopies, NEW f \in FrameSet, f >= 0, OutCopies[k].destination
          PROVE  local'[OutName(k, f)] \in Partial({NoFile, f})
      <3>1. k \in DOMAIN OutCopies /\ f \in Int /\ local[OutName(k, f)] \in Partial({NoFile, f})
        BY <2>1, FrameIsInt DEF OutputsMatchFrame, FrameOutCopies
      <3>2. OutName(k, f) \in LocalPaths
        <4>1. substitute_parameter(OutCopies[k].destination, f) \in Names
          BY <2>1 DEF substitute_parameter, Names
        <4>2. QED
          BY <3>1, <4>1 DEF OutName, LocalPaths
      <3>3. local'[OutName(k, f)] = IF OutName(k, f) = OutName(index, r.m_frame)
                                    THEN content ELSE local[OutName(k, f)]
        BY <2>3, <3>2 DEF TypeOK
      <3>4. ASSUME OutName(k, f) = OutName(index, r.m_frame)
            PROVE  content \in Partial({f})
        <4>1. k = index /\ substitute_parameter(OutCopies[k].destination, f)
                              = substitute_parameter(OutCopies[index].destination, r.m_frame)
          BY <3>4 DEF OutName
        <4>2. r.m_frame = f
          BY <1>3, <2>1, <3>1, <4>1 DEF substitute_parameter, Unsubstituted
        <4>3. QED
          BY <1>4, <1>6, <2>1, <2>3, <4>1, <4>2 DEF Promised, Partial
      <3>5. QED
        BY <3>1, <3>3, <3>4 DEF Partial
    <2>2. QED
      BY <2>1 DEF OutputsMatchFrame, FrameOutCopies
  <1>7. QED
    BY <1>5, <1>6

\* A file saved under the name of a frame was rendered for that frame, or is
\* cut short: if no program is killed and no fork() fails, or if every remote
\* name tells the frames apart as the local name does (otherwise the output
\* of an earlier frame passes for that of a program that did not run).
THEOREM OutputsAlwaysMatch ==
  ASSUME StaleOutputTold
  PROVE  Spec => []OutputsMatchFrame
  <1>1. Init => OutputsMatchFrame
    <2> SUFFICES ASSUME Init, NEW k \in FrameOutCopies, NEW f \in FrameSet, f >= 0,
                        OutCopies[k].destination
                 PROVE  local[OutName(k, f)] \in Partial({NoFile, f})
      BY DEF OutputsMatchFrame
    <2>1. OutName(k, f) \in LocalPaths
      BY DEF OutName, LocalPaths, FrameOutCopies, substitute_parameter, Names
    <2>2. QED
      BY <2>1 DEF Init, Partial
  <1>2. LoopInv /\ TalkInv /\ OutputsMatchFrame /\ [Next]_vars => OutputsMatchFrame'
    <2> SUFFICES ASSUME LoopInv, TalkInv, OutputsMatchFrame, [Next]_vars
                 PROVE  OutputsMatchFrame'
      OBVIOUS
    <2>1. TypeOK
      BY DEF LoopInv
    <2>2. CASE UNCHANGED local
      BY <2>2 DEF OutputsMatchFrame
    <2>3. ASSUME NEW c \in Conns, ReceiveMessage(c)
          PROVE  OutputsMatchFrame'
      <3>1. CASE \E how \in Stopped : Stop(how)
        BY <2>2, <3>1 DEF Stop
      <3>2. CASE \A how \in Stopped : ~Stop(how)
        BY <2>1, <2>3, <3>2, SavedMatches
      <3>3. QED
        BY <3>1, <3>2
    <2>4. CASE ControllerStep
      <3>1. UNCHANGED local \/ \E c \in Conns : ReceiveMessage(c)
        BY <2>4 DEF ControllerStep, LoopTest, ConnectProxy, ProxiesConnected,
           Poll, PollFails, NothingToRead, ReceiveSize, ReceiveEnd, ReceiveReset, ReceiveError,
           NothingToWrite, Send, SendFails, Hangup, NothingToAccept, Accept, HandOut, HandedOut,
           Stop
      <3>2. QED
        BY <2>2, <2>3, <3>1
    <2>5. CASE UNCHANGED vars
      BY <2>2, <2>5
    <2>6. QED
      BY <2>2, <2>4, <2>5 DEF Next, WorkerConnects, WorkerReceives, WorkerHandles,
         WorkerReplies, PeerCloses, ResetArrives, NetworkLost
  <1>3. QED
    BY <1>1, <1>2, LoopInit, LoopStep, TalkInit, TalkStep, PTL DEF Spec

\* What the exit status promises where every failed read and write is
\* reported: the controller that returns 0 has the whole output of every
\* frame in a file of its own.
THEOREM FilesCompleteAtReturn ==
  ASSUME StaleOutputTold, "partial" \notin Faults
  PROVE  Spec => []FilesComplete
  <1>1. AllFramesSaved /\ OutputsMatchFrame => FilesComplete
    <2> SUFFICES ASSUME AllFramesSaved, OutputsMatchFrame, pc = "returned",
                        NEW k \in FrameOutCopies, NEW f \in FrameSet, f >= 0,
                        OutCopies[k].destination
                 PROVE  local[OutName(k, f)] = f
      BY DEF FilesComplete
    <2>1. local[OutName(k, f)] # NoFile
      BY DEF AllFramesSaved, Saved
    <2>2. local[OutName(k, f)] \in {NoFile, f}
      BY DEF OutputsMatchFrame, Partial
    <2>3. QED
      BY <2>1, <2>2
  <1>2. QED
    BY <1>1, AllSavedAtReturn, OutputsAlwaysMatch, PTL
=============================================================================
