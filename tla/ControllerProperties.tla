------------------------ MODULE ControllerProperties ------------------------
(***************************************************************************)
(* What makes a controller and its workers correct, and what the           *)
(* repository's comments and README say of them that does not hold.        *)
(***************************************************************************)
EXTENDS Controller

-----------------------------------------------------------------------------
(* The frames. *)

\* The frames that live RemoteWorkers have in m_frame.
Held == {rw[c].m_frame : c \in Live} \ {NoFrame}

Queued == {frames[n] : n \in DOMAIN frames}

\* The --out copies made after every frame.
FrameOutCopies == {k \in DOMAIN OutCopies : has_parameter(OutCopies[k])}

\* The controller has a file, whole or not, for every copy of the frame.
Saved(frame) == \A k \in FrameOutCopies : local[OutName(k, frame)] # NoFile

\* No frame is handed out twice at a time: the deque has no duplicates, no
\* two live workers have the same m_frame and nothing that a worker has is
\* in the deque, whatever the order in which workers die and kill_worker()
\* puts their frames back.
FrameHeldOnce ==
  /\ \A m, n \in DOMAIN frames : frames[m] = frames[n] => m = n
  /\ \A m, n \in DOMAIN workers :
       /\ workers[m] = workers[n] => m = n
       /\ rw[workers[m]].m_frame = rw[workers[n]].m_frame /\ m # n
            => rw[workers[m]].m_frame = NoFrame
  /\ Held \cap Queued = {}

\* No frame is lost: it waits in the deque, a live worker has it, or its
\* output files are saved, even when its worker dies at any point of the
\* protocol.  The files of a negative frame are never copied.
NoFrameLost ==
  \A f \in FrameSet : f >= 0 => f \in Queued \/ f \in Held \/ Saved(f)

\* An exit status of 0 means that there is a file for every --out copy with
\* a frame number and every frame.  (Whether it is whole is the question of
\* FilesComplete; the copies without a frame number are never made.)
AllFramesSaved ==
  pc = "returned" => \A f \in FrameSet : f >= 0 => Saved(f)

\* A file saved under the name of a frame was rendered for that frame, on
\* whatever worker and after however many tries, or is cut short: it never
\* is the output of another frame.
OutputsMatchFrame ==
  \A k \in FrameOutCopies, f \in FrameSet :
    f >= 0 /\ OutCopies[k].destination => local[OutName(k, f)] \in Partial({NoFile, f})

\* When the controller returns 0, each file with a frame in its name holds the
\* whole output of that frame.  It is what RemoteWorker.cpp:193-196, "Error:
\* Failed to copy file." and exit(-1), is for, and takes that no read or write
\* breaks off after the open, which is all that read_file() and write_file()
\* test ("partial" not in Faults).
FilesComplete ==
  pc = "returned" =>
    \A k \in FrameOutCopies, f \in FrameSet :
      f >= 0 /\ OutCopies[k].destination => local[OutName(k, f)] = f

\* The controller implements WorkQueue.
Frames == {f \in FrameSet : f >= 0}

Q == INSTANCE WorkQueue WITH
  Work <- Frames,
  todo <- Queued \cap Frames,
  held <- Held \cap Frames,
  saved <- {f \in Frames : Saved(f)},
  over <- pc = "returned"

\* In all its steps the controller treats the frames as a queue of work: a
\* frame leaves the deque only for one worker, comes back when that worker is
\* killed, is dropped by a worker only once its files are saved, and a saved
\* file is that of a frame that a worker has.
ActsAsWorkQueue == Q!Spec

-----------------------------------------------------------------------------
(* The conversation between a RemoteWorker and its worker. *)

\* The k-th --in copy was made for the frame (a negative one: for all), as
\* far as the controller and the worker can tell: a copy that broke off
\* counts as made.
Ready(fs, k, frame) == fs[InPath(k, frame)] \in Partial({InContent(k, frame)})

\* When the program is started for a frame, the files of the --in copies are
\* on the worker: the common ones, and the ones of this frame rather than of
\* the frame that the worker had before (there are none of a negative one).
InputsReady ==
  \A c \in Conns :
    peer[c].phase = "handle" /\ peer[c].request.request_type = "EXECUTE"
      => \A k \in DOMAIN InCopies :
           IF has_parameter(InCopies[k])
           THEN peer[c].request.value >= 0 => Ready(files[c], k, peer[c].request.value)
           ELSE Ready(files[c], k, -1)

\* The places in which a request, or the response to it, can be.
Places(c) ==
  (IF need_send(rw[c]) THEN {"buffer"} ELSE {}) \cup
  (IF c2w[c] # NoRequest THEN {"request"} ELSE {}) \cup
  (IF peer[c].phase = "handle" THEN {"handler"} ELSE {}) \cup
  (IF peer[c].phase = "reply" THEN {"reply"} ELSE {}) \cup
  (IF \E n \in DOMAIN w2c[c] : w2c[c][n].part = "body" THEN {"response"} ELSE {})

\* Controller and worker move in lockstep: a RemoteWorker that waits has
\* exactly one message on its way and an idle one has none, so send_request()
\* never overwrites a message that is not sent and no response meets an IDLE
\* object.  Only the end of the connection can take the message away.
Lockstep ==
  \A c \in Live :
    /\ Cardinality(Places(c)) <= (IF is_idle(rw[c]) THEN 0 ELSE 1)
    /\ conn[c] = "open" /\ ~is_idle(rw[c]) => Places(c) # {}

\* The exit(1) checks of receive_response(), dispatch() and run_frame()
\* never fire.
NoAssertion == pc # "assertion"

\* When an entry is read, the vector still has at the entry's index the
\* worker that the entry was made for, although workers with higher indices
\* may have been erased since poll(): this is what going backward is for.
ServedFdAligned ==
  pc = "read" /\ poll_index > 0 =>
    poll_index <= Len(workers) /\ workers[poll_index] = Entry.fd

AtMostOnePending ==
  \A c, d \in Live :
    rw[c].m_proxy_index = rw[d].m_proxy_index /\ c # d => rw[c].m_proxy_index = -1

PendingWhenPolling ==
  pc = "poll" => \A p \in 0..ProxyCount-1 : \E c \in Live : rw[c].m_proxy_index = p

\* No proxy ever has two connections that wait for a worker and, when the
\* controller polls, every proxy has one, however many of the earlier ones
\* were taken by workers or killed since.
OnePendingPerProxy == AtMostOnePending /\ PendingWhenPolling

-----------------------------------------------------------------------------
(* Parts of the inductive invariant of module ControllerProofs. *)

\* ServedFdAligned for the entries that are still to be served, at all the
\* points of the loop over the entries.
Serving == pc \in {"read", "write", "hangup"}

Unserved == IF pc = "read" THEN poll_index ELSE poll_index - 1

EntriesAligned ==
  Serving =>
    /\ pc # "read" => poll_index > 0
    /\ poll_index <= Len(pollfds)
    /\ Unserved <= Len(workers)
    /\ \A n \in 1..Unserved : workers[n] = pollfds[n].fd

\* A RemoteWorker is made for a connection once: the next one has a new
\* connection.
LiveConnected == \A c \in Live : conn[c] \notin {"none", "backlog"}

\* How far an object is with its frame: no frame before the first one is
\* handed out, all the copies before m_state_index saved while it copies out,
\* all of them when it is idle again.
FrameProgress ==
  \A c \in Conns :
    LET r == rw[c]
    IN  /\ r.m_state \in {"RECEIVE_WELCOME_RESPONSE", "RECEIVE_COPY_IN_NON_FRAME_FILE"}
             => r.m_frame = NoFrame
        /\ r.m_state = "RECEIVE_COPY_OUT_FRAME_FILE" /\ r.m_frame >= 0
             => \A k \in FrameOutCopies :
                  k < r.m_state_index => local[OutName(k, r.m_frame)] # NoFile
        /\ is_idle(r) /\ r.m_frame >= 0 => Saved(r.m_frame)

\* The loop is left for good, with no frame waiting and nobody working.
NothingLeft == pc = "returned" => frames = <<>> /\ ~any_worker_working

\* What the theorems are proved from: it holds at first, every step keeps it.
LoopInv == TypeOK /\ EntriesAligned /\ LiveConnected
IndInv  == LoopInv /\ FrameHeldOnce /\ FrameProgress /\ NothingLeft /\ NoFrameLost

-----------------------------------------------------------------------------
(* Parts of the inductive invariant of module ConversationProofs.  A        *)
(* connection is at one of seven points of the conversation; the operators *)
(* with a second argument say that s is the response on its way.           *)

\* The request whose response the object waits for.
Requested(r) ==
  CASE r.m_state = "RECEIVE_WELCOME_RESPONSE"       -> WelcomeRequest
    [] r.m_state = "RECEIVE_COPY_IN_NON_FRAME_FILE" -> CopyInRequest(r.m_state_index, -1)
    [] r.m_state = "RECEIVE_COPY_IN_FRAME_FILE"     -> CopyInRequest(r.m_state_index, r.m_frame)
    [] r.m_state = "RECEIVE_EXECUTE_RESPONSE"       -> ExecuteRequest(r.m_frame)
    [] r.m_state = "RECEIVE_COPY_OUT_FRAME_FILE"    -> CopyOutRequest(r.m_state_index, r.m_frame)
    [] OTHER                                        -> NoRequest

Header == [part |-> "header", response |-> NoResponse]
Body(s) == [part |-> "body", response |-> s]

Silent(c) == ~rw[c].m_have_size /\ w2c[c] = <<>>
Listens(c) ==
  peer[c] = [phase |-> "receive", request |-> NoRequest, response |-> NoResponse]
Waits(c) == ~is_idle(rw[c]) /\ rw[c].outgoing = NoRequest

AtRest(c) ==
  /\ is_idle(rw[c]) /\ rw[c].outgoing = NoRequest
  /\ c2w[c] = NoRequest /\ Listens(c) /\ Silent(c)
Unsent(c) ==
  /\ ~is_idle(rw[c]) /\ rw[c].outgoing = Requested(rw[c])
  /\ c2w[c] = NoRequest /\ Listens(c) /\ Silent(c)
Sent(c) == Waits(c) /\ c2w[c] = Requested(rw[c]) /\ Listens(c) /\ Silent(c)
Handling(c) ==
  /\ Waits(c) /\ c2w[c] = NoRequest
  /\ peer[c].phase = "handle" /\ peer[c].request = Requested(rw[c]) /\ Silent(c)
Replying(c, s) ==
  /\ Waits(c) /\ c2w[c] = NoRequest
  /\ peer[c].phase = "reply" /\ peer[c].response = s
  /\ w2c[c] = IF rw[c].m_have_size THEN <<>> ELSE <<Header>>
Replied(c, s) ==
  /\ Waits(c) /\ c2w[c] = NoRequest /\ Listens(c)
  /\ w2c[c] = IF rw[c].m_have_size THEN <<Body(s)>> ELSE <<Header, Body(s)>>
Lost(c) == Waits(c) /\ c2w[c] = NoRequest /\ Listens(c) /\ Silent(c) /\ conn[c] \in Closed

Answering(c, s) ==
  s.request_type = ExpectedType(rw[c].m_state) /\ (Replying(c, s) \/ Replied(c, s))

AtPoint(c) ==
  \/ AtRest(c) \/ Unsent(c) \/ Sent(c) \/ Handling(c) \/ Lost(c)
  \/ \E s \in Responses : Answering(c, s)

InStep == \A c \in Conns : AtPoint(c)

\* Before a connection is there, its object is as the constructor leaves it.
Fresh == \A c \in Conns : conn[c] \in {"none", "backlog"} => Unsent(c)

\* The index is that of a copy that the state is about.
IndexInRange(r) ==
  /\ r.m_state = "RECEIVE_COPY_IN_NON_FRAME_FILE" => r.m_state_index \in CopiesLeft(InCopies, 1, -1)
  /\ r.m_state = "RECEIVE_COPY_IN_FRAME_FILE" => r.m_state_index \in CopiesLeft(InCopies, 1, r.m_frame)
  /\ r.m_state = "RECEIVE_COPY_OUT_FRAME_FILE" => r.m_state_index \in CopiesLeft(OutCopies, 1, r.m_frame)

\* The --in copies before m_state_index are made, those for all frames from
\* the first frame on, and those for a frame when the program is to be run.
CopiedIn(r, fs) ==
  /\ r.m_state # "RECEIVE_WELCOME_RESPONSE" =>
       \A k \in CopiesLeft(InCopies, 1, -1) :
         (r.m_state = "RECEIVE_COPY_IN_NON_FRAME_FILE" => k < r.m_state_index) => Ready(fs, k, -1)
  /\ r.m_frame >= 0 /\ r.m_state \in {"RECEIVE_COPY_IN_FRAME_FILE", "RECEIVE_EXECUTE_RESPONSE"} =>
       \A k \in CopiesLeft(InCopies, 1, r.m_frame) :
         (r.m_state = "RECEIVE_COPY_IN_FRAME_FILE" => k < r.m_state_index) => Ready(fs, k, r.m_frame)

\* Files with the frame in their name on the worker never mislead.
NamedForFrame(fs) ==
  \A k \in DOMAIN OutCopies, frame \in FrameSet :
    frame >= 0 /\ OutCopies[k].source => fs[OutPath(k, frame)] \in Partial({NoFile, frame})

\* A program that did not run goes unnoticed if it is killed or if fork()
\* fails; then only a name with the frame in it tells the output from that
\* of another frame.
StaleOutputTold ==
  Faults \cap {"signal", "fork"} = {} \/ \A k \in DOMAIN OutCopies :
                                         OutCopies[k].destination => OutCopies[k].source

\* What is fetched for the frame was made for it.
Rendered(fs, frame) ==
  StaleOutputTold =>
    \A k \in DOMAIN OutCopies :
      OutCopies[k].destination => fs[OutPath(k, frame)] \in Partial({NoFile, frame})

\* What a successful response lets the controller take for granted.
Promised(r, fs, s) ==
  /\ r.m_state = "RECEIVE_COPY_IN_NON_FRAME_FILE" => Ready(fs, r.m_state_index, -1)
  /\ r.m_state = "RECEIVE_COPY_IN_FRAME_FILE" /\ r.m_frame >= 0
       => Ready(fs, r.m_state_index, r.m_frame)
  /\ r.m_state = "RECEIVE_EXECUTE_RESPONSE" /\ r.m_frame >= 0 => Rendered(fs, r.m_frame)
  /\ r.m_state = "RECEIVE_COPY_OUT_FRAME_FILE" /\ r.m_frame >= 0
       /\ StaleOutputTold /\ OutCopies[r.m_state_index].destination
       => s.content \in Partial({r.m_frame})

FilesInStep ==
  \A c \in Conns :
    /\ IndexInRange(rw[c])
    /\ CopiedIn(rw[c], files[c])
    /\ NamedForFrame(files[c])
    /\ rw[c].m_state = "RECEIVE_COPY_OUT_FRAME_FILE" /\ rw[c].m_frame >= 0
         => Rendered(files[c], rw[c].m_frame)
    /\ \A s \in Responses :
         (Replying(c, s) \/ Replied(c, s)) /\ s.success => Promised(rw[c], files[c], s)

TalkInv == Fresh /\ InStep /\ FilesInStep

-----------------------------------------------------------------------------
(* Liveness. *)

\* If workers connect and no connection ends, the controller gets all the
\* frames done and exits.
Termination == [](\A c \in Conns : conn[c] \notin Closed) => <>(pc = "returned")

\* A worker that reset its connection does not stay in the vector.
ResetWorkerReaped ==
  \A c \in Conns : conn[c] = "rst" ~> (c \notin Live \/ ~Running)

-----------------------------------------------------------------------------
(* What the repository says and the code does not do. *)

\* controller.cpp:176 "Socket is dead, kill the worker.": only a worker whose
\* connection ended is taken out of the vector.
KillOnlyDead ==
  [][\A c \in Live : c \notin {workers'[k] : k \in DOMAIN workers'} => conn[c] \in Closed]_vars

\* IncomingBuffer.hpp:69 "Other side closed connection. [...] it'll be handled
\* the right way higher up the stack": a worker that closed its connection
\* is taken out of the vector.
ClosedWorkerReaped ==
  \A c \in Conns : conn[c] = "fin" ~> (c \notin Live \/ ~Running)

\* RemoteWorker.cpp:86 "Error: Failed to execute program": a program that
\* fails ends the controller, so what is saved for a frame comes from a
\* program that ran to its end.
SavedWasRendered ==
  \A k \in FrameOutCopies, f \in FrameSet : local[<<k, f>>] # NoFile => f \in rendered
=============================================================================
