---------------------------- MODULE RemoteWorker ----------------------------
(***************************************************************************)
(* The controller's view of one worker (RemoteWorker.hpp, .cpp): a state   *)
(* machine that sends one request, waits for its response and moves on.    *)
(* An object is a record and every method is an operator that returns the  *)
(* record the method leaves behind.  Indices count from 1 where the C++    *)
(* counts from 0.                                                          *)
(***************************************************************************)
EXTENDS Drp, FiniteSetsExt

ReceiveStates ==
  {"RECEIVE_WELCOME_RESPONSE", "RECEIVE_COPY_IN_NON_FRAME_FILE",
   "RECEIVE_COPY_IN_FRAME_FILE", "RECEIVE_EXECUTE_RESPONSE",
   "RECEIVE_COPY_OUT_FRAME_FILE"}

\* The SEND_... states are passed through inside dispatch() and never
\* outlive a call; SEND_COPY_OUT_NON_FRAME_FILE, RECEIVE_COPY_OUT_NON_FRAME_FILE
\* and DONE are never entered by any assignment of the code.
States == ReceiveStates \cup {"IDLE"}

RemoteWorkers ==
  [m_state       : States,
   m_state_index : Nat \ {0},
   m_frame       : FrameSet \cup {NoFrame},
   m_proxy_index : Int,
   m_fd_valid    : BOOLEAN,               \* m_fd # -1
   outgoing      : Requests \cup {NoRequest},  \* what need_send() has left to send
   m_have_size   : BOOLEAN]               \* IncomingBuffer::m_have_size

need_send(r) == r.outgoing # NoRequest

is_idle(r) == r.m_state = "IDLE"

send_request(r, request, next_state) ==
  [r EXCEPT !.m_have_size = FALSE, !.outgoing = request, !.m_state = next_state]

-----------------------------------------------------------------------------
(* dispatch(): each operator below runs the do-while loop from a SEND_...  *)
(* state to the next state in which the object waits.                      *)

\* The copies that copy_file_in() and copy_file_out() will not skip, from
\* m_state_index on: those with a parameter when the frame is non-negative,
\* those without one otherwise.
CopiesLeft(copies, index, frame) ==
  {k \in index..Len(copies) : has_parameter(copies[k]) = (frame >= 0)}

\* case SEND_COPY_IN_NON_FRAME_FILE
copy_in_non_frame_files(r) ==
  LET left == CopiesLeft(InCopies, r.m_state_index, -1)
  IN  IF left = {}
      THEN [r EXCEPT !.m_state_index = Len(InCopies) + 1, !.m_state = "IDLE"]
      ELSE send_request([r EXCEPT !.m_state_index = Min(left)],
                        CopyInRequest(Min(left), -1), "RECEIVE_COPY_IN_NON_FRAME_FILE")

\* case SEND_EXECUTE_REQUEST
send_execute_request(r) ==
  send_request(r, ExecuteRequest(r.m_frame), "RECEIVE_EXECUTE_RESPONSE")

\* case SEND_COPY_IN_FRAME_FILE
copy_in_frame_files(r) ==
  LET left == CopiesLeft(InCopies, r.m_state_index, r.m_frame)
  IN  IF left = {}
      THEN send_execute_request([r EXCEPT !.m_state_index = Len(InCopies) + 1])
      ELSE send_request([r EXCEPT !.m_state_index = Min(left)],
                        CopyInRequest(Min(left), r.m_frame), "RECEIVE_COPY_IN_FRAME_FILE")

\* Mutant of copy_out_frame_files: the two states that copy_file_out() gets
\* are swapped.
copy_out_frame_files_Swapped(r) ==
  LET left == CopiesLeft(OutCopies, r.m_state_index, r.m_frame)
  IN  IF left = {}
      THEN [r EXCEPT !.m_state_index = Len(OutCopies) + 1,
                     !.m_state = "RECEIVE_COPY_OUT_FRAME_FILE"]
      ELSE send_request([r EXCEPT !.m_state_index = Min(left)],
                        CopyOutRequest(Min(left), r.m_frame), "IDLE")

\* case SEND_COPY_OUT_FRAME_FILE
copy_out_frame_files(r) ==
  LET left == CopiesLeft(OutCopies, r.m_state_index, r.m_frame)
  IN  IF left = {}
      THEN [r EXCEPT !.m_state_index = Len(OutCopies) + 1, !.m_state = "IDLE"]
      ELSE send_request([r EXCEPT !.m_state_index = Min(left)],
                        CopyOutRequest(Min(left), r.m_frame), "RECEIVE_COPY_OUT_FRAME_FILE")

\* The response type each state insists on in receive_response().  IDLE
\* expects none: dispatch() calls exit(1) there.
ExpectedType(state) ==
  CASE state = "RECEIVE_WELCOME_RESPONSE"       -> "WELCOME"
    [] state = "RECEIVE_COPY_IN_NON_FRAME_FILE" -> "COPY_IN"
    [] state = "RECEIVE_COPY_IN_FRAME_FILE"     -> "COPY_IN"
    [] state = "RECEIVE_EXECUTE_RESPONSE"       -> "EXECUTE"
    [] state = "RECEIVE_COPY_OUT_FRAME_FILE"    -> "COPY_OUT"
    [] OTHER                                    -> "NONE"

\* dispatch() on a successful response of the expected type.  The incoming
\* buffer is reset by receive_response().
dispatch(r) ==
  LET q == [r EXCEPT !.m_have_size = FALSE]
  IN  CASE r.m_state = "RECEIVE_WELCOME_RESPONSE" ->
             copy_in_non_frame_files([q EXCEPT !.m_proxy_index = -1, !.m_state_index = 1])
        [] r.m_state = "RECEIVE_COPY_IN_NON_FRAME_FILE" ->
             copy_in_non_frame_files([q EXCEPT !.m_state_index = @ + 1])
        [] r.m_state = "RECEIVE_COPY_IN_FRAME_FILE" ->
             copy_in_frame_files([q EXCEPT !.m_state_index = @ + 1])
        [] r.m_state = "RECEIVE_EXECUTE_RESPONSE" ->
             copy_out_frame_files([q EXCEPT !.m_state_index = 1])
        [] r.m_state = "RECEIVE_COPY_OUT_FRAME_FILE" ->
             copy_out_frame_files([q EXCEPT !.m_state_index = @ + 1])
        [] OTHER -> q

-----------------------------------------------------------------------------

\* The constructor followed by set_proxy_index() and start(): dispatch() in
\* SEND_WELCOME_REQUEST.
new_remote_worker(fdValid, proxy_index) ==
  [m_state |-> "RECEIVE_WELCOME_RESPONSE", m_state_index |-> 1, m_frame |-> NoFrame,
   m_proxy_index |-> proxy_index, m_fd_valid |-> fdValid,
   outgoing |-> WelcomeRequest, m_have_size |-> FALSE]

\* run_frame() calls exit(1) on an object that is not idle.
run_frame_check(r) == is_idle(r)

\* Mutant of run_frame: m_state_index is not reset.
run_frame_IndexKept(r, frame) == copy_in_frame_files([r EXCEPT !.m_frame = frame])

\* The rest of run_frame().
run_frame(r, frame) ==
  copy_in_frame_files([r EXCEPT !.m_frame = frame, !.m_state_index = 1])
=============================================================================
